----------------------------- MODULE LinkedList -----------------------------
(***************************************************************************)
(* The singly linked queue that proxy2.c, pr12task1.c and pr12task2.c each *)
(* write out: a pointer to the first node, one to the last, and a `next`   *)
(* field per node.  Null is the null pointer.                              *)
(***************************************************************************)
EXTENDS Integers, Sequences, FiniteSets

CONSTANT Null

(* The pointers read from `first` on along `next`, one per node and one    *)
(* more, Null from the end of the list on.                                 *)
Walk(first, next) ==
    LET at[k \in 0 .. Cardinality(DOMAIN next)] ==
            IF k = 0 THEN first
            ELSE IF at[k - 1] = Null THEN Null ELSE next[at[k - 1]]
    IN  at

(* The nodes in list order.  A list that ran into a cycle would show a     *)
(* node twice, since the walk is one step longer than there are nodes.     *)
Chain(first, next) ==
    LET at == Walk(first, next)
    IN  [k \in 1 .. Cardinality({j \in DOMAIN at : at[j] # Null}) |-> at[k - 1]]

(* The shape that lets the code append at the last node: first and last    *)
(* are null together, the last node ends the list, no node occurs twice.   *)
WellFormed(first, last, next) ==
    LET c == Chain(first, next)
    IN  /\ \A a, b \in DOMAIN c : c[a] = c[b] => a = b
        /\ last = IF c = << >> THEN Null ELSE c[Len(c)]
=============================================================================
