----------------------------- MODULE WorkQueue -----------------------------
(***************************************************************************)
(* What the three hand-written work queues of the repository (proxy2.c,    *)
(* pr12task1.c, pr12task2.c) promise: work submitted is handed out first   *)
(* in first out, each item to one worker that has nothing else in hand,    *)
(* and it leaves the queue in no other way.                                *)
(***************************************************************************)
EXTENDS Sequences, SequencesExt

CONSTANTS Workers, Items, NoItem

VARIABLES line,    (* submitted and not yet taken, oldest first             *)
          hand     (* the item each worker is working on, or NoItem         *)

workVars == <<line, hand>>

Init == line = << >> /\ hand = [w \in Workers |-> NoItem]

Submit(x) ==
    /\ x \notin ToSet(line)
    /\ \A w \in Workers : hand[w] # x
    /\ line' = Append(line, x)
    /\ UNCHANGED hand

Take(w) ==
    /\ line # << >>
    /\ hand[w] = NoItem
    /\ hand' = [hand EXCEPT ![w] = Head(line)]
    /\ line' = Tail(line)

Finish(w) ==
    /\ hand[w] # NoItem
    /\ hand' = [hand EXCEPT ![w] = NoItem]
    /\ UNCHANGED line

Next ==
    \/ \E x \in Items : Submit(x)
    \/ \E w \in Workers : Take(w) \/ Finish(w)

Spec == Init /\ [][Next]_workVars
=============================================================================
