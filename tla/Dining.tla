------------------------------- MODULE Dining -------------------------------
(***************************************************************************)
(* What both dining programs (pr13task3-1.c, pr13task3-2.c) are for:       *)
(* philosophers 0 .. N-1 sit in a ring and no two neighbours ever eat at   *)
(* the same time.                                                          *)
(***************************************************************************)
EXTENDS Integers

CONSTANT N

VARIABLE eating     (* who eats: a function from philosophers to BOOLEAN    *)

Philosophers == 0 .. N - 1
Right(p) == (p + 1) % N

Init == eating = [p \in Philosophers |-> FALSE]

Start(p) ==
    /\ ~eating[p]
    /\ \A q \in Philosophers : (q = Right(p) \/ p = Right(q)) => ~eating[q]
    /\ eating' = [eating EXCEPT ![p] = TRUE]

Stop(p) ==
    /\ eating[p]
    /\ eating' = [eating EXCEPT ![p] = FALSE]

Next == \E p \in Philosophers : Start(p) \/ Stop(p)

Spec == Init /\ [][Next]_eating
=============================================================================
