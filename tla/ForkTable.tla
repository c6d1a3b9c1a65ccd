----------------------------- MODULE ForkTable -----------------------------
(***************************************************************************)
(* What the two dining programs (pr13task3-1.c, pr13task3-2.c) share: a    *)
(* ring of philosophers with a mutex per fork.  Fork f lies between        *)
(* philosophers f - 1 and f.                                               *)
(***************************************************************************)
EXTENDS Integers

CONSTANTS N,             (* PHILOSOPHERS_COUNT                              *)
          NoOne

Philosophers == 0 .. N - 1
Right(p)     == (p + 1) % N

VARIABLES forks,         (* the philosopher that holds each fork, or NoOne  *)
          pc             (* where each philosopher is in its loop           *)

vars == <<forks, pc>>

Init ==
    /\ forks = [f \in Philosophers |-> NoOne]
    /\ pc = [p \in Philosophers |-> "thinking"]

Goto(p, from, to) == pc[p] = from /\ pc' = [pc EXCEPT ![p] = to]

Table == INSTANCE Dining WITH
    eating <- [p \in Philosophers |-> pc[p] = "eating"]

(* The philosophers implement the abstract table: two neighbours never eat *)
(* at the same time.                                                       *)
ImplementsDining == Table!Spec
=============================================================================
