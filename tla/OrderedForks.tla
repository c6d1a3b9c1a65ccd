---------------------------- MODULE OrderedForks ----------------------------
(***************************************************************************)
(* pr13task3-1.c: each fork is a mutex; a philosopher locks two of them    *)
(* one after the other, an even one the left first, an odd one the right   *)
(* first.                                                                  *)
(***************************************************************************)
EXTENDS ForkTable

(* Mutant: everyone starts with the left fork. *)
AllLeft(p)   == TRUE
LeftFirst(p) == p % 2 = 0

First(p)     == IF LeftFirst(p) THEN p ELSE Right(p)
Second(p)    == IF LeftFirst(p) THEN Right(p) ELSE p

Grab(p, f)        == forks[f] = NoOne /\ forks' = [forks EXCEPT ![f] = p]
Drop(f)           == forks' = [forks EXCEPT ![f] = NoOne]

Hunger(p)     == Goto(p, "thinking", "hungry") /\ UNCHANGED forks
GrabFirst(p)  == Goto(p, "hungry", "one_fork") /\ Grab(p, First(p))

(* Mutant: eats without looking at the second fork. *)
EatWithOne(p) == Goto(p, "one_fork", "eating") /\ forks' = [forks EXCEPT ![Second(p)] = p]

GrabSecond(p) == Goto(p, "one_fork", "eating") /\ Grab(p, Second(p))

DropSecond(p) == Goto(p, "eating", "leaving") /\ Drop(Second(p))
DropFirst(p)  == Goto(p, "leaving", "thinking") /\ Drop(First(p))

EatStep(p) == GrabFirst(p) \/ GrabSecond(p) \/ DropSecond(p) \/ DropFirst(p)

Next == \E p \in Philosophers : Hunger(p) \/ EatStep(p)

(* A philosopher may think for ever; a hungry one goes on if its fork      *)
(* stays free.  pthread mutexes promise no more.                           *)
Spec == Init /\ [][Next]_vars /\ \A p \in Philosophers : WF_vars(EatStep(p))

(* A philosopher that puts a fork down sleeps for half a second or more    *)
(* before it locks the fork again (line 29), so that one that waits for    *)
(* the fork gets it before that.                                           *)
FairSpec ==
    /\ Spec
    /\ \A p \in Philosophers : SF_vars(GrabFirst(p)) /\ SF_vars(GrabSecond(p))

-----------------------------------------------------------------------------
TypeOK ==
    /\ forks \in [Philosophers -> Philosophers \cup {NoOne}]
    /\ pc \in [Philosophers -> {"thinking", "hungry", "one_fork", "eating", "leaving"}]

(* A philosopher holds exactly the forks that its place in the loop says.  *)
HoldsForks ==
    \A p \in Philosophers :
        /\ forks[First(p)] = p <=> pc[p] \in {"one_fork", "eating", "leaving"}
        /\ forks[Second(p)] = p <=> pc[p] = "eating"

CanMove(p) ==
    \/ pc[p] \in {"thinking", "eating", "leaving"}
    \/ pc[p] = "hungry" /\ forks[First(p)] = NoOne
    \/ pc[p] = "one_fork" /\ forks[Second(p)] = NoOne

(* Whoever waits for a fork waits, directly or through at most two others, *)
(* for a philosopher who can go on: the order of locking leaves no circle  *)
(* of waiting, for an even and for an odd number of philosophers.          *)
Blocker(p) == forks[IF pc[p] = "hungry" THEN First(p) ELSE Second(p)]
NoCircularWait ==
    \A p \in Philosophers :
        \/ CanMove(p)
        \/ CanMove(Blocker(p))
        \/ CanMove(Blocker(Blocker(p)))
        \/ CanMove(Blocker(Blocker(Blocker(p))))

(* With mutexes that are fair enough, everyone who is hungry eats. *)
NoStarvation ==
    \A p \in Philosophers : (pc[p] = "hungry") ~> (pc[p] = "eating")
=============================================================================
