------------------------------ MODULE TryForks ------------------------------
(***************************************************************************)
(* pr13task3-2.c: a philosopher takes both forks at once or none, by       *)
(* pthread_mutex_trylock under forks_mutex, and waits for forks_cond when  *)
(* one is missing.  Every access to a fork is under forks_mutex, whose     *)
(* holder blocks only in pthread_cond_wait, so a critical section up to    *)
(* its wait or unlock is one step.                                         *)
(***************************************************************************)
EXTENDS ForkTable

Hunger(p) == Goto(p, "thinking", "trying") /\ UNCHANGED forks

BothFree(p) == forks[p] = NoOne /\ forks[Right(p)] = NoOne

TakeBoth(p) ==
    /\ Goto(p, "trying", "eating")
    /\ BothFree(p)
    /\ forks' = [forks EXCEPT ![p] = p, ![Right(p)] = p]

(* A fork is taken; if it was the right one the left one is unlocked again. *)
TakeNone(p) ==
    /\ Goto(p, "trying", "waiting")
    /\ ~BothFree(p)
    /\ UNCHANGED forks

(* Mutant: nobody is told that forks were put down. *)
PutDownSilently(p) ==
    /\ Goto(p, "eating", "thinking")
    /\ forks' = [forks EXCEPT ![p] = NoOne, ![Right(p)] = NoOne]

(* Both forks are unlocked and everyone who waits tries again. *)
PutDown(p) ==
    /\ pc[p] = "eating"
    /\ pc' = [q \in Philosophers |-> CASE q = p -> "thinking"
                                       [] q # p /\ pc[q] = "waiting" -> "trying"
                                       [] OTHER -> pc[q]]
    /\ forks' = [forks EXCEPT ![p] = NoOne, ![Right(p)] = NoOne]

SpuriousWakeup(p) == Goto(p, "waiting", "trying") /\ UNCHANGED forks

EatStep(p) == TakeBoth(p) \/ TakeNone(p) \/ PutDown(p)

Next == \E p \in Philosophers : Hunger(p) \/ EatStep(p) \/ SpuriousWakeup(p)

(* A philosopher may think for ever; a hungry or eating one goes on. *)
Spec == Init /\ [][Next]_vars /\ \A p \in Philosophers : WF_vars(EatStep(p))

-----------------------------------------------------------------------------
TypeOK ==
    /\ forks \in [Philosophers -> Philosophers \cup {NoOne}]
    /\ pc \in [Philosophers -> {"thinking", "trying", "waiting", "eating"}]

(* A fork is held by the neighbour that eats, or by nobody: between two    *)
(* critical sections no philosopher holds a single fork.                   *)
HoldsBothOrNone ==
    \A p \in Philosophers :
        /\ forks[p] = p <=> pc[p] = "eating"
        /\ forks[Right(p)] = p <=> pc[p] = "eating"
        /\ forks[p] # NoOne => pc[forks[p]] = "eating"

(* Whoever waits has a neighbour that eats, and whose broadcast is still   *)
(* to come: nobody sleeps through the last fork that is put down.          *)
WaitsForNeighbour ==
    \A p \in Philosophers :
        pc[p] = "waiting" =>
            \E q \in Philosophers : (q = Right(p) \/ p = Right(q)) /\ pc[q] = "eating"

(* Whoever waits gets to try again.  That it then gets both forks is not   *)
(* promised: the two neighbours may take turns.                            *)
SleepersTryAgain ==
    \A p \in Philosophers : (pc[p] = "waiting") ~> (pc[p] = "trying")
=============================================================================
