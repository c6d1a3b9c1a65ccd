-------------------------------- MODULE Cats --------------------------------
(***************************************************************************)
(* pr13task2.c: cats eat from one bowl and their owner fills it up, with   *)
(* one mutex and a condition variable each way.  food_amount is read and   *)
(* written under bowl_mutex only, whose holder blocks only in its wait, so *)
(* a critical section up to its wait or unlock is one step.                *)
(***************************************************************************)
EXTENDS Integers

CONSTANTS
    CatIds,
    MAX_FOOD, MIN_FOOD, CAT_EAT_AMOUNT,   (* CAT_EAT <= MIN < MAX      *)
    InitialFood         (* 500 in the code                                  *)

VARIABLES
    food_amount,
    owner,              (* awake: at its lock; waiting: on need_more_food   *)
    cat                 (* likewise for each cat, on food_available         *)

vars == <<food_amount, owner, cat>>

Init ==
    /\ food_amount = InitialFood
    /\ owner = "awake"
    /\ cat = [c \in CatIds |-> "awake"]

Low   == food_amount <= MIN_FOOD
Empty == food_amount < CAT_EAT_AMOUNT

-----------------------------------------------------------------------------
(* The owner *)

OwnerWaits ==
    /\ owner = "awake" /\ ~Low
    /\ owner' = "waiting"
    /\ UNCHANGED <<food_amount, cat>>

(* Mutant: a signal where the code broadcasts. *)
TellOneCat ==
    \/ \E c \in CatIds : cat[c] = "waiting" /\ cat' = [cat EXCEPT ![c] = "awake"]
    \/ (\A c \in CatIds : cat[c] # "waiting") /\ UNCHANGED cat

TellCats == cat' = [c \in CatIds |-> IF cat[c] = "waiting" THEN "awake" ELSE cat[c]]

OwnerFills ==
    /\ owner = "awake" /\ Low
    /\ food_amount' = MAX_FOOD
    /\ TellCats
    /\ owner' = "asleep"

OwnerWakes == owner = "asleep" /\ owner' = "awake" /\ UNCHANGED <<food_amount, cat>>

-----------------------------------------------------------------------------
(* The cats *)

TellOwner == owner' = IF owner = "waiting" THEN "awake" ELSE owner

CatWaits(c) ==
    /\ cat[c] = "awake" /\ Empty
    /\ cat' = [cat EXCEPT ![c] = "waiting"]
    /\ IF Low THEN TellOwner ELSE UNCHANGED owner
    /\ UNCHANGED food_amount

(* Mutant: food that is low before the meal is what the owner hears of.    *)
CallsForMoreTooLate == IF Low THEN TellOwner ELSE UNCHANGED owner

CallsForMore == IF food_amount' <= MIN_FOOD THEN TellOwner ELSE UNCHANGED owner

CatEats(c) ==
    /\ cat[c] = "awake" /\ ~Empty
    /\ food_amount' = food_amount - CAT_EAT_AMOUNT
    /\ cat' = [cat EXCEPT ![c] = "asleep"]
    /\ CallsForMore

CatWakes(c) ==
    /\ cat[c] = "asleep"
    /\ cat' = [cat EXCEPT ![c] = "awake"]
    /\ UNCHANGED <<food_amount, owner>>

(* pthread_cond_wait may return for no reason. *)
SpuriousWakeup ==
    /\ UNCHANGED food_amount
    /\ \/ owner = "waiting" /\ owner' = "awake" /\ UNCHANGED cat
       \/ \E c \in CatIds : /\ cat[c] = "waiting" /\ cat' = [cat EXCEPT ![c] = "awake"]
                            /\ UNCHANGED owner

OwnerStep == OwnerWaits \/ OwnerFills \/ OwnerWakes
CatStep(c) == CatWaits(c) \/ CatEats(c) \/ CatWakes(c)

Next == OwnerStep \/ (\E c \in CatIds : CatStep(c)) \/ SpuriousWakeup

(* Every thread runs and gets the mutex some time: sleep ends, and a lock  *)
(* that is wanted is always free again.                                    *)
Spec == Init /\ [][Next]_vars /\ WF_vars(OwnerStep) /\ \A c \in CatIds : WF_vars(CatStep(c))

-----------------------------------------------------------------------------
(* Nobody sleeps on a condition that has come true: the owner does not     *)
(* wait while the food is low, though the cats' signals are lost on an     *)
(* owner in sleep(2), and no cat waits beside a bowl it could eat from.    *)
NobodyMissesOut ==
    /\ owner = "waiting" => ~Low
    /\ \A c \in CatIds : cat[c] = "waiting" => Empty

(* A cat that goes hungry at an empty bowl gets to look at a full one.     *)
(* That it then eats is not promised: the others may be faster, each time. *)
HungryCatsAreCalled ==
    \A c \in CatIds : cat[c] = "waiting" ~> cat[c] = "awake"
=============================================================================
