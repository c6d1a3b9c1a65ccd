----------------------------- MODULE NumberGen -----------------------------
(***************************************************************************)
(* pr13task1.c: a generator of numbers, one thread for the even and one    *)
(* for the odd ones.  Everything shared is touched under the one mutex,    *)
(* whose holder blocks only in pthread_cond_wait: a critical section up to *)
(* its wait or its unlock is one step.                                     *)
(***************************************************************************)
EXTENDS Integers

CONSTANT Numbers       (* what rand() % 100 + 1 may give                    *)

ASSUME NumbersAssumption == Numbers \subseteq Nat

Calculators == {"square", "cube"}

VARIABLES
    number, number_ready,
    calc               (* "lock" or "waiting" for each calculator           *)

numberVars == <<number, number_ready, calc>>

NumberInit ==
    /\ number = 0 /\ number_ready = FALSE
    /\ calc = [c \in Calculators |-> "lock"]

(* Mutant: the signal is for one thread only. *)
WakeOne == \/ \A c \in Calculators : calc[c] = "lock" /\ UNCHANGED calc
           \/ \E c \in Calculators : calc[c] = "waiting" /\ calc' = [calc EXCEPT ![c] = "lock"]

WakeAll == calc' = [c \in Calculators |-> "lock"]

(* The last number is replaced, used or not. *)
Generate ==
    /\ number' \in Numbers
    /\ number_ready' = TRUE
    /\ WakeAll

ForMe(c) == number_ready /\ (number % 2 = 0 <=> c = "square")

Calculate(c) ==
    /\ calc[c] = "lock" /\ ForMe(c)
    /\ number_ready' = FALSE
    /\ UNCHANGED <<number, calc>>

WaitForNumber(c) ==
    /\ calc[c] = "lock" /\ ~ForMe(c)
    /\ calc' = [calc EXCEPT ![c] = "waiting"]
    /\ UNCHANGED <<number, number_ready>>

SpuriousCalc(c) ==
    /\ calc[c] = "waiting" /\ calc' = [calc EXCEPT ![c] = "lock"]
    /\ UNCHANGED <<number, number_ready>>

CalcStep(c) == Calculate(c) \/ WaitForNumber(c)
NumberNext  == Generate \/ \E c \in Calculators : CalcStep(c) \/ SpuriousCalc(c)

NumberSpec == NumberInit /\ [][NumberNext]_numberVars

-----------------------------------------------------------------------------
(* Nobody sleeps beside a number that is ready and meant for him: the      *)
(* broadcast reaches both, and the number is not taken by the wrong one.   *)
NoSleeperForNumber == \A c \in Calculators : ForMe(c) => calc[c] = "lock"

(* A number that is ready is used, or replaced by the next one first.      *)
NumberIsUsed(n) == ~number_ready \/ number # n
=============================================================================
