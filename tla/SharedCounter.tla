--------------------------- MODULE SharedCounter ---------------------------
(***************************************************************************)
(* A counter incremented by several threads or processes, a read and a     *)
(* store each: test_safe_counter and then test_unsafe_counter of           *)
(* pr11task3.c, and the two processes of pr10t1.c, who have no lock        *)
(* either: main goes straight to that phase.                               *)
(***************************************************************************)
EXTENDS Integers, FiniteSets

CONSTANTS
    Counters,          (* the threads, or the parent and its child          *)
    ITERATIONS,        (* increments of each                                *)
    Nobody

VARIABLES
    phase,             (* main: "start", "safe", "unsafe" or "end"          *)
    global_counter, counter_mutex,
    at, old_value, left,           (* place, local and rounds of each       *)
    final              (* what was printed at the end of each phase         *)

counterVars == <<phase, global_counter, counter_mutex, at, old_value, left, final>>

CounterInit ==
    /\ phase = "start" /\ global_counter = 0 /\ counter_mutex = Nobody
    /\ at = [t \in Counters |-> "loop"]
    /\ old_value = [t \in Counters |-> 0] /\ left = [t \in Counters |-> 0]
    /\ final = [p \in {"safe", "unsafe"} |-> 0]

Move(t, from, to) == at[t] = from /\ at' = [at EXCEPT ![t] = to]

(* The counter is reset and everybody is started. *)
Begin(p) ==
    /\ phase' = p
    /\ global_counter' = 0
    /\ left' = [t \in Counters |-> ITERATIONS]
    /\ UNCHANGED <<counter_mutex, at, old_value>>

(* pr11task3.c begins with the mutex, pr10t1.c without. *)
Start == phase = "start" /\ (Begin("safe") \/ Begin("unsafe")) /\ UNCHANGED final

(* Mutant: nobody waits for the mutex. *)
LockAnyway(t) == counter_mutex' = t

Lock(t) == counter_mutex = Nobody /\ counter_mutex' = t

Enter(t) ==
    /\ phase = "safe" /\ left[t] > 0
    /\ Move(t, "loop", "read")
    /\ Lock(t)
    /\ UNCHANGED <<phase, global_counter, old_value, left, final>>

EnterUnsafe(t) ==
    /\ phase = "unsafe" /\ left[t] > 0
    /\ Move(t, "loop", "read")
    /\ UNCHANGED <<phase, global_counter, counter_mutex, old_value, left, final>>

Read(t) ==
    /\ Move(t, "read", "store")
    /\ old_value' = [old_value EXCEPT ![t] = global_counter]
    /\ UNCHANGED <<phase, global_counter, counter_mutex, left, final>>

Store(t) ==
    /\ Move(t, "store", "loop")
    /\ global_counter' = old_value[t] + 1
    /\ left' = [left EXCEPT ![t] = @ - 1]
    /\ counter_mutex' = Nobody             (* the unlock, if it was locked  *)
    /\ UNCHANGED <<phase, old_value, final>>

(* All joined, or the child waited for. *)
Joined ==
    /\ phase \in {"safe", "unsafe"}
    /\ \A t \in Counters : left[t] = 0
    /\ final' = [final EXCEPT ![phase] = global_counter]
    /\ \/ phase = "safe" /\ Begin("unsafe")
       \/ phase = "unsafe" /\ phase' = "end"
             /\ UNCHANGED <<global_counter, counter_mutex, at, old_value, left>>

CounterStep(t) == Enter(t) \/ EnterUnsafe(t) \/ Read(t) \/ Store(t)
CounterMain    == Start \/ Joined
CounterNext    == CounterMain \/ \E t \in Counters : CounterStep(t)

-----------------------------------------------------------------------------
Expected == Cardinality(Counters) * ITERATIONS

(* "SUCCESS - No data loss" (pr11task3.c:83) is what the first phase prints. *)
(* Without the mutex updates are lost, but two of them survive whatever    *)
(* the interleaving: an increment that nothing follows, and one of another *)
(* thread's after the oldest value still in hand was read.                 *)
FinalCounts ==
    /\ final["safe"] \in {0, Expected}
    /\ phase = "end" => final["unsafe"] \in (IF ITERATIONS = 1 THEN 1 ELSE 2) .. Expected

(* All threads return, with the mutex and without.                         *)
BothPhases == phase = "end"
=============================================================================
