----------------------------- MODULE ThreadJoin -----------------------------
(***************************************************************************)
(* pr11task4.c: demonstrate_join_mechanism with its random numbers of      *)
(* operations, then demonstrate_execution_modes: the same work by threads  *)
(* one after the other and by threads all at once.  Every thread adds to   *)
(* shared_result under result_mutex; main joins in the order of creation.  *)
(***************************************************************************)
EXTENDS Integers, FiniteSetsExt

CONSTANTS
    NUM_THREADS,       (* 6 in the first part of the code, 3 in the second  *)
    MAX_OPERATIONS     (* 8 at random, 3 for all in the second part         *)

Workers == 1 .. NUM_THREADS
Stages  == <<"join", "sequential", "parallel", "end">>

VARIABLES
    stage,             (* index into Stages                                 *)
    operations_count, shared_result, result_mutex,
    task, local_sum, i,        (* of each thread: place, sum read, loop     *)
    created, joined,           (* main's two loops                          *)
    stage_results      (* what main printed of shared_result in each stage  *)

joinVars == <<stage, operations_count, shared_result, result_mutex, task, local_sum, i,
              created, joined, stage_results>>

base_value(t) == t
Free == 0              (* result_mutex is not held                          *)

JoinInit ==
    /\ stage = 1
    /\ operations_count \in [Workers -> 1 .. MAX_OPERATIONS]
    /\ shared_result = 0 /\ result_mutex = Free
    /\ task = [t \in Workers |-> "none"]
    /\ local_sum = [t \in Workers |-> 0] /\ i = [t \in Workers |-> 0]
    /\ created = 0 /\ joined = 0
    /\ stage_results = [s \in 1 .. 3 |-> 0]

(* In the sequential stage the last thread is joined first. *)
Create ==
    /\ stage < 4 /\ created < NUM_THREADS
    /\ Stages[stage] = "sequential" => joined = created
    /\ created' = created + 1
    /\ task' = [task EXCEPT ![created + 1] = "lock"]
    /\ UNCHANGED <<stage, operations_count, shared_result, result_mutex, local_sum, i, joined,
                   stage_results>>

Busy(t, from, to) == task[t] = from /\ task' = [task EXCEPT ![t] = to]

(* Mutant: the addition is not protected. *)
Unprotected(t) == UNCHANGED result_mutex

Protected(t) == result_mutex = Free /\ result_mutex' = t

(* pthread_mutex_lock, and the read of shared_result. *)
Operate(t) ==
    /\ Busy(t, "lock", "add")
    /\ i[t] < operations_count[t]
    /\ Protected(t)
    /\ local_sum' = [local_sum EXCEPT ![t] = shared_result]
    /\ UNCHANGED <<stage, operations_count, shared_result, i, created, joined, stage_results>>

Add(t) ==
    /\ Busy(t, "add", "lock")
    /\ shared_result' = local_sum[t] + base_value(t) * (i[t] + 1)
    /\ i' = [i EXCEPT ![t] = @ + 1]
    /\ local_sum' = [local_sum EXCEPT ![t] = 0]
    /\ result_mutex' = Free
    /\ UNCHANGED <<stage, operations_count, created, joined, stage_results>>

Return(t) ==
    /\ Busy(t, "lock", "returned")
    /\ i[t] = operations_count[t]
    /\ UNCHANGED <<stage, operations_count, shared_result, result_mutex, local_sum, i,
                   created, joined, stage_results>>

(* The joins start when all are created, but in the sequential stage. *)
Join ==
    /\ joined < created
    /\ Stages[stage] = "sequential" \/ created = NUM_THREADS
    /\ task[joined + 1] = "returned"
    /\ joined' = joined + 1
    /\ UNCHANGED <<stage, operations_count, shared_result, result_mutex, task, local_sum, i,
                   created, stage_results>>

(* All joined: the result is printed, and set to 0 for a next stage. *)
NextStage ==
    /\ stage < 4 /\ joined = NUM_THREADS
    /\ stage_results' = [stage_results EXCEPT ![stage] = shared_result]
    /\ stage' = stage + 1
    /\ shared_result' = IF stage < 3 THEN 0 ELSE shared_result
    /\ operations_count' = [t \in Workers |-> MAX_OPERATIONS]
    /\ created' = 0 /\ joined' = 0
    /\ task' = [t \in Workers |-> "none"] /\ i' = [t \in Workers |-> 0]
    /\ UNCHANGED <<result_mutex, local_sum>>

JoinWork(t) == Operate(t) \/ Add(t) \/ Return(t)
JoinMain == Create \/ Join \/ NextStage
JoinNext == JoinMain \/ \E t \in Workers : JoinWork(t)

-----------------------------------------------------------------------------
(* The sum of base_value * (i + 1) over a thread's first n operations.     *)
Share(t, n) == base_value(t) * ((n * (n + 1)) \div 2)

(* shared_result is the sum of what the threads have done, at every moment *)
(* somebody could look: so a stage prints its full sum, and the sequential *)
(* and the parallel result (pr11task4.c:118, :131) are the same.           *)
SumsAreFull ==
    /\ (stage < 4 /\ result_mutex = Free) =>
          shared_result = MapThenSumSet(LAMBDA t : Share(t, i[t]), Workers)
    /\ stage = 4 => stage_results[2] = stage_results[3]
    /\ joined > 0 => \A t \in 1 .. joined : i[t] = operations_count[t]

(* All threads return and all joins succeed.                               *)
AllStages == stage = 4
=============================================================================
