----------------------------- MODULE TaskQueue -----------------------------
(***************************************************************************)
(* pr12task1.c: producers add tasks to a bounded linked list, workers take *)
(* them; one mutex and one condition variable.  A task that finds the list *)
(* full is dropped with a message.  Every access to the shared variables   *)
(* is under queue_mutex and pthread_cond_wait is the only blocking call    *)
(* under it, so a critical section up to its wait or unlock is one step.   *)
(* A task is its id, given out under the mutex.                            *)
(***************************************************************************)
EXTENDS LinkedList

CONSTANTS
    Producers, Workers,
    Rounds,            (* tasks each producer offers (10)                   *)
    MAX_QUEUE_SIZE,
    MaxSpurious        (* bound: spurious wakeups of pthread_cond_wait      *)

VARIABLES
    task_queue, last_task, next,   (* the list                              *)
    task_count, task_id_counter,
    i,                             (* each producer's loop variable         *)
    pc, current_task,              (* each worker's place and task          *)
    started,                       (* history: tasks taken, in order        *)
    spurious                       (* what MaxSpurious bounds               *)

list == <<task_queue, last_task, next, task_count>>
vars == <<task_queue, last_task, next, task_count, task_id_counter, i, pc,
          current_task, started, spurious>>

Ids     == 0 .. Cardinality(Producers) * Rounds - 1
Waiting == {w \in Workers : pc[w] = "waiting"}

Init ==
    /\ task_queue = Null /\ last_task = Null
    /\ next = [t \in Ids |-> Null]
    /\ task_count = 0 /\ task_id_counter = 0
    /\ i = [p \in Producers |-> 0]
    /\ pc = [w \in Workers |-> "enter"]
    /\ current_task = [w \in Workers |-> Null]
    /\ started = << >>
    /\ spurious = 0

-----------------------------------------------------------------------------
(* producer_thread: one call of add_task per round *)

Round(p) == i[p] < Rounds /\ i' = [i EXCEPT ![p] = @ + 1]

Full == task_count >= MAX_QUEUE_SIZE

Link(t) ==
    /\ task_queue' = IF task_queue = Null THEN t ELSE task_queue
    /\ last_task' = t
    /\ next' = IF task_queue = Null THEN next ELSE [next EXCEPT ![last_task] = t]

(* pthread_cond_signal wakes one waiting worker, if there is one. *)
Signal ==
    \/ Waiting = {} /\ UNCHANGED pc
    \/ \E w \in Waiting : pc' = [pc EXCEPT ![w] = "enter"]

AddTask(p) ==
    /\ Round(p)
    /\ ~Full
    /\ task_id_counter' = task_id_counter + 1
    /\ Link(task_id_counter)
    /\ task_count' = task_count + 1
    /\ Signal
    /\ UNCHANGED <<current_task, started, spurious>>

(* Mutant: the id is drawn before the list is tested. *)
RejectTaskWithId(p) ==
    /\ Round(p)
    /\ Full
    /\ task_id_counter' = task_id_counter + 1
    /\ UNCHANGED <<list, pc, current_task, started, spurious>>

(* The list is full: add_task returns and the producer does not learn of it. *)
RejectTask(p) ==
    /\ Round(p)
    /\ Full
    /\ UNCHANGED <<list, task_id_counter, pc, current_task, started, spurious>>

AllocFails(p) ==
    /\ Round(p)
    /\ ~Full
    /\ UNCHANGED <<list, task_id_counter, pc, current_task, started, spurious>>

-----------------------------------------------------------------------------
(* worker_thread *)

(* The while test, after the lock or on the way out of the wait. *)
Wait(w) ==
    /\ pc[w] = "enter"
    /\ task_count = 0
    /\ pc' = [pc EXCEPT ![w] = "waiting"]
    /\ UNCHANGED <<list, task_id_counter, i, current_task, started, spurious>>

(* Mutant: last_task still points at the task that emptied the list. *)
UnlinkKeepsLast == task_queue' = next[task_queue] /\ UNCHANGED last_task

Unlink ==
    /\ task_queue' = next[task_queue]
    /\ last_task' = IF next[task_queue] = Null THEN Null ELSE last_task

GetTask(w) ==
    /\ pc[w] = "enter"
    /\ task_count > 0
    /\ pc' = [pc EXCEPT ![w] = "process"]
    /\ current_task' = [current_task EXCEPT ![w] = task_queue]
    /\ started' = Append(started, task_queue)
    /\ Unlink
    /\ task_count' = task_count - 1
    /\ UNCHANGED <<next, task_id_counter, i, spurious>>

ProcessTask(w) ==
    /\ pc[w] = "process"
    /\ pc' = [pc EXCEPT ![w] = "enter"]
    /\ current_task' = [current_task EXCEPT ![w] = Null]
    /\ UNCHANGED <<list, task_id_counter, i, started, spurious>>

SpuriousWakeup(w) ==
    /\ spurious < MaxSpurious
    /\ pc[w] = "waiting"
    /\ pc' = [pc EXCEPT ![w] = "enter"]
    /\ spurious' = spurious + 1
    /\ UNCHANGED <<list, task_id_counter, i, current_task, started>>

WorkerStep(w)   == Wait(w) \/ GetTask(w) \/ ProcessTask(w)
ProducerStep(p) == AddTask(p) \/ RejectTask(p) \/ AllocFails(p)

Next ==
    \/ \E p \in Producers : ProducerStep(p)
    \/ \E w \in Workers : WorkerStep(w) \/ SpuriousWakeup(w)

Fairness ==
    /\ \A p \in Producers : WF_vars(ProducerStep(p))
    /\ \A w \in Workers : WF_vars(WorkerStep(w))

Spec == Init /\ [][Next]_vars /\ Fairness

-----------------------------------------------------------------------------
Queued == Chain(task_queue, next)

TypeOK ==
    /\ task_queue \in Ids \cup {Null} /\ last_task \in Ids \cup {Null}
    /\ next \in [Ids -> Ids \cup {Null}]
    /\ task_count \in 0 .. MAX_QUEUE_SIZE
    /\ task_id_counter \in 0 .. Cardinality(Ids)
    /\ i \in [Producers -> 0 .. Rounds]
    /\ pc \in [Workers -> {"enter", "waiting", "process"}]
    /\ current_task \in [Workers -> Ids \cup {Null}]
    /\ started \in Seq(Ids)
    /\ spurious \in 0 .. MaxSpurious

(* The count that the workers wait on is the length of the list.           *)
CountMatchesList ==
    /\ task_count = Len(Queued)
    /\ WellFormed(task_queue, last_task, next)

(* Ids number the accepted tasks without gaps, and tasks are started in    *)
(* the order of their ids, each once, whichever producer added them and    *)
(* whichever worker takes them; a rejected task uses up no id.             *)
StartedInOrder == started \o Queued = [k \in 1 .. task_id_counter |-> k - 1]

Done ==
    /\ \A p \in Producers : i[p] = Rounds
    /\ task_count = 0
    /\ \A w \in Workers : current_task[w] = Null

(* Every accepted task is processed ("All tasks processed",                *)
(* pr12task1.c:175): no worker sleeps through the last add.                *)
AllProcessed == <>[]Done
=============================================================================
