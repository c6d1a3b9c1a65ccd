---------------------------- MODULE MCListQueues ----------------------------
(***************************************************************************)
(* The three programs with a hand-written list, proxy2.c, pr12task1.c and  *)
(* pr12task2.c, side by side, on the same names for the parts of the list: *)
(* a behaviour is one of the program chosen at its start.                  *)
(***************************************************************************)
EXTENDS LinkedList

CONSTANTS Producers, Workers, Rounds, Total, MAX_QUEUE_SIZE, Fds, MaxConns, MaxSpurious, NoThread

VARIABLES
    program,
    first, last, next,            (* the list                               *)
    pc, hand, spurious,           (* the workers                            *)
    count,                        (* of the list, but in proxy2.c           *)
    task_id_counter, round, started,                   (* pr12task1.c only  *)
    cond_mutex, i,                                     (* pr12task2.c only  *)
    main,                                  (* pr12task2.c and proxy2.c only *)
    shutdown, queue_mutex, client_fd, open, conns      (* proxy2.c only     *)

Task == INSTANCE TaskQueue WITH
    task_queue <- first, last_task <- last, task_count <- count,
    current_task <- hand, i <- round

Req == INSTANCE RequestQueue WITH
    requests <- first, last_request <- last, num_requests <- count,
    a_request <- hand

Pool == INSTANCE ThreadPool WITH head <- first, tail <- last, job <- hand

(* Identities do not collide, the programs' constants are counts, and the  *)
(* pool is not empty: NUM_HANDLER_THREADS is 3, proxy2.c:153 refuses 0.     *)
ASSUME ListQueuesAssumption ==
    /\ IsFiniteSet(Producers) /\ IsFiniteSet(Fds) /\ Workers # {}
    /\ {Rounds, Total, MAX_QUEUE_SIZE, MaxSpurious} \subseteq Nat
    /\ NoThread \notin Workers
    /\ Null \notin Task!Ids \cup Req!Requests \cup Fds

IsTask == program = "pr12task1"
IsReq  == program = "pr12task2"
IsPool == program = "proxy2"

taskVars == <<task_id_counter, round, started>>
reqVars  == <<cond_mutex, i>>
poolVars == <<shutdown, queue_mutex, client_fd, open, conns>>
mcVars   == <<program, first, last, next, count, pc, hand, spurious, main,
              taskVars, reqVars, poolVars>>

(* What the program that runs does not have. *)
NoTask == task_id_counter = 0 /\ round = [p \in Producers |-> 0] /\ started = << >>
NoReq  == cond_mutex = NoThread /\ i = 0
NoPool == shutdown = FALSE /\ queue_mutex = NoThread /\ client_fd = Null /\ open = {} /\ conns = 0

MCInit ==
    \/ IsTask /\ Task!Init /\ NoReq /\ NoPool /\ main = "none"
    \/ IsReq /\ Req!Init /\ NoTask /\ NoPool
    \/ IsPool /\ Pool!Init /\ NoTask /\ NoReq /\ count = 0

InTask(A) == IsTask /\ A /\ UNCHANGED <<program, reqVars, poolVars, main>>
InReq(A)  == IsReq /\ A /\ UNCHANGED <<program, taskVars, poolVars>>
InPool(A) == IsPool /\ A /\ UNCHANGED <<program, taskVars, reqVars, count>>

MCNext == InTask(Task!Next) \/ InReq(Req!Next) \/ InPool(Pool!Next)

(* The fairness of TaskQueue, RequestQueue and ThreadPool: one program     *)
(* runs, so conditions of different programs may share a formula.          *)
Worker(w) == InTask(Task!WorkerStep(w)) \/ InReq(Req!WorkerStep(w)) \/ InPool(Pool!WorkerStep(w))
MCFairness ==
    /\ \A w \in Workers : WF_mcVars(Worker(w))
    /\ \A p \in Producers : WF_mcVars(InTask(Task!ProducerStep(p)))
    /\ WF_mcVars(InReq(Req!MainStep) \/ InPool(Pool!AddStep))
    /\ WF_mcVars(InPool(Pool!ShutdownStep))

MCSpec == MCInit /\ [][MCNext]_mcVars /\ MCFairness

-----------------------------------------------------------------------------
(* The list can be read at its first node and appended to at its last, and *)
(* the count two of the programs test in place of the pointers is its      *)
(* length, at most MAX_QUEUE_SIZE in pr12task1.c.                          *)
CountMatchesList ==
    /\ IsTask => Task!TypeOK /\ Task!CountMatchesList
    /\ IsReq => Req!TypeOK /\ Req!CountMatchesList
    /\ IsPool => Pool!ListReady

(* proxy2.c: every open descriptor has one owner, who closes it once.      *)
FdOwnership == IsPool => Pool!FdOwnership

(* pr12task1.c: tasks are started in the order of their ids, without gaps. *)
StartedInOrder == IsTask => Task!StartedInOrder

(* pr12task2.c: no handler sleeps through the last request.                *)
NoMissedSignal == IsReq => Req!NoMissedSignal

(* All three implement the abstract work queue, in which an item is its    *)
(* number or its descriptor.                                               *)
Items == Task!Ids \cup Req!Requests \cup Fds
Work  == INSTANCE WorkQueue WITH
    NoItem <- Null, line <- Chain(first, next)
ImplementsWorkQueue == Work!Spec

(* "All tasks processed" (pr12task1.c:175), "All requests processed"       *)
(* (pr12task2.c:164): in the end nothing is queued and nothing in hand; no *)
(* job of proxy2.c stays in the list unless the pool shuts down.           *)
AllDone == <>[](CASE IsTask -> Task!Done [] IsReq -> Req!Done [] IsPool -> Pool!Served)
=============================================================================
