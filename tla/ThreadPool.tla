----------------------------- MODULE ThreadPool -----------------------------
(***************************************************************************)
(* proxy2.c: a main thread accepts connections and queues each as a job    *)
(* for a fixed pool of workers.  The queue is a linked list under          *)
(* queue_mutex with a condition variable; `shutdown` is set by main        *)
(* WITHOUT the mutex, so a worker's test of it and its wait are separate   *)
(* steps here.  A job is identified by its descriptor while that is open.  *)
(***************************************************************************)
EXTENDS LinkedList

CONSTANTS
    Workers,
    Fds,             (* descriptors accept may return                       *)
    MaxConns,        (* bound: connections accepted                         *)
    MaxSpurious,     (* bound: spurious wakeups of pthread_cond_wait        *)
    NoThread

VARIABLES
    head, tail, next,        (* the job list                                *)
    shutdown,
    queue_mutex,             (* its holder, or NoThread                     *)
    pc, job,                 (* each worker's place and job->client_fd      *)
    main, client_fd,         (* main's place and the accepted descriptor    *)
    open,                    (* client descriptors not yet closed           *)
    conns, spurious          (* what the bounds count                       *)

jobs   == <<head, tail, next>>
worker == <<pc, job>>
mains  == <<main, client_fd>>
vars   == <<head, tail, next, shutdown, queue_mutex, pc, job, main, client_fd,
            open, conns, spurious>>

Goto(w, from, to) == pc[w] = from /\ pc' = [pc EXCEPT ![w] = to]
MainGoto(from, to) == main = from /\ main' = to
Waiting == {w \in Workers : pc[w] = "waiting"}

Init ==
    /\ head = Null /\ tail = Null
    /\ next = [f \in Fds |-> Null]
    /\ shutdown = FALSE
    /\ queue_mutex = NoThread
    /\ pc = [w \in Workers |-> "lock"]
    /\ job = [w \in Workers |-> Null]
    /\ main = "select" /\ client_fd = Null
    /\ open = {}
    /\ conns = 0 /\ spurious = 0

-----------------------------------------------------------------------------
(* worker_thread_func *)

(* pthread_mutex_lock, also on the way out of pthread_cond_wait. *)
Lock(w) ==
    /\ Goto(w, "lock", "test")
    /\ queue_mutex = NoThread
    /\ queue_mutex' = w
    /\ UNCHANGED <<jobs, shutdown, job, mains, open, conns, spurious>>

Test(w) ==
    /\ Goto(w, "test", IF head = Null /\ ~shutdown THEN "sleep" ELSE "check")
    /\ UNCHANGED <<jobs, shutdown, queue_mutex, job, mains, open, conns, spurious>>

(* pthread_cond_wait: releasing the mutex and starting to wait are one. *)
Sleep(w) ==
    /\ Goto(w, "sleep", "waiting")
    /\ queue_mutex' = NoThread
    /\ UNCHANGED <<jobs, shutdown, job, mains, open, conns, spurious>>

SpuriousWakeup(w) ==
    /\ spurious < MaxSpurious
    /\ Goto(w, "waiting", "lock")
    /\ spurious' = spurious + 1
    /\ UNCHANGED <<jobs, shutdown, queue_mutex, job, mains, open, conns>>

Exit(w) ==
    /\ Goto(w, "check", "exited")
    /\ shutdown
    /\ queue_mutex' = NoThread
    /\ UNCHANGED <<jobs, shutdown, job, mains, open, conns, spurious>>

Unlink ==
    /\ head' = next[head]
    /\ tail' = IF next[head] = Null THEN Null ELSE tail

TakeJob(w) ==
    /\ Goto(w, "check", "handle")
    /\ ~shutdown
    /\ head # Null                  (* else the code reads a null pointer   *)
    /\ job' = [job EXCEPT ![w] = head]
    /\ Unlink
    /\ queue_mutex' = NoThread
    /\ UNCHANGED <<next, shutdown, mains, open, conns, spurious>>

(* handle_client_request: recv blocks until the client sends or closes. *)
Handle(w) ==
    /\ Goto(w, "handle", "close")
    /\ UNCHANGED <<jobs, shutdown, queue_mutex, job, mains, open, conns, spurious>>

CloseJob(w) ==
    /\ Goto(w, "close", "lock")
    /\ open' = open \ {job[w]}
    /\ job' = [job EXCEPT ![w] = Null]
    /\ UNCHANGED <<jobs, shutdown, queue_mutex, mains, conns, spurious>>

WorkerStep(w) ==
    \/ Lock(w) \/ Test(w) \/ Sleep(w) \/ Exit(w)
    \/ TakeJob(w) \/ Handle(w) \/ CloseJob(w)

-----------------------------------------------------------------------------
(* main and thread_pool_add_job *)

Accept(f) ==
    /\ MainGoto("select", "add")
    /\ conns < MaxConns
    /\ f \notin open
    /\ open' = open \cup {f}
    /\ client_fd' = f
    /\ conns' = conns + 1
    /\ UNCHANGED <<jobs, shutdown, queue_mutex, worker, spurious>>

(* Mutant: the error path forgets the connection. *)
AllocFailsLeaks ==
    /\ MainGoto("add", "select")
    /\ client_fd' = Null
    /\ UNCHANGED <<jobs, shutdown, queue_mutex, worker, open, conns, spurious>>

(* malloc fails: the connection is closed and no job is made. *)
AllocFails ==
    /\ MainGoto("add", "select")
    /\ open' = open \ {client_fd}
    /\ client_fd' = Null
    /\ UNCHANGED <<jobs, shutdown, queue_mutex, worker, conns, spurious>>

Link(f) ==
    /\ head' = IF tail = Null THEN f ELSE head
    /\ tail' = f
    /\ next' = [n \in Fds |-> IF n = f THEN Null
                              ELSE IF n = tail THEN f ELSE next[n]]

(* Mutant: nobody is signalled. *)
SignalNobody == UNCHANGED pc

(* pthread_cond_signal wakes one waiting worker, if there is one. *)
Signal ==
    \/ Waiting = {} /\ UNCHANGED pc
    \/ \E w \in Waiting : pc' = [pc EXCEPT ![w] = "lock"]

(* The critical section of thread_pool_add_job never blocks: one step. *)
AddJob ==
    /\ MainGoto("add", "select")
    /\ queue_mutex = NoThread
    /\ Link(client_fd)
    /\ Signal
    /\ client_fd' = Null
    /\ UNCHANGED <<shutdown, queue_mutex, job, open, conns, spurious>>

(* select fails with something other than EINTR: the loop is left. *)
SelectFails ==
    /\ MainGoto("select", "shutdown")
    /\ UNCHANGED <<jobs, shutdown, queue_mutex, worker, client_fd, open, conns, spurious>>

SetShutdown ==
    /\ MainGoto("shutdown", "broadcast")
    /\ shutdown' = TRUE
    /\ UNCHANGED <<jobs, queue_mutex, worker, client_fd, open, conns, spurious>>

Broadcast ==
    /\ MainGoto("broadcast", "join")
    /\ pc' = [w \in Workers |-> IF w \in Waiting THEN "lock" ELSE pc[w]]
    /\ UNCHANGED <<jobs, shutdown, queue_mutex, job, client_fd, open, conns, spurious>>

(* The joins, then the destruction of the mutex and the condition. *)
JoinAll ==
    /\ MainGoto("join", "destroyed")
    /\ \A w \in Workers : pc[w] = "exited"
    /\ UNCHANGED <<jobs, shutdown, queue_mutex, worker, client_fd, open, conns, spurious>>

AddStep      == AllocFails \/ AddJob
ShutdownStep == SetShutdown \/ Broadcast \/ JoinAll

Next ==
    \/ \E w \in Workers : WorkerStep(w) \/ SpuriousWakeup(w)
    \/ \E f \in Fds : Accept(f)
    \/ AddStep \/ SelectFails \/ ShutdownStep

(* Workers run, clients eventually send or close (Handle), and main goes   *)
(* on once it has accepted or left its loop; no connection need ever come. *)
Fairness ==
    /\ \A w \in Workers : WF_vars(WorkerStep(w))
    /\ WF_vars(AddStep) /\ WF_vars(ShutdownStep)

Spec == Init /\ [][Next]_vars /\ Fairness

-----------------------------------------------------------------------------
Queued == Chain(head, next)

(* The list is well formed whenever it can be read, and a worker past the  *)
(* shutdown test has a job to take: line 75 never reads a null head.       *)
ListReady ==
    /\ WellFormed(head, tail, next)
    /\ \A w \in Workers : (pc[w] = "check" /\ ~shutdown) => head # Null

(* Every open descriptor has exactly one owner, main, the queue or one     *)
(* worker, and nobody owns a closed one: none is closed twice, used after  *)
(* close, or left behind, although accept reuses descriptors at once.      *)
FdOwnership ==
    \A f \in Fds :
        Cardinality({k \in DOMAIN Queued : Queued[k] = f})
          + Cardinality({w \in Workers : job[w] = f})
          + (IF client_fd = f THEN 1 ELSE 0)
        = IF f \in open THEN 1 ELSE 0

(* Where the list gets to when no more connections come: every queued one *)
(* is taken by a worker unless the pool shuts down.  The signal of         *)
(* thread_pool_add_job is never lost, though it is not always the woken    *)
(* worker that takes the job.                                              *)
Served == shutdown \/ head = Null

(* Every worker leaves its loop ("Worker thread exiting", proxy2.c:87) and *)
(* main gets past its joins once the pool has been told to shut down.      *)
PoolShutsDown == shutdown ~> main = "destroyed"
=============================================================================
