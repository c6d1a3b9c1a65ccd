---------------------------- MODULE MCProcesses ----------------------------
(***************************************************************************)
(* The exercises on shared counters, mutexes, joining, shared memory,      *)
(* queues, pipes and sockets side by side: a behaviour is one of the       *)
(* program chosen at its start; the state of the others stays initial.     *)
(***************************************************************************)
EXTENDS SemCounter, Employee, NumberGen, Sequences

CONSTANTS
    Counters, ITERATIONS, Nobody,
    NUM_THREADS, MAX_OPERATIONS,
    MailLines, MaxCrashes, MaxEof, Messages,
    Clients, NoClient, Senders, MaxLines, QueueLimit

(* Three threads, or a parent and its child. *)
ASSUME CountersAssumption ==
    /\ {ITERATIONS, NUM_THREADS, MAX_OPERATIONS} \subseteq Nat \ {0}
    /\ IsFiniteSet(Counters) /\ Counters # {} /\ Nobody \notin Counters

ASSUME MessagesAssumption ==
    /\ {MailLines, MaxLines, MaxCrashes, MaxEof} \subseteq Nat
    /\ {Messages, QueueLimit} \subseteq Nat \ {0} /\ NoClient \notin Clients

VARIABLES
    program,
    (* pr10t1.c, pr11task3.c *)
    phase, global_counter, counter_mutex, at, old_value, left, final,
    (* pr11task4.c *)
    stage, operations_count, shared_result, result_mutex, task, local_sum, i,
    created, joined, stage_results,
    (* pr9t1wr.c, pr9t1re.c *)
    exists, text, flag, writer, reader, buffer, typed, shown,
    writerCrashes, readerCrashes, eofs,
    (* pr8t3.c *)
    bytes, written, sender, receiver, write_ends, message, received, merged,
    (* pr14t1, pr14t3, pr14t4 *)
    kind, server, data_socket, str, backlog, client, lines, toServer, toClient, own,
    (* pr9t2se.c, pr9t2re.c *)
    queue, queue_exists, generation, msg_id, sending, sender_line, receiving, data,
    sent, printed, lost, dropped

Shared == INSTANCE SharedCounter
Joins  == INSTANCE ThreadJoin
Mail   == INSTANCE Mailbox WITH MaxLines <- MailLines
Child8 == INSTANCE Pipe
Echo   == INSTANCE EchoServer
SysV   == INSTANCE SysVQueue

counterVars == <<phase, global_counter, counter_mutex, at, old_value, left,
                final>>
joinVars    == <<stage, operations_count, shared_result, result_mutex, task,
                local_sum, i, created, joined, stage_results>>
mailVars    == <<exists, text, flag, writer, reader, buffer, typed, shown,
                writerCrashes, readerCrashes, eofs>>
pipeVars    == <<bytes, written, sender, receiver, write_ends, message,
                received, merged>>
echoVars    == <<kind, server, data_socket, str, backlog, client, lines,
                toServer, toClient, own>>
sysvVars    == <<queue, queue_exists, generation, msg_id, sending,
                sender_line, receiving, data, sent, printed, lost, dropped>>
all == <<program, semVars, employeeVars, numberVars, counterVars, joinVars, mailVars,
         pipeVars, echoVars, sysvVars>>

Programs == {"sem", "employee", "number", "counter", "join", "mail", "pipe", "echo", "sysv"}

In(p, A) ==
    /\ program = p /\ A /\ UNCHANGED program
    /\ IF p = "sem" THEN TRUE ELSE UNCHANGED semVars
    /\ IF p = "employee" THEN TRUE ELSE UNCHANGED employeeVars
    /\ IF p = "number" THEN TRUE ELSE UNCHANGED numberVars
    /\ IF p = "counter" THEN TRUE ELSE UNCHANGED counterVars
    /\ IF p = "join" THEN TRUE ELSE UNCHANGED joinVars
    /\ IF p = "mail" THEN TRUE ELSE UNCHANGED mailVars
    /\ IF p = "pipe" THEN TRUE ELSE UNCHANGED pipeVars
    /\ IF p = "echo" THEN TRUE ELSE UNCHANGED echoVars
    /\ IF p = "sysv" THEN TRUE ELSE UNCHANGED sysvVars

MCInit ==
    /\ program \in Programs
    /\ SemInit /\ EmployeeInit /\ NumberInit
    /\ Shared!CounterInit /\ Joins!JoinInit /\ Mail!MailInit
    /\ Child8!PipeInit /\ Echo!EchoInit /\ SysV!SysVInit
    /\ program # "employee" => ~with_mutex
    /\ program # "join" => \A t \in Joins!Workers : operations_count[t] = 1
    /\ program # "echo" => kind = "echo"

MCNext ==
    \/ In("sem", SemNext) \/ In("employee", EmployeeNext) \/ In("number", NumberNext)
    \/ In("counter", Shared!CounterNext) \/ In("join", Joins!JoinNext) \/ In("mail", Mail!MailNext)
    \/ In("pipe", Child8!PipeNext) \/ In("echo", Echo!EchoNext) \/ In("sysv", SysV!SysVNext)

(* The k-th thread or process of the program that runs. *)
Process(k) ==
    \/ In("sem", ProcessStep(<<Parent(1), Child(1), Parent(2), Child(2)>>[k]))
    \/ In("employee", (k = 1 /\ MainStep) \/ (k - 1 \in 1 .. NUM_EMPLOYEES /\ ThreadStep(k - 1)))
    \/ In("counter", (k = 1 /\ Shared!CounterMain) \/ (k - 1 \in Counters /\ Shared!CounterStep(k - 1)))
    \/ In("number", k \in {1, 2} /\ CalcStep(<<"square", "cube">>[k]))
    \/ In("join", (k = 1 /\ Joins!JoinMain) \/ (k - 1 \in Joins!Workers /\ Joins!JoinWork(k - 1)))
    \/ In("mail", (k = 1 /\ Mail!ReaderStep) \/ (k = 2 /\ Mail!WriterStep))
    \/ In("pipe", (k = 1 /\ Child8!SenderStep) \/ (k = 2 /\ Child8!ReceiverStep))
    \/ In("echo", (k = 1 /\ Echo!ServerStep) \/ (k - 1 \in Clients /\ Echo!ClientStep(k - 1)))
    \/ In("sysv", (k = 1 /\ SysV!ReceiveStep) \/ (k - 1 \in Senders /\ SysV!SendStep(k - 1)))

(* Every thread and process that can go on goes on.  Users are not made to *)
(* type, nobody is made to be killed, and no mutex is fair.                *)
MCFairness == \A k \in 1 .. 4 : WF_all(Process(k))

MCSpec == MCInit /\ [][MCNext]_all /\ MCFairness

-----------------------------------------------------------------------------
(* Three programs report what their counting came to: the semaphore of     *)
(* pr10t2.c and the mutexes of pr11task3.c and pr11task4.c lose nothing,   *)
(* and what can be lost without is bounded.                                *)
CountsAreExact == CountIsExact /\ Shared!FinalCounts /\ Joins!SumsAreFull

(* What was sent comes out in order and once, but for what each program    *)
(* is known to repeat or to lose.                                          *)
NothingSkipped == Mail!Handshake /\ SysV!SentIsPrinted /\ Child8!FirstOfEachRead

(* The clients of the three socket servers get the answers to their lines. *)
LockStep == Echo!LockStep

(* Every program gets to its end, or what it waits for is somebody else's  *)
(* to do.  (What is typed, killed and counted has a bound; only the two    *)
(* calculators and the threads of pr11task1.c go on for ever.)             *)
Settled(n) ==
    CASE program = "sem" -> RunsEnd
      [] program = "employee" -> MainEnds
      [] program = "number" -> NumberIsUsed(n)
      [] program = "counter" -> Shared!BothPhases
      [] program = "join" -> Joins!AllStages
      [] program = "mail" -> Mail!BothGoOn
      [] program = "pipe" -> Child8!ReceiverEnds
      [] program = "echo" -> Echo!NobodyForgotten
      [] program = "sysv" -> SysV!SendersGoOn
EverybodyFinishes == \A n \in Numbers : []<>Settled(n)
=============================================================================
