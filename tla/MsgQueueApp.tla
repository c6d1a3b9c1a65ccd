---------------------------- MODULE MsgQueueApp ----------------------------
(***************************************************************************)
(* main.c: producer and consumer threads that each make a fixed number of  *)
(* calls on the queue of MsgQueue, and the main thread that creates them,  *)
(* joins them in creation order and destroys the queue.  main.c itself     *)
(* never calls mymsqdrop, although its loops handle a dropped queue:       *)
(* Droppers is empty for main.c as it stands, and nonempty for the program *)
(* its messages describe.  A put or get that is interrupted does not occur *)
(* here: main.c installs no signal handler.                                *)
(***************************************************************************)
EXTENDS MsgQueue

CONSTANTS
    Order,                      (* threads in the order main creates them   *)
    PutAttempts, GetAttempts,   (* 20 and 30 in main.c                      *)
    TextLen                     (* length of a producer's message           *)

ASSUME AppAssumption ==
    /\ Order \in Seq(Callers)
    /\ \A t \in Callers : \E k \in DOMAIN Order : Order[k] = t
    /\ \A j, k \in DOMAIN Order : Order[j] = Order[k] => j = k
    /\ PutAttempts \in Nat /\ GetAttempts \in Nat
    /\ Producers \X (0 .. PutAttempts - 1) \subseteq Ids
    /\ TextLen \in Lens /\ TextLen > 0 /\ MAX_MSG_LEN > 1 /\ BufSize > 1

VARIABLES
    at,       (* each thread: not created, in its loop, in a call, returned *)
    i,        (* the loop variable of each thread                           *)
    log,      (* what each consumer has received, in order                  *)
    main      (* number of creates, joins and destroys main has done        *)

appVars == <<at, i, log, main>>
allVars == <<vars, appVars>>

N        == Len(Order)
Finished == 2 * N + 1
Attempts(t) == IF t \in Producers THEN PutAttempts ELSE GetAttempts

AppInit ==
    /\ Init
    /\ at = [t \in Threads |-> IF t \in Droppers THEN "loop" ELSE "unborn"]
    /\ i = [t \in Callers |-> 0]
    /\ log = [c \in Consumers |-> << >>]
    /\ main = 0

Enter(t) == at[t] = "loop" /\ at' = [at EXCEPT ![t] = "call"]

(* The body of a thread that is inside mymsgput, mymsgget or mymsqdrop. *)
Inside(t) ==
    /\ at[t] = "call"
    /\ \/ t \in Producers /\ PutStep(t)
       \/ t \in Consumers /\ GetStep(t)
       \/ t \in Droppers /\ DropStep(t)
    /\ UNCHANGED appVars

Produce(p) ==
    /\ Enter(p)
    /\ i[p] < PutAttempts
    /\ PutCall(p, [id |-> <<p, i[p]>>, len |-> TextLen])
    /\ UNCHANGED <<i, log, main>>

Consume(c) ==
    /\ Enter(c)
    /\ i[c] < GetAttempts
    /\ GetCall(c)
    /\ UNCHANGED <<i, log, main>>

(* Back from a call: the result is used, then `dropped` is read unlocked. *)
Returned(t) ==
    /\ at[t] = "call" /\ pc[t] = "idle"
    /\ IF ret[t] = 0 /\ dropped
       THEN at' = [at EXCEPT ![t] = "done"] /\ UNCHANGED i
       ELSE at' = [at EXCEPT ![t] = "loop"] /\ i' = [i EXCEPT ![t] = @ + 1]
    /\ log' = [c \in Consumers |->
                 IF c = t /\ ret[t] > 0 THEN Append(log[c], text[c]) ELSE log[c]]
    /\ UNCHANGED <<vars, main>>

LoopEnds(t) ==
    /\ at[t] = "loop" /\ i[t] = Attempts(t)
    /\ at' = [at EXCEPT ![t] = "done"]
    /\ UNCHANGED <<vars, i, log, main>>

ThreadStep(t) == Inside(t) \/ Returned(t) \/ LoopEnds(t)

(* The caller of mymsqdrop: it makes one call. *)
Drop(d) ==
    /\ Enter(d)
    /\ DropLock(d)
    /\ UNCHANGED <<i, log, main>>

Create ==
    /\ main < N
    /\ at' = [at EXCEPT ![Order[main + 1]] = "loop"]
    /\ main' = main + 1
    /\ UNCHANGED <<vars, i, log>>

Join ==
    /\ N <= main /\ main < 2 * N
    /\ at[Order[main - N + 1]] = "done"
    /\ main' = main + 1
    /\ UNCHANGED <<vars, at, i, log>>

Destroy ==
    /\ main = 2 * N
    /\ main' = Finished
    /\ UNCHANGED <<vars, at, i, log>>

MainStep == Create \/ Join \/ Destroy

AppNext ==
    \/ \E p \in Producers : Produce(p) \/ ThreadStep(p)
    \/ \E c \in Consumers : Consume(c) \/ ThreadStep(c)
    \/ \E d \in Droppers : Drop(d) \/ Inside(d)
    \/ MainStep

(* Every thread that can run eventually does; each thread makes finitely   *)
(* many calls, so weak fairness of the semaphores and the mutex is enough. *)
Fairness ==
    /\ \A p \in Producers : WF_allVars(Produce(p) \/ ThreadStep(p))
    /\ \A c \in Consumers : WF_allVars(Consume(c) \/ ThreadStep(c))
    /\ \A d \in Droppers : WF_allVars(Drop(d) \/ Inside(d))
    /\ WF_allVars(MainStep)

AppSpec == AppInit /\ [][AppNext]_allVars /\ Fairness

-----------------------------------------------------------------------------
(* Places a message can be once mymsgput has returned its length. *)
InRing(m)    == {k \in DOMAIN Contents : Contents[k].id = m}
InHand(m)    == {c \in Consumers : /\ at[c] = "call" /\ ret[c] > 0
                                   /\ pc[c] \in {"get_post", "idle"}
                                   /\ text[c].id = m}
InLog(m)     == {e \in Consumers \X (1 .. GetAttempts) :
                    e[2] \in DOMAIN log[e[1]] /\ log[e[1]][e[2]].id = m}

(* A message whose put succeeded is at every moment in exactly one place:  *)
(* in the ring, with the consumer that is returning from mymsgget, or      *)
(* received once by one consumer.  None is lost or delivered twice.        *)
ExactlyOnce ==
    \A p \in Producers : \A k \in 0 .. i[p] - 1 :
        LET m == <<p, k>>
        IN  Cardinality(InRing(m)) + Cardinality(InHand(m)) + Cardinality(InLog(m)) = 1

(* A consumer never receives a later message of a producer before an       *)
(* earlier one, whatever the other consumer takes in between.              *)
InOrder ==
    \A c \in Consumers : \A a, b \in DOMAIN log[c] :
        (a < b /\ log[c][a].id[1] = log[c][b].id[1]) => log[c][a].id[2] < log[c][b].id[2]

(* main joins every thread, says so (main.c:82) and destroys the queue. *)
AllThreadsFinish == <>(main = Finished)
=============================================================================
