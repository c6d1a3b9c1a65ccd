---------------------------- MODULE RequestQueue ----------------------------
(***************************************************************************)
(* pr12task2.c: requests in a linked list under queue_mutex; handler       *)
(* threads wait for got_request under a different mutex, cond_mutex.  What *)
(* keeps a request from being missed is that a handler looks at the list   *)
(* once more after locking cond_mutex, and waits without releasing it.     *)
(* The list and num_requests are touched only under queue_mutex, which is  *)
(* never held across a blocking call, so add and get_request are steps.    *)
(***************************************************************************)
EXTENDS LinkedList

CONSTANTS
    Workers,           (* the NUM_HANDLER_THREADS handler threads           *)
    Total,             (* requests that main generates (20)                 *)
    MaxSpurious,       (* bound: spurious wakeups of pthread_cond_wait      *)
    NoThread

Requests == 0 .. Total - 1

VARIABLES
    requests, last_request, next,  (* the list                              *)
    num_requests,
    cond_mutex,                    (* its holder, or NoThread               *)
    pc, a_request,                 (* each handler's place and request      *)
    main, i,                       (* main's place and loop variable        *)
    spurious                       (* what MaxSpurious bounds               *)

list == <<requests, last_request, next, num_requests>>
vars == <<requests, last_request, next, num_requests, cond_mutex, pc,
          a_request, main, i, spurious>>

Goto(w, from, to) == pc[w] = from /\ pc' = [pc EXCEPT ![w] = to]
Waiting == {w \in Workers : pc[w] = "waiting"}

Init ==
    /\ requests = Null /\ last_request = Null
    /\ next = [r \in Requests |-> Null]
    /\ num_requests = 0
    /\ cond_mutex = NoThread
    /\ pc = [w \in Workers |-> "get"]
    /\ a_request = [w \in Workers |-> Null]
    /\ main = "add" /\ i = 0
    /\ spurious = 0

-----------------------------------------------------------------------------
(* handle_requests_loop *)

(* get_request: takes the first request, if there is one. *)
GetRequest(w) ==
    IF num_requests > 0
    THEN /\ a_request' = [a_request EXCEPT ![w] = requests]
         /\ requests' = next[requests]
         /\ last_request' = IF next[requests] = Null THEN Null ELSE last_request
         /\ num_requests' = num_requests - 1
         /\ UNCHANGED next
    ELSE UNCHANGED <<list, a_request>>

GetFirst(w) ==
    /\ Goto(w, "get", IF num_requests > 0 THEN "handle" ELSE "lock")
    /\ GetRequest(w)
    /\ UNCHANGED <<cond_mutex, main, i, spurious>>

Handle(w) ==
    /\ Goto(w, "handle", "get")
    /\ a_request' = [a_request EXCEPT ![w] = Null]
    /\ UNCHANGED <<list, cond_mutex, main, i, spurious>>

LockCond(w) ==
    /\ Goto(w, "lock", "get_again")
    /\ cond_mutex = NoThread
    /\ cond_mutex' = w
    /\ UNCHANGED <<list, a_request, main, i, spurious>>

(* Mutant: no second look at the list under cond_mutex. *)
GetNotAgain(w) ==
    /\ Goto(w, "get_again", "sleep")
    /\ UNCHANGED <<list, a_request, cond_mutex, main, i, spurious>>

GetAgain(w) ==
    /\ Goto(w, "get_again", IF num_requests > 0 THEN "unlock" ELSE "sleep")
    /\ GetRequest(w)
    /\ UNCHANGED <<cond_mutex, main, i, spurious>>

Sleep(w) ==
    /\ Goto(w, "sleep", "waiting")
    /\ cond_mutex' = NoThread
    /\ UNCHANGED <<list, a_request, main, i, spurious>>

SpuriousWakeup(w) ==
    /\ spurious < MaxSpurious
    /\ Goto(w, "waiting", "relock")
    /\ spurious' = spurious + 1
    /\ UNCHANGED <<list, cond_mutex, a_request, main, i>>

(* The end of pthread_cond_wait. *)
Relock(w) ==
    /\ Goto(w, "relock", "unlock")
    /\ cond_mutex = NoThread
    /\ cond_mutex' = w
    /\ UNCHANGED <<list, a_request, main, i, spurious>>

UnlockCond(w) ==
    /\ Goto(w, "unlock", IF a_request[w] = Null THEN "get" ELSE "handle")
    /\ cond_mutex' = NoThread
    /\ UNCHANGED <<list, a_request, main, i, spurious>>

WorkerStep(w) ==
    \/ GetFirst(w) \/ Handle(w) \/ LockCond(w) \/ GetAgain(w)
    \/ Sleep(w) \/ Relock(w) \/ UnlockCond(w)

-----------------------------------------------------------------------------
(* main and add_request *)

(* Mutant: a new request goes to the front of the list. *)
LinkFront(r) ==
    /\ requests' = r
    /\ last_request' = IF num_requests = 0 THEN r ELSE last_request
    /\ next' = [next EXCEPT ![r] = requests]

Link(r) ==
    /\ requests' = IF num_requests = 0 THEN r ELSE requests
    /\ last_request' = r
    /\ next' = IF num_requests = 0 THEN next ELSE [next EXCEPT ![last_request] = r]

AddRequest ==
    /\ main = "add" /\ i < Total
    /\ Link(i)
    /\ num_requests' = num_requests + 1
    /\ main' = "signal"
    /\ UNCHANGED <<cond_mutex, pc, a_request, i, spurious>>

(* Lock cond_mutex, signal, unlock. *)
Signal ==
    /\ main = "signal"
    /\ cond_mutex = NoThread
    /\ \/ Waiting = {} /\ UNCHANGED pc
       \/ \E w \in Waiting : pc' = [pc EXCEPT ![w] = "relock"]
    /\ main' = "add" /\ i' = i + 1
    /\ UNCHANGED <<list, cond_mutex, a_request, spurious>>

MainStep == AddRequest \/ Signal

Next == MainStep \/ \E w \in Workers : WorkerStep(w) \/ SpuriousWakeup(w)

(* Handlers and main run.  main's final sleep is long enough by assumption: *)
(* the model has no exit that cuts the handlers short.                      *)
Fairness == WF_vars(MainStep) /\ \A w \in Workers : WF_vars(WorkerStep(w))

Spec == Init /\ [][Next]_vars /\ Fairness

-----------------------------------------------------------------------------
Queued == Chain(requests, next)

TypeOK ==
    /\ requests \in Requests \cup {Null} /\ last_request \in Requests \cup {Null}
    /\ next \in [Requests -> Requests \cup {Null}]
    /\ num_requests \in 0 .. Total
    /\ cond_mutex \in Workers \cup {NoThread}
    /\ pc \in [Workers -> {"get", "handle", "lock", "get_again", "sleep",
                           "waiting", "relock", "unlock"}]
    /\ a_request \in [Workers -> Requests \cup {Null}]
    /\ \A w \in Workers : a_request[w] # Null => pc[w] \in {"handle", "unlock"}
    /\ main \in {"add", "signal"} /\ i \in 0 .. Total
    /\ spurious \in 0 .. MaxSpurious

(* num_requests, which both sides test instead of the pointers, always     *)
(* counts the list, and the list can be appended to at last_request.       *)
CountMatchesList ==
    /\ num_requests = Len(Queued)
    /\ WellFormed(requests, last_request, next)

(* Whenever a request is queued and every handler is asleep or about to    *)
(* sleep, the signal that will wake one is still to come: the second look  *)
(* under cond_mutex leaves no gap between looking and waiting.             *)
NoMissedSignal ==
    (num_requests > 0 /\ \A w \in Workers : pc[w] \in {"sleep", "waiting"})
        => main = "signal"

Done == i = Total /\ num_requests = 0 /\ \A w \in Workers : a_request[w] = Null

(* Every request is handled: in the end the list is empty and no handler   *)
(* has one in hand ("All requests processed", pr12task2.c:164).            *)
AllHandled == <>[]Done
=============================================================================
