--------------------------- MODULE BoundedChannel ---------------------------
(***************************************************************************)
(* What msgqueue.h promises its callers, without semaphores, a mutex or a  *)
(* ring: a FIFO channel of bounded capacity whose put and get calls each   *)
(* take effect at one instant between the call and the return, and which   *)
(* refuses every call that has not taken effect when it is dropped.        *)
(***************************************************************************)
EXTENDS Integers, Sequences

CONSTANTS Senders, Receivers,
          Capacity,      (* MAX_QUEUE_SIZE                                  *)
          Letters,       (* the messages a put may be called with           *)
          PutLimit,      (* longest text the channel keeps                  *)
          GetLimit,      (* longest text a get returns                      *)
          None           (* "no message", not a letter                      *)

VARIABLES queue,         (* accepted and not yet taken, oldest first        *)
          closed,        (* the channel has been dropped                    *)
          call           (* each caller's call: its stage and its message   *)

chanVars == <<queue, closed, call>>

Callers == Senders \cup Receivers
Cut(m, n) == [m EXCEPT !.len = IF @ < n THEN @ ELSE n]

Stage(t, from, to, m) ==
    /\ call[t].stage = from
    /\ call' = [call EXCEPT ![t] = [stage |-> to, msg |-> m]]

-----------------------------------------------------------------------------
Init ==
    /\ queue = << >>
    /\ closed = FALSE
    /\ call = [t \in Callers |-> [stage |-> "idle", msg |-> None]]

BeginSend(s) ==
    /\ \E m \in Letters : Stage(s, "idle", "sending", m)
    /\ UNCHANGED <<queue, closed>>

BeginReceive(r) ==
    /\ Stage(r, "idle", "receiving", None)
    /\ UNCHANGED <<queue, closed>>

(* The instant a put takes effect; its result is the length it kept. *)
Send(s) ==
    LET m == Cut(call[s].msg, PutLimit)
    IN  /\ ~closed
        /\ Len(queue) < Capacity
        /\ Stage(s, "sending", "sent", m)
        /\ queue' = Append(queue, m)
        /\ UNCHANGED closed

(* The instant a get takes effect. *)
Receive(r) ==
    /\ ~closed
    /\ queue # << >>
    /\ Stage(r, "receiving", "received", Cut(Head(queue), GetLimit))
    /\ queue' = Tail(queue)
    /\ UNCHANGED closed

(* A call that takes no effect and returns 0: only once the channel is closed. *)
Refuse(t) ==
    /\ closed
    /\ \/ Stage(t, "sending", "refused", None)
       \/ Stage(t, "receiving", "refused", None)
    /\ UNCHANGED <<queue, closed>>

(* The wait for room or for a message was interrupted: the call returns 0. *)
Interrupt(t) ==
    /\ \/ Stage(t, "sending", "idle", None)
       \/ Stage(t, "receiving", "idle", None)
    /\ UNCHANGED <<queue, closed>>

Return(t) ==
    /\ \E from \in {"sent", "received", "refused"} : Stage(t, from, "idle", None)
    /\ UNCHANGED <<queue, closed>>

Close ==
    /\ closed' = TRUE
    /\ UNCHANGED <<queue, call>>

Next ==
    \/ \E s \in Senders : BeginSend(s) \/ Send(s)
    \/ \E r \in Receivers : BeginReceive(r) \/ Receive(r)
    \/ \E t \in Callers : Refuse(t) \/ Interrupt(t) \/ Return(t)
    \/ Close

Spec == Init /\ [][Next]_chanVars
=============================================================================
