----------------------------- MODULE SysVQueue -----------------------------
(***************************************************************************)
(* pr9t2se.c and pr9t2re.c: senders put lines into a System V queue, a     *)
(* receiver prints them and removes the queue after an "exit".  The queue  *)
(* is found by its key and outlives its processes; one created after a     *)
(* removal is another queue, and who holds the old one gets an error.      *)
(***************************************************************************)
EXTENDS Integers, Sequences, FiniteSets

CONSTANTS
    Senders,
    MaxLines,          (* bound: lines typed at each sender                 *)
    QueueLimit,        (* messages that fit into the queue                  *)
    MaxCrashes         (* bound: kills of the receiver with a message       *)

Rx   == 0              (* the receiver; the senders are 1, 2, ...           *)
Exit == 0              (* the line "exit"; the others of a sender: 1, 2, .. *)

VARIABLES
    queue, queue_exists, generation,   (* the queue under the key           *)
    msg_id,            (* the generation each sender and the receiver has   *)
    sending, sender_line,  (* of each sender: place, the last line typed    *)
    receiving, data,   (* of the receiver: place, message                   *)
    sent, printed,     (* numbered lines sent to a queue, and printed       *)
    lost, dropped      (* in the hand of a killed receiver; with a removal  *)

sysvVars == <<queue, queue_exists, generation, msg_id, sending, sender_line, receiving, data,
              sent, printed, lost, dropped>>

SysVInit ==
    /\ queue = << >> /\ queue_exists = FALSE /\ generation = 0
    /\ msg_id = [p \in Senders \cup {Rx} |-> 0]
    /\ sending = [s \in Senders |-> "start"] /\ sender_line = [s \in Senders |-> 0]
    /\ receiving = "start" /\ data = << >>
    /\ sent = {} /\ printed = << >> /\ lost = {} /\ dropped = {}

Valid(p) == queue_exists /\ msg_id[p] = generation
Sender(s, from, to) == sending[s] = from /\ sending' = [sending EXCEPT ![s] = to]
Receiver(from, to) == receiving = from /\ receiving' = to

MsgGetCreate(s) ==
    /\ Sender(s, "start", "type")
    /\ queue_exists' = TRUE
    /\ generation' = IF queue_exists THEN generation ELSE generation + 1
    /\ msg_id' = [msg_id EXCEPT ![s] = generation']
    /\ UNCHANGED <<queue, sender_line, receiving, data, sent, printed, lost, dropped>>

TypeText(s) ==
    /\ \/ /\ sender_line[s] < MaxLines /\ Sender(s, "type", "send")
          /\ sender_line' = [sender_line EXCEPT ![s] = @ + 1]
       \/ Sender(s, "type", "send exit") /\ UNCHANGED sender_line
       \/ Sender(s, "type", "ended") /\ UNCHANGED sender_line     (* end of input *)
    /\ UNCHANGED <<queue, queue_exists, generation, msg_id, receiving, data, sent,
                   printed, lost, dropped>>

(* msgsnd waits while the queue is full. *)
MsgSnd(s) ==
    /\ Valid(s) /\ Len(queue) < QueueLimit
    /\ \/ /\ Sender(s, "send", "type")
          /\ queue' = Append(queue, <<s, sender_line[s]>>)
          /\ sent' = sent \cup {<<s, sender_line[s]>>}
       \/ /\ Sender(s, "send exit", "ended")
          /\ queue' = Append(queue, <<s, Exit>>) /\ UNCHANGED sent
    /\ UNCHANGED <<queue_exists, generation, msg_id, sender_line, receiving, data,
                   printed, lost, dropped>>

(* EIDRM or EINVAL, also for one that was waiting. *)
MsgSndFails(s) ==
    /\ ~Valid(s)
    /\ Sender(s, "send", "failed") \/ Sender(s, "send exit", "failed")
    /\ UNCHANGED <<queue, queue_exists, generation, msg_id, sender_line, receiving,
                   data, sent, printed, lost, dropped>>

-----------------------------------------------------------------------------
MsgGet ==
    /\ Receiver("start", IF queue_exists THEN "receive" ELSE "failed")
    /\ msg_id' = [msg_id EXCEPT ![Rx] = generation]
    /\ UNCHANGED <<queue, queue_exists, generation, sending, sender_line, data, sent,
                   printed, lost, dropped>>

(* Mutant: the last message is taken. *)
TakeLast == data' = queue[Len(queue)] /\ queue' = SubSeq(queue, 1, Len(queue) - 1)

Take == data' = Head(queue) /\ queue' = Tail(queue)

MsgRcv ==
    /\ Receiver("receive", "print")
    /\ Valid(Rx) /\ queue # << >>
    /\ Take
    /\ UNCHANGED <<queue_exists, generation, msg_id, sending, sender_line, sent,
                   printed, lost, dropped>>

PrintText ==
    /\ Receiver("print", IF data[2] = Exit THEN "remove" ELSE "receive")
    /\ printed' = IF data[2] = Exit THEN printed ELSE Append(printed, data)
    /\ data' = << >>
    /\ UNCHANGED <<queue, queue_exists, generation, msg_id, sending, sender_line, sent,
                   lost, dropped>>

RemoveQueue ==
    /\ Receiver("remove", "ended")
    /\ queue_exists' = FALSE /\ queue' = << >>
    /\ dropped' = dropped \cup {queue[k] : k \in DOMAIN queue}
    /\ UNCHANGED <<generation, msg_id, sending, sender_line, data, sent, printed, lost>>

(* The receiver is killed, and started again by its user. *)
KillReceiver ==
    /\ receiving \in {"receive", "print", "remove"} /\ Cardinality(lost) < MaxCrashes
    /\ receiving' = "failed" /\ data' = << >>
    /\ lost' = IF receiving = "print" THEN lost \cup {data} ELSE lost
    /\ UNCHANGED <<queue, queue_exists, generation, msg_id, sending, sender_line, sent,
                   printed, dropped>>

RunReceiver ==
    /\ receiving \in {"failed", "ended"} /\ queue_exists
    /\ receiving' = "start"
    /\ UNCHANGED <<queue, queue_exists, generation, msg_id, sending, sender_line, data,
                   sent, printed, lost, dropped>>

SendStep(s) == MsgGetCreate(s) \/ MsgSnd(s) \/ MsgSndFails(s)
ReceiveStep == MsgGet \/ MsgRcv \/ PrintText \/ RemoveQueue
SysVNext ==
    \/ \E s \in Senders : SendStep(s) \/ TypeText(s)
    \/ ReceiveStep \/ KillReceiver \/ RunReceiver

-----------------------------------------------------------------------------
(* The lines of a sender are printed once each and in order.  One that was *)
(* sent and is neither printed nor on its way was in the hand of a killed  *)
(* receiver, or queued when an "exit" had the queue removed.               *)
InQueue == {queue[k] : k \in DOMAIN queue} \cup {data}
Printed == {printed[k] : k \in DOMAIN printed}
SentIsPrinted ==
    /\ \A j, k \in DOMAIN printed :
          (j < k /\ printed[j][1] = printed[k][1]) => printed[j][2] < printed[k][2]
    /\ sent \subseteq Printed \cup InQueue \cup lost \cup dropped
    /\ \A m \in dropped : \E s \in Senders : sending[s] = "ended"
    /\ Printed \cap (InQueue \cup lost \cup dropped) = {}

(* A full queue holds a sender up only while nobody receives.              *)
SendersGoOn ==
    \A s \in Senders : sending[s] = "send" => receiving \in {"failed", "ended"}
=============================================================================
