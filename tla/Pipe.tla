-------------------------------- MODULE Pipe --------------------------------
(***************************************************************************)
(* pr8t3.c: a child writes messages into a pipe, the last of them "END";   *)
(* the parent reads as many bytes as there are and prints them as one      *)
(* string, which ends with the first message read.                         *)
(***************************************************************************)
EXTENDS Integers, Sequences

CONSTANT Messages      (* how many the child writes; they fit into one read *)

END == Messages

VARIABLES
    bytes,             (* the messages in the pipe                          *)
    written, sender, receiver,
    write_ends,        (* who has fd[1] open                                *)
    message,           (* what the last read gave                           *)
    received,          (* what was printed                                  *)
    merged             (* history: messages that a read gave behind another *)

pipeVars == <<bytes, written, sender, receiver, write_ends, message, received, merged>>

(* After the fork. *)
PipeInit ==
    /\ bytes = << >> /\ written = 0
    /\ sender = "write" /\ receiver = "close"
    /\ write_ends = {"child", "parent"}
    /\ message = << >> /\ received = << >> /\ merged = {}

Write ==
    /\ sender = "write" /\ written < Messages
    /\ written' = written + 1
    /\ bytes' = Append(bytes, written + 1)
    /\ UNCHANGED <<sender, receiver, write_ends, message, received, merged>>

SenderEnds ==
    /\ sender = "write" /\ written = Messages
    /\ sender' = "ended" /\ write_ends' = write_ends \ {"child"}
    /\ UNCHANGED <<bytes, written, receiver, message, received, merged>>

(* Mutant: the parent does not close its own end. *)
KeepWriteEnd ==
    /\ receiver = "close" /\ receiver' = "read"
    /\ UNCHANGED <<bytes, written, sender, write_ends, message, received, merged>>

CloseWriteEnd ==
    /\ receiver = "close" /\ receiver' = "read"
    /\ write_ends' = write_ends \ {"parent"}
    /\ UNCHANGED <<bytes, written, sender, message, received, merged>>

Read ==
    /\ receiver = "read" /\ bytes # << >>
    /\ message' = bytes /\ bytes' = << >>
    /\ receiver' = "print"
    /\ merged' = merged \cup {bytes[k] : k \in 2 .. Len(bytes)}
    /\ UNCHANGED <<written, sender, write_ends, received>>

EndOfFile ==
    /\ receiver = "read" /\ bytes = << >> /\ write_ends = {}
    /\ receiver' = "reap"
    /\ UNCHANGED <<bytes, written, sender, write_ends, message, received, merged>>

(* Mutant: "END" is looked for before the message is printed.              *)
ShowUnlessEnd ==
    /\ receiver = "print"
    /\ IF Head(message) = END THEN receiver' = "reap" /\ UNCHANGED received
       ELSE receiver' = "read" /\ received' = Append(received, Head(message))
    /\ UNCHANGED <<bytes, written, sender, write_ends, message, merged>>

Show ==
    /\ receiver = "print"
    /\ received' = Append(received, Head(message))
    /\ receiver' = IF Head(message) = END THEN "reap" ELSE "read"
    /\ UNCHANGED <<bytes, written, sender, write_ends, message, merged>>

Reap ==
    /\ receiver = "reap" /\ sender = "ended" /\ receiver' = "ended"
    /\ UNCHANGED <<bytes, written, sender, write_ends, message, received, merged>>

SenderStep   == Write \/ SenderEnds
ReceiverStep == CloseWriteEnd \/ Read \/ EndOfFile \/ Show \/ Reap
PipeNext     == SenderStep \/ ReceiverStep

PipeSpec == PipeInit /\ [][PipeNext]_pipeVars

-----------------------------------------------------------------------------
Shown == {received[k] : k \in DOMAIN received}

(* No message is printed twice or after a later one, and one that has left *)
(* the pipe is left out exactly if it was read together with the one       *)
(* before it: every other is printed, END as well, up to the last one.     *)
FirstOfEachRead ==
    /\ \A j, k \in DOMAIN received : j < k => received[j] < received[k]
    /\ Shown \cap merged = {}
    /\ receiver # "print" => Shown \cup merged = 1 .. written - Len(bytes)
    /\ receiver = "ended" => Shown \cup merged = 1 .. Messages

(* The parent reaches the end of its loop and of its child.                *)
ReceiverEnds == receiver = "ended"

(* "All messages processed" (line 50): when the parent says so, it has     *)
(* printed every message of its child.                                     *)
AllMessagesProcessed == receiver = "ended" => Shown = 1 .. Messages
=============================================================================
