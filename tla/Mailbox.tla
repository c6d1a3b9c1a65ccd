------------------------------ MODULE Mailbox ------------------------------
(***************************************************************************)
(* pr9t1wr.c and pr9t1re.c: a text and a flag, its last byte, in shared    *)
(* memory.  The writer stores a text, raises the flag and waits until the  *)
(* reader has lowered it.  Each side may be killed anywhere and started    *)
(* again; the segment stays until a writer has sent "exit".                *)
(***************************************************************************)
EXTENDS Integers, Sequences, FiniteSets

CONSTANTS
    MaxLines,          (* bound: lines typed before "exit"                  *)
    MaxCrashes,        (* bound: kills, together                            *)
    MaxEof             (* bound: fgets calls after the end of the input     *)

Exit == 0              (* the text "exit"; other lines are 1, 2, ...        *)
None == MaxLines + 1   (* what is in the buffers before                     *)

VARIABLES
    exists,            (* the segment can be found by its key               *)
    text, flag,        (* shared_memory                                     *)
    writer, reader, buffer,
    typed,             (* lines the user has typed                          *)
    shown,             (* "Received: %s"                                    *)
    writerCrashes, readerCrashes, eofs

memory  == <<exists, text, flag>>
faults  == <<writerCrashes, readerCrashes, eofs>>
mailVars == <<memory, writer, reader, buffer, typed, shown, faults>>

MailInit ==
    /\ exists = FALSE /\ text = None /\ flag = FALSE
    /\ writer = "start" /\ reader = "start" /\ buffer = None
    /\ typed = 0 /\ shown = << >>
    /\ writerCrashes = 0 /\ readerCrashes = 0 /\ eofs = 0

W(from, to) ==
    writer = from /\ writer' = to /\ UNCHANGED <<reader, shown, writerCrashes, readerCrashes>>
R(from, to) ==
    reader = from /\ reader' = to /\ UNCHANGED <<exists, text, writer, buffer, typed, faults>>

-----------------------------------------------------------------------------
(* shmget creates the segment or finds the one that is left. *)
AttachWriter ==
    /\ W("start", "clear")
    /\ exists' = TRUE
    /\ UNCHANGED <<text, flag, buffer, typed, eofs>>

ClearFlag ==
    /\ W("clear", "type") /\ flag' = FALSE
    /\ UNCHANGED <<exists, text, buffer, typed, eofs>>

Type ==
    /\ W("type", "copy")
    /\ \/ typed < MaxLines /\ typed' = typed + 1 /\ buffer' = typed'
       \/ buffer' = Exit /\ UNCHANGED typed
    /\ UNCHANGED <<memory, eofs>>

(* At the end of the input fgets leaves the buffer as it is. *)
TypeNothing ==
    /\ W("type", "copy") /\ eofs < MaxEof /\ buffer # None
    /\ eofs' = eofs + 1
    /\ UNCHANGED <<memory, buffer, typed>>

CopyText ==
    /\ W("copy", "raise") /\ text' = buffer
    /\ UNCHANGED <<exists, flag, buffer, typed, eofs>>

RaiseFlag ==
    /\ W("raise", IF buffer = Exit THEN "remove" ELSE "wait") /\ flag' = TRUE
    /\ UNCHANGED <<exists, text, buffer, typed, eofs>>

(* Mutant: the writer goes on without an answer. *)
WaitForNobody ==
    /\ W("wait", "type")
    /\ UNCHANGED <<memory, buffer, typed, eofs>>

WaitForReader ==
    /\ W("wait", "type") /\ ~flag
    /\ UNCHANGED <<memory, buffer, typed, eofs>>

Remove ==
    /\ W("remove", "ended") /\ exists' = FALSE
    /\ UNCHANGED <<text, flag, buffer, typed, eofs>>

-----------------------------------------------------------------------------
AttachReader ==
    /\ R("start", IF exists THEN "poll" ELSE "failed")
    /\ UNCHANGED <<flag, shown>>

SeeFlag == flag /\ R("poll", "check") /\ UNCHANGED <<flag, shown>>

(* Mutant: the result of strncmp is taken as it is, and "exit" is 0. *)
CheckNotExit ==
    /\ R("check", IF text # Exit THEN "ended" ELSE "print")
    /\ UNCHANGED <<flag, shown>>

CheckExit ==
    /\ R("check", IF text = Exit THEN "ended" ELSE "print")
    /\ UNCHANGED <<flag, shown>>

Show == R("print", "lower") /\ shown' = Append(shown, text) /\ UNCHANGED flag

LowerFlag == R("lower", "poll") /\ flag' = FALSE /\ UNCHANGED shown

-----------------------------------------------------------------------------
(* Killed and started again; a new writer has an empty buffer. *)
CrashWriter ==
    /\ writerCrashes + readerCrashes < MaxCrashes
    /\ writer \notin {"start", "ended"}
    /\ writer' = "start" /\ buffer' = None
    /\ writerCrashes' = writerCrashes + 1
    /\ UNCHANGED <<memory, reader, typed, shown, readerCrashes, eofs>>

CrashReader ==
    /\ writerCrashes + readerCrashes < MaxCrashes
    /\ reader \notin {"start", "ended", "failed"}
    /\ reader' = "start" /\ readerCrashes' = readerCrashes + 1
    /\ UNCHANGED <<memory, writer, buffer, typed, shown, writerCrashes, eofs>>

(* A reader that came too early is started again. *)
RetryReader ==
    /\ reader = "failed" /\ writer # "ended" /\ reader' = "start"
    /\ UNCHANGED <<memory, writer, buffer, typed, shown, faults>>

WriterStep == AttachWriter \/ ClearFlag \/ CopyText \/ RaiseFlag \/ WaitForReader \/ Remove
ReaderStep == AttachReader \/ SeeFlag \/ CheckExit \/ Show \/ LowerFlag \/ RetryReader
MailNext   == WriterStep \/ Type \/ TypeNothing \/ ReaderStep \/ CrashWriter \/ CrashReader

-----------------------------------------------------------------------------
(* Lines come out in the order they were typed.  Without a crash of the    *)
(* writer every line is out before the next one is asked for, also when    *)
(* the reader crashed; a line is out twice only for a crash or the end of  *)
(* the input, and not at all, or "exit" as if it were a line, only for a   *)
(* crash of the writer.                                                    *)
Lines == {k \in DOMAIN shown : shown[k] # Exit}
Out   == {shown[k] : k \in Lines}
Handshake ==
    /\ \A j, k \in Lines : j < k => shown[j] <= shown[k]
    /\ Cardinality(Lines) - Cardinality(Out) <= writerCrashes + readerCrashes + eofs
    /\ writer = "type" => typed - Cardinality(Out) <= writerCrashes
    /\ Len(shown) - Cardinality(Lines) <= writerCrashes

(* Who waits gets on.  The reader's loop ends after an "exit", unless the  *)
(* writer crashed: a reader then may lower the flag the next writer has    *)
(* raised, and looks at a lowered flag for ever.  The writer's wait ends,  *)
(* unless the reader has ended with the "exit" of a writer before it.      *)
BothGoOn ==
    /\ writer = "ended" =>
          reader \in {"ended", "failed"} \/ (writerCrashes > 0 /\ ~flag)
    /\ writer \in {"type", "ended"} \/ (writerCrashes > 0 /\ reader = "ended")
=============================================================================
