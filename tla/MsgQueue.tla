------------------------------ MODULE MsgQueue ------------------------------
(***************************************************************************)
(* msgqueue.c: a bounded message queue shared by threads.  Two counting    *)
(* semaphores (`empty` counts free slots, `full` counts messages) admit a  *)
(* caller, a mutex protects the ring, and mymsqdrop marks the queue        *)
(* dropped and posts both semaphores so that every blocked caller wakes,   *)
(* sees the mark and passes its token on.                                  *)
(*                                                                         *)
(* One action per semaphore or mutex operation.  Inside the mutex the copy *)
(* of the message and the advance of the ring are separate steps, so the   *)
(* mutex is what keeps two callers from working on one slot.               *)
(***************************************************************************)
EXTENDS Integers, Sequences, FiniteSets

CONSTANTS
    Producers, Consumers,   (* threads that call mymsgput, mymsgget         *)
    Droppers,               (* threads that call mymsqdrop                  *)
    Ids,                    (* what tells one message text from another     *)
    Lens,                   (* lengths of the texts passed to mymsgput      *)
    MAX_QUEUE_SIZE,
    MAX_MSG_LEN,            (* a slot holds MAX_MSG_LEN - 1 characters      *)
    BufSize,                (* bufsize of every mymsgget                    *)
    NoThread, NoId

ASSUME ThreadsAssumption ==
    /\ IsFiniteSet(Producers) /\ IsFiniteSet(Consumers)
    /\ Producers \cap Consumers = {}
    /\ Droppers \cap (Producers \cup Consumers) = {}
    /\ NoThread \notin Producers \cup Consumers \cup Droppers

ASSUME SizesAssumption ==
    /\ MAX_QUEUE_SIZE \in Nat \ {0}
    /\ MAX_MSG_LEN \in Nat \ {0}
    /\ BufSize \in Nat \ {0}
    /\ Lens \subseteq Nat

VARIABLES
    buffer, head, tail, count, dropped,   (* the fields of queue_t          *)
    mutex,                                (* its holder, or NoThread        *)
    full, empty,                          (* semaphore values               *)
    pc,                                   (* where each thread is           *)
    text,                                 (* a caller's msg or buf          *)
    ret,                                  (* transferred_chars, read_chars  *)
    sem_val                               (* mymsqdrop's local              *)

ring  == <<buffer, head, tail, count>>
sems  == <<full, empty>>
local == <<text, ret, sem_val>>
vars  == <<buffer, head, tail, count, dropped, mutex, full, empty, pc, text, ret, sem_val>>

Callers == Producers \cup Consumers
Threads == Callers \cup Droppers
Slots   == 0 .. MAX_QUEUE_SIZE - 1
Letters == [id : Ids, len : Lens]
Text    == [id : Ids \cup {NoId}, len : Nat]
Blank   == [id |-> NoId, len |-> 0]

AtMost(a, b)   == IF a < b THEN a ELSE b
Truncate(m, n) == [id |-> m.id, len |-> AtMost(m.len, n)]

(* Mutant: the index does not wrap. *)
FollowUnwrapped(k) == k + 1
Follow(k)          == (k + 1) % MAX_QUEUE_SIZE

Goto(t, from, to) == pc[t] = from /\ pc' = [pc EXCEPT ![t] = to]

(* mymsginit on the zeroed global queue, no thread inside a call. *)
Init ==
    /\ buffer = [i \in Slots |-> Blank]
    /\ head = 0 /\ tail = 0 /\ count = 0
    /\ dropped = FALSE
    /\ mutex = NoThread
    /\ full = 0 /\ empty = MAX_QUEUE_SIZE
    /\ pc = [t \in Threads |-> "idle"]
    /\ text = [t \in Callers |-> Blank]
    /\ ret = [t \in Callers |-> 0]
    /\ sem_val = [d \in Droppers |-> 0]

-----------------------------------------------------------------------------
(* mymsgput *)

PutCall(p, m) ==
    /\ Goto(p, "idle", "put_wait")
    /\ text' = [text EXCEPT ![p] = m]
    /\ ret' = [ret EXCEPT ![p] = 0]
    /\ UNCHANGED <<ring, dropped, mutex, sems, sem_val>>

PutWait(p) ==
    /\ Goto(p, "put_wait", "put_lock")
    /\ empty > 0
    /\ empty' = empty - 1
    /\ UNCHANGED <<ring, dropped, mutex, full, local>>

(* sem_wait returns an error (a signal handler interrupted it). *)
PutWaitFails(p) ==
    /\ Goto(p, "put_wait", "idle")
    /\ UNCHANGED <<ring, dropped, mutex, sems, local>>

PutLock(p) ==
    /\ Goto(p, "put_lock", "put_check")
    /\ mutex = NoThread
    /\ mutex' = p
    /\ UNCHANGED <<ring, dropped, sems, local>>

PutRefused(p) ==
    /\ Goto(p, "put_check", "put_repost")
    /\ dropped
    /\ mutex' = NoThread
    /\ UNCHANGED <<ring, dropped, sems, local>>

PutRepost(p) ==
    /\ Goto(p, "put_repost", "idle")
    /\ empty' = empty + 1
    /\ UNCHANGED <<ring, dropped, mutex, full, local>>

(* Mutant: the text is cut one character too late. *)
StoredTooLong(m) == Truncate(m, MAX_MSG_LEN)
Stored(m)        == Truncate(m, MAX_MSG_LEN - 1)

PutCopy(p) ==
    LET m == Stored(text[p])
    IN  /\ Goto(p, "put_check", "put_advance")
        /\ ~dropped
        /\ buffer' = [buffer EXCEPT ![tail] = m]
        /\ ret' = [ret EXCEPT ![p] = m.len]
        /\ UNCHANGED <<head, tail, count, dropped, mutex, sems, text, sem_val>>

(* Mutant: tail stays, so that the next put takes the same slot. *)
PutAdvanceStays(p) ==
    /\ Goto(p, "put_advance", "put_post")
    /\ count' = count + 1
    /\ mutex' = NoThread
    /\ UNCHANGED <<buffer, head, tail, dropped, sems, local>>

PutAdvance(p) ==
    /\ Goto(p, "put_advance", "put_post")
    /\ tail' = Follow(tail)
    /\ count' = count + 1
    /\ mutex' = NoThread
    /\ UNCHANGED <<buffer, head, dropped, sems, local>>

(* Mutant: the free slot is given back as well. *)
PutPostBoth(p) ==
    /\ Goto(p, "put_post", "idle")
    /\ full' = full + 1 /\ empty' = empty + 1
    /\ UNCHANGED <<ring, dropped, mutex, local>>

PutPost(p) ==
    /\ Goto(p, "put_post", "idle")
    /\ full' = full + 1
    /\ UNCHANGED <<ring, dropped, mutex, empty, local>>

-----------------------------------------------------------------------------
(* mymsgget *)

GetCall(c) ==
    /\ Goto(c, "idle", "get_wait")
    /\ ret' = [ret EXCEPT ![c] = 0]
    /\ UNCHANGED <<ring, dropped, mutex, sems, text, sem_val>>

GetWait(c) ==
    /\ Goto(c, "get_wait", "get_lock")
    /\ full > 0
    /\ full' = full - 1
    /\ UNCHANGED <<ring, dropped, mutex, empty, local>>

GetWaitFails(c) ==
    /\ Goto(c, "get_wait", "idle")
    /\ UNCHANGED <<ring, dropped, mutex, sems, local>>

GetLock(c) ==
    /\ Goto(c, "get_lock", "get_check")
    /\ mutex = NoThread
    /\ mutex' = c
    /\ UNCHANGED <<ring, dropped, sems, local>>

GetRefused(c) ==
    /\ Goto(c, "get_check", "get_repost")
    /\ dropped
    /\ mutex' = NoThread
    /\ UNCHANGED <<ring, dropped, sems, local>>

(* Mutant: the token that woke the refused caller is not passed on. *)
GetKeepsToken(c) ==
    /\ Goto(c, "get_repost", "idle")
    /\ UNCHANGED <<ring, dropped, mutex, sems, local>>

GetRepost(c) ==
    /\ Goto(c, "get_repost", "idle")
    /\ full' = full + 1
    /\ UNCHANGED <<ring, dropped, mutex, empty, local>>

(* Mutant: the newest message is read instead of the oldest. *)
Newest == (head + count - 1) % MAX_QUEUE_SIZE
First  == head

GetCopy(c) ==
    LET m == Truncate(Stored(buffer[First]), BufSize - 1)
    IN  /\ Goto(c, "get_check", "get_advance")
        /\ ~dropped
        /\ text' = [text EXCEPT ![c] = m]
        /\ ret' = [ret EXCEPT ![c] = m.len]
        /\ UNCHANGED <<ring, dropped, mutex, sems, sem_val>>

GetAdvance(c) ==
    /\ Goto(c, "get_advance", "get_post")
    /\ head' = Follow(head)
    /\ count' = count - 1
    /\ mutex' = NoThread
    /\ UNCHANGED <<buffer, tail, dropped, sems, local>>

(* Mutant: the wrong semaphore is posted. *)
GetPostFull(c) ==
    /\ Goto(c, "get_post", "idle")
    /\ full' = full + 1
    /\ UNCHANGED <<ring, dropped, mutex, empty, local>>

GetPost(c) ==
    /\ Goto(c, "get_post", "idle")
    /\ empty' = empty + 1
    /\ UNCHANGED <<ring, dropped, mutex, full, local>>

-----------------------------------------------------------------------------
(* mymsqdrop.  A loop of sem_post calls is one step: a post never blocks   *)
(* and the tokens it adds only let other threads do more.  Each            *)
(* sem_getvalue is a step of its own, because the value it returns may be  *)
(* out of date when the loop that uses it runs.                            *)

(* Mutant: the queue is marked without waiting for the mutex. *)
DropLockFails(d) ==
    /\ Goto(d, "idle", "drop_check")
    /\ mutex' = d
    /\ UNCHANGED <<ring, dropped, sems, local>>

DropLock(d) ==
    /\ Goto(d, "idle", "drop_check")
    /\ mutex = NoThread
    /\ mutex' = d
    /\ UNCHANGED <<ring, dropped, sems, local>>

DropAgain(d) ==
    /\ Goto(d, "drop_check", "idle")
    /\ dropped
    /\ mutex' = NoThread
    /\ UNCHANGED <<ring, dropped, sems, local>>

DropMark(d) ==
    /\ Goto(d, "drop_check", "drop_read_empty")
    /\ ~dropped
    /\ dropped' = TRUE
    /\ UNCHANGED <<ring, mutex, sems, local>>

DropReadEmpty(d) ==
    /\ Goto(d, "drop_read_empty", "drop_post_empty")
    /\ sem_val' = [sem_val EXCEPT ![d] = empty]
    /\ UNCHANGED <<ring, dropped, mutex, sems, text, ret>>

DropPostEmpty(d) ==
    /\ Goto(d, "drop_post_empty", "drop_read_full")
    /\ empty' = IF sem_val[d] < MAX_QUEUE_SIZE
                THEN empty + (MAX_QUEUE_SIZE - sem_val[d]) ELSE empty
    /\ UNCHANGED <<ring, dropped, mutex, full, local>>

DropReadFull(d) ==
    /\ Goto(d, "drop_read_full", "drop_post_full")
    /\ sem_val' = [sem_val EXCEPT ![d] = full]
    /\ UNCHANGED <<ring, dropped, mutex, sems, text, ret>>

DropPostFull(d) ==
    /\ Goto(d, "drop_post_full", "drop_post_both")
    /\ full' = full + sem_val[d]
    /\ UNCHANGED <<ring, dropped, mutex, empty, local>>

(* Mutant: the last loop posts `empty` only. *)
DropPostEmptyOnly(d) ==
    /\ Goto(d, "drop_post_both", "idle")
    /\ empty' = empty + MAX_QUEUE_SIZE
    /\ mutex' = NoThread
    /\ UNCHANGED <<ring, dropped, full, local>>

DropPostBoth(d) ==
    /\ Goto(d, "drop_post_both", "idle")
    /\ full' = full + MAX_QUEUE_SIZE
    /\ empty' = empty + MAX_QUEUE_SIZE
    /\ mutex' = NoThread
    /\ UNCHANGED <<ring, dropped, local>>

-----------------------------------------------------------------------------
(* What a thread does once it is inside a call. *)
PutStep(p) ==
    \/ PutWait(p) \/ PutLock(p) \/ PutRefused(p) \/ PutRepost(p)
    \/ PutCopy(p) \/ PutAdvance(p) \/ PutPost(p)

GetStep(c) ==
    \/ GetWait(c) \/ GetLock(c) \/ GetRefused(c) \/ GetRepost(c)
    \/ GetCopy(c) \/ GetAdvance(c) \/ GetPost(c)

DropStep(d) ==
    \/ DropAgain(d) \/ DropMark(d) \/ DropReadEmpty(d) \/ DropPostEmpty(d)
    \/ DropReadFull(d) \/ DropPostFull(d) \/ DropPostBoth(d)

Next ==
    \/ \E p \in Producers : \/ \E m \in Letters : PutCall(p, m)
                            \/ PutWaitFails(p) \/ PutStep(p)
    \/ \E c \in Consumers : GetCall(c) \/ GetWaitFails(c) \/ GetStep(c)
    \/ \E d \in Droppers : DropLock(d) \/ DropStep(d)

Spec == Init /\ [][Next]_vars

-----------------------------------------------------------------------------
(* Invariants *)

PutPlaces  == {"idle", "put_wait", "put_lock", "put_check", "put_repost",
               "put_advance", "put_post"}
GetPlaces  == {"idle", "get_wait", "get_lock", "get_check", "get_repost",
               "get_advance", "get_post"}
DropPlaces == {"idle", "drop_check", "drop_read_empty", "drop_post_empty",
               "drop_read_full", "drop_post_full", "drop_post_both"}

(* What an array of n characters can hold, the terminating zero included. *)
Fitting(n) == [id : Ids \cup {NoId}, len : 0 .. n - 1]

(* Every variable keeps its C type, and every thread stays in the function *)
(* it called; semaphores and the count never go negative; a slot of the    *)
(* ring never holds more than MAX_MSG_LEN characters, the caller's buffer  *)
(* of mymsgget never more than BufSize, and neither call returns a length  *)
(* its array could not hold.                                               *)
TypeOK ==
    /\ buffer \in [Slots -> Fitting(MAX_MSG_LEN)]
    /\ head \in Slots /\ tail \in Slots
    /\ count \in Nat
    /\ dropped \in BOOLEAN
    /\ mutex \in Threads \cup {NoThread}
    /\ full \in Nat /\ empty \in Nat
    /\ pc \in [Threads -> PutPlaces \cup GetPlaces \cup DropPlaces]
    /\ \A p \in Producers : pc[p] \in PutPlaces /\ ret[p] < MAX_MSG_LEN
    /\ \A c \in Consumers : pc[c] \in GetPlaces /\ text[c] \in Fitting(BufSize) /\ ret[c] < BufSize
    /\ \A d \in Droppers : pc[d] \in DropPlaces
    /\ text \in [Callers -> Text]
    /\ ret \in [Callers -> Nat]
    /\ sem_val \in [Droppers -> Nat]

(* Holders of the mutex, and holders of tokens not yet passed on. *)
Locked ==
    {"put_check", "put_advance", "get_check", "get_advance", "drop_check",
     "drop_read_empty", "drop_post_empty", "drop_read_full", "drop_post_full",
     "drop_post_both"}
Dropping ==
    {"drop_read_empty", "drop_post_empty", "drop_read_full", "drop_post_full",
     "drop_post_both"}

At(S, places) == {t \in S : pc[t] \in places}
EmptyHolders  == At(Producers, {"put_lock", "put_check", "put_repost", "put_advance"})
FullHolders   == At(Consumers, {"get_lock", "get_check", "get_repost", "get_advance"})
EmptyOwed     == At(Consumers, {"get_post"})
FullOwed      == At(Producers, {"put_post"})

EmptyTokens == empty + Cardinality(EmptyHolders) + Cardinality(EmptyOwed)
FullTokens  == full + Cardinality(FullHolders) + Cardinality(FullOwed)

(* A thread is between lock and unlock exactly when it holds the mutex. *)
MutexInv == \A t \in Threads : pc[t] \in Locked <=> mutex = t

(* Every slot is accounted for: free slots and messages, counted through   *)
(* the semaphores, the callers that hold a token and the callers that owe  *)
(* a post, always add up to the ring; a drop only ever adds tokens.        *)
TokenInv ==
    /\ EmptyTokens + count >= MAX_QUEUE_SIZE
    /\ FullTokens >= count
    /\ ~dropped => EmptyTokens + count <= MAX_QUEUE_SIZE /\ FullTokens <= count

(* A caller that is about to touch a slot of the ring (mymsgput after the  *)
(* dropped check, mymsgget after it) finds room or a message: no put       *)
(* overwrites an unread message, no get reads a slot that was not written. *)
SlotReady ==
    /\ 0 <= count /\ count <= MAX_QUEUE_SIZE
    /\ \A p \in Producers :
          (pc[p] = "put_advance" \/ (pc[p] = "put_check" /\ ~dropped)) => count < MAX_QUEUE_SIZE
    /\ \A c \in Consumers :
          (pc[c] = "get_advance" \/ (pc[c] = "get_check" /\ ~dropped)) => count > 0

(* Once mymsqdrop has returned, each semaphore keeps a full ring of tokens *)
(* that are either available or held by a caller that will post them       *)
(* again: no caller is left blocked, however many wait.                    *)
DropWakesAll ==
    (dropped /\ \A d \in Droppers : pc[d] \notin Dropping) =>
        EmptyTokens >= MAX_QUEUE_SIZE /\ FullTokens >= MAX_QUEUE_SIZE

(* Once the queue is dropped nothing enters or leaves it, not even through *)
(* a call that had its token before the drop (mymsqdrop marks the queue    *)
(* under the mutex).                                                       *)
DroppedIsFrozen == [][dropped => UNCHANGED ring]_vars

-----------------------------------------------------------------------------
(* The ring implements the abstract channel. *)

Contents == [i \in 1 .. count |-> buffer[(head + i - 1) % MAX_QUEUE_SIZE]]

StageOf(t) ==
    LET result == [id |-> text[t].id, len |-> ret[t]]
        In(stage, m) == [stage |-> stage, msg |-> m]
    IN  CASE pc[t] = "idle" -> In("idle", Blank)
          [] pc[t] \in {"put_wait", "put_lock", "put_check", "put_advance"} -> In("sending", text[t])
          [] pc[t] \in {"get_wait", "get_lock", "get_check", "get_advance"} -> In("receiving", Blank)
          [] pc[t] = "put_post" -> In("sent", result)
          [] pc[t] = "get_post" -> In("received", result)
          [] pc[t] \in {"put_repost", "get_repost"} -> In("refused", Blank)

Channel == INSTANCE BoundedChannel WITH
    Senders <- Producers, Receivers <- Consumers, Capacity <- MAX_QUEUE_SIZE,
    PutLimit <- MAX_MSG_LEN - 1, GetLimit <- BufSize - 1, None <- Blank,
    queue <- Contents, closed <- dropped, call <- [t \in Callers |-> StageOf(t)]

(* Every step of the queue is a step of the abstract channel or invisible  *)
(* to it: put and get are atomic, first-in first-out, truncate to          *)
(* MAX_MSG_LEN - 1 and bufsize - 1, and return what they transferred.      *)
ImplementsChannel == Channel!Spec
=============================================================================
