--------------------------- MODULE ChannelProofs ---------------------------
(***************************************************************************)
(* The ring of MsgQueue implements BoundedChannel, for any number of       *)
(* threads, any ring size and any text.                                    *)
(***************************************************************************)
EXTENDS MsgQueueProofs, SequenceTheorems

(* What wrapping an index does, short of two turns of the ring. *)
LEMMA Wrap == \A k \in Nat : k < MAX_QUEUE_SIZE + MAX_QUEUE_SIZE =>
    k % MAX_QUEUE_SIZE = IF k < MAX_QUEUE_SIZE THEN k ELSE k - MAX_QUEUE_SIZE
<1>1. \A k \in Nat : k < MAX_QUEUE_SIZE => k % MAX_QUEUE_SIZE = k
      BY SizesAssumption, SMTT(30)
<1>2. \A k \in Nat : MAX_QUEUE_SIZE <= k /\ k < MAX_QUEUE_SIZE + MAX_QUEUE_SIZE => k % MAX_QUEUE_SIZE = k - MAX_QUEUE_SIZE
      BY SizesAssumption, SMTT(30)
<1> QED BY <1>1, <1>2, SizesAssumption

(* Slots of a ring that starts at h: the one after the k-th, the k-th once *)
(* the ring starts one later, and no two of them the same.                 *)
LEMMA Turns ==
    /\ \A h \in Slots, k \in Slots : Follow((h + k) % MAX_QUEUE_SIZE) = (h + k + 1) % MAX_QUEUE_SIZE
    /\ \A h \in Slots, k \in Slots : (Follow(h) + k) % MAX_QUEUE_SIZE = (h + k + 1) % MAX_QUEUE_SIZE
    /\ \A h \in Slots, k, l \in Slots :
          k # l => (h + k) % MAX_QUEUE_SIZE # (h + l) % MAX_QUEUE_SIZE
    /\ \A h \in Slots, k \in Slots : (h + k) % MAX_QUEUE_SIZE \in Slots
    /\ \A h \in Slots : h % MAX_QUEUE_SIZE = h /\ (h + MAX_QUEUE_SIZE) % MAX_QUEUE_SIZE = h
<1> DEFINE N == MAX_QUEUE_SIZE
           Turn(k) == IF k < N THEN k ELSE k - N
<1>1. N \in Nat \ {0} /\ Slots = 0 .. N - 1
      BY SizesAssumption DEF Slots
<1> HIDE DEF N
<1>2. \A k \in Nat : k < N + N => k % N = Turn(k)
      BY Wrap DEF N
<1>3. \A h \in Slots : Follow(h) = Turn(h + 1) /\ Turn(h + 1) \in Slots
  <2> SUFFICES ASSUME NEW h \in Slots PROVE Follow(h) = Turn(h + 1) /\ Turn(h + 1) \in Slots
      OBVIOUS
  <2>1. h + 1 \in Nat /\ h + 1 < N + N
        BY <1>1
  <2>2. (h + 1) % N = Turn(h + 1)
        BY <1>2, <2>1
  <2> QED BY <1>1, <2>1, <2>2 DEF Follow, N
<1>4. \A h, k \in Slots : /\ (h + k) % N = Turn(h + k) /\ Turn(h + k) \in Slots
                           /\ (h + k + 1) % N = Turn(h + k + 1)
  <2> SUFFICES ASSUME NEW h \in Slots, NEW k \in Slots
               PROVE  /\ (h + k) % N = Turn(h + k) /\ Turn(h + k) \in Slots
                      /\ (h + k + 1) % N = Turn(h + k + 1)
      OBVIOUS
  <2>1. h + k \in Nat /\ h + k < N + N /\ h + k + 1 \in Nat /\ h + k + 1 < N + N
        BY <1>1
  <2>2. Turn(h + k) \in Slots
        BY <1>1, <2>1
  <2> QED BY <1>2, <2>1, <2>2
<1>5. \A h, k \in Slots : Follow(Turn(h + k)) = (h + k + 1) % N
  <2> SUFFICES ASSUME NEW h \in Slots, NEW k \in Slots PROVE Follow(Turn(h + k)) = (h + k + 1) % N
      OBVIOUS
  <2>1. Follow(Turn(h + k)) = Turn(Turn(h + k) + 1)
        BY <1>3, <1>4
  <2>2. Turn(Turn(h + k) + 1) = Turn(h + k + 1)
        BY <1>1
  <2> QED BY <1>4, <2>1, <2>2
<1>6. \A h, k \in Slots : (Follow(h) + k) % N = (h + k + 1) % N
  <2> SUFFICES ASSUME NEW h \in Slots, NEW k \in Slots PROVE (Follow(h) + k) % N = (h + k + 1) % N
      OBVIOUS
  <2>1. (Turn(h + 1) + k) % N = Turn(Turn(h + 1) + k)
        BY <1>3, <1>4
  <2>2. Turn(Turn(h + 1) + k) = Turn(h + k + 1)
        BY <1>1
  <2> QED BY <1>3, <1>4, <2>1, <2>2
<1>7. \A h, k, l \in Slots : k # l => Turn(h + k) # Turn(h + l)
      BY <1>1
<1>8. \A h \in Slots : h % N = h /\ (h + N) % N = h
  <2> SUFFICES ASSUME NEW h \in Slots PROVE h % N = h /\ (h + N) % N = h
      OBVIOUS
  <2>1. h \in Nat /\ h < N + N /\ h + N \in Nat /\ h + N < N + N
        BY <1>1
  <2> QED BY <1>1, <1>2, <2>1
<1> QED BY <1>4, <1>5, <1>6, <1>7, <1>8 DEF N

(* Cutting a text is what the channel calls cutting a message. *)
LEMMA CutIsTruncate == \A m \in Text, n \in Nat : Channel!Cut(m, n) = Truncate(m, n)
BY DEF Channel!Cut, Truncate, AtMost, Text

(* Cutting twice at one place is cutting once. *)
LEMMA CutTwice ==
    ASSUME NEW m \in Text, NEW n \in Nat
    PROVE  Truncate(m, n).len <= n /\ (m.len <= n => Truncate(m, n) = m)
BY DEF Text, Truncate, AtMost

-----------------------------------------------------------------------------
(* What the ring and the callers at work on it look like in between: tail  *)
(* follows the last message, the slots hold texts that fit, a message that *)
(* was copied into its slot stays there until tail moves past it, and the  *)
(* message that was copied out is the oldest until head moves past it.     *)
RingInv ==
    /\ tail = (head + count) % MAX_QUEUE_SIZE
    /\ \A k \in Slots : buffer[k].len <= MAX_MSG_LEN - 1
    /\ \A p \in Producers : pc[p] = "put_advance" =>
          buffer[tail] = Stored(text[p]) /\ ret[p] = Stored(text[p]).len
    /\ \A c \in Consumers : pc[c] \in {"get_advance"} =>
          text[c] = Truncate(buffer[head], BufSize - 1) /\ ret[c] = text[c].len

CInv == IInv /\ SlotReady /\ RingInv

(* The calls as the channel sees them, and a step of one caller only. *)
Calls == [t \in Callers |-> StageOf(t)]

OnlyMoves(t) ==
    \A u \in Callers \ {t} : pc'[u] = pc[u] /\ text'[u] = text[u] /\ ret'[u] = ret[u]

LEMMA OthersStay ==
    ASSUME Types, NEW t \in Threads, NEW place, pc' = [pc EXCEPT ![t] = place],
           \A u \in Callers \ {t} : text'[u] = text[u] /\ ret'[u] = ret[u]
    PROVE  OnlyMoves(t)
BY DEF Types, OnlyMoves, Threads

(* A caller whose stage changes changes nobody else's. *)
LEMMA StageMoves ==
    ASSUME NEW t \in Callers, OnlyMoves(t), NEW from, NEW to, NEW m,
           StageOf(t).stage = from, StageOf(t)' = [stage |-> to, msg |-> m]
    PROVE  Channel!Stage(t, from, to, m)
<1>1. \A u \in Callers \ {t} : StageOf(u)' = StageOf(u)
      BY DEF OnlyMoves, StageOf
<1>2. Calls[t].stage = from
      BY DEF Calls
<1>3. Calls' = [Calls EXCEPT ![t] = [stage |-> to, msg |-> m]]
      BY <1>1 DEF Calls
<1> HIDE DEF Calls
<1> QED BY <1>2, <1>3 DEF Channel!Stage, Calls

(* A caller whose stage stays leaves all calls as they are. *)
LEMMA StageStays ==
    ASSUME NEW t \in Callers, OnlyMoves(t), StageOf(t)' = StageOf(t)
    PROVE  Calls' = Calls
<1>1. \A u \in Callers \ {t} : StageOf(u)' = StageOf(u)
      BY DEF OnlyMoves, StageOf
<1> QED BY <1>1 DEF Calls

-----------------------------------------------------------------------------
(* A step that leaves the ring alone, and takes no caller to work on it.   *)
Quiet ==
    /\ UNCHANGED ring
    /\ \A t \in Callers : pc'[t] \in {"put_advance", "get_advance"} =>
          pc'[t] = pc[t] /\ text'[t] = text[t] /\ ret'[t] = ret[t]

LEMMA QuietKeepsRing == RingInv /\ Quiet => RingInv'
BY DEF Quiet, RingInv, ring, Callers, Stored

LEMMA MovesQuietly ==
    ASSUME Types, NEW t \in Threads, NEW place, pc' = [pc EXCEPT ![t] = place],
           place \notin {"put_advance", "get_advance"}, UNCHANGED ring,
           \A u \in Callers \ {t} : text'[u] = text[u] /\ ret'[u] = ret[u]
    PROVE  Quiet
BY DEF Types, Quiet, Threads

(* Only one thread is at work on the ring.                                 *)
LEMMA Alone ==
    ASSUME IInv, NEW t \in Threads, pc[t] \in Locked
    PROVE  \A u \in Threads \ {t} : pc[u] \notin {"put_advance", "get_advance"}
BY DEF IInv, MutexInv, Locked

LEMMA RingStep == CInv /\ [Next]_vars => RingInv'
<1> SUFFICES ASSUME CInv, [Next]_vars PROVE RingInv'
    OBVIOUS
<1> USE DEF CInv
<1>0. Types /\ Types' /\ IInv
      BY TypeStep DEF IInv
<1>1. ASSUME NEW p \in Producers, (\E m \in Letters : PutCall(p, m)) \/ PutWaitFails(p) \/ PutStep(p)
      PROVE  RingInv'
  <2>0. p \in Threads /\ p \in Callers /\ p \notin Consumers /\ Producers \cup Consumers \subseteq Threads
        BY ThreadsAssumption DEF Threads, Callers
  <2>1. CASE PutCopy(p)
    <3>1. /\ buffer' = [buffer EXCEPT ![tail] = Stored(text[p])]
          /\ ret' = [ret EXCEPT ![p] = Stored(text[p]).len]
          /\ UNCHANGED <<head, tail, count, text>> /\ pc' = [pc EXCEPT ![p] = "put_advance"]
          BY <2>1 DEF PutCopy, Goto
    <3>2. \A u \in Threads \ {p} : pc'[u] \notin {"put_advance", "get_advance"}
      <4>1. pc[p] \in Locked
            BY <2>1 DEF PutCopy, Goto, Locked
      <4> QED BY <1>0, <2>0, <3>1, <4>1, Alone DEF Types
    <3>3. Stored(text[p]).len <= MAX_MSG_LEN - 1
          BY <1>0, <2>0, SizesAssumption, CutTwice DEF Types, Stored
    <3>4. pc'[p] = "put_advance" /\ buffer'[tail] = Stored(text[p]) /\ ret'[p] = Stored(text[p]).len
          BY <1>0, <2>0, <3>1 DEF Types
    <3>5. \A k \in Slots : buffer'[k].len <= MAX_MSG_LEN - 1
          BY <1>0, <3>1, <3>3 DEF Types, RingInv
    <3>6. \A q \in Producers : pc'[q] = "put_advance" => q = p
          BY <2>0, <3>2
    <3>7. \A c \in Consumers : pc'[c] \notin {"get_advance"}
          BY <2>0, <3>2
    <3> QED BY <3>1, <3>4, <3>5, <3>6, <3>7 DEF RingInv, Stored
  <2>2. CASE PutAdvance(p)
    <3>1. /\ tail' = Follow(tail) /\ count' = count + 1 /\ UNCHANGED <<head, buffer>>
          /\ UNCHANGED <<text, ret>> /\ pc' = [pc EXCEPT ![p] = "put_post"]
          BY <2>2 DEF PutAdvance, Goto, local
    <3>2. \A u \in Threads : pc'[u] \notin {"put_advance", "get_advance"}
      <4>1. pc[p] \in Locked
            BY <2>2 DEF PutAdvance, Goto, Locked
      <4> QED BY <1>0, <2>0, <3>1, <4>1, Alone DEF Types
    <3>3. count \in Slots /\ head \in Slots
          BY <1>0, <2>0, <2>2, SizesAssumption DEF Types, SlotReady, PutAdvance, Goto, Slots
    <3>4. tail' = (head + count + 1) % MAX_QUEUE_SIZE
          BY <3>1, <3>3, Turns DEF RingInv
    <3>5. head + count + 1 = head + (count + 1)
          BY <3>3 DEF Slots
    <3> QED BY <2>0, <3>1, <3>2, <3>4, <3>5 DEF RingInv
  <2>3. CASE ~PutCopy(p) /\ ~PutAdvance(p)
    <3>1. Quiet
      <4>1. PICK place \in PutPlaces \cup GetPlaces \cup DropPlaces :
               pc' = [pc EXCEPT ![p] = place] /\ place \notin {"put_advance", "get_advance"}
            BY <1>1, <2>3 DEF Goto, PutPlaces, GetPlaces, DropPlaces, PutCall, PutWaitFails, PutStep, PutWait, PutLock,
               PutRefused, PutRepost, PutPost
      <4>2. UNCHANGED ring
            BY <1>1, <2>3 DEF PutCall, PutWaitFails, PutStep, PutWait, PutLock,
               PutRefused, PutRepost, PutPost
      <4>3. \A u \in Callers \ {p} : text'[u] = text[u] /\ ret'[u] = ret[u]
            BY <1>1, <2>3, <1>0 DEF Types, local, PutCall, PutWaitFails, PutStep, PutWait, PutLock,
               PutRefused, PutRepost, PutPost
      <4> QED BY <1>0, <2>0, <4>1, <4>2, <4>3, MovesQuietly
    <3> QED BY <3>1, QuietKeepsRing
  <2> QED BY <2>1, <2>2, <2>3
<1>2. ASSUME NEW c \in Consumers, GetCall(c) \/ GetWaitFails(c) \/ GetStep(c) PROVE RingInv'
  <2>0. c \in Threads /\ c \in Callers /\ c \notin Producers /\ Producers \cup Consumers \subseteq Threads
        BY ThreadsAssumption DEF Threads, Callers
  <2>1. CASE GetCopy(c)
    <3> DEFINE m == Truncate(Stored(buffer[head]), BufSize - 1)
    <3>1. /\ text' = [text EXCEPT ![c] = m] /\ ret' = [ret EXCEPT ![c] = m.len]
          /\ UNCHANGED ring /\ pc' = [pc EXCEPT ![c] = "get_advance"]
          BY <2>1 DEF GetCopy, Goto, First
    <3>2. Stored(buffer[head]) = buffer[head]
      <4>1. buffer[head] \in Text /\ buffer[head].len <= MAX_MSG_LEN - 1 /\ MAX_MSG_LEN - 1 \in Nat
            BY <1>0, SizesAssumption DEF Types, RingInv
      <4> QED BY <4>1, CutTwice DEF Stored
    <3>3. \A u \in Threads \ {c} : pc'[u] \notin {"put_advance", "get_advance"}
      <4>1. pc[c] \in Locked
            BY <2>1 DEF GetCopy, Goto, Locked
      <4> QED BY <1>0, <2>0, <3>1, <4>1, Alone DEF Types
    <3>4. text'[c] = m /\ ret'[c] = m.len /\ m = Truncate(buffer[head], BufSize - 1)
          BY <1>0, <2>0, <3>1, <3>2 DEF Types
    <3>5. \A d \in Consumers : pc'[d] \in {"get_advance"} => d = c
          BY <2>0, <3>3
    <3>6. \A p \in Producers : pc'[p] # "put_advance"
          BY <2>0, <3>3
    <3> HIDE DEF m
    <3> QED BY <3>1, <3>4, <3>5, <3>6 DEF RingInv, ring
  <2>2. CASE GetAdvance(c)
    <3>1. /\ head' = Follow(head) /\ count' = count - 1 /\ UNCHANGED <<tail, buffer>>
          /\ UNCHANGED <<text, ret>> /\ pc' = [pc EXCEPT ![c] = "get_post"]
          BY <2>2 DEF GetAdvance, Goto, local
    <3>2. \A u \in Threads : pc'[u] \notin {"put_advance", "get_advance"}
      <4>1. pc[c] \in Locked
            BY <2>2 DEF GetAdvance, Goto, Locked
      <4> QED BY <1>0, <2>0, <3>1, <4>1, Alone DEF Types
    <3>3. count - 1 \in Slots /\ head \in Slots
          BY <1>0, <2>0, <2>2, SizesAssumption DEF Types, SlotReady, GetAdvance, Goto, Slots
    <3>4. (head' + count') % MAX_QUEUE_SIZE = (head + (count - 1) + 1) % MAX_QUEUE_SIZE
          BY <3>1, <3>3, Turns
    <3>5. head + (count - 1) + 1 = head + count
          BY <3>3, <1>0 DEF Types, Slots
    <3> QED BY <2>0, <3>1, <3>2, <3>4, <3>5 DEF RingInv
  <2>3. CASE ~GetCopy(c) /\ ~GetAdvance(c)
    <3>1. Quiet
      <4>1. PICK place \in PutPlaces \cup GetPlaces \cup DropPlaces :
               pc' = [pc EXCEPT ![c] = place] /\ place \notin {"put_advance", "get_advance"}
            BY <1>2, <2>3 DEF Goto, PutPlaces, GetPlaces, DropPlaces, GetCall, GetWaitFails, GetStep, GetWait, GetLock,
               GetRefused, GetRepost, GetPost
      <4>2. UNCHANGED ring
            BY <1>2, <2>3 DEF GetCall, GetWaitFails, GetStep, GetWait, GetLock,
               GetRefused, GetRepost, GetPost
      <4>3. \A u \in Callers \ {c} : text'[u] = text[u] /\ ret'[u] = ret[u]
            BY <1>2, <2>3, <1>0 DEF Types, local, GetCall, GetWaitFails, GetStep, GetWait, GetLock,
               GetRefused, GetRepost, GetPost
      <4> QED BY <1>0, <2>0, <4>1, <4>2, <4>3, MovesQuietly
    <3> QED BY <3>1, QuietKeepsRing
  <2> QED BY <2>1, <2>2, <2>3
<1>3. ASSUME NEW d \in Droppers, DropLock(d) \/ DropStep(d) PROVE RingInv'
  <2>0. d \in Threads
        BY DEF Threads
  <2>1. Quiet
    <3>1. PICK place \in PutPlaces \cup GetPlaces \cup DropPlaces :
           pc' = [pc EXCEPT ![d] = place] /\ place \notin {"put_advance", "get_advance"}
        BY <1>3 DEF Goto, PutPlaces, GetPlaces, DropPlaces, DropLock, DropStep, DropAgain, DropMark, DropReadEmpty,
           DropPostEmpty, DropReadFull, DropPostFull, DropPostBoth
    <3>2. UNCHANGED ring
        BY <1>3 DEF DropLock, DropStep, DropAgain, DropMark, DropReadEmpty,
           DropPostEmpty, DropReadFull, DropPostFull, DropPostBoth
    <3>3. \A u \in Callers \ {d} : text'[u] = text[u] /\ ret'[u] = ret[u]
        BY <1>3, <1>0 DEF Types, local, DropLock, DropStep, DropAgain, DropMark, DropReadEmpty,
           DropPostEmpty, DropReadFull, DropPostFull, DropPostBoth
    <3> QED BY <1>0, <2>0, <3>1, <3>2, <3>3, MovesQuietly
  <2> QED BY <2>1, QuietKeepsRing
<1>4. CASE UNCHANGED vars
  <2>1. Quiet
        BY <1>4 DEF Quiet, vars, ring
  <2> QED BY <2>1, QuietKeepsRing
<1> QED BY <1>1, <1>2, <1>3, <1>4 DEF Next

LEMMA CInvStep == CInv /\ [Next]_vars => CInv'
<1>1. IInv /\ [Next]_vars => IInv'
      BY TypeStep, MutexStep, DropInvStep, TokenStep DEF IInv
<1>2. IInv' => SlotReady'
      BY TokensGiveSlots, PTL
<1> QED BY <1>1, <1>2, RingStep DEF CInv

LEMMA InitCInv == Init => CInv
<1>1. Init => RingInv
  <2> SUFFICES ASSUME Init PROVE RingInv
      OBVIOUS
  <2>1. (head + count) % MAX_QUEUE_SIZE = 0
        BY SizesAssumption, Turns DEF Init, Slots
  <2> QED BY <2>1, SizesAssumption DEF Init, RingInv, Callers, Threads, Blank
<1> QED BY <1>1, InitIInv, TokensGiveSlots DEF CInv

(* The ring and the callers at work on it fit together at every moment.    *)
THEOREM RingIsWhole == Spec => []CInv
BY InitCInv, CInvStep, PTL DEF Spec

-----------------------------------------------------------------------------
(* The messages in the ring, oldest first, are a sequence of texts.        *)
LEMMA ContentsSeq ==
    ASSUME Types, SlotReady
    PROVE  Contents \in Seq(Text) /\ Len(Contents) = count /\ (count > 0 => Contents[1] = buffer[head])
<1>0. MAX_QUEUE_SIZE \in Nat \ {0} /\ Slots = 0 .. MAX_QUEUE_SIZE - 1 /\ head \in Slots /\ count \in 0 .. MAX_QUEUE_SIZE
      BY SizesAssumption DEF Slots, Types, SlotReady
<1>1. \A i \in 1 .. count : (head + i - 1) % MAX_QUEUE_SIZE \in Slots
  <2> SUFFICES ASSUME NEW i \in 1 .. count PROVE (head + i - 1) % MAX_QUEUE_SIZE \in Slots
      OBVIOUS
  <2>1. i - 1 \in Slots /\ head + i - 1 = head + (i - 1)
        BY <1>0
  <2> QED BY <1>0, <2>1, Turns
<1>2. Contents \in [1 .. count -> Text] /\ count \in Nat
      BY <1>0, <1>1 DEF Contents, Types
<1>3. ASSUME count > 0 PROVE Contents[1] = buffer[head]
  <2>1. head + 1 - 1 = head /\ 1 \in 1 .. count
        BY <1>0, <1>3
  <2>2. head % MAX_QUEUE_SIZE = head
        BY <1>0, Turns
  <2> QED BY <2>1, <2>2 DEF Contents
<1> QED BY <1>2, <1>3

(* A put takes effect when tail moves past its slot ...                    *)
LEMMA PutTakesEffect ==
    ASSUME CInv, NEW p \in Producers, PutAdvance(p)
    PROVE  /\ ~dropped /\ Len(Contents) < MAX_QUEUE_SIZE
           /\ Contents' = Append(Contents, Stored(text[p]))
           /\ ret[p] = Stored(text[p]).len
<1> USE DEF CInv
<1>0. Types /\ p \in Threads
      BY DEF IInv, Threads, Callers
<1>1. pc[p] = "put_advance" /\ count' = count + 1 /\ UNCHANGED <<head, buffer>>
      BY DEF PutAdvance, Goto
<1>2. ~dropped
      BY <1>0, <1>1 DEF IInv, DropInv
<1>3. head \in Slots /\ count \in Slots /\ count < MAX_QUEUE_SIZE
      BY <1>0, <1>1, SizesAssumption DEF Types, SlotReady, Slots
<1>4. buffer[(head + count) % MAX_QUEUE_SIZE] = Stored(text[p]) /\ ret[p] = Stored(text[p]).len
      BY <1>1 DEF RingInv
<1>5. (head + (count + 1)) - 1 = head + count
      BY <1>3 DEF Slots
<1>6. Contents \in Seq(Text) /\ Len(Contents) = count
      BY <1>0, ContentsSeq
<1>7. Contents' = [i \in 1 .. count + 1 |-> buffer[(head + i - 1) % MAX_QUEUE_SIZE]]
      BY <1>1 DEF Contents
<1>8. Contents' = Append(Contents, Stored(text[p]))
  <2> DEFINE m == Stored(text[p])
  <2>1. buffer[(head + count) % MAX_QUEUE_SIZE] = m
        BY <1>4
  <2> HIDE DEF m
  <2>2. Contents' = Append(Contents, m)
    <3>1. m \in Text
          BY <1>0, SizesAssumption, TruncateText DEF m, Stored, Types, Callers
    <3>2. /\ Append(Contents, m) \in Seq(Text) /\ Len(Append(Contents, m)) = count + 1
          /\ \A i \in 1 .. count : Append(Contents, m)[i] = Contents[i]
          /\ Append(Contents, m)[count + 1] = m
          BY <1>6, <3>1, AppendProperties
    <3>3. Append(Contents, m) \in [1 .. count + 1 -> Text]
          BY <3>2, LenProperties
    <3>4. \A i \in 1 .. count + 1 : Contents'[i] = Append(Contents, m)[i]
      <4>1. Contents'[count + 1] = m
            BY <1>3, <1>5, <1>7, <2>1 DEF Slots
      <4>2. \A i \in 1 .. count : Contents'[i] = Contents[i]
        <5>1. \A i \in 1 .. count : i \in 1 .. count + 1
              BY <1>3 DEF Slots
        <5>2. \A i \in 1 .. count : Contents[i] = buffer[(head + i - 1) % MAX_QUEUE_SIZE]
              BY DEF Contents
        <5> QED BY <1>7, <5>1, <5>2
      <4> QED BY <1>3, <3>2, <4>1, <4>2 DEF Slots
    <3> QED BY <1>7, <3>3, <3>4
  <2> QED BY <2>2 DEF m
<1> QED BY <1>2, <1>3, <1>4, <1>6, <1>8

(* ... and a get when head moves past the oldest message.                  *)
LEMMA GetTakesEffect ==
    ASSUME CInv, NEW c \in Consumers, GetAdvance(c)
    PROVE  /\ ~dropped /\ count > 0
           /\ Contents # << >> /\ Contents' = Tail(Contents)
           /\ text[c] = Truncate(Head(Contents), BufSize - 1)
           /\ ret[c] = text[c].len
<1> USE DEF CInv
<1>0. Types /\ c \in Threads
      BY DEF IInv, Threads, Callers
<1>1. pc[c] = "get_advance" /\ count' = count - 1 /\ head' = Follow(head) /\ buffer' = buffer
      BY DEF GetAdvance, Goto
<1>2. ~dropped
      BY <1>0, <1>1 DEF IInv, DropInv
<1>3. head \in Slots /\ count - 1 \in Slots /\ count > 0
      BY <1>0, <1>1, SizesAssumption DEF Types, SlotReady, Slots
<1>4. text[c] = Truncate(buffer[head], BufSize - 1) /\ ret[c] = text[c].len
      BY <1>1 DEF RingInv
<1>5. /\ Contents \in Seq(Text) /\ Len(Contents) = count /\ Contents # << >>
      /\ Head(Contents) = buffer[head]
      BY <1>0, <1>3, ContentsSeq
<1>6. ASSUME NEW i \in 1 .. count - 1
      PROVE  (Follow(head) + i - 1) % MAX_QUEUE_SIZE = (head + (i + 1) - 1) % MAX_QUEUE_SIZE
  <2>1. i - 1 \in Slots /\ Follow(head) + i - 1 = Follow(head) + (i - 1)
        /\ head + (i - 1) + 1 = head + (i + 1) - 1
        BY <1>3, SizesAssumption, FollowSlot DEF Slots
  <2> QED BY <1>3, <2>1, Turns
<1>7. Contents' = [i \in 1 .. count - 1 |-> buffer[(Follow(head) + i - 1) % MAX_QUEUE_SIZE]]
      BY <1>1 DEF Contents
<1>8. \A i \in 1 .. count - 1 : Contents[i + 1] = buffer[(head + (i + 1) - 1) % MAX_QUEUE_SIZE]
  <2>1. \A i \in 1 .. count - 1 : i + 1 \in 1 .. count
        BY <1>0, <1>3 DEF Types
  <2> QED BY <2>1 DEF Contents
<1>9. Contents' = [i \in 1 .. count - 1 |-> Contents[i + 1]]
      BY <1>6, <1>7, <1>8
<1>10. Tail(Contents) = [i \in 1 .. count - 1 |-> Contents[i + 1]]
  <2>1. Tail(Contents) \in Seq(Text) /\ Len(Tail(Contents)) = count - 1
        BY <1>5
  <2>2. \A i \in 1 .. count - 1 : Tail(Contents)[i] = Contents[i + 1]
        BY <1>5
  <2>3. Tail(Contents) \in [1 .. count - 1 -> Text]
        BY <2>1, LenProperties
  <2> QED BY <2>2, <2>3
<1> QED BY <1>2, <1>3, <1>4, <1>5, <1>9, <1>10

(* The copy into the free slot is not yet a message.                       *)
LEMMA CopyIsHidden ==
    ASSUME CInv, NEW p \in Producers, PutCopy(p)
    PROVE  Contents' = Contents
<1>0. Types
      BY DEF CInv, IInv
<1>1. head \in Slots /\ count \in Slots /\ UNCHANGED <<head, count>>
      BY <1>0, SizesAssumption DEF CInv, Types, SlotReady, PutCopy, Goto, Slots
<1>2. ASSUME NEW i \in 1 .. count
      PROVE  buffer'[(head + i - 1) % MAX_QUEUE_SIZE] = buffer[(head + i - 1) % MAX_QUEUE_SIZE]
  <2>1. i - 1 \in Slots /\ i - 1 # count /\ head + i - 1 = head + (i - 1)
        BY <1>1, SizesAssumption DEF Slots
  <2>2. (head + i - 1) % MAX_QUEUE_SIZE # tail
        BY <1>1, <2>1, Turns DEF CInv, RingInv
  <2> QED BY <1>0, <2>2 DEF Types, PutCopy
<1> QED BY <1>1, <1>2 DEF Contents

-----------------------------------------------------------------------------
(* What the channel sees of a step: of mymsgput ...                        *)
LEMMA PutRefines ==
    ASSUME CInv, NEW p \in Producers, (\E m \in Letters : PutCall(p, m)) \/ PutWaitFails(p) \/ PutStep(p)
    PROVE  [Channel!Next]_Channel!chanVars
<1> USE DEF CInv
<1>0. /\ Types /\ p \in Threads /\ p \in Callers /\ text[p] \in Text /\ p \in Channel!Callers
      /\ Channel!Callers = Callers
      BY DEF IInv, Types, Threads, Callers, Channel!Callers
<1>1. ASSUME NEW m \in Letters, PutCall(p, m) PROVE Channel!Next
  <2>1. OnlyMoves(p) /\ UNCHANGED <<Contents, dropped>>
        BY <1>0, <1>1 DEF Types, PutCall, Goto, OnlyMoves, ring, Contents
  <2>2. StageOf(p).stage = "idle" /\ StageOf(p)' = [stage |-> "sending", msg |-> m]
        BY <1>0, <1>1 DEF Types, PutCall, Goto, StageOf
  <2>3. Channel!Stage(p, "idle", "sending", m)
        BY <1>0, <2>1, <2>2, StageMoves
  <2> QED BY <1>1, <2>1, <2>3 DEF Channel!Next, Channel!BeginSend
<1>2. ASSUME PutWaitFails(p) PROVE Channel!Next
  <2>1. OnlyMoves(p) /\ UNCHANGED <<Contents, dropped>>
        BY <1>0, <1>2 DEF Types, PutWaitFails, Goto, OnlyMoves, ring, local, Contents
  <2>2. StageOf(p).stage = "sending" /\ StageOf(p)' = [stage |-> "idle", msg |-> Blank]
        BY <1>0, <1>2 DEF Types, PutWaitFails, Goto, StageOf
  <2>3. Channel!Stage(p, "sending", "idle", Blank)
        BY <1>0, <2>1, <2>2, StageMoves
  <2> QED BY <1>0, <2>1, <2>3 DEF Channel!Next, Channel!Interrupt
<1>3. ASSUME PutWait(p) \/ PutLock(p) \/ PutCopy(p) PROVE UNCHANGED Channel!chanVars
  <2>1. OnlyMoves(p) /\ text'[p] = text[p]
    <3>1. PICK place \in PutPlaces : pc' = [pc EXCEPT ![p] = place]
          BY <1>3 DEF PutWait, PutLock, PutCopy, Goto, PutPlaces
    <3>2. text' = text /\ \A u \in Callers \ {p} : ret'[u] = ret[u]
          BY <1>0, <1>3 DEF Types, PutWait, PutLock, PutCopy, local
    <3> QED BY <1>0, <3>1, <3>2, OthersStay
  <2>2. StageOf(p)' = StageOf(p)
    <3>1. {pc[p], pc'[p]} \subseteq {"put_wait", "put_lock", "put_check", "put_advance"}
          BY <1>0, <1>3 DEF Types, PutWait, PutLock, PutCopy, Goto
    <3> QED BY <2>1, <3>1 DEF StageOf
  <2>3. UNCHANGED dropped /\ Calls' = Calls
        BY <1>0, <1>3, <2>1, <2>2, StageStays DEF PutWait, PutLock, PutCopy
  <2>4. Contents' = Contents
    <3>1. CASE PutCopy(p)
          BY <3>1, CopyIsHidden
    <3>2. CASE ~PutCopy(p)
          BY <1>3, <3>2 DEF PutWait, PutLock, ring, Contents
    <3> QED BY <3>1, <3>2
  <2> QED BY <2>3, <2>4 DEF Channel!chanVars, Calls
<1>4. ASSUME PutRefused(p) PROVE Channel!Next
  <2>1. OnlyMoves(p) /\ UNCHANGED <<Contents, dropped>> /\ dropped
        BY <1>0, <1>4 DEF Types, PutRefused, Goto, OnlyMoves, ring, local, Contents
  <2>2. StageOf(p).stage = "sending" /\ StageOf(p)' = [stage |-> "refused", msg |-> Blank]
        BY <1>0, <1>4 DEF Types, PutRefused, Goto, StageOf
  <2>3. Channel!Stage(p, "sending", "refused", Blank)
        BY <1>0, <2>1, <2>2, StageMoves
  <2> QED BY <1>0, <2>1, <2>3 DEF Channel!Next, Channel!Refuse
<1>5. ASSUME PutAdvance(p) PROVE Channel!Next
  <2> DEFINE m == Stored(text[p])
  <2>0. /\ ~dropped /\ Len(Contents) < MAX_QUEUE_SIZE /\ Contents' = Append(Contents, m)
        /\ ret[p] = m.len /\ UNCHANGED dropped
        BY <1>5, PutTakesEffect DEF PutAdvance
  <2>1. OnlyMoves(p)
        BY <1>0, <1>5 DEF Types, PutAdvance, Goto, OnlyMoves, local
  <2>2. m = Channel!Cut(text[p], MAX_MSG_LEN - 1) /\ m = [id |-> text[p].id, len |-> m.len]
        BY <1>0, SizesAssumption, CutIsTruncate DEF Stored, Truncate
  <2>3. StageOf(p).stage = "sending" /\ StageOf(p).msg = text[p] /\ StageOf(p)' = [stage |-> "sent", msg |-> m]
        BY <1>0, <1>5, <2>0, <2>2 DEF Types, PutAdvance, Goto, StageOf, local
  <2> HIDE DEF m
  <2>4. Channel!Stage(p, "sending", "sent", m)
        BY <1>0, <2>1, <2>3, StageMoves
  <2>5. Calls[p].msg = text[p]
        BY <1>0, <2>3 DEF Calls
  <2>6. Channel!Send(p)
        BY <2>0, <2>2, <2>4, <2>5 DEF Channel!Send, Calls
  <2> QED BY <2>6 DEF Channel!Next
<1>6. ASSUME PutPost(p) \/ PutRepost(p) PROVE Channel!Next
  <2>1. OnlyMoves(p)
    <3>1. PICK place \in PutPlaces : pc' = [pc EXCEPT ![p] = place]
          BY <1>6 DEF PutPost, PutRepost, Goto, PutPlaces
    <3> QED BY <1>0, <1>6, <3>1, OthersStay DEF PutPost, PutRepost, local
  <2>4. UNCHANGED <<Contents, dropped>>
        BY <1>6 DEF PutPost, PutRepost, ring, Contents
  <2>2. StageOf(p).stage \in {"sent", "refused"} /\ StageOf(p)' = [stage |-> "idle", msg |-> Blank]
        BY <1>0, <1>6 DEF Types, PutPost, PutRepost, Goto, StageOf
  <2>3. Channel!Stage(p, StageOf(p).stage, "idle", Blank)
        BY <1>0, <2>1, <2>2, StageMoves
  <2> QED BY <1>0, <2>2, <2>3, <2>4 DEF Channel!Next, Channel!Return
<1> QED BY <1>1, <1>2, <1>3, <1>4, <1>5, <1>6 DEF PutStep

(* ... of mymsgget ...                                                     *)
LEMMA GetRefines ==
    ASSUME CInv, NEW c \in Consumers, GetCall(c) \/ GetWaitFails(c) \/ GetStep(c)
    PROVE  [Channel!Next]_Channel!chanVars
<1> USE DEF CInv
<1>0. /\ Types /\ c \in Threads /\ c \in Callers /\ text[c] \in Text /\ c \in Channel!Callers
      /\ Channel!Callers = Callers
      BY DEF IInv, Types, Threads, Callers, Channel!Callers
<1>1. ASSUME GetCall(c) PROVE Channel!Next
  <2>1. OnlyMoves(c) /\ UNCHANGED <<Contents, dropped>>
        BY <1>0, <1>1 DEF Types, GetCall, Goto, OnlyMoves, ring, Contents
  <2>2. StageOf(c).stage = "idle" /\ StageOf(c)' = [stage |-> "receiving", msg |-> Blank]
        BY <1>0, <1>1 DEF Types, GetCall, Goto, StageOf
  <2>3. Channel!Stage(c, "idle", "receiving", Blank)
        BY <1>0, <2>1, <2>2, StageMoves
  <2> QED BY <1>1, <2>1, <2>3 DEF Channel!Next, Channel!BeginReceive
<1>2. ASSUME GetWaitFails(c) PROVE Channel!Next
  <2>1. OnlyMoves(c) /\ UNCHANGED <<Contents, dropped>>
        BY <1>0, <1>2 DEF Types, GetWaitFails, Goto, OnlyMoves, ring, local, Contents
  <2>2. StageOf(c).stage = "receiving" /\ StageOf(c)' = [stage |-> "idle", msg |-> Blank]
        BY <1>0, <1>2 DEF Types, GetWaitFails, Goto, StageOf
  <2>3. Channel!Stage(c, "receiving", "idle", Blank)
        BY <1>0, <2>1, <2>2, StageMoves
  <2> QED BY <1>0, <2>1, <2>3 DEF Channel!Next, Channel!Interrupt
<1>3. ASSUME GetWait(c) \/ GetLock(c) \/ GetCopy(c) PROVE UNCHANGED Channel!chanVars
  <2>1. OnlyMoves(c)
    <3>1. PICK place \in GetPlaces : pc' = [pc EXCEPT ![c] = place]
          BY <1>3 DEF GetWait, GetLock, GetCopy, Goto, GetPlaces
    <3>2. \A u \in Callers \ {c} : text'[u] = text[u] /\ ret'[u] = ret[u]
          BY <1>0, <1>3 DEF Types, GetWait, GetLock, GetCopy, local
    <3> QED BY <1>0, <3>1, <3>2, OthersStay
  <2>2. StageOf(c)' = StageOf(c)
    <3>1. {pc[c], pc'[c]} \subseteq {"get_wait", "get_lock", "get_check", "get_advance"}
          BY <1>0, <1>3 DEF Types, GetWait, GetLock, GetCopy, Goto
    <3> QED BY <2>1, <3>1 DEF StageOf
  <2>3. UNCHANGED <<ring, dropped>> /\ Calls' = Calls
        BY <1>0, <1>3, <2>1, <2>2, StageStays DEF GetWait, GetLock, GetCopy
  <2> QED BY <2>3 DEF Channel!chanVars, Calls, ring, Contents
<1>4. ASSUME GetRefused(c) PROVE Channel!Next
  <2>1. OnlyMoves(c) /\ UNCHANGED <<Contents, dropped>> /\ dropped
        BY <1>0, <1>4 DEF Types, GetRefused, Goto, OnlyMoves, ring, local, Contents
  <2>2. StageOf(c).stage = "receiving" /\ StageOf(c)' = [stage |-> "refused", msg |-> Blank]
        BY <1>0, <1>4 DEF Types, GetRefused, Goto, StageOf
  <2>3. Channel!Stage(c, "receiving", "refused", Blank)
        BY <1>0, <2>1, <2>2, StageMoves
  <2> QED BY <1>0, <2>1, <2>3 DEF Channel!Next, Channel!Refuse
<1>5. ASSUME GetAdvance(c) PROVE Channel!Next
  <2> DEFINE m == Truncate(Head(Contents), BufSize - 1)
  <2>0. /\ ~dropped /\ Contents # << >> /\ Contents' = Tail(Contents)
        /\ text[c] = m /\ ret[c] = m.len /\ UNCHANGED dropped /\ count > 0
        BY <1>5, GetTakesEffect DEF GetAdvance
  <2>1. OnlyMoves(c)
        BY <1>0, <1>5 DEF Types, GetAdvance, Goto, OnlyMoves, local
  <2>2. m = Channel!Cut(Head(Contents), BufSize - 1) /\ m = [id |-> text[c].id, len |-> ret[c]]
    <3>1. Head(Contents) \in Text /\ BufSize - 1 \in Nat
          BY <1>0, <2>0, SizesAssumption, ContentsSeq
    <3> QED BY <2>0, <3>1, CutIsTruncate DEF Truncate
  <2>3. StageOf(c).stage = "receiving" /\ StageOf(c)' = [stage |-> "received", msg |-> m]
        BY <1>0, <1>5, <2>2 DEF Types, GetAdvance, Goto, StageOf, local
  <2> HIDE DEF m
  <2>4. Channel!Stage(c, "receiving", "received", m)
        BY <1>0, <2>1, <2>3, StageMoves
  <2>5. Channel!Receive(c)
        BY <2>0, <2>2, <2>4 DEF Channel!Receive
  <2> QED BY <2>5 DEF Channel!Next
<1>6. ASSUME GetPost(c) \/ GetRepost(c) PROVE Channel!Next
  <2>1. OnlyMoves(c)
    <3>1. PICK place \in GetPlaces : pc' = [pc EXCEPT ![c] = place]
          BY <1>6 DEF GetPost, GetRepost, Goto, GetPlaces
    <3> QED BY <1>0, <1>6, <3>1, OthersStay DEF GetPost, GetRepost, local
  <2>2. UNCHANGED <<Contents, dropped>>
        BY <1>6 DEF GetPost, GetRepost, ring, Contents
  <2>3. StageOf(c).stage \in {"received", "refused"} /\ StageOf(c)' = [stage |-> "idle", msg |-> Blank]
        BY <1>0, <1>6 DEF Types, GetPost, GetRepost, Goto, StageOf
  <2>4. Channel!Stage(c, StageOf(c).stage, "idle", Blank)
        BY <1>0, <2>1, <2>3, StageMoves
  <2> QED BY <1>0, <2>2, <2>3, <2>4 DEF Channel!Next, Channel!Return
<1> QED BY <1>1, <1>2, <1>3, <1>4, <1>5, <1>6 DEF GetStep

(* ... and of mymsqdrop.                                                   *)
LEMMA DropRefines ==
    ASSUME Types, NEW d \in Droppers, DropLock(d) \/ DropStep(d)
    PROVE  [Channel!Next]_Channel!chanVars
<1>1. Calls' = Calls
  <2>1. d \notin Callers /\ d \in Threads
        BY ThreadsAssumption DEF Callers, Threads
  <2>2. PICK place \in DropPlaces : pc' = [pc EXCEPT ![d] = place]
        BY DEF Goto, DropPlaces, DropLock, DropStep, DropAgain, DropMark, DropReadEmpty, DropPostEmpty,
               DropReadFull, DropPostFull, DropPostBoth
  <2>3. UNCHANGED <<text, ret>>
        BY DEF local, DropLock, DropStep, DropAgain, DropMark, DropReadEmpty, DropPostEmpty,
               DropReadFull, DropPostFull, DropPostBoth
  <2>4. \A u \in Callers : StageOf(u)' = StageOf(u)
    <3>1. \A u \in Callers : pc'[u] = pc[u]
          BY <2>1, <2>2 DEF Types, Callers, Threads
    <3> QED BY <2>3, <3>1 DEF StageOf
  <2> QED BY <2>4 DEF Calls
<1>2. UNCHANGED ring
      BY DEF DropLock, DropStep, DropAgain, DropMark, DropReadEmpty, DropPostEmpty,
             DropReadFull, DropPostFull, DropPostBoth
<1>3. CASE DropMark(d)
      BY <1>1, <1>2, <1>3 DEF DropMark, Channel!Next, Channel!Close, Calls, ring, Contents
<1>4. CASE ~DropMark(d)
  <2>1. UNCHANGED dropped
        BY <1>4 DEF DropLock, DropStep, DropAgain, DropReadEmpty, DropPostEmpty,
                    DropReadFull, DropPostFull, DropPostBoth
  <2> QED BY <1>1, <1>2, <2>1 DEF Channel!chanVars, Calls, ring, Contents
<1> QED BY <1>3, <1>4

(* mymsgput and mymsgget are atomic to their callers: whatever the threads *)
(* do to the ring, each call takes effect at one instant, on a first-in    *)
(* first-out channel that holds at most MAX_QUEUE_SIZE messages, cut to    *)
(* what msgqueue.h promises, and none takes effect after mymsqdrop.        *)
THEOREM ChannelImplemented == Spec => ImplementsChannel
<1>1. Init => Channel!Init
  <2> SUFFICES ASSUME Init PROVE Channel!Init
      OBVIOUS
  <2>1. Contents = << >>
        BY DEF Init, Contents
  <2>2. \A t \in Callers : StageOf(t) = [stage |-> "idle", msg |-> Blank]
        BY DEF Init, StageOf, Threads
  <2> QED BY <2>1, <2>2 DEF Init, Channel!Init, Channel!Callers, Callers
<1>2. CInv /\ [Next]_vars => [Channel!Next]_Channel!chanVars
  <2> SUFFICES ASSUME CInv, [Next]_vars PROVE [Channel!Next]_Channel!chanVars
      OBVIOUS
  <2>1. CASE UNCHANGED vars
    <3>1. Calls' = Calls
          BY <2>1 DEF vars, Calls, StageOf
    <3> QED BY <2>1, <3>1 DEF vars, Channel!chanVars, Calls, Contents
  <2> QED BY <2>1, PutRefines, GetRefines, DropRefines DEF Next, CInv, IInv
<1> QED BY <1>1, <1>2, RingIsWhole, PTL DEF Spec, ImplementsChannel, Channel!Spec
=============================================================================
