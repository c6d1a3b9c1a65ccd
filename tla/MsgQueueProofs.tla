--------------------------- MODULE MsgQueueProofs ---------------------------
(***************************************************************************)
(* Proofs about MsgQueue for any number of threads and any queue size.     *)
(***************************************************************************)
EXTENDS MsgQueue, FiniteSetTheorems, TLAPS

(* Advancing an index stays inside the ring. *)
LEMMA FollowSlot == \A k \in Slots : Follow(k) \in Slots
BY SizesAssumption, Z3 DEF Slots, Follow

(* Cutting a text gives a text. *)
LEMMA TruncateText == \A m \in Text, n \in Nat : Truncate(m, n) \in Text
BY DEF Text, Truncate, AtMost

(* What callers pass to mymsgput is a text. *)
LEMMA LettersAreTexts == Letters \subseteq Text
BY SizesAssumption DEF Letters, Text

(* What of TypeOK every step keeps by itself: semaphores stay natural      *)
(* numbers, indices stay inside the ring, and every thread stays in the    *)
(* function it called.  That the count is no less than zero needs the      *)
(* tokens (CountInv), and the bounds of the texts are LengthInv.           *)
Types ==
    /\ buffer \in [Slots -> Text]
    /\ head \in Slots /\ tail \in Slots
    /\ count \in Int
    /\ dropped \in BOOLEAN
    /\ mutex \in Threads \cup {NoThread}
    /\ full \in Nat /\ empty \in Nat
    /\ pc \in [Threads -> PutPlaces \cup GetPlaces \cup DropPlaces]
    /\ \A p \in Producers : pc[p] \in PutPlaces
    /\ \A c \in Consumers : pc[c] \in GetPlaces
    /\ \A d \in Droppers : pc[d] \in DropPlaces
    /\ text \in [Callers -> Text]
    /\ ret \in [Callers -> Nat]
    /\ sem_val \in [Droppers -> Nat]

(* No array is asked to hold more than its size: the slots of the ring,    *)
(* the buffer a consumer passes, and the lengths the calls return.         *)
LengthInv ==
    /\ \A k \in Slots : buffer[k].len < MAX_MSG_LEN
    /\ \A p \in Producers : ret[p] < MAX_MSG_LEN
    /\ \A c \in Consumers : text[c].len < BufSize /\ ret[c] < BufSize

LEMMA TypeStep == Types /\ [Next]_vars => Types'
<1> SUFFICES ASSUME Types, [Next]_vars PROVE Types'
    OBVIOUS
<1> USE ThreadsAssumption, SizesAssumption
    DEF Types, Goto, Callers, Threads, ring, sems, local
<1>1. ASSUME NEW p \in Producers, NEW m \in Letters, PutCall(p, m) PROVE Types'
      BY <1>1, LettersAreTexts DEF PutCall, PutPlaces
<1>2. ASSUME NEW p \in Producers, PutWaitFails(p) \/ PutStep(p) PROVE Types'
  <2>1. CASE PutWait(p) BY <2>1 DEF PutWait, PutPlaces
  <2>2. CASE PutWaitFails(p) BY <2>2 DEF PutWaitFails, PutPlaces
  <2>3. CASE PutLock(p) BY <2>3 DEF PutLock, PutPlaces
  <2>4. CASE PutRefused(p) BY <2>4 DEF PutRefused, PutPlaces
  <2>5. CASE PutRepost(p) BY <2>5 DEF PutRepost, PutPlaces
  <2>6. CASE PutCopy(p)
    <3>1. Stored(text[p]) \in Text
          BY TruncateText DEF Stored
    <3>2. Stored(text[p]).len \in Nat
          BY <3>1 DEF Text
    <3> QED BY <2>6, <3>1, <3>2 DEF PutCopy, PutPlaces
  <2>7. CASE PutAdvance(p) BY <2>7, FollowSlot DEF PutAdvance, PutPlaces
  <2>8. CASE PutPost(p) BY <2>8 DEF PutPost, PutPlaces
  <2> QED BY <1>2, <2>1, <2>2, <2>3, <2>4, <2>5, <2>6, <2>7, <2>8 DEF PutStep
<1>3. ASSUME NEW c \in Consumers, GetCall(c) \/ GetWaitFails(c) \/ GetStep(c) PROVE Types'
  <2>1. CASE GetCall(c) BY <2>1 DEF GetCall, GetPlaces
  <2>2. CASE GetWait(c) BY <2>2 DEF GetWait, GetPlaces
  <2>3. CASE GetWaitFails(c) BY <2>3 DEF GetWaitFails, GetPlaces
  <2>4. CASE GetLock(c) BY <2>4 DEF GetLock, GetPlaces
  <2>5. CASE GetRefused(c) BY <2>5 DEF GetRefused, GetPlaces
  <2>6. CASE GetRepost(c) BY <2>6 DEF GetRepost, GetPlaces
  <2>7. CASE GetCopy(c)
    <3> DEFINE m == Truncate(Stored(buffer[First]), BufSize - 1)
    <3>1. m \in Text
          BY TruncateText DEF Stored, First
    <3>2. m.len \in Nat
          BY <3>1 DEF Text
    <3> HIDE DEF m
    <3> QED BY <2>7, <3>1, <3>2 DEF GetCopy, GetPlaces, m
  <2>8. CASE GetAdvance(c) BY <2>8, FollowSlot DEF GetAdvance, GetPlaces
  <2>9. CASE GetPost(c) BY <2>9 DEF GetPost, GetPlaces
  <2> QED BY <1>3, <2>1, <2>2, <2>3, <2>4, <2>5, <2>6, <2>7, <2>8, <2>9 DEF GetStep
<1>4. ASSUME NEW d \in Droppers, DropLock(d) \/ DropStep(d) PROVE Types'
  <2>1. CASE DropLock(d) BY <2>1 DEF DropLock, DropPlaces
  <2>2. CASE DropAgain(d) BY <2>2 DEF DropAgain, DropPlaces
  <2>3. CASE DropMark(d) BY <2>3 DEF DropMark, DropPlaces
  <2>4. CASE DropReadEmpty(d) BY <2>4 DEF DropReadEmpty, DropPlaces
  <2>5. CASE DropPostEmpty(d) BY <2>5 DEF DropPostEmpty, DropPlaces
  <2>6. CASE DropReadFull(d) BY <2>6 DEF DropReadFull, DropPlaces
  <2>7. CASE DropPostFull(d) BY <2>7 DEF DropPostFull, DropPlaces
  <2>8. CASE DropPostBoth(d) BY <2>8 DEF DropPostBoth, DropPlaces
  <2> QED BY <1>4, <2>1, <2>2, <2>3, <2>4, <2>5, <2>6, <2>7, <2>8 DEF DropStep
<1>5. CASE UNCHANGED vars BY <1>5 DEF vars
<1> QED BY <1>1, <1>2, <1>3, <1>4, <1>5 DEF Next

(* The initial state has the types. *)
LEMMA InitTypes == Init => Types
<1>1. ASSUME Init PROVE Types
  <2> USE <1>1, ThreadsAssumption, SizesAssumption DEF Init
  <2>1. Blank \in Text
        BY DEF Blank, Text
  <2>2. buffer \in [Slots -> Text] /\ text \in [Callers -> Text]
        BY <2>1
  <2>3. head \in Slots /\ tail \in Slots
        BY DEF Slots
  <2>4. /\ pc \in [Threads -> PutPlaces \cup GetPlaces \cup DropPlaces]
        /\ \A p \in Producers : pc[p] \in PutPlaces
        /\ \A c \in Consumers : pc[c] \in GetPlaces
        /\ \A d \in Droppers : pc[d] \in DropPlaces
        BY DEF Threads, Callers, PutPlaces, GetPlaces, DropPlaces
  <2>5. count \in Int /\ full \in Nat /\ empty \in Nat
        OBVIOUS
  <2>6. dropped \in BOOLEAN /\ mutex \in Threads \cup {NoThread}
        OBVIOUS
  <2>7. ret \in [Callers -> Nat] /\ sem_val \in [Droppers -> Nat]
        OBVIOUS
  <2> QED BY ONLY <2>2, <2>3, <2>4, <2>5, <2>6, <2>7 DEF Types
<1> QED BY <1>1

(* Cutting a text at one less than the size of an array makes it fit. *)
LEMMA TruncateFits == \A m \in Text, n \in Nat \ {0} : Truncate(m, n - 1).len < n
BY DEF Text, Truncate, AtMost

(* Only the copies change a text or a returned length, and they cut first; *)
(* a call starts with the length 0.                                        *)
LEMMA LengthStep == Types /\ LengthInv /\ [Next]_vars => LengthInv'
<1> SUFFICES ASSUME Types, LengthInv, [Next]_vars PROVE LengthInv'
    OBVIOUS
<1> USE ThreadsAssumption, SizesAssumption DEF Types, Callers, Threads
<1>1. ASSUME NEW p \in Producers, NEW m \in Letters, PutCall(p, m) PROVE LengthInv'
      BY <1>1 DEF PutCall, LengthInv, ring
<1>2. ASSUME NEW p \in Producers, PutCopy(p) PROVE LengthInv'
  <2> DEFINE m == Stored(text[p])
  <2>1. m.len < MAX_MSG_LEN
        BY TruncateFits DEF Stored
  <2> HIDE DEF m
  <2> QED BY <1>2, <2>1 DEF PutCopy, LengthInv, m
<1>3. ASSUME NEW c \in Consumers, GetCall(c) PROVE LengthInv'
      BY <1>3 DEF GetCall, LengthInv, ring
<1>4. ASSUME NEW c \in Consumers, GetCopy(c) PROVE LengthInv'
  <2> DEFINE m == Truncate(Stored(buffer[First]), BufSize - 1)
  <2>1. m.len < BufSize
        BY TruncateText, TruncateFits DEF Stored, First
  <2> HIDE DEF m
  <2> QED BY <1>4, <2>1 DEF GetCopy, LengthInv, ring, m
<1>5. CASE UNCHANGED <<buffer, text, ret>>
      BY <1>5 DEF LengthInv
<1>6. ASSUME NEW p \in Producers, PutWaitFails(p) \/ PutStep(p) PROVE LengthInv'
      BY <1>2, <1>5, <1>6 DEF PutStep, PutWaitFails, PutWait, PutLock, PutRefused, PutRepost,
         PutAdvance, PutPost, ring, local
<1>7. ASSUME NEW c \in Consumers, GetWaitFails(c) \/ GetStep(c) PROVE LengthInv'
      BY <1>4, <1>5, <1>7 DEF GetStep, GetWaitFails, GetWait, GetLock, GetRefused, GetRepost,
         GetAdvance, GetPost, ring, local
<1>8. ASSUME NEW d \in Droppers, DropLock(d) \/ DropStep(d) PROVE LengthInv'
      BY <1>5, <1>8 DEF DropStep, DropLock, DropAgain, DropMark, DropReadEmpty, DropPostEmpty,
         DropReadFull, DropPostFull, DropPostBoth, ring, local
<1>9. CASE UNCHANGED vars
      BY <1>5, <1>9 DEF vars
<1> QED BY <1>1, <1>3, <1>6, <1>7, <1>8, <1>9 DEF Next

(* The queue starts empty, with nothing in any array. *)
LEMMA InitLengthInv == Init => LengthInv
BY ThreadsAssumption, SizesAssumption DEF Init, LengthInv, Blank, Callers

-----------------------------------------------------------------------------
(* The inductive invariant.  Beside the run's invariants it says that a    *)
(* thread at work on the ring keeps mymsqdrop out (the drop takes effect   *)
(* under the mutex), and that the count never leaves the ring's bounds,    *)
(* which after a drop no longer follows from the tokens.                   *)
DropInv ==
    /\ \A t \in Threads : pc[t] \in {"put_advance", "get_advance"} => ~dropped
    /\ \A t \in Threads : pc[t] \in Dropping => dropped
CountInv == 0 <= count /\ count <= MAX_QUEUE_SIZE

IInv == Types /\ MutexInv /\ DropInv /\ TokenInv /\ CountInv /\ DropWakesAll

(* How one thread's move changes the number of threads at given places. *)
LEMMA MoveCount ==
    ASSUME Types, NEW t \in Threads, pc' = [pc EXCEPT ![t] = pc'[t]],
           NEW S \in SUBSET Threads, IsFiniteSet(S), NEW X
    PROVE  /\ Cardinality(At(S, X)) \in Nat
           /\ Cardinality(At(S, X)') = Cardinality(At(S, X))
                + (IF t \in S /\ pc'[t] \in X THEN 1 ELSE 0)
                - (IF t \in S /\ pc[t] \in X THEN 1 ELSE 0)
<1>1. IsFiniteSet(At(S, X)) /\ Cardinality(At(S, X)) \in Nat
      BY FS_Subset, FS_CardinalityType DEF At
<1>2. \A u \in S : pc'[u] = IF u = t THEN pc'[t] ELSE pc[u]
      BY DEF Types
<1>3. CASE t \in S /\ pc'[t] \in X /\ pc[t] \notin X
  <2>1. At(S, X)' = At(S, X) \cup {t} /\ t \notin At(S, X)
        BY <1>2, <1>3 DEF At
  <2>2. Cardinality(At(S, X) \cup {t}) = Cardinality(At(S, X)) + 1
        BY ONLY <1>1, <2>1, FS_AddElement
  <2> QED BY <1>1, <1>3, <2>1, <2>2
<1>4. CASE t \in S /\ pc'[t] \notin X /\ pc[t] \in X
  <2>1. At(S, X)' = At(S, X) \ {t} /\ t \in At(S, X)
        BY <1>2, <1>4 DEF At
  <2>2. Cardinality(At(S, X) \ {t}) = Cardinality(At(S, X)) - 1
        BY ONLY <1>1, <2>1, FS_RemoveElement
  <2> QED BY <1>1, <1>4, <2>1, <2>2
<1>5. CASE t \notin S \/ (pc'[t] \in X <=> pc[t] \in X)
  <2>1. At(S, X)' = At(S, X)
        BY <1>2, <1>5 DEF At
  <2> QED BY <1>1, <1>5, <2>1
<1> QED BY <1>3, <1>4, <1>5

(* Whether a thread at a place holds or owes a token of each semaphore. *)
EmptyShare(t, place) ==
    IF \/ t \in Producers /\ place \in {"put_lock", "put_check", "put_repost", "put_advance"}
       \/ t \in Consumers /\ place \in {"get_post"}
    THEN 1 ELSE 0
FullShare(t, place) ==
    IF \/ t \in Consumers /\ place \in {"get_lock", "get_check", "get_repost", "get_advance"}
       \/ t \in Producers /\ place \in {"put_post"}
    THEN 1 ELSE 0

(* The tokens change by what the step does to the semaphore and by what    *)
(* the moving thread takes along or gives up.                              *)
LEMMA TokensMove ==
    ASSUME Types, Types', NEW t \in Threads, pc' = [pc EXCEPT ![t] = pc'[t]]
    PROVE  /\ EmptyTokens \in Nat /\ FullTokens \in Nat
           /\ EmptyTokens' = EmptyTokens + (empty' - empty) + EmptyShare(t, pc'[t]) - EmptyShare(t, pc[t])
           /\ FullTokens' = FullTokens + (full' - full) + FullShare(t, pc'[t]) - FullShare(t, pc[t])
<1> DEFINE PE == {"put_lock", "put_check", "put_repost", "put_advance"}
           CF == {"get_lock", "get_check", "get_repost", "get_advance"}
           CE == {"get_post"}
           PF == {"put_post"}
           Moved(S, X) ==
               /\ Cardinality(At(S, X)) \in Nat
               /\ Cardinality(At(S, X)') = Cardinality(At(S, X))
                    + (IF t \in S /\ pc'[t] \in X THEN 1 ELSE 0)
                    - (IF t \in S /\ pc[t] \in X THEN 1 ELSE 0)
<1> HIDE DEF PE, CF, CE, PF
<1>1. Producers \in SUBSET Threads /\ Consumers \in SUBSET Threads
      BY DEF Threads, Callers
<1>2. Moved(Producers, PE) /\ Moved(Consumers, CE)
      BY <1>1, MoveCount, ThreadsAssumption
<1>3. Moved(Consumers, CF) /\ Moved(Producers, PF)
      BY <1>1, MoveCount, ThreadsAssumption
<1>4. /\ EmptyHolders = At(Producers, PE) /\ EmptyHolders' = At(Producers, PE)'
      /\ EmptyOwed = At(Consumers, CE) /\ EmptyOwed' = At(Consumers, CE)'
      /\ FullHolders = At(Consumers, CF) /\ FullHolders' = At(Consumers, CF)'
      /\ FullOwed = At(Producers, PF) /\ FullOwed' = At(Producers, PF)'
      BY DEF EmptyHolders, EmptyOwed, FullHolders, FullOwed, PE, CE, CF, PF
<1>5. empty \in Nat /\ full \in Nat /\ empty' \in Nat /\ full' \in Nat
      BY DEF Types
<1>6. ~(t \in Producers /\ t \in Consumers)
      BY ThreadsAssumption
<1>7. /\ \A place : EmptyShare(t, place) = IF \/ t \in Producers /\ place \in PE
                                              \/ t \in Consumers /\ place \in CE THEN 1 ELSE 0
      /\ \A place : FullShare(t, place) = IF \/ t \in Consumers /\ place \in CF
                                             \/ t \in Producers /\ place \in PF THEN 1 ELSE 0
      BY DEF EmptyShare, FullShare, PE, CE, CF, PF
<1>8. /\ EmptyTokens = empty + Cardinality(At(Producers, PE)) + Cardinality(At(Consumers, CE))
      /\ EmptyTokens' = empty' + Cardinality(At(Producers, PE)') + Cardinality(At(Consumers, CE)')
      /\ FullTokens = full + Cardinality(At(Consumers, CF)) + Cardinality(At(Producers, PF))
      /\ FullTokens' = full' + Cardinality(At(Consumers, CF)') + Cardinality(At(Producers, PF)')
      BY <1>4 DEF EmptyTokens, FullTokens
<1>9. /\ EmptyTokens \in Nat
      /\ EmptyTokens' = EmptyTokens + (empty' - empty) + EmptyShare(t, pc'[t]) - EmptyShare(t, pc[t])
  <2>1. CASE t \in Producers
        BY ONLY <1>2, <1>5, <1>6, <1>7, <1>8, <2>1
  <2>2. CASE t \notin Producers
        BY ONLY <1>2, <1>5, <1>7, <1>8, <2>2
  <2> QED BY <2>1, <2>2
<1>10. /\ FullTokens \in Nat
       /\ FullTokens' = FullTokens + (full' - full) + FullShare(t, pc'[t]) - FullShare(t, pc[t])
      BY ONLY <1>3, <1>5, <1>6, <1>7, <1>8
<1> QED BY <1>9, <1>10

-----------------------------------------------------------------------------
(* A thread is between lock and unlock exactly when it holds the mutex. *)
LEMMA MutexStep == Types /\ MutexInv /\ [Next]_vars => MutexInv'
<1> SUFFICES ASSUME Types, MutexInv, [Next]_vars PROVE MutexInv'
    OBVIOUS
<1> USE ThreadsAssumption
    DEF Types, MutexInv, Locked, Goto, Callers, Threads, ring, sems, local
<1>1. ASSUME NEW p \in Producers, NEW m \in Letters, PutCall(p, m) PROVE MutexInv'
      BY <1>1 DEF PutCall
<1>2. ASSUME NEW p \in Producers, PutWaitFails(p) \/ PutStep(p) PROVE MutexInv'
  <2>1. CASE PutWait(p) BY <2>1 DEF PutWait
  <2>2. CASE PutWaitFails(p) BY <2>2 DEF PutWaitFails
  <2>3. CASE PutLock(p) BY <2>3 DEF PutLock
  <2>4. CASE PutRefused(p) BY <2>4 DEF PutRefused
  <2>5. CASE PutRepost(p) BY <2>5 DEF PutRepost
  <2>6. CASE PutCopy(p) BY <2>6 DEF PutCopy
  <2>7. CASE PutAdvance(p) BY <2>7 DEF PutAdvance
  <2>8. CASE PutPost(p) BY <2>8 DEF PutPost
  <2> QED BY <1>2, <2>1, <2>2, <2>3, <2>4, <2>5, <2>6, <2>7, <2>8 DEF PutStep
<1>3. ASSUME NEW c \in Consumers, GetCall(c) \/ GetWaitFails(c) \/ GetStep(c) PROVE MutexInv'
  <2>1. CASE GetCall(c) BY <2>1 DEF GetCall
  <2>2. CASE GetWait(c) BY <2>2 DEF GetWait
  <2>3. CASE GetWaitFails(c) BY <2>3 DEF GetWaitFails
  <2>4. CASE GetLock(c) BY <2>4 DEF GetLock
  <2>5. CASE GetRefused(c) BY <2>5 DEF GetRefused
  <2>6. CASE GetRepost(c) BY <2>6 DEF GetRepost
  <2>7. CASE GetCopy(c) BY <2>7 DEF GetCopy
  <2>8. CASE GetAdvance(c) BY <2>8 DEF GetAdvance
  <2>9. CASE GetPost(c) BY <2>9 DEF GetPost
  <2> QED BY <1>3, <2>1, <2>2, <2>3, <2>4, <2>5, <2>6, <2>7, <2>8, <2>9 DEF GetStep
<1>4. ASSUME NEW d \in Droppers, DropLock(d) \/ DropStep(d) PROVE MutexInv'
  <2>1. CASE DropLock(d) BY <2>1 DEF DropLock
  <2>2. CASE DropAgain(d) BY <2>2 DEF DropAgain
  <2>3. CASE DropMark(d) BY <2>3 DEF DropMark
  <2>4. CASE DropReadEmpty(d) BY <2>4 DEF DropReadEmpty
  <2>5. CASE DropPostEmpty(d) BY <2>5 DEF DropPostEmpty
  <2>6. CASE DropReadFull(d) BY <2>6 DEF DropReadFull
  <2>7. CASE DropPostFull(d) BY <2>7 DEF DropPostFull
  <2>8. CASE DropPostBoth(d) BY <2>8 DEF DropPostBoth
  <2> QED BY <1>4, <2>1, <2>2, <2>3, <2>4, <2>5, <2>6, <2>7, <2>8 DEF DropStep
<1>5. CASE UNCHANGED vars BY <1>5 DEF vars
<1> QED BY <1>1, <1>2, <1>3, <1>4, <1>5 DEF Next

(* mymsqdrop cannot mark the queue while a caller is at work on the ring. *)
LEMMA DropInvStep == Types /\ MutexInv /\ DropInv /\ [Next]_vars => DropInv'
<1> SUFFICES ASSUME Types, MutexInv, DropInv, [Next]_vars PROVE DropInv'
    OBVIOUS
<1> USE ThreadsAssumption
    DEF Types, MutexInv, DropInv, Dropping, Locked, Goto, Callers, Threads, ring, sems, local
<1>1. ASSUME NEW p \in Producers, NEW m \in Letters, PutCall(p, m) PROVE DropInv'
      BY <1>1 DEF PutCall
<1>2. ASSUME NEW p \in Producers, PutWaitFails(p) \/ PutStep(p) PROVE DropInv'
  <2>1. CASE PutWait(p) BY <2>1 DEF PutWait
  <2>2. CASE PutWaitFails(p) BY <2>2 DEF PutWaitFails
  <2>3. CASE PutLock(p) BY <2>3 DEF PutLock
  <2>4. CASE PutRefused(p) BY <2>4 DEF PutRefused
  <2>5. CASE PutRepost(p) BY <2>5 DEF PutRepost
  <2>6. CASE PutCopy(p) BY <2>6 DEF PutCopy
  <2>7. CASE PutAdvance(p) BY <2>7 DEF PutAdvance
  <2>8. CASE PutPost(p) BY <2>8 DEF PutPost
  <2> QED BY <1>2, <2>1, <2>2, <2>3, <2>4, <2>5, <2>6, <2>7, <2>8 DEF PutStep
<1>3. ASSUME NEW c \in Consumers, GetCall(c) \/ GetWaitFails(c) \/ GetStep(c) PROVE DropInv'
  <2>1. CASE GetCall(c) BY <2>1 DEF GetCall
  <2>2. CASE GetWait(c) BY <2>2 DEF GetWait
  <2>3. CASE GetWaitFails(c) BY <2>3 DEF GetWaitFails
  <2>4. CASE GetLock(c) BY <2>4 DEF GetLock
  <2>5. CASE GetRefused(c) BY <2>5 DEF GetRefused
  <2>6. CASE GetRepost(c) BY <2>6 DEF GetRepost
  <2>7. CASE GetCopy(c) BY <2>7 DEF GetCopy
  <2>8. CASE GetAdvance(c) BY <2>8 DEF GetAdvance
  <2>9. CASE GetPost(c) BY <2>9 DEF GetPost
  <2> QED BY <1>3, <2>1, <2>2, <2>3, <2>4, <2>5, <2>6, <2>7, <2>8, <2>9 DEF GetStep
<1>4. ASSUME NEW d \in Droppers, DropLock(d) \/ DropStep(d) PROVE DropInv'
  <2>1. CASE DropLock(d) BY <2>1 DEF DropLock
  <2>2. CASE DropAgain(d) BY <2>2 DEF DropAgain
  <2>3. CASE DropMark(d) BY <2>3 DEF DropMark
  <2>4. CASE DropReadEmpty(d) BY <2>4 DEF DropReadEmpty
  <2>5. CASE DropPostEmpty(d) BY <2>5 DEF DropPostEmpty
  <2>6. CASE DropReadFull(d) BY <2>6 DEF DropReadFull
  <2>7. CASE DropPostFull(d) BY <2>7 DEF DropPostFull
  <2>8. CASE DropPostBoth(d) BY <2>8 DEF DropPostBoth
  <2> QED BY <1>4, <2>1, <2>2, <2>3, <2>4, <2>5, <2>6, <2>7, <2>8 DEF DropStep
<1>5. CASE UNCHANGED vars BY <1>5 DEF vars
<1> QED BY <1>1, <1>2, <1>3, <1>4, <1>5 DEF Next

(* A caller that has come past its sem_wait accounts for a token. *)
LEMMA HolderHasToken ==
    ASSUME Types
    PROVE  /\ \A p \in Producers : pc[p] \in {"put_check", "put_advance"} => EmptyTokens >= 1
           /\ \A c \in Consumers : pc[c] \in {"get_check", "get_advance"} => FullTokens >= 1
<1>1. \A S : \A t \in S : IsFiniteSet(S) => Cardinality(S) \in Nat /\ Cardinality(S) >= 1
      BY FS_CardinalityType, FS_EmptySet
<1>2. /\ IsFiniteSet(EmptyHolders) /\ IsFiniteSet(EmptyOwed)
      /\ IsFiniteSet(FullHolders) /\ IsFiniteSet(FullOwed)
      BY ThreadsAssumption, FS_Subset DEF EmptyHolders, EmptyOwed, FullHolders, FullOwed, At
<1>3. /\ Cardinality(EmptyHolders) \in Nat /\ Cardinality(EmptyOwed) \in Nat
      /\ Cardinality(FullHolders) \in Nat /\ Cardinality(FullOwed) \in Nat
      BY <1>2, FS_CardinalityType
<1>4. ASSUME NEW p \in Producers, pc[p] \in {"put_check", "put_advance"} PROVE EmptyTokens >= 1
  <2>1. p \in EmptyHolders
        BY <1>4 DEF EmptyHolders, At
  <2>2. Cardinality(EmptyHolders) >= 1
        BY <1>1, <1>2, <2>1
  <2> QED BY <1>3, <2>2 DEF EmptyTokens, Types
<1>5. ASSUME NEW c \in Consumers, pc[c] \in {"get_check", "get_advance"} PROVE FullTokens >= 1
  <2>1. c \in FullHolders
        BY <1>5 DEF FullHolders, At
  <2>2. Cardinality(FullHolders) >= 1
        BY <1>1, <1>2, <2>1
  <2> QED BY <1>3, <2>2 DEF FullTokens, Types
<1> QED BY <1>4, <1>5

(* What a step of mymsgput or mymsgget does to the accounts: a token moves *)
(* from one semaphore's account to the other only together with a message. *)
Balanced ==
    /\ EmptyTokens \in Int /\ FullTokens \in Int
    /\ EmptyTokens' \in Int /\ FullTokens' \in Int
    /\ EmptyTokens' + count' = EmptyTokens + count
    /\ FullTokens' + count = FullTokens + count'
    /\ dropped' = dropped
    /\ \A d \in Droppers : pc'[d] = pc[d]

(* Every step of mymsgput keeps the accounts balanced. *)
LEMMA PutBalanced ==
    ASSUME Types, Types', NEW p \in Producers,
           (\E m \in Letters : PutCall(p, m)) \/ PutWaitFails(p) \/ PutStep(p)
    PROVE  Balanced
<1>1. pc' = [pc EXCEPT ![p] = pc'[p]]
      BY DEF Types, Threads, Callers, Goto, PutStep, PutCall, PutWait, PutWaitFails, PutLock, PutRefused, PutRepost, PutCopy, PutAdvance, PutPost
<1>2. p \in Threads /\ p \notin Consumers /\ p \notin Droppers
      BY ThreadsAssumption DEF Threads, Callers
<1>3. \A d \in Droppers : pc'[d] = pc[d]
      BY <1>1, <1>2 DEF Types, Threads
<1>4. /\ EmptyTokens \in Nat /\ FullTokens \in Nat
      /\ EmptyTokens' = EmptyTokens + (empty' - empty) + EmptyShare(p, pc'[p]) - EmptyShare(p, pc[p])
      /\ FullTokens' = FullTokens + (full' - full) + FullShare(p, pc'[p]) - FullShare(p, pc[p])
      BY <1>1, <1>2, TokensMove
<1> USE <1>2, <1>3, <1>4 DEF Types, Balanced, Goto, EmptyShare, FullShare, ring, sems, local
<1>5. CASE \E m \in Letters : PutCall(p, m) BY <1>5 DEF PutCall
<1>6. CASE PutWait(p) BY <1>6 DEF PutWait
<1>7. CASE PutWaitFails(p) BY <1>7 DEF PutWaitFails
<1>8. CASE PutLock(p) BY <1>8 DEF PutLock
<1>9. CASE PutRefused(p) BY <1>9 DEF PutRefused
<1>10. CASE PutRepost(p) BY <1>10 DEF PutRepost
<1>11. CASE PutCopy(p) BY <1>11 DEF PutCopy
<1>12. CASE PutAdvance(p) BY <1>12 DEF PutAdvance
<1>13. CASE PutPost(p) BY <1>13 DEF PutPost
<1> QED BY <1>5, <1>6, <1>7, <1>8, <1>9, <1>10, <1>11, <1>12, <1>13 DEF PutStep

(* Every step of mymsgget keeps the accounts balanced. *)
LEMMA GetBalanced ==
    ASSUME Types, Types', NEW c \in Consumers,
           GetCall(c) \/ GetWaitFails(c) \/ GetStep(c)
    PROVE  Balanced
<1>1. pc' = [pc EXCEPT ![c] = pc'[c]]
      BY DEF Types, Threads, Callers, Goto, GetStep, GetCall, GetWait, GetWaitFails, GetLock, GetRefused, GetRepost, GetCopy, GetAdvance, GetPost
<1>2. c \in Threads /\ c \notin Producers /\ c \notin Droppers
      BY ThreadsAssumption DEF Threads, Callers
<1>3. \A d \in Droppers : pc'[d] = pc[d]
      BY <1>1, <1>2 DEF Types, Threads
<1>4. /\ EmptyTokens \in Nat /\ FullTokens \in Nat
      /\ EmptyTokens' = EmptyTokens + (empty' - empty) + EmptyShare(c, pc'[c]) - EmptyShare(c, pc[c])
      /\ FullTokens' = FullTokens + (full' - full) + FullShare(c, pc'[c]) - FullShare(c, pc[c])
      BY <1>1, <1>2, TokensMove
<1> USE <1>2, <1>3, <1>4 DEF Types, Balanced, Goto, EmptyShare, FullShare, ring, sems, local
<1>5. CASE GetCall(c) BY <1>5 DEF GetCall
<1>6. CASE GetWait(c) BY <1>6 DEF GetWait
<1>7. CASE GetWaitFails(c) BY <1>7 DEF GetWaitFails
<1>8. CASE GetLock(c) BY <1>8 DEF GetLock
<1>9. CASE GetRefused(c) BY <1>9 DEF GetRefused
<1>10. CASE GetRepost(c) BY <1>10 DEF GetRepost
<1>11. CASE GetCopy(c) BY <1>11 DEF GetCopy
<1>12. CASE GetAdvance(c) BY <1>12 DEF GetAdvance
<1>13. CASE GetPost(c) BY <1>13 DEF GetPost
<1> QED BY <1>5, <1>6, <1>7, <1>8, <1>9, <1>10, <1>11, <1>12, <1>13 DEF GetStep

(* A drop only adds tokens, adds none before the mark, and has added a     *)
(* full ring of them to both semaphores when it is over.                   *)
DropEffect ==
    /\ EmptyTokens \in Int /\ FullTokens \in Int
    /\ EmptyTokens' \in Int /\ FullTokens' \in Int
    /\ EmptyTokens' >= EmptyTokens /\ FullTokens' >= FullTokens
    /\ dropped => dropped'
    /\ ~dropped' => EmptyTokens' = EmptyTokens /\ FullTokens' = FullTokens
    /\ (dropped' /\ \A e \in Droppers : pc'[e] \notin Dropping) =>
          \/ dropped /\ \A e \in Droppers : pc[e] \notin Dropping
          \/ EmptyTokens' >= MAX_QUEUE_SIZE /\ FullTokens' >= MAX_QUEUE_SIZE
    /\ count' = count

(* Every step of mymsqdrop has that effect. *)
LEMMA DropHasEffect ==
    ASSUME Types, Types', DropInv, NEW d \in Droppers, DropLock(d) \/ DropStep(d)
    PROVE  DropEffect
<1>1. pc' = [pc EXCEPT ![d] = pc'[d]]
      BY DEF Types, Threads, Callers, Goto, DropStep, DropLock, DropAgain, DropMark, DropReadEmpty, DropPostEmpty, DropReadFull, DropPostFull, DropPostBoth
<1>2. d \in Threads /\ d \notin Producers /\ d \notin Consumers
      BY ThreadsAssumption DEF Threads, Callers
<1>3. \A e \in Droppers : e # d => pc'[e] = pc[e]
      BY <1>1 DEF Types, Threads
<1>4. /\ EmptyTokens \in Nat /\ FullTokens \in Nat
      /\ EmptyTokens' = EmptyTokens + (empty' - empty)
      /\ FullTokens' = FullTokens + (full' - full)
  <2>1. \A place : EmptyShare(d, place) = 0 /\ FullShare(d, place) = 0
        BY <1>2 DEF EmptyShare, FullShare
  <2> HIDE DEF EmptyShare, FullShare
  <2>2. empty \in Nat /\ empty' \in Nat /\ full \in Nat /\ full' \in Nat
        BY DEF Types
  <2> QED BY <1>1, <1>2, <2>1, <2>2, TokensMove
<1>5. /\ empty \in Nat /\ full \in Nat /\ sem_val \in [Droppers -> Nat] /\ dropped \in BOOLEAN
      /\ pc \in [Threads -> PutPlaces \cup GetPlaces \cup DropPlaces]
      /\ MAX_QUEUE_SIZE \in Nat
      BY SizesAssumption DEF Types
<1>6. pc[d] \in Dropping => dropped
      BY <1>2 DEF DropInv
<1> USE <1>2, <1>3, <1>4, <1>5, <1>6 DEF DropEffect, Goto, Dropping, ring, sems, local
<1>7. CASE DropLock(d) BY <1>7 DEF DropLock
<1>8. CASE DropAgain(d) BY <1>8 DEF DropAgain
<1>9. CASE DropMark(d) BY <1>9 DEF DropMark
<1>10. CASE DropReadEmpty(d) BY <1>10 DEF DropReadEmpty
<1>11. CASE DropPostEmpty(d) BY <1>11 DEF DropPostEmpty
<1>12. CASE DropReadFull(d) BY <1>12 DEF DropReadFull
<1>13. CASE DropPostFull(d) BY <1>13 DEF DropPostFull
<1>14. CASE DropPostBoth(d) BY <1>14 DEF DropPostBoth
<1> QED BY <1>7, <1>8, <1>9, <1>10, <1>11, <1>12, <1>13, <1>14 DEF DropStep

(* Balanced accounts keep their bounds, and stand still when count does. *)
LEMMA Settle ==
    \A e, f, c, m \in Int : e + c = f + m =>
        /\ c = m => e = f
        /\ f >= c => e >= m
        /\ f <= c => e <= m
        /\ \A n \in Int : (f + m >= n => e + c >= n) /\ (f + m <= n => e + c <= n)
OBVIOUS

(* The same when count does not move at all. *)
LEMMA Cancel ==
    \A e, f, c \in Int : e + c = f + c => e = f
OBVIOUS

(* The accounting invariants are kept by every step. *)
LEMMA TokenStep ==
    ASSUME IInv, Types', [Next]_vars
    PROVE  TokenInv' /\ CountInv' /\ DropWakesAll'
<1> USE SizesAssumption DEF IInv
<1>0. count \in Int /\ count' \in Int /\ dropped \in BOOLEAN
      BY DEF Types
<1>1. ASSUME NEW p \in Producers, (\E m \in Letters : PutCall(p, m)) \/ PutWaitFails(p) \/ PutStep(p)
      PROVE  TokenInv' /\ CountInv' /\ DropWakesAll'
  <2>1. Balanced
        BY <1>1, PutBalanced
  <2>2. count' = count \/ (count' = count + 1 /\ ~dropped /\ EmptyTokens >= 1)
    <3>1. CASE PutAdvance(p)
          BY <3>1, HolderHasToken DEF PutAdvance, Goto, DropInv, Threads, Callers
    <3>2. CASE ~PutAdvance(p)
          BY <1>1, <3>2 DEF PutStep, PutCall, PutWaitFails, PutWait, PutLock, PutRefused,
                            PutRepost, PutCopy, PutPost, ring
    <3> QED BY <3>1, <3>2
  <2>3. dropped => count' = count
        BY <2>2
  <2>4. TokenInv'
    <3>1. EmptyTokens' + count' >= MAX_QUEUE_SIZE
          BY <1>0, <2>1, Settle DEF Balanced, TokenInv
    <3>2. FullTokens' >= count'
          BY <1>0, <2>1, Settle DEF Balanced, TokenInv
    <3>3. ~dropped' => EmptyTokens' + count' <= MAX_QUEUE_SIZE
          BY <1>0, <2>1, Settle DEF Balanced, TokenInv
    <3>4. ~dropped' => FullTokens' <= count'
          BY <1>0, <2>1, Settle DEF Balanced, TokenInv
    <3> QED BY <3>1, <3>2, <3>3, <3>4 DEF TokenInv
  <2>5. CountInv'
        BY <1>0, <2>1, <2>2 DEF Balanced, TokenInv, CountInv
  <2>6. DropWakesAll'
    <3>1. dropped' = dropped /\ \A d \in Droppers : pc'[d] = pc[d]
          BY <2>1 DEF Balanced
    <3>2. dropped => EmptyTokens' = EmptyTokens /\ FullTokens' = FullTokens
      <4> SUFFICES ASSUME count' = count
                   PROVE  EmptyTokens' = EmptyTokens /\ FullTokens' = FullTokens
          BY <2>3
      <4>1. EmptyTokens' = EmptyTokens
            BY <1>0, <2>1, Cancel DEF Balanced
      <4>2. FullTokens' = FullTokens
            BY <1>0, <2>1, Cancel DEF Balanced
      <4> QED BY <4>1, <4>2
    <3> QED BY <3>1, <3>2 DEF DropWakesAll
  <2> QED BY <2>4, <2>5, <2>6
<1>2. ASSUME NEW c \in Consumers, GetCall(c) \/ GetWaitFails(c) \/ GetStep(c)
      PROVE  TokenInv' /\ CountInv' /\ DropWakesAll'
  <2>1. Balanced
        BY <1>2, GetBalanced
  <2>2. count' = count \/ (count' = count - 1 /\ ~dropped /\ FullTokens >= 1)
    <3>1. CASE GetAdvance(c)
          BY <3>1, HolderHasToken DEF GetAdvance, Goto, DropInv, Threads, Callers
    <3>2. CASE ~GetAdvance(c)
          BY <1>2, <3>2 DEF GetStep, GetCall, GetWaitFails, GetWait, GetLock, GetRefused,
                            GetRepost, GetCopy, GetPost, ring
    <3> QED BY <3>1, <3>2
  <2>3. dropped => count' = count
        BY <2>2
  <2>4. TokenInv'
    <3>1. EmptyTokens' + count' >= MAX_QUEUE_SIZE
          BY <1>0, <2>1, Settle DEF Balanced, TokenInv
    <3>2. FullTokens' >= count'
          BY <1>0, <2>1, Settle DEF Balanced, TokenInv
    <3>3. ~dropped' => EmptyTokens' + count' <= MAX_QUEUE_SIZE
          BY <1>0, <2>1, Settle DEF Balanced, TokenInv
    <3>4. ~dropped' => FullTokens' <= count'
          BY <1>0, <2>1, Settle DEF Balanced, TokenInv
    <3> QED BY <3>1, <3>2, <3>3, <3>4 DEF TokenInv
  <2>5. CountInv'
        BY <1>0, <2>1, <2>2 DEF Balanced, TokenInv, CountInv
  <2>6. DropWakesAll'
    <3>1. dropped' = dropped /\ \A d \in Droppers : pc'[d] = pc[d]
          BY <2>1 DEF Balanced
    <3>2. dropped => EmptyTokens' = EmptyTokens /\ FullTokens' = FullTokens
      <4> SUFFICES ASSUME count' = count
                   PROVE  EmptyTokens' = EmptyTokens /\ FullTokens' = FullTokens
          BY <2>3
      <4>1. EmptyTokens' = EmptyTokens
            BY <1>0, <2>1, Cancel DEF Balanced
      <4>2. FullTokens' = FullTokens
            BY <1>0, <2>1, Cancel DEF Balanced
      <4> QED BY <4>1, <4>2
    <3> QED BY <3>1, <3>2 DEF DropWakesAll
  <2> QED BY <2>4, <2>5, <2>6
<1>3. ASSUME NEW d \in Droppers, DropLock(d) \/ DropStep(d)
      PROVE  TokenInv' /\ CountInv' /\ DropWakesAll'
  <2>1. DropEffect
        BY <1>3, DropHasEffect
  <2>2. TokenInv'
    <3>1. EmptyTokens' + count' >= MAX_QUEUE_SIZE /\ FullTokens' >= count'
      <4>1. EmptyTokens' + count >= MAX_QUEUE_SIZE
        <5>1. EmptyTokens \in Int /\ EmptyTokens' \in Int /\ EmptyTokens' >= EmptyTokens
              BY <2>1 DEF DropEffect
        <5>2. EmptyTokens + count >= MAX_QUEUE_SIZE /\ MAX_QUEUE_SIZE \in Int
              BY DEF TokenInv
        <5>3. \A e, f, c, m \in Int : e >= f /\ f + c >= m => e + c >= m
              OBVIOUS
        <5> QED BY ONLY <1>0, <5>1, <5>2, <5>3
      <4>2. FullTokens' >= count
            BY <1>0, <2>1 DEF DropEffect, TokenInv
      <4> QED BY <2>1, <4>1, <4>2 DEF DropEffect
    <3>2. ~dropped' => EmptyTokens' + count' <= MAX_QUEUE_SIZE /\ FullTokens' <= count'
          BY <1>0, <2>1 DEF DropEffect, TokenInv
    <3> QED BY <3>1, <3>2 DEF TokenInv
  <2>3. CountInv'
        BY <1>0, <2>1 DEF DropEffect, CountInv
  <2>4. DropWakesAll'
        BY <1>0, <2>1 DEF DropEffect, DropWakesAll
  <2> QED BY <2>2, <2>3, <2>4
<1>4. ASSUME UNCHANGED vars PROVE TokenInv' /\ CountInv' /\ DropWakesAll'
      BY <1>4 DEF vars, TokenInv, CountInv, DropWakesAll, EmptyTokens, FullTokens,
                  EmptyHolders, FullHolders, EmptyOwed, FullOwed, At
<1> QED BY <1>1, <1>2, <1>3, <1>4 DEF Next

(* The initial state satisfies the invariant. *)
LEMMA InitIInv == Init => IInv
<1> SUFFICES ASSUME Init PROVE IInv
    OBVIOUS
<1>1. Types
      BY InitTypes
<1>2. \A t \in Threads : pc[t] = "idle"
      BY DEF Init
<1>3. /\ EmptyHolders = {} /\ EmptyOwed = {} /\ FullHolders = {} /\ FullOwed = {}
      BY <1>2 DEF EmptyHolders, EmptyOwed, FullHolders, FullOwed, At, Threads, Callers
<1>4. EmptyTokens = MAX_QUEUE_SIZE /\ FullTokens = 0
      BY <1>3, FS_EmptySet, SizesAssumption DEF EmptyTokens, FullTokens, Init
<1>5. MutexInv
      BY <1>2, ThreadsAssumption DEF MutexInv, Locked, Init, Threads, Callers
<1>6. DropInv
      BY <1>2 DEF DropInv, Dropping
<1>7. TokenInv /\ CountInv /\ DropWakesAll
      BY <1>4, SizesAssumption DEF TokenInv, CountInv, DropWakesAll, Init
<1> QED BY <1>1, <1>5, <1>6, <1>7 DEF IInv

(* The inductive invariant holds in every reachable state. *)
THEOREM Inductive == Spec => []IInv
<1>1. IInv /\ [Next]_vars => IInv'
      BY TypeStep, MutexStep, DropInvStep, TokenStep DEF IInv
<1> QED BY <1>1, InitIInv, PTL DEF Spec

(* TypeOK holds in every reachable state: the count is never negative, and *)
(* no slot, buffer or returned length exceeds the array it is meant for,   *)
(* whatever the length of the texts and the sizes of queue and buffers.    *)
THEOREM TypeCorrect == Spec => []TypeOK
<1>1. IInv /\ LengthInv => TypeOK
  <2>1. ASSUME Types, CountInv, LengthInv PROVE TypeOK
    <3> USE <2>1, ThreadsAssumption, SizesAssumption DEF Types, LengthInv, Callers
    <3>1. ASSUME NEW m \in Text, NEW n \in Nat, m.len < n PROVE m \in Fitting(n)
          BY <3>1 DEF Fitting, Text
    <3>2. buffer \in [Slots -> Fitting(MAX_MSG_LEN)]
          BY <3>1
    <3>3. \A c \in Consumers : text[c] \in Fitting(BufSize)
          BY <3>1
    <3>4. count \in Nat
          BY DEF CountInv
    <3> QED BY <3>2, <3>3, <3>4 DEF TypeOK
  <2> QED BY <2>1 DEF IInv
<1>2. IInv /\ LengthInv /\ [Next]_vars => LengthInv'
      BY LengthStep DEF IInv
<1> QED BY <1>1, <1>2, InitLengthInv, Inductive, PTL DEF Spec

(* Whoever is about to touch a slot holds or owes the token for it. *)
LEMMA TokensGiveSlots == IInv => SlotReady
<1>1. ASSUME IInv PROVE SlotReady
  <2> USE <1>1, SizesAssumption DEF IInv
  <2>1. count \in Int /\ EmptyTokens \in Int /\ FullTokens \in Int
    <3>1. /\ IsFiniteSet(EmptyHolders) /\ IsFiniteSet(EmptyOwed)
          /\ IsFiniteSet(FullHolders) /\ IsFiniteSet(FullOwed)
          BY ThreadsAssumption, FS_Subset DEF EmptyHolders, EmptyOwed, FullHolders, FullOwed, At
    <3> QED BY <3>1, FS_CardinalityType DEF Types, EmptyTokens, FullTokens
  <2>2. ASSUME NEW p \in Producers,
               pc[p] = "put_advance" \/ (pc[p] = "put_check" /\ ~dropped)
        PROVE  count < MAX_QUEUE_SIZE
    <3>1. ~dropped /\ EmptyTokens >= 1
          BY <2>2, HolderHasToken DEF DropInv, Threads, Callers
    <3> QED BY <2>1, <3>1 DEF TokenInv
  <2>3. ASSUME NEW c \in Consumers,
               pc[c] = "get_advance" \/ (pc[c] = "get_check" /\ ~dropped)
        PROVE  count > 0
    <3>1. ~dropped /\ FullTokens >= 1
          BY <2>3, HolderHasToken DEF DropInv, Threads, Callers
    <3> QED BY <2>1, <3>1 DEF TokenInv
  <2> QED BY <2>2, <2>3 DEF SlotReady, CountInv
<1> QED BY <1>1

(* Every token is accounted for, so the semaphores always add up to the    *)
(* ring: a drop adds tokens, nothing else does, and none is lost.          *)
THEOREM Tokens == Spec => []TokenInv
<1>1. IInv => TokenInv
      BY DEF IInv
<1> QED BY <1>1, Inductive, PTL

(* No slot is written before it was read nor read before it was written,   *)
(* for any number of producers, consumers and droppers and any ring size.  *)
THEOREM SlotsReady == Spec => []SlotReady
BY TokensGiveSlots, Inductive, PTL

(* No caller is left blocked once mymsqdrop has returned. *)
THEOREM DropWakes == Spec => []DropWakesAll
<1>1. IInv => DropWakesAll
      BY DEF IInv
<1> QED BY <1>1, Inductive, PTL

(* Nothing enters or leaves the ring after the drop. *)
THEOREM Frozen == Spec => DroppedIsFrozen
<1>1. ASSUME IInv, [Next]_vars, dropped PROVE UNCHANGED ring
  <2> USE <1>1 DEF IInv, ring
  <2>1. ASSUME NEW p \in Producers, (\E m \in Letters : PutCall(p, m)) \/ PutWaitFails(p) \/ PutStep(p)
        PROVE  UNCHANGED ring
    <3>1. ~PutAdvance(p)
          BY DEF PutAdvance, Goto, DropInv, Threads, Callers
    <3> QED BY <2>1, <3>1 DEF PutStep, PutCall, PutWaitFails, PutWait, PutLock, PutRefused,
                              PutRepost, PutCopy, PutPost
  <2>2. ASSUME NEW c \in Consumers, GetCall(c) \/ GetWaitFails(c) \/ GetStep(c)
        PROVE  UNCHANGED ring
    <3>1. ~GetAdvance(c)
          BY DEF GetAdvance, Goto, DropInv, Threads, Callers
    <3> QED BY <2>2, <3>1 DEF GetStep, GetCall, GetWaitFails, GetWait, GetLock, GetRefused,
                              GetRepost, GetCopy, GetPost
  <2>3. ASSUME NEW d \in Droppers, DropLock(d) \/ DropStep(d) PROVE UNCHANGED ring
        BY <2>3 DEF DropStep, DropLock, DropAgain, DropMark, DropReadEmpty, DropPostEmpty,
                    DropReadFull, DropPostFull, DropPostBoth
  <2>4. CASE UNCHANGED vars
        BY <2>4 DEF vars
  <2> QED BY <2>1, <2>2, <2>3, <2>4 DEF Next
<1>2. IInv /\ [Next]_vars => [dropped => UNCHANGED ring]_vars
      BY <1>1
<1> QED BY <1>2, Inductive, PTL DEF Spec, DroppedIsFrozen
=============================================================================
