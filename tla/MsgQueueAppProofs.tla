------------------------- MODULE MsgQueueAppProofs -------------------------
(***************************************************************************)
(* Proofs about main.c's threads on the queue, for any number of them, any *)
(* number of calls and any ring: no message is lost, doubled or overtaken. *)
(***************************************************************************)
EXTENDS MsgQueueApp, ChannelProofs

(* The program's variables keep their types.                               *)
AppTypeOK ==
    /\ at \in [Threads -> {"unborn", "loop", "call", "done"}]
    /\ i \in [Callers -> Nat]
    /\ log \in [Consumers -> Seq(Text)]
    /\ main \in Nat

(* A thread is in a call of the queue only between Enter and Returned; the *)
(* number of a producer's call is in its message; main creates each thread *)
(* once, and no thread makes more calls than its loop has rounds.          *)
LoopInv ==
    /\ \A t \in Callers : at[t] # "call" => pc[t] = "idle"
    /\ \A t \in Callers : i[t] <= Attempts(t) /\ (at[t] = "call" => i[t] < Attempts(t))
    /\ \A p \in Producers : at[p] = "call" => text[p] = [id |-> <<p, i[p]>>, len |-> TextLen]
    /\ \A c \in Consumers : Len(log[c]) <= i[c]
    /\ \A k \in DOMAIN Order : main < k => at[Order[k]] = "unborn"

(* The result tells a caller what happened: more than 0 once the message   *)
(* was transferred, and 0 up to then, and for good when the queue dropped. *)
ResultInv ==
    /\ \A t \in Callers :
          /\ pc[t] \in {"put_wait", "put_lock", "put_check", "get_wait", "get_lock", "get_check"} => ret[t] = 0
          /\ pc[t] \in {"put_advance", "put_post", "get_advance", "get_post"} => ret[t] > 0
          /\ pc[t] \in {"put_repost", "get_repost"} => ret[t] = 0 /\ dropped
          /\ at[t] = "call" /\ pc[t] = "idle" /\ ret[t] = 0 => dropped
    /\ \A k \in 1 .. count : Contents[k].len > 0

Base == CInv /\ AppTypeOK /\ LoopInv /\ ResultInv

-----------------------------------------------------------------------------
(* A step of the program is a step of the queue or leaves it alone.        *)
LEMMA AppStepIsStep == AppTypeOK /\ [AppNext]_allVars => [Next]_vars
<1> SUFFICES ASSUME AppTypeOK, [AppNext]_allVars PROVE [Next]_vars
    OBVIOUS
<1>1. ASSUME NEW p \in Producers, Produce(p) PROVE Next
  <2>1. i[p] < PutAttempts /\ PutCall(p, [id |-> <<p, i[p]>>, len |-> TextLen])
        BY <1>1 DEF Produce
  <2>2. <<p, i[p]>> \in Ids
        BY <2>1, AppAssumption DEF AppTypeOK, Callers
  <2>3. [id |-> <<p, i[p]>>, len |-> TextLen] \in Letters
        BY <2>2, AppAssumption DEF Letters
  <2> QED BY <2>1, <2>3 DEF Next
<1>2. ASSUME NEW c \in Consumers, Consume(c) PROVE Next
      BY <1>2 DEF Consume, Next
<1>3. ASSUME NEW d \in Droppers, Drop(d) PROVE Next
      BY <1>3 DEF Drop, Next
<1>4. ASSUME NEW t \in Threads, Inside(t) PROVE Next
      BY <1>4 DEF Inside, Next
<1>5. ASSUME NEW t \in Threads, Returned(t) \/ LoopEnds(t) PROVE UNCHANGED vars
      BY <1>5 DEF Returned, LoopEnds
<1>6. MainStep => UNCHANGED vars
      BY DEF MainStep, Create, Join, Destroy
<1>7. UNCHANGED allVars => UNCHANGED vars
      BY DEF allVars
<1>8. Producers \subseteq Threads /\ Consumers \subseteq Threads /\ Droppers \subseteq Threads
      BY DEF Threads, Callers
<1> QED BY <1>1, <1>2, <1>3, <1>4, <1>5, <1>6, <1>7, <1>8 DEF AppNext, ThreadStep

(* The same, with the parts of a thread's step told apart.                 *)
Starts(t) == (t \in Producers /\ Produce(t)) \/ (t \in Consumers /\ Consume(t)) \/ (t \in Droppers /\ Drop(t))
LEMMA AppSteps ==
    ASSUME [AppNext]_allVars
    PROVE  \/ \E t \in Threads : Starts(t) \/ Inside(t)
           \/ \E t \in Callers : Returned(t) \/ LoopEnds(t)
           \/ MainStep
           \/ UNCHANGED allVars
BY DEF AppNext, ThreadStep, Starts, Threads, Callers

(* A step inside a call moves nobody else and goes no further than the     *)
(* call's return.                                                          *)
LEMMA InsideMoves ==
    ASSUME Types, NEW t \in Threads, Inside(t)
    PROVE  /\ at[t] = "call" /\ UNCHANGED appVars
           /\ pc[t] # "idle"
           /\ \A u \in Callers \ {t} : pc'[u] = pc[u] /\ text'[u] = text[u] /\ ret'[u] = ret[u]
           /\ dropped => dropped'
           /\ t \in Producers => text'[t] = text[t]
<1> USE DEF Goto, local, Inside, PutStep, PutWait, PutLock, PutRefused, PutRepost, PutCopy, PutAdvance, PutPost,
            GetStep, GetWait, GetLock, GetRefused, GetRepost, GetCopy, GetAdvance, GetPost, DropStep, DropAgain,
            DropMark, DropReadEmpty, DropPostEmpty, DropReadFull, DropPostFull, DropPostBoth
<1>1. at[t] = "call" /\ UNCHANGED appVars
      OBVIOUS
<1>2. PICK place : pc' = [pc EXCEPT ![t] = place]
      OBVIOUS
<1>3. pc[t] # "idle"
      OBVIOUS
<1>4. \A u \in Callers \ {t} : text'[u] = text[u] /\ ret'[u] = ret[u]
      BY DEF Types
<1>5. \A u \in Callers \ {t} : pc'[u] = pc[u]
      BY ONLY Types, <1>2 DEF Types, Threads
<1>6. dropped => dropped'
      OBVIOUS
<1>7. t \in Producers => text'[t] = text[t]
      BY ThreadsAssumption
<1> QED BY <1>1, <1>3, <1>4, <1>5, <1>6, <1>7

LEMMA StartMoves ==
    ASSUME Types, NEW t \in Threads, Starts(t)
    PROVE  /\ at[t] = "loop" /\ at' = [at EXCEPT ![t] = "call"] /\ UNCHANGED <<i, log, main, ring, dropped>>
           /\ pc[t] = "idle" /\ (t \in Callers => pc'[t] \in {"put_wait", "get_wait"} /\ ret'[t] = 0)
           /\ t \in Producers => i[t] < PutAttempts /\ text'[t] = [id |-> <<t, i[t]>>, len |-> TextLen]
           /\ t \in Consumers => i[t] < GetAttempts
           /\ \A u \in Callers \ {t} : pc'[u] = pc[u] /\ text'[u] = text[u] /\ ret'[u] = ret[u]
<1> USE DEF Starts, Goto, local, Produce, Consume, Drop, Enter, PutCall, GetCall, DropLock
<1>1. /\ at[t] = "loop" /\ at' = [at EXCEPT ![t] = "call"] /\ UNCHANGED <<i, log, main, ring, dropped>>
      /\ pc[t] = "idle"
      OBVIOUS
<1>2. t \in Callers => pc'[t] \in {"put_wait", "get_wait"} /\ ret'[t] = 0
      BY ThreadsAssumption DEF Types, Callers
<1>3. t \in Producers => i[t] < PutAttempts /\ text'[t] = [id |-> <<t, i[t]>>, len |-> TextLen]
      BY ThreadsAssumption DEF Types, Callers
<1>4. t \in Consumers => i[t] < GetAttempts
      BY ThreadsAssumption DEF Callers
<1>5. \A u \in Callers \ {t} : pc'[u] = pc[u] /\ text'[u] = text[u] /\ ret'[u] = ret[u]
      BY DEF Types, Threads
<1> QED BY <1>1, <1>2, <1>3, <1>4, <1>5

LEMMA AppTypeStep == Types /\ AppTypeOK /\ [AppNext]_allVars => AppTypeOK'
<1> SUFFICES ASSUME Types, AppTypeOK, [AppNext]_allVars PROVE AppTypeOK'
    OBVIOUS
<1>1. ASSUME NEW t \in Threads, Starts(t) PROVE AppTypeOK'
      BY <1>1, StartMoves DEF AppTypeOK
<1>2. ASSUME NEW t \in Threads, Inside(t) PROVE AppTypeOK'
      BY <1>2, InsideMoves DEF AppTypeOK, appVars
<1>3. ASSUME NEW t \in Callers, Returned(t) PROVE AppTypeOK'
  <2>1. at' \in [Threads -> {"unborn", "loop", "call", "done"}] /\ i' \in [Callers -> Nat] /\ main' \in Nat
    <3>1. at' = [at EXCEPT ![t] = "done"] \/ at' = [at EXCEPT ![t] = "loop"]
          BY <1>3 DEF Returned
    <3>2. i' = i \/ i' = [i EXCEPT ![t] = @ + 1]
          BY <1>3 DEF Returned
    <3>3. main' = main
          BY <1>3 DEF Returned
    <3> QED BY <3>1, <3>2, <3>3 DEF AppTypeOK
  <2>2. log' \in [Consumers -> Seq(Text)]
    <3>1. \A c \in Consumers : Append(log[c], text[c]) \in Seq(Text)
          BY DEF Types, AppTypeOK, Callers
    <3> QED BY <1>3, <3>1 DEF Returned, AppTypeOK
  <2> QED BY <2>1, <2>2 DEF AppTypeOK
<1>4. ASSUME NEW t \in Callers, LoopEnds(t) PROVE AppTypeOK'
      BY <1>4 DEF LoopEnds, AppTypeOK
<1>5. ASSUME MainStep PROVE AppTypeOK'
      BY <1>5 DEF MainStep, Create, Join, Destroy, AppTypeOK, Finished, N
<1>6. ASSUME UNCHANGED allVars PROVE AppTypeOK'
      BY <1>6 DEF allVars, appVars, AppTypeOK
<1> QED BY <1>1, <1>2, <1>3, <1>4, <1>5, <1>6, AppSteps

LEMMA LoopStep == Types /\ AppTypeOK /\ LoopInv /\ [AppNext]_allVars => LoopInv'
<1> SUFFICES ASSUME Types, AppTypeOK, LoopInv, [AppNext]_allVars PROVE LoopInv'
    OBVIOUS
<1>0. Callers \subseteq Threads /\ Order \in Seq(Callers)
      BY AppAssumption DEF Threads
<1>1. ASSUME NEW t \in Threads, Starts(t) PROVE LoopInv'
  <2>0. at[t] = "loop" /\ at'[t] = "call" /\ \A u \in Threads \ {t} : at'[u] = at[u]
        BY <1>1, StartMoves DEF AppTypeOK
  <2>1. \A u \in Callers : at'[u] # "call" => pc'[u] = "idle"
    <3>1. \A u \in Callers \ {t} : pc'[u] = pc[u]
          BY <1>1, StartMoves
    <3> QED BY <1>0, <2>0, <3>1 DEF LoopInv
  <2>2. \A u \in Callers : i'[u] <= Attempts(u) /\ (at'[u] = "call" => i'[u] < Attempts(u))
        BY <1>0, <1>1, StartMoves DEF AppTypeOK, LoopInv, Attempts, Callers
  <2>3. \A p \in Producers : at'[p] = "call" => text'[p] = [id |-> <<p, i'[p]>>, len |-> TextLen]
    <3>1. \A u \in Callers \ {t} : text'[u] = text[u]
          BY <1>1, StartMoves
    <3>2. t \in Producers => text'[t] = [id |-> <<t, i[t]>>, len |-> TextLen]
          BY <1>1, StartMoves
    <3>3. i' = i /\ Producers \subseteq Callers
          BY <1>1, StartMoves DEF Callers
    <3> QED BY <1>0, <2>0, <3>1, <3>2, <3>3 DEF LoopInv
  <2>4. \A c \in Consumers : Len(log'[c]) <= i'[c]
        BY <1>1, StartMoves DEF LoopInv
  <2>5. \A k \in DOMAIN Order : main' < k => at'[Order[k]] = "unborn"
    <3>1. \A k \in DOMAIN Order : Order[k] \in Threads
          BY <1>0
    <3>2. main' = main
          BY <1>1, StartMoves
    <3> QED BY <2>0, <3>1, <3>2 DEF LoopInv
  <2> QED BY <2>1, <2>2, <2>3, <2>4, <2>5 DEF LoopInv, Attempts
<1>2. ASSUME NEW t \in Threads, Inside(t) PROVE LoopInv'
  <2>1. \A u \in Callers : at'[u] # "call" => pc'[u] = "idle"
        BY <1>0, <1>2, InsideMoves DEF LoopInv, appVars
  <2>2. \A p \in Producers : at'[p] = "call" => text'[p] = [id |-> <<p, i'[p]>>, len |-> TextLen]
        BY <1>0, <1>2, InsideMoves DEF LoopInv, appVars, Callers
  <2>3. UNCHANGED <<at, i, log, main>>
        BY <1>2, InsideMoves DEF appVars
  <2> QED BY <2>1, <2>2, <2>3 DEF LoopInv, Attempts
<1>3. ASSUME NEW t \in Callers, Returned(t) PROVE LoopInv'
  <2>0. /\ at[t] = "call" /\ pc[t] = "idle" /\ UNCHANGED <<vars, main>>
        /\ log' = [c \in Consumers |-> IF c = t /\ ret[t] > 0 THEN Append(log[c], text[c]) ELSE log[c]]
        /\ \/ ret[t] > 0 \/ ~dropped
           \/ at' = [at EXCEPT ![t] = "done"] /\ i' = i /\ ret[t] = 0
        /\ \/ at' = [at EXCEPT ![t] = "done"] /\ i' = i /\ ret[t] = 0
           \/ at' = [at EXCEPT ![t] = "loop"] /\ i' = [i EXCEPT ![t] = @ + 1]
        BY <1>3 DEF Returned, Types
  <2>1. \A u \in Callers : at'[u] # "call" => pc'[u] = "idle"
        BY <1>0, <2>0 DEF AppTypeOK, LoopInv, vars
  <2>2. \A u \in Callers : i'[u] <= Attempts(u) /\ (at'[u] = "call" => i'[u] < Attempts(u))
        BY <1>0, <2>0, AppAssumption DEF AppTypeOK, LoopInv, Attempts
  <2>3. \A p \in Producers : at'[p] = "call" => text'[p] = [id |-> <<p, i'[p]>>, len |-> TextLen]
        BY <1>0, <2>0 DEF AppTypeOK, LoopInv, Callers, vars
  <2>4. ASSUME NEW c \in Consumers PROVE Len(log'[c]) <= i'[c]
    <3>1. Len(log[c]) \in Nat /\ Len(Append(log[c], text[c])) = Len(log[c]) + 1 /\ Len(log[c]) <= i[c]
          BY DEF AppTypeOK, Types, LoopInv, Callers
    <3>2. c \in Callers /\ i[c] \in Nat
          BY DEF Callers, AppTypeOK
    <3>3. CASE c = t /\ ret[t] > 0
      <4>1. i'[c] = i[c] + 1
            BY <2>0, <3>2, <3>3 DEF AppTypeOK
      <4> QED BY <2>0, <3>1, <3>2, <3>3, <4>1
    <3>4. CASE ~(c = t /\ ret[t] > 0)
      <4>1. i'[c] >= i[c]
            BY <2>0, <3>2 DEF AppTypeOK
      <4>2. log'[c] = log[c]
            BY <2>0, <3>4
      <4> QED BY <2>0, <3>1, <3>2, <4>1, <4>2 DEF AppTypeOK
    <3> QED BY <3>3, <3>4
  <2>5. \A k \in DOMAIN Order : main' < k => at'[Order[k]] = "unborn"
        BY <1>0, <2>0 DEF AppTypeOK, LoopInv
  <2> QED BY <2>1, <2>2, <2>3, <2>4, <2>5 DEF LoopInv, Attempts
<1>4. ASSUME NEW t \in Callers, LoopEnds(t) PROVE LoopInv'
      BY <1>0, <1>4 DEF LoopEnds, AppTypeOK, LoopInv, vars, Attempts, Callers
<1>5. ASSUME MainStep PROVE LoopInv'
  <2>1. CASE Create
    <3>1. /\ main + 1 \in DOMAIN Order /\ at[Order[main + 1]] = "unborn" /\ main' = main + 1
          /\ at' = [at EXCEPT ![Order[main + 1]] = "loop"] /\ UNCHANGED <<vars, i, log>>
          BY <1>0, <2>1 DEF Create, N, AppTypeOK, LoopInv
    <3>2. \A u \in Threads : at'[u] # at[u] => at[u] = "unborn" /\ at'[u] = "loop"
          BY <1>0, <3>1 DEF AppTypeOK
    <3>3. \A k \in DOMAIN Order : main' < k => at'[Order[k]] = "unborn"
      <4> SUFFICES ASSUME NEW k \in DOMAIN Order, main' < k PROVE at'[Order[k]] = "unborn"
          OBVIOUS
      <4>1. k # main + 1 /\ Order[k] # Order[main + 1] /\ main < k
            BY <1>0, <3>1, AppAssumption DEF AppTypeOK
      <4> QED BY <1>0, <3>1, <4>1 DEF AppTypeOK, LoopInv
    <3> QED BY <1>0, <3>1, <3>2, <3>3 DEF LoopInv, Attempts, vars, Callers
  <2>2. CASE Join \/ Destroy
    <3>1. main' >= main /\ UNCHANGED <<vars, at, i, log>>
          BY <1>0, <2>2 DEF Join, Destroy, Finished, N, AppTypeOK
    <3>2. main' \in Nat /\ main \in Nat
          BY <2>2, <1>0 DEF Join, Destroy, Finished, N, AppTypeOK
    <3> QED BY <1>0, <3>1, <3>2 DEF LoopInv, Attempts, vars
  <2> QED BY <1>5, <2>1, <2>2 DEF MainStep
<1>6. ASSUME UNCHANGED allVars PROVE LoopInv'
      BY <1>6 DEF allVars, appVars, vars, LoopInv, Attempts
<1> QED BY <1>1, <1>2, <1>3, <1>4, <1>5, <1>6, AppSteps

(* Only the advances of tail and head change what is in the ring.          *)
LEMMA ContentsStay ==
    ASSUME CInv, NEW t \in Threads, Starts(t) \/ Inside(t),
           ~(t \in Producers /\ PutAdvance(t)), ~(t \in Consumers /\ GetAdvance(t))
    PROVE  Contents' = Contents
<1>1. CASE t \in Producers /\ PutCopy(t)
      BY <1>1, CopyIsHidden
<1>2. CASE ~(t \in Producers /\ PutCopy(t))
  <2>1. UNCHANGED ring
        BY <1>2 DEF Starts, Inside, Produce, Consume, Drop, PutCall, GetCall, DropLock, PutStep, PutWait, PutLock,
           PutRefused, PutRepost, PutPost, GetStep, GetWait, GetLock, GetRefused, GetRepost, GetCopy, GetPost,
           DropStep, DropAgain, DropMark, DropReadEmpty, DropPostEmpty, DropReadFull, DropPostFull, DropPostBoth
  <2> QED BY <2>1 DEF ring, Contents
<1> QED BY <1>1, <1>2

(* A cut keeps at least one character of a text that is not empty.         *)
LEMMA CutNotEmpty ==
    ASSUME NEW m \in Text, NEW n \in Nat, m.len > 0, n > 0
    PROVE  Truncate(m, n).len > 0 /\ Truncate(m, n).id = m.id
BY DEF Text, Truncate, AtMost

(* The result of one caller, and of the messages in the ring.              *)
ResultOf(t) ==
    /\ pc[t] \in {"put_wait", "put_lock", "put_check", "get_wait", "get_lock", "get_check"} => ret[t] = 0
    /\ pc[t] \in {"put_advance", "put_post", "get_advance", "get_post"} => ret[t] > 0
    /\ pc[t] \in {"put_repost", "get_repost"} => ret[t] = 0 /\ dropped
    /\ at[t] = "call" /\ pc[t] = "idle" /\ ret[t] = 0 => dropped

LEMMA ResultStep == Base /\ [AppNext]_allVars => ResultInv'
<1> SUFFICES ASSUME Base, [AppNext]_allVars PROVE ResultInv'
    OBVIOUS
<1> USE DEF Base
<1>0. /\ Types /\ Types' /\ CInv /\ SlotReady /\ Producers \subseteq Callers /\ Consumers \subseteq Callers
      /\ Callers \subseteq Threads /\ Droppers \cap Callers = {}
      BY AppStepIsStep, TypeStep, ThreadsAssumption DEF CInv, IInv, Callers, Threads
<1>a. \A u \in Callers : ResultOf(u)
      BY DEF ResultInv, ResultOf
<1>b. Contents \in Seq(Text) /\ Len(Contents) = count /\ \A k \in 1 .. count : Contents[k].len > 0
      BY <1>0, ContentsSeq DEF ResultInv
<1>c. ASSUME Contents' = Contents PROVE \A k \in 1 .. count' : Contents'[k].len > 0
      BY <1>b, <1>c DEF Contents
<1>1. ASSUME NEW t \in Threads, Starts(t) PROVE ResultInv'
  <2>1. \A u \in Callers : ResultOf(u)'
    <3>1. t \in Callers => ResultOf(t)'
      <4>1. ASSUME t \in Callers PROVE pc'[t] \in {"put_wait", "get_wait"} /\ ret'[t] = 0
            BY <1>0, <1>1, <4>1, StartMoves
      <4> QED BY <4>1 DEF ResultOf
    <3>2. \A u \in Callers \ {t} : ResultOf(u)'
      <4>1. \A u \in Callers \ {t} : pc'[u] = pc[u] /\ ret'[u] = ret[u] /\ at'[u] = at[u]
            BY <1>0, <1>1, StartMoves DEF AppTypeOK
      <4>2. dropped' = dropped
            BY <1>0, <1>1, StartMoves
      <4> QED BY <1>a, <4>1, <4>2 DEF ResultOf
    <3> QED BY <3>1, <3>2
  <2>2. Contents' = Contents
        BY <1>0, <1>1, StartMoves DEF ring, Contents
  <2> QED BY <1>c, <2>1, <2>2 DEF ResultInv, ResultOf
<1>2. ASSUME NEW t \in Threads, Inside(t) PROVE ResultInv'
  <2>0. /\ at' = at /\ (dropped => dropped')
        /\ \A u \in Callers \ {t} : pc'[u] = pc[u] /\ ret'[u] = ret[u]
        BY <1>0, <1>2, InsideMoves DEF appVars
  <2>1. \A u \in Callers \ {t} : ResultOf(u)'
        BY <1>a, <2>0 DEF ResultOf
  <2>2. ASSUME t \in Producers PROVE ResultOf(t)'
    <3>0. PutStep(t) /\ ResultOf(t) /\ pc \in [Threads -> PutPlaces \cup GetPlaces \cup DropPlaces]
          /\ ret \in [Callers -> Nat] /\ at[t] = "call"
          BY <1>0, <1>2, <1>a, <2>2, ThreadsAssumption DEF Inside, Types, Callers
    <3>1. CASE PutWait(t) \/ PutLock(t) \/ PutRefused(t)
          BY <1>0, <2>0, <2>2, <3>0, <3>1 DEF PutWait, PutLock, PutRefused, Goto, local, ResultOf
    <3>2. CASE PutRepost(t) \/ PutAdvance(t) \/ PutPost(t)
          BY <1>0, <2>0, <2>2, <3>0, <3>2 DEF PutRepost, PutAdvance, PutPost, Goto, local, ResultOf
    <3>3. CASE PutCopy(t)
      <4>1. text[t].len > 0 /\ text[t] \in Text /\ MAX_MSG_LEN - 1 \in Nat /\ MAX_MSG_LEN - 1 > 0
        <5>1. text[t] = [id |-> <<t, i[t]>>, len |-> TextLen]
              BY <2>2, <3>0 DEF LoopInv
        <5>2. text[t] \in Text
              BY <1>0, <2>2 DEF Types
        <5> QED BY <5>1, <5>2, AppAssumption, SizesAssumption
      <4>2. Stored(text[t]).len > 0
            BY <4>1, CutNotEmpty DEF Stored
      <4> QED BY <1>0, <2>2, <3>0, <3>3, <4>2 DEF PutCopy, Goto, ResultOf
    <3> QED BY <3>0, <3>1, <3>2, <3>3 DEF PutStep
  <2>3. ASSUME t \in Consumers PROVE ResultOf(t)'
    <3>0. GetStep(t) /\ ResultOf(t) /\ pc \in [Threads -> PutPlaces \cup GetPlaces \cup DropPlaces]
          /\ ret \in [Callers -> Nat] /\ at[t] = "call"
          BY <1>0, <1>2, <1>a, <2>3, ThreadsAssumption DEF Inside, Types, Callers
    <3>1. CASE GetWait(t) \/ GetLock(t) \/ GetRefused(t)
          BY <1>0, <2>0, <2>3, <3>0, <3>1 DEF GetWait, GetLock, GetRefused, Goto, local, ResultOf
    <3>2. CASE GetRepost(t) \/ GetAdvance(t) \/ GetPost(t)
          BY <1>0, <2>0, <2>3, <3>0, <3>2 DEF GetRepost, GetAdvance, GetPost, Goto, local, ResultOf
    <3>3. CASE GetCopy(t)
      <4> DEFINE m == Truncate(Stored(buffer[head]), BufSize - 1)
      <4>1. count > 0 /\ buffer[head] \in Text /\ buffer[head].len > 0
        <5>1. count > 0
              BY <1>0, <2>3, <3>3 DEF GetCopy, Goto, SlotReady
        <5> QED BY <1>0, <1>b, <5>1, ContentsSeq DEF Types
      <4>2. /\ MAX_MSG_LEN - 1 \in Nat /\ MAX_MSG_LEN - 1 > 0
            /\ BufSize - 1 \in Nat /\ BufSize - 1 > 0
            BY AppAssumption, SizesAssumption
      <4>3. Stored(buffer[head]).len > 0 /\ Stored(buffer[head]) \in Text
            BY <4>1, <4>2, CutNotEmpty, TruncateText DEF Stored
      <4>4. m.len > 0
            BY <4>2, <4>3, CutNotEmpty
      <4>5. pc'[t] = "get_advance" /\ ret'[t] = m.len
            BY <1>0, <2>3, <3>0, <3>3 DEF GetCopy, Goto, First
      <4> HIDE DEF m
      <4> QED BY <4>4, <4>5 DEF ResultOf
    <3> QED BY <3>0, <3>1, <3>2, <3>3 DEF GetStep
  <2>4. \A u \in Callers : ResultOf(u)'
        BY <2>1, <2>2, <2>3 DEF Callers
  <2>5. \A k \in 1 .. count' : Contents'[k].len > 0
    <3>1. CASE t \in Producers /\ PutAdvance(t)
      <4>1. count' = count + 1 /\ Contents' = Append(Contents, Stored(text[t])) /\ Stored(text[t]).len > 0
            BY <1>a, <1>0, <3>1, PutTakesEffect DEF PutAdvance, Goto, ResultOf
      <4>2. Stored(text[t]) \in Text
            BY <1>0, <3>1, SizesAssumption, TruncateText DEF Stored, Types
      <4> QED BY <1>b, <4>1, <4>2, AppendProperties
    <3>2. CASE t \in Consumers /\ GetAdvance(t)
      <4>1. count' = count - 1 /\ Contents' = Tail(Contents) /\ count > 0
            BY <3>2, GetTakesEffect DEF GetAdvance
      <4>2. \A k \in 1 .. count - 1 : Contents'[k] = Contents[k + 1] /\ k + 1 \in 1 .. count
            BY <1>b, <4>1
      <4> QED BY <1>b, <4>1, <4>2
    <3>3. CASE ~(t \in Producers /\ PutAdvance(t)) /\ ~(t \in Consumers /\ GetAdvance(t))
          BY <1>2, <1>c, <3>3, ContentsStay
    <3> QED BY <3>1, <3>2, <3>3
  <2> QED BY <2>4, <2>5 DEF ResultInv, ResultOf
<1>3. ASSUME NEW t \in Callers, Returned(t) \/ LoopEnds(t) PROVE ResultInv'
  <2>1. /\ UNCHANGED vars /\ \A u \in Callers : at'[u] = "call" => at[u] = "call"
    <3>1. at' = [at EXCEPT ![t] = "done"] \/ at' = [at EXCEPT ![t] = "loop"]
          BY <1>3 DEF Returned, LoopEnds
    <3>2. UNCHANGED vars
          BY <1>3 DEF Returned, LoopEnds
    <3> QED BY <1>0, <3>1, <3>2 DEF AppTypeOK
  <2>2. \A u \in Callers : ResultOf(u)'
        BY <1>a, <2>1 DEF ResultOf, vars
  <2>3. Contents' = Contents
        BY <2>1 DEF vars, Contents
  <2> QED BY <1>c, <2>2, <2>3 DEF ResultInv, ResultOf
<1>4. ASSUME MainStep \/ UNCHANGED allVars PROVE ResultInv'
  <2>1. /\ UNCHANGED vars /\ \A u \in Callers : at'[u] = "call" => at[u] = "call"
        BY <1>0, <1>4, AppAssumption DEF MainStep, Create, Join, Destroy, allVars, appVars, AppTypeOK, N
  <2>2. \A u \in Callers : ResultOf(u)'
        BY <1>a, <2>1 DEF ResultOf, vars
  <2>3. Contents' = Contents
        BY <2>1 DEF vars, Contents
  <2> QED BY <1>c, <2>2, <2>3 DEF ResultInv, ResultOf
<1> QED BY <1>1, <1>2, <1>3, <1>4, AppSteps

LEMMA BaseStep == Base /\ [AppNext]_allVars => Base'
BY AppStepIsStep, CInvStep, AppTypeStep, LoopStep, ResultStep DEF Base, CInv, IInv

-----------------------------------------------------------------------------
(* Messages are named by their producer and its call.  A message is known  *)
(* when its put has taken effect; a consumer holds it between the advance  *)
(* of head and the entry in its log.                                       *)
Sent(p)      == at[p] = "done" \/ (at[p] = "call" /\ pc[p] \in {"put_post", "idle"})
Named(p, n)  == n < i[p] \/ (n = i[p] /\ Sent(p))
Names        == {m \in Producers \X Nat : Named(m[1], m[2])}
Holds(c)     == pc[c] = "get_post" \/ (pc[c] = "idle" /\ at[c] = "call" /\ ret[c] > 0)
Before(a, b) == a[1] = b[1] => a[2] < b[2]

(* What a producer sent first is ahead of what it sent later: in the ring, *)
(* of what is still in the ring, and with each consumer.                   *)
OrderInv ==
    /\ \A k \in 1 .. Len(Contents) : Contents[k].id \in Names
    /\ \A c \in Consumers : Holds(c) => text[c].id \in Names
    /\ \A c \in Consumers : \A a \in 1 .. Len(log[c]) : log[c][a].id \in Names
    /\ \A a, b \in 1 .. Len(Contents) : a < b => Before(Contents[a].id, Contents[b].id)
    /\ \A c \in Consumers : \A k \in 1 .. Len(Contents) : Holds(c) => Before(text[c].id, Contents[k].id)
    /\ \A c \in Consumers : \A a \in 1 .. Len(log[c]) : \A k \in 1 .. Len(Contents) :
          Before(log[c][a].id, Contents[k].id)
    /\ \A c \in Consumers : \A a \in 1 .. Len(log[c]) : Holds(c) => Before(log[c][a].id, text[c].id)
    /\ \A c \in Consumers : \A a, b \in 1 .. Len(log[c]) : a < b => Before(log[c][a].id, log[c][b].id)

(* No two consumers have the same message.                                 *)
UniqueInv ==
    \A c, d \in Consumers : c # d =>
        /\ Holds(c) /\ Holds(d) => text[c].id # text[d].id
        /\ \A a \in 1 .. Len(log[d]) : Holds(c) => text[c].id # log[d][a].id
        /\ \A a \in 1 .. Len(log[c]), b \in 1 .. Len(log[d]) : log[c][a].id # log[d][b].id

(* Every message that was put is somewhere.                                *)
Somewhere(m) ==
    \/ \E k \in 1 .. Len(Contents) : Contents[k].id = m
    \/ \E c \in Consumers : Holds(c) /\ text[c].id = m
    \/ \E c \in Consumers : \E a \in 1 .. Len(log[c]) : log[c][a].id = m
PutDone(p) == at[p] = "call" /\ (pc[p] = "put_post" \/ (pc[p] = "idle" /\ ret[p] > 0))
Placed(p, n) == n < i[p] \/ (n = i[p] /\ PutDone(p))
NoneLost     == \A p \in Producers : \A n \in Nat : Placed(p, n) => Somewhere(<<p, n>>)

AppInv == Base /\ OrderInv /\ UniqueInv /\ NoneLost

-----------------------------------------------------------------------------
(* Four kinds of steps, by what they do to the messages: none, one enters  *)
(* the ring, one leaves it for a consumer, one is noted in a log.          *)
SameHold(c) == (Holds(c)' <=> Holds(c)) /\ (Holds(c) => text'[c] = text[c])
SameNames ==
    \A p \in Producers, n \in Nat : (Named(p, n) => Named(p, n)') /\ (Placed(p, n)' => Placed(p, n))

Leaves ==
    /\ Contents' = Contents /\ log' = log
    /\ \A c \in Consumers : SameHold(c)
    /\ SameNames

Enters(p) ==
    /\ ~Sent(p) /\ Sent(p)' /\ i' = i
    /\ \E m \in Text : m.id = <<p, i[p]>> /\ Contents' = Append(Contents, m)
    /\ log' = log
    /\ \A c \in Consumers : SameHold(c)
    /\ \A q \in Producers \ {p}, n \in Nat : (Named(q, n)' <=> Named(q, n)) /\ (Placed(q, n)' => Placed(q, n))

Takes(c) ==
    /\ Contents # << >> /\ Contents' = Tail(Contents) /\ log' = log
    /\ ~Holds(c) /\ Holds(c)' /\ text'[c].id = Head(Contents).id
    /\ \A d \in Consumers \ {c} : SameHold(d)
    /\ SameNames

Notes(c) ==
    /\ Contents' = Contents
    /\ Holds(c) /\ ~Holds(c)' /\ log'[c] = Append(log[c], text[c])
    /\ \A d \in Consumers \ {c} : SameHold(d) /\ log'[d] = log[d]
    /\ SameNames

LEMMA BaseFacts ==
    ASSUME Base
    PROVE  /\ Types /\ CInv /\ AppTypeOK
           /\ Producers \subseteq Callers /\ Consumers \subseteq Callers /\ Callers \subseteq Threads
           /\ Producers \cap Consumers = {} /\ Droppers \cap Callers = {}
           /\ Contents \in Seq(Text) /\ Len(Contents) = count
           /\ \A p \in Producers : i[p] \in Nat
BY ContentsSeq, ThreadsAssumption DEF Base, CInv, IInv, Callers, Threads, AppTypeOK

LEMMA StartKind == ASSUME Base, NEW t \in Threads, Starts(t) PROVE Leaves
<1> USE BaseFacts
<1>1. Contents' = Contents /\ log' = log
      BY StartMoves DEF ring, Contents
<1>2. \A u \in Callers \ {t} : pc'[u] = pc[u] /\ text'[u] = text[u] /\ ret'[u] = ret[u]
      BY StartMoves
<1>3. at[t] = "loop" /\ at'[t] = "call" /\ (\A u \in Threads \ {t} : at'[u] = at[u]) /\ i' = i
      /\ pc[t] = "idle" /\ (t \in Callers => pc'[t] \in {"put_wait", "get_wait"})
  <2>1. at[t] = "loop" /\ at' = [at EXCEPT ![t] = "call"] /\ i' = i
        /\ pc[t] = "idle" /\ (t \in Callers => pc'[t] \in {"put_wait", "get_wait"})
        BY StartMoves
  <2> QED BY <2>1 DEF AppTypeOK
<1>4. ASSUME NEW c \in Consumers PROVE SameHold(c)
      BY <1>2, <1>3 DEF SameHold, Holds
<1>5. ASSUME NEW p \in Producers, NEW n \in Nat
      PROVE  (Named(p, n) => Named(p, n)') /\ (Placed(p, n)' => Placed(p, n))
      BY <1>2, <1>3 DEF Named, Placed, Sent, PutDone
<1> QED BY <1>1, <1>4, <1>5 DEF Leaves, SameNames

LEMMA InsideKind ==
    ASSUME Base, NEW t \in Threads, Inside(t)
    PROVE  Leaves \/ (t \in Producers /\ Enters(t)) \/ (t \in Consumers /\ Takes(t))
<1> USE BaseFacts
<1>1. /\ at[t] = "call" /\ pc[t] # "idle" /\ at' = at /\ i' = i /\ log' = log
      /\ \A u \in Callers \ {t} : pc'[u] = pc[u] /\ text'[u] = text[u] /\ ret'[u] = ret[u]
      BY InsideMoves DEF appVars
<1>2. \A c \in Consumers \ {t} : SameHold(c)
      BY <1>1 DEF SameHold, Holds
<1>3. \A p \in Producers \ {t}, n \in Nat : (Named(p, n)' <=> Named(p, n)) /\ (Placed(p, n)' <=> Placed(p, n))
      BY <1>1 DEF Named, Placed, Sent, PutDone
<1>4. ASSUME t \in Producers PROVE Leaves \/ Enters(t)
  <2>0. PutStep(t) /\ t \notin Consumers
        BY <1>4 DEF Inside
  <2>1. CASE PutAdvance(t)
    <3>1. pc[t] = "put_advance" /\ pc'[t] = "put_post"
          BY <1>4, <2>1 DEF PutAdvance, Goto, Types
    <3>2. Contents' = Append(Contents, Stored(text[t]))
          BY <1>4, <2>1, PutTakesEffect
    <3>3. Stored(text[t]) \in Text /\ Stored(text[t]).id = <<t, i[t]>>
      <4>1. text[t] = [id |-> <<t, i[t]>>, len |-> TextLen]
            BY <1>1, <1>4 DEF Base, LoopInv
      <4>2. text[t] \in Text
            BY <1>4 DEF Types
      <4>3. Truncate(text[t], MAX_MSG_LEN - 1) \in Text
            BY <4>2, SizesAssumption, TruncateText
      <4> QED BY <4>1, <4>3 DEF Stored, Truncate
    <3>4. ~Sent(t) /\ Sent(t)'
          BY <1>1, <3>1 DEF Sent
    <3> QED BY <1>1, <1>2, <1>3, <2>0, <3>2, <3>3, <3>4 DEF Enters
  <2>2. CASE ~PutAdvance(t)
    <3>1. Contents' = Contents
          BY <1>4, <2>0, <2>2, ContentsStay
    <3>2. ASSUME NEW n \in Nat PROVE (Named(t, n) => Named(t, n)') /\ (Placed(t, n)' => Placed(t, n))
      <4>1. CASE PutPost(t)
            BY <1>1, <1>4, <4>1 DEF PutPost, Goto, Types, local, Named, Placed, Sent, PutDone, Base, ResultInv
      <4>2. CASE PutRepost(t)
        <5>1. ret[t] = 0 /\ ret' = ret /\ pc[t] = "put_repost" /\ pc'[t] = "idle"
              BY <1>4, <4>2 DEF PutRepost, Goto, Types, local, Base, ResultInv
        <5> QED BY <1>1, <1>4, <5>1 DEF Named, Placed, Sent, PutDone
      <4>3. CASE ~PutPost(t) /\ ~PutRepost(t)
        <5>1. pc[t] \notin {"put_post", "idle"} /\ pc'[t] \notin {"put_post", "idle"}
              BY <1>4, <2>0, <2>2, <4>3 DEF PutStep, PutWait, PutLock, PutRefused, PutCopy, Goto, Types
        <5> QED BY <1>1, <5>1 DEF Named, Placed, Sent, PutDone
      <4> QED BY <4>1, <4>2, <4>3
    <3> QED BY <1>1, <1>2, <1>3, <2>0, <3>1, <3>2 DEF Leaves, SameNames
  <2> QED BY <2>1, <2>2
<1>5. ASSUME t \in Consumers PROVE Leaves \/ Takes(t)
  <2>0. GetStep(t) /\ t \notin Producers
        BY <1>5 DEF Inside
  <2>1. SameNames
        BY <1>3, <2>0 DEF SameNames
  <2>2. CASE GetAdvance(t)
    <3>1. pc[t] = "get_advance" /\ pc'[t] = "get_post" /\ text' = text
          BY <1>5, <2>2 DEF GetAdvance, Goto, Types, local
    <3>2. Contents # << >> /\ Contents' = Tail(Contents) /\ text[t].id = Head(Contents).id
          BY <1>5, <2>2, GetTakesEffect DEF Truncate
    <3>3. ~Holds(t) /\ Holds(t)'
          BY <3>1 DEF Holds
    <3> QED BY <1>1, <1>2, <2>1, <3>1, <3>2, <3>3 DEF Takes
  <2>3. CASE ~GetAdvance(t)
    <3>1. Contents' = Contents
          BY <1>5, <2>0, <2>3, ContentsStay
    <3>2. SameHold(t)
      <4>1. CASE GetPost(t)
            BY <1>1, <1>5, <4>1 DEF GetPost, Goto, Types, local, SameHold, Holds, Base, ResultInv
      <4>2. CASE GetRepost(t)
        <5>1. ret[t] = 0 /\ ret' = ret /\ pc[t] = "get_repost" /\ pc'[t] = "idle"
              BY <1>5, <4>2 DEF GetRepost, Goto, Types, local, Base, ResultInv
        <5> QED BY <5>1 DEF SameHold, Holds
      <4>3. CASE ~GetPost(t) /\ ~GetRepost(t)
        <5>1. pc[t] \notin {"get_post", "idle"} /\ pc'[t] \notin {"get_post", "idle"}
              BY <1>5, <2>0, <2>3, <4>3 DEF GetStep, GetWait, GetLock, GetRefused, GetCopy, Goto, Types
        <5> QED BY <5>1 DEF SameHold, Holds
      <4> QED BY <4>1, <4>2, <4>3
    <3> QED BY <1>1, <1>2, <2>1, <3>1, <3>2 DEF Leaves
  <2> QED BY <2>2, <2>3
<1>6. ASSUME t \in Droppers PROVE Leaves
  <2>1. Contents' = Contents
        BY <1>6, ContentsStay
  <2> QED BY <1>1, <1>2, <1>3, <1>6, <2>1 DEF Leaves, SameNames
<1> QED BY <1>4, <1>5, <1>6 DEF Threads, Callers

LEMMA ReturnKind ==
    ASSUME Base, NEW t \in Callers, Returned(t)
    PROVE  Leaves \/ (t \in Consumers /\ Notes(t))
<1> USE BaseFacts
<1>0. /\ at[t] = "call" /\ pc[t] = "idle" /\ UNCHANGED vars /\ at'[t] \in {"loop", "done"}
      /\ \A u \in Threads \ {t} : at'[u] = at[u]
      BY DEF Returned, AppTypeOK
<1>1. \/ ret[t] = 0 /\ dropped /\ i' = i /\ at'[t] = "done"
      \/ ret[t] > 0 /\ i' = [i EXCEPT ![t] = @ + 1]
  <2>1. ret[t] \in Nat
        BY DEF Types
  <2>2. ret[t] = 0 => dropped
        BY <1>0 DEF Base, ResultInv
  <2>3. CASE ret[t] = 0
        BY <1>0, <2>2, <2>3 DEF Returned, AppTypeOK
  <2>4. CASE ret[t] > 0
        BY <2>4 DEF Returned
  <2> QED BY <2>1, <2>3, <2>4
<1>2. log' = [c \in Consumers |-> IF c = t /\ ret[t] > 0 THEN Append(log[c], text[c]) ELSE log[c]]
      BY DEF Returned
<1>3. Contents' = Contents
      BY <1>0 DEF vars, Contents
<1>4. \A c \in Consumers \ {t} : SameHold(c) /\ log'[c] = log[c]
      BY <1>0, <1>2 DEF SameHold, Holds, vars
<1>5. SameNames
  <2>1. \A p \in Producers \ {t}, n \in Nat : (Named(p, n) <=> Named(p, n)') /\ (Placed(p, n)' <=> Placed(p, n))
        BY <1>0, <1>1 DEF Named, Placed, Sent, PutDone, AppTypeOK, vars
  <2>2. ASSUME t \in Producers, NEW n \in Nat
        PROVE  (Named(t, n) => Named(t, n)') /\ (Placed(t, n)' => Placed(t, n))
    <3>1. CASE ret[t] = 0 /\ i' = i /\ at'[t] = "done"
          BY <1>0, <3>1 DEF Named, Placed, Sent, PutDone
    <3>2. CASE ret[t] > 0 /\ i' = [i EXCEPT ![t] = @ + 1]
      <4>1. i[t] \in Nat /\ i'[t] = i[t] + 1
            BY <2>2, <3>2 DEF AppTypeOK
      <4> QED BY <1>0, <3>2, <4>1 DEF Named, Placed, Sent, PutDone
    <3> QED BY <1>1, <3>1, <3>2
  <2> QED BY <2>1, <2>2 DEF SameNames
<1>6. CASE t \in Consumers /\ ret[t] > 0
  <2>1. Holds(t) /\ ~Holds(t)' /\ log'[t] = Append(log[t], text[t])
        BY <1>0, <1>2, <1>6 DEF Holds, vars
  <2> QED BY <1>3, <1>4, <1>5, <1>6, <2>1 DEF Notes
<1>7. CASE ~(t \in Consumers /\ ret[t] > 0)
  <2>1. log' = log
        BY <1>2, <1>7 DEF AppTypeOK
  <2>2. \A c \in Consumers : SameHold(c)
        BY <1>0, <1>4, <1>7 DEF SameHold, Holds, vars
  <2> QED BY <1>3, <1>5, <2>1, <2>2 DEF Leaves
<1> QED BY <1>6, <1>7

LEMMA OtherKind ==
    ASSUME Base, (\E t \in Callers : LoopEnds(t)) \/ MainStep \/ UNCHANGED allVars
    PROVE  Leaves
<1> USE BaseFacts
<1>1. UNCHANGED <<vars, i, log>>
      BY DEF LoopEnds, MainStep, Create, Join, Destroy, allVars, appVars
<1>2. \A u \in Callers : \/ at'[u] = at[u]
                         \/ at[u] = "unborn" /\ at'[u] = "loop"
                         \/ at[u] = "loop" /\ at'[u] = "done"
  <2>1. CASE \E t \in Callers : LoopEnds(t)
        BY <2>1 DEF LoopEnds, AppTypeOK
  <2>2. CASE Create
    <3>1. main + 1 \in DOMAIN Order /\ Order[main + 1] \in Threads
          BY <2>2, AppAssumption DEF Create, N, AppTypeOK
    <3>2. at[Order[main + 1]] = "unborn"
          BY <3>1, AppAssumption DEF Base, LoopInv, AppTypeOK
    <3> QED BY <2>2, <3>1, <3>2 DEF Create, AppTypeOK
  <2>3. CASE Join \/ Destroy \/ UNCHANGED allVars
        BY <2>3 DEF Join, Destroy, allVars, appVars
  <2> QED BY <2>1, <2>2, <2>3 DEF MainStep
<1>3. Contents' = Contents /\ log' = log
      BY <1>1 DEF vars, Contents
<1>4. ASSUME NEW c \in Consumers PROVE SameHold(c)
      BY <1>1, <1>2 DEF SameHold, Holds, vars
<1>5. ASSUME NEW p \in Producers, NEW n \in Nat
      PROVE  (Named(p, n) => Named(p, n)') /\ (Placed(p, n)' => Placed(p, n))
      BY <1>1, <1>2 DEF Named, Placed, Sent, PutDone, vars
<1> QED BY <1>3, <1>4, <1>5 DEF Leaves, SameNames

LEMMA Kinds ==
    ASSUME Base, [AppNext]_allVars
    PROVE  \/ Leaves
           \/ \E p \in Producers : Enters(p)
           \/ \E c \in Consumers : Takes(c) \/ Notes(c)
BY AppSteps, StartKind, InsideKind, ReturnKind, OtherKind

-----------------------------------------------------------------------------
(* What the four kinds do to the logs and to who holds what.               *)
LEMMA LogTypes ==
    ASSUME Base, NEW c \in Consumers
    PROVE  /\ log[c] \in Seq(Text) /\ Len(log[c]) \in Nat /\ text[c] \in Text
           /\ Append(log[c], text[c]) \in Seq(Text)
           /\ Len(Append(log[c], text[c])) = Len(log[c]) + 1
           /\ \A a \in 1 .. Len(log[c]) : Append(log[c], text[c])[a] = log[c][a]
           /\ Append(log[c], text[c])[Len(log[c]) + 1] = text[c]
<1>1. log[c] \in Seq(Text) /\ Len(log[c]) \in Nat /\ text[c] \in Text
      BY BaseFacts DEF AppTypeOK, Types
<1> QED BY <1>1, AppendProperties

LEMMA NamesStay ==
    ASSUME Base, Leaves \/ (\E p \in Producers : Enters(p)) \/ (\E c \in Consumers : Takes(c) \/ Notes(c))
    PROVE  Names \subseteq Names'
<1>1. ASSUME SameNames PROVE Names \subseteq Names'
      BY <1>1 DEF SameNames, Names
<1>2. ASSUME NEW p \in Producers, Enters(p) PROVE Names \subseteq Names'
  <2>1. \A n \in Nat : Named(p, n) => Named(p, n)'
        BY <1>2 DEF Enters, Named
  <2>2. \A q \in Producers \ {p}, n \in Nat : Named(q, n) => Named(q, n)'
        BY <1>2 DEF Enters
  <2> QED BY <2>1, <2>2 DEF Names
<1> QED BY <1>1, <1>2 DEF Leaves, Takes, Notes

(* A message that enters comes after every known one of its producer.      *)
LEMMA EntersLast ==
    ASSUME Base, NEW p \in Producers, Enters(p), NEW m, m \in Names
    PROVE  Before(m, <<p, i[p]>>) /\ m # <<p, i[p]>>
<1>1. PICK q \in Producers, n \in Nat : m = <<q, n>> /\ Named(q, n)
      BY DEF Names
<1>2. q = p => n < i[p]
      BY <1>1 DEF Enters, Named
<1>3. i[p] \in Nat
      BY BaseFacts
<1> QED BY <1>1, <1>2, <1>3 DEF Before

-----------------------------------------------------------------------------
(* Order is kept by each kind of step.                                     *)
LEMMA OrderLeaves == ASSUME Base, OrderInv, Leaves PROVE OrderInv'
<1>1. Names \subseteq Names'
      BY NamesStay
<1>2. Contents' = Contents /\ log' = log
      BY DEF Leaves
<1>3. \A c \in Consumers : (Holds(c)' <=> Holds(c)) /\ (Holds(c) => text'[c] = text[c])
      BY DEF Leaves, SameHold
<1> HIDE DEF Contents, Names, Holds, Before
<1> QED BY <1>1, <1>2, <1>3 DEF OrderInv

LEMMA OrderEnters == ASSUME Base, OrderInv, NEW p \in Producers, Enters(p) PROVE OrderInv'
<1>1. Names \subseteq Names'
      BY NamesStay
<1>2. PICK m \in Text : m.id = <<p, i[p]>> /\ Contents' = Append(Contents, m)
      BY DEF Enters
<1>3. log' = log /\ \A c \in Consumers : (Holds(c)' <=> Holds(c)) /\ (Holds(c) => text'[c] = text[c])
      BY DEF Enters, SameHold
<1>4. /\ Len(Contents) \in Nat /\ Len(Contents') = Len(Contents) + 1
      /\ \A k \in 1 .. Len(Contents) : Contents'[k] = Contents[k]
      /\ Contents'[Len(Contents) + 1] = m
      BY <1>2, BaseFacts, AppendProperties, LenProperties
<1>5. \A x : x \in Names => Before(x, m.id)
      BY <1>2, EntersLast
<1>6. m.id \in Names'
  <2>1. i[p] \in Nat /\ i' = i
        BY BaseFacts DEF Enters
  <2>2. Named(p, i[p])'
        BY <2>1 DEF Enters, Named
  <2> QED BY <1>2, <2>1, <2>2 DEF Names
<1>7. \A k \in 1 .. Len(Contents') : k \in 1 .. Len(Contents) \/ k = Len(Contents) + 1
      BY <1>4
<1>8. /\ \A k \in 1 .. Len(Contents) : Contents[k].id \in Names
      /\ \A a, b \in 1 .. Len(Contents) : a < b => Before(Contents[a].id, Contents[b].id)
      BY DEF OrderInv
<1>9. \A k \in 1 .. Len(Contents') : Contents'[k].id \in Names'
      BY <1>1, <1>4, <1>6, <1>7, <1>8
<1>10. \A a, b \in 1 .. Len(Contents') : a < b => Before(Contents'[a].id, Contents'[b].id)
  <2> SUFFICES ASSUME NEW a \in 1 .. Len(Contents'), NEW b \in 1 .. Len(Contents'), a < b
               PROVE  Before(Contents'[a].id, Contents'[b].id)
      OBVIOUS
  <2>1. a \in 1 .. Len(Contents)
        BY <1>4, <1>7
  <2>2. CASE b \in 1 .. Len(Contents)
        BY <1>4, <1>8, <2>1, <2>2
  <2>3. CASE b = Len(Contents) + 1
        BY <1>4, <1>5, <1>8, <2>1, <2>3
  <2> QED BY <1>7, <2>2, <2>3
<1>11. ASSUME NEW x, x \in Names, \A k \in 1 .. Len(Contents) : Before(x, Contents[k].id)
       PROVE  \A k \in 1 .. Len(Contents') : Before(x, Contents'[k].id)
       BY <1>4, <1>5, <1>7, <1>11
<1>12. \A c \in Consumers : \A k \in 1 .. Len(Contents') : Holds(c)' => Before(text'[c].id, Contents'[k].id)
  <2>1. \A c \in Consumers : Holds(c) => text[c].id \in Names /\ \A k \in 1 .. Len(Contents) : Before(text[c].id, Contents[k].id)
        BY DEF OrderInv
  <2> QED BY <1>3, <1>11, <2>1
<1>13. \A c \in Consumers : \A a \in 1 .. Len(log'[c]) : \A k \in 1 .. Len(Contents') : Before(log'[c][a].id, Contents'[k].id)
  <2>1. \A c \in Consumers : \A a \in 1 .. Len(log[c]) :
           log[c][a].id \in Names /\ \A k \in 1 .. Len(Contents) : Before(log[c][a].id, Contents[k].id)
        BY DEF OrderInv
  <2> QED BY <1>3, <1>11, <2>1
<1>14. /\ \A c \in Consumers : Holds(c)' => text'[c].id \in Names'
       /\ \A c \in Consumers : \A a \in 1 .. Len(log'[c]) : log'[c][a].id \in Names'
       /\ \A c \in Consumers : \A a \in 1 .. Len(log'[c]) : Holds(c)' => Before(log'[c][a].id, text'[c].id)
       /\ \A c \in Consumers : \A a, b \in 1 .. Len(log'[c]) : a < b => Before(log'[c][a].id, log'[c][b].id)
       BY <1>1, <1>3 DEF OrderInv
<1> QED BY <1>9, <1>10, <1>12, <1>13, <1>14 DEF OrderInv, Before

LEMMA OrderTakes == ASSUME Base, OrderInv, NEW c \in Consumers, Takes(c) PROVE OrderInv'
<1>1. Names \subseteq Names'
      BY NamesStay
<1>2. /\ Contents # << >> /\ Contents' = Tail(Contents) /\ log' = log
      /\ ~Holds(c) /\ Holds(c)' /\ text'[c].id = Contents[1].id
      /\ \A d \in Consumers \ {c} : (Holds(d)' <=> Holds(d)) /\ (Holds(d) => text'[d] = text[d])
      BY DEF Takes, SameHold
<1>3. /\ Len(Contents) \in Nat /\ Len(Contents) > 0 /\ Len(Contents') = Len(Contents) - 1
      /\ \A k \in 1 .. Len(Contents) - 1 : Contents'[k] = Contents[k + 1]
      BY <1>2, BaseFacts
<1>4. \A k \in 1 .. Len(Contents') : k + 1 \in 1 .. Len(Contents) /\ 1 < k + 1 /\ Contents'[k] = Contents[k + 1]
      BY <1>3
<1>5. /\ \A k \in 1 .. Len(Contents) : Contents[k].id \in Names
      /\ \A a, b \in 1 .. Len(Contents) : a < b => Before(Contents[a].id, Contents[b].id)
      /\ 1 \in 1 .. Len(Contents)
      BY <1>3 DEF OrderInv
<1>6. \A k \in 1 .. Len(Contents') : Contents'[k].id \in Names'
      BY <1>1, <1>4, <1>5
<1>7. \A a, b \in 1 .. Len(Contents') : a < b => Before(Contents'[a].id, Contents'[b].id)
  <2> SUFFICES ASSUME NEW a \in 1 .. Len(Contents'), NEW b \in 1 .. Len(Contents'), a < b
               PROVE  Before(Contents'[a].id, Contents'[b].id)
      OBVIOUS
  <2>1. a + 1 < b + 1
        BY <1>3
  <2> QED BY <1>4, <1>5, <2>1
<1>8. ASSUME NEW d \in Consumers, Holds(d)'
      PROVE  /\ text'[d].id \in Names'
             /\ \A k \in 1 .. Len(Contents') : Before(text'[d].id, Contents'[k].id)
             /\ \A a \in 1 .. Len(log'[d]) : Before(log'[d][a].id, text'[d].id)
  <2>1. CASE d = c
    <3>1. text'[d].id = Contents[1].id
          BY <1>2, <2>1
    <3>2. text'[d].id \in Names'
          BY <1>1, <1>5, <3>1
    <3>3. \A k \in 1 .. Len(Contents') : Before(text'[d].id, Contents'[k].id)
          BY <1>4, <1>5, <3>1
    <3>4. \A a \in 1 .. Len(log[d]) : Before(log[d][a].id, Contents[1].id)
          BY <1>5 DEF OrderInv
    <3> QED BY <1>2, <3>1, <3>2, <3>3, <3>4
  <2>2. CASE d # c
    <3>1. Holds(d) /\ text'[d] = text[d] /\ log' = log
          BY <1>2, <1>8, <2>2
    <3>2. /\ text[d].id \in Names
          /\ \A k \in 1 .. Len(Contents) : Before(text[d].id, Contents[k].id)
          /\ \A a \in 1 .. Len(log[d]) : Before(log[d][a].id, text[d].id)
          BY <3>1 DEF OrderInv
    <3> QED BY <1>1, <1>4, <3>1, <3>2
  <2> QED BY <2>1, <2>2
<1>9. ASSUME NEW d \in Consumers, NEW a \in 1 .. Len(log'[d])
      PROVE  /\ log'[d][a].id \in Names'
             /\ \A k \in 1 .. Len(Contents') : Before(log'[d][a].id, Contents'[k].id)
             /\ \A b \in 1 .. Len(log'[d]) : a < b => Before(log'[d][a].id, log'[d][b].id)
  <2>1. /\ log[d][a].id \in Names
        /\ \A k \in 1 .. Len(Contents) : Before(log[d][a].id, Contents[k].id)
        /\ \A b \in 1 .. Len(log[d]) : a < b => Before(log[d][a].id, log[d][b].id)
        BY <1>2, <1>9 DEF OrderInv
  <2> QED BY <1>1, <1>2, <1>4, <2>1
<1> QED BY <1>6, <1>7, <1>8, <1>9 DEF OrderInv, Before

LEMMA OrderNotes == ASSUME Base, OrderInv, NEW c \in Consumers, Notes(c) PROVE OrderInv'
<1>1. Names \subseteq Names'
      BY NamesStay
<1>2. /\ Contents' = Contents /\ Holds(c) /\ ~Holds(c)' /\ log'[c] = Append(log[c], text[c])
      /\ \A d \in Consumers \ {c} : /\ (Holds(d)' <=> Holds(d)) /\ (Holds(d) => text'[d] = text[d])
                                      /\ log'[d] = log[d]
      BY DEF Notes, SameHold
<1>3. /\ Len(log[c]) \in Nat /\ Len(log'[c]) = Len(log[c]) + 1
      /\ \A a \in 1 .. Len(log[c]) : log'[c][a] = log[c][a]
      /\ log'[c][Len(log[c]) + 1] = text[c]
      BY <1>2, LogTypes
<1>4. \A a \in 1 .. Len(log'[c]) : a \in 1 .. Len(log[c]) \/ a = Len(log[c]) + 1
      BY <1>3
<1>5. /\ text[c].id \in Names
      /\ \A k \in 1 .. Len(Contents) : Before(text[c].id, Contents[k].id)
      /\ \A a \in 1 .. Len(log[c]) : Before(log[c][a].id, text[c].id)
      BY <1>2 DEF OrderInv
<1>6. ASSUME NEW d \in Consumers, Holds(d)'
      PROVE  /\ text'[d].id \in Names'
             /\ \A k \in 1 .. Len(Contents') : Before(text'[d].id, Contents'[k].id)
             /\ \A a \in 1 .. Len(log'[d]) : Before(log'[d][a].id, text'[d].id)
  <2>1. d # c /\ Holds(d) /\ text'[d] = text[d] /\ log'[d] = log[d]
        BY <1>2, <1>6
  <2>2. /\ text[d].id \in Names
        /\ \A k \in 1 .. Len(Contents) : Before(text[d].id, Contents[k].id)
        /\ \A a \in 1 .. Len(log[d]) : Before(log[d][a].id, text[d].id)
        BY <2>1 DEF OrderInv
  <2> QED BY <1>1, <1>2, <2>1, <2>2
<1>7. ASSUME NEW d \in Consumers, NEW a \in 1 .. Len(log'[d])
      PROVE  /\ log'[d][a].id \in Names'
             /\ \A k \in 1 .. Len(Contents') : Before(log'[d][a].id, Contents'[k].id)
             /\ \A b \in 1 .. Len(log'[d]) : a < b => Before(log'[d][a].id, log'[d][b].id)
  <2>1. \A e \in 1 .. Len(log[d]) :
           /\ log[d][e].id \in Names
           /\ \A k \in 1 .. Len(Contents) : Before(log[d][e].id, Contents[k].id)
           /\ \A b \in 1 .. Len(log[d]) : e < b => Before(log[d][e].id, log[d][b].id)
        BY DEF OrderInv
  <2>2. CASE d # c
        BY <1>1, <1>2, <1>7, <2>1, <2>2
  <2>3. CASE d = c /\ a \in 1 .. Len(log[c])
    <3>1. log'[d][a] = log[c][a]
          BY <1>3, <2>3
    <3>2. \A b \in 1 .. Len(log'[d]) : a < b => Before(log[c][a].id, log'[d][b].id)
          BY <1>3, <1>4, <1>5, <2>1, <2>3
    <3> QED BY <1>1, <1>2, <2>1, <2>3, <3>1, <3>2
  <2>4. CASE d = c /\ a = Len(log[c]) + 1
    <3>1. log'[d][a] = text[c] /\ ~\E b \in 1 .. Len(log'[d]) : a < b
          BY <1>3, <2>4
    <3> QED BY <1>1, <1>2, <1>5, <3>1
  <2> QED BY <1>4, <2>2, <2>3, <2>4
<1>8. \A a, b \in 1 .. Len(Contents') : a < b => Before(Contents'[a].id, Contents'[b].id)
      BY <1>2 DEF OrderInv
<1>9. \A k \in 1 .. Len(Contents') : Contents'[k].id \in Names'
      BY <1>1, <1>2 DEF OrderInv
<1> QED BY <1>6, <1>7, <1>8, <1>9 DEF OrderInv, Before

LEMMA OrderStep == Base /\ OrderInv /\ [AppNext]_allVars => OrderInv'
BY Kinds, OrderLeaves, OrderEnters, OrderTakes, OrderNotes

-----------------------------------------------------------------------------
(* Messages in order are different messages.                               *)
LEMMA OrderedDiffer == ASSUME NEW x \in Names, NEW y, Before(x, y) PROVE x # y
<1>1. x[2] \in Nat
      BY DEF Names
<1> QED BY <1>1 DEF Before

LEMMA UniqueStep == Base /\ OrderInv /\ UniqueInv /\ [AppNext]_allVars => UniqueInv'
<1> SUFFICES ASSUME Base, OrderInv, UniqueInv, [AppNext]_allVars PROVE UniqueInv'
    OBVIOUS
<1> HIDE DEF Holds
<1>1. ASSUME log' = log, \A c \in Consumers : SameHold(c) PROVE UniqueInv'
      BY <1>1 DEF UniqueInv, SameHold
<1>2. ASSUME NEW c \in Consumers, Takes(c) PROVE UniqueInv'
  <2>1. /\ Contents # << >> /\ log' = log /\ Holds(c)' /\ text'[c].id = Contents[1].id
        /\ \A d \in Consumers \ {c} : (Holds(d)' <=> Holds(d)) /\ (Holds(d) => text'[d] = text[d])
        BY <1>2 DEF Takes, SameHold
  <2>2. 1 \in 1 .. Len(Contents)
        BY <2>1, BaseFacts
  <2>3. \A d \in Consumers : \A a \in 1 .. Len(log[d]) : log[d][a].id # Contents[1].id
        BY <2>2, OrderedDiffer DEF OrderInv
  <2>4. \A d \in Consumers : Holds(d) => text[d].id # Contents[1].id
        BY <2>2, OrderedDiffer DEF OrderInv
  <2>5. ASSUME NEW d \in Consumers, NEW e \in Consumers, d # e
        PROVE  /\ Holds(d)' /\ Holds(e)' => text'[d].id # text'[e].id
               /\ \A a \in 1 .. Len(log'[e]) : Holds(d)' => text'[d].id # log'[e][a].id
               /\ \A a \in 1 .. Len(log'[d]), b \in 1 .. Len(log'[e]) : log'[d][a].id # log'[e][b].id
        BY <2>1, <2>3, <2>4, <2>5 DEF UniqueInv
  <2> QED BY <2>5 DEF UniqueInv
<1>3. ASSUME NEW c \in Consumers, Notes(c) PROVE UniqueInv'
  <2>1. /\ Holds(c) /\ ~Holds(c)' /\ log'[c] = Append(log[c], text[c])
        /\ \A d \in Consumers \ {c} : /\ (Holds(d)' <=> Holds(d)) /\ (Holds(d) => text'[d] = text[d])
                                        /\ log'[d] = log[d]
        BY <1>3 DEF Notes, SameHold
  <2>2. \A a \in 1 .. Len(log'[c]) : \/ a \in 1 .. Len(log[c]) /\ log'[c][a] = log[c][a]
                                     \/ log'[c][a] = text[c]
        BY <2>1, LogTypes
  <2>3. ASSUME NEW d \in Consumers, NEW e \in Consumers, d # e
        PROVE  /\ Holds(d)' /\ Holds(e)' => text'[d].id # text'[e].id
               /\ \A a \in 1 .. Len(log'[e]) : Holds(d)' => text'[d].id # log'[e][a].id
               /\ \A a \in 1 .. Len(log'[d]), b \in 1 .. Len(log'[e]) : log'[d][a].id # log'[e][b].id
    <3>1. /\ Holds(d) /\ Holds(e) => text[d].id # text[e].id
          /\ \A a \in 1 .. Len(log[e]) : Holds(d) => text[d].id # log[e][a].id
          /\ \A a \in 1 .. Len(log[d]) : Holds(e) => text[e].id # log[d][a].id
          /\ \A a \in 1 .. Len(log[d]), b \in 1 .. Len(log[e]) : log[d][a].id # log[e][b].id
          BY <2>3 DEF UniqueInv
    <3>2. CASE d # c /\ e # c
          BY <2>1, <3>1, <3>2
    <3>3. CASE d = c
      <4>1. ~Holds(d)' /\ log'[e] = log[e]
            BY <2>1, <2>3, <3>3
      <4>2. \A b \in 1 .. Len(log[e]) : text[c].id # log[e][b].id
            BY <2>1, <3>1, <3>3
      <4>3. \A a \in 1 .. Len(log'[d]) : log'[d][a] = text[c] \/ (a \in 1 .. Len(log[d]) /\ log'[d][a] = log[d][a])
            BY <2>2, <3>3
      <4>4. \A a \in 1 .. Len(log'[d]), b \in 1 .. Len(log'[e]) : log'[d][a].id # log'[e][b].id
            BY ONLY <3>1, <4>1, <4>2, <4>3
      <4> QED BY ONLY <4>1, <4>4
    <3>4. CASE e = c
      <4>1. ~Holds(e)' /\ log'[d] = log[d] /\ (Holds(d)' <=> Holds(d)) /\ (Holds(d) => text'[d] = text[d])
            BY <2>1, <2>3, <3>4
      <4>2. \A a \in 1 .. Len(log[d]) : text[c].id # log[d][a].id
            BY <2>1, <3>1, <3>4
      <4>3. Holds(d) => text[d].id # text[c].id
            BY <2>1, <3>1, <3>4
      <4>4. \A b \in 1 .. Len(log'[e]) : log'[e][b] = text[c] \/ (b \in 1 .. Len(log[e]) /\ log'[e][b] = log[e][b])
            BY <2>2, <3>4
      <4>5. \A a \in 1 .. Len(log'[d]), b \in 1 .. Len(log'[e]) : log'[d][a].id # log'[e][b].id
            BY ONLY <3>1, <4>1, <4>2, <4>4
      <4>6. \A b \in 1 .. Len(log'[e]) : Holds(d)' => text'[d].id # log'[e][b].id
            BY ONLY <3>1, <4>1, <4>3, <4>4
      <4> QED BY ONLY <4>1, <4>5, <4>6
    <3> QED BY <3>2, <3>3, <3>4
  <2> QED BY <2>3 DEF UniqueInv
<1> QED BY <1>1, <1>2, <1>3, Kinds DEF Leaves, Enters

LEMMA NoneLostStep == Base /\ OrderInv /\ NoneLost /\ [AppNext]_allVars => NoneLost'
<1> SUFFICES ASSUME Base, OrderInv, NoneLost, [AppNext]_allVars PROVE NoneLost'
    OBVIOUS
<1> HIDE DEF Holds
<1>1. ASSUME Leaves PROVE NoneLost'
  <2>1. Contents' = Contents /\ log' = log /\ \A c \in Consumers : (Holds(c)' <=> Holds(c)) /\ (Holds(c) => text'[c] = text[c])
        BY <1>1 DEF Leaves, SameHold
  <2>2. \A p \in Producers, n \in Nat : Placed(p, n)' => Placed(p, n)
        BY <1>1 DEF Leaves, SameNames
  <2>3. \A m : Somewhere(m) => Somewhere(m)'
        BY <2>1 DEF Somewhere
  <2> QED BY <2>2, <2>3 DEF NoneLost
<1>2. ASSUME NEW p \in Producers, Enters(p) PROVE NoneLost'
  <2>1. log' = log /\ \A c \in Consumers : (Holds(c)' <=> Holds(c)) /\ (Holds(c) => text'[c] = text[c])
        BY <1>2 DEF Enters, SameHold
  <2>2. PICK m \in Text : m.id = <<p, i[p]>> /\ Contents' = Append(Contents, m)
        BY <1>2 DEF Enters
  <2>3. /\ Len(Contents) \in Nat /\ Len(Contents') = Len(Contents) + 1
        /\ \A k \in 1 .. Len(Contents) : k \in 1 .. Len(Contents') /\ Contents'[k] = Contents[k]
        /\ Len(Contents) + 1 \in 1 .. Len(Contents') /\ Contents'[Len(Contents) + 1] = m
        BY <2>2, BaseFacts, AppendProperties, LenProperties
  <2>4. \A x : Somewhere(x) => Somewhere(x)'
        BY <2>1, <2>3 DEF Somewhere
  <2>5. Somewhere(<<p, i[p]>>)'
    <3>1. \E k \in 1 .. Len(Contents') : Contents'[k].id = <<p, i'[p]>>
          BY <1>2, <2>2, <2>3 DEF Enters
    <3> QED BY <3>1 DEF Somewhere
  <2>6. ASSUME NEW q \in Producers, NEW n \in Nat, Placed(q, n)'
        PROVE  Placed(q, n) \/ (q = p /\ n = i'[p])
        BY <1>2, <2>6 DEF Enters, Placed
  <2>7. i' = i
        BY <1>2 DEF Enters
  <2>8. ASSUME NEW q \in Producers, NEW n \in Nat, Placed(q, n)' PROVE Somewhere(<<q, n>>)'
    <3>1. CASE Placed(q, n)
          BY <2>4, <3>1 DEF NoneLost
    <3>2. CASE q = p /\ n = i'[p]
          BY <2>1, <2>2, <2>3, <2>7, <3>2 DEF Somewhere
    <3> QED BY <2>6, <2>8, <3>1, <3>2
  <2> QED BY <2>8 DEF NoneLost
<1>3. ASSUME NEW c \in Consumers, Takes(c) PROVE NoneLost'
  <2>1. /\ Contents # << >> /\ Contents' = Tail(Contents) /\ log' = log
        /\ Holds(c)' /\ ~Holds(c) /\ text'[c].id = Contents[1].id
        /\ \A d \in Consumers \ {c} : (Holds(d)' <=> Holds(d)) /\ (Holds(d) => text'[d] = text[d])
        BY <1>3 DEF Takes, SameHold
  <2>2. \A p \in Producers, n \in Nat : Placed(p, n)' => Placed(p, n)
        BY <1>3 DEF Takes, SameNames
  <2>3. \A k \in 1 .. Len(Contents) : k = 1 \/ (k - 1 \in 1 .. Len(Contents') /\ Contents'[k - 1] = Contents[k])
        BY <2>1, BaseFacts
  <2>4. \A m : Somewhere(m) => Somewhere(m)'
    <3> SUFFICES ASSUME NEW m, Somewhere(m) PROVE Somewhere(m)'
        OBVIOUS
    <3>1. CASE \E k \in 1 .. Len(Contents) : Contents[k].id = m
          BY <2>1, <2>3, <3>1 DEF Somewhere
    <3>2. CASE \E d \in Consumers : Holds(d) /\ text[d].id = m
          BY <2>1, <3>2 DEF Somewhere
    <3>3. CASE \E d \in Consumers : \E a \in 1 .. Len(log[d]) : log[d][a].id = m
          BY <2>1, <3>3 DEF Somewhere
    <3> QED BY <3>1, <3>2, <3>3 DEF Somewhere
  <2> QED BY <2>2, <2>4 DEF NoneLost
<1>4. ASSUME NEW c \in Consumers, Notes(c) PROVE NoneLost'
  <2>1. /\ Contents' = Contents /\ Holds(c) /\ ~Holds(c)' /\ log'[c] = Append(log[c], text[c])
        /\ \A d \in Consumers \ {c} : /\ (Holds(d)' <=> Holds(d)) /\ (Holds(d) => text'[d] = text[d])
                                        /\ log'[d] = log[d]
        BY <1>4 DEF Notes, SameHold
  <2>2. \A p \in Producers, n \in Nat : Placed(p, n)' => Placed(p, n)
        BY <1>4 DEF Notes, SameNames
  <2>3. /\ \A a \in 1 .. Len(log[c]) : a \in 1 .. Len(log'[c]) /\ log'[c][a] = log[c][a]
        /\ Len(log[c]) + 1 \in 1 .. Len(log'[c]) /\ log'[c][Len(log[c]) + 1] = text[c]
        BY <2>1, LogTypes
  <2>4. \A m : Somewhere(m) => Somewhere(m)'
    <3> SUFFICES ASSUME NEW m, Somewhere(m) PROVE Somewhere(m)'
        OBVIOUS
    <3>1. CASE \E k \in 1 .. Len(Contents) : Contents[k].id = m
          BY <2>1, <3>1 DEF Somewhere
    <3>2. ASSUME NEW d \in Consumers, Holds(d) /\ text[d].id = m PROVE Somewhere(m)'
      <4>1. CASE d = c
            BY <2>3, <3>2, <4>1 DEF Somewhere
      <4>2. CASE d # c
            BY <2>1, <3>2, <4>2 DEF Somewhere
      <4> QED BY <4>1, <4>2
    <3>3. ASSUME NEW d \in Consumers, NEW a \in 1 .. Len(log[d]), log[d][a].id = m PROVE Somewhere(m)'
      <4>1. a \in 1 .. Len(log'[d]) /\ log'[d][a] = log[d][a]
            BY <2>1, <2>3
      <4> QED BY <3>3, <4>1 DEF Somewhere
    <3> QED BY <3>1, <3>2, <3>3 DEF Somewhere
  <2> QED BY <2>2, <2>4 DEF NoneLost
<1> QED BY <1>1, <1>2, <1>3, <1>4, Kinds
-----------------------------------------------------------------------------
LEMMA InitAppInv == AppInit => AppInv
<1> SUFFICES ASSUME AppInit PROVE AppInv
    OBVIOUS
<1>1. Init /\ CInv
      BY InitCInv DEF AppInit
<1>2. /\ count = 0 /\ pc = [t \in Threads |-> "idle"] /\ i = [t \in Callers |-> 0]
      /\ at = [t \in Threads |-> IF t \in Droppers THEN "loop" ELSE "unborn"]
      /\ log = [c \in Consumers |-> << >>] /\ main = 0
      BY <1>1 DEF AppInit, Init
<1>3. /\ Producers \subseteq Callers /\ Consumers \subseteq Callers /\ Callers \subseteq Threads
      /\ Droppers \cap Callers = {}
      BY ThreadsAssumption DEF Callers, Threads
<1>4. /\ \A t \in Callers : pc[t] = "idle" /\ at[t] = "unborn" /\ i[t] = 0
      /\ \A c \in Consumers : log[c] = << >> /\ Len(log[c]) = 0 /\ << >> \in Seq(Text)
      BY <1>2, <1>3
<1>5. AppTypeOK
  <2>1. at \in [Threads -> {"unborn", "loop", "call", "done"}]
        BY <1>2
  <2>2. i \in [Callers -> Nat]
        BY <1>2
  <2>3. log \in [Consumers -> Seq(Text)]
        BY <1>2, <1>4
  <2> QED BY <1>2, <2>1, <2>2, <2>3 DEF AppTypeOK
<1>6. LoopInv
  <2>1. \A k \in DOMAIN Order : at[Order[k]] = "unborn"
    <3>1. \A k \in DOMAIN Order : Order[k] \in Callers
          BY AppAssumption
    <3> QED BY <1>4, <3>1
  <2>2. \A t \in Callers : Attempts(t) \in Nat
        BY AppAssumption DEF Attempts
  <2> QED BY <1>3, <1>4, <2>1, <2>2 DEF LoopInv
<1>7. Contents \in Seq(Text) /\ Len(Contents) = 0
      BY <1>1, <1>2, ContentsSeq DEF CInv, IInv
<1>8. ResultInv
  <2>1. \A k \in 1 .. count : FALSE
        BY <1>2
  <2>2. \A t \in Callers : pc[t] = "idle" /\ at[t] # "call"
        BY <1>4
  <2> QED BY <2>1, <2>2 DEF ResultInv
<1>9. \A c \in Consumers : ~Holds(c)
      BY <1>3, <1>4 DEF Holds
<1>10. \A p \in Producers, n \in Nat : ~Placed(p, n)
      BY <1>3, <1>4 DEF Placed, PutDone
<1>11. OrderInv
      BY <1>4, <1>7, <1>9 DEF OrderInv
<1>12. UniqueInv
      BY <1>4, <1>9 DEF UniqueInv
<1>13. NoneLost
      BY <1>10 DEF NoneLost
<1> QED BY <1>1, <1>5, <1>6, <1>8, <1>11, <1>12, <1>13 DEF AppInv, Base

LEMMA AppInvStep == AppInv /\ [AppNext]_allVars => AppInv'
BY BaseStep, OrderStep, UniqueStep, NoneLostStep DEF AppInv

(* The program keeps the inductive invariant: the queue's own, the loops', *)
(* the results', and the order, the uniqueness and the place of messages.  *)
THEOREM AppInductive == AppSpec => []AppInv
<1>1. AppInit => AppInv
      BY InitAppInv
<1>2. AppInv /\ [AppNext]_allVars => AppInv'
      BY AppInvStep
<1> QED BY <1>1, <1>2, PTL DEF AppSpec

(* Every run of main.c uses the queue as its own specification allows.     *)
THEOREM AppUsesQueue == AppSpec => Spec
<1>1. AppInit => Init
      BY DEF AppInit
<1>2. AppInv /\ [AppNext]_allVars => [Next]_vars
      BY AppStepIsStep DEF AppInv, Base
<1> QED BY <1>1, <1>2, AppInductive, PTL DEF AppSpec, Spec

(* No token is lost or minted by the calls that main.c makes.              *)
THEOREM AppTokens == AppSpec => []TokenInv
BY AppUsesQueue, Tokens, PTL

(* What main.c's threads see of the library is a bounded channel.          *)
THEOREM AppChannel == AppSpec => ImplementsChannel
BY AppUsesQueue, ChannelImplemented, PTL

LEMMA OrderShown == Base /\ OrderInv => InOrder
<1> SUFFICES ASSUME Base, OrderInv, NEW c \in Consumers, NEW a \in DOMAIN log[c], NEW b \in DOMAIN log[c],
                    a < b, log[c][a].id[1] = log[c][b].id[1]
             PROVE  log[c][a].id[2] < log[c][b].id[2]
    BY DEF InOrder
<1>1. log[c] \in Seq(Text)
      BY BaseFacts DEF AppTypeOK
<1>2. DOMAIN log[c] = 1 .. Len(log[c])
      BY <1>1, LenProperties
<1>3. Before(log[c][a].id, log[c][b].id)
      BY <1>2 DEF OrderInv
<1> QED BY <1>3 DEF Before

(* Whatever the others take in between, a consumer receives a producer's   *)
(* messages in the order they were put.                                    *)
THEOREM NoOvertaking == AppSpec => []InOrder
<1>1. AppInv => InOrder
      BY OrderShown DEF AppInv
<1> QED BY <1>1, AppInductive, PTL

-----------------------------------------------------------------------------
(* A message is in no two places ...                                       *)
LEMMA OnePlace ==
    ASSUME AppInv, NEW m, m[2] \in Nat
    PROVE  /\ \A a, b \in InRing(m) : a = b
           /\ \A a, b \in InHand(m) : a = b
           /\ \A a, b \in InLog(m) : a = b
           /\ InRing(m) = {} \/ InHand(m) = {}
           /\ InRing(m) = {} \/ InLog(m) = {}
           /\ InHand(m) = {} \/ InLog(m) = {}
<1> USE DEF AppInv
<1>0. ~(m[2] < m[2])
      OBVIOUS
<1>1. \A k \in InRing(m) : k \in 1 .. Len(Contents) /\ Contents[k].id = m
      BY BaseFacts, LenProperties DEF InRing
<1>2. \A c \in InHand(m) : c \in Consumers /\ Holds(c) /\ text[c].id = m
      BY DEF InHand, Holds
<1>3. \A e \in InLog(m) : /\ e = <<e[1], e[2]>> /\ e[1] \in Consumers
                          /\ e[2] \in 1 .. Len(log[e[1]]) /\ log[e[1]][e[2]].id = m
  <2>1. \A c \in Consumers : DOMAIN log[c] = 1 .. Len(log[c])
        BY BaseFacts, LenProperties DEF AppTypeOK
  <2> QED BY <2>1 DEF InLog
<1>4. ASSUME NEW a \in InRing(m), NEW b \in InRing(m), a < b PROVE FALSE
      BY <1>0, <1>1, <1>4 DEF OrderInv, Before
<1>5. ASSUME NEW a \in InRing(m), NEW b \in InRing(m) PROVE a = b
  <2>1. a \in 1 .. Len(Contents) /\ b \in 1 .. Len(Contents)
        BY <1>1
  <2>2. Len(Contents) \in Nat
        BY BaseFacts
  <2> QED BY <1>4, <2>1, <2>2
<1>6. ASSUME NEW a \in InHand(m), NEW b \in InHand(m) PROVE a = b
      BY <1>2 DEF UniqueInv
<1>7. ASSUME NEW a \in InLog(m), NEW b \in InLog(m) PROVE a = b
  <2>1. a[1] = b[1]
        BY <1>3 DEF UniqueInv
  <2>2. ~(a[2] < b[2]) /\ ~(b[2] < a[2])
        BY <1>0, <1>3, <2>1 DEF OrderInv, Before
  <2>3. a[2] \in Int /\ b[2] \in Int
        BY <1>3
  <2>4. a[2] = b[2]
        BY <2>2, <2>3
  <2> QED BY <1>3, <2>1, <2>4
<1>8. ASSUME NEW k \in InRing(m), NEW c \in InHand(m) PROVE FALSE
      BY <1>0, <1>1, <1>2 DEF OrderInv, Before
<1>9. ASSUME NEW k \in InRing(m), NEW e \in InLog(m) PROVE FALSE
      BY <1>0, <1>1, <1>3 DEF OrderInv, Before
<1>10. ASSUME NEW c \in InHand(m), NEW e \in InLog(m) PROVE FALSE
  <2>1. CASE c = e[1]
        BY <1>0, <1>2, <1>3, <2>1 DEF OrderInv, Before
  <2>2. CASE c # e[1]
        BY <1>2, <1>3, <2>2 DEF UniqueInv
  <2> QED BY <2>1, <2>2
<1> QED BY <1>5, <1>6, <1>7, <1>8, <1>9, <1>10

(* ... and, once its put has returned, in some place.                      *)
LEMMA SomePlace ==
    ASSUME AppInv, NEW m, Somewhere(m)
    PROVE  InRing(m) # {} \/ InHand(m) # {} \/ InLog(m) # {}
<1> USE DEF AppInv
<1>1. CASE \E k \in 1 .. Len(Contents) : Contents[k].id = m
      BY <1>1, BaseFacts, LenProperties DEF InRing
<1>2. ASSUME NEW c \in Consumers, Holds(c), text[c].id = m PROVE c \in InHand(m)
  <2>1. pc[c] = "get_post" => ret[c] > 0 /\ at[c] = "call"
        BY BaseFacts DEF Base, LoopInv, ResultInv
  <2> QED BY <1>2, <2>1 DEF InHand, Holds
<1>3. ASSUME NEW c \in Consumers, NEW a \in 1 .. Len(log[c]), log[c][a].id = m PROVE <<c, a>> \in InLog(m)
  <2>1. log[c] \in Seq(Text)
        BY BaseFacts DEF AppTypeOK
  <2>2. Len(log[c]) \in Nat /\ DOMAIN log[c] = 1 .. Len(log[c])
        BY <2>1, LenProperties
  <2>3. c \notin Producers /\ c \in Callers /\ i[c] \in Nat
        BY BaseFacts DEF AppTypeOK
  <2>4. Len(log[c]) <= GetAttempts /\ GetAttempts \in Nat
        BY <2>2, <2>3, AppAssumption DEF Base, LoopInv, Attempts
  <2>5. a \in 1 .. GetAttempts
        BY <2>2, <2>4
  <2> QED BY <1>3, <2>2, <2>5 DEF InLog
<1> QED BY <1>1, <1>2, <1>3 DEF Somewhere

(* No message whose put has succeeded is lost and none is received twice,  *)
(* for any number of producers and consumers.                              *)
THEOREM EachOnce == AppSpec => []ExactlyOnce
<1>1. ASSUME AppInv, NEW p \in Producers, NEW k \in 0 .. i[p] - 1
      PROVE  Cardinality(InRing(<<p, k>>)) + Cardinality(InHand(<<p, k>>)) + Cardinality(InLog(<<p, k>>)) = 1
  <2>1. i[p] \in Nat
        BY <1>1, BaseFacts DEF AppInv
  <2>2. k \in Nat /\ Placed(p, k)
        BY <2>1 DEF Placed
  <2>3. Somewhere(<<p, k>>)
        BY <1>1, <2>2 DEF AppInv, NoneLost
  <2>4. InRing(<<p, k>>) # {} \/ InHand(<<p, k>>) # {} \/ InLog(<<p, k>>) # {}
        BY <1>1, <2>3, SomePlace
  <2>5. <<p, k>>[2] \in Nat
        BY <2>2
  <2> DEFINE R == InRing(<<p, k>>)
             H == InHand(<<p, k>>)
             L == InLog(<<p, k>>)
  <2>6. /\ \A a, b \in R : a = b
        /\ \A a, b \in H : a = b
        /\ \A a, b \in L : a = b
        /\ R = {} \/ H = {}
        /\ R = {} \/ L = {}
        /\ H = {} \/ L = {}
        BY <1>1, <2>5, OnePlace
  <2> HIDE DEF R, H, L
  <2>7. \A S : (S # {} /\ \A a, b \in S : a = b) => Cardinality(S) = 1
    <3> SUFFICES ASSUME NEW S, S # {}, \A a, b \in S : a = b PROVE Cardinality(S) = 1
        OBVIOUS
    <3>1. PICK x \in S : TRUE
          OBVIOUS
    <3>2. S = {x}
          BY <3>1
    <3> QED BY <3>2, FS_Singleton
  <2>8. Cardinality({}) = 0
        BY FS_EmptySet
  <2>9. R # {} \/ H # {} \/ L # {}
        BY <2>4 DEF R, H, L
  <2>10. Cardinality(R) + Cardinality(H) + Cardinality(L) = 1
    <3>1. CASE R # {}
      <4>1. Cardinality(R) = 1 /\ H = {} /\ L = {}
            BY <2>6, <2>7, <3>1
      <4> QED BY <2>8, <4>1
    <3>2. CASE H # {}
      <4>1. Cardinality(H) = 1 /\ R = {} /\ L = {}
            BY <2>6, <2>7, <3>2
      <4> QED BY <2>8, <4>1
    <3>3. CASE L # {}
      <4>1. Cardinality(L) = 1 /\ R = {} /\ H = {}
            BY <2>6, <2>7, <3>3
      <4> QED BY <2>8, <4>1
    <3> QED BY <2>9, <3>1, <3>2, <3>3
  <2> QED BY <2>10 DEF R, H, L
<1>2. AppInv => ExactlyOnce
      BY <1>1 DEF ExactlyOnce
<1> QED BY <1>2, AppInductive, PTL
=============================================================================
