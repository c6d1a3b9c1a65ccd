-------------------------- MODULE EventLoopsProofs --------------------------
(***************************************************************************)
(* What the three programs of MCEventLoops keep to, for every number of    *)
(* descriptors, slots, bytes and lines: first for each program by itself,  *)
(* and at the end for the specification of them all.                       *)
(***************************************************************************)
EXTENDS MCEventLoops, FiniteSetTheorems, SequenceTheorems, TLAPS

-----------------------------------------------------------------------------
(* Least and greatest members *)

LEMMA LeastMember ==
  ASSUME NEW S \in SUBSET Nat, S # {}
  PROVE  Min(S) \in S /\ \A n \in S : Min(S) <= n
<1> DEFINE R == {pair \in Nat \X Nat : pair[1] < pair[2]}
<1>1. IsWellFoundedOn(R, Nat)
  BY NatLessThanWellFounded DEF OpToRel
<1>2. PICK m \in S : \A n \in S : ~(<<n, m>> \in R)
  BY <1>1, WFMin
<1>3. ASSUME NEW n \in S PROVE m <= n
  <2>1. m \in Nat /\ n \in Nat
    OBVIOUS
  <2>2. <<n, m>> \in Nat \X Nat /\ ~(<<n, m>>[1] < <<n, m>>[2])
    BY <1>2, <2>1
  <2> QED
    BY <2>1, <2>2
<1> QED
  BY <1>3 DEF Min

LEMMA ImageIsFinite ==
  ASSUME NEW S, IsFiniteSet(S), NEW f
  PROVE  /\ IsFiniteSet({f[x] : x \in S})
         /\ Cardinality({f[x] : x \in S}) <= Cardinality(S)
<1> DEFINE g == [x \in S |-> f[x]]
           T == {f[x] : x \in S}
<1>1. g \in Surjection(S, T)
  BY DEF Surjection
<1> QED
  BY <1>1, FS_Surjection

(* INSTANCE gives SelectProxy a Min and a Max of its own.                  *)
LEMMA SelLeastMember ==
  ASSUME NEW S \in SUBSET Nat, S # {}
  PROVE  Sel!Min(S) \in S /\ \A n \in S : Sel!Min(S) <= n
  BY LeastMember DEF Min, Sel!Min

LEMMA SelGreatestMember ==
  ASSUME NEW S \in SUBSET Int, S # {}, IsFiniteSet(S)
  PROVE  Sel!Max(S) \in S
<1> DEFINE Above(x) == {y \in S : y > x}
           Sizes    == {Cardinality(Above(x)) : x \in S}
<1>1. \A x \in S : IsFiniteSet(Above(x)) /\ Cardinality(Above(x)) \in Nat
  BY FS_Subset, FS_CardinalityType
<1>2. Sizes \in SUBSET Nat /\ Sizes # {}
  BY <1>1
<1>3. PICK x \in S : \A y \in S : Cardinality(Above(x)) <= Cardinality(Above(y))
  <2>1. Min(Sizes) \in Sizes /\ \A n \in Sizes : Min(Sizes) <= n
    BY <1>2, LeastMember
  <2>2. PICK x \in S : Min(Sizes) = Cardinality(Above(x))
    BY <2>1
  <2> QED
    BY <2>1, <2>2
<1>4. ASSUME NEW y \in S, y > x PROVE FALSE
  <2>1. Above(y) \in SUBSET Above(x) /\ y \in Above(x) /\ y \notin Above(y)
    <3>1. x \in Int /\ y \in Int
      OBVIOUS
    <3>2. ASSUME NEW z \in Above(y) PROVE z \in S /\ z > x
      <4>1. z \in S /\ z \in Int /\ z > y
        OBVIOUS
      <4> QED
        BY <1>4, <3>1, <4>1
    <3>3. y \in Above(x)
      BY <1>4
    <3>4. y \notin Above(y)
      BY <3>1
    <3> QED
      BY <3>2, <3>3, <3>4
  <2>2. Cardinality(Above(y)) <= Cardinality(Above(x)) /\ Cardinality(Above(y)) # Cardinality(Above(x))
    BY <1>1, <2>1, FS_Subset
  <2> QED
    BY <1>1, <1>3, <2>2
<1>5. \A y \in S : x >= y
  BY <1>4
<1> QED
  BY <1>5 DEF Sel!Max

-----------------------------------------------------------------------------
(* proxy_server.c *)

(* Besides the types: a pair is recorded at each entry but the first, and  *)
(* poll reports no more clients than there are.                            *)
ProxyTypes ==
    /\ TypeOK
    /\ pc = "scan" /\ i = 0 /\ fds[0].revents = "POLLIN" => accepts < MaxAccepts
    /\ \A k \in Used \ {0} : connections[k].client_fd \in Fds /\ connections[k].remote_fd \in Fds

ProxyInv == ProxyTypes /\ InStep /\ EveryOpenFdIsPolled

LEMMA ProxyAtFirst == Init => ProxyInv
<1> SUFFICES ASSUME Init PROVE ProxyInv
  OBVIOUS
<1> USE SizesAssumption DEF Init, Slots, Used, Events
<1>1. TypeOK
  BY DEF TypeOK
<1>2. Used \ {0} = {}
  OBVIOUS
<1>3. fds[0].fd = listen_fd
  OBVIOUS
<1> QED
  BY <1>1, <1>2, <1>3 DEF ProxyInv, ProxyTypes, InStep, EveryOpenFdIsPolled, Running

LEMMA ClosingKeeps ==
  ASSUME ProxyInv, pc = "scan", i < nfds, fds[i].fd # listen_fd, CloseConnection
  PROVE  ProxyInv'
<1> USE SizesAssumption DEF ProxyInv, ProxyTypes, TypeOK, Slots, Used, LastOne, Running
<1>1. i \in Used \ {0} /\ i \in Slots /\ LastOne \in Used \ {0} /\ LastOne \in Slots
  BY DEF InStep
<1>2. /\ nfds' = nfds - 1 /\ UNCHANGED <<pc, i, mate, accepts>>
      /\ fds' = [fds EXCEPT ![i] = fds[LastOne]]
      /\ connections' = [connections EXCEPT ![i] = connections[LastOne]]
      /\ open' = open \ {fds[i].fd, connections[i].remote_fd}
  BY DEF CloseConnection
<1>3. TypeOK'
  <2>1. nfds' \in 1 .. MAX_CONNECTIONS
    BY <1>1, <1>2
  <2>2. fds' \in [Slots -> [fd : Fds \cup {listen_fd, NoFd}, revents : Events]]
    BY <1>1, <1>2
  <2>3. connections' \in [Slots -> [client_fd : Fds \cup {NoFd}, remote_fd : Fds \cup {NoFd}]]
    BY <1>1, <1>2
  <2>4. open' \subseteq Fds \cup {listen_fd}
    BY <1>2
  <2> QED
    BY <1>2, <2>1, <2>2, <2>3, <2>4
<1>4. \A k \in Used' : /\ k \in Used /\ k # LastOne /\ k \in Slots
                       /\ k # i => fds'[k] = fds[k] /\ connections'[k] = connections[k]
                       /\ k = i => fds'[k] = fds[LastOne] /\ connections'[k] = connections[LastOne]
  BY <1>1, <1>2
<1>5. ProxyTypes'
  <2>1. \A k \in Used' \ {0} : connections'[k].client_fd \in Fds /\ connections'[k].remote_fd \in Fds
    BY <1>1, <1>4
  <2>2. i' # 0
    BY <1>1, <1>2
  <2> QED
    BY <1>3, <2>1, <2>2
<1>6. InStep'
  <2>1. fds'[0].fd = listen_fd /\ listen_fd \in open
    BY <1>1, <1>2 DEF InStep
  <2>2. listen_fd # connections[i].remote_fd
    BY <1>1
  <2>3. listen_fd \in open'
    BY <1>2, <2>1, <2>2
  <2>4. \A k \in Used' \ {0} : fds'[k].fd \in {connections'[k].client_fd, connections'[k].remote_fd}
    BY <1>1, <1>4 DEF InStep
  <2> QED
    BY <2>1, <2>3, <2>4 DEF InStep
<1>7. EveryOpenFdIsPolled'
  <2>1. ASSUME NEW f \in open' PROVE \E k \in Used' : fds'[k].fd = f
    <3>1. f \in open /\ f # fds[i].fd
      BY <1>2
    <3>2. PICK k \in Used : fds[k].fd = f
      BY <3>1 DEF EveryOpenFdIsPolled
    <3>3. CASE k = LastOne
      <4>1. i # LastOne
        BY <3>1, <3>2, <3>3
      <4>2. i \in Used' /\ fds'[i] = fds[LastOne]
        BY <1>1, <1>2, <4>1
      <4> QED
        BY <3>2, <3>3, <4>2
    <3>4. CASE k # LastOne
      <4>1. k \in Used' /\ fds'[k] = fds[k]
        BY <1>1, <1>2, <3>1, <3>2, <3>4
      <4> QED
        BY <3>2, <4>1
    <3> QED
      BY <3>3, <3>4
  <2> QED
    BY <1>2, <2>1 DEF EveryOpenFdIsPolled
<1> QED
  BY <1>5, <1>6, <1>7

LEMMA AddingKeeps == ProxyInv /\ AddPair => ProxyInv'
<1> SUFFICES ASSUME ProxyInv, AddPair PROVE ProxyInv'
  OBVIOUS
<1> DEFINE c == Min(Free)
           r == Min(Free \ {c})
           pair == [client_fd |-> c, remote_fd |-> r]
<1>1. /\ pc = "scan" /\ i < nfds /\ fds[i].fd = listen_fd /\ Cardinality(Free) >= 2 /\ pc' = pc
      /\ nfds + 1 < MAX_CONNECTIONS /\ open' = open \cup {c, r}
      /\ fds' = [fds EXCEPT ![nfds].fd = c, ![nfds + 1].fd = r]
      /\ connections' = [connections EXCEPT ![nfds] = pair, ![nfds + 1] = pair]
      /\ nfds' = nfds + 2 /\ mate' = [mate EXCEPT ![c] = r, ![r] = c]
      /\ accepts' = accepts + 1 /\ i' = i + 1
  BY DEF AddPair, ClientConnects, At, RoomForPair, NextEntry
<1>2. Free # {} /\ \A x : Free # {x}
  <2> HIDE DEF c, r
  <2>1. Cardinality(Free) >= 2
    BY <1>1
  <2>2. ASSUME Free = {} PROVE FALSE
    <3>1. Cardinality(Free) = 0
      BY <2>2, FS_EmptySet, Zenon
    <3> QED
      BY <2>1, <3>1
  <2>3. ASSUME NEW x, Free = {x} PROVE FALSE
    <3>1. Cardinality(Free) = 1
      BY <2>3, FS_Singleton, Zenon
    <3> QED
      BY <2>1, <3>1
  <2> QED
    BY <2>2, <2>3
<1>3. c \in Free /\ r \in Free
  <2>1. Free \subseteq Nat
    BY SizesAssumption DEF Free
  <2>2. c \in Free
    BY <1>2, <2>1, LeastMember
  <2>3. Free \ {c} # {}
    BY <1>2, <2>2
  <2>4. r \in Free \ {c}
    BY <2>1, <2>3, LeastMember
  <2> QED
    BY <2>2, <2>4
<1>4. c \in Fds /\ r \in Fds
  BY <1>3 DEF Free
<1> HIDE DEF c, r
<1> USE SizesAssumption DEF ProxyInv, ProxyTypes, TypeOK, Slots, Used, Running
<1>5. /\ nfds \in Slots /\ nfds + 1 \in Slots /\ nfds \in Nat \ {0}
      /\ i' \in 0 .. MAX_CONNECTIONS /\ nfds' \in 1 .. MAX_CONNECTIONS
  BY <1>1
<1>6. /\ fds'[nfds].fd = c /\ fds'[nfds + 1].fd = r
      /\ connections'[nfds] = pair /\ connections'[nfds + 1] = pair
      /\ \A k \in Used : fds'[k] = fds[k] /\ connections'[k] = connections[k]
  BY <1>1, <1>5
<1>7. accepts' \in 0 .. MaxAccepts
  <2>1. i = 0
    <3>1. ASSUME i # 0 PROVE FALSE
      <4>1. i \in Used \ {0}
        BY <1>1, <3>1
      <4>2. fds[i].fd \in Fds
        BY <4>1 DEF InStep
      <4> QED
        BY <1>1, <4>2
    <3> QED
      BY <3>1
  <2>2. fds[0].revents = "POLLIN"
    BY <2>1 DEF AddPair, ClientConnects, At
  <2> QED
    BY <1>1, <2>1, <2>2
<1>8. TypeOK'
  <2>1. fds' \in [Slots -> [fd : Fds \cup {listen_fd, NoFd}, revents : Events]]
    <3> DEFINE Entries == [fd : Fds \cup {listen_fd, NoFd}, revents : Events]
    <3>1. fds \in [Slots -> Entries] /\ nfds \in Slots /\ nfds + 1 \in Slots
      BY <1>5
    <3>2. [fds[nfds] EXCEPT !.fd = c] \in Entries
      BY <1>4, <3>1
    <3>3. [fds EXCEPT ![nfds].fd = c] \in [Slots -> Entries]
      BY <3>1, <3>2
    <3> DEFINE g == [fds EXCEPT ![nfds].fd = c]
    <3>4. [g[nfds + 1] EXCEPT !.fd = r] \in Entries
      BY <1>4, <3>1, <3>3
    <3>5. [g EXCEPT ![nfds + 1].fd = r] \in [Slots -> Entries]
      BY <3>1, <3>3, <3>4
    <3> QED
      BY <1>1, <3>5
  <2>2. connections' \in [Slots -> [client_fd : Fds \cup {NoFd}, remote_fd : Fds \cup {NoFd}]]
    BY <1>1, <1>4, <1>5
  <2>3. mate' \in [Fds -> Fds \cup {NoFd}] /\ open' \subseteq Fds \cup {listen_fd}
    BY <1>1, <1>4
  <2> QED
    BY <1>1, <1>5, <1>7, <2>1, <2>2, <2>3
<1>9. Used' = Used \cup {nfds, nfds + 1}
  BY <1>1, <1>5
<1>10. ProxyTypes'
  <2>1. ASSUME NEW k \in Used' \ {0}
        PROVE  connections'[k].client_fd \in Fds /\ connections'[k].remote_fd \in Fds
    <3>1. CASE k \in Used
      BY <1>6, <3>1
    <3>2. CASE k \in {nfds, nfds + 1}
      <4>1. connections'[k] = pair
        BY <1>6, <3>2
      <4> QED
        BY <1>4, <4>1
    <3> QED
      BY <1>9, <3>1, <3>2
  <2>2. i' # 0
    BY <1>1
  <2> QED
    BY <1>8, <2>1, <2>2
<1>11. InStep'
  <2>1. fds'[0].fd = listen_fd /\ listen_fd \in open'
    <3>1. 0 \in Used /\ fds[0].fd = listen_fd /\ listen_fd \in open
      BY <1>1, <1>5 DEF InStep
    <3> QED
      BY <1>1, <1>6, <3>1
  <2>2. ASSUME NEW k \in Used' \ {0}
        PROVE  fds'[k].fd \in {connections'[k].client_fd, connections'[k].remote_fd}
    <3>1. CASE k \in Used
      BY <1>6, <3>1 DEF InStep
    <3>2. CASE k \notin Used
      BY <1>6, <1>9, <3>2
    <3> QED
      BY <3>1, <3>2
  <2> QED
    BY <2>1, <2>2 DEF InStep
<1>12. EveryOpenFdIsPolled'
  <2>1. ASSUME NEW f \in open' PROVE \E k \in Used' : fds'[k].fd = f
    <3>1. CASE f \in open
      BY <1>1, <1>6, <1>9, <3>1 DEF EveryOpenFdIsPolled
    <3>2. CASE f \in {c, r}
      BY <1>6, <1>9, <3>2
    <3> QED
      BY <1>1, <3>1, <3>2
  <2> QED
    BY <1>1, <2>1 DEF EveryOpenFdIsPolled
<1> QED
  BY <1>10, <1>11, <1>12

(* The steps that leave the arrays alone, but for what poll reports.       *)
LEMMA ProxyStays == ProxyInv /\ [Next]_vars => ProxyInv'
<1> SUFFICES ASSUME ProxyInv, [Next]_vars PROVE ProxyInv'
  OBVIOUS
<1> USE SizesAssumption DEF ProxyInv, ProxyTypes, TypeOK, Slots, Used, Running, InStep, EveryOpenFdIsPolled
<1>1. CASE Poll
  <2>1. PICK r \in [Used -> Events] :
          /\ r[0] = "POLLIN" => accepts < MaxAccepts
          /\ fds' = [k \in Slots |-> IF k \in Used THEN [fds[k] EXCEPT !.revents = r[k]] ELSE fds[k]]
    BY <1>1 DEF Poll
  <2>2. /\ pc = "poll" /\ pc' = "scan" /\ i' = 0
        /\ UNCHANGED <<connections, nfds, open, mate, accepts>>
    BY <1>1 DEF Poll
  <2>3. fds' \in [Slots -> [fd : Fds \cup {listen_fd, NoFd}, revents : Events]]
    BY <2>1
  <2>4. \A k \in Used : fds'[k].fd = fds[k].fd
    BY <2>1
  <2>5. fds'[0].revents = r[0]
    BY <2>1
  <2>6. TypeOK'
    BY <2>2, <2>3
  <2>7. ProxyTypes'
    BY <2>1, <2>2, <2>5, <2>6
  <2>8. InStep'
    BY <2>2, <2>4
  <2>9. EveryOpenFdIsPolled'
    BY <2>2, <2>4
  <2> QED
    BY <2>7, <2>8, <2>9
<1>2. CASE PollFails
  <2>1. /\ pc = "poll" /\ pc' = "stopped" /\ open' = open \ {fds[k].fd : k \in Used}
        /\ UNCHANGED <<fds, connections, nfds, i, mate, accepts>>
    BY <1>2 DEF PollFails
  <2>2. \A f \in open : \E k \in Used : fds[k].fd = f
    BY <2>1
  <2>3. open \subseteq {fds[k].fd : k \in Used}
    BY ONLY <2>2
  <2>4. open' = {}
    BY ONLY <2>1, <2>3
  <2> QED
    BY <2>1, <2>4
<1>3. CASE ScanDone
  BY <1>3 DEF ScanDone
<1>4. CASE Skip
  BY <1>4 DEF Skip, At, NextEntry
<1>5. CASE Hangup
  BY <1>5, ClosingKeeps DEF Hangup, At
<1>6. CASE ListenerError
  BY <1>6 DEF ListenerError, At, NextEntry
<1>7. CASE RefuseClient
  BY <1>7 DEF RefuseClient, ClientConnects, At, NextEntry
<1>8. CASE AddPair
  BY <1>8, AddingKeeps
<1>9. CASE Ignore
  BY <1>9 DEF Ignore, DataIn, At, NextEntry
<1>10. CASE Forward
  BY <1>10 DEF Forward, Relays, DataIn, At, NextEntry
<1>11. CASE CloseOnFailure
  BY <1>11, ClosingKeeps DEF CloseOnFailure, Relays, DataIn, At
<1>12. CASE Killed
  BY <1>12 DEF Killed
<1>13. CASE UNCHANGED vars
  BY <1>13 DEF vars
<1> QED
  BY <1>1, <1>2, <1>3, <1>4, <1>5, <1>6, <1>7, <1>8, <1>9, <1>10, <1>11, <1>12, <1>13 DEF Next

-----------------------------------------------------------------------------
(* proxy.c *)

FreeAreEmpty == \A k \in Sel!Slots : k \notin Sel!InUse => slots[k].client_fd = NoFd

SelectInv == Sel!TypeOK /\ OneSlotPerFd /\ FreeAreEmpty /\ backlog <= clients

LEMMA SelectSizes ==
    /\ SlotCount \in Nat \ {0} /\ BUF_SIZE \in Nat \ {0} /\ RELAY_LIMIT \in Nat
    /\ MaxClients \in Nat /\ MaxSent \in Nat /\ listen_fd \in Nat
    /\ SelectFds \subseteq Nat /\ listen_fd \notin SelectFds /\ NoFd \notin SelectFds
  BY SelectProxyAssumption

LEMMA SelectAtFirst == Sel!Init => SelectInv
<1> SUFFICES ASSUME Sel!Init PROVE SelectInv
  OBVIOUS
<1> USE SelectSizes DEF Sel!Init, Sel!Slots, Sel!Empty, Sel!States, Sel!InUse
<1>1. Sel!TypeOK
  <2>1. Sel!Empty \in [client_fd : SelectFds \cup {NoFd}, state : Sel!States, buf_len : 0 .. BUF_SIZE - 1]
    OBVIOUS
  <2> QED
    BY <2>1 DEF Sel!TypeOK
<1>2. OneSlotPerFd
  BY DEF OneSlotPerFd, Sel!OneSlotPerFd
<1> QED
  BY <1>1, <1>2 DEF SelectInv, FreeAreEmpty

LEMMA SlotsFinite == IsFiniteSet(Sel!Slots) /\ Cardinality(Sel!Slots) = SlotCount
<1>1. IsFiniteSet(0 .. SlotCount - 1) /\ Cardinality(0 .. SlotCount - 1) = SlotCount
  BY SelectSizes, FS_Interval
<1> QED
  BY <1>1 DEF Sel!Slots

(* select looks at descriptors only, and finds the greatest of them.       *)
LEMMA WatchedAreThere ==
  ASSUME SelectInv
  PROVE  Sel!Watched \subseteq SelectFds \cup {listen_fd} /\ Sel!NewMaxFd \in SelectFds \cup {listen_fd}
<1> DEFINE fdOf == [k \in Sel!InUse |-> slots[k].client_fd]
<1>1. Sel!InUse \in SUBSET Sel!Slots
  BY DEF Sel!InUse
<1>2. \A k \in Sel!InUse : fdOf[k] \in SelectFds
  BY <1>1 DEF SelectInv, OneSlotPerFd, Sel!OneSlotPerFd, Sel!TypeOK
<1>3. IsFiniteSet(Sel!InUse)
  BY <1>1, SlotsFinite, FS_Subset
<1>4. IsFiniteSet({fdOf[k] : k \in Sel!InUse})
  BY <1>3, ImageIsFinite
<1>5. Sel!Watched \subseteq SelectFds \cup {listen_fd}
  BY <1>2 DEF Sel!Watched
<1>6. {max_fd} \cup Sel!Watched = ({fdOf[k] : k \in Sel!InUse} \cup {listen_fd}) \cup {max_fd}
  BY DEF Sel!Watched
<1>7. IsFiniteSet({max_fd} \cup Sel!Watched)
  BY <1>4, <1>6, FS_AddElement
<1>8. {max_fd} \cup Sel!Watched \subseteq SelectFds \cup {listen_fd}
  BY <1>5 DEF SelectInv, Sel!TypeOK
<1>9. {max_fd} \cup Sel!Watched \in SUBSET Int
  <2>1. SelectFds \cup {listen_fd} \subseteq Int
    BY SelectSizes
  <2> QED
    BY ONLY <1>8, <2>1
<1>10. Sel!NewMaxFd \in {max_fd} \cup Sel!Watched
  BY <1>7, <1>9, SelGreatestMember DEF Sel!NewMaxFd
<1> QED
  BY <1>5, <1>8, <1>10

(* While a slot is free there is a descriptor for it.                      *)
LEMMA DescriptorIsLeft ==
  ASSUME SelectInv, Sel!FreeSlots # {}
  PROVE  Sel!NewFd \in SelectFds \ selOpen
<1> DEFINE fdOf == [k \in Sel!InUse |-> slots[k].client_fd]
<1>1. ASSUME SelectFds \subseteq selOpen PROVE FALSE
  <2>1. SelectFds = {fdOf[k] : k \in Sel!InUse}
    <3>1. \A f \in SelectFds : \E k \in Sel!InUse : fdOf[k] = f
      BY <1>1 DEF SelectInv, OneSlotPerFd, Sel!OneSlotPerFd
    <3>2. \A k \in Sel!InUse : fdOf[k] \in SelectFds
      BY DEF SelectInv, OneSlotPerFd, Sel!OneSlotPerFd, Sel!TypeOK, Sel!InUse
    <3> QED
      BY <3>1, <3>2
  <2>2. Sel!InUse \in SUBSET Sel!Slots
    BY DEF Sel!InUse
  <2>3. IsFiniteSet(Sel!InUse) /\ Cardinality(Sel!InUse) <= SlotCount
    BY <2>2, SlotsFinite, FS_Subset
  <2>4. Cardinality(SelectFds) <= Cardinality(Sel!InUse) /\ IsFiniteSet(SelectFds)
    BY <2>1, <2>3, ImageIsFinite
  <2>5. Cardinality(SelectFds) \in Nat /\ Cardinality(Sel!InUse) \in Nat
    BY <2>3, <2>4, FS_CardinalityType
  <2> QED
    BY <2>3, <2>4, <2>5, SelectProxyAssumption, SelectSizes
<1>2. SelectFds \ selOpen \in SUBSET Nat /\ SelectFds \ selOpen # {}
  BY <1>1, SelectSizes
<1> QED
  BY <1>2, SelLeastMember DEF Sel!NewFd

(* A step that leaves slots and open descriptors alone.                    *)
LEMMA SlotsUntouched ==
  ASSUME SelectInv, UNCHANGED <<slots, selOpen>>, Sel!TypeOK', (backlog <= clients)'
  PROVE  SelectInv'
  BY DEF SelectInv, OneSlotPerFd, Sel!OneSlotPerFd, FreeAreEmpty, Sel!InUse, Sel!Slots

LEMMA AcceptKeeps == SelectInv /\ Sel!AcceptClient => SelectInv'
<1> SUFFICES ASSUME SelectInv, Sel!AcceptClient PROVE SelectInv'
  OBVIOUS
<1> DEFINE f == Sel!NewFd
           s == Sel!find_free_slot
           new == [client_fd |-> f, state |-> "READING_REQUEST", buf_len |-> 0]
<1>1. /\ selPc = "accept" /\ backlog > 0 /\ Sel!FreeSlots # {}
      /\ slots' = [slots EXCEPT ![s] = new]
      /\ selOpen' = selOpen \cup {f}
      /\ waiting' = [waiting EXCEPT ![f] = 0]
      /\ hungup' = hungup \ {f}
      /\ max_fd' = Sel!Max({max_fd, f})
      /\ backlog' = backlog - 1
      /\ selPc' = "scan" /\ selI' = 0
      /\ UNCHANGED <<read_fds, clients>>
  BY DEF Sel!AcceptClient, Sel!Accepts, Sel!TakeSlot, Sel!ToScan
<1>2. f \in SelectFds \ selOpen
  BY <1>1, DescriptorIsLeft
<1>3. s \in Sel!Slots \ Sel!InUse
  <2>1. Sel!FreeSlots \in SUBSET Nat
    BY SelectSizes DEF Sel!FreeSlots, Sel!Slots
  <2> QED
    BY <1>1, <2>1, SelLeastMember DEF Sel!find_free_slot, Sel!FreeSlots
<1> HIDE DEF f, s
<1>4. Sel!TypeOK'
  <2> USE SelectSizes DEF SelectInv, Sel!TypeOK
  <2>1. new \in [client_fd : SelectFds \cup {NoFd}, state : Sel!States, buf_len : 0 .. BUF_SIZE - 1]
    BY <1>2 DEF Sel!States
  <2>2. slots' \in [Sel!Slots -> [client_fd : SelectFds \cup {NoFd}, state : Sel!States,
                                  buf_len : 0 .. BUF_SIZE - 1]]
    <3> HIDE DEF new
    <3> QED
      BY <1>1, <1>3, <2>1
  <2>3. max_fd' \in SelectFds \cup {listen_fd}
    <3>1. {max_fd, f} \in SUBSET Int /\ {max_fd, f} # {}
      BY <1>2
    <3>2. IsFiniteSet({max_fd} \cup {f})
      BY FS_Singleton, FS_AddElement
    <3>3. {max_fd, f} = {max_fd} \cup {f}
      OBVIOUS
    <3>4. Sel!Max({max_fd, f}) \in {max_fd, f}
      BY <3>1, <3>2, <3>3, SelGreatestMember
    <3> QED
      BY <1>1, <1>2, <3>4
  <2>4. waiting' \in [SelectFds -> 0 .. MaxSent]
    BY <1>1, <1>2
  <2>5. selOpen' \subseteq SelectFds /\ hungup' \subseteq SelectFds
    BY <1>1, <1>2
  <2>6. backlog' \in 0 .. MaxClients /\ selI' \in 0 .. SlotCount
    BY <1>1
  <2> QED
    BY <1>1, <2>2, <2>3, <2>4, <2>5, <2>6
<1>5. Sel!InUse' = Sel!InUse \cup {s}
  BY <1>1, <1>3 DEF SelectInv, Sel!TypeOK, Sel!InUse, Sel!Slots
<1>6. /\ slots'[s].client_fd = f
      /\ \A k \in Sel!Slots : k # s => slots'[k] = slots[k]
  BY <1>1, <1>3 DEF SelectInv, Sel!TypeOK
<1>7. \A k \in Sel!Slots : slots[k].client_fd # f
  <2>1. ASSUME NEW k \in Sel!Slots, k \in Sel!InUse PROVE slots[k].client_fd \in selOpen
    BY <2>1 DEF SelectInv, OneSlotPerFd, Sel!OneSlotPerFd
  <2>2. ASSUME NEW k \in Sel!Slots, k \notin Sel!InUse PROVE slots[k].client_fd = NoFd
    BY <2>2 DEF SelectInv, FreeAreEmpty
  <2>3. f # NoFd
    BY <1>2, SelectSizes
  <2> QED
    BY <1>2, <2>1, <2>2, <2>3
<1>8. Sel!InUse \subseteq Sel!Slots /\ Sel!Slots' = Sel!Slots
  BY DEF Sel!InUse, Sel!Slots
<1>9. OneSlotPerFd'
  <2> USE DEF SelectInv, OneSlotPerFd, Sel!OneSlotPerFd
  <2>1. ASSUME NEW k \in Sel!Slots
        PROVE  slots'[k].client_fd \in selOpen' <=> k \in Sel!InUse'
    <3>1. CASE k = s
      BY <1>1, <1>5, <1>6, <3>1
    <3>2. CASE k # s
      BY <1>1, <1>5, <1>6, <1>7, <3>2
    <3> QED
      BY <3>1, <3>2
  <2>2. ASSUME NEW g \in selOpen' PROVE \E k \in Sel!InUse' : slots'[k].client_fd = g
    <3>1. CASE g = f
      BY <1>5, <1>6, <3>1
    <3>2. CASE g # f
      BY <1>1, <1>3, <1>5, <1>6, <1>8, <3>2
    <3> QED
      BY <3>1, <3>2
  <2>3. ASSUME NEW k \in Sel!InUse', NEW m \in Sel!InUse', slots'[k].client_fd = slots'[m].client_fd
        PROVE  k = m
    <3>1. CASE k = s
      BY <1>3, <1>5, <1>6, <1>7, <1>8, <2>3, <3>1
    <3>2. CASE m = s
      BY <1>3, <1>5, <1>6, <1>7, <1>8, <2>3, <3>2
    <3>3. CASE k # s /\ m # s
      BY <1>3, <1>5, <1>6, <1>8, <2>3, <3>3
    <3> QED
      BY <3>1, <3>2, <3>3
  <2> QED
    BY <1>8, <2>1, <2>2, <2>3
<1>10. FreeAreEmpty'
  BY <1>5, <1>6, <1>8 DEF SelectInv, FreeAreEmpty
<1>11. (backlog <= clients)'
  BY <1>1 DEF SelectInv, Sel!TypeOK
<1> QED
  BY <1>4, <1>9, <1>10, <1>11 DEF SelectInv

(* Whose slot it is at whose descriptor was ready.                         *)
LEMMA DueSlot ==
  ASSUME SelectInv, Sel!Due
  PROVE  /\ selI \in Sel!InUse /\ selI \in Sel!Slots /\ selI \in 0 .. SlotCount - 1
         /\ Sel!fd = slots[selI].client_fd /\ Sel!fd \in SelectFds /\ Sel!fd \in selOpen
  BY SelectSizes
  DEF SelectInv, OneSlotPerFd, Sel!OneSlotPerFd, Sel!Due, Sel!InUse, Sel!Slots, Sel!fd, Sel!TypeOK

LEMMA EndKeeps ==
  ASSUME SelectInv, Sel!Due, Sel!CloseConnection, selI' = selI + 1,
         UNCHANGED <<max_fd, read_fds, selPc, waiting, hungup, backlog, clients>>
  PROVE  SelectInv'
<1> DEFINE f == slots[selI].client_fd
<1>1. /\ selI \in Sel!InUse /\ selI \in Sel!Slots /\ selI \in 0 .. SlotCount - 1
      /\ f \in SelectFds /\ f \in selOpen
  BY DueSlot
<1>2. selOpen' = selOpen \ {f} /\ slots' = [slots EXCEPT ![selI] = Sel!Empty]
  BY DEF Sel!CloseConnection, Sel!fd
<1> HIDE DEF f
<1>3. Sel!TypeOK'
  <2> USE SelectSizes DEF SelectInv, Sel!TypeOK
  <2>1. Sel!Empty \in [client_fd : SelectFds \cup {NoFd}, state : Sel!States, buf_len : 0 .. BUF_SIZE - 1]
    BY DEF Sel!States, Sel!Empty
  <2>2. slots' \in [Sel!Slots -> [client_fd : SelectFds \cup {NoFd}, state : Sel!States,
                                  buf_len : 0 .. BUF_SIZE - 1]]
    BY <1>1, <1>2, <2>1
  <2>3. selOpen' \subseteq SelectFds
    BY <1>2
  <2>4. selI' \in 0 .. SlotCount
    BY <1>1
  <2> QED
    BY <2>2, <2>3, <2>4
<1>4. /\ slots'[selI] = Sel!Empty
      /\ \A k \in Sel!Slots : k # selI => slots'[k] = slots[k]
  BY <1>1, <1>2 DEF SelectInv, Sel!TypeOK
<1>5. Sel!InUse' = Sel!InUse \ {selI}
  BY <1>1, <1>4 DEF Sel!InUse, Sel!Slots, Sel!Empty
<1>6. Sel!InUse \subseteq Sel!Slots /\ Sel!Slots' = Sel!Slots
  BY DEF Sel!InUse, Sel!Slots
<1>7. OneSlotPerFd'
  <2> USE DEF SelectInv, OneSlotPerFd, Sel!OneSlotPerFd
  <2>1. ASSUME NEW k \in Sel!Slots
        PROVE  slots'[k].client_fd \in selOpen' <=> k \in Sel!InUse'
    <3>1. CASE k = selI
      <4>1. NoFd \notin selOpen'
        BY <1>2, SelectSizes DEF Sel!TypeOK
      <4> QED
        BY <1>4, <1>5, <3>1, <4>1 DEF Sel!Empty
    <3>2. CASE k # selI
      <4>1. slots'[k] = slots[k] /\ (k \in Sel!InUse' <=> k \in Sel!InUse)
        BY <1>4, <1>5, <3>2
      <4>2. k \in Sel!InUse => slots[k].client_fd # f
        BY <1>1, <3>2 DEF f
      <4> QED
        BY <1>2, <4>1, <4>2
    <3> QED
      BY <3>1, <3>2
  <2>2. ASSUME NEW g \in selOpen' PROVE \E k \in Sel!InUse' : slots'[k].client_fd = g
    <3>1. g \in selOpen /\ g # f
      BY <1>2
    <3>2. PICK k \in Sel!InUse : slots[k].client_fd = g
      BY <3>1
    <3>3. k # selI
      BY <3>1, <3>2 DEF f
    <3> QED
      BY <1>4, <1>5, <1>6, <3>2, <3>3
  <2>3. \A k, m \in Sel!InUse' : slots'[k].client_fd = slots'[m].client_fd => k = m
    BY <1>4, <1>5, <1>6
  <2> QED
    BY <1>6, <2>1, <2>2, <2>3
<1>8. FreeAreEmpty'
  BY <1>4, <1>5, <1>6 DEF SelectInv, FreeAreEmpty, Sel!Empty
<1> QED
  BY <1>3, <1>7, <1>8 DEF SelectInv

LEMMA ReadKeeps == SelectInv /\ Sel!ReadData => SelectInv'
<1> SUFFICES ASSUME SelectInv, Sel!ReadData PROVE SelectInv'
  OBVIOUS
<1> DEFINE f == slots[selI].client_fd
           room == BUF_SIZE - slots[selI].buf_len - 1
           n == Sel!Min({waiting[f], room})
           len == slots[selI].buf_len + n
<1>1. /\ selI \in Sel!InUse /\ selI \in Sel!Slots /\ selI \in 0 .. SlotCount - 1
      /\ f \in SelectFds /\ f \in selOpen
  BY DueSlot DEF Sel!ReadData
<1>2. /\ n > 0
      /\ slots' = [slots EXCEPT ![selI].buf_len = @ + n, ![selI].state = Sel!StateAfter(len)]
      /\ waiting' = [waiting EXCEPT ![f] = @ - n]
      /\ selI' = selI + 1
      /\ UNCHANGED <<max_fd, read_fds, selPc, selOpen, hungup, backlog, clients>>
  BY DEF Sel!ReadData, Sel!Room, Sel!conn, Sel!fd, Sel!NextSlot
<1>3. waiting[f] \in 0 .. MaxSent /\ slots[selI].buf_len \in 0 .. BUF_SIZE - 1
  BY <1>1 DEF SelectInv, Sel!TypeOK
<1>4. n \in Nat /\ n <= waiting[f] /\ n <= room
  <2>1. {waiting[f], room} \in SUBSET Nat /\ {waiting[f], room} # {}
    BY <1>3, SelectSizes
  <2> QED
    BY <2>1, SelLeastMember
<1>5. len \in 0 .. BUF_SIZE - 1 /\ waiting[f] - n \in 0 .. MaxSent
  BY <1>3, <1>4, SelectSizes
<1>6. Sel!StateAfter(len) \in Sel!States /\ Sel!StateAfter(len) # "FREE"
  BY <1>1 DEF Sel!StateAfter, Sel!States, Sel!conn, Sel!InUse, SelectInv, Sel!TypeOK
<1> DEFINE new == [slots[selI] EXCEPT !.buf_len = len, !.state = Sel!StateAfter(len)]
<1>7. slots' = [slots EXCEPT ![selI] = new]
  BY <1>1, <1>2 DEF SelectInv, Sel!TypeOK
<1> HIDE DEF n, len
<1>8. /\ new \in [client_fd : SelectFds \cup {NoFd}, state : Sel!States, buf_len : 0 .. BUF_SIZE - 1]
      /\ new.client_fd = slots[selI].client_fd /\ new.state # "FREE"
  BY <1>1, <1>5, <1>6 DEF SelectInv, Sel!TypeOK
<1> HIDE DEF new, f
<1>9. Sel!TypeOK'
  <2> USE SelectSizes DEF SelectInv, Sel!TypeOK
  <2>1. slots' \in [Sel!Slots -> [client_fd : SelectFds \cup {NoFd}, state : Sel!States,
                                  buf_len : 0 .. BUF_SIZE - 1]]
    BY <1>1, <1>7, <1>8
  <2>2. waiting' \in [SelectFds -> 0 .. MaxSent]
    BY <1>1, <1>2, <1>5
  <2>3. selI' \in 0 .. SlotCount
    BY <1>1, <1>2
  <2> QED
    BY <1>2, <2>1, <2>2, <2>3
<1>10. \A k \in Sel!Slots : slots'[k].client_fd = slots[k].client_fd
  BY <1>1, <1>7, <1>8 DEF SelectInv, Sel!TypeOK
<1>11. Sel!InUse' = Sel!InUse
  BY <1>1, <1>7, <1>8 DEF SelectInv, Sel!TypeOK, Sel!InUse, Sel!Slots
<1>12. Sel!InUse \subseteq Sel!Slots /\ Sel!Slots' = Sel!Slots
  BY DEF Sel!InUse, Sel!Slots
<1>13. OneSlotPerFd'
  <2>1. OneSlotPerFd /\ selOpen' = selOpen
    BY <1>2 DEF SelectInv
  <2>2. \A k \in Sel!Slots' : slots'[k].client_fd \in selOpen' <=> k \in Sel!InUse'
    BY ONLY <1>10, <1>11, <1>12, <2>1 DEF OneSlotPerFd, Sel!OneSlotPerFd
  <2>3. \A g \in selOpen' : \E k \in Sel!InUse' : slots'[k].client_fd = g
    BY ONLY <1>10, <1>11, <1>12, <2>1 DEF OneSlotPerFd, Sel!OneSlotPerFd
  <2>4. \A k, m \in Sel!InUse' : slots'[k].client_fd = slots'[m].client_fd => k = m
    BY ONLY <1>10, <1>11, <1>12, <2>1 DEF OneSlotPerFd, Sel!OneSlotPerFd
  <2> QED
    BY ONLY <2>2, <2>3, <2>4 DEF OneSlotPerFd, Sel!OneSlotPerFd
<1>14. FreeAreEmpty'
  BY <1>10, <1>11, <1>12 DEF SelectInv, FreeAreEmpty
<1>15. (backlog <= clients)'
  BY <1>2 DEF SelectInv
<1> QED
  BY <1>9, <1>13, <1>14, <1>15 DEF SelectInv

LEMMA SelectStays == SelectInv /\ [Sel!Next]_selVars => SelectInv'
<1> SUFFICES ASSUME SelectInv, [Sel!Next]_selVars PROVE SelectInv'
  OBVIOUS
<1>0. Sel!TypeOK /\ backlog <= clients
  BY DEF SelectInv
<1>w. Sel!Watched \subseteq SelectFds \cup {listen_fd} /\ Sel!NewMaxFd \in SelectFds \cup {listen_fd}
  BY WatchedAreThere
<1> USE <1>0, SelectSizes DEF Sel!TypeOK, Sel!ToScan, Sel!NextSlot, Sel!peers, Sel!server, Sel!Slots
<1>1. CASE Sel!Select
  BY <1>1, <1>w, SlotsUntouched DEF Sel!Select
<1>2. CASE Sel!Interrupted
  BY <1>2, <1>w, SlotsUntouched DEF Sel!Interrupted
<1>3. CASE Sel!AcceptNothing
  BY <1>3, SlotsUntouched DEF Sel!AcceptNothing
<1>4. CASE Sel!RejectClient
  BY <1>4, SlotsUntouched DEF Sel!RejectClient, Sel!Accepts
<1>5. CASE Sel!AcceptClient
  BY <1>5, AcceptKeeps
<1>6. CASE Sel!PassOver
  BY <1>6, SlotsUntouched DEF Sel!PassOver
<1>7. CASE Sel!ScanDone
  BY <1>7, SlotsUntouched DEF Sel!ScanDone
<1>8. CASE Sel!ReadData
  BY <1>8, ReadKeeps
<1>9. CASE Sel!ReadNothing
  BY <1>9, SlotsUntouched DEF Sel!ReadNothing, Sel!Due
<1>10. CASE Sel!ReadEnd
  BY <1>10, EndKeeps DEF Sel!ReadEnd
<1>11. CASE Sel!ReadFails
  BY <1>11, EndKeeps DEF Sel!ReadFails
<1>12. CASE Sel!SelectFails
  BY <1>12, <1>w, SlotsUntouched DEF Sel!SelectFails
<1>13. CASE Sel!ClientConnects
  BY <1>13, SlotsUntouched DEF Sel!ClientConnects
<1>14. ASSUME NEW f \in SelectFds, Sel!ClientSends(f) PROVE SelectInv'
  BY <1>14, SlotsUntouched DEF Sel!ClientSends
<1>15. ASSUME NEW f \in SelectFds, Sel!ClientCloses(f) PROVE SelectInv'
  BY <1>15, SlotsUntouched DEF Sel!ClientCloses
<1>16. CASE UNCHANGED selVars
  BY <1>16, SlotsUntouched DEF selVars
<1> QED
  BY <1>1, <1>2, <1>3, <1>4, <1>5, <1>6, <1>7, <1>8, <1>9, <1>10, <1>11, <1>12, <1>13, <1>14,
     <1>15, <1>16
  DEF Sel!Next, Sel!ServerStep

(* A descriptor is closed when its client has hung up, or its buffer is    *)
(* full.                                                                   *)
CutOffWhenFull ==
    \A f \in selOpen \ (selOpen' \cup hungup) :
        \E k \in Sel!InUse : slots[k].client_fd = f /\ slots[k].buf_len = BUF_SIZE - 1

LEMMA LiveClientsStay == SelectInv /\ Sel!Next => CutOffWhenFull
<1> SUFFICES ASSUME SelectInv, Sel!Next PROVE CutOffWhenFull
  OBVIOUS
<1>1. CASE UNCHANGED selOpen
  BY <1>1 DEF CutOffWhenFull
<1>2. CASE Sel!AcceptClient
  BY <1>2 DEF CutOffWhenFull, Sel!AcceptClient
<1>3. CASE Sel!ReadFails
  BY <1>3 DEF CutOffWhenFull, Sel!ReadFails, Sel!CloseConnection
<1>4. CASE Sel!ReadEnd
  <2>1. /\ Sel!Due /\ selOpen' = selOpen \ {Sel!fd}
        /\ Sel!fd \notin hungup => Sel!Room = 0
    BY <1>4 DEF Sel!ReadEnd, Sel!CloseConnection
  <2>2. selI \in Sel!InUse /\ selI \in Sel!Slots /\ Sel!fd = slots[selI].client_fd
    BY <2>1, DueSlot
  <2>3. Sel!fd \notin hungup => slots[selI].buf_len = BUF_SIZE - 1
    <3>1. slots[selI].buf_len \in 0 .. BUF_SIZE - 1
      BY <2>2 DEF SelectInv, Sel!TypeOK
    <3> QED
      BY <2>1, <3>1, SelectSizes DEF Sel!Room, Sel!conn
  <2> QED
    BY <2>1, <2>2, <2>3 DEF CutOffWhenFull
<1> QED
  BY <1>1, <1>2, <1>3, <1>4
  DEF Sel!Next, Sel!ServerStep, Sel!Select, Sel!Interrupted, Sel!AcceptNothing, Sel!RejectClient,
      Sel!PassOver, Sel!ScanDone, Sel!ReadData, Sel!ReadNothing, Sel!SelectFails, Sel!ClientConnects,
      Sel!ClientSends, Sel!ClientCloses, Sel!server

-----------------------------------------------------------------------------
(* http_client_select.c *)

PagerInv == Pager!TypeOK /\ PagesAreFull

LEMMA PagerSizes ==
    /\ Size \in Nat \ {0} /\ BUFFER_SIZE \in Nat \ {0} /\ BUFFER_SIZE > 1
    /\ SCREEN_HEIGHT \in Nat \ {0} /\ MaxTyped \in Nat \ {0} /\ NewLines \subseteq 1 .. Size
  BY HttpPagerAssumption

(* The newlines are finitely many, so all sets of them can be counted.     *)
LEMMA LinesCount ==
  /\ IsFiniteSet(NewLines)
  /\ \A S \in SUBSET NewLines :
        /\ IsFiniteSet(S) /\ Cardinality(S) \in Nat /\ Cardinality(S) <= Cardinality(NewLines)
        /\ Pager!Cardinality(S) = Cardinality(S)
  /\ Pager!Cardinality(NewLines) = Cardinality(NewLines)
<1>1. IsFiniteSet(1 .. Size)
  BY PagerSizes, FS_Interval
<1>2. IsFiniteSet(NewLines)
  BY <1>1, PagerSizes, FS_Subset
<1>3. \A S : Pager!Cardinality(S) = Cardinality(S)
  BY DEF Cardinality, Pager!Cardinality
<1> QED
  BY <1>2, <1>3, FS_Subset, FS_CardinalityType

LEMMA PagerAtFirst == Pager!Init => PagerInv
<1> SUFFICES ASSUME Pager!Init PROVE PagerInv
  OBVIOUS
<1> USE PagerSizes, LinesCount DEF Pager!Init
<1>1. Cardinality({} \cap NewLines) = 0 /\ Pager!Cardinality({} \cap NewLines) = 0
  BY FS_EmptySet
<1>2. typed \in Seq(Pager!Keys) /\ Len(typed) = 0
  BY EmptySeq
<1>3. Pager!TypeOK
  <2>1. 0 \in 0 .. Pager!Cardinality(NewLines) /\ 0 \in 0 .. SCREEN_HEIGHT
    BY FS_CardinalityType
  <2>2. shown \subseteq 1 .. received /\ arrived \in 0 .. Size /\ received \in 0 .. arrived
    OBVIOUS
  <2>3. is_scrolling_paused \in BOOLEAN /\ socket_active \in BOOLEAN /\ ~is_scrolling_paused
    OBVIOUS
  <2>4. /\ server \in {"open", "closed", "reset"} /\ pagerPc \in {"loop", "ended", "failed"}
        /\ terminal = IF pagerPc = "loop" THEN "cbreak" ELSE "old"
    OBVIOUS
  <2>5. typed \in Seq(Pager!Keys) /\ Len(typed) <= MaxTyped
    BY <1>2
  <2>6. line_count \in 0 .. SCREEN_HEIGHT /\ pages \in 0 .. Pager!Cardinality(NewLines)
    BY <2>1
  <2> QED
    BY ONLY <2>2, <2>3, <2>4, <2>5, <2>6 DEF Pager!TypeOK
<1>4. PagesAreFull
  BY <1>1 DEF PagesAreFull, Pager!PagesAreFull
<1> QED
  BY <1>3, <1>4 DEF PagerInv

(* How many screens have been filled is bounded by the number of newlines. *)
LEMMA PagesBound ==
  ASSUME NEW p \in Nat, NEW h \in Nat \ {0}, NEW l \in Nat, NEW n \in Nat, p * h + l <= n
  PROVE  p \in 0 .. n
<1>1. p <= p * h
  OBVIOUS
<1> QED
  BY <1>1

LEMMA NextPage ==
  ASSUME NEW p \in Nat, NEW h \in Nat
  PROVE  p * h + h = (p + 1) * h + 0
  OBVIOUS

(* The key of this round: a space ends the page, and then the count begins *)
(* again.                                                                  *)
LEMMA KeyKeeps ==
  ASSUME PagerInv, Pager!ReadKey
  PROVE  /\ typed' \in Seq(Pager!Keys) /\ Len(typed') <= MaxTyped
         /\ pages' \in Nat /\ Pager!LinesNow \in 0 .. SCREEN_HEIGHT
         /\ Pager!Cardinality(shown \cap NewLines) = pages' * SCREEN_HEIGHT + Pager!LinesNow
         /\ Pager!PausedNow \in BOOLEAN
         /\ Pager!PausedNow <=> Pager!LinesNow = SCREEN_HEIGHT
         /\ Pager!PausedNow => is_scrolling_paused
<1> USE PagerSizes
<1>1. Pager!TypeOK /\ PagesAreFull
  BY DEF PagerInv
<1>2. typed' \in Seq(Pager!Keys) /\ Len(typed') <= MaxTyped
  <2>1. CASE Pager!KeyReady
    <3>1. typed \in Seq(Pager!Keys) /\ typed # <<>> /\ typed' = Tail(typed)
      BY <1>1, <2>1 DEF Pager!TypeOK, Pager!ReadKey, Pager!KeyReady
    <3>2. Tail(typed) \in Seq(Pager!Keys) /\ Len(Tail(typed)) = Len(typed) - 1 /\ Len(typed) \in Nat
      BY <3>1, HeadTailProperties, LenProperties
    <3> QED
      BY <1>1, <3>1, <3>2 DEF Pager!TypeOK
  <2>2. CASE ~Pager!KeyReady
    BY <1>1, <2>2 DEF Pager!TypeOK, Pager!ReadKey
  <2> QED
    BY <2>1, <2>2
<1>3. pages \in Nat /\ line_count \in 0 .. SCREEN_HEIGHT /\ is_scrolling_paused \in BOOLEAN
  BY <1>1, LinesCount DEF Pager!TypeOK
<1>4. /\ Pager!Cardinality(shown \cap NewLines) = pages * SCREEN_HEIGHT + line_count
      /\ is_scrolling_paused <=> line_count = SCREEN_HEIGHT
  BY <1>1 DEF PagesAreFull, Pager!PagesAreFull
<1>5. CASE Pager!EndsPause
  <2>1. line_count = SCREEN_HEIGHT /\ pages' = pages + 1 /\ Pager!LinesNow = 0 /\ Pager!PausedNow = FALSE
    BY <1>3, <1>4, <1>5 DEF Pager!ReadKey, Pager!EndsPause, Pager!KeyReady, Pager!LinesNow, Pager!PausedNow
  <2>2. pages * SCREEN_HEIGHT + SCREEN_HEIGHT = (pages + 1) * SCREEN_HEIGHT + 0
    BY <1>3, NextPage
  <2>3. Pager!Cardinality(shown \cap NewLines) = pages' * SCREEN_HEIGHT + Pager!LinesNow
    BY ONLY <1>4, <2>1, <2>2
  <2>4. Pager!PausedNow \in BOOLEAN /\ ~Pager!PausedNow
    BY ONLY <2>1
  <2>5. pages' \in Nat /\ Pager!LinesNow \in 0 .. SCREEN_HEIGHT /\ Pager!LinesNow # SCREEN_HEIGHT
    BY <1>3, <2>1
  <2> QED
    BY ONLY <1>2, <2>3, <2>4, <2>5
<1>6. CASE ~Pager!EndsPause
  <2>1. pages' = pages /\ Pager!LinesNow = line_count /\ (Pager!PausedNow <=> is_scrolling_paused)
    BY <1>6 DEF Pager!ReadKey, Pager!LinesNow, Pager!PausedNow
  <2>2. Pager!PausedNow \in BOOLEAN
    BY DEF Pager!PausedNow
  <2>3. Pager!PausedNow <=> Pager!LinesNow = SCREEN_HEIGHT
    BY <1>4, <2>1
  <2>4. /\ pages' \in Nat /\ Pager!LinesNow \in 0 .. SCREEN_HEIGHT
        /\ Pager!Cardinality(shown \cap NewLines) = pages' * SCREEN_HEIGHT + Pager!LinesNow
    BY <1>3, <1>4, <2>1
  <2>5. Pager!PausedNow => is_scrolling_paused
    BY <2>1
  <2> QED
    BY ONLY <1>2, <2>2, <2>3, <2>4, <2>5
<1> QED
  BY <1>5, <1>6

(* The invariant after a round follows from what it has printed.           *)
LEMMA RoundKeeps ==
  ASSUME PagerInv, Pager!ReadKey,
         NEW a \in Nat, received' = a, received <= a, a <= arrived,
         shown' \subseteq 1 .. a,
         line_count' \in 0 .. SCREEN_HEIGHT,
         Pager!Cardinality(shown' \cap NewLines) = pages' * SCREEN_HEIGHT + line_count',
         is_scrolling_paused' \in BOOLEAN, socket_active' \in BOOLEAN,
         is_scrolling_paused' <=> line_count' = SCREEN_HEIGHT,
         is_scrolling_paused' => socket_active',
         UNCHANGED <<arrived, server, terminal, pagerPc>>
  PROVE  PagerInv'
<1>1. typed' \in Seq(Pager!Keys) /\ Len(typed') <= MaxTyped /\ pages' \in Nat
  BY KeyKeeps
<1>2. shown' \cap NewLines \in SUBSET NewLines
  OBVIOUS
<1>3. pages' \in 0 .. Pager!Cardinality(NewLines)
  <2>1. pages' * SCREEN_HEIGHT + line_count' <= Cardinality(NewLines)
    BY <1>2, LinesCount
  <2>2. line_count' \in Nat /\ Cardinality(NewLines) \in Nat
    BY LinesCount, PagerSizes
  <2> QED
    BY <1>1, <2>1, <2>2, PagerSizes, PagesBound, LinesCount
<1>4. Pager!TypeOK'
  BY <1>1, <1>3 DEF PagerInv, Pager!TypeOK
<1>5. PagesAreFull'
  BY DEF PagesAreFull, Pager!PagesAreFull
<1> QED
  BY <1>4, <1>5 DEF PagerInv

(* The bytes of one recv have not been shown before: their newlines are    *)
(* counted on top of those on the screen and the pages before.             *)
LEMMA NewLinesAreNew ==
  ASSUME PagerInv, NEW last \in Int
  PROVE  /\ Pager!NewLinesIn(received + 1, last) \in SUBSET NewLines
         /\ Pager!Cardinality((shown \cup (received + 1 .. last)) \cap NewLines) =
                Pager!Cardinality(shown \cap NewLines)
                    + Pager!Cardinality(Pager!NewLinesIn(received + 1, last))
<1> DEFINE old == shown \cap NewLines
           new == Pager!NewLinesIn(received + 1, last)
<1>1. received \in Nat /\ shown \subseteq 1 .. received
  BY DEF PagerInv, Pager!TypeOK
<1>2. NewLines \subseteq Int
  BY PagerSizes
<1>3. new = (received + 1 .. last) \cap NewLines
  <2>1. ASSUME NEW k \in NewLines
        PROVE  k \in new <=> k \in received + 1 .. last
    <3>1. k \in Int
      BY <1>2
    <3> QED
      BY <1>1, <3>1 DEF Pager!NewLinesIn
  <2>2. new \subseteq NewLines
    BY DEF Pager!NewLinesIn
  <2> HIDE DEF new
  <2> QED
    BY <2>1, <2>2
<1>4. (shown \cup (received + 1 .. last)) \cap NewLines = old \cup new
  BY <1>3
<1>5. old \cap new = {}
  BY <1>1, <1>3
<1>6. old \in SUBSET NewLines /\ new \in SUBSET NewLines /\ old \cup new \in SUBSET NewLines
  BY <1>3
<1> HIDE DEF old, new
<1>7. IsFiniteSet(old) /\ IsFiniteSet(new)
  BY <1>6, LinesCount
<1>8. Cardinality(old \cup new) = Cardinality(old) + Cardinality(new) - Cardinality(old \cap new)
  BY <1>7, FS_Union
<1>9. Cardinality(old \cap new) = 0
  BY <1>5, FS_EmptySet
<1>10. Cardinality(old \cup new) = Cardinality(old) + Cardinality(new)
  BY <1>6, <1>8, <1>9, LinesCount
<1> QED
  BY <1>4, <1>6, <1>10, LinesCount DEF old, new

(* The newline that fills the screen is the first to do so: the screen is  *)
(* full then and no more than full.                                        *)
LEMMA FillsExactly ==
  ASSUME PagerInv, NEW first \in Int, NEW stop \in Int, first <= stop,
         Pager!LinesNow \in 0 .. SCREEN_HEIGHT - 1,
         Pager!ScreenFull(first, stop),
         \A k \in first .. stop - 1 : ~Pager!ScreenFull(first, k)
  PROVE  Pager!LinesNow + Pager!Cardinality(Pager!NewLinesIn(first, stop)) = SCREEN_HEIGHT
<1> DEFINE before == Pager!NewLinesIn(first, stop - 1)
           now_in == Pager!NewLinesIn(first, stop)
<1>1. before \in SUBSET NewLines /\ now_in \in SUBSET NewLines
  BY DEF Pager!NewLinesIn
<1>2. now_in \subseteq before \cup {stop}
  <2>1. ASSUME NEW k \in now_in PROVE k \in before \cup {stop}
    <3>1. k \in NewLines /\ k \in Int /\ first <= k /\ k <= stop
      BY PagerSizes DEF Pager!NewLinesIn
    <3>2. k = stop \/ k <= stop - 1
      BY <3>1
    <3> QED
      BY <3>1, <3>2 DEF Pager!NewLinesIn
  <2> QED
    BY <2>1
<1>3. IsFiniteSet(before \cup {stop}) /\ Cardinality(before \cup {stop}) <= Cardinality(before) + 1
  <2>1. IsFiniteSet(before) /\ Cardinality(before) \in Nat
    BY <1>1, LinesCount
  <2> HIDE DEF before
  <2> QED
    BY <2>1, FS_AddElement
<1>4. Cardinality(now_in) <= Cardinality(before \cup {stop})
  BY <1>2, <1>3, FS_Subset
<1>5. Cardinality(now_in) \in Nat /\ Cardinality(before) \in Nat /\ Cardinality(before \cup {stop}) \in Nat
  BY <1>1, <1>3, LinesCount, FS_CardinalityType
<1>6. Pager!Cardinality(now_in) = Cardinality(now_in) /\ Pager!Cardinality(before) = Cardinality(before)
  BY <1>1, LinesCount
<1>7. Pager!LinesNow + Cardinality(now_in) >= SCREEN_HEIGHT
  BY <1>6 DEF Pager!ScreenFull
<1>8. Pager!LinesNow + Cardinality(before) < SCREEN_HEIGHT
  <2>1. CASE first = stop
    <3>1. before = {}
      <4>1. ASSUME NEW k \in before PROVE FALSE
        <5>1. k \in Int /\ first <= k /\ k <= stop - 1
          BY PagerSizes DEF Pager!NewLinesIn
        <5> QED
          BY <2>1, <5>1
      <4> QED
        BY <4>1
    <3>2. Cardinality(before) = 0
      BY <3>1, FS_EmptySet
    <3> QED
      BY <3>2, PagerSizes
  <2>2. CASE first < stop
    <3>1. stop - 1 \in first .. stop - 1
      BY <2>2
    <3>2. ~(Pager!LinesNow + Cardinality(before) >= SCREEN_HEIGHT)
      BY <1>6, <3>1 DEF Pager!ScreenFull
    <3> QED
      BY <1>5, <3>2, PagerSizes
  <2> QED
    BY <2>1, <2>2
<1> HIDE DEF before, now_in
<1>9. Pager!LinesNow + Cardinality(now_in) = SCREEN_HEIGHT
  BY <1>3, <1>4, <1>5, <1>7, <1>8, PagerSizes
<1> QED
  BY <1>6, <1>9 DEF now_in

(* What the rest of the sum is when lines are printed on top.              *)
LEMMA LinesOnTop ==
  ASSUME NEW s \in Int, NEW l \in Int, NEW m \in Int, NEW b \in Int, s = b + l
  PROVE  s + m = b + (l + m)
  OBVIOUS

LEMMA PrintKeeps ==
  ASSUME PagerInv, Pager!Reads, NEW n \in Nat \ {0},
         received + n <= arrived, received' = received + n,
         \/ Pager!PrintUntilFull(received + 1, received + n)
         \/ Pager!PrintAll(received + 1, received + n),
         UNCHANGED <<arrived, server, socket_active, terminal, pagerPc>>
  PROVE  PagerInv'
<1> DEFINE first == received + 1
           last == received + n
<1>1. /\ received \in Nat /\ arrived \in Nat /\ shown \subseteq 1 .. received
      /\ socket_active \in BOOLEAN
  BY PagerSizes DEF PagerInv, Pager!TypeOK
<1>2. Pager!ReadKey /\ ~Pager!PausedNow /\ socket_active
  BY DEF Pager!Reads, Pager!SockReady
<1>3. /\ Pager!LinesNow \in 0 .. SCREEN_HEIGHT - 1 /\ pages' \in Nat
      /\ Pager!Cardinality(shown \cap NewLines) = pages' * SCREEN_HEIGHT + Pager!LinesNow
  BY <1>2, KeyKeeps, PagerSizes
<1>4. ASSUME NEW stop \in first .. last,
             shown' = shown \cup (first .. stop),
             line_count' = Pager!LinesNow + Pager!Cardinality(Pager!NewLinesIn(first, stop))
      PROVE  /\ shown' \subseteq 1 .. last /\ line_count' \in Nat
             /\ Pager!Cardinality(shown' \cap NewLines) = pages' * SCREEN_HEIGHT + line_count'
  <2>1. stop \in Int
    BY <1>1
  <2>2. /\ Pager!NewLinesIn(first, stop) \in SUBSET NewLines
        /\ Pager!Cardinality(shown' \cap NewLines) =
              Pager!Cardinality(shown \cap NewLines) + Pager!Cardinality(Pager!NewLinesIn(first, stop))
    BY <1>4, <2>1, NewLinesAreNew
  <2>3. /\ Pager!Cardinality(Pager!NewLinesIn(first, stop)) \in Nat
        /\ Pager!Cardinality(shown \cap NewLines) \in Nat
    BY <2>2, LinesCount
  <2>4. shown' \subseteq 1 .. last
    BY <1>1, <1>4
  <2>5. pages' * SCREEN_HEIGHT \in Int
    BY <1>3, PagerSizes
  <2>6. line_count' \in Nat
    BY <1>3, <1>4, <2>3, PagerSizes
  <2> QED
    BY <1>3, <1>4, <2>2, <2>3, <2>4, <2>5, <2>6, LinesOnTop, PagerSizes
<1>5. CASE Pager!PrintUntilFull(first, last)
  <2>1. is_scrolling_paused' = TRUE
    BY <1>5 DEF Pager!PrintUntilFull
  <2>2. PICK stop \in first .. last :
          /\ Pager!ScreenFull(first, stop)
          /\ \A k \in first .. stop - 1 : ~Pager!ScreenFull(first, k)
          /\ shown' = shown \cup (first .. stop)
          /\ line_count' = Pager!LinesNow + Pager!Cardinality(Pager!NewLinesIn(first, stop))
    BY <1>5 DEF Pager!PrintUntilFull, Pager!PrintUpTo
  <2>3. first \in Int /\ stop \in Int /\ first <= stop
    BY <1>1
  <2>4. line_count' = SCREEN_HEIGHT
    BY <1>3, <2>2, <2>3, FillsExactly
  <2>5. /\ shown' \subseteq 1 .. last
        /\ Pager!Cardinality(shown' \cap NewLines) = pages' * SCREEN_HEIGHT + line_count'
    BY <1>4, <2>2
  <2>6. last \in Nat /\ received' = last /\ received <= last /\ last <= arrived
    BY <1>1
  <2>7. line_count' \in 0 .. SCREEN_HEIGHT
    BY <2>4, PagerSizes
  <2>8. /\ is_scrolling_paused' \in BOOLEAN /\ socket_active' \in BOOLEAN
        /\ is_scrolling_paused' <=> line_count' = SCREEN_HEIGHT
        /\ is_scrolling_paused' => socket_active'
    BY <1>1, <1>2, <2>1, <2>4
  <2> HIDE DEF last
  <2> QED
    BY <1>2, <2>5, <2>6, <2>7, <2>8, RoundKeeps
<1>6. CASE Pager!PrintAll(first, last)
  <2>1. /\ shown' = shown \cup (first .. last)
        /\ line_count' = Pager!LinesNow + Pager!Cardinality(Pager!NewLinesIn(first, last))
        /\ is_scrolling_paused' = Pager!PausedNow
        /\ ~(line_count' >= SCREEN_HEIGHT)
    BY <1>6 DEF Pager!PrintAll, Pager!PrintUpTo, Pager!ScreenFull
  <2>2. last \in first .. last
    BY <1>1
  <2>3. /\ shown' \subseteq 1 .. last /\ line_count' \in Nat
        /\ Pager!Cardinality(shown' \cap NewLines) = pages' * SCREEN_HEIGHT + line_count'
    BY <1>4, <2>1, <2>2
  <2>4. last \in Nat /\ received' = last /\ received <= last /\ last <= arrived
    BY <1>1
  <2>5. line_count' \in 0 .. SCREEN_HEIGHT /\ line_count' # SCREEN_HEIGHT
    BY <2>1, <2>3, PagerSizes
  <2>6. is_scrolling_paused' \in BOOLEAN
    BY <1>2, <2>1, KeyKeeps
  <2>7. /\ socket_active' \in BOOLEAN
        /\ is_scrolling_paused' <=> line_count' = SCREEN_HEIGHT
        /\ is_scrolling_paused' => socket_active'
    BY <1>1, <1>2, <2>1, <2>5
  <2> HIDE DEF last
  <2> QED
    BY <1>2, <2>3, <2>4, <2>5, <2>6, <2>7, RoundKeeps
<1> QED
  BY <1>5, <1>6

(* The steps in which nothing is printed.                                  *)
LEMMA NothingPrinted ==
  ASSUME PagerInv, Pager!ReadKey,
         is_scrolling_paused' = Pager!PausedNow, line_count' = Pager!LinesNow,
         socket_active' \in BOOLEAN, Pager!PausedNow => socket_active',
         UNCHANGED <<arrived, server, received, shown, terminal, pagerPc>>
  PROVE  PagerInv'
<1>1. received \in Nat /\ arrived \in Nat /\ received <= arrived /\ shown \subseteq 1 .. received
  BY PagerSizes DEF PagerInv, Pager!TypeOK
<1>2. /\ Pager!LinesNow \in 0 .. SCREEN_HEIGHT /\ Pager!PausedNow \in BOOLEAN
      /\ Pager!Cardinality(shown \cap NewLines) = pages' * SCREEN_HEIGHT + Pager!LinesNow
      /\ Pager!PausedNow <=> Pager!LinesNow = SCREEN_HEIGHT
  BY KeyKeeps
<1>3. /\ shown' \subseteq 1 .. received /\ line_count' \in 0 .. SCREEN_HEIGHT
      /\ is_scrolling_paused' \in BOOLEAN
      /\ Pager!Cardinality(shown' \cap NewLines) = pages' * SCREEN_HEIGHT + line_count'
  BY <1>1, <1>2
<1>4. /\ is_scrolling_paused' <=> line_count' = SCREEN_HEIGHT
      /\ is_scrolling_paused' => socket_active'
  BY <1>2
<1>5. PICK a \in Nat : a = received
  BY <1>1
<1>6. received' = a /\ received <= a /\ a <= arrived /\ shown' \subseteq 1 .. a
  BY <1>1, <1>3, <1>5
<1> QED
  BY <1>3, <1>4, <1>6, RoundKeeps

LEMMA PagerStays == PagerInv /\ [Pager!Next]_pagerVars => PagerInv'
<1> SUFFICES ASSUME PagerInv, [Pager!Next]_pagerVars PROVE PagerInv'
  OBVIOUS
<1> USE PagerSizes
<1>1. CASE Pager!SendByte
  BY <1>1 DEF Pager!SendByte, PagerInv, Pager!TypeOK, PagesAreFull, Pager!PagesAreFull
<1>2. CASE Pager!CloseOrReset
  BY <1>2 DEF Pager!CloseOrReset, PagerInv, Pager!TypeOK, PagesAreFull, Pager!PagesAreFull
<1>3. ASSUME NEW key \in Pager!Keys, Pager!Type(key) PROVE PagerInv'
  <2>1. typed \in Seq(Pager!Keys) /\ Len(typed) < MaxTyped /\ typed' = Append(typed, key)
    BY <1>3 DEF Pager!Type, PagerInv, Pager!TypeOK
  <2>2. typed' \in Seq(Pager!Keys) /\ Len(typed') = Len(typed) + 1 /\ Len(typed) \in Nat
    BY <2>1, AppendProperties, LenProperties
  <2>3. typed' \in Seq(Pager!Keys) /\ Len(typed') <= MaxTyped
    BY <2>1, <2>2
  <2> QED
    BY <1>3, <2>3 DEF Pager!Type, PagerInv, Pager!TypeOK, PagesAreFull, Pager!PagesAreFull
<1>4. CASE Pager!KeyOnly
  <2>1. socket_active \in BOOLEAN /\ (is_scrolling_paused => socket_active)
    BY DEF PagerInv, Pager!TypeOK
  <2>2. Pager!PausedNow => is_scrolling_paused
    BY DEF Pager!PausedNow
  <2> QED
    BY <1>4, <2>1, <2>2, NothingPrinted DEF Pager!KeyOnly
<1>5. CASE Pager!ReceiveData
  <2>1. PICK n \in 1 .. BUFFER_SIZE - 1 :
          /\ received + n <= arrived /\ received' = received + n
          /\ \/ Pager!PrintUntilFull(received + 1, received + n)
             \/ Pager!PrintAll(received + 1, received + n)
    BY <1>5 DEF Pager!ReceiveData
  <2>2. n \in Nat \ {0}
    BY <2>1
  <2>3. Pager!Reads /\ UNCHANGED <<arrived, server, socket_active, terminal, pagerPc>>
    BY <1>5 DEF Pager!ReceiveData
  <2> QED
    BY <2>1, <2>2, <2>3, PrintKeeps
<1>6. CASE Pager!ReceiveEnd
  <2>1. Pager!ReadKey /\ ~Pager!PausedNow
    BY <1>6 DEF Pager!ReceiveEnd, Pager!Reads
  <2>2. socket_active' \in BOOLEAN
    BY <1>6 DEF Pager!ReceiveEnd
  <2> QED
    BY <1>6, <2>1, <2>2, NothingPrinted DEF Pager!ReceiveEnd
<1>7. CASE Pager!Finish
  BY <1>7 DEF Pager!Finish, PagerInv, Pager!TypeOK, PagesAreFull, Pager!PagesAreFull
<1>8. CASE Pager!SelectFails
  BY <1>8 DEF Pager!SelectFails, PagerInv, Pager!TypeOK, PagesAreFull, Pager!PagesAreFull
<1>9. CASE UNCHANGED pagerVars
  BY <1>9 DEF pagerVars, PagerInv, Pager!TypeOK, PagesAreFull, Pager!PagesAreFull
<1> QED
  BY <1>1, <1>2, <1>3, <1>4, <1>5, <1>6, <1>7, <1>8, <1>9 DEF Pager!Next, Pager!Round

-----------------------------------------------------------------------------
(* The programs side by side *)

LEMMA EachLoopSteps ==
    [MCNext]_all => [Next]_vars /\ [Sel!Next]_selVars /\ [Pager!Next]_pagerVars
<1>1. CASE UNCHANGED all
  BY <1>1 DEF all
<1>2. CASE InProxy(Next)
  BY <1>2 DEF InProxy
<1>3. CASE InSelect(Sel!Next)
  BY <1>3 DEF InSelect
<1>4. CASE InPager(Pager!Next)
  BY <1>4 DEF InPager
<1> QED
  BY <1>1, <1>2, <1>3, <1>4 DEF MCNext

LoopsInv == ProxyInv /\ SelectInv /\ PagerInv

(* What every program keeps to is kept to by the program that was chosen.  *)
THEOREM LoopsInductive == MCSpec => []LoopsInv
<1>1. MCInit => LoopsInv
  BY ProxyAtFirst, SelectAtFirst, PagerAtFirst DEF MCInit, LoopsInv
<1>2. LoopsInv /\ [MCNext]_all => LoopsInv'
  BY EachLoopSteps, ProxyStays, SelectStays, PagerStays DEF LoopsInv
<1> QED
  BY <1>1, <1>2, PTL DEF MCSpec

(* ProxyServer!InStep: after any number of pairs added, closed and moved,  *)
(* fds and connections of proxy_server.c belong together index by index.   *)
THEOREM ArraysInStep == MCSpec => []InStep
<1>1. LoopsInv => InStep
  BY DEF LoopsInv, ProxyInv
<1> QED
  BY LoopsInductive, <1>1, PTL

(* ProxyServer!EveryOpenFdIsPolled: no descriptor of proxy_server.c is     *)
(* open and forgotten.                                                     *)
THEOREM NoFdIsForgotten == MCSpec => []EveryOpenFdIsPolled
<1>1. LoopsInv => EveryOpenFdIsPolled
  BY DEF LoopsInv, ProxyInv
<1> QED
  BY LoopsInductive, <1>1, PTL

(* SelectProxy!OneSlotPerFd: slots and descriptors of proxy.c match one to *)
(* one, and there is a descriptor for every slot that is free.             *)
THEOREM SlotsMatchFds == MCSpec => []OneSlotPerFd
<1>1. LoopsInv => OneSlotPerFd
  BY DEF LoopsInv, SelectInv
<1> QED
  BY LoopsInductive, <1>1, PTL

(* SelectProxy!LiveAreKept: proxy.c cuts off no client that has not hung   *)
(* up and whose buffer is not full.                                        *)
THEOREM LiveClientsAreKept == MCSpec => Sel!LiveAreKept
<1>1. LoopsInv /\ [MCNext]_all => [CutOffWhenFull]_selVars
  BY EachLoopSteps, LiveClientsStay DEF LoopsInv
<1>2. MCSpec => [][CutOffWhenFull]_selVars
  BY <1>1, LoopsInductive, PTL DEF MCSpec
<1> QED
  BY <1>2 DEF Sel!LiveAreKept, CutOffWhenFull, selVars, Sel!vars

(* HttpPager!PagesAreFull: http_client_select.c pauses exactly when a page *)
(* is full, however the bytes are split among the calls of recv.           *)
THEOREM PagesCountExactly == MCSpec => []PagesAreFull
<1>1. LoopsInv => PagesAreFull
  BY DEF LoopsInv, PagerInv
<1> QED
  BY LoopsInductive, <1>1, PTL

(* InBounds: every index stays inside its array and every length inside    *)
(* its buffer, for every size of them.                                     *)
THEOREM IndexesInBounds == MCSpec => []InBounds
<1>1. LoopsInv => InBounds
  BY DEF LoopsInv, ProxyInv, ProxyTypes, SelectInv, PagerInv, InBounds
<1> QED
  BY LoopsInductive, <1>1, PTL
=============================================================================
