-------------------------- MODULE ListQueuesProofs --------------------------
(***************************************************************************)
(* Proofs about the three programs with a hand-written list: the list is   *)
(* what its readers take it for (IsList), the count beside it is its       *)
(* length, work comes out of it in the order it went in, and every         *)
(* descriptor of proxy2.c has one owner, for any number of threads, tasks, *)
(* requests and descriptors.                                               *)
(***************************************************************************)
EXTENDS MCListQueues, WellFoundedInduction, FiniteSetTheorems, SequenceTheorems, TLAPS

(* The sequence c is the list from `first` to `last` along `next`. *)
IsList(c, head, tail, link) ==
    /\ c \in Seq(DOMAIN link)
    /\ \A a, b \in 1 .. Len(c) : c[a] = c[b] => a = b
    /\ head = IF c = << >> THEN Null ELSE c[1]
    /\ tail = IF c = << >> THEN Null ELSE c[Len(c)]
    /\ \A k \in 1 .. Len(c) : link[c[k]] = IF k < Len(c) THEN c[k + 1] ELSE Null

(* W is the walk along the list, as the definition of Walk has it. *)
Steps(head, link, W) ==
    W = [k \in 0 .. Cardinality(DOMAIN link) |->
            IF k = 0 THEN head
            ELSE IF W[k - 1] = Null THEN Null ELSE link[W[k - 1]]]

-----------------------------------------------------------------------------
(* pr12task1.c.  The ids are drawn in order, so the tasks taken and the    *)
(* tasks in the list are 0, 1, 2, ... up to the counter; ids not yet drawn *)
(* end the list wherever they come to stand.                               *)
Offered == {pk \in Producers \X (0 .. Rounds - 1) : pk[2] < round[pk[1]]}

TaskInv ==
    LET line == Task!Queued
    IN  /\ Task!TypeOK
        /\ IsList(line, first, last, next)
        /\ count = Len(line)
        /\ \A k \in 1 .. Len(started) : started[k] = k - 1
        /\ \A k \in 1 .. Len(line) : line[k] = Len(started) + k - 1
        /\ task_id_counter = Len(started) + Len(line)
        /\ task_id_counter <= Cardinality(Offered)
        /\ \A t \in Task!Ids : t >= task_id_counter => next[t] = Null
        /\ \A w \in Workers :
              hand[w] # Null => pc[w] = "process" /\ hand[w] < Len(started)

(* pr12task2.c.  `added` requests have gone into the list. *)
added == IF main = "signal" THEN i + 1 ELSE i

ReqInv ==
    LET line == Req!Queued
    IN  /\ Req!TypeOK
        /\ IsList(line, first, last, next)
        /\ count = Len(line)
        /\ main = "signal" => i < Total
        /\ \A k \in 1 .. Len(line) : line[k] < added
        /\ \A r \in Req!Requests : r >= added => next[r] = Null
        /\ \A w \in Workers :
              /\ hand[w] # Null => hand[w] < added
              /\ cond_mutex = w <=> pc[w] \in {"get_again", "sleep", "unlock"}
        /\ Req!NoMissedSignal

(* proxy2.c. *)
PoolTypes ==
    /\ next \in [Fds -> Fds \cup {Null}]
    /\ pc \in [Workers -> {"lock", "test", "sleep", "waiting", "check", "handle",
                           "close", "exited"}]
    /\ hand \in [Workers -> Fds \cup {Null}]
    /\ main \in {"select", "add", "shutdown", "broadcast", "join", "destroyed"}
    /\ client_fd \in Fds \cup {Null}
    /\ open \subseteq Fds

(* With `line` in the list, `held` in the workers' hands and `fd` with     *)
(* main, nobody shares a descriptor, and those are the open ones.          *)
Owners(line, held, fd, opened) ==
    /\ \A w \in Workers : held[w] # Null =>
          /\ held[w] \in opened /\ held[w] # fd
          /\ \A k \in 1 .. Len(line) : line[k] # held[w]
          /\ \A v \in Workers : held[v] = held[w] => v = w
    /\ \A k \in 1 .. Len(line) : line[k] \in opened /\ line[k] # fd
    /\ fd # Null => fd \in opened
    /\ \A f \in opened : \/ f = fd
                         \/ \E w \in Workers : held[w] = f
                         \/ \E k \in 1 .. Len(line) : line[k] = f

(* Where the threads are tells who has the mutex and a descriptor in hand. *)
PoolPlaces ==
    /\ client_fd # Null <=> main = "add"
    /\ \A w \in Workers :
          /\ hand[w] # Null => pc[w] \in {"handle", "close"}
          /\ queue_mutex = w <=> pc[w] \in {"test", "sleep", "check"}
          /\ pc[w] = "check" /\ ~shutdown => first # Null

PoolInv ==
    /\ PoolTypes
    /\ IsList(Pool!Queued, first, last, next)
    /\ Owners(Pool!Queued, hand, client_fd, open)
    /\ PoolPlaces

LInv ==
    /\ IsTask => TaskInv
    /\ IsReq => ReqInv
    /\ IsPool => PoolInv
    /\ program \in {"pr12task1", "pr12task2", "proxy2"}
-----------------------------------------------------------------------------
(* Lists *)

LEMMA LeastOf == ASSUME NEW T, T \subseteq Nat, T # {} PROVE \E x \in T : \A y \in T : x <= y
<1> DEFINE R == {ss \in Nat \X Nat : ss[1] < ss[2]}
<1>1. IsWellFoundedOn(R, Nat)
      BY NatLessThanWellFounded DEF OpToRel
<1>2. PICK x \in T : \A y \in T : ~(<<y, x>> \in R)
      BY <1>1, WFMin
<1>3. ASSUME NEW y \in T PROVE x <= y
  <2>1. x \in Nat /\ y \in Nat
        BY <1>3
  <2>2. <<y, x>> \in Nat \X Nat /\ ~(<<y, x>>[1] < <<y, x>>[2])
        BY <1>2, <2>1
  <2> QED BY <2>1, <2>2
<1> QED BY <1>3

LEMMA WalkSteps ==
  ASSUME NEW head, NEW link, NEW F, Steps(head, link, F)
  PROVE  Steps(head, link, Walk(head, link))
BY DEF Walk, Steps

(* A list without repetition is no longer than there are nodes. *)
LEMMA NotLonger ==
    ASSUME NEW S, IsFiniteSet(S), NEW c \in Seq(S), \A a, b \in 1 .. Len(c) : c[a] = c[b] => a = b
    PROVE  Len(c) <= Cardinality(S) /\ Cardinality(S) \in Nat
<1>1. Len(c) \in Nat /\ c \in [1 .. Len(c) -> S]
      BY LenProperties
<1>2. c \in Injection(1 .. Len(c), S)
      BY <1>1 DEF Injection, IsInjective
<1>3. Cardinality(1 .. Len(c)) = Len(c)
      BY <1>1, FS_Interval
<1>4. Cardinality(1 .. Len(c)) <= Cardinality(S)
      BY <1>2, FS_Injection
<1> QED BY <1>3, <1>4, FS_CardinalityType

LEMMA WalkOf ==
    ASSUME NEW head, NEW tail, NEW link, NEW c, IsFiniteSet(DOMAIN link), Null \notin DOMAIN link,
           IsList(c, head, tail, link)
    PROVE  Walk(head, link) = [k \in 0 .. Cardinality(DOMAIN link) |-> IF k < Len(c) THEN c[k + 1] ELSE Null]
<1> DEFINE N == Cardinality(DOMAIN link)
           F == [k \in 0 .. N |-> IF k < Len(c) THEN c[k + 1] ELSE Null]
           W == Walk(head, link)
<1>1. Len(c) \in Nat /\ N \in Nat /\ Len(c) <= N
      BY NotLonger, LenProperties DEF IsList
<1>2. \A k \in 1 .. Len(c) : c[k] \in DOMAIN link /\ c[k] # Null
      BY LenProperties DEF IsList
<1>3. ASSUME NEW k \in 0 .. N
      PROVE  F[k] = IF k = 0 THEN head ELSE IF F[k - 1] = Null THEN Null ELSE link[F[k - 1]]
  <2>1. CASE k = 0
        BY <1>1, <2>1 DEF IsList
  <2>2. CASE k # 0 /\ k - 1 < Len(c)
    <3>1. k - 1 \in 0 .. N /\ F[k - 1] = c[k] /\ c[k] # Null
          BY <1>1, <1>2, <2>2
    <3>2. link[c[k]] = IF k < Len(c) THEN c[k + 1] ELSE Null
          BY <1>1, <2>2 DEF IsList
    <3> QED BY <2>2, <3>1, <3>2
  <2>3. CASE k # 0 /\ ~(k - 1 < Len(c))
        BY <1>1, <2>3
  <2> QED BY <2>1, <2>2, <2>3
<1>4. Steps(head, link, F)
      BY <1>3 DEF Steps
<1>5. Steps(head, link, W)
      BY <1>4, WalkSteps
<1>6. W = [k \in 0 .. N |-> W[k]] /\ \A k \in 0 .. N :
           W[k] = IF k = 0 THEN head ELSE IF W[k - 1] = Null THEN Null ELSE link[W[k - 1]]
      BY <1>5 DEF Steps
<1> HIDE DEF F, W
<1>7. \A k \in 0 .. N : W[k] = F[k]
  <2> DEFINE T == {k \in 0 .. N : W[k] # F[k]}
  <2> SUFFICES ASSUME T # {} PROVE FALSE
      OBVIOUS
  <2>0. T \subseteq Nat
        OBVIOUS
  <2> HIDE DEF T
  <2>1. PICK x \in T : \A y \in T : x <= y
        BY <2>0, LeastOf
  <2> USE DEF T
  <2>2. x # 0
        BY <1>1, <1>3, <1>6, <2>1
  <2>3. x - 1 \in 0 .. N /\ W[x - 1] = F[x - 1]
        BY <1>1, <2>1, <2>2
  <2> QED BY <1>3, <1>6, <2>1, <2>2, <2>3
<1>8. W = [k \in 0 .. N |-> F[k]]
      BY <1>6, <1>7
<1> QED BY <1>8 DEF F, W

LEMMA ChainOf ==
    ASSUME NEW head, NEW tail, NEW link, NEW c, IsFiniteSet(DOMAIN link), Null \notin DOMAIN link,
           IsList(c, head, tail, link)
    PROVE  Chain(head, link) = c
<1> DEFINE N == Cardinality(DOMAIN link)
           at == [k \in 0 .. N |-> IF k < Len(c) THEN c[k + 1] ELSE Null]
<1>1. Len(c) \in Nat /\ N \in Nat /\ Len(c) <= N /\ c = [k \in 1 .. Len(c) |-> c[k]]
      BY NotLonger, LenProperties DEF IsList
<1>2. \A k \in 1 .. Len(c) : c[k] \in DOMAIN link /\ c[k] # Null
      BY LenProperties DEF IsList
<1>3. {j \in DOMAIN at : at[j] # Null} = 0 .. Len(c) - 1
      BY <1>1, <1>2
<1>4. Cardinality(0 .. Len(c) - 1) = Len(c)
  <2>1. 0 \in Int /\ Len(c) - 1 \in Int /\ (0 > Len(c) - 1 => Len(c) = 0) /\ Len(c) - 1 - 0 + 1 = Len(c)
        BY <1>1
  <2> HIDE DEF N
  <2>2. Cardinality(0 .. Len(c) - 1) = IF 0 > Len(c) - 1 THEN 0 ELSE Len(c) - 1 - 0 + 1
        BY ONLY <2>1, FS_Interval
  <2> QED BY <2>1, <2>2
<1>5. \A k \in 1 .. Len(c) : at[k - 1] = c[k]
      BY <1>1
<1>6. Chain(head, link) = [k \in 1 .. Cardinality({j \in DOMAIN at : at[j] # Null}) |-> at[k - 1]]
  <2>1. Walk(head, link) = at
        BY WalkOf
  <2> HIDE DEF at
  <2> QED BY <2>1 DEF Chain
<1> HIDE DEF at
<1>7. Chain(head, link) = [k \in 1 .. Len(c) |-> at[k - 1]]
      BY <1>3, <1>4, <1>6
<1> QED BY <1>1, <1>5, <1>7

(* A null pointer at either end is the empty list. *)
LEMMA Ends ==
    ASSUME NEW head, NEW tail, NEW link, NEW c, Null \notin DOMAIN link,
           IsList(c, head, tail, link)
    PROVE  /\ Len(c) \in Nat
           /\ head = Null <=> Len(c) = 0
           /\ tail = Null <=> Len(c) = 0
           /\ c = << >> <=> Len(c) = 0
           /\ \A k \in 1 .. Len(c) : c[k] \in DOMAIN link /\ c[k] # Null
           /\ Len(c) > 0 => /\ head = c[1] /\ head \in DOMAIN link
                            /\ tail = c[Len(c)] /\ tail \in DOMAIN link
<1>1. Len(c) \in Nat /\ c \in Seq(DOMAIN link) /\ (c = << >> <=> Len(c) = 0)
      BY EmptySeq, LenProperties DEF IsList
<1>2. \A k \in 1 .. Len(c) : c[k] \in DOMAIN link /\ c[k] # Null
      BY <1>1, LenProperties
<1>3. CASE Len(c) = 0
      BY <1>1, <1>3 DEF IsList
<1>4. CASE Len(c) > 0
      BY <1>1, <1>2, <1>4 DEF IsList
<1> QED BY <1>1, <1>2, <1>3, <1>4

(* Appending the node x, whose own pointer is null. *)
LEMMA Pushed ==
    ASSUME NEW head, NEW tail, NEW link, NEW c, Null \notin DOMAIN link,
           IsList(c, head, tail, link),
           NEW x \in DOMAIN link, \A k \in 1 .. Len(c) : c[k] # x,
           NEW link2, DOMAIN link2 = DOMAIN link, link2[x] = Null,
           \A n \in DOMAIN link \ {x} : link2[n] = IF n = tail THEN x ELSE link[n]
    PROVE  IsList(Append(c, x), IF Len(c) = 0 THEN x ELSE head, x, link2)
<1> DEFINE d == Append(c, x)
<1>1. /\ Len(c) \in Nat /\ c \in Seq(DOMAIN link)
      /\ \A k \in 1 .. Len(c) : c[k] \in DOMAIN link /\ c[k] # Null
      /\ Len(c) > 0 => head = c[1]
      BY Ends DEF IsList
<1>2. /\ d \in Seq(DOMAIN link) /\ Len(d) = Len(c) + 1 /\ d[Len(c) + 1] = x
      /\ \A k \in 1 .. Len(c) : d[k] = c[k]
      BY <1>1, AppendProperties
<1> HIDE DEF d
<1>3. \A a, b \in 1 .. Len(d) : d[a] = d[b] => a = b
  <2> TAKE a, b \in 1 .. Len(d)
  <2>1. \A k \in 1 .. Len(d) : k \in 1 .. Len(c) \/ k = Len(c) + 1
        BY <1>1, <1>2
  <2>2. \A k, l \in 1 .. Len(c) : c[k] = c[l] => k = l
        BY DEF IsList
  <2>3. CASE a \in 1 .. Len(c) /\ b \in 1 .. Len(c)
        BY <1>2, <2>2, <2>3
  <2>4. CASE a \in 1 .. Len(c) /\ b = Len(c) + 1
        BY <1>2, <2>4
  <2>5. CASE b \in 1 .. Len(c) /\ a = Len(c) + 1
        BY <1>2, <2>5
  <2> QED BY <2>1, <2>3, <2>4, <2>5
<1>4. d # << >> /\ d[1] = (IF Len(c) = 0 THEN x ELSE head) /\ d[Len(d)] = x
  <2>1. Len(d) # 0 /\ d[Len(d)] = x
        BY <1>1, <1>2
  <2>2. Len(c) = 0 => d[1] = x
        BY <1>2
  <2>3. Len(c) # 0 => d[1] = head
        BY <1>1, <1>2
  <2>4. d # << >>
        BY <1>2, <2>1, EmptySeq
  <2> QED BY <2>1, <2>2, <2>3, <2>4
<1>5. \A k \in 1 .. Len(d) : link2[d[k]] = IF k < Len(d) THEN d[k + 1] ELSE Null
  <2> TAKE k \in 1 .. Len(d)
  <2>1. CASE k = Len(c) + 1
        BY <1>1, <1>2, <2>1
  <2>2. CASE k = Len(c) /\ k # 0
    <3>1. c[k] = tail /\ c[k] # x /\ d[k] = c[k] /\ c[k] \in DOMAIN link
          BY <1>1, <1>2, <2>2 DEF IsList
    <3> QED BY <1>1, <1>2, <2>2, <3>1
  <2>3. CASE k < Len(c)
    <3>1. /\ c[k] # x /\ d[k] = c[k] /\ c[k] \in DOMAIN link
          /\ link[c[k]] = c[k + 1] /\ d[k + 1] = c[k + 1]
          /\ tail = c[Len(c)]
          BY <1>1, <1>2, <2>3 DEF IsList
    <3>2. c[k] # tail
          BY <1>1, <2>3, <3>1 DEF IsList
    <3> QED BY <1>1, <1>2, <2>3, <3>1, <3>2
  <2> QED BY <1>1, <1>2, <2>1, <2>2, <2>3
<1>6. IsList(d, IF Len(c) = 0 THEN x ELSE head, x, link2)
      BY <1>2, <1>3, <1>4, <1>5 DEF IsList
<1> QED BY <1>6 DEF d

(* Taking the first node off. *)
LEMMA Popped ==
    ASSUME NEW head, NEW tail, NEW link, NEW c, Null \notin DOMAIN link,
           IsList(c, head, tail, link), Len(c) > 0
    PROVE  /\ IsList(Tail(c), link[head], IF link[head] = Null THEN Null ELSE tail, link)
           /\ Len(Tail(c)) = Len(c) - 1
           /\ \A k \in 1 .. Len(c) - 1 : Tail(c)[k] = c[k + 1]
           /\ head = c[1] /\ Head(c) = c[1] /\ c # << >>
<1> DEFINE d == Tail(c)
<1>0. Len(c) \in Nat /\ Len(c) > 0
      BY Ends
<1>1. /\ Len(c) \in Nat /\ c \in Seq(DOMAIN link) /\ c # << >>
      /\ \A k \in 1 .. Len(c) : c[k] \in DOMAIN link /\ c[k] # Null
      /\ head = c[1] /\ tail = c[Len(c)] /\ Head(c) = c[1]
      BY Ends DEF IsList
<1>2. /\ d \in Seq(DOMAIN link) /\ Len(d) = Len(c) - 1
      /\ \A k \in 1 .. Len(c) - 1 : d[k] = c[k + 1]
      BY <1>1, HeadTailProperties
<1> HIDE DEF d
<1>3. \A a, b \in 1 .. Len(d) : d[a] = d[b] => a = b
  <2> TAKE a, b \in 1 .. Len(d)
  <2>1. /\ a + 1 \in 1 .. Len(c) /\ b + 1 \in 1 .. Len(c)
        /\ d[a] = c[a + 1] /\ d[b] = c[b + 1]
        BY <1>1, <1>2
  <2>2. c[a + 1] = c[b + 1] => a + 1 = b + 1
        BY <2>1 DEF IsList
  <2> QED BY <1>1, <2>1, <2>2
<1>4. link[head] = IF d = << >> THEN Null ELSE d[1]
  <2>1. link[c[1]] = IF 1 < Len(c) THEN c[1 + 1] ELSE Null
        BY <1>1 DEF IsList
  <2>2. (d = << >>) <=> Len(d) = 0
        BY <1>2, EmptySeq
  <2>3. CASE Len(c) = 1
        BY <1>1, <1>2, <2>1, <2>2, <2>3
  <2>4. CASE Len(c) # 1
        BY <1>1, <1>2, <2>1, <2>2, <2>4
  <2> QED BY <2>3, <2>4
<1>5. (IF link[head] = Null THEN Null ELSE tail) = IF d = << >> THEN Null ELSE d[Len(d)]
  <2>1. (d = << >>) <=> Len(d) = 0
        BY <1>2, EmptySeq
  <2>2. CASE Len(c) = 1
        BY <1>1, <1>2, <1>4, <2>1, <2>2
  <2>3. CASE Len(c) # 1
    <3>1. d[1] = c[2] /\ c[2] # Null /\ d[Len(d)] = c[Len(c)]
          BY <1>1, <1>2, <2>3
    <3>2. d # << >> /\ link[head] # Null
          BY <1>1, <1>2, <1>4, <2>1, <2>3, <3>1
    <3> QED BY <1>1, <3>1, <3>2
  <2> QED BY <2>2, <2>3
<1>6. \A k \in 1 .. Len(d) : link[d[k]] = IF k < Len(d) THEN d[k + 1] ELSE Null
  <2> TAKE k \in 1 .. Len(d)
  <2>1. k + 1 \in 1 .. Len(c) /\ d[k] = c[k + 1]
        BY <1>1, <1>2
  <2>2. link[c[k + 1]] = IF k + 1 < Len(c) THEN c[k + 1 + 1] ELSE Null
        BY <2>1 DEF IsList
  <2>3. k + 1 < Len(c) => d[k + 1] = c[k + 1 + 1]
        BY <1>1, <1>2, <2>1
  <2> QED BY <1>1, <1>2, <2>1, <2>2, <2>3
<1>7. IsList(d, link[head], IF link[head] = Null THEN Null ELSE tail, link)
      BY <1>2, <1>3, <1>4, <1>5, <1>6 DEF IsList
<1> QED BY <1>1, <1>2, <1>7 DEF d

(* The empty list. *)
LEMMA EmptyList ==
    ASSUME NEW link PROVE IsList(<< >>, Null, Null, link)
BY DEF IsList

(* What the property asks of the shape of a list. *)
LEMMA ListWellFormed ==
    ASSUME NEW head, NEW tail, NEW link, IsFiniteSet(DOMAIN link), Null \notin DOMAIN link,
           IsList(Chain(head, link), head, tail, link)
    PROVE  WellFormed(head, tail, link)
<1>1. LET c == Chain(head, link)
      IN  /\ \A a, b \in 1 .. Len(c) : c[a] = c[b] => a = b
          /\ tail = IF c = << >> THEN Null ELSE c[Len(c)]
          /\ DOMAIN c = 1 .. Len(c)
      BY LenProperties DEF IsList
<1> QED BY <1>1 DEF WellFormed

-----------------------------------------------------------------------------
(* pr12task1.c *)

(* The three instances of LinkedList and FiniteSets are those of here. *)
LEMMA SameOperators ==
    /\ \A S : /\ Task!Cardinality(S) = Cardinality(S)
              /\ Pool!Cardinality(S) = Cardinality(S)
    /\ \A head, link : /\ Task!Chain(head, link) = Chain(head, link)
                       /\ Req!Chain(head, link) = Chain(head, link)
                       /\ Pool!Chain(head, link) = Chain(head, link)
<1>1. \A S : Task!Cardinality(S) = Cardinality(S)
      BY DEF Task!Cardinality, Cardinality
<1>2. \A S : Pool!Cardinality(S) = Cardinality(S)
      BY DEF Pool!Cardinality, Cardinality
<1>3. \A head, link : Task!Chain(head, link) = Chain(head, link)
      BY DEF Task!Chain, Chain, Task!Walk, Walk, Task!Cardinality, Cardinality
<1>4. \A head, link : Req!Chain(head, link) = Chain(head, link)
      BY DEF Req!Chain, Chain, Req!Walk, Walk, Req!Cardinality, Cardinality
<1>5. \A head, link : Pool!Chain(head, link) = Chain(head, link)
      BY DEF Pool!Chain, Chain, Pool!Walk, Walk, Pool!Cardinality, Cardinality
<1> QED BY <1>1, <1>2, <1>3, <1>4, <1>5

LEMMA SameShape ==
    \A head, tail, link : /\ Task!WellFormed(head, tail, link) <=> WellFormed(head, tail, link)
                          /\ Req!WellFormed(head, tail, link) <=> WellFormed(head, tail, link)
                          /\ Pool!WellFormed(head, tail, link) <=> WellFormed(head, tail, link)
BY SameOperators DEF Task!WellFormed, Req!WellFormed, Pool!WellFormed, WellFormed

(* How many ids there can be. *)
LEMMA TaskIds ==
    /\ IsFiniteSet(Task!Ids) /\ Null \notin Task!Ids
    /\ Cardinality(Producers) * Rounds \in Nat
    /\ Cardinality(Task!Ids) = Cardinality(Producers) * Rounds
    /\ \A t : t \in Task!Ids <=> t \in Nat /\ t < Cardinality(Producers) * Rounds
<1> DEFINE n == Cardinality(Producers) * Rounds
<1>1. n \in Nat
      BY ListQueuesAssumption, FS_CardinalityType
<1> HIDE DEF n
<1>2. Task!Ids = 0 .. n - 1
      BY SameOperators DEF Task!Ids, n
<1>3. IsFiniteSet(0 .. n - 1)
      BY <1>1, FS_Interval
<1>4. Cardinality(0 .. n - 1) = n
  <2>1. 0 \in Int /\ n - 1 \in Int /\ (0 > n - 1 => n = 0) /\ n - 1 - 0 + 1 = n
        BY <1>1
  <2>2. Cardinality(0 .. n - 1) = IF 0 > n - 1 THEN 0 ELSE n - 1 - 0 + 1
        BY ONLY <2>1, FS_Interval
  <2> QED BY <2>1, <2>2
<1>5. Null \notin Task!Ids
      BY ListQueuesAssumption
<1>6. \A t : t \in Task!Ids <=> t \in Nat /\ t < n
      BY <1>1, <1>2
<1> QED BY <1>1, <1>2, <1>3, <1>4, <1>5, <1>6 DEF n

(* The offers made so far are finitely many, at most Rounds per producer. *)
LEMMA OfferedFinite ==
    ASSUME NEW S, S \subseteq Producers \X (0 .. Rounds - 1)
    PROVE  /\ IsFiniteSet(S) /\ Cardinality(S) \in Nat
           /\ Cardinality(S) <= Cardinality(Producers) * Rounds
<1> DEFINE R == 0 .. Rounds - 1
<1>1. IsFiniteSet(R)
      BY ListQueuesAssumption, FS_Interval
<1>2. Cardinality(R) = Rounds
  <2>1. Rounds \in Nat /\ 0 \in Int /\ Rounds - 1 \in Int /\ (0 > Rounds - 1 => Rounds = 0)
        /\ Rounds - 1 - 0 + 1 = Rounds
        BY ListQueuesAssumption
  <2>2. Cardinality(0 .. Rounds - 1) = IF 0 > Rounds - 1 THEN 0 ELSE Rounds - 1 - 0 + 1
        BY ONLY <2>1, FS_Interval
  <2> QED BY <2>1, <2>2
<1> HIDE DEF R
<1>3. IsFiniteSet(Producers)
      BY ListQueuesAssumption
<1>4. /\ IsFiniteSet(Producers \X R)
      /\ Cardinality(Producers \X R) = Cardinality(Producers) * Rounds
      BY <1>1, <1>2, <1>3, FS_Product
<1>5. S \subseteq Producers \X R
      BY DEF R
<1>6. IsFiniteSet(S) /\ Cardinality(S) <= Cardinality(Producers \X R)
      BY <1>4, <1>5, FS_Subset
<1> QED BY <1>4, <1>6, FS_CardinalityType

(* A producer's round is one more offer. *)
LEMMA OneMoreOffer ==
    ASSUME round \in [Producers -> 0 .. Rounds], NEW p \in Producers, Task!Round(p)
    PROVE  /\ round' \in [Producers -> 0 .. Rounds]
           /\ Offered \subseteq Producers \X (0 .. Rounds - 1)
           /\ Offered' \subseteq Producers \X (0 .. Rounds - 1)
           /\ Cardinality(Offered') = Cardinality(Offered) + 1
<1> DEFINE x == <<p, round[p]>>
<1>1. /\ round[p] \in Nat /\ round[p] < Rounds /\ Rounds \in Nat
      /\ round' = [round EXCEPT ![p] = @ + 1]
      BY ListQueuesAssumption DEF Task!Round
<1>2. round' \in [Producers -> 0 .. Rounds]
      BY <1>1
<1>3. x \in Producers \X (0 .. Rounds - 1) /\ x \notin Offered
      BY <1>1 DEF Offered
<1>4. Offered' = Offered \cup {x}
  <2>1. ASSUME NEW pk \in Producers \X (0 .. Rounds - 1)
        PROVE  pk[2] < round'[pk[1]] <=> pk[2] < round[pk[1]] \/ pk = x
    <3>1. PICK q \in Producers, k \in 0 .. Rounds - 1 : pk = <<q, k>>
          OBVIOUS
    <3>2. CASE q = p
      <4>1. round'[q] = round[p] + 1 /\ pk[1] = p /\ pk[2] = k
            BY <1>1, <3>1, <3>2
      <4>2. k < round[p] + 1 <=> k < round[p] \/ k = round[p]
            BY <1>1
      <4>3. pk = x <=> k = round[p]
            BY <3>1, <3>2
      <4> QED BY <3>2, <4>1, <4>2, <4>3
    <3>3. CASE q # p
      <4>1. round'[q] = round[q] /\ pk[1] = q /\ pk # x
            BY <1>1, <3>1, <3>3
      <4> QED BY <4>1
    <3> QED BY <3>2, <3>3
  <2> QED BY <1>3, <2>1 DEF Offered
<1>5. Offered \subseteq Producers \X (0 .. Rounds - 1)
      BY DEF Offered
<1>6. Cardinality(Offered \cup {x}) = Cardinality(Offered) + 1
      BY <1>3, <1>5, OfferedFinite, FS_AddElement
<1> QED BY <1>2, <1>3, <1>4, <1>5, <1>6

LEMMA TaskStart == ASSUME Task!Init PROVE TaskInv
<1> DEFINE c == Task!Queued
<1>1. IsList(<< >>, first, last, next) /\ DOMAIN next = Task!Ids
      BY EmptyList DEF Task!Init
<1>2. c = << >>
      BY <1>1, ChainOf, TaskIds, SameOperators DEF Task!Queued
<1>3. Task!TypeOK
  <2>1. 0 \in 0 .. MAX_QUEUE_SIZE /\ 0 \in 0 .. MaxSpurious /\ 0 \in 0 .. Rounds
        /\ 0 \in 0 .. Cardinality(Task!Ids)
        BY ListQueuesAssumption, TaskIds
  <2>2. started \in Seq(Task!Ids)
        BY EmptySeq DEF Task!Init
  <2> QED BY <2>1, <2>2, SameOperators DEF Task!Init, Task!TypeOK
<1>4. Len(<< >>) = 0 /\ started = << >> /\ count = 0 /\ task_id_counter = 0
      BY DEF Task!Init
<1>5. 0 <= Cardinality(Offered)
      BY OfferedFinite DEF Offered
<1>6. \A w \in Workers : hand[w] = Null
      BY DEF Task!Init
<1>7. \A t \in Task!Ids : next[t] = Null
      BY DEF Task!Init
<1> HIDE DEF c
<1>8. /\ \A k \in 1 .. Len(started) : started[k] = k - 1
      /\ \A k \in 1 .. Len(c) : c[k] = Len(started) + k - 1
      /\ task_id_counter = Len(started) + Len(c) /\ count = Len(c)
      BY <1>2, <1>4
<1>9. task_id_counter <= Cardinality(Offered)
      BY <1>4, <1>5
<1> QED BY <1>1, <1>2, <1>3, <1>6, <1>7, <1>8, <1>9 DEF TaskInv, c

(* The list after a step is the one that has its shape. *)
LEMMA TaskLine ==
    ASSUME NEW c, IsList(c, first', last', next'), DOMAIN next' = Task!Ids
    PROVE  Task!Queued' = c
<1>1. IsFiniteSet(DOMAIN next') /\ Null \notin DOMAIN next'
      BY TaskIds
<1>2. Chain(first', next') = c
      BY <1>1, ChainOf
<1> QED BY <1>2, SameOperators DEF Task!Queued

(* What the invariant says of the list, for the steps to use. *)
LEMMA TaskReads ==
    ASSUME TaskInv
    PROVE  LET line == Task!Queued
           IN  /\ DOMAIN next = Task!Ids /\ Null \notin DOMAIN next
               /\ line \in Seq(Task!Ids) /\ started \in Seq(Task!Ids)
               /\ Len(line) \in Nat /\ Len(started) \in Nat
               /\ IsList(line, first, last, next)
               /\ first = Null <=> Len(line) = 0
               /\ last = Null <=> Len(line) = 0
               /\ Len(line) > 0 => last = line[Len(line)] /\ first = line[1]
               /\ count = Len(line)
               /\ task_id_counter = Len(started) + Len(line)
               /\ \A k \in 1 .. Len(line) : line[k] = Len(started) + k - 1
               /\ task_id_counter \in Nat
               /\ started \in Seq(Task!Ids)
<1>1. /\ DOMAIN next = Task!Ids /\ Null \notin DOMAIN next
      /\ started \in Seq(Task!Ids) /\ IsList(Task!Queued, first, last, next)
      /\ task_id_counter \in Nat
      BY TaskIds, SameOperators DEF TaskInv, Task!TypeOK
<1>2. Len(started) \in Nat /\ Task!Queued \in Seq(Task!Ids)
      BY <1>1, LenProperties DEF IsList
<1>3. /\ Len(Task!Queued) \in Nat
      /\ first = Null <=> Len(Task!Queued) = 0
      /\ last = Null <=> Len(Task!Queued) = 0
      /\ Len(Task!Queued) > 0 => /\ last = Task!Queued[Len(Task!Queued)]
                                 /\ first = Task!Queued[1]
      BY <1>1, Ends
<1> QED BY <1>1, <1>2, <1>3 DEF TaskInv

LEMMA TaskAdds ==
    ASSUME TaskInv, NEW p \in Producers, Task!AddTask(p)
    PROVE  /\ TaskInv'
           /\ task_id_counter \in Task!Ids
           /\ \A k \in 1 .. Len(Task!Queued) : Task!Queued[k] # task_id_counter
           /\ Task!Queued' = Append(Task!Queued, task_id_counter)
<1> DEFINE c == Task!Queued
           t == task_id_counter
           d == Append(c, t)
           C == Cardinality(Task!Ids)
<1>1. /\ DOMAIN next = Task!Ids /\ Null \notin DOMAIN next
      /\ c \in Seq(Task!Ids) /\ started \in Seq(Task!Ids)
      /\ Len(c) \in Nat /\ Len(started) \in Nat
      /\ IsList(c, first, last, next)
      /\ first = Null <=> Len(c) = 0
      /\ last = Null <=> Len(c) = 0
      /\ Len(c) > 0 => last = c[Len(c)]
      /\ count = Len(c)
      /\ t = Len(started) + Len(c)
      /\ \A k \in 1 .. Len(c) : c[k] = Len(started) + k - 1
      BY TaskReads
<1>2. round \in [Producers -> 0 .. Rounds] /\ t <= Cardinality(Offered) /\ Task!Round(p)
      /\ (t \in Task!Ids => next[t] = Null) /\ Task!TypeOK
      BY <1>1 DEF TaskInv, Task!TypeOK, Task!AddTask
<1>3. /\ round' \in [Producers -> 0 .. Rounds]
      /\ Cardinality(Offered') = Cardinality(Offered) + 1
      /\ Cardinality(Offered') <= C /\ C \in Nat
      /\ Cardinality(Offered) \in Nat
      BY <1>2, OneMoreOffer, OfferedFinite, TaskIds
<1>4. t \in Task!Ids /\ t + 1 <= Cardinality(Offered') /\ t + 1 \in 0 .. C
  <2>1. t \in Nat /\ t + 1 <= Cardinality(Offered') /\ t < C /\ t + 1 \in 0 .. C
        BY <1>1, <1>2, <1>3
  <2>2. \A r : r \in Task!Ids <=> r \in Nat /\ r < C
        BY TaskIds
  <2> QED BY <2>1, <2>2
<1>5. /\ first' = IF first = Null THEN t ELSE first
      /\ last' = t
      /\ next' = IF first = Null THEN next ELSE [next EXCEPT ![last] = t]
      /\ count' = count + 1 /\ task_id_counter' = t + 1
      /\ hand' = hand /\ started' = started /\ spurious' = spurious
      BY DEF Task!AddTask, Task!Link
<1>6. /\ \A k \in 1 .. Len(c) : c[k] # t
      /\ last # t
      BY <1>1, <1>4
<1>7. next' \in [Task!Ids -> Task!Ids \cup {Null}] /\ DOMAIN next' = DOMAIN next
      BY <1>1, <1>2, <1>4, <1>5 DEF Task!TypeOK
<1>8. /\ next'[t] = Null
      /\ \A n \in DOMAIN next \ {t} : next'[n] = IF n = last THEN t ELSE next[n]
  <2>1. CASE first = Null
        BY <1>1, <1>2, <1>4, <1>5, <2>1
  <2>2. CASE first # Null
        BY <1>1, <1>2, <1>4, <1>5, <1>6, <2>2
  <2> QED BY <2>1, <2>2
<1> HIDE DEF c, t
<1>9. IsList(d, first', last', next')
  <2>1. IsList(Append(c, t), IF Len(c) = 0 THEN t ELSE first, t, next')
        BY <1>1, <1>4, <1>6, <1>7, <1>8, Pushed
  <2> QED BY <1>1, <1>5, <2>1
<1>10. Task!Queued' = d
       BY <1>1, <1>7, <1>9, TaskLine
<1>11. Len(d) = Len(c) + 1 /\ d[Len(c) + 1] = t /\ \A k \in 1 .. Len(c) : d[k] = c[k]
       BY <1>1, <1>4, AppendProperties
<1>12. pc' \in [Workers -> {"enter", "waiting", "process"}]
       /\ \A w \in Workers : pc[w] = "process" => pc'[w] = "process"
       BY <1>2 DEF Task!AddTask, Task!Signal, Task!Waiting, Task!TypeOK
<1>13. Task!TypeOK'
  <2>1. count' \in 0 .. MAX_QUEUE_SIZE
        BY <1>1, <1>5, ListQueuesAssumption DEF Task!AddTask, Task!Full
  <2>2. first' \in Task!Ids \cup {Null} /\ last' \in Task!Ids \cup {Null}
        BY <1>2, <1>4, <1>5 DEF Task!TypeOK
  <2>3. task_id_counter' \in 0 .. C
        BY <1>4, <1>5
  <2>4. hand' \in [Workers -> Task!Ids \cup {Null}] /\ started' \in Seq(Task!Ids)
        /\ spurious' \in 0 .. MaxSpurious
        BY <1>2, <1>5 DEF Task!TypeOK
  <2> QED BY <1>3, <1>7, <1>12, <2>1, <2>2, <2>3, <2>4, SameOperators DEF Task!TypeOK
<1>14. \A k \in 1 .. Len(d) : d[k] = Len(started) + k - 1
  <2>1. d[Len(c) + 1] = Len(started) + (Len(c) + 1) - 1
        BY <1>1, <1>11
  <2>2. ASSUME NEW k \in 1 .. Len(d) PROVE k \in 1 .. Len(c) \/ k = Len(c) + 1
        BY <1>1, <1>11
  <2> QED BY <1>1, <1>11, <2>1, <2>2
<1>15. \A r \in Task!Ids : r >= task_id_counter' => next'[r] = Null
  <2> TAKE r \in Task!Ids
  <2> HAVE r >= task_id_counter'
  <2>1. r > t /\ next[r] = Null /\ r # t
        BY <1>1, <1>4, <1>5, TaskIds DEF TaskInv, t
  <2>2. r # last
        BY <1>1, <2>1, TaskIds
  <2> QED BY <1>1, <1>8, <2>1, <2>2
<1>16. \A w \in Workers : hand'[w] # Null => pc'[w] = "process" /\ hand'[w] < Len(started')
       BY <1>5, <1>12 DEF TaskInv
<1>17. \A k \in 1 .. Len(started) : started[k] = k - 1
       BY DEF TaskInv
<1>18. count' = Len(d) /\ task_id_counter' = Len(started') + Len(d)
       /\ task_id_counter' <= Cardinality(Offered')
       BY <1>1, <1>4, <1>5, <1>11
<1>19. TaskInv'
  <2> HIDE DEF d
  <2> QED BY <1>5, <1>9, <1>10, <1>13, <1>14, <1>15, <1>16, <1>17, <1>18 DEF TaskInv
<1> QED BY <1>4, <1>6, <1>10, <1>19 DEF c, t

(* A task that is not added uses up a round and nothing else. *)
LEMMA TaskSkips ==
    ASSUME TaskInv, NEW p \in Producers, Task!RejectTask(p) \/ Task!AllocFails(p)
    PROVE  TaskInv' /\ Task!Queued' = Task!Queued /\ hand' = hand
<1> DEFINE c == Task!Queued
<1>1. /\ Task!Round(p)
      /\ UNCHANGED <<first, last, next, count, task_id_counter, pc, hand, started, spurious>>
      BY DEF Task!RejectTask, Task!AllocFails, Task!list
<1>2. Task!Queued' = c
      BY <1>1 DEF Task!Queued
<1>3. round \in [Producers -> 0 .. Rounds] /\ task_id_counter <= Cardinality(Offered) /\ Task!TypeOK
      BY DEF TaskInv, Task!TypeOK
<1>4. /\ round' \in [Producers -> 0 .. Rounds]
      /\ Cardinality(Offered') = Cardinality(Offered) + 1 /\ Cardinality(Offered) \in Nat
      BY <1>1, <1>3, OneMoreOffer, OfferedFinite
<1>5. task_id_counter' <= Cardinality(Offered')
      BY <1>1, <1>3, <1>4, TaskReads
<1>6. Task!TypeOK'
      BY <1>1, <1>3, <1>4 DEF Task!TypeOK
<1>7. /\ IsList(c, first', last', next') /\ count' = Len(c)
      /\ task_id_counter' = Len(started') + Len(c)
      /\ \A k \in 1 .. Len(started') : started'[k] = k - 1
      /\ \A k \in 1 .. Len(c) : c[k] = Len(started') + k - 1
      /\ \A t \in Task!Ids : t >= task_id_counter' => next'[t] = Null
      /\ \A w \in Workers : hand'[w] # Null => pc'[w] = "process" /\ hand'[w] < Len(started')
  <2>1. IsList(c, first', last', next')
        BY <1>1, <1>2 DEF TaskInv
  <2> QED BY <1>1, <2>1 DEF TaskInv
<1>8. TaskInv'
  <2> HIDE DEF c
  <2> QED BY <1>2, <1>5, <1>6, <1>7 DEF TaskInv
<1> QED BY <1>1, <1>2, <1>8

LEMMA TaskTakes ==
    ASSUME TaskInv, NEW w \in Workers, Task!GetTask(w)
    PROVE  /\ TaskInv'
           /\ Task!Queued # << >> /\ hand[w] = Null
           /\ hand' = [hand EXCEPT ![w] = Head(Task!Queued)]
           /\ Task!Queued' = Tail(Task!Queued)
<1> DEFINE c == Task!Queued
           d == Tail(c)
<1>1. /\ DOMAIN next = Task!Ids /\ Null \notin DOMAIN next
      /\ c \in Seq(Task!Ids) /\ started \in Seq(Task!Ids)
      /\ Len(c) \in Nat /\ Len(started) \in Nat
      /\ IsList(c, first, last, next)
      /\ first = Null <=> Len(c) = 0
      /\ count = Len(c)
      /\ task_id_counter = Len(started) + Len(c)
      /\ \A k \in 1 .. Len(c) : c[k] = Len(started) + k - 1
      BY TaskReads
<1>2. /\ pc[w] = "enter" /\ count > 0
      /\ first' = next[first]
      /\ last' = IF next[first] = Null THEN Null ELSE last
      /\ count' = count - 1 /\ started' = Append(started, first)
      /\ pc' = [pc EXCEPT ![w] = "process"]
      /\ hand' = [hand EXCEPT ![w] = first]
      /\ UNCHANGED <<next, task_id_counter, round, spurious>>
      BY DEF Task!GetTask, Task!Unlink
<1>3. Task!TypeOK /\ task_id_counter <= Cardinality(Offered)
      BY DEF TaskInv
<1> HIDE DEF c
<1>4. /\ IsList(d, first', last', next')
      /\ Len(d) = Len(c) - 1
      /\ \A k \in 1 .. Len(c) - 1 : d[k] = c[k + 1]
      /\ first = c[1] /\ Head(c) = c[1] /\ c # << >>
  <2>1. Len(c) > 0
        BY <1>1, <1>2
  <2> QED BY <1>1, <1>2, <2>1, Popped
<1>5. Task!Queued' = d
      BY <1>1, <1>2, <1>4, TaskLine
<1>6. hand[w] = Null
      BY <1>2 DEF TaskInv
<1>7. first \in Task!Ids /\ first = Len(started)
      BY <1>1, <1>2, <1>4, LenProperties
<1>8. /\ started' \in Seq(Task!Ids) /\ Len(started') = Len(started) + 1
      /\ started'[Len(started) + 1] = first
      /\ \A k \in 1 .. Len(started) : started'[k] = started[k]
      BY <1>1, <1>2, <1>7, AppendProperties
<1>9. Task!TypeOK'
  <2>1. count' \in 0 .. MAX_QUEUE_SIZE
        BY <1>1, <1>2, <1>3, ListQueuesAssumption DEF Task!TypeOK
  <2>2. first' \in Task!Ids \cup {Null} /\ last' \in Task!Ids \cup {Null}
        BY <1>2, <1>3, <1>7 DEF Task!TypeOK
  <2> QED BY <1>2, <1>3, <1>7, <1>8, <2>1, <2>2 DEF Task!TypeOK
<1>10. \A k \in 1 .. Len(started') : started'[k] = k - 1
  <2> TAKE k \in 1 .. Len(started')
  <2>1. CASE k = Len(started) + 1
        BY <1>1, <1>7, <1>8, <2>1
  <2>2. CASE k # Len(started) + 1
        BY <1>1, <1>8, <2>2 DEF TaskInv
  <2> QED BY <2>1, <2>2
<1>11. \A k \in 1 .. Len(d) : d[k] = Len(started') + k - 1
  <2> TAKE k \in 1 .. Len(d)
  <2>1. k + 1 \in 1 .. Len(c) /\ d[k] = c[k + 1]
        BY <1>1, <1>4
  <2> QED BY <1>1, <1>8, <2>1
<1>12. count' = Len(d) /\ task_id_counter' = Len(started') + Len(d)
       /\ task_id_counter' <= Cardinality(Offered')
  <2>1. Offered' = Offered
        BY <1>2 DEF Offered
  <2> QED BY <1>1, <1>2, <1>3, <1>4, <1>8, <2>1
<1>13. \A r \in Task!Ids : r >= task_id_counter' => next'[r] = Null
       BY <1>2 DEF TaskInv
<1>14. \A v \in Workers : hand'[v] # Null => pc'[v] = "process" /\ hand'[v] < Len(started')
  <2> TAKE v \in Workers
  <2>1. CASE v = w
        BY <1>1, <1>2, <1>3, <1>7, <1>8, <2>1 DEF Task!TypeOK
  <2>2. CASE v # w
    <3>1. hand'[v] = hand[v] /\ pc'[v] = pc[v]
          BY <1>2, <1>3, <2>2 DEF Task!TypeOK
    <3>2. hand[v] # Null => pc[v] = "process" /\ hand[v] < Len(started) /\ hand[v] \in Nat
          BY <1>3, TaskIds DEF TaskInv, Task!TypeOK
    <3> QED BY <1>1, <1>8, <3>1, <3>2
  <2> QED BY <2>1, <2>2
<1>15. TaskInv'
  <2> HIDE DEF d
  <2> QED BY <1>4, <1>5, <1>9, <1>10, <1>11, <1>12, <1>13, <1>14 DEF TaskInv
<1> QED BY <1>2, <1>4, <1>5, <1>6, <1>15 DEF c

(* A worker goes to sleep, is woken for nothing, or has done its task. *)
LEMMA TaskMoves ==
    ASSUME TaskInv, NEW w \in Workers,
           Task!Wait(w) \/ Task!ProcessTask(w) \/ Task!SpuriousWakeup(w)
    PROVE  /\ TaskInv' /\ Task!Queued' = Task!Queued
           /\ hand' = hand \/ hand' = [hand EXCEPT ![w] = Null]
<1> DEFINE c == Task!Queued
<1>1. /\ UNCHANGED <<first, last, next, count, task_id_counter, round, started>>
      /\ hand' = hand \/ hand' = [hand EXCEPT ![w] = Null]
      /\ \/ pc' = [pc EXCEPT ![w] = "waiting"] /\ pc[w] = "enter" /\ hand' = hand
         \/ pc' = [pc EXCEPT ![w] = "enter"] /\ pc[w] = "waiting" /\ hand' = hand
         \/ pc' = [pc EXCEPT ![w] = "enter"] /\ hand' = [hand EXCEPT ![w] = Null]
      BY DEF Task!Wait, Task!ProcessTask, Task!SpuriousWakeup, Task!list
<1>2. Task!Queued' = c
      BY <1>1 DEF Task!Queued
<1>3. spurious' \in 0 .. MaxSpurious
      BY ListQueuesAssumption
      DEF Task!Wait, Task!ProcessTask, Task!SpuriousWakeup, Task!list, TaskInv, Task!TypeOK
<1>4. Task!TypeOK'
  <2>1. Task!TypeOK
        BY DEF TaskInv
  <2>2. pc' \in [Workers -> {"enter", "waiting", "process"}]
        /\ hand' \in [Workers -> Task!Ids \cup {Null}]
        BY <1>1, <2>1 DEF Task!TypeOK
  <2> QED BY <1>1, <1>3, <2>1, <2>2 DEF Task!TypeOK
<1>5. \A v \in Workers : hand'[v] # Null => pc'[v] = "process" /\ hand'[v] < Len(started')
  <2> TAKE v \in Workers
  <2>1. Task!TypeOK /\ (hand[v] # Null => pc[v] = "process" /\ hand[v] < Len(started))
        BY DEF TaskInv
  <2> QED BY <1>1, <2>1 DEF Task!TypeOK
<1>6. /\ IsList(c, first', last', next') /\ count' = Len(c)
      /\ task_id_counter' = Len(started') + Len(c)
      /\ \A k \in 1 .. Len(started') : started'[k] = k - 1
      /\ \A k \in 1 .. Len(c) : c[k] = Len(started') + k - 1
      /\ \A t \in Task!Ids : t >= task_id_counter' => next'[t] = Null
      /\ task_id_counter' <= Cardinality(Offered')
  <2>1. IsList(c, first', last', next')
        BY <1>1, <1>2 DEF TaskInv
  <2>2. Offered' = Offered
        BY <1>1 DEF Offered
  <2> QED BY <1>1, <2>1, <2>2 DEF TaskInv
<1>7. TaskInv'
  <2> HIDE DEF c
  <2> QED BY <1>2, <1>4, <1>5, <1>6 DEF TaskInv
<1> QED BY <1>1, <1>2, <1>7

-----------------------------------------------------------------------------
(* pr12task2.c *)

LEMMA RequestNumbers ==
    /\ IsFiniteSet(Req!Requests) /\ Null \notin Req!Requests
    /\ Total \in Nat /\ Cardinality(Req!Requests) = Total
    /\ \A r : r \in Req!Requests <=> r \in Nat /\ r < Total
<1>1. Total \in Nat /\ Req!Requests = 0 .. Total - 1
      BY ListQueuesAssumption DEF Req!Requests
<1>2. IsFiniteSet(0 .. Total - 1)
      BY <1>1, FS_Interval
<1>3. Cardinality(0 .. Total - 1) = Total
  <2>1. 0 \in Int /\ Total - 1 \in Int /\ (0 > Total - 1 => Total = 0) /\ Total - 1 - 0 + 1 = Total
        BY <1>1
  <2>2. Cardinality(0 .. Total - 1) = IF 0 > Total - 1 THEN 0 ELSE Total - 1 - 0 + 1
        BY ONLY <2>1, FS_Interval
  <2> QED BY <2>1, <2>2
<1>4. \A r : r \in Req!Requests <=> r \in Nat /\ r < Total
      BY <1>1
<1>5. Null \notin Req!Requests
      BY ListQueuesAssumption
<1> QED BY <1>1, <1>2, <1>3, <1>4, <1>5

LEMMA ReqLine ==
    ASSUME NEW c, IsList(c, first', last', next'), DOMAIN next' = Req!Requests
    PROVE  Req!Queued' = c
<1>1. IsFiniteSet(DOMAIN next') /\ Null \notin DOMAIN next'
      BY RequestNumbers
<1>2. Chain(first', next') = c
      BY <1>1, ChainOf
<1> QED BY <1>2, SameOperators DEF Req!Queued

LEMMA ReqReads ==
    ASSUME ReqInv
    PROVE  LET line == Req!Queued
           IN  /\ Req!TypeOK
               /\ DOMAIN next = Req!Requests /\ Null \notin DOMAIN next
               /\ line \in Seq(Req!Requests) /\ Len(line) \in Nat
               /\ IsList(line, first, last, next)
               /\ first = Null <=> Len(line) = 0
               /\ last = Null <=> Len(line) = 0
               /\ Len(line) > 0 => last = line[Len(line)]
               /\ count = Len(line)
               /\ i \in Nat /\ added \in Nat
               /\ \A k \in 1 .. Len(line) : line[k] \in Nat /\ line[k] < added
<1>1. /\ Req!TypeOK /\ DOMAIN next = Req!Requests /\ Null \notin DOMAIN next
      /\ IsList(Req!Queued, first, last, next) /\ i \in Nat /\ added \in Nat
      BY RequestNumbers DEF ReqInv, Req!TypeOK, added
<1>2. Req!Queued \in Seq(Req!Requests)
      BY <1>1 DEF IsList
<1>3. /\ Len(Req!Queued) \in Nat
      /\ first = Null <=> Len(Req!Queued) = 0
      /\ last = Null <=> Len(Req!Queued) = 0
      /\ Len(Req!Queued) > 0 => last = Req!Queued[Len(Req!Queued)]
      /\ \A k \in 1 .. Len(Req!Queued) : Req!Queued[k] \in Req!Requests
      BY <1>1, Ends
<1> QED BY <1>1, <1>2, <1>3, RequestNumbers DEF ReqInv

LEMMA ReqStart == ASSUME Req!Init PROVE ReqInv
<1> DEFINE c == Req!Queued
<1>1. IsList(<< >>, first, last, next) /\ DOMAIN next = Req!Requests
      BY EmptyList DEF Req!Init
<1>2. c = << >>
      BY <1>1, ChainOf, RequestNumbers, SameOperators DEF Req!Queued
<1>3. Req!TypeOK
  <2>1. 0 \in 0 .. Total /\ 0 \in 0 .. MaxSpurious
        BY ListQueuesAssumption
  <2> QED BY <2>1 DEF Req!Init, Req!TypeOK
<1>4. /\ count = 0 /\ main = "add" /\ Len(<< >>) = 0
      /\ \A r \in Req!Requests : next[r] = Null
      /\ \A w \in Workers : hand[w] = Null /\ pc[w] = "get" /\ cond_mutex # w
      BY ListQueuesAssumption DEF Req!Init
<1>5. Req!NoMissedSignal
      BY <1>4 DEF Req!NoMissedSignal
<1> HIDE DEF c
<1>6. count = Len(c) /\ \A k \in 1 .. Len(c) : c[k] < added
      BY <1>2, <1>4
<1> QED BY <1>1, <1>2, <1>3, <1>4, <1>5, <1>6 DEF ReqInv, c

LEMMA ReqAdds ==
    ASSUME ReqInv, Req!AddRequest
    PROVE  /\ ReqInv'
           /\ i \in Req!Requests /\ hand' = hand
           /\ \A k \in 1 .. Len(Req!Queued) : Req!Queued[k] # i
           /\ \A w \in Workers : hand[w] # i
           /\ Req!Queued' = Append(Req!Queued, i)
<1> DEFINE c == Req!Queued
           d == Append(c, i)
<1>1. /\ Req!TypeOK
      /\ DOMAIN next = Req!Requests /\ Null \notin DOMAIN next
      /\ c \in Seq(Req!Requests) /\ Len(c) \in Nat
      /\ IsList(c, first, last, next)
      /\ first = Null <=> Len(c) = 0
      /\ last = Null <=> Len(c) = 0
      /\ Len(c) > 0 => last = c[Len(c)]
      /\ count = Len(c) /\ i \in Nat
      /\ \A k \in 1 .. Len(c) : c[k] \in Nat /\ c[k] < added
      BY ReqReads
<1>2. /\ main = "add" /\ i < Total /\ main' = "signal"
      /\ first' = IF count = 0 THEN i ELSE first
      /\ last' = i
      /\ next' = IF count = 0 THEN next ELSE [next EXCEPT ![last] = i]
      /\ count' = count + 1
      /\ UNCHANGED <<cond_mutex, pc, hand, i, spurious>>
      BY DEF Req!AddRequest, Req!Link
<1>3. added = i /\ added' = i + 1
      BY <1>2 DEF added
<1>4. i \in Req!Requests /\ next[i] = Null
  <2>1. i \in Req!Requests
        BY <1>1, <1>2, RequestNumbers
  <2> QED BY <1>1, <1>3, <2>1 DEF ReqInv
<1>5. (\A k \in 1 .. Len(c) : c[k] # i) /\ last # i
      BY <1>1, <1>3, <1>4
<1>6. next' \in [Req!Requests -> Req!Requests \cup {Null}] /\ DOMAIN next' = DOMAIN next
      BY <1>1, <1>2, <1>4 DEF Req!TypeOK
<1> HIDE DEF c
<1>7. /\ next'[i] = Null
      /\ \A n \in DOMAIN next \ {i} : next'[n] = IF n = last THEN i ELSE next[n]
  <2>1. CASE count = 0
        BY <1>1, <1>2, <1>4, <2>1
  <2>2. CASE count # 0
        BY <1>1, <1>2, <1>4, <1>5, <2>2
  <2> QED BY <2>1, <2>2
<1>8. IsList(d, first', last', next')
  <2>1. IsList(Append(c, i), IF Len(c) = 0 THEN i ELSE first, i, next')
        BY <1>1, <1>4, <1>5, <1>6, <1>7, Pushed
  <2> QED BY <1>1, <1>2, <2>1
<1>9. Req!Queued' = d
      BY <1>1, <1>6, <1>8, ReqLine
<1>10. Len(d) = Len(c) + 1 /\ d[Len(c) + 1] = i /\ \A k \in 1 .. Len(c) : d[k] = c[k]
       BY <1>1, <1>4, AppendProperties
<1>11. Len(d) <= Total
  <2>1. d \in Seq(Req!Requests) /\ \A a, b \in 1 .. Len(d) : d[a] = d[b] => a = b
        BY <1>1, <1>6, <1>8 DEF IsList
  <2> HIDE DEF d
  <2>2. IsFiniteSet(Req!Requests) /\ Cardinality(Req!Requests) = Total
        BY RequestNumbers
  <2>3. Len(d) <= Cardinality(Req!Requests)
        BY <2>1, <2>2, NotLonger
  <2> QED BY <2>2, <2>3
<1>12. Req!TypeOK'
  <2>1. count' \in 0 .. Total
        BY <1>1, <1>2, <1>10, <1>11, RequestNumbers
  <2>2. first' \in Req!Requests \cup {Null} /\ last' \in Req!Requests \cup {Null}
        BY <1>1, <1>2, <1>4 DEF Req!TypeOK
  <2> QED BY <1>1, <1>2, <1>6, <2>1, <2>2 DEF Req!TypeOK
<1>13. \A k \in 1 .. Len(d) : d[k] < added'
  <2> TAKE k \in 1 .. Len(d)
  <2>1. CASE k = Len(c) + 1
        BY <1>1, <1>3, <1>10, <2>1
  <2>2. CASE k # Len(c) + 1
        BY <1>1, <1>3, <1>10, <2>2
  <2> QED BY <2>1, <2>2
<1>14. \A r \in Req!Requests : r >= added' => next'[r] = Null
  <2> TAKE r \in Req!Requests
  <2> HAVE r >= added'
  <2>1. r > i /\ r \in Nat /\ r # i /\ next[r] = Null
        BY <1>1, <1>3, RequestNumbers DEF ReqInv
  <2>2. r # last
        BY <1>1, <1>3, <2>1, RequestNumbers
  <2> QED BY <1>1, <1>7, <2>1, <2>2
<1>15. \A w \in Workers : hand[w] # Null => hand[w] \in Nat /\ hand[w] < i
       BY <1>1, <1>3, RequestNumbers DEF ReqInv, Req!TypeOK
<1>16. /\ count' = Len(d) /\ (main' = "signal" => i' < Total)
       /\ \A w \in Workers : /\ hand'[w] # Null => hand'[w] < added'
                             /\ cond_mutex' = w <=> pc'[w] \in {"get_again", "sleep", "unlock"}
  <2>1. \A w \in Workers : cond_mutex = w <=> pc[w] \in {"get_again", "sleep", "unlock"}
        BY DEF ReqInv
  <2> QED BY <1>1, <1>2, <1>3, <1>10, <1>15, <2>1
<1>17. Req!NoMissedSignal'
       BY <1>2 DEF Req!NoMissedSignal
<1>18. ReqInv'
  <2> HIDE DEF d
  <2> QED BY <1>8, <1>9, <1>12, <1>13, <1>14, <1>16, <1>17 DEF ReqInv
<1>19. \A w \in Workers : hand[w] # i
       BY <1>1, <1>4, <1>15, RequestNumbers
<1> QED BY <1>2, <1>4, <1>5, <1>9, <1>18, <1>19 DEF c

LEMMA ReqTakes ==
    ASSUME ReqInv, NEW w \in Workers, Req!GetFirst(w) \/ Req!GetAgain(w), count > 0
    PROVE  /\ ReqInv'
           /\ Req!Queued # << >> /\ hand[w] = Null
           /\ hand' = [hand EXCEPT ![w] = Head(Req!Queued)]
           /\ Req!Queued' = Tail(Req!Queued)
<1> DEFINE c == Req!Queued
           d == Tail(c)
<1>1. /\ Req!TypeOK
      /\ DOMAIN next = Req!Requests /\ Null \notin DOMAIN next
      /\ c \in Seq(Req!Requests) /\ Len(c) \in Nat
      /\ IsList(c, first, last, next)
      /\ count = Len(c) /\ i \in Nat /\ added \in Nat
      /\ \A k \in 1 .. Len(c) : c[k] \in Nat /\ c[k] < added
      BY ReqReads
<1>2. /\ hand' = [hand EXCEPT ![w] = first]
      /\ first' = next[first]
      /\ last' = IF next[first] = Null THEN Null ELSE last
      /\ count' = count - 1
      /\ UNCHANGED <<next, cond_mutex, main, i, spurious>>
      /\ \/ pc[w] = "get" /\ pc' = [pc EXCEPT ![w] = "handle"]
         \/ pc[w] = "get_again" /\ pc' = [pc EXCEPT ![w] = "unlock"]
      BY DEF Req!GetFirst, Req!GetAgain, Req!GetRequest, Req!Goto
<1> HIDE DEF c
<1>3. /\ IsList(d, first', last', next')
      /\ Len(d) = Len(c) - 1
      /\ \A k \in 1 .. Len(c) - 1 : d[k] = c[k + 1]
      /\ first = c[1] /\ Head(c) = c[1] /\ c # << >>
  <2>1. Len(c) > 0
        BY <1>1
  <2> QED BY <1>1, <1>2, <2>1, Popped
<1>4. Req!Queued' = d
      BY <1>1, <1>2, <1>3, ReqLine
<1>5. hand[w] = Null
      BY <1>1, <1>2 DEF Req!TypeOK
<1>6. first \in Req!Requests /\ first < added /\ added' = added
      BY <1>1, <1>2, <1>3, LenProperties DEF added
<1>7. Req!TypeOK'
  <2>1. count' \in 0 .. Total
        BY <1>1, <1>2, ListQueuesAssumption DEF Req!TypeOK
  <2>2. first' \in Req!Requests \cup {Null} /\ last' \in Req!Requests \cup {Null}
        BY <1>1, <1>2, <1>6 DEF Req!TypeOK
  <2>3. hand' \in [Workers -> Req!Requests \cup {Null}]
        BY <1>1, <1>2, <1>6 DEF Req!TypeOK
  <2>4. /\ pc' \in [Workers -> {"get", "handle", "lock", "get_again", "sleep",
                                "waiting", "relock", "unlock"}]
        /\ \A v \in Workers : hand'[v] # Null => pc'[v] \in {"handle", "unlock"}
        BY <1>1, <1>2 DEF Req!TypeOK
  <2> QED BY <1>1, <1>2, <2>1, <2>2, <2>3, <2>4 DEF Req!TypeOK
<1>8. \A k \in 1 .. Len(d) : d[k] < added'
      BY <1>1, <1>3, <1>6
<1>9. \A r \in Req!Requests : r >= added' => next'[r] = Null
      BY <1>2, <1>6 DEF ReqInv
<1>10. \A v \in Workers : /\ hand'[v] # Null => hand'[v] < added'
                          /\ cond_mutex' = v <=> pc'[v] \in {"get_again", "sleep", "unlock"}
  <2> TAKE v \in Workers
  <2>1. hand[v] # Null => hand[v] < added
        BY DEF ReqInv
  <2>2. hand'[v] # Null => hand'[v] < added'
        BY <1>1, <1>2, <1>6, <2>1 DEF Req!TypeOK
  <2>3. cond_mutex = v <=> pc[v] \in {"get_again", "sleep", "unlock"}
        BY DEF ReqInv
  <2>4. cond_mutex' = v <=> pc'[v] \in {"get_again", "sleep", "unlock"}
        BY <1>1, <1>2, <2>3 DEF Req!TypeOK
  <2> QED BY <2>2, <2>4
<1>11. count' = Len(d) /\ (main' = "signal" => i' < Total)
       BY <1>1, <1>2, <1>3 DEF ReqInv
<1>12. Req!NoMissedSignal'
  <2>1. pc'[w] \notin {"sleep", "waiting"}
        BY <1>1, <1>2 DEF Req!TypeOK
  <2> QED BY <2>1 DEF Req!NoMissedSignal
<1>13. ReqInv'
  <2> HIDE DEF d
  <2> QED BY <1>3, <1>4, <1>7, <1>8, <1>9, <1>10, <1>11, <1>12 DEF ReqInv
<1> QED BY <1>2, <1>3, <1>4, <1>5, <1>13 DEF c

(* The steps that leave the list alone keep the invariant when they keep   *)
(* what it says of the handlers.                                           *)
LEMMA ReqListStays ==
    ASSUME ReqInv, UNCHANGED <<first, last, next, count>>, added' = added,
           Req!TypeOK', Req!NoMissedSignal', main' = "signal" => i' < Total,
           \A v \in Workers :
              /\ hand'[v] \in {hand[v], Null}
              /\ cond_mutex' = v <=> pc'[v] \in {"get_again", "sleep", "unlock"}
    PROVE  ReqInv' /\ Req!Queued' = Req!Queued
<1> DEFINE c == Req!Queued
<1>1. Req!Queued' = c
      BY DEF Req!Queued
<1>2. IsList(c, first', last', next')
      BY DEF ReqInv
<1>3. /\ count' = Len(c) /\ \A k \in 1 .. Len(c) : c[k] < added'
      /\ \A r \in Req!Requests : r >= added' => next'[r] = Null
      BY DEF ReqInv
<1>4. \A v \in Workers : hand'[v] # Null => hand'[v] < added'
  <2> TAKE v \in Workers
  <2>1. hand'[v] = hand[v] \/ hand'[v] = Null
        OBVIOUS
  <2>2. hand[v] # Null => hand[v] < added
        BY DEF ReqInv
  <2> QED BY <2>1, <2>2
<1> HIDE DEF c
<1>5. ReqInv'
      BY <1>1, <1>2, <1>3, <1>4 DEF ReqInv
<1> QED BY <1>1, <1>5 DEF c

(* A handler's step that takes no request. *)
LEMMA ReqMoves ==
    ASSUME ReqInv, NEW w \in Workers, Req!WorkerStep(w) \/ Req!SpuriousWakeup(w),
           (Req!GetFirst(w) \/ Req!GetAgain(w)) => ~(count > 0)
    PROVE  /\ ReqInv' /\ Req!Queued' = Req!Queued
           /\ hand' = hand \/ hand' = [hand EXCEPT ![w] = Null]
<1> DEFINE Places == {"get", "handle", "lock", "get_again", "sleep", "waiting", "relock", "unlock"}
           Holding(p) == p \in {"get_again", "sleep", "unlock"}
           Move(p, q, m, n) ==
              /\ pc[w] = p /\ pc' = [pc EXCEPT ![w] = q] /\ m
              /\ cond_mutex' = n /\ hand' = hand /\ spurious' = spurious
<1>1. /\ Req!TypeOK /\ Req!NoMissedSignal
      /\ NoThread \notin Workers /\ count \in Nat
      /\ \A v \in Workers : cond_mutex = v <=> Holding(pc[v])
      BY ListQueuesAssumption DEF ReqInv, Req!TypeOK
<1>2. /\ UNCHANGED <<first, last, next, count, main, i>>
      /\ \/ Move("get", "lock", TRUE, cond_mutex)
         \/ /\ pc[w] = "handle" /\ pc' = [pc EXCEPT ![w] = "get"]
            /\ hand' = [hand EXCEPT ![w] = Null] /\ UNCHANGED <<cond_mutex, spurious>>
         \/ Move("lock", "get_again", cond_mutex = NoThread, w)
         \/ Move("get_again", "sleep", ~(count > 0), cond_mutex)
         \/ Move("sleep", "waiting", TRUE, NoThread)
         \/ /\ pc[w] = "waiting" /\ pc' = [pc EXCEPT ![w] = "relock"]
            /\ spurious < MaxSpurious /\ spurious' = spurious + 1
            /\ UNCHANGED <<hand, cond_mutex>>
         \/ Move("relock", "unlock", cond_mutex = NoThread, w)
         \/ Move("unlock", "get", hand[w] = Null, NoThread)
         \/ Move("unlock", "handle", TRUE, NoThread)
  <2>1. CASE Req!GetFirst(w)
        BY <2>1 DEF Req!GetFirst, Req!GetRequest, Req!Goto, Req!list
  <2>2. CASE Req!Handle(w)
        BY <2>2 DEF Req!Handle, Req!Goto, Req!list
  <2>3. CASE Req!LockCond(w)
        BY <2>3 DEF Req!LockCond, Req!Goto, Req!list
  <2>4. CASE Req!GetAgain(w)
        BY <2>4 DEF Req!GetAgain, Req!GetRequest, Req!Goto, Req!list
  <2>5. CASE Req!Sleep(w)
        BY <2>5 DEF Req!Sleep, Req!Goto, Req!list
  <2>6. CASE Req!SpuriousWakeup(w)
        BY <2>6 DEF Req!SpuriousWakeup, Req!Goto, Req!list
  <2>7. CASE Req!Relock(w)
        BY <2>7 DEF Req!Relock, Req!Goto, Req!list
  <2>8. CASE Req!UnlockCond(w)
        BY <2>8 DEF Req!UnlockCond, Req!Goto, Req!list
  <2> QED BY <2>1, <2>2, <2>3, <2>4, <2>5, <2>6, <2>7, <2>8 DEF Req!WorkerStep
<1>3. pc \in [Workers -> Places] /\ hand \in [Workers -> Req!Requests \cup {Null}]
      BY <1>1 DEF Req!TypeOK
<1>4. \A v \in Workers : v # w => pc'[v] = pc[v] /\ hand'[v] = hand[v]
      BY <1>2, <1>3
<1>5. \A v \in Workers : cond_mutex' = v <=> Holding(pc'[v])
  <2> TAKE v \in Workers
  <2>1. CASE v = w
        BY <1>1, <1>2, <1>3, <2>1
  <2>2. CASE v # w
        BY <1>1, <1>2, <1>4, <2>2
  <2> QED BY <2>1, <2>2
<1>6. Req!TypeOK'
  <2>1. pc' \in [Workers -> {"get", "handle", "lock", "get_again", "sleep",
                             "waiting", "relock", "unlock"}]
        BY <1>1, <1>2 DEF Req!TypeOK
  <2>2. hand' \in [Workers -> Req!Requests \cup {Null}]
        BY <1>2, <1>3
  <2>3. \A v \in Workers : hand'[v] # Null => pc'[v] \in {"handle", "unlock"}
    <3> TAKE v \in Workers
    <3>1. hand[v] # Null => pc[v] \in {"handle", "unlock"}
          BY <1>1 DEF Req!TypeOK
    <3>2. CASE v = w
          BY <1>2, <1>3, <3>1, <3>2
    <3>3. CASE v # w
          BY <1>4, <3>1, <3>3
    <3> QED BY <3>2, <3>3
  <2>4. cond_mutex' \in Workers \cup {NoThread}
        BY <1>1, <1>2 DEF Req!TypeOK
  <2>5. spurious' \in 0 .. MaxSpurious
    <3>1. spurious \in 0 .. MaxSpurious /\ MaxSpurious \in Nat
          BY <1>1, ListQueuesAssumption DEF Req!TypeOK
    <3>2. spurious' = spurious \/ (spurious < MaxSpurious /\ spurious' = spurious + 1)
          BY <1>2
    <3> QED BY <3>1, <3>2
  <2> QED BY <1>1, <1>2, <2>1, <2>2, <2>3, <2>4, <2>5 DEF Req!TypeOK
<1>7. Req!NoMissedSignal'
  <2> SUFFICES ASSUME count' > 0, \A v \in Workers : pc'[v] \in {"sleep", "waiting"}
               PROVE  main' = "signal"
      BY DEF Req!NoMissedSignal
  <2>1. count > 0 /\ pc'[w] \in {"sleep", "waiting"}
        BY <1>2
  <2>2. pc[w] \in {"sleep", "waiting"}
        BY <1>2, <1>3, <2>1
  <2>3. \A v \in Workers : pc[v] \in {"sleep", "waiting"}
        BY <1>4, <2>2
  <2> QED BY <1>1, <1>2, <2>1, <2>3 DEF Req!NoMissedSignal
<1>8. \A v \in Workers : hand'[v] \in {hand[v], Null}
      BY <1>2, <1>3
<1>9. added' = added /\ (main' = "signal" => i' < Total)
      BY <1>2 DEF added, ReqInv
<1>10. ReqInv' /\ Req!Queued' = Req!Queued
       BY <1>2, <1>5, <1>6, <1>7, <1>8, <1>9, ReqListStays
<1>11. hand' = hand \/ hand' = [hand EXCEPT ![w] = Null]
       BY <1>2
<1> QED BY <1>10, <1>11

LEMMA ReqSignals ==
    ASSUME ReqInv, Req!Signal
    PROVE  ReqInv' /\ Req!Queued' = Req!Queued /\ hand' = hand
<1> DEFINE Places == {"get", "handle", "lock", "get_again", "sleep", "waiting", "relock", "unlock"}
<1>1. /\ main = "signal" /\ cond_mutex = NoThread /\ main' = "add" /\ i' = i + 1
      /\ UNCHANGED <<first, last, next, count, cond_mutex, hand, spurious>>
      /\ \/ Req!Waiting = {} /\ pc' = pc
         \/ \E w \in Req!Waiting : pc' = [pc EXCEPT ![w] = "relock"]
      BY DEF Req!Signal, Req!list
<1>2. /\ Req!TypeOK /\ NoThread \notin Workers /\ i \in Nat /\ i < Total /\ Total \in Nat
      /\ \A v \in Workers : cond_mutex = v <=> pc[v] \in {"get_again", "sleep", "unlock"}
      BY <1>1, ListQueuesAssumption DEF ReqInv, Req!TypeOK
<1>3. \A v \in Workers : /\ hand'[v] \in {hand[v], Null}
                         /\ cond_mutex' = v <=> pc'[v] \in {"get_again", "sleep", "unlock"}
  <2>1. pc \in [Workers -> Places]
        BY <1>2 DEF Req!TypeOK
  <2> QED BY <1>1, <1>2, <2>1 DEF Req!Waiting
<1>4. Req!TypeOK'
  <2>1. pc' \in [Workers -> {"get", "handle", "lock", "get_again", "sleep",
                             "waiting", "relock", "unlock"}]
        /\ \A v \in Workers : hand'[v] # Null => pc'[v] \in {"handle", "unlock"}
        BY <1>1, <1>2 DEF Req!TypeOK, Req!Waiting
  <2> QED BY <1>1, <1>2, <2>1 DEF Req!TypeOK
<1>5. Req!NoMissedSignal'
  <2>1. \E v \in Workers : pc'[v] \notin {"sleep", "waiting"}
    <3>1. \A v \in Workers : pc[v] # "sleep"
          BY <1>1, <1>2
    <3>2. CASE Req!Waiting = {} /\ pc' = pc
      <4>1. PICK v \in Workers : TRUE
            BY ListQueuesAssumption
      <4> QED BY <3>1, <3>2, <4>1 DEF Req!Waiting
    <3>3. CASE \E w \in Req!Waiting : pc' = [pc EXCEPT ![w] = "relock"]
          BY <1>2, <3>3 DEF Req!Waiting, Req!TypeOK
    <3> QED BY <1>1, <3>2, <3>3
  <2> QED BY <2>1 DEF Req!NoMissedSignal
<1>6. added' = added /\ main' # "signal"
      BY <1>1 DEF added
<1> QED BY <1>1, <1>3, <1>4, <1>5, <1>6, ReqListStays

-----------------------------------------------------------------------------
(* proxy2.c *)

LEMMA PoolLine ==
    ASSUME NEW c, IsList(c, first', last', next'), DOMAIN next' = Fds
    PROVE  Pool!Queued' = c
<1>1. IsFiniteSet(DOMAIN next') /\ Null \notin DOMAIN next'
      BY ListQueuesAssumption
<1>2. Chain(first', next') = c
      BY <1>1, ChainOf
<1> QED BY <1>2, SameOperators DEF Pool!Queued

LEMMA PoolReads ==
    ASSUME PoolInv
    PROVE  LET line == Pool!Queued
           IN  /\ DOMAIN next = Fds /\ Null \notin DOMAIN next
               /\ line \in Seq(Fds) /\ Len(line) \in Nat
               /\ IsList(line, first, last, next)
               /\ first = Null <=> Len(line) = 0
               /\ last = Null <=> Len(line) = 0
               /\ line = << >> <=> Len(line) = 0
               /\ Len(line) > 0 => last = line[Len(line)]
               /\ \A k \in 1 .. Len(line) : line[k] \in Fds
<1>1. /\ DOMAIN next = Fds /\ Null \notin DOMAIN next
      /\ IsList(Pool!Queued, first, last, next)
      BY ListQueuesAssumption DEF PoolInv, PoolTypes
<1>2. Pool!Queued \in Seq(Fds)
      BY <1>1 DEF IsList
<1>3. /\ Len(Pool!Queued) \in Nat
      /\ first = Null <=> Len(Pool!Queued) = 0
      /\ last = Null <=> Len(Pool!Queued) = 0
      /\ Pool!Queued = << >> <=> Len(Pool!Queued) = 0
      /\ Len(Pool!Queued) > 0 => last = Pool!Queued[Len(Pool!Queued)]
      /\ \A k \in 1 .. Len(Pool!Queued) : Pool!Queued[k] \in DOMAIN next
      BY <1>1, Ends
<1> QED BY <1>1, <1>2, <1>3

LEMMA PoolStart == ASSUME Pool!Init PROVE PoolInv
<1>1. IsList(<< >>, first, last, next) /\ DOMAIN next = Fds
      BY EmptyList DEF Pool!Init
<1>2. Pool!Queued = << >>
      BY <1>1, ChainOf, ListQueuesAssumption, SameOperators DEF Pool!Queued
<1>3. PoolTypes
      BY DEF Pool!Init, PoolTypes
<1>4. PoolPlaces
      BY ListQueuesAssumption DEF Pool!Init, PoolPlaces
<1>5. Len(<< >>) = 0
      OBVIOUS
<1>6. Owners(<< >>, hand, client_fd, open)
      BY <1>5 DEF Pool!Init, Owners
<1> QED BY <1>1, <1>2, <1>3, <1>4, <1>6 DEF PoolInv

LEMMA PoolAdds ==
    ASSUME PoolInv, Pool!AddJob
    PROVE  /\ PoolInv'
           /\ client_fd \in Fds /\ hand' = hand
           /\ \A k \in 1 .. Len(Pool!Queued) : Pool!Queued[k] # client_fd
           /\ \A w \in Workers : hand[w] # client_fd
           /\ Pool!Queued' = Append(Pool!Queued, client_fd)
<1> DEFINE c == Pool!Queued
           f == client_fd
           d == Append(c, f)
<1>1. /\ DOMAIN next = Fds /\ Null \notin DOMAIN next
      /\ c \in Seq(Fds) /\ Len(c) \in Nat
      /\ IsList(c, first, last, next)
      /\ first = Null <=> Len(c) = 0
      /\ last = Null <=> Len(c) = 0
      /\ Len(c) > 0 => last = c[Len(c)]
      /\ \A k \in 1 .. Len(c) : c[k] \in Fds
      BY PoolReads
<1>2. PoolTypes /\ Owners(c, hand, client_fd, open) /\ PoolPlaces
      BY DEF PoolInv
<1>3. /\ main = "add" /\ main' = "select" /\ queue_mutex = NoThread
      /\ first' = IF last = Null THEN f ELSE first
      /\ last' = f
      /\ next' = [n \in Fds |-> IF n = f THEN Null ELSE IF n = last THEN f ELSE next[n]]
      /\ client_fd' = Null
      /\ UNCHANGED <<shutdown, queue_mutex, hand, open>>
      /\ \/ Pool!Waiting = {} /\ UNCHANGED pc
         \/ \E w \in Pool!Waiting : pc' = [pc EXCEPT ![w] = "lock"]
      BY DEF Pool!AddJob, Pool!Link, Pool!Signal, Pool!MainGoto
<1>4. f \in Fds /\ f \in open /\ f # Null
      BY <1>2, <1>3 DEF PoolPlaces, PoolTypes, Owners
<1>5. (\A k \in 1 .. Len(c) : c[k] # f) /\ last # f
      BY <1>1, <1>2, <1>4 DEF Owners
<1>6. \A w \in Workers : hand[w] # f
      BY <1>2, <1>4 DEF Owners
<1>7. /\ next' \in [Fds -> Fds \cup {Null}] /\ DOMAIN next' = DOMAIN next
      /\ next'[f] = Null
      /\ \A n \in DOMAIN next \ {f} : next'[n] = IF n = last THEN f ELSE next[n]
      BY <1>1, <1>2, <1>3, <1>4 DEF PoolTypes
<1>8. PoolTypes'
  <2>1. pc' \in [Workers -> {"lock", "test", "sleep", "waiting", "check", "handle",
                             "close", "exited"}]
        BY <1>2, <1>3 DEF PoolTypes, Pool!Waiting
  <2> QED BY <1>2, <1>3, <1>7, <2>1 DEF PoolTypes
<1>9. \A w \in Workers : \/ pc'[w] = pc[w]
                         \/ pc[w] = "waiting" /\ pc'[w] = "lock"
      BY <1>2, <1>3 DEF PoolTypes, Pool!Waiting
<1>10. PoolPlaces'
  <2>1. first' # Null
        BY <1>1, <1>3, <1>4
  <2>2. client_fd' = Null /\ main' # "add"
        BY <1>3
  <2>3. ASSUME NEW w \in Workers
        PROVE  /\ hand'[w] # Null => pc'[w] \in {"handle", "close"}
               /\ queue_mutex' = w <=> pc'[w] \in {"test", "sleep", "check"}
        BY <1>2, <1>3, <1>9, <2>3 DEF PoolPlaces
  <2> QED BY <2>1, <2>2, <2>3 DEF PoolPlaces
<1> HIDE DEF c, f
<1>11. IsList(d, first', last', next')
  <2>1. IsList(Append(c, f), IF Len(c) = 0 THEN f ELSE first, f, next')
        BY <1>1, <1>4, <1>5, <1>7, Pushed
  <2> QED BY <1>1, <1>3, <2>1
<1>12. Pool!Queued' = d
       BY <1>1, <1>7, <1>11, PoolLine
<1>13. Len(d) = Len(c) + 1 /\ d[Len(c) + 1] = f /\ \A k \in 1 .. Len(c) : d[k] = c[k]
       BY <1>1, <1>4, AppendProperties
<1>14. /\ \A k \in 1 .. Len(d) : d[k] = f \/ \E l \in 1 .. Len(c) : d[k] = c[l]
       /\ \E k \in 1 .. Len(d) : d[k] = f
       /\ \A l \in 1 .. Len(c) : \E k \in 1 .. Len(d) : d[k] = c[l]
  <2>1. ASSUME NEW k \in 1 .. Len(d) PROVE d[k] = f \/ \E l \in 1 .. Len(c) : d[k] = c[l]
    <3>1. CASE k = Len(c) + 1
          BY <1>13, <3>1
    <3>2. CASE k # Len(c) + 1
      <4>1. k \in 1 .. Len(c)
            BY <1>1, <1>13, <3>2
      <4> QED BY <1>13, <4>1
    <3> QED BY <3>1, <3>2
  <2>2. Len(c) + 1 \in 1 .. Len(d) /\ \A l \in 1 .. Len(c) : l \in 1 .. Len(d)
        BY <1>1, <1>13
  <2> QED BY <1>13, <2>1, <2>2
<1>15. \A g : (\E k \in 1 .. Len(d) : d[k] = g) <=> g = f \/ \E k \in 1 .. Len(c) : c[k] = g
       BY <1>14
<1> HIDE DEF d
<1>16. /\ \A w \in Workers : hand[w] # Null => \A k \in 1 .. Len(d) : d[k] # hand[w]
       /\ \A k \in 1 .. Len(d) : d[k] \in open /\ d[k] # Null
  <2>1. \A l \in 1 .. Len(c) : c[l] \in open /\ c[l] # Null
        BY <1>1, <1>2 DEF Owners
  <2>2. \A w \in Workers : hand[w] # Null => \A l \in 1 .. Len(c) : c[l] # hand[w]
        BY <1>2 DEF Owners
  <2>3. \A k \in 1 .. Len(d) : d[k] \in open /\ d[k] # Null
        BY <1>4, <1>14, <2>1
  <2>4. ASSUME NEW w \in Workers, hand[w] # Null, NEW k \in 1 .. Len(d) PROVE d[k] # hand[w]
        BY <1>6, <1>14, <2>2, <2>4
  <2> QED BY <2>3, <2>4
<1>17. \A g \in open : (\E w \in Workers : hand[w] = g) \/ (\E k \in 1 .. Len(d) : d[k] = g)
       BY <1>2, <1>15 DEF Owners, f
<1>18. Owners(d, hand', client_fd', open')
       BY <1>2, <1>3, <1>16, <1>17 DEF Owners
<1>19. PoolInv'
       BY <1>8, <1>10, <1>11, <1>12, <1>18 DEF PoolInv
<1> QED BY <1>3, <1>4, <1>5, <1>6, <1>12, <1>19 DEF c, d, f

LEMMA PoolTakes ==
    ASSUME PoolInv, NEW w \in Workers, Pool!TakeJob(w)
    PROVE  /\ PoolInv'
           /\ Pool!Queued # << >> /\ hand[w] = Null
           /\ hand' = [hand EXCEPT ![w] = Head(Pool!Queued)]
           /\ Pool!Queued' = Tail(Pool!Queued)
<1> DEFINE c == Pool!Queued
           d == Tail(c)
<1>1. /\ DOMAIN next = Fds /\ Null \notin DOMAIN next
      /\ c \in Seq(Fds) /\ Len(c) \in Nat
      /\ IsList(c, first, last, next)
      /\ first = Null <=> Len(c) = 0
      /\ \A k \in 1 .. Len(c) : c[k] \in Fds
      BY PoolReads
<1>2. PoolTypes /\ Owners(c, hand, client_fd, open) /\ PoolPlaces
      BY DEF PoolInv
<1>3. /\ pc[w] = "check" /\ pc' = [pc EXCEPT ![w] = "handle"]
      /\ first # Null
      /\ hand' = [hand EXCEPT ![w] = first]
      /\ first' = next[first]
      /\ last' = IF next[first] = Null THEN Null ELSE last
      /\ queue_mutex' = NoThread
      /\ UNCHANGED <<next, shutdown, main, client_fd, open>>
      BY DEF Pool!TakeJob, Pool!Goto, Pool!Unlink, Pool!mains
<1>4. hand[w] = Null /\ queue_mutex = w
      BY <1>2, <1>3 DEF PoolPlaces
<1> HIDE DEF c
<1>5. /\ IsList(d, first', last', next')
      /\ Len(d) = Len(c) - 1
      /\ \A k \in 1 .. Len(c) - 1 : d[k] = c[k + 1]
      /\ first = c[1] /\ Head(c) = c[1] /\ c # << >>
  <2>1. Len(c) > 0
        BY <1>1, <1>3
  <2> QED BY <1>1, <1>3, <2>1, Popped
<1>6. Pool!Queued' = d
      BY <1>1, <1>3, <1>5, PoolLine
<1>7. 1 \in 1 .. Len(c) /\ first \in Fds /\ first \in open /\ first # client_fd
  <2>1. 1 \in 1 .. Len(c)
        BY <1>1, <1>3
  <2> QED BY <1>1, <1>2, <1>5, <2>1 DEF Owners
<1>8. hand \in [Workers -> Fds \cup {Null}]
      BY <1>2 DEF PoolTypes
<1>9. PoolTypes'
  <2>1. pc' \in [Workers -> {"lock", "test", "sleep", "waiting", "check", "handle",
                             "close", "exited"}]
        BY <1>2, <1>3 DEF PoolTypes
  <2>2. hand' \in [Workers -> Fds \cup {Null}]
        BY <1>3, <1>7, <1>8
  <2> QED BY <1>2, <1>3, <2>1, <2>2 DEF PoolTypes
<1>10. PoolPlaces'
  <2>1. \A v \in Workers : v # w => hand'[v] = hand[v] /\ pc'[v] = pc[v] /\ queue_mutex # v
        BY <1>2, <1>3, <1>4 DEF PoolTypes
  <2>2. pc'[w] = "handle" /\ NoThread \notin Workers
        BY <1>2, <1>3, ListQueuesAssumption DEF PoolTypes
  <2>3. ASSUME NEW v \in Workers
        PROVE  /\ hand'[v] # Null => pc'[v] \in {"handle", "close"}
               /\ queue_mutex' = v <=> pc'[v] \in {"test", "sleep", "check"}
               /\ pc'[v] # "check"
    <3>1. CASE v = w
          BY <1>3, <2>2, <3>1
    <3>2. CASE v # w
      <4>1. /\ hand[v] # Null => pc[v] \in {"handle", "close"}
            /\ queue_mutex = v <=> pc[v] \in {"test", "sleep", "check"}
            BY <1>2 DEF PoolPlaces
      <4> QED BY <1>3, <2>1, <2>2, <3>2, <4>1
    <3> QED BY <3>1, <3>2
  <2>4. (client_fd # Null <=> main = "add")'
        BY <1>2, <1>3 DEF PoolPlaces
  <2> QED BY <2>3, <2>4 DEF PoolPlaces
<1>11. /\ \A k \in 1 .. Len(d) : k + 1 \in 1 .. Len(c) /\ d[k] = c[k + 1]
       /\ \A k \in 1 .. Len(c) : k = 1 \/ (k - 1 \in 1 .. Len(d) /\ d[k - 1] = c[k])
  <2>1. ASSUME NEW k \in 1 .. Len(d) PROVE k + 1 \in 1 .. Len(c) /\ d[k] = c[k + 1]
        BY <1>1, <1>5
  <2>2. ASSUME NEW k \in 1 .. Len(c) PROVE k = 1 \/ (k - 1 \in 1 .. Len(d) /\ d[k - 1] = c[k])
    <3>1. CASE k # 1
      <4>1. k - 1 \in 1 .. Len(c) - 1 /\ k - 1 + 1 = k
            BY <1>1, <3>1
      <4>2. d[k - 1] = c[k - 1 + 1]
            BY <1>5, <4>1
      <4> QED BY <1>5, <4>1, <4>2
    <3> QED BY <3>1
  <2> QED BY <2>1, <2>2
<1>12. \A k \in 1 .. Len(d) : d[k] # first
  <2> TAKE k \in 1 .. Len(d)
  <2>1. k + 1 \in 1 .. Len(c) /\ d[k] = c[k + 1] /\ k + 1 # 1
        BY <1>11
  <2>2. c[k + 1] = c[1] => k + 1 = 1
        BY <1>1, <1>7, <2>1 DEF IsList
  <2> QED BY <1>5, <2>1, <2>2
<1> HIDE DEF d
<1>13. \A v \in Workers : hand'[v] = IF v = w THEN first ELSE hand[v]
       BY <1>3, <1>8
<1>14. \A k \in 1 .. Len(d) : \E l \in 1 .. Len(c) : d[k] = c[l]
       BY <1>11
<1>15. Owners(d, hand', client_fd', open')
  <2>1. ASSUME NEW v \in Workers, hand'[v] # Null
        PROVE  /\ hand'[v] \in open /\ hand'[v] # client_fd
               /\ \A k \in 1 .. Len(d) : d[k] # hand'[v]
               /\ \A u \in Workers : hand'[u] = hand'[v] => u = v
    <3>1. \A u \in Workers : hand[u] # first
      <4>1. first # Null /\ c[1] = first /\ 1 \in 1 .. Len(c)
            BY <1>3, <1>5, <1>7
      <4> QED BY <1>2, <4>1 DEF Owners
    <3>2. CASE v = w
      <4>1. hand'[v] = first /\ \A u \in Workers : u # w => hand'[u] # first
            BY <1>13, <3>1, <3>2
      <4>2. hand'[v] \in open /\ hand'[v] # client_fd
            BY <1>7, <4>1
      <4>3. \A k \in 1 .. Len(d) : d[k] # hand'[v]
            BY <1>12, <4>1
      <4>4. \A u \in Workers : hand'[u] = hand'[v] => u = v
            BY <3>2, <4>1
      <4> QED BY <4>2, <4>3, <4>4
    <3>3. CASE v # w
      <4>1. hand'[v] = hand[v] /\ hand[v] # Null /\ hand[v] # first
            BY <1>13, <2>1, <3>1, <3>3
      <4>2. /\ hand[v] \in open /\ hand[v] # client_fd
            /\ \A l \in 1 .. Len(c) : c[l] # hand[v]
            /\ \A u \in Workers : hand[u] = hand[v] => u = v
            BY <1>2, <4>1 DEF Owners
      <4>3. \A k \in 1 .. Len(d) : d[k] # hand[v]
            BY <1>14, <4>2
      <4>4. \A u \in Workers : hand'[u] = hand[v] => u = v
            BY <1>13, <4>1, <4>2
      <4> QED BY <4>1, <4>2, <4>3, <4>4
    <3> QED BY <3>2, <3>3
  <2>2. \A k \in 1 .. Len(d) : d[k] \in open /\ d[k] # client_fd
    <3>1. \A k \in 1 .. Len(c) : c[k] \in open /\ c[k] # client_fd
          BY <1>2 DEF Owners
    <3> QED BY <1>14, <3>1
  <2>3. ASSUME NEW f \in open
        PROVE  \/ f = client_fd
               \/ \E v \in Workers : hand'[v] = f
               \/ \E k \in 1 .. Len(d) : d[k] = f
    <3>1. CASE f = client_fd
          BY <3>1
    <3>2. CASE \E v \in Workers : hand[v] = f
      <4>1. PICK v \in Workers : hand[v] = f
            BY <3>2
      <4>2. v # w
            BY <1>2, <1>4, <4>1, ListQueuesAssumption DEF PoolTypes
      <4> QED BY <1>13, <4>1, <4>2
    <3>3. CASE \E k \in 1 .. Len(c) : c[k] = f
      <4>1. PICK k \in 1 .. Len(c) : c[k] = f
            BY <3>3
      <4>2. CASE k = 1
            BY <1>5, <1>13, <4>1, <4>2
      <4>3. CASE k # 1
            BY <1>11, <4>1, <4>3
      <4> QED BY <4>2, <4>3
    <3> QED BY <1>2, <3>1, <3>2, <3>3 DEF Owners
  <2>4. client_fd # Null => client_fd \in open
        BY <1>2 DEF Owners
  <2> QED BY <1>3, <2>1, <2>2, <2>3, <2>4 DEF Owners
<1>16. PoolInv'
       BY <1>5, <1>6, <1>9, <1>10, <1>15 DEF PoolInv
<1> QED BY <1>3, <1>4, <1>5, <1>6, <1>16 DEF c, d

(* A step of a worker that takes and closes nothing. *)
LEMMA PoolMoves ==
    ASSUME PoolInv, NEW w \in Workers,
           \/ Pool!Lock(w) \/ Pool!Test(w) \/ Pool!Sleep(w)
           \/ Pool!SpuriousWakeup(w) \/ Pool!Exit(w) \/ Pool!Handle(w)
    PROVE  PoolInv' /\ Pool!Queued' = Pool!Queued /\ hand' = hand
<1> DEFINE Holding(p) == p \in {"test", "sleep", "check"}
           Move(p, q, m, n) ==
              pc[w] = p /\ pc' = [pc EXCEPT ![w] = q] /\ m /\ queue_mutex' = n
<1>1. /\ UNCHANGED <<first, last, next, shutdown, hand, main, client_fd, open>>
      /\ \/ Move("lock", "test", queue_mutex = NoThread, w)
         \/ Move("test", "sleep", TRUE, queue_mutex)
         \/ Move("test", "check", shutdown \/ first # Null, queue_mutex)
         \/ Move("sleep", "waiting", TRUE, NoThread)
         \/ Move("waiting", "lock", TRUE, queue_mutex)
         \/ Move("check", "exited", TRUE, NoThread)
         \/ Move("handle", "close", TRUE, queue_mutex)
  <2>1. CASE Pool!Lock(w)
        BY <2>1 DEF Pool!Lock, Pool!Goto, Pool!jobs, Pool!mains
  <2>2. CASE Pool!Test(w)
        BY <2>2 DEF Pool!Test, Pool!Goto, Pool!jobs, Pool!mains
  <2>3. CASE Pool!Sleep(w)
        BY <2>3 DEF Pool!Sleep, Pool!Goto, Pool!jobs, Pool!mains
  <2>4. CASE Pool!SpuriousWakeup(w)
        BY <2>4 DEF Pool!SpuriousWakeup, Pool!Goto, Pool!jobs, Pool!mains
  <2>5. CASE Pool!Exit(w)
        BY <2>5 DEF Pool!Exit, Pool!Goto, Pool!jobs, Pool!mains
  <2>6. CASE Pool!Handle(w)
        BY <2>6 DEF Pool!Handle, Pool!Goto, Pool!jobs, Pool!mains
  <2> QED BY <2>1, <2>2, <2>3, <2>4, <2>5, <2>6
<1>2. /\ PoolTypes /\ PoolPlaces /\ NoThread \notin Workers
      /\ IsList(Pool!Queued, first, last, next)
      /\ Owners(Pool!Queued, hand, client_fd, open)
      BY ListQueuesAssumption DEF PoolInv
<1>3. /\ \A v \in Workers : v # w => pc'[v] = pc[v]
      /\ \A v \in Workers : queue_mutex = v <=> Holding(pc[v])
      BY <1>1, <1>2 DEF PoolTypes, PoolPlaces
<1>4. PoolTypes'
  <2>1. pc' \in [Workers -> {"lock", "test", "sleep", "waiting", "check", "handle",
                             "close", "exited"}]
        BY <1>1, <1>2 DEF PoolTypes
  <2> QED BY <1>1, <1>2, <2>1 DEF PoolTypes
<1>5. \A v \in Workers : queue_mutex' = v <=> Holding(pc'[v])
  <2> TAKE v \in Workers
  <2>1. CASE v = w
        BY <1>1, <1>2, <1>3, <2>1 DEF PoolTypes
  <2>2. CASE v # w
        BY <1>1, <1>2, <1>3, <2>2
  <2> QED BY <2>1, <2>2
<1>6. ASSUME NEW v \in Workers
      PROVE  /\ hand[v] # Null => pc'[v] \in {"handle", "close"}
             /\ pc'[v] = "check" /\ ~shutdown => first # Null
  <2>1. /\ hand[v] # Null => pc[v] \in {"handle", "close"}
        /\ pc[v] = "check" /\ ~shutdown => first # Null
        BY <1>2 DEF PoolPlaces
  <2>2. CASE v = w
        BY <1>1, <1>2, <2>1, <2>2 DEF PoolTypes
  <2>3. CASE v # w
        BY <1>3, <2>1, <2>3
  <2> QED BY <2>2, <2>3
<1>7. PoolPlaces'
      BY <1>1, <1>2, <1>5, <1>6 DEF PoolPlaces
<1>8. Pool!Queued' = Pool!Queued
      BY <1>1 DEF Pool!Queued
<1>9. PoolInv'
      BY <1>1, <1>2, <1>4, <1>7, <1>8 DEF PoolInv
<1> QED BY <1>1, <1>8, <1>9

LEMMA PoolCloses ==
    ASSUME PoolInv, NEW w \in Workers, Pool!CloseJob(w)
    PROVE  /\ PoolInv' /\ Pool!Queued' = Pool!Queued
           /\ hand' = [hand EXCEPT ![w] = Null]
<1> DEFINE c == Pool!Queued
<1>1. /\ PoolTypes /\ PoolPlaces /\ Owners(c, hand, client_fd, open)
      /\ IsList(c, first, last, next)
      BY DEF PoolInv
<1>2. /\ pc[w] = "close" /\ pc' = [pc EXCEPT ![w] = "lock"]
      /\ hand' = [hand EXCEPT ![w] = Null]
      /\ open' = open \ {hand[w]}
      /\ UNCHANGED <<first, last, next, shutdown, queue_mutex, main, client_fd>>
      BY DEF Pool!CloseJob, Pool!Goto, Pool!jobs, Pool!mains
<1>3. Pool!Queued' = c
      BY <1>2 DEF Pool!Queued
<1>4. \A v \in Workers : /\ v # w => hand'[v] = hand[v] /\ pc'[v] = pc[v]
                         /\ v = w => hand'[v] = Null /\ pc'[v] = "lock"
      BY <1>1, <1>2 DEF PoolTypes
<1>5. PoolTypes'
  <2>1. /\ pc' \in [Workers -> {"lock", "test", "sleep", "waiting", "check", "handle",
                                "close", "exited"}]
        /\ hand' \in [Workers -> Fds \cup {Null}]
        BY <1>1, <1>2 DEF PoolTypes
  <2> QED BY <1>1, <1>2, <2>1 DEF PoolTypes
<1>6. PoolPlaces'
  <2>1. ASSUME NEW v \in Workers
        PROVE  /\ hand'[v] # Null => pc'[v] \in {"handle", "close"}
               /\ queue_mutex = v <=> pc'[v] \in {"test", "sleep", "check"}
               /\ pc'[v] = "check" /\ ~shutdown => first # Null
        BY <1>1, <1>2, <1>4 DEF PoolPlaces
  <2> QED BY <1>1, <1>2, <2>1 DEF PoolPlaces
<1> HIDE DEF c
<1>7. Owners(c, hand', client_fd', open')
  <2>1. \A f \in open' : f \in open /\ f # hand[w]
        BY <1>2
  <2>2. ASSUME NEW v \in Workers, hand'[v] # Null
        PROVE  /\ hand'[v] \in open' /\ hand'[v] # client_fd
               /\ \A k \in 1 .. Len(c) : c[k] # hand'[v]
               /\ \A u \in Workers : hand'[u] = hand'[v] => u = v
    <3>1. v # w /\ hand'[v] = hand[v] /\ hand[v] # Null
          BY <1>4, <2>2
    <3>2. /\ hand[v] \in open /\ hand[v] # client_fd
          /\ \A k \in 1 .. Len(c) : c[k] # hand[v]
          /\ \A u \in Workers : hand[u] = hand[v] => u = v
          BY <1>1, <3>1 DEF Owners
    <3>3. hand[v] # hand[w]
          BY <3>1, <3>2
    <3>4. \A u \in Workers : hand'[u] = hand[v] => u = v
          BY <1>4, <3>1, <3>2
    <3> QED BY <1>2, <3>1, <3>2, <3>3, <3>4
  <2>3. ASSUME NEW k \in 1 .. Len(c) PROVE c[k] \in open' /\ c[k] # client_fd
    <3>1. c[k] \in open /\ c[k] # client_fd /\ (hand[w] # Null => c[k] # hand[w])
          BY <1>1 DEF Owners
    <3>2. c[k] # Null
          BY <1>1, <3>1, ListQueuesAssumption DEF PoolTypes
    <3> QED BY <1>2, <3>1, <3>2
  <2>4. client_fd # Null => client_fd \in open'
    <3> SUFFICES ASSUME client_fd # Null PROVE client_fd \in open'
        OBVIOUS
    <3>1. client_fd \in open /\ (hand[w] # Null => hand[w] # client_fd)
          BY <1>1 DEF Owners
    <3> QED BY <1>2, <3>1
  <2>5. ASSUME NEW f \in open'
        PROVE  \/ f = client_fd
               \/ \E v \in Workers : hand'[v] = f
               \/ \E k \in 1 .. Len(c) : c[k] = f
    <3>1. CASE \E v \in Workers : hand[v] = f
          BY <1>4, <2>1, <3>1
    <3> QED BY <1>1, <2>1, <3>1 DEF Owners
  <2> QED BY <1>2, <2>2, <2>3, <2>4, <2>5 DEF Owners
<1>8. PoolInv'
      BY <1>1, <1>2, <1>3, <1>5, <1>6, <1>7 DEF PoolInv
<1> QED BY <1>2, <1>3, <1>8 DEF c

(* Main accepts a connection, or closes it again when there is no memory. *)
LEMMA PoolMain ==
    ASSUME PoolInv, (\E f \in Fds : Pool!Accept(f)) \/ Pool!AllocFails
    PROVE  PoolInv' /\ Pool!Queued' = Pool!Queued /\ hand' = hand
<1> DEFINE c == Pool!Queued
<1>1. /\ PoolTypes /\ PoolPlaces /\ Owners(c, hand, client_fd, open)
      /\ IsList(c, first, last, next)
      BY DEF PoolInv
<1>2. /\ UNCHANGED <<first, last, next, shutdown, queue_mutex, pc, hand>>
      /\ \/ /\ main = "select" /\ main' = "add"
            /\ client_fd' \in Fds /\ client_fd' \notin open
            /\ open' = open \cup {client_fd'}
         \/ /\ main = "add" /\ main' = "select"
            /\ client_fd' = Null /\ open' = open \ {client_fd}
      BY DEF Pool!Accept, Pool!AllocFails, Pool!MainGoto, Pool!jobs, Pool!worker
<1>3. Pool!Queued' = c
      BY <1>2 DEF Pool!Queued
<1>4. PoolTypes'
      BY <1>1, <1>2 DEF PoolTypes
<1>5. PoolPlaces'
      BY <1>1, <1>2, ListQueuesAssumption DEF PoolPlaces
<1> HIDE DEF c
<1>6. Null \notin open
      BY <1>1, ListQueuesAssumption DEF PoolTypes
<1>7. Owners(c, hand, client_fd', open')
  <2>1. CASE main = "select"
    <3>1. client_fd = Null /\ client_fd' \notin open /\ open' = open \cup {client_fd'}
          BY <1>1, <1>2, <2>1 DEF PoolPlaces
    <3> QED BY <1>1, <1>6, <3>1 DEF Owners
  <2>2. CASE main = "add"
    <3>1. client_fd # Null /\ client_fd' = Null /\ open' = open \ {client_fd}
          BY <1>1, <1>2, <2>2 DEF PoolPlaces
    <3> QED BY <1>1, <1>6, <3>1 DEF Owners
  <2> QED BY <1>2, <2>1, <2>2
<1>8. PoolInv'
      BY <1>1, <1>2, <1>3, <1>4, <1>5, <1>7 DEF PoolInv
<1> QED BY <1>2, <1>3, <1>8 DEF c

(* Main leaves its loop and tells the workers. *)
LEMMA PoolEnds ==
    ASSUME PoolInv, Pool!SelectFails \/ Pool!ShutdownStep
    PROVE  PoolInv' /\ Pool!Queued' = Pool!Queued /\ hand' = hand
<1>1. /\ PoolTypes /\ PoolPlaces /\ Owners(Pool!Queued, hand, client_fd, open)
      /\ IsList(Pool!Queued, first, last, next)
      BY DEF PoolInv
<1>2. /\ UNCHANGED <<first, last, next, queue_mutex, hand, client_fd, open>>
      /\ main # "add" /\ main' \in {"shutdown", "broadcast", "join", "destroyed"}
      /\ shutdown' = shutdown \/ shutdown' = TRUE
      /\ pc' = pc \/ pc' = [w \in Workers |-> IF w \in Pool!Waiting THEN "lock" ELSE pc[w]]
      BY DEF Pool!SelectFails, Pool!ShutdownStep, Pool!SetShutdown, Pool!Broadcast, Pool!JoinAll,
             Pool!MainGoto, Pool!jobs, Pool!worker
<1>3. \A w \in Workers : pc'[w] = pc[w] \/ (pc[w] = "waiting" /\ pc'[w] = "lock")
      BY <1>2 DEF Pool!Waiting
<1>4. PoolTypes'
  <2>1. pc' \in [Workers -> {"lock", "test", "sleep", "waiting", "check", "handle",
                             "close", "exited"}]
        BY <1>1, <1>2 DEF PoolTypes
  <2> QED BY <1>1, <1>2, <2>1 DEF PoolTypes
<1>5. PoolPlaces'
  <2>1. ASSUME NEW w \in Workers
        PROVE  /\ hand[w] # Null => pc'[w] \in {"handle", "close"}
               /\ queue_mutex = w <=> pc'[w] \in {"test", "sleep", "check"}
               /\ pc'[w] = "check" /\ ~shutdown' => first # Null
        BY <1>1, <1>2, <1>3 DEF PoolPlaces
  <2> QED BY <1>1, <1>2, <2>1 DEF PoolPlaces
<1>6. Pool!Queued' = Pool!Queued
      BY <1>2 DEF Pool!Queued
<1>7. PoolInv'
      BY <1>1, <1>2, <1>4, <1>5, <1>6 DEF PoolInv
<1> QED BY <1>2, <1>6, <1>7

-----------------------------------------------------------------------------
(* The three together *)

(* Where there is a list, its chain is the sequence of its nodes. *)
LEMMA OneLine ==
    /\ Task!Queued = Chain(first, next) /\ Req!Queued = Chain(first, next)
    /\ Pool!Queued = Chain(first, next)
    /\ Task!Queued' = Chain(first, next)' /\ Req!Queued' = Chain(first, next)'
    /\ Pool!Queued' = Chain(first, next)'
BY SameOperators DEF Task!Queued, Req!Queued, Pool!Queued

LEMMA Submits ==
    ASSUME NEW c, NEW S, c \in Seq(S), Chain(first, next) = c, NEW x \in Items,
           \A k \in 1 .. Len(c) : c[k] # x, \A w \in Workers : hand[w] # x,
           Chain(first, next)' = Append(c, x), hand' = hand
    PROVE  Work!Next
<1>1. DOMAIN c = 1 .. Len(c)
      BY LenProperties
<1>2. x \notin Work!ToSet(Chain(first, next))
      BY <1>1 DEF Work!ToSet
<1>3. Work!Submit(x)
      BY <1>2 DEF Work!Submit
<1> QED BY <1>3 DEF Work!Next

LEMMA Takes ==
    ASSUME NEW c, Chain(first, next) = c, NEW w \in Workers, c # << >>, hand[w] = Null,
           Chain(first, next)' = Tail(c), hand' = [hand EXCEPT ![w] = Head(c)]
    PROVE  Work!Next
BY DEF Work!Take, Work!Next

LEMMA Finishes ==
    ASSUME NEW S, hand \in [Workers -> S], NEW w \in Workers,
           Chain(first, next)' = Chain(first, next),
           hand' = hand \/ hand' = [hand EXCEPT ![w] = Null]
    PROVE  [Work!Next]_(Work!workVars)
<1>1. CASE hand' = hand
      BY <1>1 DEF Work!workVars
<1>2. CASE hand' = [hand EXCEPT ![w] = Null] /\ hand[w] # Null
      BY <1>2 DEF Work!Finish, Work!Next
<1>3. CASE hand' = [hand EXCEPT ![w] = Null] /\ hand[w] = Null
  <2>1. hand' = hand
        BY <1>3
  <2> QED BY <2>1 DEF Work!workVars
<1> QED BY <1>1, <1>2, <1>3

LEMMA TaskStep ==
    ASSUME TaskInv, Task!Next
    PROVE  TaskInv' /\ [Work!Next]_(Work!workVars)
<1>1. /\ Task!Queued \in Seq(Task!Ids) /\ hand \in [Workers -> Task!Ids \cup {Null}]
      BY TaskReads DEF TaskInv, Task!TypeOK
<1>2. ASSUME NEW p \in Producers, Task!AddTask(p)
      PROVE  TaskInv' /\ [Work!Next]_(Work!workVars)
  <2>1. /\ TaskInv' /\ task_id_counter \in Task!Ids
        /\ \A k \in 1 .. Len(Task!Queued) : Task!Queued[k] # task_id_counter
        /\ Task!Queued' = Append(Task!Queued, task_id_counter)
        BY <1>2, TaskAdds
  <2>2. hand' = hand /\ task_id_counter \in Items
        BY <1>2, <2>1 DEF Task!AddTask, Items
  <2>3. \A w \in Workers : hand[w] # task_id_counter
    <3> SUFFICES ASSUME NEW w \in Workers, hand[w] = task_id_counter PROVE FALSE
        OBVIOUS
    <3>1. hand[w] # Null /\ hand[w] < Len(started)
          BY <2>1, TaskIds DEF TaskInv
    <3>2. task_id_counter = Len(started) + Len(Task!Queued)
          /\ Len(started) \in Nat /\ Len(Task!Queued) \in Nat
          BY TaskReads
    <3> QED BY <3>1, <3>2
  <2>4. Work!Next
        BY <1>1, <2>1, <2>2, <2>3, OneLine, Submits
  <2> QED BY <2>1, <2>4
<1>3. ASSUME NEW p \in Producers, Task!RejectTask(p) \/ Task!AllocFails(p)
      PROVE  TaskInv' /\ [Work!Next]_(Work!workVars)
  <2>1. TaskInv' /\ Task!Queued' = Task!Queued /\ hand' = hand
        BY <1>3, TaskSkips
  <2> QED BY <2>1, OneLine DEF Work!workVars
<1>4. ASSUME NEW w \in Workers, Task!GetTask(w)
      PROVE  TaskInv' /\ [Work!Next]_(Work!workVars)
  <2>1. /\ TaskInv'
        /\ Task!Queued # << >> /\ hand[w] = Null
        /\ hand' = [hand EXCEPT ![w] = Head(Task!Queued)]
        /\ Task!Queued' = Tail(Task!Queued)
        BY <1>4, TaskTakes
  <2> QED BY <2>1, OneLine, Takes
<1>5. ASSUME NEW w \in Workers,
             Task!Wait(w) \/ Task!ProcessTask(w) \/ Task!SpuriousWakeup(w)
      PROVE  TaskInv' /\ [Work!Next]_(Work!workVars)
  <2>1. /\ TaskInv' /\ Task!Queued' = Task!Queued
        /\ hand' = hand \/ hand' = [hand EXCEPT ![w] = Null]
        BY <1>5, TaskMoves
  <2> QED BY <1>1, <2>1, OneLine, Finishes
<1> QED BY <1>2, <1>3, <1>4, <1>5 DEF Task!Next, Task!ProducerStep, Task!WorkerStep

LEMMA ReqStep ==
    ASSUME ReqInv, Req!Next
    PROVE  ReqInv' /\ [Work!Next]_(Work!workVars)
<1>1. /\ Req!Queued \in Seq(Req!Requests) /\ hand \in [Workers -> Req!Requests \cup {Null}]
      BY ReqReads DEF Req!TypeOK
<1>2. CASE Req!AddRequest
  <2>1. /\ ReqInv' /\ i \in Req!Requests /\ hand' = hand
        /\ \A k \in 1 .. Len(Req!Queued) : Req!Queued[k] # i
        /\ \A w \in Workers : hand[w] # i
        /\ Req!Queued' = Append(Req!Queued, i)
        BY <1>2, ReqAdds
  <2>2. i \in Items
        BY <2>1 DEF Items
  <2> QED BY <1>1, <2>1, <2>2, OneLine, Submits
<1>3. CASE Req!Signal
  <2>1. ReqInv' /\ Req!Queued' = Req!Queued /\ hand' = hand
        BY <1>3, ReqSignals
  <2> QED BY <2>1, OneLine DEF Work!workVars
<1>4. ASSUME NEW w \in Workers, Req!GetFirst(w) \/ Req!GetAgain(w), count > 0
      PROVE  ReqInv' /\ [Work!Next]_(Work!workVars)
  <2>1. /\ ReqInv'
        /\ Req!Queued # << >> /\ hand[w] = Null
        /\ hand' = [hand EXCEPT ![w] = Head(Req!Queued)]
        /\ Req!Queued' = Tail(Req!Queued)
        BY <1>4, ReqTakes
  <2> QED BY <2>1, OneLine, Takes
<1>5. ASSUME NEW w \in Workers, Req!WorkerStep(w) \/ Req!SpuriousWakeup(w),
             (Req!GetFirst(w) \/ Req!GetAgain(w)) => ~(count > 0)
      PROVE  ReqInv' /\ [Work!Next]_(Work!workVars)
  <2>1. /\ ReqInv' /\ Req!Queued' = Req!Queued
        /\ hand' = hand \/ hand' = [hand EXCEPT ![w] = Null]
        BY <1>5, ReqMoves
  <2> QED BY <1>1, <2>1, OneLine, Finishes
<1> QED BY <1>2, <1>3, <1>4, <1>5 DEF Req!Next, Req!MainStep

LEMMA PoolStep ==
    ASSUME PoolInv, Pool!Next
    PROVE  PoolInv' /\ [Work!Next]_(Work!workVars)
<1>1. Pool!Queued \in Seq(Fds) /\ hand \in [Workers -> Fds \cup {Null}]
      BY PoolReads DEF PoolInv, PoolTypes
<1>2. CASE Pool!AddJob
  <2>1. /\ PoolInv' /\ client_fd \in Fds /\ hand' = hand
        /\ \A k \in 1 .. Len(Pool!Queued) : Pool!Queued[k] # client_fd
        /\ \A w \in Workers : hand[w] # client_fd
        /\ Pool!Queued' = Append(Pool!Queued, client_fd)
        BY <1>2, PoolAdds
  <2>2. client_fd \in Items
        BY <2>1 DEF Items
  <2> QED BY <1>1, <2>1, <2>2, OneLine, Submits
<1>3. CASE (\E f \in Fds : Pool!Accept(f)) \/ Pool!AllocFails \/ Pool!SelectFails \/ Pool!ShutdownStep
  <2>1. PoolInv' /\ Pool!Queued' = Pool!Queued /\ hand' = hand
        BY <1>3, PoolMain, PoolEnds
  <2> QED BY <2>1, OneLine DEF Work!workVars
<1>4. ASSUME NEW w \in Workers, Pool!TakeJob(w)
      PROVE  PoolInv' /\ [Work!Next]_(Work!workVars)
  <2>1. /\ PoolInv'
        /\ Pool!Queued # << >> /\ hand[w] = Null
        /\ hand' = [hand EXCEPT ![w] = Head(Pool!Queued)]
        /\ Pool!Queued' = Tail(Pool!Queued)
        BY <1>4, PoolTakes
  <2> QED BY <2>1, OneLine, Takes
<1>5. ASSUME NEW w \in Workers, Pool!CloseJob(w)
      PROVE  PoolInv' /\ [Work!Next]_(Work!workVars)
  <2>1. /\ PoolInv' /\ Pool!Queued' = Pool!Queued
        /\ hand' = [hand EXCEPT ![w] = Null]
        BY <1>5, PoolCloses
  <2> QED BY <1>1, <2>1, OneLine, Finishes
<1>6. ASSUME NEW w \in Workers,
             \/ Pool!Lock(w) \/ Pool!Test(w) \/ Pool!Sleep(w)
             \/ Pool!SpuriousWakeup(w) \/ Pool!Exit(w) \/ Pool!Handle(w)
      PROVE  PoolInv' /\ [Work!Next]_(Work!workVars)
  <2>1. PoolInv' /\ Pool!Queued' = Pool!Queued /\ hand' = hand
        BY <1>6, PoolMoves
  <2> QED BY <2>1, OneLine DEF Work!workVars
<1> QED BY <1>2, <1>3, <1>4, <1>5, <1>6 DEF Pool!Next, Pool!WorkerStep, Pool!AddStep

LEMMA ListStart == ASSUME MCInit PROVE LInv /\ Work!Init
<1>1. CASE IsTask /\ Task!Init
  <2>1. TaskInv /\ ~IsReq /\ ~IsPool
        BY <1>1, TaskStart DEF IsTask, IsReq, IsPool
  <2>2. IsList(<< >>, first, last, next) /\ DOMAIN next = Task!Ids
        BY <1>1, EmptyList DEF Task!Init
  <2>3. Chain(first, next) = << >>
        BY <2>2, ChainOf, TaskIds
  <2> QED BY <1>1, <2>1, <2>3 DEF LInv, Work!Init, Task!Init, IsTask
<1>2. CASE IsReq /\ Req!Init
  <2>1. ReqInv /\ ~IsTask /\ ~IsPool
        BY <1>2, ReqStart DEF IsTask, IsReq, IsPool
  <2>2. IsList(<< >>, first, last, next) /\ DOMAIN next = Req!Requests
        BY <1>2, EmptyList DEF Req!Init
  <2>3. Chain(first, next) = << >>
        BY <2>2, ChainOf, RequestNumbers
  <2> QED BY <1>2, <2>1, <2>3 DEF LInv, Work!Init, Req!Init, IsReq
<1>3. CASE IsPool /\ Pool!Init
  <2>1. PoolInv /\ ~IsTask /\ ~IsReq
        BY <1>3, PoolStart DEF IsTask, IsReq, IsPool
  <2>2. IsList(<< >>, first, last, next) /\ DOMAIN next = Fds
        BY <1>3, EmptyList DEF Pool!Init
  <2>3. Chain(first, next) = << >>
        BY <2>2, ChainOf, ListQueuesAssumption
  <2> QED BY <1>3, <2>1, <2>3 DEF LInv, Work!Init, Pool!Init, IsPool
<1> QED BY <1>1, <1>2, <1>3 DEF MCInit

LEMMA ListStep ==
    ASSUME LInv, [MCNext]_mcVars
    PROVE  LInv' /\ [Work!Next]_(Work!workVars)
<1>1. CASE InTask(Task!Next)
  <2>1. IsTask /\ Task!Next /\ program' = program /\ ~IsReq /\ ~IsPool
        BY <1>1 DEF InTask, IsTask, IsReq, IsPool
  <2>2. TaskInv' /\ [Work!Next]_(Work!workVars)
        BY <2>1, TaskStep DEF LInv
  <2>3. LInv'
        BY <2>1, <2>2 DEF LInv, IsTask, IsReq, IsPool
  <2> QED BY <2>2, <2>3
<1>2. CASE InReq(Req!Next)
  <2>1. IsReq /\ Req!Next /\ program' = program /\ ~IsTask /\ ~IsPool
        BY <1>2 DEF InReq, IsTask, IsReq, IsPool
  <2>2. ReqInv' /\ [Work!Next]_(Work!workVars)
        BY <2>1, ReqStep DEF LInv
  <2>3. LInv'
        BY <2>1, <2>2 DEF LInv, IsTask, IsReq, IsPool
  <2> QED BY <2>2, <2>3
<1>3. CASE InPool(Pool!Next)
  <2>1. IsPool /\ Pool!Next /\ program' = program /\ ~IsTask /\ ~IsReq
        BY <1>3 DEF InPool, IsTask, IsReq, IsPool
  <2>2. PoolInv' /\ [Work!Next]_(Work!workVars)
        BY <2>1, PoolStep DEF LInv
  <2>3. LInv'
        BY <2>1, <2>2 DEF LInv, IsTask, IsReq, IsPool
  <2> QED BY <2>2, <2>3
<1>4. CASE UNCHANGED mcVars
  <2>1. /\ UNCHANGED <<program, first, last, next, count, pc, hand, spurious, main,
                       task_id_counter, round, started, cond_mutex, i, shutdown,
                       queue_mutex, client_fd, open>>
        BY <1>4 DEF mcVars, taskVars, reqVars, poolVars
  <2>2. Task!Queued' = Task!Queued /\ Req!Queued' = Req!Queued /\ Pool!Queued' = Pool!Queued
        BY <2>1 DEF Task!Queued, Req!Queued, Pool!Queued
  <2>3. IsTask => TaskInv'
        BY <2>1, <2>2 DEF LInv, TaskInv, Task!TypeOK, Offered
  <2>4. IsReq => ReqInv'
        BY <2>1, <2>2 DEF LInv, ReqInv, Req!TypeOK, Req!NoMissedSignal, added
  <2>5. IsPool => PoolInv'
        BY <2>1, <2>2 DEF LInv, PoolInv, PoolTypes, PoolPlaces
  <2>6. Chain(first, next)' = Chain(first, next)
        BY <2>1
  <2> QED BY <2>1, <2>3, <2>4, <2>5, <2>6 DEF LInv, IsTask, IsReq, IsPool, Work!workVars
<1> QED BY <1>1, <1>2, <1>3, <1>4 DEF MCNext

(* The three invariants, of whichever program runs. *)
THEOREM ListsInductive == MCSpec => []LInv
<1>1. MCInit => LInv
      BY ListStart
<1>2. LInv /\ [MCNext]_mcVars => LInv'
      BY ListStep
<1> QED BY <1>1, <1>2, PTL DEF MCSpec

(* pr12task1.c, pr12task2.c, proxy2.c: the list can be read at its first   *)
(* node and appended to at its last, whatever order producers and workers  *)
(* come in, and the count is its length.                                   *)
THEOREM CountsAlwaysMatch == MCSpec => []CountMatchesList
<1>1. ASSUME LInv PROVE CountMatchesList
  <2>1. IsTask => Task!TypeOK /\ Task!CountMatchesList
    <3> SUFFICES ASSUME IsTask PROVE Task!TypeOK /\ Task!CountMatchesList
        OBVIOUS
    <3>1. TaskInv
          BY <1>1 DEF LInv
    <3>2. DOMAIN next = Task!Ids /\ IsList(Chain(first, next), first, last, next)
          BY <3>1, TaskReads, OneLine
    <3>3. WellFormed(first, last, next)
          BY <3>2, TaskIds, ListWellFormed
    <3> QED BY <3>1, <3>3, SameShape DEF TaskInv, Task!CountMatchesList
  <2>2. IsReq => Req!TypeOK /\ Req!CountMatchesList
    <3> SUFFICES ASSUME IsReq PROVE Req!TypeOK /\ Req!CountMatchesList
        OBVIOUS
    <3>1. ReqInv
          BY <1>1 DEF LInv
    <3>2. DOMAIN next = Req!Requests /\ IsList(Chain(first, next), first, last, next)
          BY <3>1, ReqReads, OneLine
    <3>3. WellFormed(first, last, next)
          BY <3>2, RequestNumbers, ListWellFormed
    <3> QED BY <3>1, <3>3, SameShape DEF ReqInv, Req!CountMatchesList
  <2>3. IsPool => Pool!ListReady
    <3> SUFFICES ASSUME IsPool PROVE Pool!ListReady
        OBVIOUS
    <3>1. PoolInv
          BY <1>1 DEF LInv
    <3>2. DOMAIN next = Fds /\ IsList(Chain(first, next), first, last, next)
          BY <3>1, PoolReads, OneLine
    <3>3. WellFormed(first, last, next)
          BY <3>2, ListQueuesAssumption, ListWellFormed
    <3> QED BY <3>1, <3>3, SameShape DEF PoolInv, PoolPlaces, Pool!ListReady
  <2> QED BY <2>1, <2>2, <2>3 DEF CountMatchesList
<1> QED BY <1>1, ListsInductive, PTL

(* pr12task1.c: the ids of the tasks taken and of those in the list are    *)
(* 0, 1, 2, ... without gap or repetition.                                 *)
THEOREM TasksStartInOrder == MCSpec => []StartedInOrder
<1>1. ASSUME LInv PROVE StartedInOrder
  <2> SUFFICES ASSUME IsTask PROVE Task!StartedInOrder
      BY DEF StartedInOrder
  <2> DEFINE c == Task!Queued
             s == started
             n == task_id_counter
  <2>1. /\ c \in Seq(Task!Ids) /\ s \in Seq(Task!Ids) /\ Len(c) \in Nat /\ Len(s) \in Nat
        /\ n = Len(s) + Len(c)
        /\ \A k \in 1 .. Len(c) : c[k] = Len(s) + k - 1
        BY <1>1, TaskReads DEF LInv
  <2>2. \A k \in 1 .. Len(s) : s[k] = k - 1
        BY <1>1 DEF LInv, TaskInv
  <2> HIDE DEF c, s, n
  <2>3. /\ s \o c \in Seq(Task!Ids) /\ Len(s \o c) = Len(s) + Len(c)
        /\ \A k \in 1 .. Len(s) + Len(c) :
              (s \o c)[k] = IF k <= Len(s) THEN s[k] ELSE c[k - Len(s)]
        BY <2>1, ConcatProperties
  <2>4. \A k \in 1 .. n : (s \o c)[k] = k - 1
    <3> TAKE k \in 1 .. n
    <3>1. CASE k <= Len(s)
          BY <2>1, <2>2, <2>3, <3>1
    <3>2. CASE ~(k <= Len(s))
      <4>1. k - Len(s) \in 1 .. Len(c)
            BY <2>1, <3>2
      <4>2. (s \o c)[k] = c[k - Len(s)] /\ c[k - Len(s)] = Len(s) + (k - Len(s)) - 1
            BY <2>1, <2>3, <3>2, <4>1
      <4> QED BY <2>1, <4>2
    <3> QED BY <3>1, <3>2
  <2>5. s \o c = [k \in 1 .. n |-> (s \o c)[k]]
        BY <2>1, <2>3, LenProperties
  <2>6. s \o c = [k \in 1 .. n |-> k - 1]
        BY <2>4, <2>5
  <2> QED BY <2>6 DEF Task!StartedInOrder, c, s, n
<1> QED BY <1>1, ListsInductive, PTL

(* pr12task2.c: when a request is queued and no handler is awake to see    *)
(* it, main has yet to signal.                                             *)
THEOREM NoSignalIsMissed == MCSpec => []NoMissedSignal
<1>1. LInv => NoMissedSignal
      BY DEF LInv, ReqInv, NoMissedSignal
<1> QED BY <1>1, ListsInductive, PTL

(* A set with at most one element, counted. *)
LEMMA AtMostOne ==
    ASSUME NEW S, \A a, b \in S : a = b
    PROVE  Cardinality(S) = IF S = {} THEN 0 ELSE 1
<1>1. CASE S = {}
      BY <1>1, FS_EmptySet
<1>2. CASE S # {}
  <2>1. PICK a \in S : TRUE
        BY <1>2
  <2>2. S = {a}
        BY <2>1
  <2> QED BY <1>2, <2>2, FS_Singleton
<1> QED BY <1>1, <1>2

(* proxy2.c: every descriptor that accept returned and nobody closed is    *)
(* with main, in the list or with one worker, exactly once.                *)
THEOREM EveryFdHasOneOwner == MCSpec => []FdOwnership
<1>1. ASSUME LInv PROVE FdOwnership
  <2> SUFFICES ASSUME IsPool PROVE Pool!FdOwnership
      BY DEF FdOwnership
  <2> DEFINE c == Pool!Queued
  <2>1. /\ c \in Seq(Fds) /\ IsList(c, first, last, next)
        BY <1>1, PoolReads DEF LInv
  <2>2. Owners(c, hand, client_fd, open) /\ DOMAIN c = 1 .. Len(c)
        BY <1>1, <2>1, LenProperties DEF LInv, PoolInv
  <2> HIDE DEF c
  <2>3. ASSUME NEW f \in Fds
        PROVE  Cardinality({k \in DOMAIN c : c[k] = f})
                 + Cardinality({w \in Workers : hand[w] = f})
                 + (IF client_fd = f THEN 1 ELSE 0)
               = IF f \in open THEN 1 ELSE 0
    <3> DEFINE Q == {k \in DOMAIN c : c[k] = f}
               W == {w \in Workers : hand[w] = f}
    <3>0. f # Null
          BY ListQueuesAssumption
    <3>1. \A a, b \in Q : a = b
          BY <2>1, <2>2 DEF IsList
    <3>2. \A a, b \in W : a = b
          BY <2>2, <3>0 DEF Owners
    <3>3. /\ Q # {} => f \in open /\ W = {} /\ client_fd # f
          /\ W # {} => f \in open /\ client_fd # f
          /\ client_fd = f => f \in open
          BY <2>2, <3>0 DEF Owners
    <3>4. f \in open => Q # {} \/ W # {} \/ client_fd = f
          BY <2>2 DEF Owners
    <3> HIDE DEF Q, W
    <3>5. /\ Cardinality(Q) = IF Q = {} THEN 0 ELSE 1
          /\ Cardinality(W) = IF W = {} THEN 0 ELSE 1
          BY <3>1, <3>2, AtMostOne
    <3>6. Cardinality(Q) + Cardinality(W) + (IF client_fd = f THEN 1 ELSE 0)
            = IF f \in open THEN 1 ELSE 0
          BY <3>3, <3>4, <3>5
    <3> QED BY <3>6 DEF Q, W
  <2> QED BY <2>3, SameOperators DEF Pool!FdOwnership, c
<1> QED BY <1>1, ListsInductive, PTL

(* All three hand out work first in first out, each item to one worker.    *)
THEOREM ListsAreWorkQueues == MCSpec => ImplementsWorkQueue
<1>1. MCInit => Work!Init
      BY ListStart
<1>2. LInv /\ [MCNext]_mcVars => [Work!Next]_(Work!workVars)
      BY ListStep
<1> QED BY <1>1, <1>2, ListsInductive, PTL DEF MCSpec, ImplementsWorkQueue, Work!Spec
=============================================================================
