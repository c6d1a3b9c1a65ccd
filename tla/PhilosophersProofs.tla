------------------------- MODULE PhilosophersProofs -------------------------
(***************************************************************************)
(* Proofs about the two dining programs, for any number of philosophers,   *)
(* even or odd.                                                            *)
(***************************************************************************)
EXTENDS MCExercises, TLAPS

(* The ring without a remainder. *)
LEMMA RightIs ==
    /\ \A p \in Ordered!Philosophers : Ordered!Right(p) = IF p = N - 1 THEN 0 ELSE p + 1
    /\ \A p \in Try!Philosophers : Try!Right(p) = IF p = N - 1 THEN 0 ELSE p + 1
BY PhilosophersAssumption, Z3 DEF Ordered!Philosophers, Ordered!Right, Try!Philosophers, Try!Right

(* Who sits where: two different forks, and every fork has one left and    *)
(* one right user.                                                         *)
LEMMA OrderedSeats ==
    /\ \A p \in Ordered!Philosophers :
          /\ p # NoOne
          /\ Ordered!Right(p) \in Ordered!Philosophers
          /\ Ordered!First(p) \in Ordered!Philosophers /\ Ordered!Second(p) \in Ordered!Philosophers
          /\ Ordered!Right(p) # p /\ Ordered!First(p) # Ordered!Second(p)
          /\ p \in {Ordered!First(p), Ordered!Second(p)} /\ Ordered!Right(p) \in {Ordered!First(p), Ordered!Second(p)}
    /\ \A p, q \in Ordered!Philosophers : Ordered!Right(p) = Ordered!Right(q) => p = q
<1>1. \A p \in Ordered!Philosophers : Ordered!Right(p) \in Ordered!Philosophers /\ Ordered!Right(p) # p
      BY PhilosophersAssumption, RightIs DEF Ordered!Philosophers
<1>2. \A p, q \in Ordered!Philosophers : Ordered!Right(p) = Ordered!Right(q) => p = q
      BY PhilosophersAssumption, RightIs DEF Ordered!Philosophers
<1>3. \A p \in Ordered!Philosophers : p # NoOne
      BY PhilosophersAssumption DEF Ordered!Philosophers
<1> QED BY <1>1, <1>2, <1>3 DEF Ordered!First, Ordered!Second, Ordered!LeftFirst

(* A fork that is taken is held by one of its two users. *)
OrderedHolder ==
    \A f \in Ordered!Philosophers : forks[f] # NoOne =>
        f = Ordered!First(forks[f]) \/ f = Ordered!Second(forks[f])

OrderedInv == Ordered!TypeOK /\ Ordered!HoldsForks /\ OrderedHolder

(* One step of one philosopher keeps the invariant. *)
LEMMA OrderedStep ==
    ASSUME OrderedInv, NEW p \in Ordered!Philosophers, Ordered!Hunger(p) \/ Ordered!EatStep(p)
    PROVE  OrderedInv'
<1> USE OrderedSeats DEF OrderedInv, Ordered!Goto
<1>2. CASE Ordered!Hunger(p)
  <2>1. Ordered!TypeOK'
        BY <1>2 DEF Ordered!TypeOK, Ordered!Hunger
  <2>2. Ordered!HoldsForks'
        BY <1>2 DEF Ordered!TypeOK, Ordered!Hunger, Ordered!HoldsForks
  <2>3. OrderedHolder'
        BY <1>2 DEF Ordered!TypeOK, Ordered!Hunger, Ordered!HoldsForks, OrderedHolder
  <2> QED BY <2>1, <2>2, <2>3
<1>3. CASE Ordered!GrabFirst(p)
  <2>1. Ordered!TypeOK'
        BY <1>3 DEF Ordered!TypeOK, Ordered!GrabFirst, Ordered!Grab
  <2>2. Ordered!HoldsForks'
        BY <1>3 DEF Ordered!TypeOK, Ordered!GrabFirst, Ordered!Grab, Ordered!HoldsForks
  <2>3. OrderedHolder'
        BY <1>3 DEF Ordered!TypeOK, Ordered!GrabFirst, Ordered!Grab, Ordered!HoldsForks, OrderedHolder
  <2> QED BY <2>1, <2>2, <2>3
<1>4. CASE Ordered!GrabSecond(p)
  <2>1. Ordered!TypeOK'
        BY <1>4 DEF Ordered!TypeOK, Ordered!GrabSecond, Ordered!Grab
  <2>2. Ordered!HoldsForks'
        BY <1>4 DEF Ordered!TypeOK, Ordered!GrabSecond, Ordered!Grab, Ordered!HoldsForks
  <2>3. OrderedHolder'
        BY <1>4 DEF Ordered!TypeOK, Ordered!GrabSecond, Ordered!Grab, Ordered!HoldsForks, OrderedHolder
  <2> QED BY <2>1, <2>2, <2>3
<1>5. CASE Ordered!DropSecond(p)
  <2>1. Ordered!TypeOK'
        BY <1>5 DEF Ordered!TypeOK, Ordered!DropSecond, Ordered!Drop
  <2>2. Ordered!HoldsForks'
        BY <1>5 DEF Ordered!TypeOK, Ordered!DropSecond, Ordered!Drop, Ordered!HoldsForks
  <2>3. OrderedHolder'
        BY <1>5 DEF Ordered!TypeOK, Ordered!DropSecond, Ordered!Drop, Ordered!HoldsForks, OrderedHolder
  <2> QED BY <2>1, <2>2, <2>3
<1>6. CASE Ordered!DropFirst(p)
  <2>1. Ordered!TypeOK'
        BY <1>6 DEF Ordered!TypeOK, Ordered!DropFirst, Ordered!Drop
  <2>2. Ordered!HoldsForks'
        BY <1>6 DEF Ordered!TypeOK, Ordered!DropFirst, Ordered!Drop, Ordered!HoldsForks
  <2>3. OrderedHolder'
        BY <1>6 DEF Ordered!TypeOK, Ordered!DropFirst, Ordered!Drop, Ordered!HoldsForks, OrderedHolder
  <2> QED BY <2>1, <2>2, <2>3
<1> QED BY <1>2, <1>3, <1>4, <1>5, <1>6 DEF Ordered!EatStep

LEMMA OrderedStarts == Ordered!Init => OrderedInv
BY OrderedSeats DEF Ordered!Init, OrderedInv, Ordered!TypeOK, Ordered!HoldsForks, OrderedHolder

LEMMA OrderedStays == OrderedInv /\ [Ordered!Next]_(Ordered!vars) => OrderedInv'
<1>1. ASSUME OrderedInv, UNCHANGED Ordered!vars PROVE OrderedInv'
      BY <1>1 DEF Ordered!vars, OrderedInv, Ordered!TypeOK, Ordered!HoldsForks, OrderedHolder
<1> QED BY <1>1, OrderedStep DEF Ordered!Next, Ordered!vars

(* The forks a philosopher holds always fit its place in the loop. *)
THEOREM OrderedInductive == Ordered!Spec => []OrderedInv
BY OrderedStarts, OrderedStays, PTL DEF Ordered!Spec

(* Every philosopher holds exactly the forks its place in the loop says. *)
THEOREM HoldsForksAlways == Ordered!Spec => [](Ordered!TypeOK /\ Ordered!HoldsForks)
<1>1. OrderedInv => Ordered!TypeOK /\ Ordered!HoldsForks
      BY DEF OrderedInv
<1> QED BY <1>1, OrderedInductive, PTL

(* Whoever waits is blocked by a philosopher that holds the fork it waits  *)
(* for; if that one waits too, it waits for its second fork.               *)
LEMMA Blocked ==
    ASSUME OrderedInv, NEW p \in Ordered!Philosophers, ~Ordered!CanMove(p)
    PROVE  /\ Ordered!Blocker(p) \in Ordered!Philosophers /\ Ordered!Blocker(p) # p
           /\ forks[IF seat[p] = "hungry" THEN Ordered!First(p) ELSE Ordered!Second(p)] = Ordered!Blocker(p)
           /\ ~Ordered!CanMove(Ordered!Blocker(p)) => seat[Ordered!Blocker(p)] = "one_fork"
<1> USE OrderedSeats DEF OrderedInv, Ordered!CanMove, Ordered!Blocker
<1>1. seat[p] = "hungry" \/ seat[p] = "one_fork"
      BY DEF Ordered!TypeOK
<1>2. Ordered!Blocker(p) \in Ordered!Philosophers /\ Ordered!Blocker(p) # p
      BY <1>1 DEF Ordered!TypeOK, Ordered!HoldsForks
<1>3. seat[Ordered!Blocker(p)] # "hungry"
      BY <1>1, <1>2 DEF Ordered!TypeOK, Ordered!HoldsForks, OrderedHolder
<1> QED BY <1>2, <1>3 DEF Ordered!TypeOK

(* One that waits for its second fork is even, and so is the one that      *)
(* blocks it, to its right.                                                *)
LEMMA OnlyEvenWait ==
    ASSUME OrderedInv, NEW p \in Ordered!Philosophers, seat[p] = "one_fork",
           ~Ordered!CanMove(p), ~Ordered!CanMove(Ordered!Blocker(p))
    PROVE  p % 2 = 0 /\ Ordered!Blocker(p) = Ordered!Right(p) /\ Ordered!Right(p) % 2 = 0
<1> DEFINE q == Ordered!Blocker(p)
<1>1. q \in Ordered!Philosophers /\ q # p /\ forks[Ordered!Second(p)] = q /\ seat[q] = "one_fork"
      BY Blocked
<1>2. Ordered!Second(p) = Ordered!First(q)
  <2>1. Ordered!Second(p) \in Ordered!Philosophers /\ forks[Ordered!Second(p)] # NoOne
        BY <1>1, OrderedSeats
  <2>2. forks[Ordered!Second(q)] # q
        BY <1>1 DEF OrderedInv, Ordered!HoldsForks
  <2> QED BY <1>1, <2>1, <2>2 DEF OrderedInv, OrderedHolder
<1> HIDE DEF q
<1>3. CASE p % 2 = 0
  <2>1. Ordered!First(q) = Ordered!Right(p)
        BY <1>2, <1>3 DEF Ordered!Second, Ordered!LeftFirst
  <2>2. q % 2 = 0 /\ q = Ordered!Right(p)
        BY <1>1, <2>1, OrderedSeats DEF Ordered!First, Ordered!LeftFirst
  <2> QED BY <1>3, <2>2 DEF q
<1>4. CASE p % 2 # 0
  <2>1. Ordered!First(q) = p
        BY <1>2, <1>4 DEF Ordered!Second, Ordered!LeftFirst
  <2>2. q % 2 # 0 /\ Ordered!Right(q) = p
        BY <1>1, <2>1 DEF Ordered!First, Ordered!LeftFirst
  <2> QED BY <1>1, <1>4, <2>2, RightIs, PhilosophersAssumption, Z3 DEF Ordered!Philosophers
<1> QED BY <1>3, <1>4

(* No circle of waiting: three in a row that wait would be even            *)
(* neighbours, and the ring has no three of those.                         *)
LEMMA NoCircleOf == ASSUME OrderedInv PROVE Ordered!NoCircularWait
<1> SUFFICES ASSUME NEW p \in Ordered!Philosophers, ~Ordered!CanMove(p), ~Ordered!CanMove(Ordered!Blocker(p)),
                    ~Ordered!CanMove(Ordered!Blocker(Ordered!Blocker(p))),
                    ~Ordered!CanMove(Ordered!Blocker(Ordered!Blocker(Ordered!Blocker(p))))
             PROVE  FALSE
    BY DEF Ordered!NoCircularWait
<1> DEFINE q == Ordered!Blocker(p)
           r == Ordered!Blocker(q)
<1>1. q \in Ordered!Philosophers /\ seat[q] = "one_fork"
      BY Blocked
<1>2. r \in Ordered!Philosophers /\ seat[r] = "one_fork"
      BY <1>1, Blocked
<1> HIDE DEF q
<1>3. q % 2 = 0 /\ r = Ordered!Right(q) /\ r % 2 = 0
      BY <1>1, OnlyEvenWait DEF q
<1> HIDE DEF r
<1>4. Ordered!Right(r) % 2 = 0
      BY <1>2, OnlyEvenWait DEF q, r
<1> QED BY <1>1, <1>2, <1>3, <1>4, RightIs, PhilosophersAssumption, Z3 DEF Ordered!Philosophers

THEOREM NoCircle == Ordered!Spec => []Ordered!NoCircularWait
BY NoCircleOf, OrderedInductive, PTL

(* A step of the program is a step of the abstract table, or leaves what is *)
(* seen of it alone.                                                       *)
LEMMA OrderedDines ==
    ASSUME OrderedInv, [Ordered!Next]_(Ordered!vars)
    PROVE  [Ordered!Table!Next]_[p \in Ordered!Philosophers |-> seat[p] = "eating"]
<1> USE DEF OrderedInv, Ordered!Goto
<1>1. ASSUME NEW p \in Ordered!Philosophers, Ordered!GrabSecond(p) PROVE Ordered!Table!Start(p)
  <2>1. seat[p] # "eating"
        BY <1>1 DEF Ordered!GrabSecond
  <2>2. \A q \in Ordered!Philosophers : (q = Ordered!Right(p) \/ p = Ordered!Right(q)) => seat[q] # "eating"
    <3>1. forks[p] \in {p, NoOne} /\ forks[Ordered!Right(p)] \in {p, NoOne}
          BY <1>1, OrderedSeats DEF Ordered!GrabSecond, Ordered!Grab, Ordered!HoldsForks
    <3>2. ASSUME NEW q \in Ordered!Philosophers, seat[q] = "eating"
          PROVE  forks[q] = q /\ forks[Ordered!Right(q)] = q
          BY <3>2, OrderedSeats DEF Ordered!HoldsForks
    <3> QED BY <3>1, <3>2, OrderedSeats
  <2>3. [q \in Ordered!Philosophers |-> seat'[q] = "eating"]
          = [[q \in Ordered!Philosophers |-> seat[q] = "eating"] EXCEPT ![p] = TRUE]
        BY <1>1 DEF Ordered!GrabSecond, Ordered!TypeOK
  <2> QED BY <2>1, <2>2, <2>3 DEF Ordered!Table!Start, Ordered!Table!Philosophers, Ordered!Table!Right,
      Ordered!Philosophers, Ordered!Right
<1>2. ASSUME NEW p \in Ordered!Philosophers, Ordered!DropSecond(p) PROVE Ordered!Table!Stop(p)
      BY <1>2 DEF Ordered!DropSecond, Ordered!TypeOK, Ordered!Table!Stop, Ordered!Philosophers
<1>3. ASSUME NEW p \in Ordered!Philosophers, Ordered!Hunger(p) \/ Ordered!GrabFirst(p) \/ Ordered!DropFirst(p)
      PROVE  UNCHANGED [q \in Ordered!Philosophers |-> seat[q] = "eating"]
      BY <1>3 DEF Ordered!Hunger, Ordered!GrabFirst, Ordered!DropFirst, Ordered!TypeOK
<1>4. CASE UNCHANGED Ordered!vars
      BY <1>4 DEF Ordered!vars
<1> QED BY <1>1, <1>2, <1>3, <1>4 DEF Ordered!Next, Ordered!EatStep, Ordered!Table!Next,
    Ordered!Table!Philosophers, Ordered!Philosophers

(* Two neighbours never eat at the same time: the philosophers implement   *)
(* the abstract table.                                                     *)
THEOREM OrderedDining == Ordered!Spec => Ordered!ImplementsDining
<1>1. Ordered!Init => Ordered!Table!Init
      BY DEF Ordered!Init, Ordered!Table!Init, Ordered!Philosophers, Ordered!Table!Philosophers
<1> QED BY <1>1, OrderedDines, OrderedInductive, PTL DEF Ordered!Spec, Ordered!ImplementsDining, Ordered!Table!Spec

-----------------------------------------------------------------------------
(* Who sits where. *)
LEMMA TrySeats ==
    /\ \A p \in Try!Philosophers : p # NoOne /\ Try!Right(p) \in Try!Philosophers /\ Try!Right(p) # p
    /\ \A p, q \in Try!Philosophers : Try!Right(p) = Try!Right(q) => p = q
BY PhilosophersAssumption, RightIs DEF Try!Philosophers

(* A fork that is taken is held by one of its two users. *)
TryHolder ==
    \A f \in Try!Philosophers : forks[f] # NoOne => f = forks[f] \/ f = Try!Right(forks[f])

TryInv == Try!TypeOK /\ Try!HoldsBothOrNone /\ TryHolder /\ Try!WaitsForNeighbour

(* One step of one philosopher keeps the invariant. *)
LEMMA TryStep ==
    ASSUME TryInv, NEW p \in Try!Philosophers, Try!Hunger(p) \/ Try!EatStep(p) \/ Try!SpuriousWakeup(p)
    PROVE  TryInv'
<1> USE TrySeats DEF TryInv, Try!Goto
<1>1. CASE Try!Hunger(p) \/ Try!SpuriousWakeup(p)
  <2>1. Try!TypeOK'
        BY <1>1 DEF Try!TypeOK, Try!Hunger, Try!SpuriousWakeup
  <2>2. Try!HoldsBothOrNone' /\ TryHolder'
        BY <1>1 DEF Try!TypeOK, Try!Hunger, Try!SpuriousWakeup, Try!HoldsBothOrNone, TryHolder
  <2>3. Try!WaitsForNeighbour'
        BY <1>1 DEF Try!TypeOK, Try!Hunger, Try!SpuriousWakeup, Try!WaitsForNeighbour
  <2> QED BY <2>1, <2>2, <2>3
<1>2. CASE Try!TakeBoth(p)
  <2> USE <1>2 DEF Try!TypeOK, Try!TakeBoth, Try!BothFree
  <2>1. Try!TypeOK'
        OBVIOUS
  <2>2. Try!HoldsBothOrNone'
        BY DEF Try!HoldsBothOrNone
  <2>3. TryHolder'
        BY DEF TryHolder
  <2>4. Try!WaitsForNeighbour'
        BY DEF Try!WaitsForNeighbour
  <2> QED BY <2>1, <2>2, <2>3, <2>4
<1>3. CASE Try!TakeNone(p)
  <2> USE <1>3 DEF Try!TypeOK, Try!TakeNone, Try!BothFree
  <2>1. Try!TypeOK'
        OBVIOUS
  <2>2. Try!HoldsBothOrNone'
        BY DEF Try!HoldsBothOrNone
  <2>3. TryHolder'
        BY DEF TryHolder
  <2>4. \E q \in Try!Philosophers : (q = Try!Right(p) \/ p = Try!Right(q)) /\ seat[q] = "eating"
    <3>1. PICK f \in {p, Try!Right(p)} : forks[f] # NoOne
          OBVIOUS
    <3>2. forks[f] \in Try!Philosophers /\ seat[forks[f]] = "eating" /\ forks[f] # p
          BY <3>1 DEF Try!HoldsBothOrNone
    <3> QED BY <3>1, <3>2 DEF TryHolder
  <2>5. Try!WaitsForNeighbour'
        BY <2>4 DEF Try!WaitsForNeighbour
  <2> QED BY <2>1, <2>2, <2>3, <2>5
<1>4. CASE Try!PutDown(p)
  <2> USE <1>4 DEF Try!TypeOK, Try!PutDown
  <2>1. Try!TypeOK'
        OBVIOUS
  <2>2. forks[p] = p /\ forks[Try!Right(p)] = p
        BY DEF Try!HoldsBothOrNone
  <2>3. TryHolder'
        BY DEF TryHolder
  <2>4. Try!HoldsBothOrNone'
    <3>1. \A q \in Try!Philosophers : seat'[q] = "eating" <=> q # p /\ seat[q] = "eating"
          OBVIOUS
    <3>2. \A f \in Try!Philosophers : forks'[f] = IF f \in {p, Try!Right(p)} THEN NoOne ELSE forks[f]
          OBVIOUS
    <3>3. ASSUME NEW q \in Try!Philosophers
          PROVE  forks'[q] = q <=> seat'[q] = "eating"
          BY <2>2, <3>1, <3>2 DEF Try!HoldsBothOrNone
    <3>4. ASSUME NEW q \in Try!Philosophers
          PROVE  forks'[Try!Right(q)] = q <=> seat'[q] = "eating"
          BY <2>2, <3>1, <3>2 DEF Try!HoldsBothOrNone
    <3>5. ASSUME NEW q \in Try!Philosophers, forks'[q] # NoOne
          PROVE  seat'[forks'[q]] = "eating"
          BY <3>1, <3>2, <3>5 DEF Try!HoldsBothOrNone, TryHolder
    <3> QED BY <3>3, <3>4, <3>5 DEF Try!HoldsBothOrNone
  <2>5. Try!WaitsForNeighbour'
        BY DEF Try!WaitsForNeighbour
  <2> QED BY <2>1, <2>3, <2>4, <2>5
<1> QED BY <1>1, <1>2, <1>3, <1>4 DEF Try!EatStep

LEMMA TryStarts == Try!Init => TryInv
BY TrySeats DEF Try!Init, TryInv, Try!TypeOK, Try!HoldsBothOrNone, TryHolder, Try!WaitsForNeighbour

LEMMA TryStays == TryInv /\ [Try!Next]_(Try!vars) => TryInv'
<1>1. ASSUME TryInv, UNCHANGED Try!vars PROVE TryInv'
      BY <1>1 DEF Try!vars, TryInv, Try!TypeOK, Try!HoldsBothOrNone, TryHolder, Try!WaitsForNeighbour
<1> QED BY <1>1, TryStep DEF Try!Next, Try!vars

(* Forks and places agree, and whoever waits has a neighbour to wake it. *)
THEOREM TryInductive == Try!Spec => []TryInv
BY TryStarts, TryStays, PTL DEF Try!Spec

(* No philosopher ever holds a single fork between two critical sections. *)
THEOREM BothOrNone == Try!Spec => []Try!HoldsBothOrNone
<1>1. TryInv => Try!HoldsBothOrNone
      BY DEF TryInv
<1> QED BY <1>1, TryInductive, PTL

(* Nobody waits without a neighbour that will broadcast. *)
THEOREM NoLostWakeup == Try!Spec => []Try!WaitsForNeighbour
<1>1. TryInv => Try!WaitsForNeighbour
      BY DEF TryInv
<1> QED BY <1>1, TryInductive, PTL

(* A step of the program is a step of the abstract table, or leaves what is *)
(* seen of it alone.                                                       *)
LEMMA TryDines ==
    ASSUME TryInv, [Try!Next]_(Try!vars)
    PROVE  [Try!Table!Next]_[p \in Try!Philosophers |-> seat[p] = "eating"]
<1> USE DEF TryInv, Try!Goto
<1>1. ASSUME NEW p \in Try!Philosophers, Try!TakeBoth(p) PROVE Try!Table!Start(p)
  <2>1. seat[p] # "eating"
        BY <1>1 DEF Try!TakeBoth
  <2>2. \A q \in Try!Philosophers : (q = Try!Right(p) \/ p = Try!Right(q)) => seat[q] # "eating"
        BY <1>1, TrySeats DEF Try!TakeBoth, Try!BothFree, Try!HoldsBothOrNone
  <2>3. [q \in Try!Philosophers |-> seat'[q] = "eating"]
          = [[q \in Try!Philosophers |-> seat[q] = "eating"] EXCEPT ![p] = TRUE]
        BY <1>1 DEF Try!TakeBoth, Try!TypeOK
  <2> QED BY <2>1, <2>2, <2>3 DEF Try!Table!Start, Try!Table!Philosophers, Try!Table!Right,
      Try!Philosophers, Try!Right
<1>2. ASSUME NEW p \in Try!Philosophers, Try!PutDown(p) PROVE Try!Table!Stop(p)
      BY <1>2 DEF Try!PutDown, Try!TypeOK, Try!Table!Stop, Try!Philosophers
<1>3. ASSUME NEW p \in Try!Philosophers, Try!Hunger(p) \/ Try!TakeNone(p) \/ Try!SpuriousWakeup(p)
      PROVE  UNCHANGED [q \in Try!Philosophers |-> seat[q] = "eating"]
      BY <1>3 DEF Try!Hunger, Try!TakeNone, Try!SpuriousWakeup, Try!TypeOK
<1>4. CASE UNCHANGED Try!vars
      BY <1>4 DEF Try!vars
<1> QED BY <1>1, <1>2, <1>3, <1>4 DEF Try!Next, Try!EatStep, Try!Table!Next, Try!Table!Philosophers, Try!Philosophers

(* Two neighbours never eat at the same time. *)
THEOREM TryDining == Try!Spec => Try!ImplementsDining
<1>1. Try!Init => Try!Table!Init
      BY DEF Try!Init, Try!Table!Init, Try!Philosophers, Try!Table!Philosophers
<1> QED BY <1>1, TryDines, TryInductive, PTL DEF Try!Spec, Try!ImplementsDining, Try!Table!Spec
=============================================================================
