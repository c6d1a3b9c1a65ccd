-------------------------- MODULE ExercisesProofs --------------------------
(***************************************************************************)
(* What the programs of MCExercises keep to, for every number of      *)
(* products, cats, customers and chairs, and for all times: first for each *)
(* program by itself (the two tables are in PhilosophersProofs), and at    *)
(* the end for the specification of them all.                              *)
(***************************************************************************)
EXTENDS PhilosophersProofs

-----------------------------------------------------------------------------
(* pr15task1.c *)

(* A shop that holds parts has a product to finish. *)
HoldsForAProduct ==
    \A s \in {"Module", "Final"} : holds[s] > 0 => Working(s)

(* main destroys the semaphores after every shop has returned. *)
DestroyedLast == destroyed => \A s \in Shops : i[s] = PRODUCTS_TO_MAKE

LineInv == TypeOK /\ PartsConserved /\ HoldsForAProduct /\ DestroyedLast

(* Every step of every shop keeps the accounts. *)
LEMMA LineStepKeeps == LineInv /\ [Next]_vars => LineInv'
<1> SUFFICES ASSUME LineInv, [Next]_vars PROVE LineInv'
    OBVIOUS
<1> USE ProductsAssumption
    DEF LineInv, TypeOK, PartsConserved, HoldsForAProduct, DestroyedLast, Taken, Working, Holding, Post, Wait,
        RoundDone, Shops, PartShops, Parts
<1>1. ASSUME NEW s \in PartShops, MakePart(s) PROVE LineInv'
      BY <1>1 DEF MakePart
<1>2. CASE ModuleTakesA
      BY <1>2 DEF ModuleTakesA
<1>3. CASE ModuleTakesB
      BY <1>3 DEF ModuleTakesB
<1>4. CASE ModuleReady
      BY <1>4 DEF ModuleReady
<1>5. CASE FinalTakesModule
      BY <1>5 DEF FinalTakesModule
<1>6. CASE FinalTakesC
      BY <1>6 DEF FinalTakesC
<1>7. CASE FinalReady
      BY <1>7 DEF FinalReady
<1>8. CASE Finish
      BY <1>8 DEF Finish
<1>9. CASE UNCHANGED vars
      BY <1>9 DEF vars
<1> QED BY <1>1, <1>2, <1>3, <1>4, <1>5, <1>6, <1>7, <1>8, <1>9 DEF Next, ModuleStep, FinalStep

LEMMA LineAtFirst == Init => LineInv
<1> SUFFICES ASSUME Init PROVE LineInv
    OBVIOUS
<1> USE ProductsAssumption DEF Init, Shops, PartShops, Parts
<1>1. TypeOK
  <2>1. 0 \in 0 .. PRODUCTS_TO_MAKE
        OBVIOUS
  <2>2. sem \in [Parts -> Nat] /\ destroyed \in BOOLEAN
        BY ONLY Init DEF Init
  <2>3. i \in [Shops -> 0 .. PRODUCTS_TO_MAKE]
        BY ONLY Init, <2>1 DEF Init
  <2>4. holds \in [{"Module", "Final"} -> 0 .. 2]
    <3>1. 0 \in 0 .. 2
          OBVIOUS
    <3> QED BY ONLY Init, <3>1 DEF Init
  <2> QED BY ONLY <2>2, <2>3, <2>4 DEF TypeOK
<1>2. PartsConserved
      BY DEF PartsConserved, Taken
<1>3. HoldsForAProduct /\ DestroyedLast
      BY DEF HoldsForAProduct, DestroyedLast
<1> QED BY <1>1, <1>2, <1>3 DEF LineInv

(* Types and accounts hold in every reachable state. *)
THEOREM LineInductive == Spec => []LineInv
<1> QED BY LineAtFirst, LineStepKeeps, PTL DEF Spec

(* The semaphores neither invent nor lose a part. *)
THEOREM LineConserves == Spec => []PartsConserved
<1>1. LineInv => PartsConserved
      BY DEF LineInv
<1> QED BY <1>1, LineInductive, PTL

(* No product is finished before its parts were made. *)
THEOREM PartsFirst == Spec => []NoProductWithoutParts
<1>1. LineInv => NoProductWithoutParts
      BY DEF LineInv, TypeOK, PartsConserved, NoProductWithoutParts, Taken, Shops, PartShops, Parts
<1> QED BY <1>1, LineInductive, PTL

(* Nothing is left on the semaphores that main destroys. *)
THEOREM AllUsed == Spec => []NothingLeftOver
<1>1. LineInv => NothingLeftOver
      BY ProductsAssumption
      DEF LineInv, TypeOK, PartsConserved, HoldsForAProduct, DestroyedLast, NothingLeftOver, Taken,
          Working, Shops, PartShops, Parts
<1> QED BY <1>1, LineInductive, PTL
-----------------------------------------------------------------------------
(* pr13task2.c *)

BowlTypes ==
    /\ food_amount \in Nat
    /\ owner \in {"awake", "waiting", "asleep"}
    /\ cat \in [CatIds -> {"awake", "waiting", "asleep"}]

BowlInv == BowlTypes /\ NobodyMissesOut

LEMMA BowlAtFirst == Bowl!Init => BowlInv
  BY FoodAssumption
  DEF BowlInv, BowlTypes, NobodyMissesOut, Bowl!NobodyMissesOut, Bowl!Init

(* A cat waits at an empty bowl only, and an empty bowl is low: whoever    *)
(* makes it so by a meal tells the owner, who does not wait while it is.   *)
LEMMA BowlStays == BowlInv /\ [Bowl!Next]_catVars => BowlInv'
<1> SUFFICES ASSUME BowlInv, [Bowl!Next]_catVars PROVE BowlInv'
  OBVIOUS
<1> USE FoodAssumption
    DEF BowlInv, BowlTypes, NobodyMissesOut, Bowl!NobodyMissesOut, Bowl!Low, Bowl!Empty
<1>1. CASE Bowl!OwnerWaits
  BY <1>1 DEF Bowl!OwnerWaits
<1>2. CASE Bowl!OwnerFills
  BY <1>2 DEF Bowl!OwnerFills, Bowl!TellCats
<1>3. CASE Bowl!OwnerWakes
  BY <1>3 DEF Bowl!OwnerWakes
<1>4. ASSUME NEW c \in CatIds, Bowl!CatWaits(c) PROVE BowlInv'
  BY <1>4 DEF Bowl!CatWaits, Bowl!TellOwner
<1>5. ASSUME NEW c \in CatIds, Bowl!CatEats(c) PROVE BowlInv'
  BY <1>5 DEF Bowl!CatEats, Bowl!CallsForMore, Bowl!TellOwner
<1>6. ASSUME NEW c \in CatIds, Bowl!CatWakes(c) PROVE BowlInv'
  BY <1>6 DEF Bowl!CatWakes
<1>7. CASE Bowl!SpuriousWakeup
  BY <1>7 DEF Bowl!SpuriousWakeup
<1>8. CASE UNCHANGED catVars
  BY <1>8 DEF catVars
<1> QED
  BY <1>1, <1>2, <1>3, <1>4, <1>5, <1>6, <1>7, <1>8
  DEF Bowl!Next, Bowl!OwnerStep, Bowl!CatStep

-----------------------------------------------------------------------------
(* pr13task4.c *)

BarberPlaces == {"loop", "test", "lie_down", "sleep", "asleep", "woken", "load", "store", "done"}

(* Where a customer holds customers_mutex.                                 *)
AtTheDoor == {"look", "load", "store", "check_barber", "wake_barber"}

CustomerPlaces == AtTheDoor \cup {"arrive", "sit", "waiting", "trimmed", "turned_away"}

ShopTypes ==
    /\ waiting_customers \in Int /\ served_customers \in Nat
    /\ barber_sleeping \in BOOLEAN
    /\ pc \in [Shop!Threads -> BarberPlaces \cup CustomerPlaces]
    /\ loaded \in [Shop!Threads -> Int]

OneAtTheDoor == \A c \in Customers : pc[c] \in AtTheDoor => customers_mutex = c

(* Nobody has seen more customers than chairs, and a customer on the way   *)
(* to a chair has seen fewer; the barber, who holds the other mutex, can   *)
(* only make them fewer still.                                             *)
ChairsLeft ==
    /\ waiting_customers <= CHAIRS_COUNT
    /\ \A t \in Shop!Threads : loaded[t] <= CHAIRS_COUNT
    /\ \A c \in Customers :
          /\ pc[c] = "load" => waiting_customers < CHAIRS_COUNT
          /\ pc[c] = "store" => loaded[c] < CHAIRS_COUNT

ShopInv == ShopTypes /\ OneAtTheDoor /\ ChairsLeft

LEMMA ShopAtFirst == Shop!Init => ShopInv
  BY ChairsAssumption
  DEF ShopInv, ShopTypes, OneAtTheDoor, ChairsLeft, Shop!Init, Shop!Threads, AtTheDoor,
      BarberPlaces, CustomerPlaces

LEMMA BarberKeeps == ShopInv /\ Shop!BarberStep => ShopInv'
<1> SUFFICES ASSUME ShopInv, Shop!BarberStep PROVE ShopInv'
  OBVIOUS
<1> USE ChairsAssumption
    DEF ShopInv, ShopTypes, OneAtTheDoor, ChairsLeft, Shop!Threads, Shop!Goto, AtTheDoor,
        BarberPlaces, CustomerPlaces
<1>1. CASE Shop!BarberLock
  BY <1>1 DEF Shop!BarberLock
<1>2. CASE Shop!BarberGoesHome
  BY <1>2 DEF Shop!BarberGoesHome
<1>3. CASE Shop!BarberTest
  BY <1>3 DEF Shop!BarberTest
<1>4. CASE Shop!BarberLiesDown
  BY <1>4 DEF Shop!BarberLiesDown
<1>5. CASE Shop!BarberSleeps
  BY <1>5 DEF Shop!BarberSleeps
<1>6. CASE Shop!BarberWakes
  BY <1>6 DEF Shop!BarberWakes
<1>7. CASE Shop!BarberLoads
  BY <1>7 DEF Shop!BarberLoads, Shop!Load
<1>8. CASE Shop!BarberCuts
  BY <1>8 DEF Shop!BarberCuts
<1> QED
  BY <1>1, <1>2, <1>3, <1>4, <1>5, <1>6, <1>7, <1>8 DEF Shop!BarberStep

LEMMA CustomerKeeps ==
  ASSUME NEW c \in Customers, ShopInv, Shop!CustomerStep(c)
  PROVE  ShopInv'
<1> USE ChairsAssumption
    DEF ShopInv, ShopTypes, OneAtTheDoor, ChairsLeft, Shop!Threads, Shop!Goto, AtTheDoor,
        BarberPlaces, CustomerPlaces
<1>1. CASE Shop!Arrive(c)
  BY <1>1 DEF Shop!Arrive
<1>2. CASE Shop!TurnAway(c)
  BY <1>2 DEF Shop!TurnAway
<1>3. CASE Shop!ChairFree(c)
  BY <1>3 DEF Shop!ChairFree
<1>4. CASE Shop!LoadChairs(c)
  BY <1>4 DEF Shop!LoadChairs, Shop!Load
<1>5. CASE Shop!TakeChair(c)
  BY <1>5 DEF Shop!TakeChair
<1>6. CASE Shop!SeeAwake(c)
  BY <1>6 DEF Shop!SeeAwake
<1>7. CASE Shop!SeeAsleep(c)
  BY <1>7 DEF Shop!SeeAsleep
<1>8. CASE Shop!WakeBarber(c)
  BY <1>8 DEF Shop!WakeBarber
<1>9. CASE Shop!Sit(c)
  BY <1>9 DEF Shop!Sit
<1> QED
  BY <1>1, <1>2, <1>3, <1>4, <1>5, <1>6, <1>7, <1>8, <1>9 DEF Shop!CustomerStep

LEMMA ShopStays == ShopInv /\ [Shop!Next]_barberVars => ShopInv'
<1> SUFFICES ASSUME ShopInv, [Shop!Next]_barberVars PROVE ShopInv'
  OBVIOUS
<1>1. ASSUME NEW t \in Shop!Threads, Shop!SpuriousWakeup(t) PROVE ShopInv'
  BY <1>1, ChairsAssumption
  DEF ShopInv, ShopTypes, OneAtTheDoor, ChairsLeft, Shop!Threads, Shop!Goto, AtTheDoor,
      BarberPlaces, CustomerPlaces, Shop!SpuriousWakeup
<1>2. CASE UNCHANGED barberVars
  BY <1>2 DEF ShopInv, ShopTypes, OneAtTheDoor, ChairsLeft, barberVars
<1> QED
  BY <1>1, <1>2, BarberKeeps, CustomerKeeps DEF Shop!Next

-----------------------------------------------------------------------------
(* pr7t7.c *)

SleepTypes ==
    /\ now \in Nat /\ delay \in Nat /\ remaining_time \in Nat
    /\ started \in Nat /\ cancelled \in Nat /\ late \in Nat
    /\ timer \in Int /\ (timer = Sleep!Never \/ timer >= now)
    /\ alarm_fired \in BOOLEAN
    /\ sleeper \in {"signal", "cancel", "clear", "set", "check", "pause", "paused",
                    "restore", "rearm", "awake", "killed"}
    /\ started <= now

(* Until alarm(0) the earlier alarm is on the timer, or has gone off.      *)
EarlierPending ==
    sleeper \in {"signal", "cancel"} =>
        /\ late = 0
        /\ IF timer = Sleep!Never THEN Earlier <= now ELSE timer = Earlier

(* From then on remaining_time is what it had left, and the seconds since  *)
(* alarm(0) are those of `late` until the alarm of my_sleep is set.        *)
EarlierTakenOver ==
    /\ sleeper \in {"clear", "set", "check", "pause", "paused", "restore", "rearm"} =>
          /\ remaining_time = IF Earlier <= cancelled THEN 0 ELSE Earlier - cancelled
          /\ started <= cancelled
    /\ sleeper \in {"clear", "set"} => timer = Sleep!Never /\ now = cancelled + late
    /\ sleeper = "set" => ~alarm_fired

(* The alarm of my_sleep comes Seconds after that, or has come.            *)
OwnAlarm ==
    sleeper \in {"check", "pause", "paused"} =>
        IF timer = Sleep!Never THEN alarm_fired /\ now = cancelled + Seconds + late
        ELSE ~alarm_fired /\ timer = cancelled + Seconds + late

Slept ==
    sleeper \in {"restore", "rearm"} => timer = Sleep!Never /\ now = cancelled + Seconds + late

HandlerRestored == sleeper \in {"rearm", "awake"} => handler = "default"

SleepInv ==
    SleepTypes /\ EarlierPending /\ EarlierTakenOver /\ OwnAlarm /\ Slept /\ HandlerRestored
        /\ AlarmsKept

LEMMA SleepAtFirst == Sleep!Init => SleepInv
<1> SUFFICES ASSUME Sleep!Init PROVE SleepInv
  OBVIOUS
<1>1. /\ sleeper = "signal" /\ now = 0 /\ delay = 0 /\ remaining_time = 0
      /\ started = 0 /\ cancelled = 0 /\ late = 0
      /\ alarm_fired = FALSE
      /\ timer = IF Earlier = 0 THEN -1 ELSE Earlier
  BY TimesAssumption DEF Sleep!Init, Sleep!After, Sleep!Never
<1>2. SleepTypes
  <2>1. Earlier \in Nat
    BY TimesAssumption
  <2>2. timer \in Int /\ (timer = Sleep!Never \/ timer >= now)
    BY <1>1, <2>1 DEF Sleep!Never
  <2>3. /\ now \in Nat /\ delay \in Nat /\ remaining_time \in Nat
        /\ started \in Nat /\ cancelled \in Nat /\ late \in Nat /\ started <= now
    BY <1>1
  <2>4. alarm_fired \in BOOLEAN
    BY <1>1
  <2> QED
    BY <1>1, <2>2, <2>3, <2>4 DEF SleepTypes
<1>3. EarlierPending
  BY <1>1, TimesAssumption DEF EarlierPending, Sleep!Never
<1>4. EarlierTakenOver /\ OwnAlarm /\ Slept /\ HandlerRestored /\ AlarmsKept
  BY <1>1
  DEF EarlierTakenOver, OwnAlarm, Slept, HandlerRestored, AlarmsKept, Sleep!SleepsLongEnough, Sleep!EarlierAlarmKept
<1> QED
  BY <1>2, <1>3, <1>4 DEF SleepInv

LEMMA SleepStays == SleepInv /\ [Sleep!Next]_sleepVars => SleepInv'
<1> SUFFICES ASSUME SleepInv, [Sleep!Next]_sleepVars PROVE SleepInv'
  OBVIOUS
<1>0. Seconds \in Nat /\ Earlier \in Nat /\ Seconds > 0
  BY TimesAssumption
<1> USE <1>0
    DEF SleepInv, SleepTypes, EarlierPending, EarlierTakenOver, OwnAlarm, Slept, HandlerRestored, Sleep!history,
        AlarmsKept, Sleep!SleepsLongEnough, Sleep!EarlierAlarmKept, Sleep!Never, Sleep!Goto
<1>1. CASE Sleep!Tick
  BY <1>1 DEF Sleep!Tick
<1>2. CASE Sleep!Alarm
  <2> USE DEF Sleep!Alarm, Sleep!sigalrm_handler
  <2>1. CASE handler = "default"
    BY <1>2, <2>1
  <2>2. CASE handler # "default" /\ sleeper = "paused"
    BY <1>2, <2>2
  <2>3. CASE handler # "default" /\ sleeper # "paused"
    BY <1>2, <2>3
  <2> QED
    BY <2>1, <2>2, <2>3
<1>3. CASE Sleep!InstallHandler
  BY <1>3 DEF Sleep!InstallHandler
<1>4. CASE Sleep!CancelEarlier
  BY <1>4 DEF Sleep!CancelEarlier, Sleep!Left, Sleep!Running
<1>5. CASE Sleep!ClearFlag
  BY <1>5 DEF Sleep!ClearFlag
<1>6. CASE Sleep!SetAlarm
  BY <1>6 DEF Sleep!SetAlarm, Sleep!After
<1>7. CASE Sleep!Check
  BY <1>7 DEF Sleep!Check
<1>8. CASE Sleep!Pause
  BY <1>8 DEF Sleep!Pause
<1>9. CASE Sleep!RestoreHandler
  BY <1>9 DEF Sleep!RestoreHandler
<1>10. CASE Sleep!Rearm
  BY <1>10 DEF Sleep!Rearm, Sleep!TimeLeft, Sleep!After
<1>11. CASE UNCHANGED sleepVars
  BY <1>11 DEF sleepVars
<1> QED
  BY <1>1, <1>2, <1>3, <1>4, <1>5, <1>6, <1>7, <1>8, <1>9, <1>10, <1>11
  DEF Sleep!Next, Sleep!Step

-----------------------------------------------------------------------------
(* The programs side by side *)

LEMMA EachExerciseSteps ==
    [MCNext]_all =>
        [Next]_vars /\ [Bowl!Next]_catVars /\ [Shop!Next]_barberVars /\ [Sleep!Next]_sleepVars
<1>1. CASE UNCHANGED all
  BY <1>1 DEF all
<1>2. CASE InLine(Next)
  BY <1>2 DEF InLine
<1>3. CASE InBowl(Bowl!Next)
  BY <1>3 DEF InBowl
<1>4. CASE InShop(Shop!Next)
  BY <1>4 DEF InShop
<1>5. CASE InSleep(Sleep!Next)
  BY <1>5 DEF InSleep
<1>6. CASE InOrdered(Ordered!Next) \/ InTry(Try!Next)
  BY <1>6 DEF InOrdered, InTry, AtTable
<1> QED
  BY <1>1, <1>2, <1>3, <1>4, <1>5, <1>6 DEF MCNext

(* Each table is laid as its own program has it.                           *)
TableInv ==
    /\ program = "pr13task3-1" => OrderedInv
    /\ program = "pr13task3-2" => TryInv

LEMMA TableAtFirst == Table!Init => TableInv
<1>1. Table!Init => Ordered!Init /\ Try!Init
  BY DEF Table!Init, Ordered!Init, Try!Init, Table!Philosophers, Ordered!Philosophers, Try!Philosophers
<1> QED
  BY <1>1, OrderedStarts, TryStarts DEF TableInv

LEMMA OneTableSteps ==
    [MCNext]_all =>
        /\ program' = program
        /\ program = "pr13task3-1" => [Ordered!Next]_(Ordered!vars)
        /\ program = "pr13task3-2" => [Try!Next]_(Try!vars)
<1> USE DEF tableVars, Ordered!vars, Try!vars
<1>1. CASE UNCHANGED all
  BY <1>1 DEF all
<1>2. CASE InLine(Next)
  BY <1>2 DEF InLine
<1>3. CASE InBowl(Bowl!Next)
  BY <1>3 DEF InBowl
<1>4. CASE InShop(Shop!Next)
  BY <1>4 DEF InShop
<1>5. CASE InSleep(Sleep!Next)
  BY <1>5 DEF InSleep
<1>6. CASE InOrdered(Ordered!Next)
  BY <1>6 DEF InOrdered, AtTable
<1>7. CASE InTry(Try!Next)
  BY <1>7 DEF InTry, AtTable
<1> QED
  BY <1>1, <1>2, <1>3, <1>4, <1>5, <1>6, <1>7 DEF MCNext

LEMMA TableStays == TableInv /\ [MCNext]_all => TableInv'
  BY OneTableSteps, OrderedStays, TryStays DEF TableInv

ExercisesInv == LineInv /\ BowlInv /\ ShopInv /\ SleepInv /\ TableInv

(* What every program keeps to is kept to by the program that was chosen.  *)
THEOREM ExercisesInductive == MCSpec => []ExercisesInv
<1>1. MCInit => ExercisesInv
  BY LineAtFirst, BowlAtFirst, ShopAtFirst, SleepAtFirst, TableAtFirst DEF MCInit, ExercisesInv
<1>2. ExercisesInv /\ [MCNext]_all => ExercisesInv'
  BY EachExerciseSteps, LineStepKeeps, BowlStays, ShopStays, SleepStays, TableStays DEF ExercisesInv
<1> QED
  BY <1>1, <1>2, PTL DEF MCSpec

(* ProductionLine!PartsConserved, of the programs side by side.            *)
THEOREM PartsAreConserved == MCSpec => []PartsConserved
<1>1. ExercisesInv => PartsConserved
  BY DEF ExercisesInv, LineInv
<1> QED
  BY ExercisesInductive, <1>1, PTL

(* Cats!NobodyMissesOut: no cat of pr13task2.c waits beside a bowl it      *)
(* could eat from, and the owner does not wait while the food is low.      *)
THEOREM NoWakeupIsMissed == MCSpec => []NobodyMissesOut
<1>1. ExercisesInv => NobodyMissesOut
  BY DEF ExercisesInv, BowlInv
<1> QED
  BY ExercisesInductive, <1>1, PTL

(* Barber!ChairsBound: no lost update of waiting_customers in pr13task4.c  *)
(* lets in more customers than there are chairs.                           *)
THEOREM ChairsSuffice == MCSpec => []ChairsBound
<1>1. ExercisesInv => ChairsBound
  BY DEF ExercisesInv, ShopInv, ChairsLeft, ChairsBound, Shop!ChairsBound
<1> QED
  BY ExercisesInductive, <1>1, PTL

(* AlarmsKept: whatever the delays, my_sleep of pr7t7.c lasts for the time *)
(* it was asked to; an alarm set before is lost exactly when it falls due  *)
(* before the sleep could have ended, and otherwise comes when it was due, *)
(* put off by the seconds held up with no alarm set.                       *)
THEOREM SleepsAndRearms == MCSpec => []AlarmsKept
<1>1. ExercisesInv => AlarmsKept
  BY DEF ExercisesInv, SleepInv
<1> QED
  BY ExercisesInductive, <1>1, PTL

(* pr13task3-1.c: whoever waits for a fork waits, through at most two      *)
(* others, for a philosopher who can go on.                                *)
THEOREM NobodyWaitsInACircle == MCSpec => []NoCircularWait
<1>1. ExercisesInv => NoCircularWait
  BY NoCircleOf DEF ExercisesInv, TableInv, NoCircularWait
<1> QED
  BY ExercisesInductive, <1>1, PTL

(* pr13task3-2.c: whoever waits has a neighbour that eats and will tell.   *)
THEOREM NobodySleepsThrough == MCSpec => []WaitsForNeighbour
<1>1. ExercisesInv => WaitsForNeighbour
  BY DEF ExercisesInv, TableInv, TryInv, WaitsForNeighbour
<1> QED
  BY ExercisesInductive, <1>1, PTL

(* In both programs two neighbours never eat at the same time.             *)
THEOREM NeighboursTakeTurns == MCSpec => ImplementsDining
<1> DEFINE eaters == [p \in Table!Philosophers |-> seat[p] = "eating"]
<1>1. MCInit => Table!Table!Init
  BY DEF MCInit, Table!Init, Table!Table!Init, Table!Philosophers, Table!Table!Philosophers
<1>2. ExercisesInv /\ [MCNext]_all => [Table!Table!Next]_eaters
  <2> SUFFICES ASSUME ExercisesInv, [MCNext]_all PROVE [Table!Table!Next]_eaters
    OBVIOUS
  <2>1. CASE InOrdered(Ordered!Next)
    <3>1. [Ordered!Table!Next]_[p \in Ordered!Philosophers |-> seat[p] = "eating"]
      BY <2>1, OrderedDines DEF ExercisesInv, TableInv, InOrdered, AtTable
    <3> QED
      BY <3>1 DEF Table!Philosophers, Ordered!Philosophers, Table!Table!Next, Ordered!Table!Next,
         Table!Table!Start, Ordered!Table!Start, Table!Table!Stop, Ordered!Table!Stop,
         Table!Table!Philosophers, Ordered!Table!Philosophers, Table!Table!Right, Ordered!Table!Right
  <2>2. CASE InTry(Try!Next)
    <3>1. [Try!Table!Next]_[p \in Try!Philosophers |-> seat[p] = "eating"]
      BY <2>2, TryDines DEF ExercisesInv, TableInv, InTry, AtTable
    <3> QED
      BY <3>1 DEF Table!Philosophers, Try!Philosophers, Table!Table!Next, Try!Table!Next,
         Table!Table!Start, Try!Table!Start, Table!Table!Stop, Try!Table!Stop,
         Table!Table!Philosophers, Try!Table!Philosophers, Table!Table!Right, Try!Table!Right
  <2>3. CASE UNCHANGED seat
    BY <2>3
  <2>4. CASE InLine(Next) \/ InBowl(Bowl!Next) \/ InShop(Shop!Next) \/ InSleep(Sleep!Next)
    BY <2>3, <2>4 DEF InLine, InBowl, InShop, InSleep, tableVars
  <2>5. CASE UNCHANGED all
    BY <2>3, <2>5 DEF all, tableVars
  <2> QED
    BY <2>1, <2>2, <2>4, <2>5 DEF MCNext
<1> QED
  BY <1>1, <1>2, ExercisesInductive, PTL DEF MCSpec, ImplementsDining, Table!ImplementsDining, Table!Table!Spec
=============================================================================
