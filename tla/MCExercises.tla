---------------------------- MODULE MCExercises ----------------------------
(***************************************************************************)
(* Six small programs side by side: a behaviour is one of the program      *)
(* chosen at its start; the state of the others stays initial.             *)
(***************************************************************************)
EXTENDS ProductionLine, FiniteSets

CONSTANTS
    CatIds, MAX_FOOD, MIN_FOOD, CAT_EAT_AMOUNT, InitialFood,
    Customers, CHAIRS_COUNT, MaxSpurious, NoOne, TheBarber,
    Seconds, Earlier, MaxDelay,
    N

ASSUME FoodAssumption ==
    /\ {MAX_FOOD, MIN_FOOD, CAT_EAT_AMOUNT, InitialFood} \subseteq Nat \ {0}
    /\ CAT_EAT_AMOUNT <= MIN_FOOD /\ MIN_FOOD < MAX_FOOD
    /\ InitialFood <= MAX_FOOD

(* The threads are told apart. *)
ASSUME ChairsAssumption ==
    CHAIRS_COUNT \in Nat /\ {NoOne, TheBarber} \cap Customers = {}

ASSUME TimesAssumption == {Seconds, Earlier, MaxDelay} \subseteq Nat /\ Seconds > 0

(* One philosopher alone would lock the same fork twice. *)
ASSUME PhilosophersAssumption == N \in Nat /\ N >= 2 /\ NoOne \notin 0 .. N - 1

VARIABLES
    program,
    food_amount, owner, cat,
    waiting_customers, barber_sleeping, served_customers, barber_mutex,
    customers_mutex, pc, loaded, spurious,
    now, timer, handler, alarm_fired, remaining_time, sleeper, delay,
    started, cancelled, late,
    forks, seat

Bowl  == INSTANCE Cats
Shop  == INSTANCE Barber
Sleep == INSTANCE MySleep WITH pc <- sleeper

(* The two tables, and what they share. *)
Ordered == INSTANCE OrderedForks WITH pc <- seat
Try     == INSTANCE TryForks WITH pc <- seat
Table   == INSTANCE ForkTable WITH pc <- seat

catVars    == <<food_amount, owner, cat>>
barberVars == <<waiting_customers, barber_sleeping, served_customers, barber_mutex,
                customers_mutex, pc, loaded, spurious>>
sleepVars  == <<now, timer, handler, alarm_fired, remaining_time, sleeper, delay,
                started, cancelled, late>>
tableVars  == <<forks, seat>>
all        == <<program, vars, catVars, barberVars, sleepVars, tableVars>>

InLine(A)    == program = "pr15task1" /\ A /\ UNCHANGED <<program, catVars, barberVars, sleepVars, tableVars>>
InBowl(A)    == program = "pr13task2" /\ A /\ UNCHANGED <<program, vars, barberVars, sleepVars, tableVars>>
InShop(A)    == program = "pr13task4" /\ A /\ UNCHANGED <<program, vars, catVars, sleepVars, tableVars>>
InSleep(A)   == program = "pr7t7" /\ A /\ UNCHANGED <<program, vars, catVars, barberVars, tableVars>>
AtTable(A)   == A /\ UNCHANGED <<program, vars, catVars, barberVars, sleepVars>>
InOrdered(A) == program = "pr13task3-1" /\ AtTable(A)
InTry(A)     == program = "pr13task3-2" /\ AtTable(A)

MCInit ==
    /\ program \in {"pr15task1", "pr13task2", "pr13task4", "pr7t7", "pr13task3-1", "pr13task3-2"}
    /\ Init /\ Bowl!Init /\ Shop!Init /\ Sleep!Init /\ Table!Init

MCNext == \/ InLine(Next) \/ InBowl(Bowl!Next) \/ InShop(Shop!Next) \/ InSleep(Sleep!Next)
          \/ InOrdered(Ordered!Next) \/ InTry(Try!Next)

(* The fairness of the programs' own specifications; of the ordered table  *)
(* OrderedForks!FairSpec.  (Nothing is asked of Barber here that needs it.)*)
MCFairness ==
    /\ \A s \in PartShops : WF_all(InLine(MakePart(s)))
    /\ WF_all(InLine(ModuleStep)) /\ WF_all(InLine(FinalStep)) /\ WF_all(InLine(Finish))
    /\ WF_all(InBowl(Bowl!OwnerStep))
    /\ \A c \in CatIds : WF_all(InBowl(Bowl!CatStep(c)))
    /\ WF_all(InSleep(Sleep!Tick)) /\ WF_all(InSleep(Sleep!Alarm)) /\ WF_all(InSleep(Sleep!Step))
    /\ \A p \in Table!Philosophers :
          /\ WF_all(InOrdered(Ordered!EatStep(p)))
          /\ SF_all(InOrdered(Ordered!GrabFirst(p))) /\ SF_all(InOrdered(Ordered!GrabSecond(p)))
          /\ WF_all(InTry(Try!EatStep(p)))

MCSpec == MCInit /\ [][MCNext]_all /\ MCFairness

-----------------------------------------------------------------------------
(* pr15task1.c: the plan is fulfilled: all shops return, main too.         *)
LineFinishes == program = "pr15task1" => PlanFulfilled

(* pr13task2.c: nobody waits for a condition that has come true.           *)
NobodyMissesOut == Bowl!NobodyMissesOut

(* pr13task2.c: a cat at an empty bowl gets to look at a full one.         *)
HungryCatsAreCalled == program = "pr13task2" => Bowl!HungryCatsAreCalled

(* pr13task4.c: the chairs are never overbooked.                           *)
ChairsBound == Shop!ChairsBound

(* pr7t7.c: my_sleep does not return early, and an alarm set before it is  *)
(* lost only if it falls due before the sleep could end; else it is set    *)
(* again for its time, or later by what my_sleep was held up.              *)
AlarmsKept == Sleep!SleepsLongEnough /\ Sleep!EarlierAlarmKept

(* pr7t7.c: my_sleep returns, unless it misses its alarm before pause.     *)
AwakesOrMissesAlarm == program = "pr7t7" => Sleep!AwakesOrMissesAlarm

(* pr13task3-1.c: whoever waits for a fork waits, through at most two      *)
(* others, for a philosopher who can go on.                                *)
NoCircularWait == program = "pr13task3-1" => Ordered!NoCircularWait

(* pr13task3-2.c: whoever waits has a neighbour that eats.                 *)
WaitsForNeighbour == program = "pr13task3-2" => Try!WaitsForNeighbour

(* pr13task3-1.c: everyone who is hungry eats; pr13task3-2.c: whoever      *)
(* waits gets to try again.                                                *)
NobodyForgotten ==
    /\ program = "pr13task3-1" => Ordered!NoStarvation
    /\ program = "pr13task3-2" => Try!SleepersTryAgain

(* Both tables: two neighbours never eat at the same time.                 *)
ImplementsDining == Table!ImplementsDining
=============================================================================
