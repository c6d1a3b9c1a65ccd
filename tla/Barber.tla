------------------------------- MODULE Barber -------------------------------
(***************************************************************************)
(* pr13task4.c: one barber, CUSTOMERS_COUNT customers, CHAIRS_COUNT        *)
(* chairs.  waiting_customers is changed by customers under                *)
(* customers_mutex and by the barber under barber_mutex, which do not      *)
(* exclude each other: each ++ or -- is a load and a store here.           *)
(* barber_sleeping is read, and customer_cond signalled, without the       *)
(* mutex the barber waits with.                                            *)
(***************************************************************************)
EXTENDS Integers, FiniteSets

CONSTANTS
    Customers,
    CHAIRS_COUNT,
    MaxSpurious,       (* bound: spurious wakeups of pthread_cond_wait      *)
    NoOne, TheBarber

CUSTOMERS_COUNT == Cardinality(Customers)

VARIABLES
    waiting_customers, barber_sleeping, served_customers,
    barber_mutex, customers_mutex,     (* the holder, or NoOne              *)
    pc,                                (* place of the barber and customers *)
    loaded,                            (* value each thread loaded          *)
    spurious                           (* what MaxSpurious bounds           *)

vars == <<waiting_customers, barber_sleeping, served_customers, barber_mutex,
          customers_mutex, pc, loaded, spurious>>

Threads == Customers \cup {TheBarber}
Goto(t, from, to) == pc[t] = from /\ pc' = [pc EXCEPT ![t] = to]
Load(t) == loaded' = [loaded EXCEPT ![t] = waiting_customers]

Init ==
    /\ waiting_customers = 0 /\ barber_sleeping = TRUE /\ served_customers = 0
    /\ barber_mutex = NoOne /\ customers_mutex = NoOne
    /\ pc = [t \in Threads |-> IF t = TheBarber THEN "loop" ELSE "arrive"]
    /\ loaded = [t \in Threads |-> 0]
    /\ spurious = 0

-----------------------------------------------------------------------------
(* barber *)

BarberLock ==
    /\ Goto(TheBarber, "loop", "test")
    /\ served_customers < CUSTOMERS_COUNT
    /\ barber_mutex = NoOne
    /\ barber_mutex' = TheBarber
    /\ UNCHANGED <<waiting_customers, barber_sleeping, served_customers,
                   customers_mutex, loaded, spurious>>

BarberGoesHome ==
    /\ Goto(TheBarber, "loop", "done")
    /\ served_customers >= CUSTOMERS_COUNT
    /\ UNCHANGED <<waiting_customers, barber_sleeping, served_customers,
                   barber_mutex, customers_mutex, loaded, spurious>>

BarberTest ==
    /\ Goto(TheBarber, "test", IF waiting_customers = 0 THEN "lie_down" ELSE "load")
    /\ UNCHANGED <<waiting_customers, barber_sleeping, served_customers,
                   barber_mutex, customers_mutex, loaded, spurious>>

BarberLiesDown ==
    /\ Goto(TheBarber, "lie_down", "sleep")
    /\ barber_sleeping' = TRUE
    /\ UNCHANGED <<waiting_customers, served_customers, barber_mutex,
                   customers_mutex, loaded, spurious>>

(* pthread_cond_wait(&customer_cond, &barber_mutex) *)
BarberSleeps ==
    /\ Goto(TheBarber, "sleep", "asleep")
    /\ barber_mutex' = NoOne
    /\ UNCHANGED <<waiting_customers, barber_sleeping, served_customers,
                   customers_mutex, loaded, spurious>>

BarberWakes ==
    /\ Goto(TheBarber, "woken", "load")
    /\ barber_mutex = NoOne
    /\ barber_mutex' = TheBarber
    /\ barber_sleeping' = FALSE
    /\ UNCHANGED <<waiting_customers, served_customers, customers_mutex,
                   loaded, spurious>>

BarberLoads ==
    /\ Goto(TheBarber, "load", "store")
    /\ Load(TheBarber)
    /\ UNCHANGED <<waiting_customers, barber_sleeping, served_customers,
                   barber_mutex, customers_mutex, spurious>>

(* The store of waiting_customers--, then the signal of barber_cond to one *)
(* customer, and the unlock.                                               *)
BarberCuts ==
    /\ pc[TheBarber] = "store"
    /\ waiting_customers' = loaded[TheBarber] - 1
    /\ served_customers' = served_customers + 1
    /\ barber_mutex' = NoOne
    /\ LET back    == [pc EXCEPT ![TheBarber] = "loop"]
           sitting == {c \in Customers : pc[c] = "waiting"}
       IN  \/ sitting = {} /\ pc' = back
           \/ \E c \in sitting : pc' = [back EXCEPT ![c] = "sit"]
    /\ UNCHANGED <<barber_sleeping, customers_mutex, loaded, spurious>>

BarberStep ==
    \/ BarberLock \/ BarberGoesHome \/ BarberTest \/ BarberLiesDown
    \/ BarberSleeps \/ BarberWakes \/ BarberLoads \/ BarberCuts

-----------------------------------------------------------------------------
(* customer *)

(* Mutant: customers_mutex is not waited for. *)
ArriveTogether(c) ==
    /\ Goto(c, "arrive", "look")
    /\ customers_mutex' = c
    /\ UNCHANGED <<waiting_customers, barber_sleeping, served_customers,
                   barber_mutex, loaded, spurious>>

Arrive(c) ==
    /\ Goto(c, "arrive", "look")
    /\ customers_mutex = NoOne
    /\ customers_mutex' = c
    /\ UNCHANGED <<waiting_customers, barber_sleeping, served_customers,
                   barber_mutex, loaded, spurious>>

TurnAway(c) ==
    /\ Goto(c, "look", "turned_away")
    /\ waiting_customers >= CHAIRS_COUNT
    /\ customers_mutex' = NoOne
    /\ UNCHANGED <<waiting_customers, barber_sleeping, served_customers,
                   barber_mutex, loaded, spurious>>

ChairFree(c) ==
    /\ Goto(c, "look", "load")
    /\ waiting_customers < CHAIRS_COUNT
    /\ UNCHANGED <<waiting_customers, barber_sleeping, served_customers,
                   barber_mutex, customers_mutex, loaded, spurious>>

LoadChairs(c) ==
    /\ Goto(c, "load", "store")
    /\ Load(c)
    /\ UNCHANGED <<waiting_customers, barber_sleeping, served_customers,
                   barber_mutex, customers_mutex, spurious>>

TakeChair(c) ==
    /\ Goto(c, "store", "check_barber")
    /\ waiting_customers' = loaded[c] + 1
    /\ UNCHANGED <<barber_sleeping, served_customers, barber_mutex,
                   customers_mutex, loaded, spurious>>

SeeAwake(c) ==
    /\ Goto(c, "check_barber", "sit")
    /\ ~barber_sleeping
    /\ customers_mutex' = NoOne
    /\ UNCHANGED <<waiting_customers, barber_sleeping, served_customers,
                   barber_mutex, loaded, spurious>>

SeeAsleep(c) ==
    /\ Goto(c, "check_barber", "wake_barber")
    /\ barber_sleeping
    /\ UNCHANGED <<waiting_customers, barber_sleeping, served_customers,
                   barber_mutex, customers_mutex, loaded, spurious>>

(* The signal is lost on a barber that has not started to wait.            *)
WakeBarber(c) ==
    /\ pc[c] = "wake_barber"
    /\ pc' = [pc EXCEPT ![c] = "sit",
                        ![TheBarber] = IF @ = "asleep" THEN "woken" ELSE @]
    /\ customers_mutex' = NoOne
    /\ UNCHANGED <<waiting_customers, barber_sleeping, served_customers,
                   barber_mutex, loaded, spurious>>

(* Lock barber_mutex, test, and wait for barber_cond or unlock and leave:  *)
(* one step, since only the barber signals barber_cond or changes          *)
(* barber_sleeping, and it holds barber_mutex when it does.                *)
Sit(c) ==
    /\ barber_mutex = NoOne
    /\ Goto(c, "sit", IF barber_sleeping \/ waiting_customers > 0 THEN "waiting" ELSE "trimmed")
    /\ UNCHANGED <<waiting_customers, barber_sleeping, served_customers,
                   barber_mutex, customers_mutex, loaded, spurious>>

CustomerStep(c) ==
    \/ Arrive(c) \/ TurnAway(c) \/ ChairFree(c) \/ LoadChairs(c) \/ TakeChair(c)
    \/ SeeAwake(c) \/ SeeAsleep(c) \/ WakeBarber(c) \/ Sit(c)

-----------------------------------------------------------------------------
SpuriousWakeup(t) ==
    /\ spurious < MaxSpurious
    /\ \/ t = TheBarber /\ Goto(t, "asleep", "woken")
       \/ t # TheBarber /\ Goto(t, "waiting", "sit")
    /\ spurious' = spurious + 1
    /\ UNCHANGED <<waiting_customers, barber_sleeping, served_customers,
                   barber_mutex, customers_mutex, loaded>>

Next ==
    \/ BarberStep
    \/ \E c \in Customers : CustomerStep(c)
    \/ \E t \in Threads : SpuriousWakeup(t)

Spec == Init /\ [][Next]_vars /\ WF_vars(BarberStep)
             /\ \A c \in Customers : WF_vars(CustomerStep(c))

-----------------------------------------------------------------------------
(* The chairs are never overbooked, although the barber's decrement races  *)
(* with the customers' test and increment and either update may be lost:   *)
(* a lost decrement cannot push the count over CHAIRS_COUNT.               *)
ChairsBound == waiting_customers <= CHAIRS_COUNT

(* "Vse klienty obsluzheny" (pr13task4.c:98): all customers leave, the     *)
(* barber finishes its day, and main gets past its joins.                  *)
AllServed ==
    <>(/\ pc[TheBarber] = "done"
       /\ \A c \in Customers : pc[c] \in {"trimmed", "turned_away"})
=============================================================================
