------------------------------ MODULE Employee ------------------------------
(***************************************************************************)
(* pr11task1.c and pr11task2.c: two threads copy their employee over       *)
(* employee_of_the_day for ever, main copies it out and compares.  A copy  *)
(* goes field by field, a string bit by bit: Units such parts, of which    *)
(* the first is the number.  A part of employee e has the value e.         *)
(* pr11task2.c holds a_mutex during a copy and stops its threads.          *)
(***************************************************************************)
EXTENDS Integers

CONSTANTS Units, MAX_ITERATIONS, Unlocked

ASSUME EmployeeAssumption == Units \in Nat /\ Units > 1 /\ MAX_ITERATIONS > 0 /\ Unlocked \notin 0 .. 2

NUM_EMPLOYEES == 2
Main    == 0
Copiers == 0 .. NUM_EMPLOYEES          (* main and the two threads          *)
Copies  == [1 .. Units -> 1 .. NUM_EMPLOYEES]

VARIABLES
    with_mutex,        (* TRUE: pr11task2.c                                 *)
    employee_of_the_day, eotd,
    a_mutex, stop_threads,
    step, unit,        (* where each is; parts of its copy that are done    *)
    iteration

employeeVars ==
    <<with_mutex, employee_of_the_day, eotd, a_mutex, stop_threads, step, unit, iteration>>

(* main has copied the first employee before it creates the threads. *)
EmployeeInit ==
    /\ with_mutex \in BOOLEAN
    /\ employee_of_the_day = [u \in 1 .. Units |-> 1] /\ eotd = employee_of_the_day
    /\ a_mutex = Unlocked /\ stop_threads = FALSE
    /\ step = [c \in Copiers |-> IF c = Main THEN "lock" ELSE "test"]
    /\ unit = [c \in Copiers |-> 0]
    /\ iteration = 0

Next_(c, from, to) == step[c] = from /\ step' = [step EXCEPT ![c] = to]
Exited == step[Main] \in {"error", "end"}       (* and the threads with it  *)

TestStop(t) ==
    /\ ~Exited
    /\ Next_(t, "test", IF with_mutex /\ stop_threads THEN "stopped" ELSE "lock")
    /\ UNCHANGED <<with_mutex, employee_of_the_day, eotd, a_mutex, stop_threads, unit, iteration>>

(* Mutant: main copies without the mutex. *)
MutexForThreads(c) ==
    IF with_mutex /\ c # Main THEN a_mutex = Unlocked /\ a_mutex' = c ELSE UNCHANGED a_mutex

TakeMutex(c) ==
    IF with_mutex THEN a_mutex = Unlocked /\ a_mutex' = c ELSE UNCHANGED a_mutex

BeginCopy(c) ==
    /\ ~Exited
    /\ Next_(c, "lock", "copy")
    /\ TakeMutex(c)
    /\ UNCHANGED <<with_mutex, employee_of_the_day, eotd, stop_threads, unit, iteration>>

CopyUnit(c) ==
    /\ ~Exited /\ step[c] = "copy" /\ unit[c] < Units
    /\ LET u == unit[c] + 1
       IN  IF c = Main
           THEN eotd' = [eotd EXCEPT ![u] = employee_of_the_day[u]] /\ UNCHANGED employee_of_the_day
           ELSE employee_of_the_day' = [employee_of_the_day EXCEPT ![u] = c] /\ UNCHANGED eotd
    /\ unit' = [unit EXCEPT ![c] = @ + 1]
    /\ UNCHANGED <<with_mutex, a_mutex, stop_threads, step, iteration>>

EndCopy(c) ==
    /\ ~Exited /\ unit[c] = Units
    /\ Next_(c, "copy", IF c = Main THEN "compare" ELSE "test")
    /\ unit' = [unit EXCEPT ![c] = 0]
    /\ a_mutex' = IF a_mutex = c THEN Unlocked ELSE a_mutex
    /\ UNCHANGED <<with_mutex, employee_of_the_day, eotd, stop_threads, iteration>>

(* Every part is compared with employees[eotd.number-1]. *)
Mismatch == \E u \in 1 .. Units : eotd[u] # eotd[1]

Compare ==
    /\ Next_(Main, "compare", CASE Mismatch -> "error"
                                [] ~Mismatch /\ iteration + 1 < MAX_ITERATIONS -> "lock"
                                [] OTHER -> IF with_mutex THEN "stop" ELSE "end")
    /\ iteration' = IF Mismatch THEN iteration ELSE iteration + 1
    /\ UNCHANGED <<with_mutex, employee_of_the_day, eotd, a_mutex, stop_threads, unit>>

StopThreads ==
    /\ Next_(Main, "stop", "join")
    /\ stop_threads' = TRUE
    /\ UNCHANGED <<with_mutex, employee_of_the_day, eotd, a_mutex, unit, iteration>>

JoinThreads ==
    /\ Next_(Main, "join", "end")
    /\ \A t \in Copiers \ {Main} : step[t] = "stopped"
    /\ UNCHANGED <<with_mutex, employee_of_the_day, eotd, a_mutex, stop_threads, unit, iteration>>

CopyStep(c) == BeginCopy(c) \/ CopyUnit(c) \/ EndCopy(c)
MainStep    == CopyStep(Main) \/ Compare \/ StopThreads \/ JoinThreads
ThreadStep(t) == TestStop(t) \/ CopyStep(t)
EmployeeNext == MainStep \/ \E t \in Copiers \ {Main} : ThreadStep(t)

EmployeeSpec == EmployeeInit /\ [][EmployeeNext]_employeeVars

-----------------------------------------------------------------------------
(* "Employee data: ALWAYS CONSISTENT" (pr11task2.c:126): with the mutex no *)
(* comparison of main's fails, and main's copy is one employee whenever    *)
(* main is not in the middle of it.  Without, both go wrong.               *)
NeverTorn ==
    with_mutex => /\ step[Main] # "error"
                  /\ step[Main] # "copy" => ~Mismatch

(* Main gets to its end, with the mutex also the threads it has stopped;   *)
(* or it waits for a mutex that is free again and again.  (Nothing in      *)
(* pthread_mutex_lock makes it the next one in turn.)                      *)
MainEnds == Exited \/ (step[Main] = "lock" /\ a_mutex = Unlocked)
=============================================================================
