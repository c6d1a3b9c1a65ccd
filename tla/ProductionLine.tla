--------------------------- MODULE ProductionLine ---------------------------
(***************************************************************************)
(* pr15task1.c: shops A, B and C make parts, the module shop joins an A    *)
(* and a B, the final shop joins a module and a C.  Parts are counted by   *)
(* semaphores only; each shop is a thread that makes PRODUCTS_TO_MAKE      *)
(* pieces and returns, and main joins the five of them.                    *)
(***************************************************************************)
EXTENDS Integers

CONSTANT PRODUCTS_TO_MAKE

ASSUME ProductsAssumption == PRODUCTS_TO_MAKE \in Nat

PartShops == {"A", "B", "C"}
Shops     == PartShops \cup {"Module", "Final"}
Parts     == PartShops \cup {"module"}

VARIABLES
    sem,       (* sem_part_A, sem_part_B, sem_part_C, sem_module            *)
    i,         (* each shop's loop variable                                 *)
    holds,     (* parts the assembling shops have taken in this round       *)
    destroyed  (* main has joined the shops and destroyed the semaphores    *)

vars == <<sem, i, holds, destroyed>>

Init ==
    /\ sem = [p \in Parts |-> 0]
    /\ i = [s \in Shops |-> 0]
    /\ holds = [s \in {"Module", "Final"} |-> 0]
    /\ destroyed = FALSE

Post(p) == sem' = [sem EXCEPT ![p] = @ + 1]
Wait(p) == sem[p] > 0 /\ sem' = [sem EXCEPT ![p] = @ - 1]

Working(s) == i[s] < PRODUCTS_TO_MAKE
RoundDone(s) == i' = [i EXCEPT ![s] = @ + 1]
Holding(s, n) == holds[s] = n /\ holds' = [holds EXCEPT ![s] = (n + 1) % 3]

(* worker_A, worker_B, worker_C *)
MakePart(s) ==
    /\ Working(s)
    /\ Post(s)
    /\ RoundDone(s)
    /\ UNCHANGED <<holds, destroyed>>

(* worker_Module *)
ModuleTakesA == Working("Module") /\ Holding("Module", 0) /\ Wait("A") /\ UNCHANGED <<i, destroyed>>
(* Mutant: a part B is built in without being taken. *)
ModuleSkipsB == Working("Module") /\ Holding("Module", 1) /\ UNCHANGED <<sem, i, destroyed>>

ModuleTakesB == Working("Module") /\ Holding("Module", 1) /\ Wait("B") /\ UNCHANGED <<i, destroyed>>
(* Mutant: the finished module is not announced. *)
ModuleSilent ==
    /\ Holding("Module", 2)
    /\ RoundDone("Module")
    /\ UNCHANGED <<sem, destroyed>>

ModuleReady  ==
    /\ Holding("Module", 2)
    /\ Post("module")
    /\ RoundDone("Module")
    /\ UNCHANGED destroyed

(* worker_Final *)
FinalTakesModule == Working("Final") /\ Holding("Final", 0) /\ Wait("module") /\ UNCHANGED <<i, destroyed>>
FinalTakesC      == Working("Final") /\ Holding("Final", 1) /\ Wait("C") /\ UNCHANGED <<i, destroyed>>
FinalReady       ==
    /\ Holding("Final", 2)
    /\ RoundDone("Final")
    /\ UNCHANGED <<sem, destroyed>>

ModuleStep == ModuleTakesA \/ ModuleTakesB \/ ModuleReady
FinalStep  == FinalTakesModule \/ FinalTakesC \/ FinalReady

(* main: the five joins, then sem_destroy. *)
Finish ==
    /\ ~destroyed
    /\ \A s \in Shops : i[s] = PRODUCTS_TO_MAKE
    /\ destroyed' = TRUE
    /\ UNCHANGED <<sem, i, holds>>

Next ==
    \/ \E s \in PartShops : MakePart(s)
    \/ ModuleStep \/ FinalStep \/ Finish

Fairness ==
    /\ \A s \in PartShops : WF_vars(MakePart(s))
    /\ WF_vars(ModuleStep) /\ WF_vars(FinalStep) /\ WF_vars(Finish)

Spec == Init /\ [][Next]_vars /\ Fairness

-----------------------------------------------------------------------------
TypeOK ==
    /\ sem \in [Parts -> Nat]
    /\ i \in [Shops -> 0 .. PRODUCTS_TO_MAKE]
    /\ holds \in [{"Module", "Final"} -> 0 .. 2]
    /\ destroyed \in BOOLEAN

Taken(s, n) == i[s] + IF holds[s] >= n THEN 1 ELSE 0

(* Every part made is on its semaphore, in the hands of the shop that took *)
(* it, or built in: the semaphores neither invent nor lose a part, in any  *)
(* interleaving of the five shops.                                         *)
PartsConserved ==
    /\ i["A"] = sem["A"] + Taken("Module", 1)
    /\ i["B"] = sem["B"] + Taken("Module", 2)
    /\ i["Module"] = sem["module"] + Taken("Final", 1)
    /\ i["C"] = sem["C"] + Taken("Final", 2)

(* No product is finished before the parts it consists of were made.       *)
NoProductWithoutParts == \A s \in PartShops : i["Final"] <= i[s]

(* When main destroys the semaphores nothing is left on them: as many      *)
(* parts were used as made.                                                *)
NothingLeftOver == destroyed => \A p \in Parts : sem[p] = 0

(* The plan is fulfilled (pr15task1.c:94): all shops return, main too.     *)
PlanFulfilled == <>destroyed
=============================================================================
