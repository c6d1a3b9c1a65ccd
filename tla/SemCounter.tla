----------------------------- MODULE SemCounter -----------------------------
(***************************************************************************)
(* pr10t2.c: parent and child increment a counter in shared memory under a *)
(* System V semaphore with SEM_UNDO.  Segment and semaphore are found by   *)
(* key and outlive the program, so runs of it meet in them: one that       *)
(* starts while another works, and one that starts after another was       *)
(* killed.  A segment or semaphore is named by the run that created it.    *)
(***************************************************************************)
EXTENDS Integers, FiniteSets

CONSTANTS
    Runs,              (* the program is started so many times: 1, 2, ...   *)
    total_count,       (* increments of each process                        *)
    MaxKills           (* bound: processes killed                           *)

ASSUME SemAssumption == Runs \subseteq Nat \ {0} /\ total_count \in Nat \ {0}

NoId == 0              (* no segment or semaphore under that key            *)

VARIABLES
    shm_key, sem_key,  (* what the two keys lead to                         *)
    shmid, semid,      (* what each run found there                         *)
    cntr,              (* of each segment                                   *)
    sem, removed,      (* value of each semaphore; those that are gone      *)
    place, local, todo,        (* of each process                           *)
    killed,            (* a killed process stays at its place               *)
    counted, spoilt    (* for the property: stores since the last reset of  *)
                       (* a segment; segments reset in mid-increment        *)

keys    == <<shm_key, sem_key, shmid, semid>>
ghosts  == <<counted, spoilt>>
semVars == <<keys, cntr, sem, removed, place, local, todo, killed, ghosts>>

Procs     == Runs \X {"parent", "child"}
Parent(r) == <<r, "parent">>
Child(r)  == <<r, "child">>
Shm(p)    == shmid[p[1]]
Sem(p)    == semid[p[1]]
Gone      == {"ended", "failed"}

Turn(p, from, to) == p \notin killed /\ place[p] = from /\ place' = [place EXCEPT ![p] = to]

(* Between its wait and its post; a killed process is in there no more.    *)
Inside(p) == p \notin killed /\ place[p] \in {"load", "store", "post"}

SemInit ==
    /\ shm_key = NoId /\ sem_key = NoId
    /\ shmid = [r \in Runs |-> NoId] /\ semid = [r \in Runs |-> NoId]
    /\ cntr = [r \in Runs |-> 0] /\ sem = [r \in Runs |-> 0] /\ removed = {}
    /\ place = [p \in Procs |-> IF p[2] = "parent" THEN "shmget" ELSE "unborn"]
    /\ local = [p \in Procs |-> 0] /\ todo = [p \in Procs |-> total_count]
    /\ killed = {}
    /\ counted = [r \in Runs |-> 0] /\ spoilt = {}

-----------------------------------------------------------------------------
(* main, up to the fork *)

ShmGet(r) ==
    /\ Turn(Parent(r), "shmget", "shmat")
    /\ shmid' = [shmid EXCEPT ![r] = IF shm_key = NoId THEN r ELSE shm_key]
    /\ shm_key' = shmid'[r]
    /\ UNCHANGED <<sem_key, semid, cntr, sem, removed, local, todo, killed, ghosts>>

(* A segment that was removed in the meantime is there only as long as     *)
(* somebody has it attached.                                               *)
Attached(s) ==
    {p \in Procs \ killed : Shm(p) = s
        /\ place[p] \notin Gone \cup {"shmget", "shmat", "unborn", "remove_sem"}}
ShmAt(r) ==
    /\ Turn(Parent(r), "shmat",
            IF shm_key = shmid[r] \/ Attached(shmid[r]) # {} THEN "semget" ELSE "failed")
    /\ UNCHANGED <<keys, cntr, sem, removed, local, todo, killed, ghosts>>

(* IPC_CREAT | IPC_EXCL: a new semaphore has the value 0. *)
SemCreate(r) ==
    /\ Turn(Parent(r), "semget", "setval")
    /\ sem_key = NoId
    /\ sem_key' = r /\ semid' = [semid EXCEPT ![r] = r]
    /\ UNCHANGED <<shm_key, shmid, cntr, sem, removed, local, todo, killed, ghosts>>

(* EEXIST, and the key is looked up again: "Existing semaphore used". *)
SemExists(r) ==
    /\ sem_key # NoId
    /\ Turn(Parent(r), "semget", "open")
    /\ UNCHANGED <<keys, cntr, sem, removed, local, todo, killed, ghosts>>

(* Mutant: the existing semaphore is set to 1 as well. *)
SemOpenSets(r) ==
    /\ Turn(Parent(r), "open", IF sem_key = NoId THEN "failed" ELSE "setval")
    /\ semid' = [semid EXCEPT ![r] = sem_key]
    /\ UNCHANGED <<shm_key, sem_key, shmid, cntr, sem, removed, local, todo, killed, ghosts>>

SemOpen(r) ==
    /\ Turn(Parent(r), "open", IF sem_key = NoId THEN "failed" ELSE "reset")
    /\ semid' = [semid EXCEPT ![r] = sem_key]
    /\ UNCHANGED <<shm_key, sem_key, shmid, cntr, sem, removed, local, todo, killed, ghosts>>

SetVal(r) ==
    /\ Turn(Parent(r), "setval", "reset")
    /\ sem' = [sem EXCEPT ![semid[r]] = 1]
    /\ UNCHANGED <<keys, cntr, removed, local, todo, killed, ghosts>>

(* The counter is set to 0 without the semaphore: an increment another run *)
(* is in the middle of will store a value from before.                     *)
Reset(r) ==
    /\ Turn(Parent(r), "reset", "fork")
    /\ cntr' = [cntr EXCEPT ![shmid[r]] = 0]
    /\ counted' = [counted EXCEPT ![shmid[r]] = 0]
    /\ spoilt' = IF \E p \in Procs \ killed : place[p] = "store" /\ Shm(p) = shmid[r]
                 THEN spoilt \cup {shmid[r]} ELSE spoilt \ {shmid[r]}
    /\ UNCHANGED <<keys, sem, removed, local, todo, killed>>

Fork(r) ==
    /\ Parent(r) \notin killed /\ place[Parent(r)] = "fork"
    /\ place' = [place EXCEPT ![Parent(r)] = "wait", ![Child(r)] = "wait"]
    /\ UNCHANGED <<keys, cntr, sem, removed, local, todo, killed, ghosts>>

-----------------------------------------------------------------------------
(* increment_counter_with_sem *)

SemWait(p) ==
    /\ Turn(p, "wait", "load")
    /\ todo[p] > 0 /\ Sem(p) \notin removed
    /\ sem[Sem(p)] > 0
    /\ sem' = [sem EXCEPT ![Sem(p)] = @ - 1]
    /\ UNCHANGED <<keys, cntr, removed, local, todo, killed, ghosts>>

Load(p) ==
    /\ Turn(p, "load", "store")
    /\ local' = [local EXCEPT ![p] = cntr[Shm(p)]]
    /\ UNCHANGED <<keys, cntr, sem, removed, todo, killed, ghosts>>

Store(p) ==
    /\ Turn(p, "store", "post")
    /\ cntr' = [cntr EXCEPT ![Shm(p)] = local[p] + 1]
    /\ counted' = [counted EXCEPT ![Shm(p)] = @ + 1]
    /\ todo' = [todo EXCEPT ![p] = @ - 1]
    /\ local' = [local EXCEPT ![p] = 0]     (* not read again: fewer states *)
    /\ UNCHANGED <<keys, sem, removed, killed, spoilt>>

SemSignal(p) ==
    /\ Turn(p, "post", "wait")
    /\ Sem(p) \notin removed
    /\ sem' = [sem EXCEPT ![Sem(p)] = @ + 1]
    /\ UNCHANGED <<keys, cntr, removed, local, todo, killed, ghosts>>

(* semop on a semaphore that is gone fails, and the process calls exit(1). *)
SemFails(p) ==
    /\ \/ Turn(p, "wait", "failed") /\ todo[p] > 0
       \/ Turn(p, "post", "failed")
    /\ Sem(p) \in removed
    /\ UNCHANGED <<keys, cntr, sem, removed, local, todo, killed, ghosts>>

Finish(p) ==
    /\ Turn(p, "wait", IF p[2] = "parent" THEN "reap" ELSE "ended")
    /\ todo[p] = 0
    /\ UNCHANGED <<keys, cntr, sem, removed, local, todo, killed, ghosts>>

-----------------------------------------------------------------------------
(* main, after its own increments *)

Reap(r) ==
    /\ Turn(Parent(r), "reap", "remove_shm")
    /\ Child(r) \in killed \/ place[Child(r)] \in Gone
    /\ UNCHANGED <<keys, cntr, sem, removed, local, todo, killed, ghosts>>

(* The key is free at once; who is attached keeps the segment. *)
RemoveShm(r) ==
    /\ Turn(Parent(r), "remove_shm", "remove_sem")
    /\ shm_key' = IF shm_key = shmid[r] THEN NoId ELSE shm_key
    /\ UNCHANGED <<sem_key, shmid, semid, cntr, sem, removed, local, todo, killed, ghosts>>

remove_semaphore(r) ==
    /\ Turn(Parent(r), "remove_sem", "ended")
    /\ removed' = removed \cup {semid[r]}
    /\ sem_key' = IF sem_key = semid[r] THEN NoId ELSE sem_key
    /\ UNCHANGED <<shm_key, shmid, semid, cntr, sem, local, todo, killed, ghosts>>

(* Mutant: the wait is not undone (no SEM_UNDO). *)
UndoNothing(p) == UNCHANGED sem

(* The kernel undoes what the process has not given back. *)
Undo(p) == sem' = IF Inside(p) THEN [sem EXCEPT ![Sem(p)] = @ + 1] ELSE sem

Kill(p) ==
    /\ p \notin killed /\ place[p] \notin Gone \cup {"unborn"}
    /\ Cardinality(killed) < MaxKills
    /\ killed' = killed \cup {p}
    /\ Undo(p)
    /\ UNCHANGED <<keys, cntr, removed, place, local, todo, ghosts>>

RunStep(r) ==
    \/ ShmGet(r) \/ ShmAt(r) \/ SemCreate(r) \/ SemExists(r) \/ SemOpen(r) \/ SetVal(r)
    \/ Reset(r) \/ Fork(r) \/ Reap(r) \/ RemoveShm(r) \/ remove_semaphore(r)
ProcStep(p) == SemWait(p) \/ Load(p) \/ Store(p) \/ SemSignal(p) \/ SemFails(p) \/ Finish(p)

ProcessStep(p) == ProcStep(p) \/ \E r \in Runs : p = Parent(r) /\ RunStep(r)

SemNext == \E p \in Procs : ProcessStep(p) \/ Kill(p)

SemSpec == SemInit /\ [][SemNext]_semVars

-----------------------------------------------------------------------------
InsideOf(s) == {p \in Procs : Inside(p) /\ Sem(p) = s}
Ready(s)    == semid[s] = s /\ place[Parent(s)] # "setval"    (* has its value *)

(* A semaphore has one token: from the semctl of its creator to its end it *)
(* is 1 with nobody between wait and post, or 0 with exactly one process   *)
(* there, whichever runs found it by its key and whoever was killed where. *)
(* Before the semctl it is 0 and nobody gets in.                           *)
OneToken ==
    \A s \in Runs \ removed :
        IF Ready(s)
        THEN \/ sem[s] = 1 /\ InsideOf(s) = {}
             \/ sem[s] = 0 /\ \E p \in Procs : InsideOf(s) = {p}
        ELSE sem[s] = 0 /\ InsideOf(s) = {}

(* "Mutual exclusion: SUCCESSFUL" (pr10t2.c:112): the counter of a segment *)
(* is the number of increments since it was last set to 0, whoever was     *)
(* killed.  If it was set to 0 in the middle of another run's increment,   *)
(* that one brings the old value back, and the counter is too high, never  *)
(* too low.  (Only two runs that found the segment with different          *)
(* semaphores are left out.)                                               *)
CountIsExact ==
    \A s \in Runs :
        \/ cntr[s] = counted[s]
        \/ s \in spoilt /\ cntr[s] > counted[s]
        \/ \E q, r \in Runs :
              /\ shmid[q] = s /\ shmid[r] = s
              /\ semid[q] # semid[r] /\ NoId \notin {semid[q], semid[r]}

(* Where every process gets to: to its own end, whoever else is killed,    *)
(* unless the semaphore it found was never given its value, because its    *)
(* creator was killed between semget and semctl.                           *)
AtRest(p) ==
    \/ p \in killed \/ place[p] \in Gone
    \/ place[p] = "unborn" /\ (Parent(p[1]) \in killed \/ place[Parent(p[1])] = "failed")
    \/ place[p] = "wait" /\ Parent(Sem(p)) \in killed /\ place[Parent(Sem(p))] = "setval"
RunsEnd == \A p \in Procs : AtRest(p)
=============================================================================
