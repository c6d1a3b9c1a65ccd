-------------------------- MODULE ProcessesProofs --------------------------
(***************************************************************************)
(* What the small programs of MCProcesses keep to, for every number of     *)
(* threads and rounds: first for each program by itself, and at the end    *)
(* for the specification of them all.                                      *)
(***************************************************************************)
EXTENDS MCProcesses, WellFoundedInduction, FiniteSetTheorems, SequenceTheorems, TLAPS

-----------------------------------------------------------------------------
(* pr10t2.c *)

Early   == {"shmget", "shmat", "semget", "open"}       (* no semaphore yet  *)
Working == {"reset", "fork", "wait", "load", "store", "post", "reap",
            "remove_shm", "remove_sem"}

SemPlaces  == Early \cup Working \cup {"setval", "unborn", "failed", "ended"}

SemTypes ==
    /\ sem_key \in Runs \cup {NoId} /\ semid \in [Runs -> Runs \cup {NoId}]
    /\ sem \in [Runs -> Int] /\ removed \subseteq Runs
    /\ place \in [Procs -> SemPlaces] /\ killed \subseteq Procs

(* What a run knows of its semaphore, by the place of its processes; and   *)
(* the key leads to a semaphore whose creator has it.                      *)
Found ==
    /\ \A r \in Runs :
          /\ place[Parent(r)] \in Early => semid[r] = NoId
          /\ place[Parent(r)] = "setval" => semid[r] = r
          /\ place[Parent(r)] \in Early \cup {"setval", "reset", "fork"} => place[Child(r)] = "unborn"
    /\ \A p \in Procs : place[p] \in Working => Sem(p) \in Runs
    /\ sem_key # NoId => semid[sem_key] = sem_key

SemInv == SemTypes /\ Found /\ OneToken

-----------------------------------------------------------------------------
(* Parents and children are different processes, each of one run.          *)
LEMMA ParentsAndChildren ==
    /\ \A r \in Runs : Parent(r) \in Procs /\ Child(r) \in Procs
    /\ \A r \in Runs : Parent(r)[1] = r /\ Child(r)[1] = r
    /\ \A r, q \in Runs : Parent(r) # Child(q)
    /\ \A r, q \in Runs : Parent(r) = Parent(q) => r = q
    /\ \A r, q \in Runs : Child(r) = Child(q) => r = q
    /\ \A p \in Procs : p[1] \in Runs /\ p \in {Parent(p[1]), Child(p[1])}
    /\ NoId \notin Runs
<1>1. \A r \in Runs : Parent(r) \in Procs /\ Child(r) \in Procs
  BY DEF Procs, Parent, Child
<1>2. \A p \in Procs : p[1] \in Runs /\ p \in {Parent(p[1]), Child(p[1])}
  BY DEF Procs, Parent, Child
<1>3. NoId \notin Runs
  BY SemAssumption DEF NoId
<1> QED
  BY <1>1, <1>2, <1>3 DEF Parent, Child

(* A step that changes neither a semaphore nor who is between wait and     *)
(* post keeps the token where it is.                                       *)
LEMMA TokenStays ==
    ASSUME OneToken, sem' = sem, removed \subseteq removed',
           \A s \in Runs \ removed' : Ready(s)' <=> Ready(s),
           \A p \in Procs : (Inside(p)' <=> Inside(p)) \/ (Sem(p) \in removed' /\ ~Inside(p)'),
           \A p \in Procs : Inside(p) => Sem(p)' = Sem(p)
    PROVE  OneToken'
<1> SUFFICES ASSUME NEW s \in Runs \ removed'
             PROVE  IF Ready(s)'
                    THEN \/ sem'[s] = 1 /\ InsideOf(s)' = {}
                         \/ sem'[s] = 0 /\ \E p \in Procs : InsideOf(s)' = {p}
                    ELSE sem'[s] = 0 /\ InsideOf(s)' = {}
  BY DEF OneToken
<1>1. ASSUME NEW p \in Procs
      PROVE  (Inside(p)' /\ Sem(p)' = s) <=> (Inside(p) /\ Sem(p) = s)
  OBVIOUS
<1>2. InsideOf(s)' = InsideOf(s)
  BY <1>1 DEF InsideOf
<1> QED
  BY <1>2 DEF OneToken

-----------------------------------------------------------------------------
LEMMA KnowledgeStays == SemInv /\ [SemNext]_semVars => SemTypes' /\ Found'
<1> SUFFICES ASSUME SemInv, [SemNext]_semVars PROVE SemTypes' /\ Found'
  OBVIOUS
<1> USE ParentsAndChildren
<1>1. ASSUME NEW r \in Runs, ShmGet(r) \/ ShmAt(r) PROVE SemTypes' /\ Found'
  BY <1>1 DEF SemInv, SemTypes, Found, ShmGet, ShmAt, Turn, Sem, keys, Early, Working, SemPlaces, Gone
<1>2. ASSUME NEW r \in Runs, SemCreate(r) PROVE SemTypes' /\ Found'
  BY <1>2 DEF SemInv, SemTypes, Found, SemCreate, Turn, Sem, keys, Early, Working, SemPlaces, Gone
<1>3. ASSUME NEW r \in Runs, SemExists(r) PROVE SemTypes' /\ Found'
  BY <1>3 DEF SemInv, SemTypes, Found, SemExists, Turn, Sem, keys, Early, Working, SemPlaces, Gone
<1>4. ASSUME NEW r \in Runs, SemOpen(r) PROVE SemTypes' /\ Found'
  BY <1>4 DEF SemInv, SemTypes, Found, SemOpen, Turn, Sem, keys, Early, Working, SemPlaces, Gone
<1>5. ASSUME NEW r \in Runs, SetVal(r) PROVE SemTypes' /\ Found'
  BY <1>5 DEF SemInv, SemTypes, Found, SetVal, Turn, Sem, keys, Early, Working, SemPlaces, Gone
<1>6. ASSUME NEW r \in Runs, Reset(r) PROVE SemTypes' /\ Found'
  BY <1>6 DEF SemInv, SemTypes, Found, Reset, Turn, Sem, keys, Early, Working, SemPlaces, Gone
<1>7. ASSUME NEW r \in Runs, Fork(r) PROVE SemTypes' /\ Found'
  BY <1>7 DEF SemInv, SemTypes, Found, Fork, Sem, keys, Early, Working, SemPlaces, Gone
<1>8. ASSUME NEW r \in Runs, Reap(r) \/ RemoveShm(r) \/ remove_semaphore(r) PROVE SemTypes' /\ Found'
  BY <1>8 DEF SemInv, SemTypes, Found, Reap, RemoveShm, remove_semaphore, Turn, Sem, keys, Early, Working, SemPlaces, Gone
<1>9. ASSUME NEW p \in Procs, ProcStep(p) PROVE SemTypes' /\ Found'
  BY <1>9 DEF SemInv, SemTypes, Found, ProcStep, SemWait, Load, Store, SemSignal, SemFails, Finish,
              Turn, Sem, keys, Early, Working, SemPlaces, Gone
<1>10. ASSUME NEW p \in Procs, Kill(p) PROVE SemTypes' /\ Found'
  BY <1>10 DEF SemInv, SemTypes, Found, Kill, Undo, Inside, Sem, keys, Early, Working, SemPlaces, Gone
<1>11. ASSUME UNCHANGED semVars PROVE SemTypes' /\ Found'
  BY <1>11 DEF SemInv, SemTypes, Found, Sem, semVars, keys
<1> QED
  BY <1>1, <1>2, <1>3, <1>4, <1>5, <1>6, <1>7, <1>8, <1>9, <1>10, <1>11
     DEF SemNext, ProcessStep, RunStep

-----------------------------------------------------------------------------
(* Who waits takes the token: it was there, and nobody was inside.         *)
LEMMA TokenTaken ==
    ASSUME SemInv, NEW p \in Procs, SemWait(p) PROVE OneToken'
<1> USE ParentsAndChildren
<1>1. PICK t \in Runs \ removed : t = Sem(p) /\ sem[t] > 0
  BY DEF SemInv, SemTypes, Found, SemWait, Turn, Working
<1>2. Ready(t) /\ sem[t] = 1 /\ InsideOf(t) = {}
  BY <1>1 DEF SemInv, OneToken
<1>3. \A q \in Procs : Sem(q)' = Sem(q) /\ (Inside(q)' <=> Inside(q) \/ q = p)
  BY DEF SemInv, SemTypes, SemWait, Turn, Inside, Sem, keys
<1>4. \A s \in Runs : Ready(s)' <=> Ready(s)
  BY DEF SemInv, SemTypes, SemWait, Turn, Ready, keys
<1>5. InsideOf(t)' = {p} /\ sem'[t] = 0
  BY <1>1, <1>2, <1>3 DEF SemInv, SemTypes, InsideOf, SemWait
<1>6. ASSUME NEW s \in Runs, s # t PROVE InsideOf(s)' = InsideOf(s) /\ sem'[s] = sem[s]
  BY <1>1, <1>3, <1>6 DEF SemInv, SemTypes, InsideOf, SemWait
<1>7. removed' = removed
  BY DEF SemWait
<1> QED
  BY <1>1, <1>2, <1>4, <1>5, <1>6, <1>7 DEF SemInv, OneToken

(* Who was inside and goes, by its post or because it is killed, gives the *)
(* token back; the semaphore may have been removed in the meantime.        *)
LEMMA TokenBack ==
    ASSUME SemInv, NEW p \in Procs, Inside(p), NEW t \in Runs, t = Sem(p),
           sem' = [sem EXCEPT ![t] = @ + 1], UNCHANGED <<semid, removed>>,
           \A q \in Procs : Inside(q)' <=> Inside(q) /\ q # p,
           \A s \in Runs : Ready(s)' <=> Ready(s)
    PROVE  OneToken'
<1>1. \A q \in Procs : Sem(q)' = Sem(q)
  BY DEF Sem
<1>2. p \in InsideOf(t)
  BY DEF InsideOf
<1>3. ASSUME NEW s \in Runs, s # t PROVE InsideOf(s)' = InsideOf(s) /\ sem'[s] = sem[s]
  BY <1>1, <1>3 DEF SemInv, SemTypes, InsideOf
<1>4. ASSUME t \notin removed
      PROVE  Ready(t) /\ InsideOf(t)' = {} /\ sem'[t] = 1
  <2>1. Ready(t) /\ sem[t] = 0 /\ InsideOf(t) = {p}
    BY <1>2, <1>4 DEF SemInv, OneToken
  <2> QED
    BY <2>1, <1>1 DEF SemInv, SemTypes, InsideOf
<1> QED
  BY <1>3, <1>4 DEF SemInv, OneToken

LEMMA TokenKept == SemInv /\ [SemNext]_semVars => OneToken'
<1> SUFFICES ASSUME SemInv, [SemNext]_semVars PROVE OneToken'
  OBVIOUS
<1> USE ParentsAndChildren
<1>1. ASSUME NEW r \in Runs,
             ShmGet(r) \/ ShmAt(r) \/ SemExists(r) \/ Reset(r) \/ Fork(r)
               \/ Reap(r) \/ RemoveShm(r) \/ remove_semaphore(r)
      PROVE  OneToken'
  <2>1. sem' = sem /\ semid' = semid /\ removed \subseteq removed' /\ killed' = killed
    BY <1>1 DEF ShmGet, ShmAt, SemExists, Reset, Fork, Reap, RemoveShm, remove_semaphore, keys
  <2>2. \A p \in Procs : Inside(p)' <=> Inside(p)
    BY <1>1, <2>1 DEF SemInv, SemTypes, Found, Inside, ShmGet, ShmAt, SemExists, Reset, Fork, Reap,
                      RemoveShm, remove_semaphore, Turn, Gone
  <2>3. \A s \in Runs : Ready(s)' <=> Ready(s)
    BY <1>1, <2>1 DEF SemInv, SemTypes, Found, Ready, ShmGet, ShmAt, SemExists, Reset, Fork, Reap,
                      RemoveShm, remove_semaphore, Turn, Gone
  <2> QED
    BY <2>1, <2>2, <2>3, TokenStays DEF SemInv, Sem
<1>2. ASSUME NEW r \in Runs, SemCreate(r) \/ SemOpen(r) PROVE OneToken'
  <2>1. /\ place[Parent(r)] \in Early /\ semid[r] = NoId /\ place[Child(r)] = "unborn"
        /\ sem' = sem /\ removed' = removed /\ killed' = killed
    BY <1>2 DEF SemInv, Found, SemCreate, SemOpen, Turn, Early
  <2>2. \A p \in Procs : Inside(p)' <=> Inside(p)
    BY <1>2, <2>1 DEF SemInv, SemTypes, Inside, SemCreate, SemOpen, Turn, Early
  <2>3. \A p \in Procs : Inside(p) => Sem(p)' = Sem(p)
    BY <1>2, <2>1 DEF SemInv, SemTypes, Inside, Sem, SemCreate, SemOpen, Turn, Early
  <2>4. \A s \in Runs : Ready(s)' <=> Ready(s)
    BY <1>2, <2>1 DEF SemInv, SemTypes, Found, Ready, SemCreate, SemOpen, Turn, Early
  <2> QED
    BY <2>1, <2>2, <2>3, <2>4, TokenStays DEF SemInv
<1>3. ASSUME NEW r \in Runs, SetVal(r) PROVE OneToken'
  <2>1. /\ semid[r] = r /\ ~Ready(r) /\ Ready(r)' /\ sem' = [sem EXCEPT ![r] = 1]
        /\ removed' = removed
    BY <1>3 DEF SemInv, SemTypes, Found, SetVal, Turn, Ready, keys
  <2>2. \A p \in Procs : Sem(p)' = Sem(p) /\ Inside(p)' = Inside(p)
    BY <1>3 DEF SemInv, SemTypes, Inside, Sem, SetVal, Turn, keys
  <2>3. \A s \in Runs \ {r} : Ready(s)' <=> Ready(s)
    BY <1>3 DEF SemInv, SemTypes, Ready, SetVal, Turn, keys
  <2>4. \A s \in Runs : InsideOf(s)' = InsideOf(s)
    BY <2>2 DEF InsideOf
  <2> QED
    BY <2>1, <2>3, <2>4 DEF SemInv, SemTypes, OneToken
<1>4. ASSUME NEW p \in Procs, Load(p) \/ Store(p) \/ SemFails(p) \/ Finish(p) PROVE OneToken'
  <2>1. sem' = sem /\ semid' = semid /\ removed' = removed /\ killed' = killed
    BY <1>4 DEF Load, Store, SemFails, Finish, keys
  <2>2. \A q \in Procs : (Inside(q)' <=> Inside(q)) \/ (Sem(q) \in removed /\ ~Inside(q)')
    BY <1>4, <2>1 DEF SemInv, SemTypes, Inside, Load, Store, SemFails, Finish, Turn
  <2>3. \A s \in Runs : Ready(s)' <=> Ready(s)
    BY <1>4, <2>1 DEF SemInv, SemTypes, Ready, Load, Store, SemFails, Finish, Turn
  <2> QED
    BY <2>1, <2>2, <2>3, TokenStays DEF SemInv, Sem
<1>5. ASSUME NEW p \in Procs, SemWait(p) PROVE OneToken'
  BY <1>5, TokenTaken
<1>6. ASSUME NEW p \in Procs, SemSignal(p) PROVE OneToken'
  <2>1. Inside(p) /\ Sem(p) \in Runs
    BY <1>6 DEF SemInv, Found, SemSignal, Turn, Inside, Working
  <2>2. \A q \in Procs : Inside(q)' <=> Inside(q) /\ q # p
    BY <1>6 DEF SemInv, SemTypes, Inside, SemSignal, Turn
  <2>3. \A s \in Runs : Ready(s)' <=> Ready(s)
    BY <1>6 DEF SemInv, SemTypes, Ready, SemSignal, Turn, keys
  <2> QED
    BY <1>6, <2>1, <2>2, <2>3, TokenBack DEF SemSignal, keys
<1>7. ASSUME NEW p \in Procs, Kill(p) PROVE OneToken'
  <2>1. /\ semid' = semid /\ removed' = removed /\ place' = place
        /\ p \notin killed /\ killed' = killed \cup {p}
    BY <1>7 DEF Kill, keys
  <2>2. \A q \in Procs : Inside(q)' <=> Inside(q) /\ q # p
    BY <2>1 DEF Inside
  <2>3. \A s \in Runs : Ready(s)' <=> Ready(s)
    BY <2>1 DEF Ready
  <2>4. CASE Inside(p)
    <3>1. Sem(p) \in Runs /\ sem' = [sem EXCEPT ![Sem(p)] = @ + 1]
      BY <1>7, <2>4 DEF SemInv, Found, Kill, Undo, Inside, Working
    <3> QED
      BY <2>1, <2>2, <2>3, <2>4, <3>1, TokenBack
  <2>5. CASE ~Inside(p)
    <3>1. sem' = sem
      BY <1>7, <2>5 DEF Kill, Undo
    <3>2. \A q \in Procs : Inside(q)' <=> Inside(q)
      BY <2>2, <2>5
    <3> QED
      BY <2>1, <2>3, <3>1, <3>2, TokenStays DEF SemInv, Sem
  <2> QED
    BY <2>4, <2>5
<1>8. ASSUME UNCHANGED semVars PROVE OneToken'
  BY <1>8 DEF SemInv, OneToken, Ready, InsideOf, Inside, Sem, semVars, keys
<1> QED
  BY <1>1, <1>2, <1>3, <1>4, <1>5, <1>6, <1>7, <1>8
     DEF SemNext, ProcessStep, RunStep, ProcStep

LEMMA SemInitially == SemInit => SemInv
<1> SUFFICES ASSUME SemInit PROVE SemInv
  OBVIOUS
<1> USE ParentsAndChildren
<1>1. SemTypes
  BY DEF SemInit, SemTypes, SemPlaces, Early, Working, Procs
<1>2. \A r \in Runs : place[Parent(r)] = "shmget" /\ place[Child(r)] = "unborn"
  BY DEF SemInit, Parent, Child
<1>3. \A p \in Procs : place[p] \in {"shmget", "unborn"}
  BY DEF SemInit
<1>4. Found
  BY <1>2, <1>3 DEF SemInit, Found, Early, Working
<1>5. OneToken
  BY <1>3 DEF SemInit, OneToken, Ready, InsideOf, Inside
<1> QED
  BY <1>1, <1>4, <1>5 DEF SemInv

(* The semaphore found by key, its value and who is inside agree for ever. *)
THEOREM SemInductive == SemSpec => []SemInv
<1>1. SemInv /\ [SemNext]_semVars => SemInv'
  BY KnowledgeStays, TokenKept DEF SemInv
<1> QED
  BY SemInitially, <1>1, PTL DEF SemSpec

(* SemCounter!OneToken: mutual exclusion by the semaphore of pr10t2.c,     *)
(* whichever runs share it and whoever is killed.                          *)
THEOREM TokenIsOne == SemSpec => []OneToken
<1>1. SemInv => OneToken
  BY DEF SemInv
<1> QED
  BY SemInductive, <1>1, PTL
-----------------------------------------------------------------------------
(* The counter of a segment.  Two runs that found one segment with         *)
(* different semaphores go on like that; else all who work on it share a   *)
(* semaphore, and at most one of them is between its load and its store.   *)

Split(s) ==
    \E q, r \in Runs :
       /\ shmid[q] = s /\ shmid[r] = s
       /\ semid[q] # semid[r] /\ NoId \notin {semid[q], semid[r]}

CountTypes ==
    /\ shm_key \in Runs \cup {NoId} /\ shmid \in [Runs -> Runs \cup {NoId}]
    /\ cntr \in [Runs -> Nat] /\ counted \in [Runs -> Nat]
    /\ local \in [Procs -> Nat]
    /\ \A p \in Procs : place[p] \notin {"shmget", "unborn", "ended", "failed"} => Shm(p) \in Runs

(* Also of a semaphore that has been removed. *)
OneInside == \A p, q \in Procs : Inside(p) /\ Inside(q) /\ Sem(p) = Sem(q) => p = q

Storing(p, s) == p \notin killed /\ place[p] = "store" /\ Shm(p) = s

Counted(s) ==
    /\ cntr[s] >= counted[s] /\ (s \in spoilt \/ cntr[s] = counted[s])
    /\ \A p \in Procs : Storing(p, s) =>
          local[p] >= counted[s] /\ (s \in spoilt \/ local[p] = cntr[s])

CountKept == \A s \in Runs : Split(s) \/ Counted(s)

CountInv == SemInv /\ CountTypes /\ OneInside /\ CountKept

LEMMA CountTypesStay == SemInv /\ CountTypes /\ [SemNext]_semVars => CountTypes'
<1> SUFFICES ASSUME SemInv, CountTypes, [SemNext]_semVars PROVE CountTypes'
  OBVIOUS
<1> USE ParentsAndChildren
<1>0. place \in [Procs -> SemPlaces]
  BY DEF SemInv, SemTypes
<1>1. ASSUME NEW r \in Runs, ShmGet(r) PROVE CountTypes'
  <2>1. \A p \in Procs : place'[p] = place[p] \/ p = Parent(r)
    BY <1>0, <1>1 DEF ShmGet, Turn
  <2>2. shmid' \in [Runs -> Runs \cup {NoId}] /\ shm_key' \in Runs /\ shmid'[r] \in Runs
        /\ \A q \in Runs : shmid[q] \in Runs => shmid'[q] \in Runs
    BY <1>1 DEF CountTypes, ShmGet
  <2> QED
    BY <1>1, <2>1, <2>2 DEF CountTypes, ShmGet, Shm, ghosts
<1>2. ASSUME NEW r \in Runs,
             ShmAt(r) \/ SemCreate(r) \/ SemExists(r) \/ SemOpen(r) \/ SetVal(r) \/ Reap(r)
             \/ remove_semaphore(r) \/ RemoveShm(r)
      PROVE  CountTypes'
  <2>1. \A p \in Procs : place'[p] = place[p] \/ place[p] \notin {"shmget", "unborn", "ended", "failed"}
    BY <1>0, <1>2 DEF ShmAt, SemCreate, SemExists, SemOpen, SetVal, Reap, remove_semaphore, RemoveShm, Turn
  <2>2. UNCHANGED <<shmid, cntr, counted, local>> /\ shm_key' \in {shm_key, NoId}
    BY <1>2 DEF ShmAt, SemCreate, SemExists, SemOpen, SetVal, Reap, remove_semaphore, RemoveShm, keys, ghosts
  <2> QED
    BY <2>1, <2>2 DEF CountTypes, Shm
<1>3. ASSUME NEW r \in Runs, Reset(r) PROVE CountTypes'
  <2>1. \A p \in Procs : place'[p] = place[p] \/ place[p] \notin {"shmget", "unborn", "ended", "failed"}
    BY <1>0, <1>3 DEF Reset, Turn
  <2>2. cntr' \in [Runs -> Nat] /\ counted' \in [Runs -> Nat]
    <3>1. cntr \in [Runs -> Nat] /\ counted \in [Runs -> Nat]
      BY DEF CountTypes
    <3>2. cntr' = [cntr EXCEPT ![shmid[r]] = 0]
      BY <1>3 DEF Reset
    <3>3. counted' = [counted EXCEPT ![shmid[r]] = 0]
      BY <1>3 DEF Reset
    <3>4. shmid[r] \in Runs
      BY <1>3 DEF CountTypes, Reset, Turn, Shm
    <3> HIDE ParentsAndChildren
    <3>5. cntr' \in [Runs -> Nat]
      BY <3>1, <3>2, <3>4
    <3>6. counted' \in [Runs -> Nat]
      BY <3>1, <3>3, <3>4
    <3> QED
      BY <3>5, <3>6
  <2>3. UNCHANGED <<shmid, shm_key, local>>
    BY <1>3 DEF Reset, keys
  <2> QED
    BY <2>1, <2>2, <2>3 DEF CountTypes, Shm
<1>4. ASSUME NEW r \in Runs, Fork(r) PROVE CountTypes'
  <2>1. UNCHANGED <<shmid, cntr, counted, local, shm_key>>
    BY <1>4 DEF Fork, keys, ghosts
  <2>2. Shm(Parent(r)) \in Runs /\ Shm(Child(r)) \in Runs
    BY <1>4 DEF CountTypes, Fork, Shm
  <2>3. \A p \in Procs : place'[p] = place[p] \/ p \in {Parent(r), Child(r)}
    BY <1>0, <1>4 DEF Fork
  <2> QED
    BY <2>1, <2>2, <2>3 DEF CountTypes, Shm
<1>5. ASSUME NEW p \in Procs, SemWait(p) \/ SemSignal(p) \/ SemFails(p) \/ Finish(p) \/ Kill(p)
      PROVE  CountTypes'
  <2>1. \A q \in Procs : place'[q] = place[q] \/ place[q] \notin {"shmget", "unborn", "ended", "failed"}
    BY <1>0, <1>5 DEF SemWait, SemSignal, SemFails, Finish, Kill, Turn
  <2>2. UNCHANGED <<shmid, cntr, counted, local, shm_key>>
    BY <1>5 DEF SemWait, SemSignal, SemFails, Finish, Kill, keys, ghosts
  <2> QED
    BY <2>1, <2>2 DEF CountTypes, Shm
<1>6. ASSUME NEW p \in Procs, Load(p) \/ Store(p) PROVE CountTypes'
  <2>1. \A q \in Procs : place'[q] = place[q] \/ place[q] \notin {"shmget", "unborn", "ended", "failed"}
    BY <1>0, <1>6 DEF Load, Store, Turn
  <2>2. cntr[Shm(p)] \in Nat /\ local[p] \in Nat
    BY <1>6 DEF CountTypes, Load, Store, Turn
  <2>3. UNCHANGED <<shmid, shm_key>>
    BY <1>6 DEF Load, Store, keys
  <2>4. cntr' \in [Runs -> Nat] /\ counted' \in [Runs -> Nat] /\ local' \in [Procs -> Nat]
    BY <1>6, <2>2 DEF CountTypes, Load, Store, ghosts
  <2> QED
    BY <2>1, <2>3, <2>4 DEF CountTypes, Shm
<1>7. ASSUME UNCHANGED semVars PROVE CountTypes'
  BY <1>7 DEF CountTypes, semVars, keys, ghosts, Shm
<1> QED
  BY <1>1, <1>2, <1>3, <1>4, <1>5, <1>6, <1>7 DEF SemNext, ProcessStep, RunStep, ProcStep

(* Nobody gets in beside another one: the token is there only when nobody  *)
(* is inside, and a semaphore that is gone lets nobody in.                 *)
LEMMA OneInsideStays == SemInv /\ OneInside /\ [SemNext]_semVars => OneInside'
<1> SUFFICES ASSUME SemInv, OneInside, [SemNext]_semVars PROVE OneInside'
  OBVIOUS
<1> USE ParentsAndChildren
<1>0. place \in [Procs -> SemPlaces] /\ semid \in [Runs -> Runs \cup {NoId}]
  BY DEF SemInv, SemTypes
<1>1. ASSUME \A p \in Procs : Inside(p)' => Inside(p) /\ Sem(p)' = Sem(p) PROVE OneInside'
  BY <1>1 DEF OneInside
<1>2. ASSUME NEW r \in Runs, RunStep(r) PROVE OneInside'
  <2>1. killed' = killed
    BY <1>2 DEF RunStep, ShmGet, ShmAt, SemCreate, SemExists, SemOpen, SetVal, Reset, Fork, Reap,
                RemoveShm, remove_semaphore
  <2>2. \A p \in Procs : p \in {Parent(r), Child(r)} \/ place'[p] = place[p]
    BY <1>0, <1>2 DEF RunStep, ShmGet, ShmAt, SemCreate, SemExists, SemOpen, SetVal, Reset, Fork, Reap,
                RemoveShm, remove_semaphore, Turn
  <2>3. place'[Parent(r)] \notin {"load", "store", "post"}
    BY <1>0, <1>2 DEF RunStep, ShmGet, ShmAt, SemCreate, SemExists, SemOpen, SetVal, Reset, Fork, Reap,
                RemoveShm, remove_semaphore, Turn
  <2>4. place'[Child(r)] = place[Child(r)] \/ place'[Child(r)] = "wait"
    BY <1>0, <1>2 DEF RunStep, ShmGet, ShmAt, SemCreate, SemExists, SemOpen, SetVal, Reset, Fork, Reap,
                RemoveShm, remove_semaphore, Turn
  <2>5. semid' = semid \/ place[Parent(r)] \in Early
    BY <1>2 DEF RunStep, ShmGet, ShmAt, SemCreate, SemExists, SemOpen, SetVal, Reset, Fork, Reap,
                RemoveShm, remove_semaphore, Turn, keys, Early
  <2>6. \A q \in Runs : q # r => semid'[q] = semid[q]
    BY <1>0, <1>2 DEF RunStep, ShmGet, ShmAt, SemCreate, SemExists, SemOpen, SetVal, Reset, Fork, Reap,
                RemoveShm, remove_semaphore, Turn, keys
  <2>7. place[Parent(r)] \in Early => place[Child(r)] = "unborn"
    BY DEF SemInv, Found, Early
  <2>8. ASSUME NEW p \in Procs, Inside(p)' PROVE Inside(p) /\ Sem(p)' = Sem(p)
    <3>1. p # Parent(r) /\ Inside(p) /\ place[p] \in {"load", "store", "post"}
      BY <2>1, <2>2, <2>3, <2>4, <2>8 DEF Inside
    <3>2. p[1] # r \/ p = Child(r)
      BY <3>1
    <3> QED
      BY <3>1, <3>2, <2>5, <2>6, <2>7 DEF Sem
  <2> QED
    BY <1>1, <2>8
<1>3. ASSUME NEW p \in Procs, SemWait(p) PROVE OneInside'
  <2>1. PICK t \in Runs \ removed : t = Sem(p) /\ sem[t] > 0
    BY <1>3 DEF SemInv, SemTypes, Found, SemWait, Turn, Working
  <2>2. InsideOf(t) = {}
    BY <2>1 DEF SemInv, OneToken
  <2>3. \A q \in Procs : Sem(q)' = Sem(q) /\ (Inside(q)' <=> Inside(q) \/ q = p)
    BY <1>0, <1>3 DEF SemWait, Turn, Inside, Sem, keys
  <2>4. \A q \in Procs : Inside(q) => Sem(q) # t
    BY <2>2 DEF InsideOf
  <2> QED
    BY <2>1, <2>3, <2>4 DEF OneInside
<1>4. ASSUME NEW p \in Procs, Load(p) \/ Store(p) \/ SemSignal(p) \/ SemFails(p) \/ Finish(p) \/ Kill(p)
      PROVE  OneInside'
  <2>1. \A q \in Procs : Inside(q)' => Inside(q) /\ Sem(q)' = Sem(q)
    BY <1>0, <1>4 DEF Load, Store, SemSignal, SemFails, Finish, Kill, Turn, Inside, Sem, keys
  <2> QED
    BY <1>1, <2>1
<1>5. ASSUME UNCHANGED semVars PROVE OneInside'
  BY <1>5 DEF OneInside, Inside, Sem, semVars, keys
<1> QED
  BY <1>2, <1>3, <1>4, <1>5 DEF SemNext, ProcessStep, ProcStep

-----------------------------------------------------------------------------
(* What one step does to a segment it leaves alone: nothing is lost.       *)
LEMMA SegmentStays ==
    ASSUME CountKept, NEW s \in Runs, Split(s) => Split(s)',
           cntr'[s] = cntr[s], counted'[s] = counted[s], s \in spoilt => s \in spoilt',
           \A p \in Procs : Storing(p, s)' => \/ Storing(p, s) /\ local'[p] = local[p]
                                              \/ local'[p] = cntr[s]
    PROVE  Split(s)' \/ Counted(s)'
BY DEF CountKept, Counted

LEMMA CountStays == CountInv /\ [SemNext]_semVars => CountKept'
<1> SUFFICES ASSUME CountInv, [SemNext]_semVars PROVE CountKept'
  OBVIOUS
<1> USE ParentsAndChildren
<1> DEFINE Kept(s) == Split(s)' \/ Counted(s)'
<1>0. place \in [Procs -> SemPlaces] /\ semid \in [Runs -> Runs \cup {NoId}]
      /\ shmid \in [Runs -> Runs \cup {NoId}] /\ cntr \in [Runs -> Nat] /\ counted \in [Runs -> Nat]
      /\ local \in [Procs -> Nat]
  BY DEF CountInv, SemInv, SemTypes, CountTypes
<1>1. CountKept /\ OneInside
  BY DEF CountInv
<1>2. \A r \in Runs : /\ place[Parent(r)] \in Early => semid[r] = NoId
                      /\ place[Parent(r)] \in Early \cup {"fork"} => place[Child(r)] = "unborn"
  BY DEF CountInv, SemInv, Found
<1>3. ASSUME \A s \in Runs : Kept(s) PROVE CountKept'
  BY <1>3 DEF CountKept
<1>4. ASSUME NEW r \in Runs, ShmGet(r), NEW s \in Runs PROVE Kept(s)
  <2>1. semid[r] = NoId
    BY <1>2, <1>4 DEF ShmGet, Turn, Early
  <2>2. \A q \in Runs : q # r => shmid'[q] = shmid[q]
    BY <1>0, <1>4 DEF ShmGet
  <2>3. semid' = semid
    BY <1>4 DEF ShmGet
  <2>4. Split(s) => Split(s)'
    BY <2>1, <2>2, <2>3 DEF Split
  <2>5. ASSUME NEW p \in Procs, Storing(p, s)' PROVE Storing(p, s) /\ local'[p] = local[p]
    <3>1. p # Parent(r) /\ place[p] = "store"
      BY <1>0, <1>4, <2>5 DEF ShmGet, Turn, Storing
    <3>2. p # Child(r)
      BY <1>2, <1>4, <3>1 DEF ShmGet, Turn, Early
    <3> QED
      BY <1>4, <2>2, <2>5, <3>1, <3>2 DEF Storing, Shm, ShmGet
  <2>6. cntr'[s] = cntr[s] /\ counted'[s] = counted[s] /\ spoilt' = spoilt
    BY <1>4 DEF ShmGet, ghosts
  <2> QED
    BY <1>1, <2>4, <2>5, <2>6, SegmentStays
<1>5. ASSUME NEW r \in Runs, SemCreate(r) \/ SemOpen(r), NEW s \in Runs PROVE Kept(s)
  <2>1. semid[r] = NoId /\ \A q \in Runs : q # r => semid'[q] = semid[q]
    BY <1>0, <1>2, <1>5 DEF SemCreate, SemOpen, Turn, Early
  <2>2. UNCHANGED <<shmid, cntr, counted, spoilt, local, killed>>
    BY <1>5 DEF SemCreate, SemOpen, ghosts
  <2>3. Split(s) => Split(s)'
    BY <2>1, <2>2 DEF Split
  <2>4. ASSUME NEW p \in Procs, Storing(p, s)' PROVE Storing(p, s)
    BY <1>0, <1>5, <2>2, <2>4 DEF Storing, Shm, SemCreate, SemOpen, Turn
  <2> QED
    BY <1>1, <2>2, <2>3, <2>4, SegmentStays
<1>6. ASSUME UNCHANGED <<shmid, semid, cntr, counted, spoilt>>, NEW s \in Runs,
             \A p \in Procs : Storing(p, s)' => \/ Storing(p, s) /\ local'[p] = local[p]
                                                \/ local'[p] = cntr[s]
      PROVE  Kept(s)
  <2>1. Split(s) => Split(s)'
    BY <1>6 DEF Split
  <2> QED
    BY <1>1, <1>6, <2>1, SegmentStays
<1>7. ASSUME NEW r \in Runs,
             ShmAt(r) \/ SemExists(r) \/ SetVal(r) \/ Reap(r) \/ RemoveShm(r) \/ remove_semaphore(r),
             NEW s \in Runs
      PROVE  Kept(s)
  <2>1. UNCHANGED <<shmid, semid, cntr, counted, spoilt, local, killed>>
    BY <1>7 DEF ShmAt, SemExists, SetVal, Reap, RemoveShm, remove_semaphore, keys, ghosts
  <2>2. ASSUME NEW p \in Procs, Storing(p, s)' PROVE Storing(p, s)
    BY <1>0, <1>7, <2>1, <2>2
       DEF Storing, Shm, ShmAt, SemExists, SetVal, Reap, RemoveShm, remove_semaphore, Turn
  <2> QED
    BY <1>6, <2>1, <2>2
<1>8. ASSUME NEW r \in Runs, Fork(r), NEW s \in Runs PROVE Kept(s)
  <2>1. UNCHANGED <<shmid, semid, cntr, counted, spoilt, local, killed>>
    BY <1>8 DEF Fork, keys, ghosts
  <2>2. ASSUME NEW p \in Procs, Storing(p, s)' PROVE Storing(p, s)
    BY <1>0, <1>8, <2>1, <2>2 DEF Storing, Shm, Fork
  <2> QED
    BY <1>6, <2>1, <2>2
<1>9. ASSUME NEW r \in Runs, Reset(r), NEW s \in Runs PROVE Kept(s)
  <2>1. UNCHANGED <<shmid, semid, local, killed>>
    BY <1>9 DEF Reset, keys
  <2>2. \A p \in Procs : Storing(p, s)' => Storing(p, s)
    BY <1>0, <1>9, <2>1 DEF Storing, Shm, Reset, Turn
  <2>3. Split(s) => Split(s)'
    BY <2>1 DEF Split
  <2>4. CASE s = shmid[r]
    <3>1. cntr'[s] = 0 /\ counted'[s] = 0
      BY <1>0, <1>9, <2>4 DEF Reset
    <3>2. s \in spoilt' \/ \A p \in Procs : ~Storing(p, s)
      BY <1>9, <2>4 DEF Reset, Storing
    <3>3. \A p \in Procs : Storing(p, s)' => local'[p] >= 0 /\ s \in spoilt'
      BY <1>0, <2>1, <2>2, <3>2
    <3> QED
      BY <3>1, <3>3 DEF Counted
  <2>5. CASE s # shmid[r]
    <3>1. cntr'[s] = cntr[s] /\ counted'[s] = counted[s] /\ (s \in spoilt => s \in spoilt')
      BY <1>0, <1>9, <2>5 DEF Reset
    <3> QED
      BY <1>1, <2>1, <2>2, <2>3, <3>1, SegmentStays
  <2> QED
    BY <2>4, <2>5
<1>10. ASSUME NEW p \in Procs, SemWait(p) \/ SemSignal(p) \/ SemFails(p) \/ Finish(p) \/ Kill(p),
              NEW s \in Runs
       PROVE  Kept(s)
  <2>1. UNCHANGED <<shmid, semid, cntr, counted, spoilt, local>> /\ killed \subseteq killed'
    BY <1>10 DEF SemWait, SemSignal, SemFails, Finish, Kill, keys, ghosts
  <2>2. ASSUME NEW q \in Procs, Storing(q, s)' PROVE Storing(q, s)
    BY <1>0, <1>10, <2>1, <2>2 DEF Storing, Shm, SemWait, SemSignal, SemFails, Finish, Kill, Turn
  <2> QED
    BY <1>6, <2>1, <2>2
<1>11. ASSUME NEW p \in Procs, Load(p), NEW s \in Runs PROVE Kept(s)
  <2>1. UNCHANGED <<shmid, semid, cntr, counted, spoilt, killed>>
    BY <1>11 DEF Load, keys, ghosts
  <2>2. ASSUME NEW q \in Procs, Storing(q, s)'
        PROVE (Storing(q, s) /\ local'[q] = local[q]) \/ local'[q] = cntr[s]
    BY <1>0, <1>11, <2>1, <2>2 DEF Storing, Shm, Load, Turn
  <2> QED
    BY <1>6, <2>1, <2>2
<1>12. ASSUME NEW p \in Procs, Store(p), NEW s \in Runs PROVE Kept(s)
  <2>1. UNCHANGED <<shmid, semid, spoilt, killed>>
    BY <1>12 DEF Store, keys
  <2>2. Split(s) => Split(s)'
    BY <2>1 DEF Split
  <2>3. \A q \in Procs : Storing(q, s)' => q # p /\ Storing(q, s) /\ local'[q] = local[q]
    BY <1>0, <1>12, <2>1 DEF Storing, Shm, Store, Turn
  <2>4. CASE s # Shm(p)
    <3>1. cntr'[s] = cntr[s] /\ counted'[s] = counted[s]
      BY <1>0, <1>12, <2>4 DEF Store
    <3> QED
      BY <1>1, <2>1, <2>2, <2>3, <3>1, SegmentStays
  <2>5. CASE s = Shm(p)
    <3>1. Storing(p, s)
      BY <1>12, <2>5 DEF Storing, Store, Turn
    <3>2. cntr'[s] = local[p] + 1 /\ counted'[s] = counted[s] + 1
      BY <1>0, <1>12, <2>5 DEF Store
    <3>3. ASSUME NEW q \in Procs, Storing(q, s), ~Split(s) PROVE q = p
      <4>1. Sem(p) \in Runs /\ Sem(q) \in Runs
        BY <3>1, <3>3 DEF CountInv, SemInv, Found, Storing, Working
      <4>2. Sem(p) = Sem(q)
        BY <3>1, <3>3, <4>1 DEF Split, Storing, Shm, Sem
      <4> QED
        BY <1>1, <3>1, <3>3, <4>2 DEF OneInside, Inside, Storing
    <3>4. \/ Split(s)
          \/ local[p] >= counted[s] /\ (s \in spoilt \/ local[p] = counted[s])
      BY <1>1, <3>1 DEF CountKept, Counted
    <3>5. ~Split(s) => \A q \in Procs : ~Storing(q, s)'
      BY <2>3, <3>3
    <3>6. CASE Split(s)
      BY <2>2, <3>6
    <3>7. CASE ~Split(s)
      <4>1. local[p] \in Nat /\ counted[s] \in Nat
        BY <1>0
      <4>2. cntr'[s] >= counted'[s] /\ (s \in spoilt' \/ cntr'[s] = counted'[s])
        BY <2>1, <3>2, <3>4, <3>7, <4>1
      <4> QED
        BY <3>5, <3>7, <4>2 DEF Counted
    <3> QED
      BY <3>6, <3>7
  <2> QED
    BY <2>4, <2>5
<1>13. ASSUME UNCHANGED semVars, NEW s \in Runs PROVE Kept(s)
  <2>1. UNCHANGED <<shmid, semid, cntr, counted, spoilt, local, killed, place>>
    BY <1>13 DEF semVars, keys, ghosts
  <2>2. ASSUME NEW q \in Procs, Storing(q, s)' PROVE Storing(q, s)
    BY <2>1, <2>2 DEF Storing, Shm
  <2> QED
    BY <1>6, <2>1, <2>2
<1> HIDE DEF Kept
<1> QED
  BY <1>3, <1>4, <1>5, <1>7, <1>8, <1>9, <1>10, <1>11, <1>12, <1>13
     DEF SemNext, ProcessStep, RunStep, ProcStep

LEMMA CountInitially == SemInit => CountInv
BY SemInitially, ParentsAndChildren
   DEF SemInit, CountInv, CountTypes, OneInside, CountKept, Counted, Inside, Storing, ghosts

LEMMA CountInvStays == CountInv /\ [SemNext]_semVars => CountInv'
BY KnowledgeStays, TokenKept, CountTypesStay, OneInsideStays, CountStays DEF CountInv, SemInv

LEMMA CountIsCounted == CountInv => CountIsExact
BY DEF CountInv, CountKept, CountTypes, Counted, CountIsExact, Split

(* SemCounter!CountIsExact: the increments of pr10t2.c are all in the      *)
(* counter, and something more only when another run reset it in the       *)
(* middle of one, unless two runs work on it with different semaphores.    *)
THEOREM NoIncrementIsLost == SemSpec => []CountIsExact
BY CountInitially, CountInvStays, CountIsCounted, PTL DEF SemSpec

-----------------------------------------------------------------------------
(* pr11task1.c, pr11task2.c *)

Threads == Copiers \ {Main}
Parts   == 1 .. Units

EmployeeTypes ==
    /\ with_mutex \in BOOLEAN
    /\ employee_of_the_day \in Copies /\ eotd \in Copies
    /\ a_mutex \in Copiers \cup {Unlocked}
    /\ step \in [Copiers -> {"test", "lock", "copy", "compare", "error", "stop", "join",
                             "stopped", "end"}]
    /\ unit \in [Copiers -> 0 .. Units]

(* Who copies has the mutex, and what is copied is that far.               *)
Exclusive ==
    /\ \A c \in Copiers : step[c] = "copy" <=> a_mutex = c
    /\ \A c \in Copiers : step[c] # "copy" => unit[c] = 0

(* The shared structure is one employee but while a thread writes it, when *)
(* the parts it has written are its own; main's copy is one but while main *)
(* reads, when the parts it has read are those of the shared structure.    *)
Whole ==
    /\ \A t \in Threads : step[t] = "copy" => \A u \in 1 .. unit[t] : employee_of_the_day[u] = t
    /\ a_mutex \notin Threads =>
          \A u \in Parts : employee_of_the_day[u] = employee_of_the_day[1]
    /\ step[Main] = "copy" => \A u \in 1 .. unit[Main] : eotd[u] = employee_of_the_day[u]
    /\ step[Main] # "copy" => \A u \in Parts : eotd[u] = eotd[1]
    /\ step[Main] # "error"

EmployeeInv == EmployeeTypes /\ (with_mutex => Exclusive /\ Whole)

-----------------------------------------------------------------------------
LEMMA Numbered == Main \in Copiers /\ Main \notin Threads /\ Unlocked \notin Copiers /\ 1 \in Parts
                  /\ Units \in Nat /\ Threads = {1, 2} /\ Copiers = {0, 1, 2} /\ Main = 0
BY EmployeeAssumption DEF Main, Copiers, Threads, NUM_EMPLOYEES, Parts

LEMMA EmployeeInitially == EmployeeInit => EmployeeInv
BY Numbered DEF EmployeeInit, EmployeeInv, EmployeeTypes, Exclusive, Whole, Copies, Parts, NUM_EMPLOYEES

LEMMA EmployeeStays == EmployeeInv /\ [EmployeeNext]_employeeVars => EmployeeInv'
<1> SUFFICES ASSUME EmployeeInv, [EmployeeNext]_employeeVars PROVE EmployeeInv'
  OBVIOUS
<1> USE Numbered DEF EmployeeInv
<1>1. ASSUME NEW t \in Threads, TestStop(t) PROVE EmployeeInv'
  BY <1>1 DEF EmployeeTypes, Exclusive, Whole, TestStop, Next_, Copies, Parts
<1>2. ASSUME NEW c \in Copiers, BeginCopy(c) PROVE EmployeeInv'
  <2>1. EmployeeTypes'
    BY <1>2 DEF EmployeeTypes, BeginCopy, Next_, TakeMutex
  <2>2. ASSUME with_mutex' PROVE Exclusive'
    BY <1>2, <2>2 DEF EmployeeTypes, Exclusive, BeginCopy, Next_, TakeMutex
  <2>3. ASSUME with_mutex' PROVE Whole'
    BY <1>2, <2>3 DEF EmployeeTypes, Exclusive, Whole, BeginCopy, Next_, TakeMutex, Copies, Parts
  <2> QED
    BY <2>1, <2>2, <2>3
<1>3. ASSUME NEW c \in Copiers, CopyUnit(c) PROVE EmployeeInv'
  <2> DEFINE u == unit[c] + 1
  <2>1. /\ step[c] = "copy" /\ unit[c] < Units /\ unit[c] \in 0 .. Units
        /\ u \in Parts /\ unit' = [unit EXCEPT ![c] = u]
        /\ UNCHANGED <<with_mutex, a_mutex, step>>
    BY <1>3 DEF EmployeeTypes, CopyUnit, Parts
  <2>2. CASE c = Main
    <3>1. eotd' = [eotd EXCEPT ![u] = employee_of_the_day[u]] /\ UNCHANGED employee_of_the_day
      BY <1>3, <2>2 DEF CopyUnit
    <3>2. employee_of_the_day[u] \in 1 .. NUM_EMPLOYEES
      BY <2>1 DEF EmployeeTypes, Copies, Parts
    <3> HIDE DEF u
    <3>3. eotd' \in Copies
      BY <3>1, <3>2 DEF EmployeeTypes, Copies
    <3>4. unit' \in [Copiers -> 0 .. Units]
      BY <2>1 DEF EmployeeTypes, Parts
    <3>5. EmployeeTypes'
      BY <2>1, <3>1, <3>3, <3>4 DEF EmployeeTypes
    <3>6. ASSUME with_mutex' PROVE Exclusive'
      BY <2>1, <3>6 DEF Exclusive, EmployeeTypes
    <3>7. ASSUME with_mutex', NEW p \in 1 .. unit'[Main]
          PROVE eotd'[p] = employee_of_the_day[p]
      <4>1. p \in Parts /\ (p = u \/ p \in 1 .. unit[Main])
        BY <2>1, <2>2, <3>7 DEF EmployeeTypes, Parts, u
      <4> QED
        BY <2>1, <2>2, <3>1, <3>7, <4>1 DEF EmployeeTypes, Whole, Copies, Parts
    <3>8. ASSUME with_mutex' PROVE Whole'
      BY <2>1, <2>2, <3>1, <3>7, <3>8 DEF Whole, EmployeeTypes, Parts
    <3> QED
      BY <3>5, <3>6, <3>8
  <2>3. CASE c \in Threads
    <3>1. employee_of_the_day' = [employee_of_the_day EXCEPT ![u] = c] /\ UNCHANGED eotd
      BY <1>3, <2>3 DEF CopyUnit
    <3>2. c \in 1 .. NUM_EMPLOYEES
      BY <2>3 DEF NUM_EMPLOYEES
    <3> HIDE DEF u
    <3>3. employee_of_the_day' \in Copies
      BY <3>1, <3>2 DEF EmployeeTypes, Copies
    <3>4. unit' \in [Copiers -> 0 .. Units]
      BY <2>1 DEF EmployeeTypes, Parts
    <3>5. EmployeeTypes'
      BY <2>1, <3>1, <3>3, <3>4 DEF EmployeeTypes
    <3>6. ASSUME with_mutex' PROVE Exclusive'
      BY <2>1, <3>6 DEF Exclusive, EmployeeTypes
    <3>7. ASSUME with_mutex', NEW p \in 1 .. unit'[c]
          PROVE employee_of_the_day'[p] = c
      <4>1. p \in Parts /\ (p = u \/ p \in 1 .. unit[c])
        BY <2>1, <3>7 DEF EmployeeTypes, Parts, u
      <4> QED
        BY <2>1, <2>3, <3>1, <3>7, <4>1 DEF EmployeeTypes, Whole, Copies, Parts
    <3>8. with_mutex' => a_mutex = c /\ step[Main] # "copy" /\ \A t \in Threads : step[t] = "copy" => t = c
      BY <2>1, <2>3 DEF Exclusive, Threads
    <3>9. ASSUME with_mutex' PROVE Whole'
      BY <2>1, <2>3, <3>1, <3>7, <3>8, <3>9 DEF Whole, EmployeeTypes, Parts
    <3> QED
      BY <3>5, <3>6, <3>9
  <2> QED
    BY <2>2, <2>3 DEF Threads
<1>4. ASSUME NEW c \in Copiers, EndCopy(c) PROVE EmployeeInv'
  <2>1. EmployeeTypes'
    BY <1>4 DEF EmployeeTypes, EndCopy, Next_
  <2>2. ASSUME with_mutex' PROVE Exclusive'
    BY <1>4, <2>2 DEF EmployeeTypes, Exclusive, EndCopy, Next_
  <2>3. ASSUME with_mutex' PROVE Whole'
    <3>0. /\ step[c] = "copy" /\ unit[c] = Units
          /\ step' = [step EXCEPT ![c] = IF c = Main THEN "compare" ELSE "test"]
          /\ unit' = [unit EXCEPT ![c] = 0]
          /\ a_mutex' = (IF a_mutex = c THEN Unlocked ELSE a_mutex)
          /\ with_mutex' = with_mutex /\ UNCHANGED <<employee_of_the_day, eotd>>
      BY <1>4 DEF EndCopy, Next_
    <3>1. Exclusive /\ Whole /\ EmployeeTypes /\ a_mutex = c /\ a_mutex' = Unlocked
      BY <2>3, <3>0 DEF Exclusive
    <3>2. \A b \in Copiers \ {c} : step[b] # "copy" /\ step'[b] = step[b]
      BY <3>0, <3>1 DEF EmployeeTypes, Exclusive
    <3>3. step'[c] # "copy" /\ step'[c] # "error"
      BY <3>0, <3>1 DEF EmployeeTypes
    <3>4. \A b \in Copiers : step'[b] # "copy"
      BY <3>2, <3>3
    <3>5. \A u \in Parts : employee_of_the_day[u] = employee_of_the_day[1]
      BY <3>0, <3>1 DEF Whole, Parts
    <3>6. \A u \in Parts : eotd[u] = eotd[1]
      <4>1. CASE c = Main
        BY <3>0, <3>1, <3>5, <4>1 DEF Whole, Parts
      <4>2. CASE c # Main
        BY <3>0, <3>1, <3>2, <4>2 DEF Whole, Copiers
      <4> QED
        BY <4>1, <4>2
    <3>7. step'[Main] # "error"
      BY <3>0, <3>1, <3>2, <3>3 DEF Whole, Copiers
    <3> QED
      BY <3>0, <3>1, <3>4, <3>5, <3>6, <3>7 DEF Whole, Copiers
  <2> QED
    BY <2>1, <2>2, <2>3
<1>5. ASSUME Compare PROVE EmployeeInv'
  <2>1. with_mutex => ~Mismatch
    BY <1>5 DEF Whole, Compare, Next_, Mismatch, Parts
  <2>2. EmployeeTypes' /\ (with_mutex' => Exclusive')
    BY <1>5 DEF EmployeeTypes, Exclusive, Compare, Next_
  <2>3. with_mutex' => Whole'
    BY <1>5, <2>1 DEF EmployeeTypes, Whole, Compare, Next_
  <2> QED
    BY <2>2, <2>3
<1>6. ASSUME StopThreads \/ JoinThreads PROVE EmployeeInv'
  BY <1>6 DEF EmployeeTypes, Exclusive, Whole, StopThreads, JoinThreads, Next_
<1>7. ASSUME UNCHANGED employeeVars PROVE EmployeeInv'
  BY <1>7 DEF EmployeeTypes, Exclusive, Whole, employeeVars
<1> QED
  BY <1>1, <1>2, <1>3, <1>4, <1>5, <1>6, <1>7
     DEF EmployeeNext, MainStep, ThreadStep, CopyStep, Threads

(* The mutex belongs to who copies, and copies made under it are whole.    *)
THEOREM EmployeeInductive == EmployeeSpec => []EmployeeInv
<1> QED
  BY EmployeeInitially, EmployeeStays, PTL DEF EmployeeSpec

(* Employee!NeverTorn: with the mutex main never finds a mixed employee.   *)
THEOREM NeverMixed == EmployeeSpec => []NeverTorn
<1>1. EmployeeInv => NeverTorn
  BY DEF EmployeeInv, Whole, NeverTorn, Mismatch, Parts
<1> QED
  BY EmployeeInductive, <1>1, PTL

-----------------------------------------------------------------------------
(* pr13task1.c *)

NumberTypes ==
    /\ number_ready \in BOOLEAN
    /\ calc \in [Calculators -> {"lock", "waiting"}]

NumberInv == NumberTypes /\ NoSleeperForNumber

-----------------------------------------------------------------------------
LEMMA NumberInitially == NumberInit => NumberInv
BY DEF NumberInit, NumberInv, NumberTypes, NoSleeperForNumber, ForMe

LEMMA NumberStays == NumberInv /\ [NumberNext]_numberVars => NumberInv'
<1> SUFFICES ASSUME NumberInv, [NumberNext]_numberVars PROVE NumberInv'
  OBVIOUS
<1> USE DEF NumberInv, NumberTypes, NoSleeperForNumber
<1>1. ASSUME Generate PROVE NumberInv'
  BY <1>1 DEF Generate, WakeAll
<1>2. ASSUME NEW c \in Calculators, Calculate(c) PROVE NumberInv'
  BY <1>2 DEF Calculate, ForMe
<1>3. ASSUME NEW c \in Calculators, WaitForNumber(c) PROVE NumberInv'
  <2>1. \A d \in Calculators : ForMe(d)' <=> ForMe(d)
    BY <1>3 DEF WaitForNumber, ForMe
  <2> QED
    BY <1>3, <2>1 DEF WaitForNumber
<1>4. ASSUME NEW c \in Calculators, SpuriousCalc(c) PROVE NumberInv'
  <2>1. \A d \in Calculators : ForMe(d)' <=> ForMe(d)
    BY <1>4 DEF SpuriousCalc, ForMe
  <2> QED
    BY <1>4, <2>1 DEF SpuriousCalc
<1>5. ASSUME UNCHANGED numberVars PROVE NumberInv'
  BY <1>5 DEF numberVars, ForMe
<1> QED
  BY <1>1, <1>2, <1>3, <1>4, <1>5 DEF NumberNext, CalcStep

(* NumberGen!NoSleeperForNumber: the broadcast reaches both calculators,   *)
(* and a number of the other kind leaves the one who waits asleep.         *)
THEOREM NobodySleepsBeside == NumberSpec => []NoSleeperForNumber
<1>1. NumberInv => NoSleeperForNumber
  BY DEF NumberInv
<1> QED
  BY NumberInitially, NumberStays, <1>1, PTL DEF NumberSpec
-----------------------------------------------------------------------------
(* The socket servers.  While the server lives, a line of a client who     *)
(* waits is in one of three places, and of one who does not wait nothing   *)
(* is under way.                                                           *)

EchoTypes ==
    /\ server \in {"accept", "recv", "send", "dead"}
    /\ server \in {"recv", "send"} => data_socket \in Clients
    /\ backlog \in Seq(Clients) /\ str \in Nat
    /\ client \in [Clients -> {"start", "type", "await", "ended", "killed"}]
    /\ lines \in [Clients -> Nat]
    /\ toServer \in [Clients -> Seq(Nat)] /\ toClient \in [Clients -> Seq(Nat)]

InServer(c) == server = "send" /\ data_socket = c

Quiet(c) == toServer[c] = << >> /\ toClient[c] = << >> /\ ~InServer(c)
OneLine(c) ==
    \/ toServer[c] = <<lines[c]>> /\ toClient[c] = << >> /\ ~InServer(c)
    \/ toServer[c] = << >> /\ toClient[c] = << >> /\ InServer(c) /\ str = lines[c]
    \/ toServer[c] = << >> /\ toClient[c] = <<lines[c]>> /\ ~InServer(c)

InTurn ==
    /\ server # "dead" => own = {} /\ \A c \in Clients :
          /\ client[c] = "await" => OneLine(c)
          /\ client[c] \in {"start", "type", "ended"} => Quiet(c)
    /\ server = "dead" => \E c \in Clients : client[c] = "killed"

EchoInv == EchoTypes /\ InTurn

LEMMA EchoTypesStay == EchoTypes /\ [Echo!EchoNext]_(Echo!echoVars) => EchoTypes'
<1> SUFFICES ASSUME EchoTypes, [Echo!EchoNext]_(Echo!echoVars) PROVE EchoTypes'
  OBVIOUS
<1>1. CASE Echo!Accept
  <2>1. Head(backlog) \in Clients /\ Tail(backlog) \in Seq(Clients)
    BY <1>1, HeadTailProperties DEF EchoTypes, Echo!Accept
  <2> QED
    BY <1>1, <2>1 DEF EchoTypes, Echo!Accept
<1>2. CASE Echo!Recv
  <2>1. Head(toServer[data_socket]) \in Nat /\ Tail(toServer[data_socket]) \in Seq(Nat)
    BY <1>2, HeadTailProperties DEF EchoTypes, Echo!Recv
  <2> QED
    BY <1>2, <2>1 DEF EchoTypes, Echo!Recv
<1>3. CASE Echo!Disconnected
  BY <1>3 DEF EchoTypes, Echo!Disconnected
<1>4. CASE Echo!Send
  <2>1. Append(toClient[data_socket], str) \in Seq(Nat)
    BY <1>4, AppendProperties DEF EchoTypes, Echo!Send
  <2> QED
    BY <1>4, <2>1 DEF EchoTypes, Echo!Send
<1>5. CASE Echo!SendToNobody
  BY <1>5, EmptySeq DEF EchoTypes, Echo!SendToNobody
<1>6. ASSUME NEW c \in Clients, Echo!Connect(c) PROVE EchoTypes'
  <2>1. Append(backlog, c) \in Seq(Clients)
    BY AppendProperties DEF EchoTypes
  <2> QED
    BY <1>6, <2>1 DEF EchoTypes, Echo!Connect, Echo!Step
<1>7. ASSUME NEW c \in Clients, Echo!TypeLine(c) PROVE EchoTypes'
  <2>1. lines' \in [Clients -> Nat]
    BY <1>7 DEF EchoTypes, Echo!TypeLine
  <2>2. Append(toServer[c], lines'[c]) \in Seq(Nat)
    BY <2>1, AppendProperties DEF EchoTypes
  <2>3. toServer' \in [Clients -> Seq(Nat)]
    BY <1>7, <2>2 DEF EchoTypes, Echo!TypeLine
  <2> QED
    BY <1>7, <2>1, <2>3 DEF EchoTypes, Echo!TypeLine, Echo!Step, Echo!serverVars
<1>8. ASSUME NEW c \in Clients, Echo!ShowAnswer(c) PROVE EchoTypes'
  <2>1. Tail(toClient[c]) \in Seq(Nat)
    BY <1>8, HeadTailProperties DEF EchoTypes, Echo!ShowAnswer
  <2> QED
    BY <1>8, <2>1 DEF EchoTypes, Echo!ShowAnswer, Echo!Step, Echo!serverVars
<1>9. ASSUME NEW c \in Clients, Echo!ServerGone(c) \/ Echo!EndOfInput(c) \/ Echo!KillClient(c) PROVE EchoTypes'
  BY <1>9 DEF EchoTypes, Echo!ServerGone, Echo!EndOfInput, Echo!KillClient, Echo!Step, Echo!serverVars
<1>10. CASE UNCHANGED Echo!echoVars
  BY <1>10 DEF EchoTypes, Echo!echoVars, Echo!serverVars
<1> QED
  BY <1>1, <1>2, <1>3, <1>4, <1>5, <1>6, <1>7, <1>8, <1>9, <1>10 DEF Echo!EchoNext, Echo!ServerStep, Echo!ClientStep

LEMMA InTurnStays == EchoInv /\ [Echo!EchoNext]_(Echo!echoVars) => InTurn'
<1> SUFFICES ASSUME EchoInv, [Echo!EchoNext]_(Echo!echoVars) PROVE InTurn'
  OBVIOUS
<1> USE DEF EchoInv
<1>0. client \in [Clients -> {"start", "type", "await", "ended", "killed"}]
      /\ lines \in [Clients -> Nat]
      /\ toServer \in [Clients -> Seq(Nat)] /\ toClient \in [Clients -> Seq(Nat)]
  BY DEF EchoTypes
<1> DEFINE Right(c) == /\ client[c] = "await" => OneLine(c)
                       /\ client[c] \in {"start", "type", "ended"} => Quiet(c)
<1>1. CASE Echo!Accept
  <2>1. \A c \in Clients : ~InServer(c) /\ ~InServer(c)'
    BY <1>1 DEF Echo!Accept, InServer
  <2> QED
    BY <1>1, <2>1 DEF InTurn, Echo!Accept, OneLine, Quiet
<1>2. CASE Echo!Recv
  <2>1. /\ data_socket \in Clients /\ server = "recv" /\ own' = own /\ own = {} /\ server' = "send"
        /\ \A c \in Clients : Right(c) /\ ~InServer(c) /\ (InServer(c)' <=> c = data_socket)
    BY <1>2 DEF EchoTypes, Echo!Recv, InTurn, InServer
  <2>2. /\ toServer' = [toServer EXCEPT ![data_socket] = Tail(@)] /\ str' = Head(toServer[data_socket])
        /\ toServer[data_socket] # << >> /\ UNCHANGED <<client, lines, toClient, data_socket>>
    BY <1>2 DEF Echo!Recv
  <2>3. ASSUME NEW c \in Clients, c # data_socket PROVE Right(c)'
    BY <1>0, <2>1, <2>2, <2>3 DEF OneLine, Quiet
  <2>4. ASSUME NEW c \in Clients, c = data_socket PROVE Right(c)'
    <3>1. client[c] \notin {"start", "type", "ended"}
      BY <2>4, <2>1, <2>2 DEF Quiet
    <3>2. ASSUME client[c] = "await" PROVE OneLine(c)'
      <4>1. toServer[c] = <<lines[c]>> /\ toClient[c] = << >>
        BY <2>4, <2>1, <2>2, <3>2 DEF OneLine
      <4>2. toServer'[c] = << >> /\ str' = lines[c]
        BY <1>0, <2>4, <2>1, <2>2, <4>1
      <4> QED
        BY <2>4, <2>1, <2>2, <4>1, <4>2 DEF OneLine
    <3> QED
      BY <2>4, <2>2, <3>1, <3>2
  <2> HIDE DEF Right
  <2>5. \A c \in Clients : Right(c)'
    BY <2>3, <2>4
  <2> QED
    BY <2>1, <2>5 DEF InTurn, Right
<1>3. CASE Echo!Disconnected
  <2>1. \A c \in Clients : ~InServer(c) /\ ~InServer(c)'
    BY <1>3 DEF Echo!Disconnected, InServer
  <2> QED
    BY <1>3, <2>1 DEF InTurn, Echo!Disconnected, OneLine, Quiet
<1>4. CASE Echo!Send
  <2>1. /\ data_socket \in Clients /\ server = "send" /\ own' = own /\ own = {} /\ server' = "recv"
        /\ \A c \in Clients : Right(c) /\ ~InServer(c)' /\ (InServer(c) <=> c = data_socket)
    BY <1>4 DEF EchoTypes, Echo!Send, InTurn, InServer
  <2>2. /\ toClient' = [toClient EXCEPT ![data_socket] = Append(@, str)]
        /\ client[data_socket] \notin {"ended", "killed"} /\ UNCHANGED <<client, lines, toServer, str, data_socket>>
    BY <1>4 DEF Echo!Send, Echo!Left
  <2>3. ASSUME NEW c \in Clients, c # data_socket PROVE Right(c)'
    BY <1>0, <2>1, <2>2, <2>3 DEF OneLine, Quiet
  <2>4. ASSUME NEW c \in Clients, c = data_socket PROVE Right(c)'
    <3>1. client[c] \notin {"start", "type", "ended"}
      BY <2>4, <2>1, <2>2 DEF Quiet
    <3>2. ASSUME client[c] = "await" PROVE OneLine(c)'
      <4>1. /\ toServer[c] = << >> /\ toClient[c] = << >>
            /\ str = lines[c]
        BY <2>4, <2>1, <2>2, <3>2 DEF OneLine
      <4>2. toClient'[c] = <<lines[c]>>
        BY <1>0, <2>4, <2>1, <2>2, <4>1
      <4> QED
        BY <2>4, <2>1, <2>2, <4>1, <4>2 DEF OneLine
    <3> QED
      BY <2>4, <2>2, <3>1, <3>2
  <2> HIDE DEF Right
  <2>5. \A c \in Clients : Right(c)'
    BY <2>3, <2>4
  <2> QED
    BY <2>1, <2>5 DEF InTurn, Right
<1>5. CASE Echo!SendToNobody
  <2>1. /\ data_socket \in Clients /\ server = "send" /\ own = {} /\ own' = own
        /\ client[data_socket] \in {"ended", "killed"} /\ server' \in {"recv", "dead"}
        /\ UNCHANGED <<client, lines, toServer, toClient, data_socket>>
    BY <1>5 DEF EchoTypes, Echo!SendToNobody, Echo!Left, InTurn
  <2>2. \A c \in Clients : Right(c) /\ ~InServer(c)' /\ (InServer(c) <=> c = data_socket)
    BY <2>1 DEF InTurn, InServer
  <2>3. client[data_socket] = "killed"
    BY <2>1, <2>2 DEF Quiet
  <2>4. \A c \in Clients : Right(c)'
    BY <2>1, <2>2, <2>3 DEF OneLine, Quiet
  <2> HIDE DEF Right
  <2> QED
    BY <2>1, <2>3, <2>4 DEF InTurn, Right
<1>6. ASSUME NEW c \in Clients, Echo!Connect(c) PROVE InTurn'
  <2>1. \A d \in Clients : InServer(d)' <=> InServer(d)
    BY <1>6 DEF Echo!Connect, InServer
  <2> QED
    BY <1>0, <1>6, <2>1 DEF InTurn, Echo!Connect, Echo!Step, OneLine, Quiet
<1>7. ASSUME NEW c \in Clients, Echo!TypeLine(c) PROVE InTurn'
  <2>1. /\ \A d \in Clients : InServer(d)' <=> InServer(d)
        /\ server' = server /\ own' = own /\ toClient' = toClient /\ str' = str
    BY <1>7 DEF Echo!TypeLine, InServer, Echo!serverVars
  <2>2. CASE server = "dead"
    BY <1>0, <1>7, <2>1, <2>2 DEF InTurn, Echo!TypeLine, Echo!Step
  <2>3. CASE server # "dead"
    <3>1. /\ toServer' = [toServer EXCEPT ![c] = Append(@, lines'[c])]
          /\ lines' = [lines EXCEPT ![c] = @ + 1] /\ client[c] = "type"
          /\ client' = [client EXCEPT ![c] = "await"]
      BY <1>7, <2>3 DEF Echo!TypeLine, Echo!Step
    <3>2. Quiet(c)
      BY <2>3, <3>1 DEF InTurn
    <3>3. toServer'[c] = <<lines'[c]>>
      BY <1>0, <3>1, <3>2 DEF Quiet
    <3>4. OneLine(c)' /\ client'[c] = "await"
      BY <1>0, <2>1, <3>1, <3>2, <3>3 DEF OneLine, Quiet
    <3>5. \A d \in Clients \ {c} : Right(d) /\ Right(d)'
      BY <1>0, <2>1, <2>3, <3>1 DEF InTurn, OneLine, Quiet
    <3> HIDE DEF Right
    <3>6. \A d \in Clients \ {c} : Right(d)'
      BY <3>5
    <3> QED
      BY <2>1, <2>3, <3>4, <3>6 DEF InTurn, Right
  <2> QED
    BY <2>2, <2>3
<1>8. ASSUME NEW c \in Clients, Echo!ShowAnswer(c) PROVE InTurn'
  <2>1. /\ \A d \in Clients : InServer(d)' <=> InServer(d)
        /\ server' = server /\ own' = own /\ toServer' = toServer /\ str' = str /\ lines' = lines
    BY <1>8 DEF Echo!ShowAnswer, InServer, Echo!serverVars
  <2>2. CASE server = "dead"
    BY <1>0, <1>8, <2>1, <2>2 DEF InTurn, Echo!ShowAnswer, Echo!Step
  <2>3. CASE server # "dead"
    <3>1. /\ toClient' = [toClient EXCEPT ![c] = Tail(@)] /\ client[c] = "await"
          /\ client' = [client EXCEPT ![c] = "type"] /\ toClient[c] # << >>
      BY <1>8, <2>3 DEF Echo!ShowAnswer, Echo!Step
    <3>2. OneLine(c)
      BY <2>3, <3>1 DEF InTurn
    <3>3. toClient[c] = <<lines[c]>> /\ toServer[c] = << >> /\ ~InServer(c)
      BY <3>1, <3>2 DEF OneLine
    <3>4. toClient'[c] = << >>
      BY <1>0, <3>1, <3>3
    <3>5. Quiet(c)' /\ client'[c] = "type"
      BY <1>0, <2>1, <3>1, <3>3, <3>4 DEF Quiet
    <3>6. \A d \in Clients \ {c} : Right(d)'
      BY <1>0, <2>1, <2>3, <3>1 DEF InTurn, OneLine, Quiet
    <3> HIDE DEF Right
    <3> QED
      BY <2>1, <2>3, <3>5, <3>6 DEF InTurn, Right
  <2> QED
    BY <2>2, <2>3
<1>9. ASSUME NEW c \in Clients, Echo!ServerGone(c) \/ Echo!EndOfInput(c) \/ Echo!KillClient(c) PROVE InTurn'
  <2>1. /\ \A d \in Clients : InServer(d)' <=> InServer(d)
        /\ UNCHANGED <<server, str, lines, toServer, toClient>>
        /\ server # "dead" => own' = own
        /\ \A d \in Clients : client[d] = "killed" => client'[d] = "killed"
    BY <1>0, <1>9 DEF Echo!ServerGone, Echo!EndOfInput, Echo!KillClient, Echo!Step, InServer, Echo!serverVars, Echo!Left
  <2>2. ASSUME NEW d \in Clients, server # "dead"
        PROVE  client'[d] = client[d] \/ client'[d] = "killed" \/ (client[d] = "type" /\ client'[d] = "ended")
    BY <1>0, <1>9, <2>2 DEF Echo!ServerGone, Echo!EndOfInput, Echo!KillClient, Echo!Step
  <2>3. ASSUME NEW d \in Clients, server # "dead" PROVE Right(d)'
    BY <2>1, <2>2, <2>3 DEF InTurn, OneLine, Quiet
  <2> HIDE DEF Right
  <2> QED
    BY <2>1, <2>3 DEF InTurn, Right
<1>10. CASE UNCHANGED Echo!echoVars
  BY <1>10 DEF InTurn, OneLine, Quiet, InServer, Echo!echoVars, Echo!serverVars
<1> QED
  BY <1>1, <1>2, <1>3, <1>4, <1>5, <1>6, <1>7, <1>8, <1>9, <1>10 DEF Echo!EchoNext, Echo!ServerStep, Echo!ClientStep

LEMMA EchoInvStays == EchoInv /\ [Echo!EchoNext]_(Echo!echoVars) => EchoInv'
BY EchoTypesStay, InTurnStays DEF EchoInv

LEMMA EchoInitially == Echo!EchoInit => EchoInv
<1> SUFFICES ASSUME Echo!EchoInit PROVE EchoInv
  OBVIOUS
<1>1. EchoTypes
  BY EmptySeq DEF Echo!EchoInit, EchoTypes
<1>2. InTurn
  BY DEF Echo!EchoInit, InTurn, Quiet, InServer
<1> QED
  BY <1>1, <1>2 DEF EchoInv

LEMMA InTurnIsLockStep == EchoInv => Echo!LockStep
<1> SUFFICES ASSUME EchoInv PROVE Echo!LockStep
  OBVIOUS
<1> USE DEF EchoInv
<1>1. ASSUME NEW c \in Clients, server # "dead", client[c] = "await" PROVE Echo!UnderWay(c) = <<lines[c]>>
  <2>1. OneLine(c)
    BY <1>1 DEF InTurn
  <2> DEFINE line == <<lines[c]>>
  <2>a. line \in Seq(Nat) /\ << >> \in Seq(Nat)
    BY EmptySeq DEF EchoTypes
  <2>b. line \o << >> = line /\ << >> \o line = line /\ << >> \o << >> = << >>
    BY <2>a, ConcatEmptySeq
  <2> HIDE DEF line
  <2>2. CASE toServer[c] = line /\ toClient[c] = << >> /\ ~InServer(c)
    BY <2>b, <2>2 DEF line, Echo!UnderWay, InServer
  <2>3. CASE toServer[c] = << >> /\ toClient[c] = << >> /\ InServer(c) /\ str = lines[c]
    BY <2>b, <2>3 DEF line, Echo!UnderWay, InServer
  <2>4. CASE toServer[c] = << >> /\ toClient[c] = line /\ ~InServer(c)
    BY <2>b, <2>4 DEF line, Echo!UnderWay, InServer
  <2> QED
    BY <2>1, <2>2, <2>3, <2>4 DEF OneLine, line
<1>2. ASSUME NEW c \in Clients, server # "dead", client[c] = "type"
      PROVE  toServer[c] = << >> /\ toClient[c] = << >>
  BY <1>2 DEF InTurn, Quiet
<1> QED
  BY <1>1, <1>2 DEF InTurn, Echo!LockStep
-----------------------------------------------------------------------------
(* The shared counter.  Done is the set of increments that are finished,   *)
(* the k-th from the end of thread t's being <<t, k>>.                     *)

Done == {x \in Counters \X (1 .. ITERATIONS) : x[2] > left[x[1]]}

CounterTypes ==
    /\ phase \in {"start", "safe", "unsafe", "end"}
    /\ global_counter \in Nat /\ counter_mutex \in Counters \cup {Nobody}
    /\ at \in [Counters -> {"loop", "read", "store"}]
    /\ old_value \in [Counters -> Nat] /\ left \in [Counters -> 0 .. ITERATIONS]
    /\ final \in [{"safe", "unsafe"} -> Nat]
    /\ \A t \in Counters : at[t] # "loop" => left[t] > 0
    /\ phase \in {"start", "end"} => \A t \in Counters : left[t] = 0

(* With the mutex the counter is what has been done.                       *)
SafePhase ==
    phase = "safe" =>
        /\ \A t \in Counters : at[t] # "loop" <=> counter_mutex = t
        /\ global_counter = Cardinality(Done)
        /\ \A t \in Counters : at[t] = "store" => old_value[t] = global_counter

(* Without, it is at most that.  But who stores again has read a counter   *)
(* that was not 0, and so nobody's last increment can leave it at 1.       *)
UnsafePhase ==
    /\ phase = "start" => counter_mutex = Nobody
    /\ phase = "unsafe" =>
        /\ global_counter <= Cardinality(Done)
        /\ \A t \in Counters : at[t] = "store" => old_value[t] <= Cardinality(Done)
        /\ \A t \in Counters : left[t] < ITERATIONS => global_counter > 0
        /\ \A t \in Counters : at[t] = "store" /\ left[t] < ITERATIONS => old_value[t] > 0
        /\ (\A t \in Counters : left[t] = 0) => ITERATIONS = 1 \/ global_counter > 1

SharedInv == CounterTypes /\ SafePhase /\ UnsafePhase /\ Shared!FinalCounts

LEMMA CountersFinite ==
    /\ IsFiniteSet(Counters \X (1 .. ITERATIONS)) /\ Cardinality(Counters \X (1 .. ITERATIONS)) = Shared!Expected
    /\ IsFiniteSet(Done) /\ Cardinality(Done) \in Nat
    /\ Shared!Expected \in Nat /\ Cardinality(Done) <= Shared!Expected
    /\ ITERATIONS \in Nat \ {0}
<1>1. ITERATIONS \in Nat \ {0} /\ IsFiniteSet(Counters)
  BY CountersAssumption
<1>2. IsFiniteSet(1 .. ITERATIONS)
  BY <1>1, FS_Interval
<1>3. Cardinality(1 .. ITERATIONS) = ITERATIONS
  <2>1. 1 \in Int /\ ITERATIONS \in Int /\ ~(1 > ITERATIONS) /\ ITERATIONS - 1 + 1 = ITERATIONS
    BY <1>1
  <2>2. Cardinality(1 .. ITERATIONS) = IF 1 > ITERATIONS THEN 0 ELSE ITERATIONS - 1 + 1
    BY ONLY <2>1, FS_Interval
  <2> QED
    BY <2>1, <2>2
<1>4. /\ IsFiniteSet(Counters \X (1 .. ITERATIONS))
      /\ Cardinality(Counters \X (1 .. ITERATIONS)) = Cardinality(Counters) * Cardinality(1 .. ITERATIONS)
  BY <1>1, <1>2, FS_Product
<1>5. Cardinality(Counters \X (1 .. ITERATIONS)) = Shared!Expected
  <2>1. Shared!Expected = Cardinality(Counters) * ITERATIONS
    BY DEF Shared!Expected, Shared!Cardinality, Cardinality
  <2> QED
    BY <1>3, <1>4, <2>1
<1>6. Done \in SUBSET (Counters \X (1 .. ITERATIONS))
  BY DEF Done
<1>7. IsFiniteSet(Done) /\ Cardinality(Done) <= Cardinality(Counters \X (1 .. ITERATIONS))
  BY <1>4, <1>6, FS_Subset
<1>8. Cardinality(Done) \in Nat /\ Cardinality(Counters \X (1 .. ITERATIONS)) \in Nat
  BY <1>4, <1>7, FS_CardinalityType
<1> QED
  BY <1>1, <1>4, <1>5, <1>7, <1>8

LEMMA AllDone == (\A t \in Counters : left[t] = 0) => Cardinality(Done) = Shared!Expected
<1> SUFFICES ASSUME \A t \in Counters : left[t] = 0 PROVE Cardinality(Done) = Shared!Expected
  OBVIOUS
<1>1. Done = Counters \X (1 .. ITERATIONS)
  BY CountersFinite DEF Done
<1> QED
  BY <1>1, CountersFinite

LEMMA OneMoreDone ==
    ASSUME CounterTypes, NEW t \in Counters, left[t] > 0, left' = [left EXCEPT ![t] = @ - 1]
    PROVE  Cardinality(Done)' = Cardinality(Done) + 1
<1>1. left[t] \in 1 .. ITERATIONS /\ ITERATIONS \in Nat /\ left'[t] = left[t] - 1
  BY CountersFinite DEF CounterTypes
<1>2. Done' = Done \cup {<<t, left[t]>>}
  <2>1. ASSUME NEW x \in Counters \X (1 .. ITERATIONS)
        PROVE  x[2] > left'[x[1]] <=> (x[2] > left[x[1]] \/ x = <<t, left[t]>>)
    <3>1. PICK c \in Counters, k \in 1 .. ITERATIONS : x = <<c, k>>
      OBVIOUS
    <3>2. left[c] \in 0 .. ITERATIONS /\ left'[c] = IF c = t THEN left[c] - 1 ELSE left[c]
      BY DEF CounterTypes
    <3> QED
      BY <1>1, <3>1, <3>2
  <2>2. <<t, left[t]>> \in Counters \X (1 .. ITERATIONS)
    BY <1>1
  <2> QED
    BY <2>1, <2>2 DEF Done
<1>3. <<t, left[t]>> \notin Done
  BY <1>1 DEF Done
<1>4. Cardinality(Done \cup {<<t, left[t]>>}) = Cardinality(Done) + 1
  BY <1>3, CountersFinite, FS_AddElement
<1> QED
  BY <1>2, <1>4

LEMMA CounterTypesStay == CounterTypes /\ [Shared!CounterNext]_(Shared!counterVars) => CounterTypes'
<1> SUFFICES ASSUME CounterTypes, [Shared!CounterNext]_(Shared!counterVars) PROVE CounterTypes'
  OBVIOUS
<1> USE DEF CounterTypes
<1>0. ITERATIONS \in Nat \ {0}
  BY CountersFinite
<1>1. ASSUME NEW p \in {"safe", "unsafe"}, Shared!Begin(p), final' \in [{"safe", "unsafe"} -> Nat]
      PROVE  CounterTypes'
  BY <1>0, <1>1 DEF Shared!Begin
<1>2. ASSUME NEW t \in Counters, Shared!Enter(t) \/ Shared!EnterUnsafe(t) PROVE CounterTypes'
  BY <1>2 DEF Shared!Enter, Shared!EnterUnsafe, Shared!Move, Shared!Lock
<1>3. ASSUME NEW t \in Counters, Shared!Read(t) PROVE CounterTypes'
  BY <1>3 DEF Shared!Read, Shared!Move
<1>4. ASSUME NEW t \in Counters, Shared!Store(t) PROVE CounterTypes'
  <2>1. left[t] > 0 /\ left[t] \in 0 .. ITERATIONS /\ old_value[t] \in Nat
    BY <1>4 DEF Shared!Store, Shared!Move
  <2>2. left' = [left EXCEPT ![t] = left[t] - 1] /\ left[t] - 1 \in 0 .. ITERATIONS
    BY <1>0, <1>4, <2>1 DEF Shared!Store
  <2>3. phase' = phase /\ phase \notin {"start", "end"}
    BY <1>4, <2>1 DEF Shared!Store
  <2> QED
    BY <1>4, <2>1, <2>2, <2>3 DEF Shared!Store, Shared!Move
<1>5. CASE Shared!Start
  BY <1>1, <1>5 DEF Shared!Start
<1>6. CASE Shared!Joined
  <2>0. final' \in [{"safe", "unsafe"} -> Nat]
    BY <1>6 DEF Shared!Joined
  <2>1. CASE phase = "safe" /\ Shared!Begin("unsafe")
    BY <1>1, <2>0, <2>1
  <2>2. CASE /\ phase = "unsafe" /\ phase' = "end"
             /\ UNCHANGED <<global_counter, counter_mutex, at, old_value, left>>
    BY <1>6, <2>0, <2>2 DEF Shared!Joined
  <2> QED
    BY <1>6, <2>1, <2>2 DEF Shared!Joined
<1>7. CASE UNCHANGED Shared!counterVars
  BY <1>7 DEF Shared!counterVars
<1> QED
  BY <1>2, <1>3, <1>4, <1>5, <1>6, <1>7 DEF Shared!CounterNext, Shared!CounterMain, Shared!CounterStep

LEMMA SharedStays == SharedInv /\ [Shared!CounterNext]_(Shared!counterVars) => SharedInv'
<1> SUFFICES ASSUME SharedInv, [Shared!CounterNext]_(Shared!counterVars) PROVE SharedInv'
  OBVIOUS
<1>0. CounterTypes /\ CounterTypes' /\ ITERATIONS \in Nat \ {0} /\ Nobody \notin Counters
      /\ Cardinality(Done) \in Nat
  BY CounterTypesStay, CountersFinite, CountersAssumption DEF SharedInv
<1>1. ASSUME NEW p \in {"safe", "unsafe"}, Shared!Begin(p), \A t \in Counters : at[t] = "loop",
             p = "safe" => counter_mutex = Nobody
      PROVE  SafePhase' /\ UnsafePhase'
  <2>1. \A t \in Counters : left'[t] = ITERATIONS /\ at'[t] = "loop"
    BY <1>1 DEF Shared!Begin
  <2>2. Cardinality(Done)' = 0
    <3>1. Done' = {}
      BY <1>0, <2>1 DEF Done
    <3> QED
      BY <3>1, FS_EmptySet
  <2>3. global_counter' = 0 /\ phase' = p /\ counter_mutex' = counter_mutex
    BY <1>1 DEF Shared!Begin
  <2>4. \E t \in Counters : left'[t] # 0
    BY <1>0, <2>1, CountersAssumption
  <2> QED
    BY <1>0, <1>1, <2>1, <2>2, <2>3, <2>4 DEF SafePhase, UnsafePhase
<1>2. ASSUME NEW t \in Counters, Shared!Enter(t) PROVE SafePhase' /\ UnsafePhase' /\ Shared!FinalCounts'
  <2>1. Done' = Done
    BY <1>2 DEF Shared!Enter, Done
  <2> QED
    BY <1>0, <1>2, <2>1
       DEF SharedInv, CounterTypes, SafePhase, UnsafePhase, Shared!FinalCounts, Shared!Enter, Shared!Move, Shared!Lock
<1>3. ASSUME NEW t \in Counters, Shared!EnterUnsafe(t) PROVE SafePhase' /\ UnsafePhase' /\ Shared!FinalCounts'
  <2>1. Done' = Done
    BY <1>3 DEF Shared!EnterUnsafe, Done
  <2> QED
    BY <1>0, <1>3, <2>1
       DEF SharedInv, CounterTypes, SafePhase, UnsafePhase, Shared!FinalCounts, Shared!EnterUnsafe, Shared!Move
<1>4. ASSUME NEW t \in Counters, Shared!Read(t) PROVE SafePhase' /\ UnsafePhase' /\ Shared!FinalCounts'
  <2>1. Done' = Done
    BY <1>4 DEF Shared!Read, Done
  <2>2. /\ at[t] = "read" /\ at' = [at EXCEPT ![t] = "store"]
        /\ old_value' = [old_value EXCEPT ![t] = global_counter]
        /\ UNCHANGED <<phase, global_counter, counter_mutex, left, final>>
    BY <1>4 DEF Shared!Read, Shared!Move
  <2>3. SafePhase'
    BY <1>0, <2>1, <2>2 DEF SharedInv, CounterTypes, SafePhase
  <2>4. UnsafePhase'
    BY <1>0, <2>1, <2>2 DEF SharedInv, CounterTypes, UnsafePhase
  <2> QED
    BY <2>2, <2>3, <2>4 DEF SharedInv, Shared!FinalCounts
<1>5. ASSUME NEW t \in Counters, Shared!Store(t) PROVE SafePhase' /\ UnsafePhase' /\ Shared!FinalCounts'
  <2>1. /\ at[t] = "store" /\ at' = [at EXCEPT ![t] = "loop"]
        /\ global_counter' = old_value[t] + 1 /\ left' = [left EXCEPT ![t] = @ - 1]
        /\ counter_mutex' = Nobody /\ UNCHANGED <<phase, old_value, final>>
    BY <1>5 DEF Shared!Store, Shared!Move
  <2>2. left[t] > 0 /\ left[t] \in 0 .. ITERATIONS /\ old_value[t] \in Nat
        /\ phase \in {"safe", "unsafe"}
    BY <1>0, <2>1 DEF CounterTypes
  <2>3. Cardinality(Done)' = Cardinality(Done) + 1
    BY <1>0, <2>1, <2>2, OneMoreDone
  <2>4. \A c \in Counters : at'[c] = IF c = t THEN "loop" ELSE at[c]
    BY <1>0, <2>1 DEF CounterTypes
  <2>5. \A c \in Counters : left[c] \in Nat /\ left'[c] = IF c = t THEN left[c] - 1 ELSE left[c]
    BY <1>0, <2>1 DEF CounterTypes
  <2>6. SafePhase'
    BY <1>0, <2>1, <2>2, <2>3, <2>4 DEF SharedInv, SafePhase
  <2>7. ASSUME phase = "unsafe" PROVE UnsafePhase'
    <3> DEFINE C == Cardinality(Done)
    <3>1. /\ global_counter <= C
          /\ \A c \in Counters : at[c] = "store" => old_value[c] <= C
          /\ \A c \in Counters : at[c] = "store" /\ left[c] < ITERATIONS => old_value[c] > 0
      BY <2>7 DEF SharedInv, UnsafePhase
    <3>2. C' = C + 1 /\ C \in Nat
      BY <1>0, <2>3
    <3>3. global_counter' <= C' /\ global_counter' > 0
      BY <2>1, <2>2, <3>1, <3>2
    <3>4. \A c \in Counters : old_value[c] \in Nat
      BY <1>0 DEF CounterTypes
    <3>5. \A c \in Counters : at'[c] = "store" => old_value'[c] <= C'
      BY <2>1, <2>4, <3>1, <3>2, <3>4
    <3>6. \A c \in Counters : at'[c] = "store" /\ left'[c] < ITERATIONS => old_value'[c] > 0
      BY <2>1, <2>4, <2>5, <3>1
    <3>7. (\A c \in Counters : left'[c] = 0) => ITERATIONS = 1 \/ global_counter' > 1
      <4>1. left'[t] = 0 => left[t] = 1
        BY <2>2, <2>5
      <4>2. left[t] = 1 /\ ITERATIONS # 1 => old_value[t] > 0
        BY <1>0, <2>1, <3>1
      <4> QED
        BY <1>0, <2>1, <2>2, <4>1, <4>2
    <3> HIDE DEF C
    <3>8. phase' = "unsafe"
      BY <2>1, <2>7
    <3> QED
      BY <3>3, <3>5, <3>6, <3>7, <3>8 DEF UnsafePhase, C
  <2>8. UnsafePhase'
    BY <2>1, <2>2, <2>7 DEF UnsafePhase
  <2> QED
    BY <2>1, <2>6, <2>8 DEF SharedInv, Shared!FinalCounts
<1>6. CASE Shared!Start
  <2>1. \A t \in Counters : at[t] = "loop"
    BY <1>0, <1>6 DEF CounterTypes, Shared!Start
  <2>2. counter_mutex = Nobody
    BY <1>6 DEF SharedInv, UnsafePhase, Shared!Start
  <2>3. final' = final /\ phase' # "end"
    BY <1>6 DEF Shared!Start, Shared!Begin
  <2>4. Shared!FinalCounts'
    BY <2>3 DEF SharedInv, Shared!FinalCounts
  <2> QED
    BY <1>0, <1>1, <1>6, <2>1, <2>2, <2>4 DEF Shared!Start, SharedInv
<1>7. CASE Shared!Joined
  <2>1. (\A t \in Counters : at[t] = "loop") /\ Cardinality(Done) = Shared!Expected
    BY <1>0, <1>7, AllDone DEF CounterTypes, Shared!Joined
  <2>2. global_counter \in Nat /\ Shared!Expected \in Nat
    BY <1>0, CountersFinite DEF CounterTypes
  <2>3. CASE phase = "safe" /\ Shared!Begin("unsafe")
    <3>1. final'["safe"] = global_counter \/ final'["safe"] = final["safe"]
      BY <1>7, <2>3 DEF Shared!Joined
    <3>2. global_counter = Shared!Expected /\ phase' = "unsafe"
      BY <2>1, <2>3 DEF SharedInv, SafePhase, Shared!Begin
    <3>3. Shared!FinalCounts'
      BY <3>1, <3>2 DEF SharedInv, Shared!FinalCounts
    <3> QED
      BY <1>0, <1>1, <2>1, <2>3, <3>3 DEF SharedInv
  <2>4. CASE /\ phase = "unsafe" /\ phase' = "end"
             /\ UNCHANGED <<global_counter, counter_mutex, at, old_value, left>>
    <3>1. global_counter <= Shared!Expected /\ (ITERATIONS = 1 \/ global_counter > 1) /\ global_counter > 0
      <4>1. \E t \in Counters : left[t] < ITERATIONS
        BY <1>0, <1>7, CountersAssumption DEF Shared!Joined
      <4> QED
        BY <1>7, <2>1, <2>4, <4>1 DEF SharedInv, UnsafePhase, Shared!Joined
    <3>2. final'["safe"] = final["safe"] /\ final'["unsafe"] = global_counter
      BY <1>0, <1>7, <2>4 DEF CounterTypes, Shared!Joined
    <3>3. Shared!FinalCounts'
      BY <2>2, <2>4, <3>1, <3>2 DEF SharedInv, Shared!FinalCounts
    <3> QED
      BY <1>0, <2>4, <3>3 DEF SafePhase, UnsafePhase, SharedInv
  <2> QED
    BY <1>7, <2>3, <2>4 DEF Shared!Joined
<1>8. CASE UNCHANGED Shared!counterVars
  BY <1>0, <1>8 DEF SharedInv, SafePhase, UnsafePhase, Shared!FinalCounts, Shared!counterVars, Done
<1> QED
  BY <1>0, <1>2, <1>3, <1>4, <1>5, <1>6, <1>7, <1>8
     DEF Shared!CounterNext, Shared!CounterMain, Shared!CounterStep, SharedInv

LEMMA SharedInitially == Shared!CounterInit => SharedInv
<1> SUFFICES ASSUME Shared!CounterInit PROVE SharedInv
  OBVIOUS
<1> QED
  BY CountersFinite DEF Shared!CounterInit, SharedInv, CounterTypes, SafePhase, UnsafePhase, Shared!FinalCounts
-----------------------------------------------------------------------------
LEMMA LeastOf == ASSUME NEW T, T \subseteq Nat, T # {} PROVE \E x \in T : \A y \in T : x <= y
<1> DEFINE R == {ss \in Nat \X Nat : ss[1] < ss[2]}
<1>1. IsWellFoundedOn(R, Nat)
  BY NatLessThanWellFounded DEF OpToRel
<1>2. PICK x \in T : \A y \in T : ~(<<y, x>> \in R)
  BY <1>1, WFMin
<1>3. ASSUME NEW y \in T PROVE x <= y
  <2>1. x \in Nat /\ y \in Nat
    BY <1>3
  <2>2. <<y, x>> \in Nat \X Nat /\ ~(<<y, x>>[1] < <<y, x>>[2])
    BY <1>2, <2>1
  <2> QED
    BY <2>1, <2>2
<1> QED
  BY <1>3
-----------------------------------------------------------------------------
(* The sum of the threads' shares, n[t] operations of each thread t.  The  *)
(* fold of the community modules is a recursive function on sets: that it  *)
(* exists, and how it changes with one share, is shown on a smallest set   *)
(* for which it would not be so.                                           *)

Total(n) == Joins!MapThenSumSet(LAMBDA t : Joins!Share(t, n[t]), Joins!Workers)

SumUpTo(n) ==
    LET iter[s \in SUBSET Joins!Workers] ==
            IF s = {} THEN 0
            ELSE LET x == CHOOSE x \in s : TRUE
                 IN  Joins!Share(x, n[x]) + iter[s \ {x}]
    IN  iter

IsSum(n, g) ==
    g = [s \in SUBSET Joins!Workers |->
            IF s = {} THEN 0
            ELSE LET x == CHOOSE x \in s : TRUE
                 IN  Joins!Share(x, n[x]) + g[s \ {x}]]

(* The same for sets of at most k threads only. *)
IsSumTo(n, g, k) ==
    \A s \in SUBSET Joins!Workers : Cardinality(s) <= k =>
        g[s] = IF s = {} THEN 0
               ELSE LET x == CHOOSE x \in s : TRUE
                    IN  Joins!Share(x, n[x]) + g[s \ {x}]

LEMMA TotalIsSum == ASSUME NEW n PROVE Total(n) = SumUpTo(n)[Joins!Workers]
BY DEF Total, SumUpTo, Joins!MapThenSumSet, Joins!MapThenFoldSet

LEMMA SumIsSum == ASSUME NEW n, NEW g, IsSum(n, g) PROVE IsSum(n, SumUpTo(n))
BY DEF SumUpTo, IsSum

LEMMA ThreadsFinite ==
    /\ IsFiniteSet(Joins!Workers) /\ Cardinality(Joins!Workers) \in Nat
    /\ Joins!Workers \subseteq Nat /\ Joins!Workers \in SUBSET Joins!Workers
    /\ \A s \in SUBSET Joins!Workers : /\ IsFiniteSet(s) /\ Cardinality(s) \in Nat
                               /\ Cardinality(s) <= Cardinality(Joins!Workers)
<1>1. IsFiniteSet(Joins!Workers) /\ Joins!Workers \subseteq Nat
  BY CountersAssumption, FS_Interval DEF Joins!Workers
<1>2. \A s \in SUBSET Joins!Workers : IsFiniteSet(s) /\ Cardinality(s) <= Cardinality(Joins!Workers)
  BY <1>1, FS_Subset
<1> QED
  BY <1>1, <1>2, FS_CardinalityType

LEMMA SomeThread ==
    ASSUME NEW s \in SUBSET Joins!Workers, s # {}
    PROVE  LET x == CHOOSE x \in s : TRUE
           IN  /\ x \in s /\ x \in Joins!Workers /\ s \ {x} \in SUBSET Joins!Workers
               /\ Cardinality(s) \in Nat /\ Cardinality(s \ {x}) \in Nat
               /\ Cardinality(s \ {x}) = Cardinality(s) - 1
<1> DEFINE x == CHOOSE x \in s : TRUE
<1>1. x \in s
  OBVIOUS
<1> HIDE DEF x
<1>3. IsFiniteSet(s) /\ IsFiniteSet(s \ {x})
  BY ThreadsFinite
<1>4. Cardinality(s \ {x}) = Cardinality(s) - 1
  BY <1>1, <1>3, FS_RemoveElement
<1>5. Cardinality(s) \in Nat /\ Cardinality(s \ {x}) \in Nat
  BY <1>3, FS_CardinalityType
<1>6. x \in s /\ x \in Joins!Workers /\ s \ {x} \in SUBSET Joins!Workers /\ Cardinality(s) \in Nat
      /\ Cardinality(s \ {x}) \in Nat /\ Cardinality(s \ {x}) = Cardinality(s) - 1
  BY <1>1, <1>4, <1>5
<1> QED
  BY <1>6 DEF x

LEMMA SumExists == ASSUME NEW n PROVE IsSum(n, SumUpTo(n))
<1>0. Cardinality(Joins!Workers) \in Nat
  BY ThreadsFinite
<1>1. \A s \in SUBSET Joins!Workers : Cardinality(s) \in Nat /\ Cardinality(s) <= Cardinality(Joins!Workers)
                                /\ IsFiniteSet(s)
  BY ThreadsFinite
<1>2. \A k \in Nat : \E g : IsSumTo(n, g, k)
  <2> DEFINE T == {k \in Nat : ~\E g : IsSumTo(n, g, k)}
  <2> SUFFICES ASSUME T # {} PROVE FALSE
    OBVIOUS
  <2>1. T \subseteq Nat
    OBVIOUS
  <2> HIDE DEF T
  <2>2. PICK k \in T : \A j \in T : k <= j
    BY <2>1, LeastOf
  <2> USE DEF T
  <2>3. k \in Nat /\ ~\E g : IsSumTo(n, g, k)
    BY <2>2
  <2>4. CASE k = 0
    <3> DEFINE g == [s \in SUBSET Joins!Workers |-> 0]
    <3>1. \A s \in SUBSET Joins!Workers : Cardinality(s) <= 0 => s = {}
      BY <1>1, FS_EmptySet
    <3>2. IsSumTo(n, g, k)
      BY <2>4, <3>1 DEF IsSumTo
    <3> QED
      BY <2>3, <3>2
  <2>5. CASE k # 0
    <3>1. k - 1 \in Nat /\ k - 1 \notin T
      BY <2>2, <2>3, <2>5
    <3>2. PICK h : IsSumTo(n, h, k - 1)
      BY <3>1
    <3> DEFINE g == [s \in SUBSET Joins!Workers |->
                        IF s = {} THEN 0
                        ELSE LET x == CHOOSE x \in s : TRUE
                             IN  Joins!Share(x, n[x]) + h[s \ {x}]]
    <3> HIDE DEF T
    <3>3. ASSUME NEW s \in SUBSET Joins!Workers, Cardinality(s) <= k - 1 PROVE g[s] = h[s]
      BY <3>2, <3>3 DEF IsSumTo
    <3>4. ASSUME NEW s \in SUBSET Joins!Workers, Cardinality(s) <= k
          PROVE g[s] = IF s = {} THEN 0
                       ELSE LET x == CHOOSE x \in s : TRUE
                            IN  Joins!Share(x, n[x]) + g[s \ {x}]
      <4>1. CASE s = {}
        BY <4>1
      <4>2. CASE s # {}
        <5> DEFINE x == CHOOSE x \in s : TRUE
        <5>1. s \ {x} \in SUBSET Joins!Workers /\ Cardinality(s \ {x}) = Cardinality(s) - 1
              /\ Cardinality(s) \in Nat
          BY <4>2, SomeThread
        <5>2. g[s] = Joins!Share(x, n[x]) + h[s \ {x}]
          BY <4>2
        <5> HIDE DEF g, x
        <5>3. g[s \ {x}] = h[s \ {x}]
          BY <2>3, <3>3, <3>4, <5>1
        <5>4. g[s] = Joins!Share(x, n[x]) + g[s \ {x}]
          BY <5>2, <5>3
        <5> QED
          BY <4>2, <5>4 DEF x
      <4> QED
        BY <4>1, <4>2
    <3> HIDE DEF g
    <3>5. IsSumTo(n, g, k)
      BY <3>4 DEF IsSumTo
    <3> QED
      BY <2>3, <3>5
  <2> QED
    BY <2>4, <2>5
<1>3. PICK h : IsSumTo(n, h, Cardinality(Joins!Workers))
  BY <1>0, <1>2
<1> DEFINE g == [s \in SUBSET Joins!Workers |-> h[s]]
<1>4. ASSUME NEW s \in SUBSET Joins!Workers
      PROVE g[s] = IF s = {} THEN 0
                   ELSE LET x == CHOOSE x \in s : TRUE
                        IN  Joins!Share(x, n[x]) + g[s \ {x}]
  <2>1. CASE s = {}
    BY <1>0, <1>1, <1>3, <2>1 DEF IsSumTo
  <2>2. CASE s # {}
    <3> DEFINE x == CHOOSE x \in s : TRUE
    <3>1. s \ {x} \in SUBSET Joins!Workers
      OBVIOUS
    <3>2. h[s] = Joins!Share(x, n[x]) + h[s \ {x}]
      BY <1>1, <1>3, <2>2 DEF IsSumTo
    <3> HIDE DEF x
    <3>3. g[s] = Joins!Share(x, n[x]) + g[s \ {x}]
      BY <3>1, <3>2
    <3> QED
      BY <2>2, <3>3 DEF x
  <2> QED
    BY <2>1, <2>2
<1>5. g = [s \in SUBSET Joins!Workers |-> g[s]]
  OBVIOUS
<1> HIDE DEF g
<1>6. IsSum(n, g)
  BY <1>4, <1>5 DEF IsSum
<1> QED
  BY <1>6, SumIsSum

(* What holds of the empty set and survives one more thread holds of all.  *)
LEMMA SumStep ==
    ASSUME NEW n
    PROVE  LET g == SumUpTo(n)
           IN  /\ g[{}] = 0
               /\ \A s \in SUBSET Joins!Workers : s # {} =>
                     LET x == CHOOSE x \in s : TRUE
                     IN  g[s] = Joins!Share(x, n[x]) + g[s \ {x}]
<1> DEFINE g == SumUpTo(n)
<1>1. IsSum(n, g)
  BY SumExists
<1> HIDE DEF g
<1>2. \A s \in SUBSET Joins!Workers :
          g[s] = IF s = {} THEN 0
                 ELSE LET x == CHOOSE x \in s : TRUE
                      IN  Joins!Share(x, n[x]) + g[s \ {x}]
  BY <1>1 DEF IsSum
<1>3. g[{}] = 0
  BY <1>2
<1>4. \A s \in SUBSET Joins!Workers : s # {} =>
                     LET x == CHOOSE x \in s : TRUE
                     IN  g[s] = Joins!Share(x, n[x]) + g[s \ {x}]
  BY <1>2
<1> QED
  BY <1>3, <1>4 DEF g

LEMMA ShareType == ASSUME NEW t \in Nat, NEW k \in Nat PROVE Joins!Share(t, k) \in Nat
<1>1. k * (k + 1) \in Nat
  OBVIOUS
<1>2. (k * (k + 1)) \div 2 \in Nat
  BY <1>1
<1> QED
  BY <1>2 DEF Joins!Share, Joins!base_value

LEMMA ShareOfOneMore ==
    ASSUME NEW t \in Nat, NEW k \in Nat
    PROVE  Joins!Share(t, k + 1) = Joins!Share(t, k) + t * (k + 1) /\ Joins!Share(t, 0) = 0
<1>1. k * (k + 1) \in Nat /\ k + 1 \in Nat
  OBVIOUS
<1>2. (k + 1) * (k + 1 + 1) = k * (k + 1) + 2 * (k + 1)
  OBVIOUS
<1>3. \A a, b \in Nat : (a + 2 * b) \div 2 = (a \div 2) + b /\ a \div 2 \in Nat
  OBVIOUS
<1>4. ((k + 1) * (k + 1 + 1)) \div 2 = ((k * (k + 1)) \div 2) + (k + 1)
  BY <1>1, <1>2, <1>3
<1>5. (k * (k + 1)) \div 2 \in Nat
  BY <1>1, <1>3
<1>6. \A a, b \in Nat : t * (a + b) = t * a + t * b
  OBVIOUS
<1>7. Joins!Share(t, k + 1) = Joins!Share(t, k) + t * (k + 1)
  BY <1>1, <1>4, <1>5, <1>6 DEF Joins!Share, Joins!base_value
<1>8. Joins!Share(t, 0) = 0
  BY DEF Joins!Share, Joins!base_value
<1> QED
  BY <1>7, <1>8

(* With one operation more of thread t, the sum is larger by its share.    *)
LEMMA TotalOfOneMore ==
    ASSUME NEW n \in [Joins!Workers -> Nat], NEW t \in Joins!Workers
    PROVE  Total([n EXCEPT ![t] = @ + 1]) = Total(n) + t * (n[t] + 1)
<1> DEFINE m == [n EXCEPT ![t] = @ + 1]
           g == SumUpTo(n)
           h == SumUpTo(m)
           d == t * (n[t] + 1)
           More(s) == h[s] = g[s] + (IF t \in s THEN d ELSE 0) /\ g[s] \in Nat
<1>0. Joins!Workers \subseteq Nat /\ d \in Nat
  BY ThreadsFinite
<1>1. ASSUME NEW x \in Joins!Workers
      PROVE  Joins!Share(x, m[x]) = Joins!Share(x, n[x]) + (IF x = t THEN d ELSE 0) /\ Joins!Share(x, n[x]) \in Nat
  <2>1. x \in Nat /\ n[x] \in Nat /\ Joins!Share(x, n[x]) \in Nat
    BY <1>0, ShareType
  <2>2. CASE x = t
    <3>1. m[x] = n[x] + 1
      BY <2>2
    <3>2. Joins!Share(x, n[x] + 1) = Joins!Share(x, n[x]) + x * (n[x] + 1)
      BY <2>1, ShareOfOneMore
    <3> QED
      BY <2>1, <2>2, <3>1, <3>2
  <2>3. CASE x # t
    <3>1. m[x] = n[x]
      BY <2>3
    <3> HIDE DEF m
    <3> QED
      BY <2>1, <2>3, <3>1
  <2> QED
    BY <2>2, <2>3
<1>2. /\ g[{}] = 0
      /\ \A s \in SUBSET Joins!Workers : s # {} =>
            LET x == CHOOSE x \in s : TRUE
            IN  g[s] = Joins!Share(x, n[x]) + g[s \ {x}]
  BY SumStep
<1>3. /\ h[{}] = 0
      /\ \A s \in SUBSET Joins!Workers : s # {} =>
            LET x == CHOOSE x \in s : TRUE
            IN  h[s] = Joins!Share(x, m[x]) + h[s \ {x}]
  BY SumStep
<1> HIDE DEF g, h, m, d
<1>4. \A s \in SUBSET Joins!Workers : Cardinality(s) \in Nat
  BY ThreadsFinite
<1>5. \A s \in SUBSET Joins!Workers : More(s)
  <2> DEFINE T == {Cardinality(s) : s \in {u \in SUBSET Joins!Workers : ~More(u)}}
  <2> SUFFICES ASSUME T # {} PROVE FALSE
    OBVIOUS
  <2>1. T \subseteq Nat
    BY <1>4
  <2> HIDE DEF T
  <2>2. PICK k \in T : \A j \in T : k <= j
    BY <2>1, LeastOf
  <2>3. PICK s \in SUBSET Joins!Workers : ~More(s) /\ Cardinality(s) = k
    BY <2>2 DEF T
  <2>4. s # {}
    <3>1. More({})
      BY <1>2, <1>3
    <3> HIDE DEF More
    <3> QED
      BY <2>3, <3>1
  <2> DEFINE x == CHOOSE x \in s : TRUE
  <2>5. /\ x \in s /\ x \in Joins!Workers /\ s \ {x} \in SUBSET Joins!Workers
        /\ Cardinality(s) \in Nat /\ Cardinality(s \ {x}) \in Nat
        /\ Cardinality(s \ {x}) = Cardinality(s) - 1
    BY <2>4, SomeThread
  <2>6. g[s] = Joins!Share(x, n[x]) + g[s \ {x}] /\ h[s] = Joins!Share(x, m[x]) + h[s \ {x}]
    BY <1>2, <1>3, <2>4
  <2> HIDE DEF x
  <2>7. Cardinality(s \ {x}) \notin T
    BY <2>1, <2>2, <2>3, <2>5
  <2>8. More(s \ {x})
    BY <2>5, <2>7 DEF T
  <2>9. t \in s <=> (x = t \/ t \in s \ {x})
    BY <2>5
  <2> QED
    BY <1>0, <1>1, <2>3, <2>5, <2>6, <2>8, <2>9
<1>6. h[Joins!Workers] = g[Joins!Workers] + d
  BY <1>5
<1> QED
  BY <1>6, TotalIsSum DEF g, h, m, d

LEMMA TotalOfNone == ASSUME NEW n, \A t \in Joins!Workers : n[t] = 0 PROVE Total(n) = 0
<1> DEFINE g == SumUpTo(n)
<1>0. Joins!Workers \subseteq Nat /\ Joins!Workers \in SUBSET Joins!Workers
  BY ThreadsFinite
<1>1. \A x \in Joins!Workers : Joins!Share(x, n[x]) = 0
  BY <1>0, ShareOfOneMore
<1>2. /\ g[{}] = 0
      /\ \A s \in SUBSET Joins!Workers : s # {} =>
            LET x == CHOOSE x \in s : TRUE
            IN  g[s] = Joins!Share(x, n[x]) + g[s \ {x}]
  BY SumStep
<1> HIDE DEF g
<1>4. \A s \in SUBSET Joins!Workers : Cardinality(s) \in Nat
  BY ThreadsFinite
<1>5. \A s \in SUBSET Joins!Workers : g[s] = 0
  <2> DEFINE T == {Cardinality(s) : s \in {u \in SUBSET Joins!Workers : g[u] # 0}}
  <2> SUFFICES ASSUME T # {} PROVE FALSE
    OBVIOUS
  <2>1. T \subseteq Nat
    BY <1>4
  <2> HIDE DEF T
  <2>2. PICK k \in T : \A j \in T : k <= j
    BY <2>1, LeastOf
  <2>3. PICK s \in SUBSET Joins!Workers : g[s] # 0 /\ Cardinality(s) = k
    BY <2>2 DEF T
  <2>4. s # {}
    BY <1>2, <2>3
  <2> DEFINE x == CHOOSE x \in s : TRUE
  <2>5. /\ x \in Joins!Workers /\ s \ {x} \in SUBSET Joins!Workers
        /\ Cardinality(s) \in Nat /\ Cardinality(s \ {x}) \in Nat
        /\ Cardinality(s \ {x}) = Cardinality(s) - 1
    BY <2>4, SomeThread
  <2>6. g[s] = Joins!Share(x, n[x]) + g[s \ {x}]
    BY <1>2, <2>4
  <2> HIDE DEF x
  <2>7. Cardinality(s \ {x}) \notin T
    BY <2>1, <2>2, <2>3, <2>5
  <2>8. g[s \ {x}] = 0
    BY <2>5, <2>7 DEF T
  <2> QED
    BY <1>1, <2>3, <2>5, <2>6, <2>8
<1> QED
  BY <1>0, <1>5, TotalIsSum DEF g

-----------------------------------------------------------------------------
(* pr11task4.c.  What the threads have added is in shared_result, and who  *)
(* is in the middle of an addition has read it.                            *)
Full == [t \in Joins!Workers |-> MAX_OPERATIONS]

JoinTypes ==
    /\ stage \in 1 .. 4 /\ operations_count \in [Joins!Workers -> Nat]
    /\ shared_result \in Nat /\ result_mutex \in Joins!Workers \cup {Joins!Free}
    /\ task \in [Joins!Workers -> {"none", "lock", "add", "returned"}]
    /\ local_sum \in [Joins!Workers -> Nat] /\ i \in [Joins!Workers -> Nat]
    /\ created \in 0 .. NUM_THREADS /\ joined \in 0 .. created
    /\ stage_results \in [1 .. 3 -> Nat]

JoinPlaces ==
    \A t \in Joins!Workers :
        /\ task[t] = "add" <=> result_mutex = t
        /\ task[t] = "add" => local_sum[t] = shared_result
        /\ task[t] = "returned" => i[t] = operations_count[t]
        /\ t <= joined => task[t] = "returned"
        /\ t > created => task[t] = "none"

Sums ==
    /\ stage < 4 => shared_result = Total(i)
    /\ stage > 1 => operations_count = Full
    /\ stage > 2 => stage_results[2] = Total(Full)
    /\ stage > 3 => stage_results[3] = Total(Full)

JoinInv == JoinTypes /\ JoinPlaces /\ Sums

LEMMA JoinConstants == NUM_THREADS \in Nat \ {0} /\ MAX_OPERATIONS \in Nat /\ Joins!Workers = 1 .. NUM_THREADS
                       /\ Joins!Free \notin Joins!Workers /\ Full \in [Joins!Workers -> Nat]
BY CountersAssumption DEF Joins!Workers, Joins!Free, Full

LEMMA JoinStays == JoinInv /\ [Joins!JoinNext]_(Joins!joinVars) => JoinInv'
<1> SUFFICES ASSUME JoinInv, [Joins!JoinNext]_(Joins!joinVars) PROVE JoinInv'
  OBVIOUS
<1> USE DEF JoinInv
<1>0. Joins!Free \notin Joins!Workers /\ NUM_THREADS \in Nat /\ \A t \in Joins!Workers : t \in 1 .. NUM_THREADS
  BY JoinConstants
<1>1. CASE Joins!Create
  <2>1. /\ created' = created + 1 /\ created < NUM_THREADS
        /\ task' = [task EXCEPT ![created'] = "lock"]
        /\ UNCHANGED <<stage, operations_count, shared_result, result_mutex, local_sum, i, joined,
                       stage_results>>
    BY <1>1 DEF Joins!Create
  <2>2. created' \in Joins!Workers /\ created \in Nat /\ joined \in 0 .. created
    BY <2>1, JoinConstants DEF JoinTypes
  <2>3. task[created'] = "none"
    BY <2>1, <2>2 DEF JoinPlaces
  <2>4. JoinTypes'
    BY <1>0, <2>1, <2>2 DEF JoinTypes
  <2>5. JoinPlaces'
    BY <1>0, <2>1, <2>2, <2>3 DEF JoinTypes, JoinPlaces
  <2>6. Sums'
    BY <2>1 DEF Sums
  <2> QED
    BY <2>4, <2>5, <2>6
<1>2. ASSUME NEW t \in Joins!Workers, Joins!Operate(t) PROVE JoinInv'
  <2>1. Sums'
    BY <1>2 DEF Joins!Operate, Sums
  <2>2. /\ task[t] = "lock" /\ task' = [task EXCEPT ![t] = "add"]
        /\ result_mutex = Joins!Free /\ result_mutex' = t
        /\ local_sum' = [local_sum EXCEPT ![t] = shared_result]
        /\ UNCHANGED <<stage, operations_count, shared_result, i, created, joined, stage_results>>
    BY <1>2 DEF Joins!Operate, Joins!Busy, Joins!Protected
  <2>3. JoinTypes'
    BY <2>2 DEF JoinTypes
  <2>4. JoinPlaces'
    BY <1>0, <2>2 DEF JoinTypes, JoinPlaces
  <2> QED
    BY <2>1, <2>3, <2>4
<1>3. ASSUME NEW t \in Joins!Workers, Joins!Add(t) PROVE JoinInv'
  <2>1. /\ task[t] = "add" /\ task' = [task EXCEPT ![t] = "lock"]
        /\ shared_result' = local_sum[t] + t * (i[t] + 1)
        /\ i' = [i EXCEPT ![t] = @ + 1] /\ local_sum' = [local_sum EXCEPT ![t] = 0]
        /\ result_mutex' = Joins!Free
        /\ UNCHANGED <<stage, operations_count, created, joined, stage_results>>
    BY <1>3 DEF Joins!Add, Joins!Busy, Joins!base_value
  <2>2. local_sum[t] = shared_result /\ i \in [Joins!Workers -> Nat] /\ t \in Nat
        /\ t * (i[t] + 1) \in Nat
    <3>1. local_sum[t] = shared_result /\ i \in [Joins!Workers -> Nat] /\ t \in Nat /\ i[t] + 1 \in Nat
      BY <1>0, <2>1 DEF JoinPlaces, JoinTypes
    <3>2. \A a, b \in Nat : a * b \in Nat
      OBVIOUS
    <3> QED
      BY <3>1, <3>2
  <2>3. Total(i)' = Total(i')
    OBVIOUS
  <2>4. Total(i') = Total(i) + t * (i[t] + 1)
    BY <2>1, <2>2, TotalOfOneMore
  <2>5. Total(Full)' = Total(Full)
    BY DEF Full
  <2>6. Full' = Full
    BY DEF Full
  <2>7. Sums'
    BY <2>1, <2>2, <2>3, <2>4, <2>5, <2>6 DEF Sums
  <2>8. JoinTypes'
    BY <2>1, <2>2 DEF JoinTypes
  <2>9. JoinPlaces'
    BY <1>0, <2>1, <2>2 DEF JoinTypes, JoinPlaces
  <2> QED
    BY <2>7, <2>8, <2>9
<1>4. ASSUME NEW t \in Joins!Workers, Joins!Return(t) PROVE JoinInv'
  <2>1. Sums'
    BY <1>4 DEF Joins!Return, Sums
  <2>2. JoinTypes'
    BY <1>4 DEF Joins!Return, Joins!Busy, JoinTypes
  <2>3. JoinPlaces'
    BY <1>0, <1>4 DEF Joins!Return, Joins!Busy, JoinTypes, JoinPlaces
  <2> QED
    BY <2>1, <2>2, <2>3
<1>5. CASE Joins!Join
  <2>1. Sums'
    BY <1>5 DEF Joins!Join, Sums
  <2>2. JoinTypes'
    BY <1>5 DEF Joins!Join, JoinTypes
  <2>3. JoinPlaces'
    <3>1. joined + 1 \in Joins!Workers /\ joined \in Nat
      BY <1>0, <1>5, JoinConstants DEF Joins!Join, JoinTypes
    <3> QED
      BY <1>0, <1>5, <3>1 DEF Joins!Join, JoinPlaces
  <2> QED
    BY <2>1, <2>2, <2>3
<1>6. CASE Joins!NextStage
  <2>1. /\ stage < 4 /\ joined = NUM_THREADS
        /\ stage_results' = [stage_results EXCEPT ![stage] = shared_result]
        /\ stage' = stage + 1
        /\ shared_result' = IF stage < 3 THEN 0 ELSE shared_result
        /\ operations_count' = [t \in Joins!Workers |-> MAX_OPERATIONS]
        /\ created' = 0 /\ joined' = 0
        /\ task' = [t \in Joins!Workers |-> "none"] /\ i' = [t \in Joins!Workers |-> 0]
        /\ UNCHANGED <<result_mutex, local_sum>>
    BY <1>6 DEF Joins!NextStage
  <2>2. \A t \in Joins!Workers : task[t] = "returned" /\ i[t] = operations_count[t]
    BY <1>0, <2>1 DEF JoinPlaces
  <2>3. i = operations_count
    BY <2>2 DEF JoinTypes
  <2>4. Total(i') = 0
    BY <2>1, TotalOfNone
  <2>5. Total(i)' = Total(i') /\ Total(Full)' = Total(Full) /\ Full' = Full
    BY DEF Full
  <2>6. operations_count' = Full
    BY <2>1 DEF Full
  <2>7. shared_result = Total(i) /\ (stage > 1 => shared_result = Total(Full))
    BY <2>1, <2>3 DEF Sums
  <2>8. stage \in 1 .. 3 /\ stage_results \in [1 .. 3 -> Nat]
    BY <2>1 DEF JoinTypes
  <2>9. Sums'
    <3>1. stage' < 4 => shared_result' = Total(i)'
      BY <2>1, <2>4, <2>5, <2>8
    <3>2. stage' > 2 => stage_results'[2] = Total(Full)'
      BY <2>1, <2>5, <2>7, <2>8 DEF Sums
    <3>3. stage' > 3 => stage_results'[3] = Total(Full)'
      BY <2>1, <2>5, <2>7, <2>8 DEF Sums
    <3> QED
      BY <2>5, <2>6, <3>1, <3>2, <3>3 DEF Sums
  <2>10. JoinTypes'
    <3>1. shared_result \in Nat /\ stage' \in 1 .. 4 /\ shared_result' \in Nat
      BY <2>1, <2>8 DEF JoinTypes
    <3>2. stage_results' \in [1 .. 3 -> Nat]
      BY <2>1, <2>8, <3>1
    <3>3. operations_count' \in [Joins!Workers -> Nat]
      BY <2>6, JoinConstants
    <3> QED
      BY <1>0, <2>1, <3>1, <3>2, <3>3 DEF JoinTypes
  <2>11. JoinPlaces'
    <3>1. result_mutex \notin Joins!Workers
      BY <2>2 DEF JoinTypes, JoinPlaces
    <3> QED
      BY <1>0, <2>1, <3>1 DEF JoinTypes, JoinPlaces
  <2> QED
    BY <2>9, <2>10, <2>11
<1>7. CASE UNCHANGED Joins!joinVars
  BY <1>7 DEF JoinTypes, JoinPlaces, Sums, Joins!joinVars
<1> QED
  BY <1>1, <1>2, <1>3, <1>4, <1>5, <1>6, <1>7 DEF Joins!JoinNext, Joins!JoinMain, Joins!JoinWork

LEMMA JoinInitially == Joins!JoinInit => JoinInv
<1> SUFFICES ASSUME Joins!JoinInit PROVE JoinInv
  OBVIOUS
<1>1. Total(i) = 0
  BY TotalOfNone DEF Joins!JoinInit
<1> QED
  BY <1>1, JoinConstants DEF Joins!JoinInit, JoinInv, JoinTypes, JoinPlaces, Sums

LEMMA SumsAreTheirs == JoinInv => Joins!SumsAreFull
<1> SUFFICES ASSUME JoinInv PROVE Joins!SumsAreFull
  OBVIOUS
<1>1. (stage < 4 /\ result_mutex = Joins!Free) =>
          shared_result = Joins!MapThenSumSet(LAMBDA t : Joins!Share(t, i[t]), Joins!Workers)
  BY DEF JoinInv, Sums, Total
<1>2. stage = 4 => stage_results[2] = stage_results[3]
  BY DEF JoinInv, Sums
<1>3. joined > 0 => \A t \in 1 .. joined : i[t] = operations_count[t]
  BY JoinConstants DEF JoinInv, JoinTypes, JoinPlaces
<1> QED
  BY <1>1, <1>2, <1>3 DEF Joins!SumsAreFull
-----------------------------------------------------------------------------
(* The mailbox.  What a crash, or the end of the input, may still do is    *)
(* foreseen in three debts: a line that may come out a second time, a line *)
(* whose flag may be lowered before anybody has read it, an "exit" that    *)
(* may come out as a line.  Only a crash or an end of the input makes a    *)
(* debt, and at most one of each kind.                                     *)

Starting == {"start", "clear"}
Idle     == {"start", "failed", "poll"}
Reading  == {"check", "print"}
IsLine(b) == b \in 1 .. MailLines

MailTypes ==
    /\ text \in 0 .. Mail!None /\ buffer \in 0 .. Mail!None /\ flag \in BOOLEAN
    /\ writer \in Starting \cup {"type", "copy", "raise", "wait", "remove", "ended"}
    /\ reader \in Idle \cup Reading \cup {"lower", "ended"}
    /\ typed \in 0 .. MailLines /\ shown \in Seq(0 .. MailLines)
    /\ {writerCrashes, readerCrashes, eofs} \subseteq Nat

(* Where the two are, and what is in their buffers. *)
MailPlaces ==
    /\ writer \in Starting => buffer = Mail!None
    /\ writer \in {"type", "copy", "raise"} => ~flag
    /\ writer \in {"copy", "raise", "wait", "remove", "ended"} => buffer # Mail!None
    /\ writer \in {"raise", "wait", "remove", "ended"} => text = buffer
    /\ writer = "wait" => buffer # Mail!Exit
    /\ writer \in {"remove", "ended"} => buffer = Mail!Exit
    /\ (writer = "wait" /\ ~flag) \/ (writer = "type" /\ buffer # Mail!None) => reader \in Idle
    /\ text = Mail!None => ~flag /\ reader \in Idle /\ shown = << >>
    /\ writer = "copy" /\ IsLine(buffer) =>
          reader \in Idle \/ (buffer \notin Mail!Out /\ text # buffer)
    /\ writer = "raise" => reader \notin Reading \/ text \notin Mail!Out

(* Lines come out in the order in which they were typed. *)
MailOrder ==
    /\ \A j, k \in Mail!Lines : j < k => shown[j] <= shown[k]
    /\ \A b \in Mail!Out :
          b <= typed /\ (IsLine(text) => b <= text) /\ (IsLine(buffer) => b <= buffer)
    /\ IsLine(text) => text <= typed
    /\ IsLine(buffer) => buffer <= typed
    /\ IsLine(text) /\ IsLine(buffer) => text <= buffer

(* The text may come out again, or the next one twice. *)
Again ==
    /\ reader # "ended"
    /\ \/ writer \in Starting /\ (reader \in Reading \/ (reader \in Idle /\ flag))
       \/ writer \in {"type", "copy"} /\ reader \in Reading
       \/ writer = "copy" /\ IsLine(buffer) /\ buffer \in Mail!Out
       \/ writer = "raise" /\ text # Mail!Exit /\ (reader \in Reading \/ text \in Mail!Out)
       \/ writer = "wait" /\ flag /\ reader # "lower" /\ text \in Mail!Out

(* The line being delivered; and the reader may lower its flag unread. *)
Current == writer \in {"copy", "raise", "wait"} /\ buffer # Mail!Exit /\ buffer \notin Mail!Out
Stale   == text = Mail!Exit \/ text \in Mail!Out
Unread ==
    \/ writer \in Starting \cup {"type", "copy"} /\ (reader = "lower" \/ (Stale /\ reader \in Reading))
    \/ writer \in Starting /\ Stale /\ reader \in Idle /\ flag
    \/ writer = "raise" /\ reader = "lower" /\ ~Stale
    \/ writer = "wait" /\ (reader = "lower" \/ ~flag) /\ ~Stale

(* The reader has seen that the text is no "exit", and will see another.   *)
ExitShown ==
    IF text = Mail!Exit THEN reader = "print"
    ELSE \/ writer \in Starting /\ (flag \/ reader \in Reading)
         \/ writer \in {"type", "copy"} /\ reader \in Reading

AgainDue   == IF Again THEN 1 ELSE 0
CurrentDue == IF Current THEN 1 ELSE 0
UnreadDue  == IF Unread THEN 1 ELSE 0
ExitDue    == IF ExitShown THEN 1 ELSE 0

MailDebts ==
    /\ (Cardinality(Mail!Lines) - Cardinality(Mail!Out)) + AgainDue <= writerCrashes + readerCrashes + eofs
    /\ (typed + (UnreadDue - CurrentDue)) - Cardinality(Mail!Out) <= writerCrashes
    /\ (Len(shown) - Cardinality(Mail!Lines)) + ExitDue <= writerCrashes

MailInv == MailTypes /\ MailPlaces /\ MailOrder /\ MailDebts

LEMMA MailConstants == MailLines \in Nat /\ Mail!Exit = 0 /\ Mail!None = MailLines + 1
BY MessagesAssumption DEF Mail!Exit, Mail!None

LEMMA ShownFinite ==
    ASSUME MailTypes
    PROVE  /\ Len(shown) \in Nat /\ DOMAIN shown = 1 .. Len(shown)
           /\ \A k \in 1 .. Len(shown) : shown[k] \in 0 .. MailLines
           /\ Mail!Lines = {k \in 1 .. Len(shown) : shown[k] # Mail!Exit} /\ IsFiniteSet(Mail!Lines)
           /\ Mail!Out \subseteq 1 .. MailLines /\ IsFiniteSet(Mail!Out)
           /\ Cardinality(Mail!Lines) \in Nat /\ Cardinality(Mail!Out) \in Nat
<1> USE MailConstants
<1>1. /\ Len(shown) \in Nat /\ DOMAIN shown = 1 .. Len(shown)
      /\ \A k \in 1 .. Len(shown) : shown[k] \in 0 .. MailLines
  BY LenProperties DEF MailTypes
<1>2. Mail!Lines = {k \in 1 .. Len(shown) : shown[k] # Mail!Exit}
  BY <1>1 DEF Mail!Lines
<1>3. Mail!Out \subseteq 1 .. MailLines
  BY <1>1, <1>2 DEF Mail!Out
<1>4. IsFiniteSet(1 .. Len(shown)) /\ IsFiniteSet(1 .. MailLines)
  BY <1>1, FS_Interval
<1>5. IsFiniteSet(Mail!Lines) /\ IsFiniteSet(Mail!Out)
  BY <1>2, <1>3, <1>4, FS_Subset
<1> QED
  BY <1>1, <1>2, <1>3, <1>5, FS_CardinalityType

(* Who shows a line adds it to those that are out. *)
LEMMA ShowAdds ==
    ASSUME MailTypes, text \in 0 .. MailLines, shown' = Append(shown, text)
    PROVE  /\ shown' \in Seq(0 .. MailLines)
           /\ Len(shown)' = Len(shown) + 1
           /\ \A k \in 1 .. Len(shown) : shown'[k] = shown[k]
           /\ shown'[Len(shown) + 1] = text
           /\ text = Mail!Exit => Mail!Lines' = Mail!Lines /\ Mail!Out' = Mail!Out
           /\ text # Mail!Exit =>
                 /\ Mail!Lines' = Mail!Lines \cup {Len(shown) + 1} /\ Mail!Out' = Mail!Out \cup {text}
                 /\ Cardinality(Mail!Lines)' = Cardinality(Mail!Lines) + 1
                 /\ Cardinality(Mail!Out)' = Cardinality(Mail!Out) + (IF text \in Mail!Out THEN 0 ELSE 1)
<1> DEFINE l == Len(shown)
<1>0. l \in Nat /\ shown \in Seq(0 .. MailLines)
  BY ShownFinite DEF MailTypes
<1>1. /\ shown' \in Seq(0 .. MailLines) /\ Len(shown') = l + 1
      /\ \A k \in 1 .. l : shown'[k] = shown[k]
      /\ shown'[l + 1] = text
  BY <1>0, AppendProperties
<1>2. DOMAIN shown' = 1 .. l + 1 /\ Mail!Lines' = {k \in 1 .. l + 1 : shown'[k] # Mail!Exit}
  BY <1>0, <1>1, LenProperties DEF Mail!Lines
<1>3. Mail!Lines = {k \in 1 .. l : shown[k] # Mail!Exit} /\ IsFiniteSet(Mail!Lines) /\ IsFiniteSet(Mail!Out)
  BY ShownFinite
<1> HIDE DEF l
<1>4. CASE text = Mail!Exit
  <2>1. Mail!Lines' = Mail!Lines
    BY <1>0, <1>1, <1>2, <1>3, <1>4
  <2>2. Mail!Out' = Mail!Out
    <3>1. \A k \in Mail!Lines : shown'[k] = shown[k]
      BY <1>1, <1>3
    <3> QED
      BY <2>1, <3>1 DEF Mail!Out
  <2> QED
    BY <1>1, <1>4, <2>1, <2>2 DEF l
<1>5. CASE text # Mail!Exit
  <2>1. Mail!Lines' = Mail!Lines \cup {l + 1}
    BY <1>0, <1>1, <1>2, <1>3, <1>5
  <2>2. Mail!Out' = Mail!Out \cup {text}
    <3>1. \A k \in Mail!Lines : shown'[k] = shown[k]
      BY <1>1, <1>3
    <3>2. Mail!Out' = {shown'[k] : k \in Mail!Lines'}
      BY DEF Mail!Out
    <3>3. Mail!Out = {shown[k] : k \in Mail!Lines}
      BY DEF Mail!Out
    <3> QED
      BY <1>1, <2>1, <3>1, <3>2, <3>3
  <2>3. l + 1 \notin Mail!Lines
    BY <1>0, <1>3
  <2>4. Cardinality(Mail!Lines') = Cardinality(Mail!Lines) + 1
    BY <1>3, <2>1, <2>3, FS_AddElement
  <2>5. Cardinality(Mail!Out') = Cardinality(Mail!Out) + (IF text \in Mail!Out THEN 0 ELSE 1)
    <3>1. Cardinality(Mail!Out \cup {text}) = IF text \in Mail!Out THEN Cardinality(Mail!Out) ELSE Cardinality(Mail!Out) + 1
      BY <1>3, FS_AddElement
    <3>2. Cardinality(Mail!Out) \in Nat
      BY ShownFinite
    <3> QED
      BY <2>2, <3>1, <3>2
  <2> QED
    BY <1>1, <1>5, <2>1, <2>2, <2>4, <2>5 DEF l
<1> QED
  BY <1>4, <1>5

(* None of the others touches what is shown. *)
NotShow ==
    \/ Mail!WriterStep \/ Mail!Type \/ Mail!TypeNothing \/ Mail!AttachReader \/ Mail!SeeFlag \/ Mail!CheckExit \/ Mail!LowerFlag \/ Mail!RetryReader
    \/ Mail!CrashWriter \/ Mail!CrashReader \/ UNCHANGED Mail!mailVars

LEMMA OthersKeepShown == NotShow => shown' = shown /\ Mail!Lines' = Mail!Lines /\ Mail!Out' = Mail!Out
<1> SUFFICES ASSUME NotShow PROVE shown' = shown
  BY DEF Mail!Lines, Mail!Out
<1> QED
  BY DEF NotShow, Mail!WriterStep, Mail!AttachWriter, Mail!ClearFlag, Mail!Type, Mail!CopyText, Mail!RaiseFlag, Mail!WaitForReader, Mail!Remove,
         Mail!TypeNothing, Mail!AttachReader, Mail!SeeFlag, Mail!CheckExit, Mail!LowerFlag, Mail!RetryReader, Mail!CrashWriter, Mail!CrashReader,
         Mail!W, Mail!R, Mail!mailVars

LEMMA MailTypesStay == MailTypes /\ MailPlaces /\ [Mail!MailNext]_(Mail!mailVars) => MailTypes'
<1> SUFFICES ASSUME MailTypes, MailPlaces, [Mail!MailNext]_(Mail!mailVars) PROVE MailTypes'
  OBVIOUS
<1> USE MailConstants
<1>1. CASE Mail!WriterStep \/ Mail!Type
  <2>1. CASE Mail!AttachWriter \/ Mail!ClearFlag
    BY <2>1 DEF MailTypes, Mail!AttachWriter, Mail!ClearFlag, Mail!W, Starting
  <2>2. CASE Mail!Type
    <3>1. UNCHANGED <<text, flag, reader, shown, writerCrashes, readerCrashes, eofs>> /\ writer' = "copy"
      BY <2>2 DEF Mail!Type, Mail!W, Mail!memory
    <3>2. buffer' \in 0 .. Mail!None /\ typed' \in 0 .. MailLines
      BY <2>2 DEF Mail!Type, MailTypes
    <3> QED
      BY <3>1, <3>2 DEF MailTypes
  <2>3. CASE Mail!CopyText
    BY <2>3 DEF MailTypes, Mail!CopyText, Mail!W
  <2>4. CASE Mail!RaiseFlag
    BY <2>4 DEF MailTypes, Mail!RaiseFlag, Mail!W
  <2>5. CASE Mail!WaitForReader \/ Mail!Remove
    BY <2>5 DEF MailTypes, Mail!WaitForReader, Mail!Remove, Mail!W, Mail!memory
  <2> QED
    BY <1>1, <2>1, <2>2, <2>3, <2>4, <2>5 DEF Mail!WriterStep
<1>2. CASE Mail!TypeNothing
  BY <1>2 DEF MailTypes, Mail!TypeNothing, Mail!W, Mail!memory
<1>3. CASE Mail!AttachReader \/ Mail!SeeFlag \/ Mail!CheckExit \/ Mail!LowerFlag
  BY <1>3 DEF MailTypes, Mail!AttachReader, Mail!SeeFlag, Mail!CheckExit, Mail!LowerFlag, Mail!R, Mail!faults, Idle, Reading
<1>4. CASE Mail!RetryReader \/ Mail!CrashWriter \/ Mail!CrashReader
  <2>1. CASE Mail!RetryReader
    BY <2>1 DEF MailTypes, Mail!RetryReader, Mail!memory, Mail!faults, Idle
  <2>2. CASE Mail!CrashWriter
    BY <2>2 DEF MailTypes, Mail!CrashWriter, Mail!memory, Starting
  <2>3. CASE Mail!CrashReader
    BY <2>3 DEF MailTypes, Mail!CrashReader, Mail!memory, Idle
  <2> QED
    BY <1>4, <2>1, <2>2, <2>3
<1>5. CASE Mail!Show
  <2>1. text \in 0 .. MailLines
    BY <1>5 DEF MailTypes, MailPlaces, Mail!Show, Mail!R, Idle
  <2>2. shown' \in Seq(0 .. MailLines)
    BY <1>5, <2>1, ShowAdds DEF Mail!Show
  <2> QED
    BY <1>5, <2>2 DEF MailTypes, Mail!Show, Mail!R, Mail!faults
<1>6. CASE UNCHANGED Mail!mailVars
  BY <1>6 DEF MailTypes, Mail!mailVars, Mail!memory, Mail!faults
<1> QED
  BY <1>1, <1>2, <1>3, <1>4, <1>5, <1>6 DEF Mail!MailNext, Mail!ReaderStep

LEMMA MailPlacesStay == MailInv /\ [Mail!MailNext]_(Mail!mailVars) => MailPlaces'
<1> SUFFICES ASSUME MailInv, [Mail!MailNext]_(Mail!mailVars) PROVE MailPlaces'
  OBVIOUS
<1> USE MailConstants DEF MailInv, Starting, Idle, Reading, IsLine
<1>0. MailTypes /\ MailPlaces /\ Mail!Out \subseteq 1 .. MailLines /\ \A b \in Mail!Out : b <= typed
  BY ShownFinite DEF MailOrder
<1>1. CASE Mail!AttachWriter \/ Mail!ClearFlag
  <2>1. Mail!Out' = Mail!Out
    BY <1>1, OthersKeepShown DEF NotShow, Mail!WriterStep
  <2>2. CASE Mail!AttachWriter
    BY <1>0, <2>1, <2>2 DEF MailTypes, MailPlaces, Mail!AttachWriter, Mail!W
  <2>3. CASE Mail!ClearFlag
    BY <1>0, <2>1, <2>3 DEF MailTypes, MailPlaces, Mail!ClearFlag, Mail!W
  <2> QED
    BY <1>1, <2>2, <2>3
<1>2. CASE Mail!Type
  <2>1. Mail!Out' = Mail!Out
    BY <1>2, OthersKeepShown DEF NotShow, Mail!WriterStep
  <2>2. IsLine(text) => text <= typed
    BY DEF MailOrder
  <2>3. /\ writer = "type" /\ writer' = "copy" /\ UNCHANGED <<reader, text, flag, shown>>
        /\ buffer' # Mail!None /\ (IsLine(buffer') => buffer' = typed + 1)
    BY <1>0, <1>2 DEF MailTypes, Mail!Type, Mail!W, Mail!memory
  <2>4. buffer' \notin Mail!Out /\ (IsLine(buffer') => text # buffer')
    <3>1. typed \in Nat /\ text \in Nat
      BY DEF MailTypes
    <3>2. CASE IsLine(buffer')
      BY <1>0, <2>2, <2>3, <3>1, <3>2
    <3>3. CASE ~IsLine(buffer')
      BY <1>0, <3>3
    <3> QED
      BY <3>2, <3>3
  <2> QED
    BY <1>0, <2>1, <2>3, <2>4 DEF MailTypes, MailPlaces
<1>3. CASE Mail!TypeNothing
  <2>1. Mail!Out' = Mail!Out
    BY <1>3, OthersKeepShown DEF NotShow
  <2> QED
    BY <1>0, <1>3, <2>1 DEF MailTypes, MailPlaces, Mail!TypeNothing, Mail!W, Mail!memory
<1>4. CASE Mail!CopyText \/ Mail!RaiseFlag \/ Mail!WaitForReader \/ Mail!Remove
  <2>1. Mail!Out' = Mail!Out
    BY <1>4, OthersKeepShown DEF NotShow, Mail!WriterStep
  <2>2. CASE Mail!CopyText
    BY <1>0, <2>1, <2>2 DEF MailTypes, MailPlaces, Mail!CopyText, Mail!W
  <2>3. CASE Mail!RaiseFlag
    BY <1>0, <2>1, <2>3 DEF MailTypes, MailPlaces, Mail!RaiseFlag, Mail!W
  <2>4. CASE Mail!WaitForReader
    BY <1>0, <2>1, <2>4 DEF MailTypes, MailPlaces, Mail!WaitForReader, Mail!W, Mail!memory
  <2>5. CASE Mail!Remove
    BY <1>0, <2>1, <2>5 DEF MailTypes, MailPlaces, Mail!Remove, Mail!W
  <2> QED
    BY <1>4, <2>2, <2>3, <2>4, <2>5
<1>5. CASE Mail!AttachReader \/ Mail!SeeFlag \/ Mail!CheckExit \/ Mail!LowerFlag
  <2>1. Mail!Out' = Mail!Out
    BY <1>5, OthersKeepShown DEF NotShow
  <2>2. CASE Mail!AttachReader
    BY <1>0, <2>1, <2>2 DEF MailTypes, MailPlaces, Mail!AttachReader, Mail!R, Mail!faults
  <2>3. CASE Mail!SeeFlag
    BY <1>0, <2>1, <2>3 DEF MailTypes, MailPlaces, Mail!SeeFlag, Mail!R, Mail!faults
  <2>4. CASE Mail!CheckExit
    BY <1>0, <2>1, <2>4 DEF MailTypes, MailPlaces, Mail!CheckExit, Mail!R, Mail!faults
  <2>5. CASE Mail!LowerFlag
    BY <1>0, <2>1, <2>5 DEF MailTypes, MailPlaces, Mail!LowerFlag, Mail!R, Mail!faults
  <2> QED
    BY <1>5, <2>2, <2>3, <2>4, <2>5
<1>6. CASE Mail!RetryReader \/ Mail!CrashWriter \/ Mail!CrashReader
  <2>1. Mail!Out' = Mail!Out
    BY <1>6, OthersKeepShown DEF NotShow
  <2> QED
    BY <1>0, <1>6, <2>1 DEF MailTypes, MailPlaces, Mail!RetryReader, Mail!CrashWriter, Mail!CrashReader, Mail!memory, Mail!faults
<1>7. CASE Mail!Show
  <2>1. /\ reader = "print" /\ reader' = "lower" /\ text \in 0 .. MailLines
        /\ UNCHANGED <<flag, text, writer, buffer>>
    BY <1>0, <1>7 DEF MailTypes, MailPlaces, Mail!Show, Mail!R
  <2>2. Mail!Out' = Mail!Out \/ Mail!Out' = Mail!Out \cup {text}
    BY <1>0, <1>7, <2>1, ShowAdds DEF Mail!Show
  <2>3. CASE Mail!Out' = Mail!Out
    BY <1>0, <2>1, <2>3 DEF MailTypes, MailPlaces
  <2>4. CASE Mail!Out' = Mail!Out \cup {text}
    BY <1>0, <2>1, <2>4 DEF MailTypes, MailPlaces
  <2> QED
    BY <2>2, <2>3, <2>4
<1>8. CASE UNCHANGED Mail!mailVars
  <2>1. Mail!Out' = Mail!Out
    BY <1>8, OthersKeepShown DEF NotShow
  <2> QED
    BY <1>8, <2>1 DEF MailPlaces, Mail!mailVars, Mail!memory
<1> QED
  BY <1>1, <1>2, <1>3, <1>4, <1>5, <1>6, <1>7, <1>8 DEF Mail!MailNext, Mail!WriterStep, Mail!ReaderStep

LEMMA MailOrderStays == MailInv /\ [Mail!MailNext]_(Mail!mailVars) => MailOrder'
<1> SUFFICES ASSUME MailInv, [Mail!MailNext]_(Mail!mailVars) PROVE MailOrder'
  OBVIOUS
<1> USE MailConstants DEF MailInv, IsLine
<1>0. MailTypes /\ MailPlaces /\ MailOrder /\ Mail!Out \subseteq 1 .. MailLines
  BY ShownFinite
<1>1. CASE Mail!Type
  <2>1. Mail!Out' = Mail!Out /\ Mail!Lines' = Mail!Lines /\ shown' = shown
    BY <1>1, OthersKeepShown DEF NotShow, Mail!WriterStep
  <2>2. /\ text' = text /\ typed \in Nat
        /\ \/ typed' = typed + 1 /\ buffer' = typed'
           \/ typed' = typed /\ ~IsLine(buffer')
    BY <1>0, <1>1 DEF MailTypes, Mail!Type, Mail!W, Mail!memory
  <2> QED
    BY <1>0, <2>1, <2>2 DEF MailOrder
<1>2. CASE Mail!CopyText
  <2>1. Mail!Out' = Mail!Out /\ Mail!Lines' = Mail!Lines /\ shown' = shown
    BY <1>2, OthersKeepShown DEF NotShow, Mail!WriterStep
  <2>2. text' = buffer /\ buffer' = buffer /\ typed' = typed
    BY <1>2 DEF Mail!CopyText, Mail!W
  <2> QED
    BY <1>0, <2>1, <2>2 DEF MailOrder, MailTypes
<1>3. CASE Mail!CrashWriter
  <2>1. Mail!Out' = Mail!Out /\ Mail!Lines' = Mail!Lines /\ shown' = shown
    BY <1>3, OthersKeepShown DEF NotShow
  <2>2. text' = text /\ ~IsLine(buffer') /\ typed' = typed
    BY <1>3 DEF Mail!CrashWriter, Mail!memory
  <2> QED
    BY <1>0, <2>1, <2>2 DEF MailOrder
<1>4. CASE Mail!Show
  <2>1. text \in 0 .. MailLines /\ UNCHANGED <<text, buffer, typed>>
    BY <1>0, <1>4 DEF MailTypes, MailPlaces, Mail!Show, Mail!R, Idle
  <2>2. Len(shown) \in Nat /\ Mail!Lines = {k \in 1 .. Len(shown) : shown[k] # Mail!Exit}
        /\ \A k \in Mail!Lines : shown[k] \in Mail!Out
    BY <1>0, ShownFinite DEF Mail!Out
  <2>3. CASE text = Mail!Exit
    BY <1>0, <1>4, <2>1, <2>2, <2>3, ShowAdds DEF MailOrder, Mail!Show
  <2>4. CASE text # Mail!Exit
    <3>1. /\ Mail!Lines' = Mail!Lines \cup {Len(shown) + 1} /\ Mail!Out' = Mail!Out \cup {text}
          /\ \A k \in 1 .. Len(shown) : shown'[k] = shown[k]
          /\ shown'[Len(shown) + 1] = text
      BY <1>0, <1>4, <2>1, <2>4, ShowAdds DEF Mail!Show
    <3>2. IsLine(text) /\ \A b \in Mail!Out : b <= text
      BY <1>0, <2>1, <2>4 DEF MailOrder
    <3>3. \A j, k \in Mail!Lines' : j < k => shown'[j] <= shown'[k]
      <4> SUFFICES ASSUME NEW j \in Mail!Lines', NEW k \in Mail!Lines', j < k PROVE shown'[j] <= shown'[k]
        OBVIOUS
      <4>1. j \in 1 .. Len(shown) /\ j \in Mail!Lines /\ shown'[j] = shown[j]
        BY <2>2, <3>1
      <4>2. CASE k \in Mail!Lines
        BY <2>2, <3>1, <4>1, <4>2 DEF MailOrder
      <4>3. CASE k = Len(shown) + 1
        BY <2>2, <3>1, <3>2, <4>1, <4>3
      <4> QED
        BY <3>1, <4>2, <4>3
    <3>4. \A b \in Mail!Out' :
             b <= typed' /\ (IsLine(text') => b <= text') /\ (IsLine(buffer') => b <= buffer')
      BY <1>0, <2>1, <3>1, <3>2 DEF MailOrder
    <3> QED
      BY <1>0, <2>1, <3>3, <3>4 DEF MailOrder
  <2> QED
    BY <2>3, <2>4
<1>5. CASE NotShow /\ UNCHANGED <<text, buffer, typed>>
  <2>1. Mail!Out' = Mail!Out /\ Mail!Lines' = Mail!Lines /\ shown' = shown
    BY <1>5, OthersKeepShown
  <2> QED
    BY <1>0, <1>5, <2>1 DEF MailOrder
<1>6. CASE Mail!AttachWriter \/ Mail!ClearFlag \/ Mail!RaiseFlag \/ Mail!WaitForReader \/ Mail!Remove
  <2>1. NotShow /\ UNCHANGED <<text, buffer, typed>>
    BY <1>6 DEF NotShow, Mail!WriterStep, Mail!AttachWriter, Mail!ClearFlag, Mail!RaiseFlag, Mail!WaitForReader, Mail!Remove, Mail!memory
  <2> QED
    BY <1>5, <2>1
<1>7. CASE Mail!TypeNothing \/ Mail!AttachReader \/ Mail!SeeFlag \/ Mail!CheckExit \/ Mail!LowerFlag \/ Mail!RetryReader \/ Mail!CrashReader
  <2>1. NotShow /\ UNCHANGED <<text, buffer, typed>>
    BY <1>7 DEF NotShow, Mail!TypeNothing, Mail!AttachReader, Mail!SeeFlag, Mail!CheckExit, Mail!LowerFlag, Mail!RetryReader,
                Mail!CrashReader, Mail!memory, Mail!R
  <2> QED
    BY <1>5, <2>1
<1>8. CASE UNCHANGED Mail!mailVars
  <2>1. NotShow /\ UNCHANGED <<text, buffer, typed>>
    BY <1>8 DEF NotShow, Mail!mailVars, Mail!memory
  <2> QED
    BY <1>5, <2>1
<1> QED
  BY <1>1, <1>2, <1>3, <1>4, <1>6, <1>7, <1>8 DEF Mail!MailNext, Mail!WriterStep, Mail!ReaderStep

(* The debts after a step that shows nothing. *)
LEMMA CoveredStill ==
    ASSUME NEW x \in Int, NEW a \in {0, 1}, NEW b \in {0, 1}, NEW s \in Int, NEW t \in Int,
           x + a <= s, s <= t, b <= a \/ s < t
    PROVE  x + b <= t
OBVIOUS

LEMMA CoveredLess ==
    ASSUME NEW y \in Int, NEW z \in Int, NEW c \in Int, NEW s \in Int, NEW t \in Int,
           y - c <= s, z <= y + (t - s)
    PROVE  z - c <= t
OBVIOUS

LEMMA DebtNumbers ==
    /\ AgainDue \in {0, 1} /\ UnreadDue \in {0, 1} /\ CurrentDue \in {0, 1} /\ ExitDue \in {0, 1}
    /\ (AgainDue = 1 <=> Again) /\ (ExitDue = 1 <=> ExitShown)
    /\ MailTypes =>
          /\ writerCrashes + readerCrashes + eofs \in Int /\ writerCrashes \in Int
          /\ Cardinality(Mail!Out) \in Int
          /\ Cardinality(Mail!Lines) - Cardinality(Mail!Out) \in Int
          /\ Len(shown) - Cardinality(Mail!Lines) \in Int
          /\ typed + (UnreadDue - CurrentDue) \in Int
<1>1. /\ AgainDue \in {0, 1} /\ UnreadDue \in {0, 1} /\ CurrentDue \in {0, 1} /\ ExitDue \in {0, 1}
      /\ (AgainDue = 1 <=> Again) /\ (ExitDue = 1 <=> ExitShown)
  BY DEF AgainDue, UnreadDue, CurrentDue, ExitDue
<1>2. ASSUME MailTypes
      PROVE  /\ typed \in Int /\ writerCrashes \in Int /\ readerCrashes \in Int /\ eofs \in Int
             /\ Cardinality(Mail!Lines) \in Int /\ Cardinality(Mail!Out) \in Int /\ Len(shown) \in Int
  BY <1>2, ShownFinite, MailConstants DEF MailTypes
<1>3. UnreadDue - CurrentDue \in Int
  BY <1>1
<1> QED
  BY <1>1, <1>2, <1>3

LEMMA DebtsPassOn ==
    ASSUME MailInv, MailTypes', shown' = shown, Mail!Lines' = Mail!Lines, Mail!Out' = Mail!Out,
           Again' => \/ Again
                     \/ writerCrashes + readerCrashes + eofs < writerCrashes' + readerCrashes' + eofs',
           writerCrashes + readerCrashes + eofs <= writerCrashes' + readerCrashes' + eofs',
           ExitShown' => ExitShown \/ writerCrashes < writerCrashes',
           writerCrashes <= writerCrashes',
           typed' + (UnreadDue' - CurrentDue')
              <= (typed + (UnreadDue - CurrentDue)) + (writerCrashes' - writerCrashes)
    PROVE  MailDebts'
<1> DEFINE l == Len(shown)
           c == Cardinality(Mail!Lines)
           o == Cardinality(Mail!Out)
           y == typed + (UnreadDue - CurrentDue)
           s == writerCrashes + readerCrashes + eofs
<1>1. c' = c /\ o' = o /\ l' = l
  OBVIOUS
<1>2. /\ AgainDue \in {0, 1} /\ AgainDue' \in {0, 1} /\ ExitDue \in {0, 1} /\ ExitDue' \in {0, 1}
      /\ s \in Int /\ s' \in Int /\ writerCrashes \in Int /\ writerCrashes' \in Int
      /\ o \in Int /\ c - o \in Int /\ l - c \in Int /\ y \in Int /\ y' \in Int
  <2>1. /\ AgainDue \in {0, 1} /\ ExitDue \in {0, 1}
        /\ s \in Int /\ writerCrashes \in Int
        /\ o \in Int /\ c - o \in Int /\ l - c \in Int /\ y \in Int
    BY DebtNumbers DEF MailInv
  <2>2. AgainDue' \in {0, 1} /\ ExitDue' \in {0, 1}
    BY DEF AgainDue, ExitDue
  <2>3. UnreadDue' \in {0, 1} /\ CurrentDue' \in {0, 1}
    BY DEF UnreadDue, CurrentDue
  <2>4. typed' \in Int /\ writerCrashes' \in Int /\ readerCrashes' \in Int /\ eofs' \in Int
    BY MailConstants DEF MailTypes
  <2>5. s' \in Int
    BY <2>4
  <2>6. y' \in Int
    <3>1. UnreadDue' - CurrentDue' \in Int
      BY <2>3
    <3> QED
      BY <2>4, <3>1
  <2> HIDE DEF l, c, o, y, s
  <2> QED
    BY <2>1, <2>2, <2>4, <2>5, <2>6
<1>3. AgainDue' <= AgainDue \/ s < s'
  BY DEF AgainDue
<1>4. ExitDue' <= ExitDue \/ writerCrashes < writerCrashes'
  BY DEF ExitDue
<1>5. /\ (c - o) + AgainDue <= s /\ y - o <= writerCrashes /\ (l - c) + ExitDue <= writerCrashes
      /\ s <= s' /\ writerCrashes <= writerCrashes' /\ y' <= y + (writerCrashes' - writerCrashes)
  BY DEF MailInv, MailDebts
<1>6. MailDebts' <=> /\ (c' - o') + AgainDue' <= s' /\ y' - o' <= writerCrashes'
                     /\ (l' - c') + ExitDue' <= writerCrashes'
  BY DEF MailDebts
<1> HIDE DEF l, c, o, y, s
<1>7. (c - o) + AgainDue' <= s'
  BY <1>2, <1>3, <1>5, CoveredStill
<1>8. y' - o <= writerCrashes'
  BY <1>2, <1>5, CoveredLess
<1>9. (l - c) + ExitDue' <= writerCrashes'
  BY <1>2, <1>4, <1>5, CoveredStill
<1> QED
  BY <1>1, <1>6, <1>7, <1>8, <1>9

(* The debts after one that shows the text. *)
LEMMA ShownStill ==
    ASSUME NEW x \in Int, NEW a \in {0, 1}, NEW b \in {0, 1}, NEW s \in Int, x + a <= s, b <= a
    PROVE  x + b <= s
OBVIOUS

LEMMA ShownAgain ==
    ASSUME NEW c \in Int, NEW o \in Int, NEW s \in Int, (c - o) + 1 <= s
    PROVE  ((c + 1) - (o + 0)) + 0 <= s
OBVIOUS

LEMMA ShownFirst == ASSUME NEW c \in Int, NEW o \in Int PROVE (c + 1) - (o + 1) = c - o
OBVIOUS

LEMMA ShownLess ==
    ASSUME NEW y \in Int, NEW z \in Int, NEW o \in Int, NEW k \in Int, NEW s \in Int,
           y - o <= s, z <= y + k
    PROVE  z - (o + k) <= s
OBVIOUS

LEMMA ShownOther ==
    ASSUME NEW l \in Int, NEW c \in Int, NEW a \in {0, 1}, NEW b \in {0, 1}, NEW s \in Int,
           (l - c) + a <= s
    PROVE  /\ b <= a => ((l + 1) - (c + 1)) + b <= s
           /\ a = 1 /\ b = 0 => ((l + 1) - c) + b <= s
OBVIOUS

LEMMA MailDebtsStay == MailInv /\ MailTypes' /\ MailPlaces' /\ [Mail!MailNext]_(Mail!mailVars) => MailDebts'
<1> SUFFICES ASSUME MailInv, MailTypes', MailPlaces', [Mail!MailNext]_(Mail!mailVars) PROVE MailDebts'
  OBVIOUS
<1> USE MailConstants DEF Starting, Idle, Reading, IsLine
<1>0. /\ MailTypes /\ MailPlaces /\ Mail!Out \subseteq 1 .. MailLines /\ \A b \in Mail!Out : b <= typed
      /\ typed \in Nat /\ writerCrashes \in Nat /\ readerCrashes \in Nat /\ eofs \in Nat
  BY ShownFinite DEF MailInv, MailOrder, MailTypes
<1>1. CASE Mail!AttachWriter
  <2>1. Mail!Out' = Mail!Out /\ Mail!Lines' = Mail!Lines /\ shown' = shown
    BY <1>1, OthersKeepShown DEF NotShow, Mail!WriterStep
  <2>2. Again' => Again
    BY <1>0, <1>1, <2>1 DEF MailTypes, MailPlaces, Again, Mail!AttachWriter, Mail!W
  <2>3. ExitShown' => ExitShown
    BY <1>0, <1>1, <2>1 DEF MailTypes, MailPlaces, ExitShown, Mail!AttachWriter, Mail!W
  <2>4. UNCHANGED <<writerCrashes, readerCrashes, eofs>>
    BY <1>1 DEF Mail!AttachWriter, Mail!W
  <2>5. typed' + (UnreadDue' - CurrentDue')
           <= (typed + (UnreadDue - CurrentDue)) + (writerCrashes' - writerCrashes)
    BY <1>0, <1>1, <2>1 DEF MailTypes, MailPlaces, CurrentDue, UnreadDue, Unread, Current, Stale, Mail!AttachWriter, Mail!W
  <2> QED
    BY <1>0, <2>1, <2>2, <2>3, <2>4, <2>5, DebtsPassOn
<1>2. CASE Mail!ClearFlag
  <2>1. Mail!Out' = Mail!Out /\ Mail!Lines' = Mail!Lines /\ shown' = shown
    BY <1>2, OthersKeepShown DEF NotShow, Mail!WriterStep
  <2>2. Again' => Again
    BY <1>0, <1>2, <2>1 DEF MailTypes, MailPlaces, Again, Mail!ClearFlag, Mail!W
  <2>3. ExitShown' => ExitShown
    BY <1>0, <1>2, <2>1 DEF MailTypes, MailPlaces, ExitShown, Mail!ClearFlag, Mail!W
  <2>4. UNCHANGED <<writerCrashes, readerCrashes, eofs>>
    BY <1>2 DEF Mail!ClearFlag, Mail!W
  <2>5. typed' + (UnreadDue' - CurrentDue')
           <= (typed + (UnreadDue - CurrentDue)) + (writerCrashes' - writerCrashes)
    BY <1>0, <1>2, <2>1 DEF MailTypes, MailPlaces, CurrentDue, UnreadDue, Unread, Current, Stale, Mail!ClearFlag, Mail!W
  <2> QED
    BY <1>0, <2>1, <2>2, <2>3, <2>4, <2>5, DebtsPassOn
<1>3. CASE Mail!Type
  <2>1. Mail!Out' = Mail!Out /\ Mail!Lines' = Mail!Lines /\ shown' = shown
    BY <1>3, OthersKeepShown DEF NotShow, Mail!WriterStep
  <2>2. Again' => Again
    BY <1>0, <1>3, <2>1 DEF MailTypes, MailPlaces, Again, Mail!Type, Mail!W, Mail!memory
  <2>3. ExitShown' => ExitShown
    BY <1>0, <1>3, <2>1 DEF MailTypes, MailPlaces, ExitShown, Mail!Type, Mail!W, Mail!memory
  <2>4. UNCHANGED <<writerCrashes, readerCrashes, eofs>>
    BY <1>3 DEF Mail!Type, Mail!W, Mail!memory
  <2>5. typed' + (UnreadDue' - CurrentDue')
           <= (typed + (UnreadDue - CurrentDue)) + (writerCrashes' - writerCrashes)
    <3>1. writer = "type" /\ writer' = "copy" /\ UNCHANGED <<text, flag, reader, writerCrashes>>
      BY <1>3 DEF Mail!Type, Mail!W, Mail!memory
    <3>2. UnreadDue' = UnreadDue /\ CurrentDue = 0 /\ UnreadDue \in {0, 1} /\ writerCrashes' - writerCrashes = 0
      BY <1>0, <2>1, <3>1 DEF UnreadDue, CurrentDue, Unread, Current, Stale
    <3>3. \/ typed' = typed + 1 /\ CurrentDue' = 1
          \/ typed' = typed /\ CurrentDue' = 0
      <4>1. CASE typed' = typed + 1 /\ buffer' = typed'
        <5>1. buffer' \notin Mail!Out /\ buffer' # Mail!Exit
          BY <1>0, <4>1
        <5> QED
          BY <2>1, <3>1, <4>1, <5>1 DEF CurrentDue, Current
      <4>2. CASE typed' = typed /\ buffer' = Mail!Exit
        BY <4>2 DEF CurrentDue, Current
      <4> QED
        BY <1>3, <4>1, <4>2 DEF Mail!Type
    <3>4. CASE typed' = typed + 1 /\ CurrentDue' = 1
      BY <1>0, <3>2, <3>4
    <3>5. CASE typed' = typed /\ CurrentDue' = 0
      BY <1>0, <3>2, <3>5
    <3> QED
      BY <3>3, <3>4, <3>5
  <2> QED
    BY <1>0, <2>1, <2>2, <2>3, <2>4, <2>5, DebtsPassOn
<1>4. CASE Mail!TypeNothing
  <2>1. Mail!Out' = Mail!Out /\ Mail!Lines' = Mail!Lines /\ shown' = shown
    BY <1>4, OthersKeepShown DEF NotShow
  <2>2. Again' => Again \/ eofs' = eofs + 1
    BY <1>0, <1>4, <2>1 DEF MailTypes, MailPlaces, Again, Mail!TypeNothing, Mail!W, Mail!memory
  <2>3. ExitShown' => ExitShown
    BY <1>0, <1>4, <2>1 DEF MailTypes, MailPlaces, ExitShown, Mail!TypeNothing, Mail!W, Mail!memory
  <2>4. UNCHANGED <<writerCrashes, readerCrashes>> /\ eofs' = eofs + 1
    BY <1>4 DEF Mail!TypeNothing, Mail!W, Mail!memory
  <2>5. typed' + (UnreadDue' - CurrentDue')
           <= (typed + (UnreadDue - CurrentDue)) + (writerCrashes' - writerCrashes)
    BY <1>0, <1>4, <2>1 DEF MailTypes, MailPlaces, CurrentDue, UnreadDue, Unread, Current, Stale, Mail!TypeNothing, Mail!W, Mail!memory
  <2> QED
    BY <1>0, <2>1, <2>2, <2>3, <2>4, <2>5, DebtsPassOn
<1>5. CASE Mail!CopyText
  <2>1. Mail!Out' = Mail!Out /\ Mail!Lines' = Mail!Lines /\ shown' = shown
    BY <1>5, OthersKeepShown DEF NotShow, Mail!WriterStep
  <2>2. Again' => Again
    BY <1>0, <1>5, <2>1 DEF MailTypes, MailPlaces, Again, Mail!CopyText, Mail!W
  <2>3. ExitShown' => ExitShown
    BY <1>0, <1>5, <2>1 DEF MailTypes, MailPlaces, ExitShown, Mail!CopyText, Mail!W
  <2>4. UNCHANGED <<writerCrashes, readerCrashes, eofs>>
    BY <1>5 DEF Mail!CopyText, Mail!W
  <2>5. typed' + (UnreadDue' - CurrentDue')
           <= (typed + (UnreadDue - CurrentDue)) + (writerCrashes' - writerCrashes)
    BY <1>0, <1>5, <2>1 DEF MailTypes, MailPlaces, CurrentDue, UnreadDue, Unread, Current, Stale, Mail!CopyText, Mail!W
  <2> QED
    BY <1>0, <2>1, <2>2, <2>3, <2>4, <2>5, DebtsPassOn
<1>6. CASE Mail!RaiseFlag
  <2>1. Mail!Out' = Mail!Out /\ Mail!Lines' = Mail!Lines /\ shown' = shown
    BY <1>6, OthersKeepShown DEF NotShow, Mail!WriterStep
  <2>2. Again' => Again
    BY <1>0, <1>6, <2>1 DEF MailTypes, MailPlaces, Again, Mail!RaiseFlag, Mail!W
  <2>3. ExitShown' => ExitShown
    BY <1>0, <1>6, <2>1 DEF MailTypes, MailPlaces, ExitShown, Mail!RaiseFlag, Mail!W
  <2>4. UNCHANGED <<writerCrashes, readerCrashes, eofs>>
    BY <1>6 DEF Mail!RaiseFlag, Mail!W
  <2>5. typed' + (UnreadDue' - CurrentDue')
           <= (typed + (UnreadDue - CurrentDue)) + (writerCrashes' - writerCrashes)
    BY <1>0, <1>6, <2>1 DEF MailTypes, MailPlaces, CurrentDue, UnreadDue, Unread, Current, Stale, Mail!RaiseFlag, Mail!W
  <2> QED
    BY <1>0, <2>1, <2>2, <2>3, <2>4, <2>5, DebtsPassOn
<1>7. CASE Mail!WaitForReader
  <2>1. Mail!Out' = Mail!Out /\ Mail!Lines' = Mail!Lines /\ shown' = shown
    BY <1>7, OthersKeepShown DEF NotShow, Mail!WriterStep
  <2>2. Again' => Again
    BY <1>0, <1>7, <2>1 DEF MailTypes, MailPlaces, Again, Mail!WaitForReader, Mail!W, Mail!memory
  <2>3. ExitShown' => ExitShown
    BY <1>0, <1>7, <2>1 DEF MailTypes, MailPlaces, ExitShown, Mail!WaitForReader, Mail!W, Mail!memory
  <2>4. UNCHANGED <<writerCrashes, readerCrashes, eofs>>
    BY <1>7 DEF Mail!WaitForReader, Mail!W, Mail!memory
  <2>5. typed' + (UnreadDue' - CurrentDue')
           <= (typed + (UnreadDue - CurrentDue)) + (writerCrashes' - writerCrashes)
    BY <1>0, <1>7, <2>1 DEF MailTypes, MailPlaces, CurrentDue, UnreadDue, Unread, Current, Stale, Mail!WaitForReader, Mail!W, Mail!memory
  <2> QED
    BY <1>0, <2>1, <2>2, <2>3, <2>4, <2>5, DebtsPassOn
<1>8. CASE Mail!Remove
  <2>1. Mail!Out' = Mail!Out /\ Mail!Lines' = Mail!Lines /\ shown' = shown
    BY <1>8, OthersKeepShown DEF NotShow, Mail!WriterStep
  <2>2. Again' => Again
    BY <1>0, <1>8, <2>1 DEF MailTypes, MailPlaces, Again, Mail!Remove, Mail!W
  <2>3. ExitShown' => ExitShown
    BY <1>0, <1>8, <2>1 DEF MailTypes, MailPlaces, ExitShown, Mail!Remove, Mail!W
  <2>4. UNCHANGED <<writerCrashes, readerCrashes, eofs>>
    BY <1>8 DEF Mail!Remove, Mail!W
  <2>5. typed' + (UnreadDue' - CurrentDue')
           <= (typed + (UnreadDue - CurrentDue)) + (writerCrashes' - writerCrashes)
    BY <1>0, <1>8, <2>1 DEF MailTypes, MailPlaces, CurrentDue, UnreadDue, Unread, Current, Stale, Mail!Remove, Mail!W
  <2> QED
    BY <1>0, <2>1, <2>2, <2>3, <2>4, <2>5, DebtsPassOn
<1>9. CASE Mail!AttachReader
  <2>1. Mail!Out' = Mail!Out /\ Mail!Lines' = Mail!Lines /\ shown' = shown
    BY <1>9, OthersKeepShown DEF NotShow
  <2>2. Again' => Again
    BY <1>0, <1>9, <2>1 DEF MailTypes, MailPlaces, Again, Mail!AttachReader, Mail!R, Mail!faults
  <2>3. ExitShown' => ExitShown
    BY <1>0, <1>9, <2>1 DEF MailTypes, MailPlaces, ExitShown, Mail!AttachReader, Mail!R, Mail!faults
  <2>4. UNCHANGED <<writerCrashes, readerCrashes, eofs>>
    BY <1>9 DEF Mail!AttachReader, Mail!R, Mail!faults
  <2>5. typed' + (UnreadDue' - CurrentDue')
           <= (typed + (UnreadDue - CurrentDue)) + (writerCrashes' - writerCrashes)
    BY <1>0, <1>9, <2>1 DEF MailTypes, MailPlaces, CurrentDue, UnreadDue, Unread, Current, Stale, Mail!AttachReader, Mail!R, Mail!faults
  <2> QED
    BY <1>0, <2>1, <2>2, <2>3, <2>4, <2>5, DebtsPassOn
<1>10. CASE Mail!SeeFlag
  <2>1. Mail!Out' = Mail!Out /\ Mail!Lines' = Mail!Lines /\ shown' = shown
    BY <1>10, OthersKeepShown DEF NotShow
  <2>2. Again' => Again
    BY <1>0, <1>10, <2>1 DEF MailTypes, MailPlaces, Again, Mail!SeeFlag, Mail!R, Mail!faults
  <2>3. ExitShown' => ExitShown
    BY <1>0, <1>10, <2>1 DEF MailTypes, MailPlaces, ExitShown, Mail!SeeFlag, Mail!R, Mail!faults
  <2>4. UNCHANGED <<writerCrashes, readerCrashes, eofs>>
    BY <1>10 DEF Mail!SeeFlag, Mail!R, Mail!faults
  <2>5. typed' + (UnreadDue' - CurrentDue')
           <= (typed + (UnreadDue - CurrentDue)) + (writerCrashes' - writerCrashes)
    BY <1>0, <1>10, <2>1 DEF MailTypes, MailPlaces, CurrentDue, UnreadDue, Unread, Current, Stale, Mail!SeeFlag, Mail!R, Mail!faults
  <2> QED
    BY <1>0, <2>1, <2>2, <2>3, <2>4, <2>5, DebtsPassOn
<1>11. CASE Mail!CheckExit
  <2>1. Mail!Out' = Mail!Out /\ Mail!Lines' = Mail!Lines /\ shown' = shown
    BY <1>11, OthersKeepShown DEF NotShow
  <2>2. Again' => Again
    BY <1>0, <1>11, <2>1 DEF MailTypes, MailPlaces, Again, Mail!CheckExit, Mail!R, Mail!faults
  <2>3. ExitShown' => ExitShown
    BY <1>0, <1>11, <2>1 DEF MailTypes, MailPlaces, ExitShown, Mail!CheckExit, Mail!R, Mail!faults
  <2>4. UNCHANGED <<writerCrashes, readerCrashes, eofs>>
    BY <1>11 DEF Mail!CheckExit, Mail!R, Mail!faults
  <2>5. typed' + (UnreadDue' - CurrentDue')
           <= (typed + (UnreadDue - CurrentDue)) + (writerCrashes' - writerCrashes)
    BY <1>0, <1>11, <2>1 DEF MailTypes, MailPlaces, CurrentDue, UnreadDue, Unread, Current, Stale, Mail!CheckExit, Mail!R, Mail!faults
  <2> QED
    BY <1>0, <2>1, <2>2, <2>3, <2>4, <2>5, DebtsPassOn
<1>12. CASE Mail!LowerFlag
  <2>1. Mail!Out' = Mail!Out /\ Mail!Lines' = Mail!Lines /\ shown' = shown
    BY <1>12, OthersKeepShown DEF NotShow
  <2>2. Again' => Again
    BY <1>0, <1>12, <2>1 DEF MailTypes, MailPlaces, Again, Mail!LowerFlag, Mail!R, Mail!faults
  <2>3. ExitShown' => ExitShown
    BY <1>0, <1>12, <2>1 DEF MailTypes, MailPlaces, ExitShown, Mail!LowerFlag, Mail!R, Mail!faults
  <2>4. UNCHANGED <<writerCrashes, readerCrashes, eofs>>
    BY <1>12 DEF Mail!LowerFlag, Mail!R, Mail!faults
  <2>5. typed' + (UnreadDue' - CurrentDue')
           <= (typed + (UnreadDue - CurrentDue)) + (writerCrashes' - writerCrashes)
    BY <1>0, <1>12, <2>1 DEF MailTypes, MailPlaces, CurrentDue, UnreadDue, Unread, Current, Stale, Mail!LowerFlag, Mail!R, Mail!faults
  <2> QED
    BY <1>0, <2>1, <2>2, <2>3, <2>4, <2>5, DebtsPassOn
<1>13. CASE Mail!RetryReader
  <2>1. Mail!Out' = Mail!Out /\ Mail!Lines' = Mail!Lines /\ shown' = shown
    BY <1>13, OthersKeepShown DEF NotShow
  <2>2. Again' => Again
    BY <1>0, <1>13, <2>1 DEF MailTypes, MailPlaces, Again, Mail!RetryReader, Mail!memory, Mail!faults
  <2>3. ExitShown' => ExitShown
    BY <1>0, <1>13, <2>1 DEF MailTypes, MailPlaces, ExitShown, Mail!RetryReader, Mail!memory, Mail!faults
  <2>4. UNCHANGED <<writerCrashes, readerCrashes, eofs>>
    BY <1>13 DEF Mail!RetryReader, Mail!memory, Mail!faults
  <2>5. typed' + (UnreadDue' - CurrentDue')
           <= (typed + (UnreadDue - CurrentDue)) + (writerCrashes' - writerCrashes)
    BY <1>0, <1>13, <2>1 DEF MailTypes, MailPlaces, CurrentDue, UnreadDue, Unread, Current, Stale, Mail!RetryReader, Mail!memory, Mail!faults
  <2> QED
    BY <1>0, <2>1, <2>2, <2>3, <2>4, <2>5, DebtsPassOn
<1>14. CASE Mail!CrashWriter
  <2>1. Mail!Out' = Mail!Out /\ Mail!Lines' = Mail!Lines /\ shown' = shown
    BY <1>14, OthersKeepShown DEF NotShow
  <2>2. Again' => Again \/ writerCrashes' = writerCrashes + 1
    BY <1>0, <1>14, <2>1 DEF MailTypes, MailPlaces, Again, Mail!CrashWriter, Mail!memory
  <2>3. ExitShown' => ExitShown \/ writerCrashes' = writerCrashes + 1
    BY <1>0, <1>14, <2>1 DEF MailTypes, MailPlaces, ExitShown, Mail!CrashWriter, Mail!memory
  <2>4. writerCrashes' = writerCrashes + 1 /\ UNCHANGED <<readerCrashes, eofs>>
    BY <1>14 DEF Mail!CrashWriter, Mail!memory
  <2>5. typed' + (UnreadDue' - CurrentDue')
           <= (typed + (UnreadDue - CurrentDue)) + (writerCrashes' - writerCrashes)
    BY <1>0, <1>14, <2>1 DEF MailTypes, MailPlaces, CurrentDue, UnreadDue, Unread, Current, Stale, Mail!CrashWriter, Mail!memory
  <2> QED
    BY <1>0, <2>1, <2>2, <2>3, <2>4, <2>5, DebtsPassOn
<1>15. CASE Mail!CrashReader
  <2>1. Mail!Out' = Mail!Out /\ Mail!Lines' = Mail!Lines /\ shown' = shown
    BY <1>15, OthersKeepShown DEF NotShow
  <2>2. Again' => Again \/ readerCrashes' = readerCrashes + 1
    BY <1>0, <1>15, <2>1 DEF MailTypes, MailPlaces, Again, Mail!CrashReader, Mail!memory
  <2>3. ExitShown' => ExitShown
    BY <1>0, <1>15, <2>1 DEF MailTypes, MailPlaces, ExitShown, Mail!CrashReader, Mail!memory
  <2>4. readerCrashes' = readerCrashes + 1 /\ UNCHANGED <<writerCrashes, eofs>>
    BY <1>15 DEF Mail!CrashReader, Mail!memory
  <2>5. typed' + (UnreadDue' - CurrentDue')
           <= (typed + (UnreadDue - CurrentDue)) + (writerCrashes' - writerCrashes)
    BY <1>0, <1>15, <2>1 DEF MailTypes, MailPlaces, CurrentDue, UnreadDue, Unread, Current, Stale, Mail!CrashReader, Mail!memory
  <2> QED
    BY <1>0, <2>1, <2>2, <2>3, <2>4, <2>5, DebtsPassOn
<1>16. CASE UNCHANGED Mail!mailVars
  <2>1. Mail!Out' = Mail!Out /\ Mail!Lines' = Mail!Lines /\ shown' = shown
    BY <1>16, OthersKeepShown DEF NotShow
  <2>2. AgainDue' = AgainDue /\ CurrentDue' = CurrentDue /\ UnreadDue' = UnreadDue /\ ExitDue' = ExitDue
    BY <1>16, <2>1 DEF Mail!mailVars, Mail!memory, Mail!faults, Again, Current, Unread, Stale, ExitShown,
                       AgainDue, CurrentDue, UnreadDue, ExitDue
  <2> QED
    BY <1>16, <2>1, <2>2 DEF MailInv, MailDebts, Mail!mailVars, Mail!faults
<1>17. CASE Mail!Show
  <2>1. /\ reader = "print" /\ reader' = "lower" /\ text \in 0 .. MailLines
        /\ UNCHANGED <<text, flag, writer, buffer, typed, writerCrashes, readerCrashes, eofs>>
    BY <1>0, <1>17 DEF MailTypes, MailPlaces, Mail!Show, Mail!R, Mail!faults
  <2> DEFINE l == Len(shown)
             c == Cardinality(Mail!Lines)
             o == Cardinality(Mail!Out)
             y == typed + (UnreadDue - CurrentDue)
             s == writerCrashes + readerCrashes + eofs
             k == IF text \in Mail!Out THEN 0 ELSE 1
  <2>2. /\ AgainDue \in {0, 1} /\ AgainDue' \in {0, 1} /\ ExitDue \in {0, 1} /\ ExitDue' \in {0, 1}
        /\ s \in Int /\ writerCrashes \in Int /\ y \in Int /\ y' \in Int /\ k \in {0, 1}
        /\ l \in Int /\ c \in Int /\ o \in Int
    <3>1. /\ AgainDue \in {0, 1} /\ ExitDue \in {0, 1} /\ s \in Int /\ writerCrashes \in Int /\ y \in Int
      BY <1>0, DebtNumbers
    <3>2. AgainDue' \in {0, 1} /\ ExitDue' \in {0, 1}
      BY DEF AgainDue, ExitDue
    <3>3. UnreadDue' \in {0, 1} /\ CurrentDue' \in {0, 1} /\ typed' \in Int
      BY <1>0, <2>1 DEF UnreadDue, CurrentDue
    <3>4. l \in Int /\ c \in Int /\ o \in Int
      BY <1>0, ShownFinite
    <3> QED
      BY <3>1, <3>2, <3>3, <3>4
  <2>3. s' = s /\ writerCrashes' = writerCrashes /\ Len(shown)' = l + 1
    BY <1>0, <1>17, <2>1, ShowAdds DEF Mail!Show
  <2>4. (c - o) + AgainDue <= s /\ y - o <= writerCrashes /\ (l - c) + ExitDue <= writerCrashes
    BY DEF MailInv, MailDebts
  <2>5. MailDebts' <=> /\ (Cardinality(Mail!Lines)' - Cardinality(Mail!Out)') + AgainDue' <= s'
                       /\ y' - Cardinality(Mail!Out)' <= writerCrashes'
                       /\ (Len(shown)' - Cardinality(Mail!Lines)') + ExitDue' <= writerCrashes'
    BY DEF MailDebts
  <2>6. CASE text = Mail!Exit
    <3>1. Mail!Out' = Mail!Out /\ Mail!Lines' = Mail!Lines
      BY <1>0, <1>17, <2>1, <2>6, ShowAdds DEF Mail!Show
    <3>2. Cardinality(Mail!Lines)' = c /\ Cardinality(Mail!Out)' = o
      BY <3>1
    <3>3. Again' => Again
      BY <1>0, <2>1, <2>6, <3>1 DEF MailPlaces, MailTypes, Again
    <3>4. AgainDue' <= AgainDue
      BY <3>3 DEF AgainDue
    <3>5. ExitDue = 1 /\ ExitDue' = 0
      BY <2>1, <2>6 DEF ExitShown, ExitDue
    <3>6. y' <= y + 0
      BY <1>0, <2>1, <2>6, <3>1 DEF MailPlaces, MailTypes, CurrentDue, UnreadDue, Unread, Current, Stale
    <3>7. c - o \in Int
      BY <2>2
    <3> HIDE DEF l, c, o, y, s
    <3>8. (c - o) + AgainDue' <= s
      BY <2>2, <2>4, <3>4, <3>7, ShownStill
    <3>9. y' - o <= writerCrashes
      <4>1. y' - (o + 0) <= writerCrashes
        BY <2>2, <2>4, <3>6, ShownLess, 0 \in Int
      <4>2. o + 0 = o
        BY <2>2
      <4> QED
        BY <4>1, <4>2
    <3>10. ((l + 1) - c) + ExitDue' <= writerCrashes
      BY <2>2, <2>4, <3>5, ShownOther
    <3> QED
      BY <2>3, <2>5, <3>2, <3>8, <3>9, <3>10
  <2>7. CASE text # Mail!Exit
    <3>1. Mail!Out' = Mail!Out \cup {text} /\ Cardinality(Mail!Lines)' = c + 1 /\ Cardinality(Mail!Out)' = o + k
      BY <1>0, <1>17, <2>1, <2>7, ShowAdds DEF Mail!Show
    <3>2. ExitShown' => ExitShown
      BY <2>1, <2>7 DEF ExitShown
    <3>3. (Again' => Again) /\ (text \in Mail!Out => Again /\ ~Again')
      BY <1>0, <2>1, <2>7, <3>1 DEF MailPlaces, MailTypes, Again
    <3>4. AgainDue' <= AgainDue /\ (k = 0 => AgainDue = 1 /\ AgainDue' = 0) /\ ExitDue' <= ExitDue
      BY <3>2, <3>3 DEF AgainDue, ExitDue
    <3>5. y' <= y + k
      BY <1>0, <2>1, <2>7, <3>1 DEF MailPlaces, MailTypes, CurrentDue, UnreadDue, Unread, Current, Stale
    <3>6. k \in Int
      BY <2>2
    <3> HIDE DEF l, c, o, y, s, k
    <3>7. ((c + 1) - (o + k)) + AgainDue' <= s
      <4>1. CASE k = 0
        BY <2>2, <2>4, <3>4, <4>1, ShownAgain
      <4>2. CASE k = 1
        <5>1. (c - o) + AgainDue' <= s
          <6>1. c - o \in Int
            BY <2>2
          <6> QED
            BY <2>2, <2>4, <3>4, <6>1, ShownStill
        <5> QED
          BY <2>2, <4>2, <5>1, ShownFirst
      <4> QED
        BY <2>2, <4>1, <4>2
    <3>8. y' - (o + k) <= writerCrashes
      BY <2>2, <2>4, <3>5, <3>6, ShownLess
    <3>9. ((l + 1) - (c + 1)) + ExitDue' <= writerCrashes
      BY <2>2, <2>4, <3>4, ShownOther
    <3> QED
      BY <2>3, <2>5, <3>1, <3>7, <3>8, <3>9
  <2> QED
    BY <2>6, <2>7
<1> QED
  BY <1>1, <1>2, <1>3, <1>4, <1>5, <1>6, <1>7, <1>8, <1>9, <1>10, <1>11, <1>12, <1>13, <1>14, <1>15, <1>16, <1>17
     DEF Mail!MailNext, Mail!WriterStep, Mail!ReaderStep

LEMMA MailInitially == Mail!MailInit => MailInv
<1> SUFFICES ASSUME Mail!MailInit PROVE MailInv
  OBVIOUS
<1> USE MailConstants DEF Mail!MailInit
<1>1. MailTypes
  <2>1. << >> \in Seq(0 .. MailLines)
    BY EmptySeq
  <2>2. Mail!None \in 0 .. Mail!None /\ 0 \in 0 .. MailLines
    OBVIOUS
  <2>3. writer = "start" /\ reader = "start" /\ text = Mail!None /\ buffer = Mail!None /\ flag = FALSE
    OBVIOUS
  <2>4. typed \in 0 .. MailLines /\ writerCrashes \in Nat /\ readerCrashes \in Nat /\ eofs \in Nat
    BY <2>2
  <2> HIDE DEF Mail!MailInit
  <2> QED
    BY <2>1, <2>2, <2>3, <2>4 DEF MailTypes, Starting, Idle, Mail!MailInit
<1>2. shown = << >> /\ Mail!Lines = {} /\ Mail!Out = {} /\ Len(shown) = 0
  BY <1>1, ShownFinite DEF Mail!Lines, Mail!Out
<1>3. Cardinality(Mail!Lines) = 0 /\ Cardinality(Mail!Out) = 0
  BY <1>2, FS_EmptySet
<1>4. MailPlaces /\ MailOrder
  BY <1>2 DEF MailPlaces, MailOrder, Starting, Idle, IsLine
<1>5. ~Again /\ ~Current /\ ~Unread /\ ~ExitShown
  BY DEF Again, Current, Unread, ExitShown, Starting, Idle, Reading, Stale
<1>6. MailDebts
  BY <1>2, <1>3, <1>5 DEF MailDebts, AgainDue, CurrentDue, UnreadDue, ExitDue
<1> QED
  BY <1>1, <1>4, <1>6 DEF MailInv

LEMMA MailStays == MailInv /\ [Mail!MailNext]_(Mail!mailVars) => MailInv'
BY MailTypesStay, MailPlacesStay, MailOrderStays, MailDebtsStay DEF MailInv

LEMMA DebtsAreKept == MailInv => Mail!Handshake
<1> SUFFICES ASSUME MailInv PROVE Mail!Handshake
  OBVIOUS
<1>1. /\ Cardinality(Mail!Lines) \in Nat /\ Cardinality(Mail!Out) \in Nat /\ Len(shown) \in Nat
      /\ typed \in Nat /\ writerCrashes \in Nat /\ readerCrashes \in Nat /\ eofs \in Nat
  BY ShownFinite, MailConstants DEF MailInv, MailTypes
<1>2. Cardinality(Mail!Lines) - Cardinality(Mail!Out) <= writerCrashes + readerCrashes + eofs
  BY <1>1 DEF MailInv, MailDebts, AgainDue, CurrentDue, UnreadDue, ExitDue
<1>3. writer = "type" => typed - Cardinality(Mail!Out) <= writerCrashes
  BY <1>1 DEF MailInv, MailDebts, AgainDue, CurrentDue, UnreadDue, ExitDue, Current
<1>4. Len(shown) - Cardinality(Mail!Lines) <= writerCrashes
  BY <1>1 DEF MailInv, MailDebts, AgainDue, CurrentDue, UnreadDue, ExitDue
<1>5. /\ Mail!Cardinality(Mail!Lines) = Cardinality(Mail!Lines)
      /\ Mail!Cardinality(Mail!Out) = Cardinality(Mail!Out)
  BY DEF Mail!Cardinality, Cardinality
<1> QED
  BY <1>2, <1>3, <1>4, <1>5 DEF MailInv, MailOrder, Mail!Handshake
-----------------------------------------------------------------------------
(* The pipe.  The first Taken messages have left it, the last of them in   *)
(* one string; the others are in it, in the order of their numbers.        *)

Taken == written - Len(bytes)

PipeTypes ==
    /\ written \in 0 .. Messages
    /\ bytes \in Seq(Nat) /\ message \in Seq(Nat) /\ received \in Seq(Nat)
    /\ sender \in {"write", "ended"} /\ receiver \in {"close", "read", "print", "reap", "ended"}
    /\ Len(bytes) <= written
    /\ write_ends \subseteq {"child", "parent"}
    /\ sender = "write" => "child" \in write_ends
    /\ sender = "ended" => written = Messages
    /\ receiver \in {"reap", "ended"} => written = Messages /\ bytes = << >>

PipeOrder ==
    /\ \A k \in 1 .. Len(bytes) : bytes[k] = Taken + k
    /\ \A k \in 1 .. Len(message) : message[k] = (Taken - Len(message)) + k
    /\ Len(message) <= Taken
    /\ Taken = 0 <=> Len(message) = 0

(* What is out is older than what is to be printed next (Held); those two  *)
(* and what was read behind another message are all that left the pipe.    *)
Base == IF receiver = "print" THEN Taken - Len(message) ELSE Taken
Held == IF receiver = "print" THEN {Base + 1} ELSE {}
PipeShown ==
    /\ \A j, k \in 1 .. Len(received) : j < k => received[j] < received[k]
    /\ \A k \in 1 .. Len(received) : received[k] <= Base
    /\ receiver = "print" => Len(message) > 0
    /\ Child8!Shown \cap merged = {} /\ Held \cap merged = {}
    /\ Child8!Shown \cup merged \cup Held = 1 .. Taken

PipeInv == PipeTypes /\ PipeOrder /\ PipeShown

LEMMA PipeNumbers ==
    ASSUME PipeTypes
    PROVE  /\ Messages \in Nat \ {0} /\ written \in Nat /\ written <= Messages
           /\ Len(bytes) \in Nat /\ Len(message) \in Nat /\ Len(received) \in Nat
           /\ Taken \in Nat
           /\ \A k \in 1 .. Len(received) : received[k] \in Nat
<1>1. Messages \in Nat \ {0} /\ written \in Nat /\ written <= Messages
  BY MessagesAssumption DEF PipeTypes
<1>2. Len(bytes) \in Nat /\ Len(message) \in Nat /\ Len(received) \in Nat
  BY LenProperties DEF PipeTypes
<1>3. Taken \in Nat
  <2>1. \A x, y \in Nat : y <= x => x - y \in Nat
    OBVIOUS
  <2> QED
    BY <1>1, <1>2, <2>1 DEF PipeTypes, Taken
<1>4. \A k \in 1 .. Len(received) : received[k] \in Nat
  BY ElementOfSeq DEF PipeTypes
<1> QED
  BY <1>1, <1>2, <1>3, <1>4

LEMMA PipeTypesStay == PipeInv /\ [Child8!PipeNext]_(Child8!pipeVars) => PipeTypes'
<1> SUFFICES ASSUME PipeInv, [Child8!PipeNext]_(Child8!pipeVars) PROVE PipeTypes'
  OBVIOUS
<1> USE DEF PipeInv
<1>0. Messages \in Nat \ {0} /\ written \in Nat /\ Len(bytes) \in Nat
  BY PipeNumbers
<1>1. CASE Child8!Write
  <2>1. written' = written + 1 /\ written' \in 0 .. Messages
    BY <1>0, <1>1 DEF Child8!Write, PipeTypes
  <2>2. bytes' \in Seq(Nat) /\ Len(bytes') = Len(bytes) + 1
    BY <1>0, <1>1, AppendProperties DEF Child8!Write, PipeTypes
  <2>3. Len(bytes') <= written'
    BY <1>0, <2>1, <2>2 DEF PipeTypes
  <2>4. receiver \notin {"reap", "ended"}
    BY <1>0, <1>1 DEF Child8!Write, PipeTypes
  <2> QED
    BY <1>1, <2>1, <2>2, <2>3, <2>4 DEF Child8!Write, PipeTypes
<1>2. CASE Child8!SenderEnds
  BY <1>2 DEF Child8!SenderEnds, PipeTypes
<1>3. CASE Child8!CloseWriteEnd
  BY <1>3 DEF Child8!CloseWriteEnd, PipeTypes
<1>4. CASE Child8!Read
  <2>1. << >> \in Seq(Nat) /\ Len(<< >>) = 0
    BY EmptySeq
  <2> QED
    BY <1>0, <1>4, <2>1 DEF Child8!Read, PipeTypes
<1>5. CASE Child8!EndOfFile
  BY <1>5 DEF Child8!EndOfFile, PipeTypes
<1>6. CASE Child8!Show
  <2>1. Len(message) > 0 /\ message # << >>
    BY <1>6, EmptySeq DEF Child8!Show, PipeShown
  <2>2. Head(message) = message[1] /\ Head(message) \in Nat
    BY <2>1, HeadTailProperties, ElementOfSeq DEF PipeTypes
  <2>3. received' \in Seq(Nat)
    BY <1>6, <2>2, AppendProperties DEF Child8!Show, PipeTypes
  <2>4. Head(message) = Child8!END => written = Messages /\ bytes = << >>
    <3> SUFFICES ASSUME Head(message) = Child8!END PROVE written = Messages /\ bytes = << >>
      OBVIOUS
    <3>1. Messages = (Taken - Len(message)) + 1 /\ Len(message) \in Nat /\ Taken \in Nat /\ 1 \in 1 .. Len(message)
      BY <2>1, <2>2, PipeNumbers DEF PipeOrder, Child8!END
    <3>2. Messages <= Taken
      BY <1>0, <2>1, <3>1
    <3>3. Len(bytes) = 0 /\ written = Messages
      BY <1>0, <3>2 DEF Taken, PipeTypes
    <3> QED
      BY <3>3, EmptySeq DEF PipeTypes
  <2> QED
    BY <1>6, <2>3, <2>4 DEF Child8!Show, PipeTypes
<1>7. CASE Child8!Reap
  BY <1>7 DEF Child8!Reap, PipeTypes
<1>8. CASE UNCHANGED Child8!pipeVars
  BY <1>8 DEF Child8!pipeVars, PipeTypes
<1> QED
  BY <1>1, <1>2, <1>3, <1>4, <1>5, <1>6, <1>7, <1>8 DEF Child8!PipeNext, Child8!SenderStep, Child8!ReceiverStep

LEMMA PipeStays == PipeInv /\ [Child8!PipeNext]_(Child8!pipeVars) => PipeInv'
<1> SUFFICES ASSUME PipeInv, [Child8!PipeNext]_(Child8!pipeVars) PROVE PipeOrder' /\ PipeShown'
  BY PipeTypesStay DEF PipeInv
<1> USE DEF PipeInv
<1>0. /\ Messages \in Nat \ {0} /\ written \in Nat /\ Len(bytes) \in Nat /\ Len(message) \in Nat
      /\ Len(received) \in Nat /\ Taken \in Nat
  BY PipeNumbers
<1>1. CASE Child8!Write
  <2> DEFINE n == Len(bytes)
  <2>1. /\ Len(bytes') = n + 1 /\ \A k \in 1 .. n : bytes'[k] = bytes[k]
        /\ bytes'[n + 1] = written + 1
    BY <1>0, <1>1, AppendProperties DEF Child8!Write, PipeTypes
  <2>2. written' = written + 1 /\ UNCHANGED <<receiver, message, received, merged>>
    BY <1>1 DEF Child8!Write
  <2>3. Taken' = Taken /\ Taken + (n + 1) = written + 1
    BY <1>0, <2>1, <2>2 DEF Taken
  <2>4. n \in Nat /\ \A k \in 1 .. n : bytes[k] = Taken + k
    BY <1>0 DEF PipeOrder
  <2> HIDE DEF n
  <2>5. ASSUME NEW k \in 1 .. n + 1 PROVE bytes'[k] = Taken + k
    <3>1. CASE k \in 1 .. n
      BY <2>1, <2>4, <3>1
    <3>2. CASE k = n + 1
      BY <2>1, <2>3, <3>2
    <3> QED
      BY <2>4, <3>1, <3>2
  <2>6. PipeOrder'
    BY <2>1, <2>2, <2>3, <2>5 DEF PipeOrder
  <2>7. PipeShown'
    BY <2>2, <2>3 DEF PipeShown, Base, Held, Child8!Shown
  <2> QED
    BY <2>6, <2>7
<1>2. CASE Child8!SenderEnds \/ Child8!CloseWriteEnd \/ Child8!EndOfFile \/ Child8!Reap
  <2>1. /\ UNCHANGED <<bytes, written, message, received, merged>>
        /\ receiver' = receiver \/ (receiver # "print" /\ receiver' # "print")
    BY <1>2 DEF Child8!SenderEnds, Child8!CloseWriteEnd, Child8!EndOfFile, Child8!Reap
  <2>2. Taken' = Taken
    BY <2>1 DEF Taken
  <2>3. Base' = Base /\ Held' = Held /\ Child8!Shown' = Child8!Shown
    BY <2>1, <2>2 DEF Base, Held, Child8!Shown
  <2> QED
    BY <2>1, <2>2, <2>3 DEF PipeOrder, PipeShown
<1>4. CASE Child8!Read
  <2>1. /\ receiver = "read" /\ receiver' = "print" /\ bytes' = << >> /\ message' = bytes
        /\ written' = written /\ received' = received /\ bytes # << >>
    BY <1>4 DEF Child8!Read
  <2>2. Len(bytes') = 0 /\ Len(bytes) > 0 /\ Len(message') = Len(bytes)
    BY <1>0, <2>1, EmptySeq DEF PipeTypes
  <2>3. Taken' = written /\ written - Len(bytes) = Taken /\ Taken' \in Nat
    BY <1>0, <2>1, <2>2 DEF Taken
  <2>4. Taken' - Len(message') = Taken /\ Len(message') <= Taken' /\ Taken' # 0
    BY <1>0, <2>2, <2>3 DEF PipeTypes
  <2>5. PipeOrder'
    <3>1. \A k \in 1 .. Len(bytes') : FALSE
      BY <2>2
    <3>2. \A k \in 1 .. Len(message') : message'[k] = (Taken' - Len(message')) + k
      BY <2>1, <2>4 DEF PipeOrder
    <3> QED
      BY <2>2, <2>4, <3>1, <3>2 DEF PipeOrder
  <2>6. Base = Taken /\ Base' = Taken
    BY <2>1, <2>4 DEF Base
  <2>7. Held = {} /\ Held' = {Taken + 1} /\ Child8!Shown' = Child8!Shown
    BY <2>1, <2>6 DEF Held, Child8!Shown
  <2>8. merged' = merged \cup (Taken + 2 .. Taken')
    <3>1. merged' = merged \cup {bytes[k] : k \in 2 .. Len(bytes)}
      BY <1>4 DEF Child8!Read
    <3>2. ASSUME NEW k \in 2 .. Len(bytes) PROVE bytes[k] \in Taken + 2 .. Taken'
      <4>1. k \in 1 .. Len(bytes)
        BY <1>0
      <4>2. bytes[k] = Taken + k
        BY <4>1 DEF PipeOrder
      <4> QED
        BY <1>0, <2>3, <4>2
    <3>3. ASSUME NEW m \in Taken + 2 .. Taken' PROVE \E k \in 2 .. Len(bytes) : m = bytes[k]
      <4>1. m - Taken \in 2 .. Len(bytes) /\ m - Taken \in 1 .. Len(bytes)
        BY <1>0, <2>3
      <4>2. bytes[m - Taken] = Taken + (m - Taken)
        BY <4>1 DEF PipeOrder
      <4> QED
        BY <1>0, <4>1, <4>2
    <3> QED
      BY <3>1, <3>2, <3>3
  <2>9. Child8!Shown \cup merged = 1 .. Taken /\ Child8!Shown \cap merged = {}
    BY <2>7 DEF PipeShown
  <2>10. Taken + 1 \in 1 .. Taken' /\ Taken < Taken'
    BY <1>0, <2>2, <2>3
  <2>11. Child8!Shown' \cap merged' = {} /\ Held' \cap merged' = {}
    BY <1>0, <2>3, <2>7, <2>8, <2>9, <2>10
  <2>12. Child8!Shown' \cup merged' \cup Held' = 1 .. Taken'
    BY <1>0, <2>3, <2>7, <2>8, <2>9, <2>10
  <2>13. PipeShown'
    BY <2>1, <2>2, <2>6, <2>11, <2>12 DEF PipeShown
  <2> QED
    BY <2>5, <2>13
<1>6. CASE Child8!Show
  <2> DEFINE n == Len(received)
             h == Head(message)
  <2>1. Len(message) > 0 /\ message # << >> /\ receiver = "print"
    BY <1>6, EmptySeq DEF Child8!Show, PipeShown
  <2>2. h = message[1] /\ h \in Nat
    BY <2>1, HeadTailProperties, ElementOfSeq DEF PipeTypes
  <2>3. h = (Taken - Len(message)) + 1
    BY <1>0, <2>1, <2>2 DEF PipeOrder
  <2>4. h <= Taken /\ Base < h /\ Base + 1 = h /\ Base \in Int
    BY <1>0, <2>1, <2>3 DEF Base
  <2>5. received' = Append(received, h) /\ receiver' # "print" /\ UNCHANGED <<bytes, written, message>>
    BY <1>6 DEF Child8!Show
  <2>6. /\ Len(received') = n + 1 /\ \A k \in 1 .. n : received'[k] = received[k]
        /\ received'[n + 1] = h
    BY <2>2, <2>5, AppendProperties DEF PipeTypes
  <2>7. Taken' = Taken /\ Base' = Taken
    BY <2>5 DEF Taken, Base
  <2>8. n \in Nat /\ \A k \in 1 .. n : received[k] \in Nat /\ received[k] <= Base
    BY <1>0, PipeNumbers DEF PipeShown
  <2> HIDE DEF n, h
  <2>9. ASSUME NEW k \in 1 .. n PROVE received'[k] < h /\ received'[k] <= Taken
    BY <1>0, <2>2, <2>4, <2>6, <2>8
  <2>10. \A k \in 1 .. n + 1 : received'[k] <= Taken
    BY <2>4, <2>6, <2>8, <2>9
  <2>11. ASSUME NEW j \in 1 .. n + 1, NEW k \in 1 .. n + 1, j < k PROVE received'[j] < received'[k]
    <3>1. j \in 1 .. n
      BY <2>8, <2>11
    <3>2. CASE k \in 1 .. n
      BY <2>6, <2>11, <3>1, <3>2 DEF PipeShown, n
    <3>3. CASE k = n + 1
      BY <2>6, <2>9, <3>1, <3>3
    <3> QED
      BY <2>8, <3>2, <3>3
  <2>12. Child8!Shown' = Child8!Shown \cup {h} /\ merged' = merged
    <3>1. DOMAIN received = 1 .. n /\ DOMAIN received' = 1 .. n + 1
      BY <2>2, <2>5, <2>6, LenProperties, AppendProperties DEF PipeTypes, n
    <3>2. 1 .. n + 1 = (1 .. n) \cup {n + 1}
      BY <2>8
    <3>3. merged' = merged
      BY <1>6 DEF Child8!Show
    <3> QED
      BY <2>6, <3>1, <3>2, <3>3 DEF Child8!Shown
  <2>13. Held = {h} /\ Held' = {}
    BY <2>1, <2>4, <2>5 DEF Held
  <2>14. PipeShown'
    <3>1. /\ Child8!Shown' \cap merged' = {} /\ Held' \cap merged' = {}
          /\ Child8!Shown' \cup merged' \cup Held' = 1 .. Taken'
      BY <2>7, <2>12, <2>13 DEF PipeShown
    <3> QED
      BY <2>5, <2>6, <2>7, <2>10, <2>11, <3>1 DEF PipeShown
  <2>15. PipeOrder'
    BY <2>5, <2>7 DEF PipeOrder
  <2> QED
    BY <2>14, <2>15
<1>8. CASE UNCHANGED Child8!pipeVars
  BY <1>8 DEF Child8!pipeVars, PipeOrder, PipeShown, Base, Taken, Held, Child8!Shown
<1> QED
  BY <1>1, <1>2, <1>4, <1>6, <1>8 DEF Child8!PipeNext, Child8!SenderStep, Child8!ReceiverStep

LEMMA PipeInitially == Child8!PipeInit => PipeInv
<1> SUFFICES ASSUME Child8!PipeInit PROVE PipeInv
  OBVIOUS
<1>0. << >> \in Seq(Nat) /\ Len(<< >>) = 0
  BY EmptySeq
<1>1. PipeTypes
  BY <1>0, MessagesAssumption DEF Child8!PipeInit, PipeTypes
<1>2. Taken = 0 /\ Base = 0 /\ Held = {}
  <2>1. Len(bytes) = 0 /\ written = 0 /\ receiver = "close"
    BY <1>0 DEF Child8!PipeInit
  <2> QED
    BY <2>1 DEF Taken, Base, Held
<1>3. Child8!Shown = {} /\ merged = {}
  BY DEF Child8!PipeInit, Child8!Shown
<1> QED
  BY <1>0, <1>1, <1>2, <1>3 DEF Child8!PipeInit, PipeInv, PipeOrder, PipeShown

LEMMA FirstsAreThere == PipeInv => Child8!FirstOfEachRead
<1> SUFFICES ASSUME PipeInv PROVE Child8!FirstOfEachRead
  OBVIOUS
<1> USE DEF PipeInv
<1>0. /\ Messages \in Nat \ {0} /\ written \in Nat /\ Len(bytes) \in Nat /\ Len(message) \in Nat
      /\ Len(received) \in Nat /\ Taken \in Nat
  BY PipeNumbers
<1>1. DOMAIN received = 1 .. Len(received)
  BY LenProperties DEF PipeTypes
<1>2. ASSUME receiver # "print" PROVE Child8!Shown \cup merged = 1 .. written - Len(bytes)
  BY <1>2 DEF PipeShown, Held, Taken
<1>3. ASSUME receiver = "ended" PROVE Child8!Shown \cup merged = 1 .. Messages
  <2>1. written = Messages /\ Len(bytes) = 0
    BY <1>3, EmptySeq DEF PipeTypes
  <2> QED
    BY <1>0, <1>2, <1>3, <2>1
<1> QED
  BY <1>1, <1>2, <1>3 DEF Child8!FirstOfEachRead, PipeShown
-----------------------------------------------------------------------------
(* The System V queue.  The numbered lines of a sender go by in order:     *)
(* first those that are out of it, then the one in the receiver's hand,    *)
(* then those in the queue, then the one that is to be sent.               *)

Posted == Senders \X Nat
Waiting   == {queue[k] : k \in 1 .. Len(queue)}
InHand    == IF receiving = "print" THEN {data} ELSE {}
Past      == SysV!Printed \cup lost \cup dropped
Before(m, x) == m[1] = x[1] /\ m[2] # SysV!Exit /\ x[2] # SysV!Exit => m[2] < x[2]

SysVTypes ==
    /\ queue \in Seq(Posted) /\ printed \in Seq(Posted)
    /\ data \in Posted \cup {<< >>} /\ (data # << >> <=> receiving = "print")
    /\ sent \subseteq Posted /\ lost \subseteq Posted /\ dropped \subseteq Posted
    /\ sending \in [Senders -> {"start", "type", "send", "send exit", "ended", "failed"}]
    /\ sender_line \in [Senders -> Nat]
    /\ \A s \in Senders : sending[s] = "send" => sender_line[s] # SysV!Exit
    /\ receiving \in {"start", "receive", "print", "remove", "ended", "failed"}

SysVOrder ==
    /\ \A j, k \in 1 .. Len(printed) : j < k => Before(printed[j], printed[k])
    /\ \A j, k \in 1 .. Len(queue) : j < k => Before(queue[j], queue[k])
    /\ \A m \in InHand, x \in Waiting : Before(m, x)
    /\ \A m \in Past, x \in InHand \cup Waiting : Before(m, x)
    /\ \A m \in Past \cup InHand \cup Waiting :
          m[2] # SysV!Exit =>
              m[2] <= sender_line[m[1]] /\ (sending[m[1]] = "send" => m[2] < sender_line[m[1]])

(* Where the lines are, and who said "exit". *)
SysVPlaces ==
    /\ sent \subseteq Past \cup InHand \cup Waiting
    /\ SysV!Printed \cap (lost \cup dropped) = {}
    /\ \A m \in SysV!Printed \cup sent : m[2] # SysV!Exit
    /\ \A m \in InHand \cup Waiting : m[2] = SysV!Exit => sending[m[1]] = "ended"
    /\ receiving = "remove" \/ dropped # {} => \E s \in Senders : sending[s] = "ended"

SysVInv == SysVTypes /\ SysVOrder /\ SysVPlaces

LEMMA NoMessage == << >> \notin Posted
<1> SUFFICES ASSUME NEW s \in Senders, NEW n \in Nat, << >> = <<s, n>> PROVE FALSE
  BY DEF Posted
<1>1. Len(<< >>) = 0 /\ Len(<<s, n>>) = 2
  OBVIOUS
<1> QED
  BY <1>1

LEMMA SysVSets ==
    ASSUME SysVTypes
    PROVE  /\ Len(queue) \in Nat /\ Len(printed) \in Nat
           /\ DOMAIN queue = 1 .. Len(queue) /\ DOMAIN printed = 1 .. Len(printed)
           /\ \A k \in 1 .. Len(queue) : queue[k] \in Posted
           /\ \A k \in 1 .. Len(printed) : printed[k] \in Posted
           /\ SysV!Printed = {printed[k] : k \in 1 .. Len(printed)}
           /\ SysV!InQueue = Waiting \cup {data}
           /\ Past \cup InHand \cup Waiting \subseteq Posted
<1>1. /\ Len(queue) \in Nat /\ Len(printed) \in Nat
      /\ DOMAIN queue = 1 .. Len(queue) /\ DOMAIN printed = 1 .. Len(printed)
  BY LenProperties DEF SysVTypes
<1>2. /\ \A k \in 1 .. Len(queue) : queue[k] \in Posted
      /\ \A k \in 1 .. Len(printed) : printed[k] \in Posted
  BY ElementOfSeq DEF SysVTypes
<1>3. SysV!Printed = {printed[k] : k \in 1 .. Len(printed)} /\ SysV!InQueue = Waiting \cup {data}
  BY <1>1 DEF SysV!Printed, SysV!InQueue, Waiting
<1>4. SysV!Printed \subseteq Posted /\ Waiting \subseteq Posted
  BY <1>2, <1>3 DEF Waiting
<1>5. InHand \subseteq Posted
  BY DEF InHand, SysVTypes
<1> QED
  BY <1>1, <1>2, <1>3, <1>4, <1>5 DEF Past, SysVTypes

LEMMA PostedParts ==
    ASSUME NEW m \in Posted
    PROVE  m[1] \in Senders /\ m[2] \in Nat /\ m = <<m[1], m[2]>>
BY DEF Posted

(* A step of a sender that sends nothing, and of the receiver between two  *)
(* messages: a sender types one line more at most.                         *)
LEMMA NothingMoves ==
    ASSUME SysVInv, SysVTypes', UNCHANGED <<queue, data, sent, printed, lost, dropped>>,
           receiving' = receiving \/ (receiving # "print" /\ receiving' \notin {"print", "remove"}),
           \A s \in Senders : sending[s] = "ended" => sending'[s] = "ended",
           \A s \in Senders : \/ sender_line'[s] = sender_line[s] /\ (sending'[s] = "send" => sending[s] = "send")
                              \/ sender_line'[s] = sender_line[s] + 1
    PROVE  SysVInv'
<1>1. /\ Waiting' = Waiting /\ InHand' = InHand /\ SysV!Printed' = SysV!Printed /\ Past' = Past
  BY DEF Waiting, InHand, SysV!Printed, Past
<1>2. ASSUME NEW m \in Past \cup InHand \cup Waiting, m[2] # SysV!Exit
      PROVE  m[2] <= sender_line'[m[1]] /\ (sending'[m[1]] = "send" => m[2] < sender_line'[m[1]])
  <2>1. m \in Posted
    BY SysVSets DEF SysVInv
  <2>2. m[1] \in Senders /\ m[2] \in Nat /\ sender_line[m[1]] \in Nat
    BY <2>1, PostedParts DEF SysVInv, SysVTypes
  <2>3. m[2] <= sender_line[m[1]] /\ (sending[m[1]] = "send" => m[2] < sender_line[m[1]])
    BY <1>2 DEF SysVInv, SysVOrder
  <2>4. CASE sender_line'[m[1]] = sender_line[m[1]] /\ (sending'[m[1]] = "send" => sending[m[1]] = "send")
    BY <2>3, <2>4
  <2>5. CASE sender_line'[m[1]] = sender_line[m[1]] + 1
    BY <2>2, <2>3, <2>5
  <2> QED
    BY <2>2, <2>4, <2>5
<1>3. SysVOrder'
  BY <1>1, <1>2 DEF SysVInv, SysVOrder, Before, SysV!Exit
<1>4. SysVPlaces'
  <2>1. ASSUME NEW m \in InHand \cup Waiting, m[2] = SysV!Exit PROVE sending'[m[1]] = "ended"
    <3>1. m[1] \in Senders /\ sending[m[1]] = "ended"
      BY <2>1, SysVSets, PostedParts DEF SysVInv, SysVPlaces
    <3> QED
      BY <3>1
  <2>2. receiving' = "remove" \/ dropped # {} => \E s \in Senders : sending'[s] = "ended"
    BY DEF SysVInv, SysVPlaces
  <2> QED
    BY <1>1, <2>1, <2>2 DEF SysVInv, SysVPlaces, SysV!Exit
<1> QED
  BY <1>3, <1>4 DEF SysVInv

LEMMA NextLine == \A n \in Nat : n + 1 \in Nat /\ n + 1 # 0
OBVIOUS

LEMMA SendersStay ==
    ASSUME SysVInv, NEW s \in Senders, SysV!MsgGetCreate(s) \/ SysV!TypeText(s) \/ SysV!MsgSndFails(s)
    PROVE  SysVInv'
<1>1. /\ UNCHANGED <<queue, data, sent, printed, lost, dropped, receiving>>
      /\ sending[s] \in {"start", "type", "send", "send exit"}
      /\ \E to \in {"type", "send", "send exit", "ended", "failed"} :
            /\ sending' = [sending EXCEPT ![s] = to]
            /\ \/ sender_line' = sender_line /\ to # "send"
               \/ sender_line' = [sender_line EXCEPT ![s] = @ + 1]
  BY DEF SysV!MsgGetCreate, SysV!TypeText, SysV!MsgSndFails, SysV!Sender
<1>2. PICK to \in {"type", "send", "send exit", "ended", "failed"} :
            /\ sending' = [sending EXCEPT ![s] = to]
            /\ \/ sender_line' = sender_line /\ to # "send"
               \/ sender_line' = [sender_line EXCEPT ![s] = @ + 1]
  BY <1>1
<1>3. sending \in [Senders -> {"start", "type", "send", "send exit", "ended", "failed"}]
      /\ sender_line \in [Senders -> Nat]
  BY DEF SysVInv, SysVTypes
<1>4. \A r \in Senders : \/ sender_line'[r] = sender_line[r] /\ (sending'[r] = "send" => sending[r] = "send")
                         \/ sender_line'[r] = sender_line[r] + 1
  BY <1>2, <1>3
<1>5. \A r \in Senders : sending[r] = "ended" => sending'[r] = "ended"
  BY <1>1, <1>2, <1>3
<1>6. SysVTypes'
  <2>1. sender_line' \in [Senders -> Nat]
    <3>1. sender_line[s] + 1 \in Nat
      <4>1. sender_line[s] \in Nat
        BY <1>3
      <4> QED
        BY <4>1, NextLine
    <3> QED
      BY <1>2, <1>3, <3>1
  <2>2. sending' \in [Senders -> {"start", "type", "send", "send exit", "ended", "failed"}]
    BY <1>2, <1>3
  <2>3. ASSUME NEW r \in Senders, sending'[r] = "send" PROVE sender_line'[r] # SysV!Exit
    <3>1. CASE sender_line'[r] = sender_line[r] /\ sending[r] = "send"
      BY <3>1 DEF SysVInv, SysVTypes
    <3>2. CASE sender_line'[r] = sender_line[r] + 1
      <4>1. sender_line[r] \in Nat
        BY <1>3
      <4> QED
        BY <3>2, <4>1, NextLine DEF SysV!Exit
    <3> QED
      BY <1>4, <2>3, <3>1, <3>2
  <2> QED
    BY <1>1, <2>1, <2>2, <2>3 DEF SysVInv, SysVTypes, Posted, SysV!Exit
<1> QED
  BY <1>1, <1>4, <1>5, <1>6, NothingMoves

LEMMA SendStays == ASSUME SysVInv, NEW s \in Senders, SysV!MsgSnd(s) PROVE SysVInv'
<1>1. PICK n \in Nat :
         /\ queue' = Append(queue, <<s, n>>)
         /\ UNCHANGED <<sender_line, receiving, data, printed, lost, dropped>>
         /\ \/ /\ sending[s] = "send" /\ sending' = [sending EXCEPT ![s] = "type"]
               /\ n = sender_line[s] /\ n # SysV!Exit /\ sent' = sent \cup {<<s, n>>}
            \/ /\ sending[s] = "send exit" /\ sending' = [sending EXCEPT ![s] = "ended"]
               /\ n = SysV!Exit /\ sent' = sent
  <2>1. CASE sending[s] = "send"
    <3>1. sender_line[s] \in Nat /\ sender_line[s] # SysV!Exit
      BY <2>1 DEF SysVInv, SysVTypes
    <3> QED
      BY <2>1, <3>1 DEF SysV!MsgSnd, SysV!Sender
  <2>2. CASE sending[s] = "send exit"
    <3>1. SysV!Exit \in Nat
      BY DEF SysV!Exit
    <3> QED
      BY <2>2, <3>1 DEF SysV!MsgSnd, SysV!Sender
  <2> QED
    BY <2>1, <2>2 DEF SysV!MsgSnd, SysV!Sender
<1> DEFINE new == <<s, n>>
           l == Len(queue)
<1>2. new \in Posted /\ new[1] = s /\ new[2] = n
  BY DEF Posted
<1>3. /\ queue \in Seq(Posted) /\ l \in Nat
      /\ sending \in [Senders -> {"start", "type", "send", "send exit", "ended", "failed"}]
      /\ sender_line \in [Senders -> Nat]
  BY SysVSets DEF SysVInv, SysVTypes
<1> HIDE DEF new
<1>4. /\ queue' \in Seq(Posted) /\ Len(queue') = l + 1
      /\ \A k \in 1 .. l : queue'[k] = queue[k]
      /\ queue'[l + 1] = new
  <2>1. queue' = Append(queue, new)
    BY <1>1 DEF new
  <2>2. queue \in Seq(Posted)
    BY <1>3
  <2>3. /\ Append(queue, new) \in Seq(Posted)
        /\ Len(Append(queue, new)) = Len(queue) + 1
        /\ \A k \in 1 .. Len(queue) : Append(queue, new)[k] = queue[k]
        /\ Append(queue, new)[Len(queue) + 1] = new
    BY ONLY <1>2, <2>2, AppendProperties
  <2> QED
    BY <2>1, <2>3
<1> HIDE DEF l
<1>20. l \in Nat
  BY <1>3
<1>21. \A k : k \in 1 .. l + 1 <=> k \in 1 .. l \/ k = l + 1
  BY <1>20
<1>22. ASSUME NEW j \in 1 .. l + 1, NEW k \in 1 .. l + 1, j < k PROVE j \in 1 .. l
  BY <1>20, <1>22
<1>5. Waiting' = Waiting \cup {new}
  <2>1. Waiting = {queue[k] : k \in 1 .. l} /\ Waiting' = {queue'[k] : k \in 1 .. l + 1}
    BY <1>4 DEF Waiting, l
  <2> QED
    BY <1>4, <1>21, <2>1
<1>6. InHand' = InHand /\ SysV!Printed' = SysV!Printed /\ Past' = Past
  BY <1>1 DEF InHand, SysV!Printed, Past
<1>7. ASSUME NEW m \in Past \cup InHand \cup Waiting PROVE Before(m, new)
  <2> SUFFICES ASSUME m[1] = s, m[2] # SysV!Exit, n # SysV!Exit PROVE m[2] < n
    BY <1>2 DEF Before
  <2>1. sending[s] = "send" /\ n = sender_line[s]
    BY <1>1
  <2> QED
    BY <2>1 DEF SysVInv, SysVOrder
<1>8. \A r \in Senders : /\ sending'[r] = "send" => sending[r] = "send"
                         /\ sending[r] = "ended" => sending'[r] = "ended"
  BY <1>1, <1>3
<1>9. sending'[s] # "send" /\ (n = SysV!Exit => sending'[s] = "ended")
  BY <1>1, <1>3
<1>10. SysVTypes'
  <2>1. sent' \subseteq Posted
    BY <1>1, <1>2 DEF SysVInv, SysVTypes, new
  <2>2. sending' \in [Senders -> {"start", "type", "send", "send exit", "ended", "failed"}]
    BY <1>1, <1>3
  <2>3. Posted' = Posted /\ SysV!Exit' = SysV!Exit
    BY DEF Posted, SysV!Exit
  <2> QED
    BY <1>1, <1>4, <1>8, <2>1, <2>2, <2>3 DEF SysVInv, SysVTypes
<1>11. SysVOrder'
  <2>1. ASSUME NEW j \in 1 .. l + 1, NEW k \in 1 .. l + 1, j < k PROVE Before(queue'[j], queue'[k])
    <3>1. j \in 1 .. l /\ queue'[j] = queue[j] /\ queue[j] \in Waiting
      BY <1>4, <1>22, <2>1 DEF Waiting, l
    <3>2. CASE k \in 1 .. l
      BY <1>4, <2>1, <3>1, <3>2 DEF SysVInv, SysVOrder, l
    <3>3. CASE k = l + 1
      BY <1>4, <1>7, <3>1, <3>3
    <3> QED
      BY <1>21, <3>2, <3>3
  <2>2. ASSUME NEW m \in Past \cup InHand \cup Waiting', m[2] # SysV!Exit
        PROVE  m[2] <= sender_line[m[1]] /\ (sending'[m[1]] = "send" => m[2] < sender_line[m[1]])
    <3>1. CASE m = new
      <4>1. n \in Nat /\ n = sender_line[s]
        BY <1>1, <1>2, <2>2, <3>1
      <4> QED
        BY <1>2, <1>9, <3>1, <4>1
    <3>2. CASE m \in Past \cup InHand \cup Waiting
      <4>1. m[1] \in Senders
        BY <3>2, SysVSets, PostedParts DEF SysVInv
      <4> QED
        BY <1>8, <2>2, <3>2, <4>1 DEF SysVInv, SysVOrder
    <3> QED
      BY <1>5, <3>1, <3>2
  <2>4. /\ \A m \in InHand, x \in Waiting' : Before(m, x)
        /\ \A m \in Past, x \in InHand \cup Waiting' : Before(m, x)
    BY <1>5, <1>7 DEF SysVInv, SysVOrder
  <2>5. \A j, k \in 1 .. Len(printed) : j < k => Before(printed[j], printed[k])
    BY DEF SysVInv, SysVOrder
  <2> QED
    BY <1>1, <1>4, <1>6, <2>1, <2>2, <2>4, <2>5 DEF SysVOrder, Before, SysV!Exit
<1>12. SysVPlaces'
  <2>1. sent' \subseteq Past' \cup InHand' \cup Waiting'
    BY <1>1, <1>5, <1>6 DEF SysVInv, SysVPlaces, new
  <2>2. ASSUME NEW m \in InHand \cup Waiting', m[2] = SysV!Exit PROVE sending'[m[1]] = "ended"
    <3>1. CASE m = new
      BY <1>2, <1>9, <2>2, <3>1
    <3>2. CASE m \in InHand \cup Waiting
      <4>1. m[1] \in Senders
        BY <3>2, SysVSets, PostedParts DEF SysVInv
      <4> QED
        BY <1>8, <2>2, <3>2, <4>1 DEF SysVInv, SysVPlaces
    <3> QED
      BY <1>5, <3>1, <3>2
  <2>3. receiving' = "remove" \/ dropped' # {} => \E r \in Senders : sending'[r] = "ended"
    BY <1>1, <1>8 DEF SysVInv, SysVPlaces
  <2>4. \A m \in SysV!Printed \cup sent' : m[2] # SysV!Exit
    BY <1>1, <1>2 DEF SysVInv, SysVPlaces, new
  <2> QED
    BY <1>1, <1>6, <2>1, <2>2, <2>3, <2>4 DEF SysVInv, SysVPlaces, SysV!Exit
<1> QED
  BY <1>10, <1>11, <1>12 DEF SysVInv

LEMMA ReceiveStays == ASSUME SysVInv, SysV!MsgRcv PROVE SysVInv'
<1> DEFINE l == Len(queue)
           h == queue[1]
<1>0. /\ receiving = "receive" /\ receiving' = "print" /\ queue # << >>
      /\ data' = Head(queue) /\ queue' = Tail(queue)
      /\ UNCHANGED <<sending, sender_line, sent, printed, lost, dropped>>
  BY DEF SysV!MsgRcv, SysV!Receiver, SysV!Take
<1>1. queue \in Seq(Posted) /\ l \in Nat
  BY SysVSets DEF SysVInv, SysVTypes
<1>2. l \in Nat \ {0}
  BY <1>0, <1>1, EmptySeq
<1>3. /\ h \in Posted /\ data' = h /\ queue' \in Seq(Posted) /\ Len(queue') = l - 1
      /\ \A k \in 1 .. Len(queue') : queue'[k] = queue[k + 1]
  <2>1. /\ Head(queue) \in Posted /\ Tail(queue) \in Seq(Posted)
        /\ Len(Tail(queue)) = Len(queue) - 1
        /\ \A k \in 1 .. Len(Tail(queue)) : Tail(queue)[k] = queue[k + 1]
    BY <1>0, <1>1, HeadTailProperties
  <2>2. Head(queue) = queue[1]
    BY <1>1
  <2> QED
    BY <1>0, <2>1, <2>2
<1>4. \A k \in 1 .. Len(queue') : k + 1 \in 1 .. l /\ k + 1 > 1 /\ k \in Nat
  <2>1. Len(queue') = l - 1
    BY <1>3
  <2> HIDE DEF l
  <2> QED
    BY <1>2, <2>1
<1>5. 1 \in 1 .. l
  BY <1>2
<1>6. /\ Waiting = {queue[k] : k \in 1 .. l}
      /\ Waiting' = {queue'[k] : k \in 1 .. Len(queue')}
      /\ InHand = {} /\ InHand' = {h} /\ SysV!Printed' = SysV!Printed /\ Past' = Past
  BY <1>0, <1>3 DEF Waiting, InHand, SysV!Printed, Past
<1> HIDE DEF l, h
<1>7. Waiting' \subseteq Waiting /\ h \in Waiting
  BY <1>3, <1>4, <1>5, <1>6 DEF h
<1>8. Waiting = Waiting' \cup {h}
  <2>1. ASSUME NEW k \in 1 .. l PROVE queue[k] \in Waiting' \cup {h}
    <3>1. CASE k = 1
      BY <3>1 DEF h
    <3>2. CASE k # 1
      <4>1. k - 1 \in 1 .. Len(queue') /\ (k - 1) + 1 = k
        BY <1>2, <1>3, <3>2
      <4>2. queue'[k - 1] = queue[k]
        BY <1>3, <4>1
      <4> QED
        BY <1>6, <4>1, <4>2
    <3> QED
      BY <3>1, <3>2
  <2> QED
    BY <1>6, <1>7, <2>1
<1>9. SysVTypes'
  <2>1. data' # << >>
    BY <1>3, NoMessage
  <2>2. Posted' = Posted /\ SysV!Exit' = SysV!Exit
    BY DEF Posted, SysV!Exit
  <2> QED
    BY <1>0, <1>3, <2>1, <2>2 DEF SysVInv, SysVTypes
<1>10. SysVOrder'
  <2>1. ASSUME NEW j \in 1 .. Len(queue'), NEW k \in 1 .. Len(queue'), j < k
        PROVE  Before(queue'[j], queue'[k])
    <3>1. j + 1 \in 1 .. l /\ k + 1 \in 1 .. l /\ j + 1 < k + 1
      BY <1>4, <2>1
    <3>2. Before(queue[j + 1], queue[k + 1])
      BY <3>1 DEF SysVInv, SysVOrder, l
    <3> QED
      BY <1>3, <3>2
  <2>2. ASSUME NEW x \in Waiting' PROVE Before(h, x)
    <3>1. PICK k \in 1 .. Len(queue') : x = queue'[k]
      BY <1>6
    <3>2. k + 1 \in 1 .. l /\ 1 < k + 1 /\ x = queue[k + 1]
      BY <1>3, <1>4, <3>1
    <3>3. Before(queue[1], queue[k + 1])
      BY <1>5, <3>2 DEF SysVInv, SysVOrder, l
    <3> QED
      BY <3>2, <3>3 DEF h
  <2>3. \A m \in Past, x \in InHand' \cup Waiting' : Before(m, x)
    BY <1>6, <1>7 DEF SysVInv, SysVOrder
  <2>4. \A m \in Past \cup InHand' \cup Waiting' :
           m[2] # SysV!Exit =>
              m[2] <= sender_line[m[1]] /\ (sending[m[1]] = "send" => m[2] < sender_line[m[1]])
    BY <1>6, <1>7 DEF SysVInv, SysVOrder
  <2>5. \A j, k \in 1 .. Len(printed) : j < k => Before(printed[j], printed[k])
    BY DEF SysVInv, SysVOrder
  <2> QED
    BY <1>0, <1>6, <2>1, <2>2, <2>3, <2>4, <2>5 DEF SysVOrder, Before, SysV!Exit
<1>11. SysVPlaces'
  BY <1>0, <1>6, <1>7, <1>8 DEF SysVInv, SysVPlaces, SysV!Exit
<1> QED
  BY <1>9, <1>10, <1>11 DEF SysVInv

LEMMA PrintStays == ASSUME SysVInv, SysV!PrintText PROVE SysVInv'
<1> DEFINE l == Len(printed)
<1>0. /\ receiving = "print" /\ data' = << >>
      /\ UNCHANGED <<queue, sending, sender_line, sent, lost, dropped>>
  BY DEF SysV!PrintText, SysV!Receiver
<1>1. data \in Posted /\ data[1] \in Senders /\ data[2] \in Nat /\ printed \in Seq(Posted) /\ l \in Nat
  BY <1>0, SysVSets, PostedParts DEF SysVInv, SysVTypes
<1>2. Waiting' = Waiting /\ InHand = {data}
  BY <1>0 DEF Waiting, InHand
<1>3. CASE data[2] = SysV!Exit
  <2>1. receiving' = "remove" /\ printed' = printed
    BY <1>3 DEF SysV!PrintText, SysV!Receiver
  <2>2. InHand' = {} /\ SysV!Printed' = SysV!Printed /\ Past' = Past
    BY <1>0, <2>1 DEF InHand, SysV!Printed, Past
  <2>3. SysVTypes'
    BY <1>0, <2>1, NoMessage DEF SysVInv, SysVTypes, Posted, SysV!Exit
  <2>4. SysVOrder'
    BY <1>0, <1>2, <2>1, <2>2 DEF SysVInv, SysVOrder, Before, SysV!Exit
  <2>5. sending[data[1]] = "ended"
    BY <1>2, <1>3 DEF SysVInv, SysVPlaces
  <2>6. SysVPlaces'
    <3>1. data \notin sent
      BY <1>3 DEF SysVInv, SysVPlaces
    <3>2. sent \subseteq Past \cup Waiting
      BY <1>2, <3>1 DEF SysVInv, SysVPlaces
    <3>3. \E s \in Senders : sending'[s] = "ended"
      BY <1>0, <1>1, <2>5
    <3> QED
      BY <1>0, <1>2, <2>2, <3>2, <3>3 DEF SysVInv, SysVPlaces, SysV!Exit
  <2> QED
    BY <2>3, <2>4, <2>6 DEF SysVInv
<1>4. CASE data[2] # SysV!Exit
  <2>1. receiving' = "receive" /\ printed' = Append(printed, data)
    BY <1>4 DEF SysV!PrintText, SysV!Receiver
  <2>2. /\ printed' \in Seq(Posted) /\ Len(printed') = l + 1
        /\ \A k \in 1 .. l : printed'[k] = printed[k]
        /\ printed'[l + 1] = data
    <3>1. printed \in Seq(Posted) /\ data \in Posted
      BY <1>1
    <3> QED
      BY <2>1, <3>1, AppendProperties
  <2>3. SysV!Printed = {printed[k] : k \in 1 .. l}
    BY SysVSets DEF SysVInv
  <2>4. SysV!Printed' = {printed'[k] : k \in 1 .. l + 1}
    BY <2>2, LenProperties DEF SysV!Printed
  <2> HIDE DEF l
  <2>5. /\ \A k : k \in 1 .. l + 1 <=> k \in 1 .. l \/ k = l + 1
        /\ \A j, k \in 1 .. l + 1 : j < k => j \in 1 .. l
    <3>1. l \in Nat
      BY <1>1
    <3> QED
      BY <3>1
  <2>6. SysV!Printed' = SysV!Printed \cup {data}
    BY <2>2, <2>3, <2>4, <2>5
  <2>7. InHand' = {} /\ Past' = Past \cup {data}
    BY <1>0, <2>1, <2>6 DEF InHand, Past
  <2>8. SysVTypes'
    BY <1>0, <2>1, <2>2, NoMessage DEF SysVInv, SysVTypes, Posted, SysV!Exit
  <2>9. SysVOrder'
    <3>1. ASSUME NEW j \in 1 .. l + 1, NEW k \in 1 .. l + 1, j < k PROVE Before(printed'[j], printed'[k])
      <4>1. j \in 1 .. l /\ printed'[j] = printed[j] /\ printed[j] \in Past
        BY <2>2, <2>3, <2>5, <3>1 DEF Past
      <4>2. CASE k \in 1 .. l
        BY <2>2, <3>1, <4>1, <4>2 DEF SysVInv, SysVOrder, l
      <4>3. CASE k = l + 1
        BY <1>2, <2>2, <4>1, <4>3 DEF SysVInv, SysVOrder
      <4> QED
        BY <2>5, <4>2, <4>3
    <3>2. \A m \in Past \cup {data}, x \in Waiting : Before(m, x)
      BY <1>2 DEF SysVInv, SysVOrder
    <3> QED
      BY <1>0, <1>2, <2>2, <2>7, <3>1, <3>2 DEF SysVInv, SysVOrder, Before, SysV!Exit
  <2>10. SysVPlaces'
    <3>1. data \notin lost \cup dropped
      <4>1. ASSUME data \in lost \cup dropped PROVE FALSE
        <5>1. Before(data, data)
          BY <1>2, <4>1 DEF SysVInv, SysVOrder, Past
        <5> QED
          BY <1>1, <1>4, <5>1 DEF Before
      <4> QED
        BY <4>1
    <3> QED
      BY <1>0, <1>2, <1>4, <2>1, <2>6, <2>7, <3>1 DEF SysVInv, SysVPlaces, SysV!Exit
  <2> QED
    BY <2>8, <2>9, <2>10 DEF SysVInv
<1> QED
  BY <1>3, <1>4

LEMMA RemoveStays == ASSUME SysVInv, SysV!RemoveQueue PROVE SysVInv'
<1>0. /\ receiving = "remove" /\ receiving' = "ended" /\ queue' = << >>
      /\ dropped' = dropped \cup {queue[k] : k \in DOMAIN queue}
      /\ UNCHANGED <<sending, sender_line, data, sent, printed, lost>>
  BY DEF SysV!RemoveQueue, SysV!Receiver
<1>1. DOMAIN queue = 1 .. Len(queue) /\ Waiting \subseteq Posted
  BY SysVSets DEF SysVInv
<1>2. dropped' = dropped \cup Waiting
  BY <1>0, <1>1 DEF Waiting
<1>3. queue' \in Seq(Posted) /\ Len(queue') = 0
  BY <1>0, EmptySeq
<1>4. Waiting' = {} /\ InHand = {} /\ InHand' = {} /\ SysV!Printed' = SysV!Printed /\ Past' = Past \cup Waiting
  BY <1>0, <1>2, <1>3 DEF Waiting, InHand, SysV!Printed, Past
<1>5. SysVTypes'
  <2>1. Posted' = Posted /\ SysV!Exit' = SysV!Exit
    BY DEF Posted, SysV!Exit
  <2> QED
    BY <1>0, <1>1, <1>2, <1>3, <2>1 DEF SysVInv, SysVTypes
<1>6. SysVOrder'
  BY <1>0, <1>3, <1>4 DEF SysVInv, SysVOrder, Before, SysV!Exit
<1>7. SysVPlaces'
  <2>1. SysV!Printed \cap Waiting = {}
    <3> SUFFICES ASSUME NEW m \in SysV!Printed, m \in Waiting PROVE FALSE
      OBVIOUS
    <3>1. Before(m, m) /\ m[2] # SysV!Exit /\ m \in Posted
      BY <1>1 DEF SysVInv, SysVOrder, SysVPlaces, Past
    <3>2. m[2] \in Nat
      BY <3>1, PostedParts
    <3> QED
      BY <3>1, <3>2 DEF Before
  <2> QED
    BY <1>0, <1>2, <1>4, <2>1 DEF SysVInv, SysVPlaces, SysV!Exit
<1> QED
  BY <1>5, <1>6, <1>7 DEF SysVInv

LEMMA KillStays == ASSUME SysVInv, SysV!KillReceiver PROVE SysVInv'
<1>0. /\ receiving' = "failed" /\ data' = << >>
      /\ UNCHANGED <<queue, sending, sender_line, sent, printed, dropped>>
  BY DEF SysV!KillReceiver
<1>1. lost' = lost \cup InHand
  BY DEF SysV!KillReceiver, InHand
<1>2. Waiting' = Waiting /\ InHand' = {} /\ SysV!Printed' = SysV!Printed /\ Past' = Past \cup InHand
  BY <1>0, <1>1 DEF Waiting, InHand, SysV!Printed, Past
<1>3. SysVTypes'
  <2>1. InHand \subseteq Posted
    BY SysVSets DEF SysVInv
  <2>2. Posted' = Posted /\ SysV!Exit' = SysV!Exit
    BY DEF Posted, SysV!Exit
  <2> QED
    BY <1>0, <1>1, <2>1, <2>2 DEF SysVInv, SysVTypes
<1>4. SysVOrder'
  BY <1>0, <1>2 DEF SysVInv, SysVOrder, Before, SysV!Exit
<1>5. SysVPlaces'
  <2>1. SysV!Printed \cap InHand = {}
    <3> SUFFICES ASSUME NEW m \in SysV!Printed, m \in InHand PROVE FALSE
      OBVIOUS
    <3>1. Before(m, m) /\ m[2] # SysV!Exit /\ m \in Posted
      BY SysVSets DEF SysVInv, SysVOrder, SysVPlaces, Past
    <3>2. m[2] \in Nat
      BY <3>1, PostedParts
    <3> QED
      BY <3>1, <3>2 DEF Before
  <2> QED
    BY <1>0, <1>1, <1>2, <2>1 DEF SysVInv, SysVPlaces, SysV!Exit
<1> QED
  BY <1>3, <1>4, <1>5 DEF SysVInv

LEMMA SysVStays == SysVInv /\ [SysV!SysVNext]_(SysV!sysvVars) => SysVInv'
<1> SUFFICES ASSUME SysVInv, [SysV!SysVNext]_(SysV!sysvVars) PROVE SysVInv'
  OBVIOUS
<1>1. ASSUME NEW s \in Senders, SysV!SendStep(s) \/ SysV!TypeText(s) PROVE SysVInv'
  BY <1>1, SendersStay, SendStays DEF SysV!SendStep
<1>2. CASE SysV!MsgGet \/ SysV!RunReceiver
  <2>1. /\ UNCHANGED <<queue, data, sent, printed, lost, dropped, sending, sender_line>>
        /\ receiving # "print" /\ receiving' \in {"start", "receive", "failed"}
    BY <1>2 DEF SysV!MsgGet, SysV!RunReceiver, SysV!Receiver
  <2>2. SysVTypes'
    BY <2>1 DEF SysVInv, SysVTypes, Posted, SysV!Exit
  <2> QED
    BY <2>1, <2>2, NothingMoves
<1>3. CASE UNCHANGED SysV!sysvVars
  <2>1. UNCHANGED <<queue, data, sent, printed, lost, dropped, sending, sender_line, receiving>>
    BY <1>3 DEF SysV!sysvVars
  <2>2. SysVTypes'
    BY <2>1 DEF SysVInv, SysVTypes, Posted, SysV!Exit
  <2> QED
    BY <2>1, <2>2, NothingMoves
<1> QED
  BY <1>1, <1>2, <1>3, ReceiveStays, PrintStays, RemoveStays, KillStays DEF SysV!SysVNext, SysV!ReceiveStep

LEMMA SysVInitially == SysV!SysVInit => SysVInv
<1> SUFFICES ASSUME SysV!SysVInit PROVE SysVInv
  OBVIOUS
<1>1. << >> \in Seq(Posted) /\ Len(<< >>) = 0
  BY EmptySeq
<1>2. SysVTypes
  BY <1>1 DEF SysV!SysVInit, SysVTypes
<1>3. Waiting = {} /\ InHand = {} /\ Len(printed) = 0 /\ Len(queue) = 0
  BY <1>1 DEF SysV!SysVInit, Waiting, InHand
<1>4. SysV!Printed = {}
  BY <1>2, <1>3, SysVSets
<1>5. Past = {}
  BY <1>4 DEF Past, SysV!SysVInit
<1> QED
  BY <1>2, <1>3, <1>4, <1>5 DEF SysVInv, SysVOrder, SysVPlaces, SysV!SysVInit

LEMMA SentArePrinted == SysVInv => SysV!SentIsPrinted
<1> SUFFICES ASSUME SysVInv PROVE SysV!SentIsPrinted
  OBVIOUS
<1>1. /\ DOMAIN printed = 1 .. Len(printed) /\ SysV!Printed = {printed[k] : k \in 1 .. Len(printed)}
      /\ SysV!InQueue = Waiting \cup {data} /\ Past \cup InHand \cup Waiting \subseteq Posted
  BY SysVSets DEF SysVInv
<1>2. \A j, k \in DOMAIN printed :
          (j < k /\ printed[j][1] = printed[k][1]) => printed[j][2] < printed[k][2]
  <2> SUFFICES ASSUME NEW j \in 1 .. Len(printed), NEW k \in 1 .. Len(printed), j < k,
                      printed[j][1] = printed[k][1]
               PROVE  printed[j][2] < printed[k][2]
    BY <1>1
  <2>1. Before(printed[j], printed[k])
    BY DEF SysVInv, SysVOrder
  <2>2. printed[j][2] # SysV!Exit /\ printed[k][2] # SysV!Exit
    BY <1>1 DEF SysVInv, SysVPlaces
  <2> QED
    BY <2>1, <2>2 DEF Before
<1>3. sent \subseteq SysV!Printed \cup SysV!InQueue \cup lost \cup dropped
  BY <1>1 DEF SysVInv, SysVPlaces, Past, InHand
<1>4. \A m \in dropped : \E s \in Senders : sending[s] = "ended"
  BY DEF SysVInv, SysVPlaces
<1>5. SysV!Printed \cap (SysV!InQueue \cup lost \cup dropped) = {}
  <2> SUFFICES ASSUME NEW m \in SysV!Printed, m \in SysV!InQueue PROVE FALSE
    BY DEF SysVInv, SysVPlaces
  <2>1. m \in Posted /\ m # << >>
    BY <1>1, NoMessage DEF Past
  <2>2. m \in InHand \cup Waiting
    BY <1>1, <2>1 DEF InHand, SysVInv, SysVTypes
  <2>3. Before(m, m) /\ m[2] # SysV!Exit
    BY <2>2 DEF SysVInv, SysVOrder, SysVPlaces, Past
  <2>4. m[2] \in Nat
    BY <2>1, PostedParts
  <2> QED
    BY <2>3, <2>4 DEF Before
<1> QED
  BY <1>2, <1>3, <1>4, <1>5 DEF SysV!SentIsPrinted
-----------------------------------------------------------------------------
(* A step of the whole is a step of every program, or leaves it alone.     *)

LEMMA EachProgramSteps ==
    [MCNext]_all =>
        /\ [SemNext]_semVars /\ [EmployeeNext]_employeeVars /\ [NumberNext]_numberVars
        /\ [Shared!CounterNext]_counterVars /\ [Joins!JoinNext]_joinVars
        /\ [Mail!MailNext]_mailVars /\ [Child8!PipeNext]_pipeVars
        /\ [Echo!EchoNext]_echoVars /\ [SysV!SysVNext]_sysvVars
<1> DEFINE Steps == /\ [SemNext]_semVars /\ [EmployeeNext]_employeeVars /\ [NumberNext]_numberVars
                    /\ [Shared!CounterNext]_counterVars /\ [Joins!JoinNext]_joinVars
                    /\ [Mail!MailNext]_mailVars /\ [Child8!PipeNext]_pipeVars
                    /\ [Echo!EchoNext]_echoVars /\ [SysV!SysVNext]_sysvVars
<1>1. CASE UNCHANGED all
  BY <1>1 DEF all
<1>2. CASE In("sem", SemNext)
  BY <1>2 DEF In
<1>3. CASE In("employee", EmployeeNext)
  BY <1>3 DEF In
<1>4. CASE In("number", NumberNext)
  BY <1>4 DEF In
<1>5. CASE In("counter", Shared!CounterNext)
  BY <1>5 DEF In
<1>6. CASE In("join", Joins!JoinNext)
  BY <1>6 DEF In
<1>7. CASE In("mail", Mail!MailNext)
  BY <1>7 DEF In
<1>8. CASE In("pipe", Child8!PipeNext)
  BY <1>8 DEF In
<1>9. CASE In("echo", Echo!EchoNext)
  BY <1>9 DEF In
<1>10. CASE In("sysv", SysV!SysVNext)
  BY <1>10 DEF In
<1> QED
  BY <1>1, <1>2, <1>3, <1>4, <1>5, <1>6, <1>7, <1>8, <1>9, <1>10 DEF MCNext

(* The state of all the programs of which something is proved.             *)
ProcessesInv ==
    /\ CountInv /\ EmployeeInv /\ NumberInv /\ EchoInv /\ SharedInv /\ JoinInv /\ MailInv
    /\ SysVInv /\ PipeInv

LEMMA ProcessesInitially == MCInit => ProcessesInv
<1> SUFFICES ASSUME MCInit PROVE ProcessesInv
  OBVIOUS
<1>1. SemInit /\ EmployeeInit /\ NumberInit /\ Echo!EchoInit /\ Shared!CounterInit /\ Joins!JoinInit
      /\ Mail!MailInit /\ SysV!SysVInit /\ Child8!PipeInit
  BY DEF MCInit
<1> QED
  BY <1>1, CountInitially, EmployeeInitially, NumberInitially, EchoInitially, SharedInitially,
     JoinInitially, MailInitially, SysVInitially, PipeInitially DEF ProcessesInv

LEMMA ProcessesStay == ProcessesInv /\ [MCNext]_all => ProcessesInv'
<1> SUFFICES ASSUME ProcessesInv, [MCNext]_all PROVE ProcessesInv'
  OBVIOUS
<1> USE DEF ProcessesInv
<1>1. CountInv'
  BY EachProgramSteps, CountInvStays
<1>2. EmployeeInv'
  BY EachProgramSteps, EmployeeStays
<1>3. NumberInv'
  BY EachProgramSteps, NumberStays
<1>4. EchoInv'
  BY EachProgramSteps, EchoInvStays DEF echoVars, Echo!echoVars, Echo!serverVars
<1>5. SharedInv'
  BY EachProgramSteps, SharedStays DEF counterVars, Shared!counterVars
<1>6. JoinInv'
  BY EachProgramSteps, JoinStays DEF joinVars, Joins!joinVars
<1>7. MailInv'
  BY EachProgramSteps, MailStays DEF mailVars, Mail!mailVars, Mail!memory, Mail!faults
<1>8. SysVInv'
  BY EachProgramSteps, SysVStays DEF sysvVars, SysV!sysvVars
<1>9. PipeInv'
  BY EachProgramSteps, PipeStays DEF pipeVars, Child8!pipeVars
<1> QED
  BY <1>1, <1>2, <1>3, <1>4, <1>5, <1>6, <1>7, <1>8, <1>9

(* What every program keeps to is kept to by the program that was chosen.  *)
THEOREM ProcessesInductive == MCSpec => []ProcessesInv
<1>1. ProcessesInv /\ [MCNext]_all => ProcessesInv'
  BY ProcessesStay
<1> QED
  BY ProcessesInitially, <1>1, PTL DEF MCSpec

(* SemCounter!OneToken, of the programs side by side.                      *)
THEOREM ProcessesTokens == MCSpec => []OneToken
<1>1. ProcessesInv => OneToken
  BY DEF ProcessesInv, CountInv, SemInv
<1> QED
  BY ProcessesInductive, <1>1, PTL

(* Employee!NeverTorn, of the programs side by side.                       *)
THEOREM ProcessesNeverMix == MCSpec => []NeverTorn
<1>1. ProcessesInv => NeverTorn
  BY DEF ProcessesInv, EmployeeInv, Whole, NeverTorn, Mismatch, Parts
<1> QED
  BY ProcessesInductive, <1>1, PTL

(* NumberGen!NoSleeperForNumber, of the programs side by side.             *)
THEOREM ProcessesDoNotSleep == MCSpec => []NoSleeperForNumber
<1>1. ProcessesInv => NoSleeperForNumber
  BY DEF ProcessesInv, NumberInv
<1> QED
  BY ProcessesInductive, <1>1, PTL

(* CountsAreExact: the counter of pr10t2.c has every increment, the phase  *)
(* of pr11task3.c with the mutex loses none and the one without leaves at  *)
(* least two, and the stages of pr11task4.c come to the same sum.          *)
THEOREM NothingLost == MCSpec => []CountsAreExact
<1>1. ProcessesInv => CountsAreExact
  BY CountIsCounted, SumsAreTheirs DEF ProcessesInv, SharedInv, CountsAreExact
<1> QED
  BY ProcessesInductive, <1>1, PTL

(* EchoServer!LockStep: every client of pr14t1.c, pr14t3.c and pr14t4.c    *)
(* has at most its own line under way, and gets it back.                   *)
THEOREM AnswersInTurn == MCSpec => []LockStep
<1>1. ProcessesInv => LockStep
  BY InTurnIsLockStep DEF ProcessesInv, LockStep
<1> QED
  BY ProcessesInductive, <1>1, PTL

(* NothingSkipped: the mailbox of pr9t1 repeats and loses only what is     *)
(* charged to a crash or an end of the input, the queue of pr9t2 prints    *)
(* each line once and in order, and the pipe of pr8t3.c shows messages in  *)
(* order, from the first to the end.                                       *)
THEOREM NothingSkippedOver == MCSpec => []NothingSkipped
<1>1. ProcessesInv => NothingSkipped
  BY DebtsAreKept, SentArePrinted, FirstsAreThere DEF ProcessesInv, NothingSkipped
<1> QED
  BY ProcessesInductive, <1>1, PTL
=============================================================================
