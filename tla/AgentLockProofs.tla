-------------------------- MODULE AgentLockProofs --------------------------
(***************************************************************************)
(* Module AgentLock for any number of processes and threads.               *)
(*                                                                         *)
(* Exclusion inside a process rests on the guard.  Between processes it    *)
(* rests on the file: as long as no live holder was robbed of its file,    *)
(* the one file at the path is the holder's (HolderHasFile), so there is   *)
(* one holder.                                                             *)
(***************************************************************************)
EXTENDS AgentLock, TLAPS

\* The threads of a process that does not run are nowhere.
DeadAreOff == \A t \in Threads : ProcOf[t] \notin alive => pc[t] = "off"

\* Whoever took the file and was not robbed still has it at the path.
HolderHasFile == ~robbed => \A t \in Threads : LiveHolder(t) => CreatedBy(t)

IInv == TypeOK /\ DeadAreOff /\ GuardExact /\ HolderHasFile

\* At most one file has the name.
LEMMA OneCreator ==
    ASSUME TypeOK, NEW t \in Threads, NEW u \in Threads, CreatedBy(t), CreatedBy(u)
    PROVE  t = u
BY DEF TypeOK, CreatedBy

LEMMA InitInvariant == Init => IInv
BY LockAssumption DEF Init, IInv, TypeOK, DeadAreOff, GuardExact, HolderHasFile,
   Locations, Guarded, Waiting, Holding, LiveHolder

----------------------------------------------------------------------------
(* Steps that move one thread between two locations on the same side of     *)
(* the guard, and leave the file or rewrite it as that thread's.            *)

LEMMA MoveKeepsGuard ==
    ASSUME IInv, NEW t \in Threads, NEW from \in Locations, NEW to \in Locations,
           Goto(t, from, to), from # "off", UNCHANGED <<alive, guard>>,
           from \in Guarded <=> to \in Guarded
    PROVE  DeadAreOff' /\ GuardExact' /\ pc' \in [Threads -> Locations]
<1>1. pc' \in [Threads -> Locations]
  BY DEF Goto, IInv, TypeOK
<1>2. \A u \in Threads : pc'[u] = IF u = t THEN to ELSE pc[u]
  BY DEF Goto, IInv, TypeOK
<1>3. DeadAreOff'
  BY <1>2 DEF Goto, IInv, DeadAreOff
<1>4. GuardExact'
  BY <1>2 DEF Goto, IInv, GuardExact
<1> QED
  BY <1>1, <1>3, <1>4

\* No file changes, and nobody becomes a holder.
LEMMA MoveKeepsFile ==
    ASSUME IInv, NEW t \in Threads, NEW from \in Locations, NEW to \in Locations,
           Goto(t, from, to), to \in Holding => from \in Holding,
           UNCHANGED <<file, robbed>>
    PROVE  HolderHasFile'
<1>1. \A u \in Threads : LiveHolder(u)' => LiveHolder(u)
  BY DEF Goto, IInv, TypeOK, LiveHolder
<1> QED
  BY <1>1 DEF IInv, HolderHasFile, CreatedBy

\* Both, for the steps that also leave what was read alone or read anew.
LEMMA MoveKeeps ==
    ASSUME IInv, NEW t \in Threads, NEW from \in Locations, NEW to \in Locations,
           Goto(t, from, to), from # "off",
           from \in Guarded <=> to \in Guarded,
           to \in Holding => from \in Holding,
           UNCHANGED <<alive, guard, file, robbed>>,
           token' \in [Threads -> {{}} \cup {{p} : p \in Pids}]
    PROVE  IInv'
<1>1. DeadAreOff' /\ GuardExact' /\ pc' \in [Threads -> Locations]
  BY MoveKeepsGuard
<1>2. HolderHasFile'
  BY MoveKeepsFile
<1>3. TypeOK'
  BY <1>1 DEF IInv, TypeOK
<1> QED
  BY <1>1, <1>2, <1>3 DEF IInv

----------------------------------------------------------------------------
(* The steps of the guard.                                                  *)

LEMMA TakeGuardKeeps ==
    ASSUME IInv, NEW t \in Threads, TakeGuard(t)
    PROVE  IInv'
<1>1. \A u \in Threads : pc'[u] = IF u = t THEN "open" ELSE pc[u]
  BY DEF TakeGuard, Goto, IInv, TypeOK
<1>2. \A p \in Pids : guard'[p] = IF p = ProcOf[t] THEN t ELSE guard[p]
  BY DEF TakeGuard, IInv, TypeOK
<1>3. ProcOf[t] \in Pids /\ NoThread \notin Threads
  BY LockAssumption
<1>4. TypeOK'
  BY <1>3 DEF TakeGuard, Goto, IInv, TypeOK, Locations, Guarded, Waiting
<1>5. DeadAreOff'
  BY <1>1 DEF TakeGuard, Goto, IInv, DeadAreOff
<1>6. GuardExact'
  BY <1>1, <1>2, <1>3 DEF TakeGuard, Goto, IInv, GuardExact, Guarded, Waiting
<1>7. HolderHasFile'
  BY MoveKeepsFile DEF TakeGuard, Locations, Guarded, Waiting, Holding
<1> QED
  BY <1>4, <1>5, <1>6, <1>7 DEF IInv

LEMMA ReleaseGuardKeeps ==
    ASSUME IInv, NEW t \in Threads, ReleaseGuard(t)
    PROVE  IInv'
<1>1. \A u \in Threads : pc'[u] = IF u = t THEN "idle" ELSE pc[u]
  BY DEF ReleaseGuard, Goto, IInv, TypeOK
<1>2. \A p \in Pids : guard'[p] = IF p = ProcOf[t] THEN NoThread ELSE guard[p]
  BY DEF ReleaseGuard, IInv, TypeOK
<1>3. ProcOf[t] \in Pids /\ NoThread \notin Threads
  BY LockAssumption
<1>4. guard[ProcOf[t]] = t
  BY <1>3 DEF ReleaseGuard, Goto, IInv, GuardExact, Guarded
<1>5. TypeOK'
  BY <1>3 DEF ReleaseGuard, Goto, IInv, TypeOK, Locations
<1>6. DeadAreOff'
  BY <1>1 DEF ReleaseGuard, Goto, IInv, DeadAreOff
<1>7. GuardExact'
  BY <1>1, <1>2, <1>3, <1>4 DEF IInv, GuardExact, Guarded, Waiting, Holding
<1>8. HolderHasFile'
  BY MoveKeepsFile DEF ReleaseGuard, Locations, Guarded, Waiting, Holding
<1> QED
  BY <1>5, <1>6, <1>7, <1>8 DEF IInv

----------------------------------------------------------------------------
(* The steps that change the file.                                          *)

\* O_EXCL: there was no file, so (unless someone was robbed) no holder.
LEMMA CreateKeeps ==
    ASSUME IInv, NEW t \in Threads, Create(t)
    PROVE  IInv'
<1>1. DeadAreOff' /\ GuardExact' /\ pc' \in [Threads -> Locations]
  BY MoveKeepsGuard DEF Create, Locations, Guarded, Waiting, Holding
<1>2. \A u \in Threads : pc'[u] = IF u = t THEN "write" ELSE pc[u]
  BY DEF Create, Goto, IInv, TypeOK
<1>3. [creator |-> t, pid |-> {}] \in LockFile
  BY DEF LockFile
<1>4. TypeOK'
  BY <1>1, <1>3 DEF Create, IInv, TypeOK
<1>5. HolderHasFile'
  <2> SUFFICES ASSUME ~robbed, NEW u \in Threads, LiveHolder(u)'
               PROVE  CreatedBy(u)'
    BY DEF HolderHasFile, Create
  <2>1. CASE u = t
    BY <2>1 DEF Create, CreatedBy
  <2>2. CASE u # t
    BY <2>2, <1>2 DEF LiveHolder, IInv, HolderHasFile, Create, CreatedBy
  <2> QED
    BY <2>1, <2>2
<1> QED
  BY <1>1, <1>4, <1>5 DEF IInv

\* The write keeps the creator, or does not reach the path.
LEMMA WritePidKeeps ==
    ASSUME IInv, NEW t \in Threads, WritePid(t)
    PROVE  IInv'
<1>1. DeadAreOff' /\ GuardExact' /\ pc' \in [Threads -> Locations]
  BY MoveKeepsGuard DEF WritePid, Locations, Guarded, Waiting, Holding
<1>2. \A u \in Threads : pc'[u] = IF u = t THEN "cs" ELSE pc[u]
  BY DEF WritePid, Goto, IInv, TypeOK
<1>3. [creator |-> t, pid |-> {ProcOf[t]}] \in LockFile
  BY LockAssumption DEF LockFile
<1>4. TypeOK'
  BY <1>1, <1>3 DEF WritePid, IInv, TypeOK
<1>5. \A u \in Threads : CreatedBy(u) => CreatedBy(u)'
  <2> SUFFICES ASSUME NEW u \in Threads, CreatedBy(u)
               PROVE  CreatedBy(u)'
    OBVIOUS
  <2>1. CASE CreatedBy(t)
    <3>1. u = t
      BY <2>1, OneCreator DEF IInv
    <3> QED
      BY <2>1, <3>1 DEF WritePid, CreatedBy
  <2>2. CASE ~CreatedBy(t)
    BY <2>2 DEF WritePid, CreatedBy
  <2> QED
    BY <2>1, <2>2
<1>6. \A u \in Threads : LiveHolder(u)' => LiveHolder(u)
  BY <1>2 DEF WritePid, Goto, LiveHolder, Holding
<1>7. HolderHasFile'
  BY <1>5, <1>6 DEF IInv, HolderHasFile, WritePid
<1> QED
  BY <1>1, <1>4, <1>7 DEF IInv

\* A stale verdict carried out: whoever is still a holder has been robbed.
LEMMA UnlinkStaleKeeps ==
    ASSUME IInv, NEW t \in Threads, UnlinkStale(t)
    PROVE  IInv'
<1>1. DeadAreOff' /\ GuardExact' /\ pc' \in [Threads -> Locations]
  BY MoveKeepsGuard DEF UnlinkStale, Locations, Guarded, Waiting, Holding
<1>2. \A u \in Threads : LiveHolder(u)' => LiveHolder(u)
  BY DEF UnlinkStale, Goto, IInv, TypeOK, LiveHolder, Holding
<1>3. robbed' \in BOOLEAN
  BY DEF UnlinkStale, IInv, TypeOK
<1>4. TypeOK'
  BY <1>1, <1>3 DEF UnlinkStale, IInv, TypeOK
<1>5. HolderHasFile'
  BY <1>2 DEF UnlinkStale, IInv, HolderHasFile
<1> QED
  BY <1>1, <1>4, <1>5 DEF IInv

\* The release removes the file of the one holder there can be.
LEMMA RemoveKeeps ==
    ASSUME IInv, NEW t \in Threads, Remove(t)
    PROVE  IInv'
<1>1. DeadAreOff' /\ GuardExact' /\ pc' \in [Threads -> Locations]
  BY MoveKeepsGuard DEF Remove, Locations, Guarded, Waiting, Holding
<1>2. \A u \in Threads : pc'[u] = IF u = t THEN "leave" ELSE pc[u]
  BY DEF Remove, Goto, IInv, TypeOK
<1>3. TypeOK'
  BY <1>1 DEF Remove, IInv, TypeOK
<1>4. HolderHasFile'
  <2> SUFFICES ASSUME ~robbed, NEW u \in Threads, LiveHolder(u)'
               PROVE  FALSE
    BY DEF HolderHasFile, Remove
  <2>1. u # t /\ LiveHolder(u)
    BY <1>2 DEF LiveHolder, Holding
  <2>2. LiveHolder(t)
    BY DEF Remove, Goto, LiveHolder, Holding
  <2> QED
    BY <2>1, <2>2, OneCreator DEF IInv, HolderHasFile
<1> QED
  BY <1>1, <1>3, <1>4 DEF IInv

----------------------------------------------------------------------------
(* The steps of the processes.                                              *)

LEMMA CrashKeeps ==
    ASSUME IInv, NEW p \in Pids, Crash(p)
    PROVE  IInv'
<1>1. \A t \in Threads : pc'[t] = IF ProcOf[t] = p THEN "off" ELSE pc[t]
  BY DEF Crash
<1>2. \A q \in Pids : guard'[q] = IF q = p THEN NoThread ELSE guard[q]
  BY DEF Crash, IInv, TypeOK
<1>3. TypeOK'
  <2>1. pc' \in [Threads -> Locations]
    BY DEF Crash, IInv, TypeOK, Locations
  <2>2. token' \in [Threads -> {{}} \cup {{q} : q \in Pids}]
    BY DEF Crash, IInv, TypeOK
  <2>3. guard' \in [Pids -> Threads \cup {NoThread}]
    BY DEF Crash, IInv, TypeOK
  <2> QED
    BY <2>1, <2>2, <2>3 DEF Crash, IInv, TypeOK
<1>4. DeadAreOff'
  BY <1>1 DEF Crash, IInv, DeadAreOff
<1>5. GuardExact'
  BY <1>1, <1>2, LockAssumption DEF IInv, GuardExact, Guarded, Waiting, Holding
<1>6. HolderHasFile'
  BY <1>1 DEF Crash, IInv, HolderHasFile, LiveHolder, Holding, CreatedBy
<1> QED
  BY <1>3, <1>4, <1>5, <1>6 DEF IInv

LEMMA StartKeeps ==
    ASSUME IInv, NEW p \in Pids, Start(p)
    PROVE  IInv'
<1>1. \A t \in Threads : pc'[t] = IF ProcOf[t] = p THEN "idle" ELSE pc[t]
  BY DEF Start
<1>2. \A t \in Threads : ProcOf[t] = p => pc[t] = "off"
  BY DEF Start, IInv, DeadAreOff
<1>3. TypeOK'
  <2>1. pc' \in [Threads -> Locations]
    BY DEF Start, IInv, TypeOK, Locations
  <2> QED
    BY <2>1 DEF Start, IInv, TypeOK
<1>4. DeadAreOff'
  BY <1>1 DEF Start, IInv, DeadAreOff
<1>5. GuardExact'
  BY <1>1, <1>2 DEF Start, IInv, GuardExact, Guarded, Waiting, Holding
<1>6. HolderHasFile'
  BY <1>1 DEF Start, IInv, HolderHasFile, LiveHolder, Holding, CreatedBy
<1> QED
  BY <1>3, <1>4, <1>5, <1>6 DEF IInv

----------------------------------------------------------------------------
LEMMA NextInvariant == IInv /\ [Next]_vars => IInv'
<1> SUFFICES ASSUME IInv, [Next]_vars
             PROVE  IInv'
  OBVIOUS
<1> USE DEF Locations, Guarded, Waiting, Holding
<1>1. ASSUME NEW t \in Threads, \/ Acquire(t) \/ GuardTimeout(t) \/ Exists(t)
                                \/ WriteFails(t) \/ UnlinkMissed(t) \/ Retry(t)
                                \/ Timeout(t) \/ Exit(t) \/ OwnerCheck(t)
      PROVE  IInv'
  <2>1. token' = token /\ UNCHANGED <<alive, file, robbed, guard>>
    BY <1>1 DEF Acquire, GuardTimeout, Exists, WriteFails, UnlinkMissed, Retry, Timeout,
                Exit, OwnerCheck
  <2>2. token' \in [Threads -> {{}} \cup {{p} : p \in Pids}]
    BY <2>1 DEF IInv, TypeOK
  <2> QED
    BY <1>1, <2>1, <2>2, MoveKeeps
    DEF Acquire, GuardTimeout, Exists, WriteFails, UnlinkMissed, Retry, Timeout, Exit,
        OwnerCheck
<1>2. ASSUME NEW t \in Threads, StaleRead(t)
      PROVE  IInv'
  <2>1. UNION {f.pid : f \in file} \in {{}} \cup {{p} : p \in Pids}
    BY DEF IInv, TypeOK, LockFile
  <2>2. token' \in [Threads -> {{}} \cup {{p} : p \in Pids}]
    BY <1>2, <2>1 DEF StaleRead, IInv, TypeOK
  <2> QED
    BY <1>2, <2>2, MoveKeeps DEF StaleRead
<1>3. ASSUME NEW t \in Threads, StaleProbe(t)
      PROVE  IInv'
  <2>1. token' \in [Threads -> {{}} \cup {{p} : p \in Pids}]
    BY <1>3 DEF StaleProbe, IInv, TypeOK
  <2> QED
    BY <1>3, <2>1, MoveKeeps DEF StaleProbe
<1>4. CASE UNCHANGED vars
  BY <1>4 DEF vars, IInv, TypeOK, DeadAreOff, GuardExact, HolderHasFile, LiveHolder,
              CreatedBy
<1> QED
  BY <1>1, <1>2, <1>3, <1>4, TakeGuardKeeps, ReleaseGuardKeeps, CreateKeeps,
     WritePidKeeps, UnlinkStaleKeeps, RemoveKeeps, CrashKeeps, StartKeeps
  DEF Next, Advance, Enter, StaleLock, Leave

LEMMA Invariance == Spec => []IInv
BY InitInvariant, NextInvariant, PTL DEF Spec

----------------------------------------------------------------------------
(* The theorems.                                                            *)

\* Every variable keeps its type.
THEOREM TypeCorrect == Spec => []TypeOK
BY Invariance, PTL DEF IInv

\* The guard of a process is held exactly by its thread that is past it: no
\* timeout, failed write or crash leaves it locked (agent_lock.py:117-143).
THEOREM GuardNeverLeaks == Spec => []GuardExact
BY Invariance, PTL DEF IInv

\* Two threads of one process are never both past the guard.
THEOREM ThreadsExclude == Spec => []ThreadMutex
<1>1. IInv => ThreadMutex
  BY LockAssumption DEF IInv, GuardExact, ThreadMutex
<1> QED
  BY <1>1, Invariance, PTL

\* Two holders can only come of a stale verdict carried out on the file of a
\* live one.
THEOREM ExclusionUnlessRobbed == Spec => []MutexUnlessRobbed
<1>1. IInv => MutexUnlessRobbed
  BY OneCreator DEF IInv, HolderHasFile, MutexUnlessRobbed
<1> QED
  BY <1>1, Invariance, PTL
=============================================================================
