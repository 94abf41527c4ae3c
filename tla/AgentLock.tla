----------------------------- MODULE AgentLock -----------------------------
(***************************************************************************)
(* agent_lock, the lock that every writer of .agent/ takes                 *)
(* (memory/agent_lock.py): one lock file, several processes, several       *)
(* threads in a process.  A thread first takes the in-memory guard of its  *)
(* process for this path, then loops: create the file with O_EXCL, and     *)
(* when it exists read it, judge the PID found there and unlink the file   *)
(* if that PID is dead or unreadable.  Creating the file and writing the   *)
(* PID are two system calls, and so are judging a file and unlinking it.   *)
(*                                                                         *)
(* A step of this module is one system call (or one operation on the       *)
(* guard), because that is where another process can come in between.      *)
(* Processes crash and their PIDs are used again.  Time is abstracted: a   *)
(* thread that looks at its deadline may find it passed or not.            *)
(***************************************************************************)
EXTENDS Naturals, FiniteSets

CONSTANTS
    Pids,        \* operating-system process identifiers
    Threads,     \* the threads that call agent_lock on this path
    ProcOf,      \* the process of each thread
    NoThread     \* "nobody", not a thread

ASSUME LockAssumption ==
    /\ ProcOf \in [Threads -> Pids]
    /\ NoThread \notin Threads

VARIABLES
    pc,      \* where each thread is in agent_lock
    alive,   \* the PIDs some running process has
    guard,   \* _THREAD_GUARDS[path] in each process: the thread that holds it
    file,    \* the lock file on disk, as the set of files at that path
    token,   \* what a thread read in the lock file and has not judged yet
    robbed   \* history: a stale verdict once removed the file of a live holder

vars == <<pc, alive, guard, file, token, robbed>>

(***************************************************************************)
(* The path holds no file ({}) or one file ({f}).  f.creator stands for    *)
(* the inode: a write through a descriptor whose file was unlinked does    *)
(* not reach the file that now has the name.  f.pid = {} is a file that    *)
(* was created and not yet written.                                        *)
(***************************************************************************)
LockFile == [creator : Threads, pid : {{}} \cup {{p} : p \in Pids}]

Waiting   == {"open", "read", "probe", "unlink", "late"}
Holding   == {"write", "cs", "check", "remove"}
Guarded   == Waiting \cup Holding \cup {"leave"}
Locations == {"off", "idle", "guard"} \cup Guarded

TypeOK ==
    /\ pc \in [Threads -> Locations]
    /\ alive \subseteq Pids
    /\ guard \in [Pids -> Threads \cup {NoThread}]
    /\ file \in {{}} \cup {{f} : f \in LockFile}
    /\ token \in [Threads -> {{}} \cup {{p} : p \in Pids}]
    /\ robbed \in BOOLEAN

Init ==
    /\ pc = [t \in Threads |-> "idle"]
    /\ alive = Pids
    /\ guard = [p \in Pids |-> NoThread]
    /\ file = {}
    /\ token = [t \in Threads |-> {}]
    /\ robbed = FALSE

Goto(t, from, to) ==
    /\ pc[t] = from
    /\ pc' = [pc EXCEPT ![t] = to]

\* What the path holds was created by t and is still under its name.
CreatedBy(t) == \E f \in file : f.creator = t

----------------------------------------------------------------------------
(* Entering: the guard of the process, then the file.                       *)

Acquire(t) ==
    /\ Goto(t, "idle", "guard")
    /\ UNCHANGED <<alive, guard, file, token, robbed>>

TakeGuard(t) ==
    /\ Goto(t, "guard", "open")
    /\ guard[ProcOf[t]] = NoThread
    /\ guard' = [guard EXCEPT ![ProcOf[t]] = t]
    /\ UNCHANGED <<alive, file, token, robbed>>

\* guard.acquire(timeout) gave up: TimeoutError, nothing to undo.
GuardTimeout(t) ==
    /\ Goto(t, "guard", "idle")
    /\ UNCHANGED <<alive, guard, file, token, robbed>>

\* Broken variant: the path is not resolved, another name makes another file.
CreateUnresolved(t) ==
    /\ Goto(t, "open", "write")
    /\ file' = file \cup {[creator |-> t, pid |-> {}]}
    /\ UNCHANGED <<alive, guard, token, robbed>>

\* os.open(O_CREAT | O_EXCL): the file appears empty, or FileExistsError.
Create(t) ==
    /\ file = {}
    /\ Goto(t, "open", "write")
    /\ file' = {[creator |-> t, pid |-> {}]}
    /\ UNCHANGED <<alive, guard, token, robbed>>

Exists(t) ==
    /\ file # {}
    /\ Goto(t, "open", "read")
    /\ UNCHANGED <<alive, guard, file, token, robbed>>

\* os.write of the PID: it reaches the path only if the file is still there.
WritePid(t) ==
    /\ Goto(t, "write", "cs")
    /\ file' = IF CreatedBy(t)
               THEN {[creator |-> t, pid |-> {ProcOf[t]}]}
               ELSE file
    /\ UNCHANGED <<alive, guard, token, robbed>>

\* os.write failed (disk full): not owned, so the empty file stays behind.
WriteFails(t) ==
    /\ Goto(t, "write", "leave")
    /\ UNCHANGED <<alive, guard, file, token, robbed>>

----------------------------------------------------------------------------
(* _stale_lock: read the file, judge the PID; then unlink it by name.       *)

\* Broken variant: only a dead PID makes a file stale, an empty one does not.
StaleReadPidOnly(t) ==
    /\ token' = [token EXCEPT ![t] = UNION {f.pid : f \in file}]
    /\ \/ (\A f \in file : f.pid = {}) /\ Goto(t, "read", "late")
       \/ \E f \in file : f.pid # {} /\ Goto(t, "read", "probe")
    /\ UNCHANGED <<alive, guard, file, robbed>>

\* An unreadable (vanished) file is not stale; an empty one is, at once.
StaleRead(t) ==
    /\ token' = [token EXCEPT ![t] = UNION {f.pid : f \in file}]
    /\ \/ file = {} /\ Goto(t, "read", "late")
       \/ \E f \in file : f.pid = {} /\ Goto(t, "read", "unlink")
       \/ \E f \in file : f.pid # {} /\ Goto(t, "read", "probe")
    /\ UNCHANGED <<alive, guard, file, robbed>>

\* _pid_dead: os.kill(pid, 0) on the PID that was read.
PidDead(t) == token[t] \cap alive = {}

StaleProbe(t) ==
    /\ \/ PidDead(t) /\ Goto(t, "probe", "unlink")
       \/ ~PidDead(t) /\ Goto(t, "probe", "late")
    /\ token' = [token EXCEPT ![t] = {}]
    /\ UNCHANGED <<alive, guard, file, robbed>>

\* A thread that took the file and is alive to rely on it.
LiveHolder(t) == pc[t] \in Holding

\* path.unlink() and `continue`: whatever file the name means now is gone.
UnlinkStale(t) ==
    /\ file # {}
    /\ Goto(t, "unlink", "open")
    /\ file' = {}
    /\ robbed' = (robbed \/ \E u \in Threads : LiveHolder(u) /\ CreatedBy(u))
    /\ UNCHANGED <<alive, guard, token>>

\* The file vanished first: OSError is swallowed, on to the deadline.
UnlinkMissed(t) ==
    /\ file = {}
    /\ Goto(t, "unlink", "late")
    /\ UNCHANGED <<alive, guard, file, token, robbed>>

Retry(t) ==
    /\ Goto(t, "late", "open")
    /\ UNCHANGED <<alive, guard, file, token, robbed>>

\* Broken variant: TimeoutError leaves the guard locked.
TimeoutKeepsGuard(t) ==
    /\ Goto(t, "late", "idle")
    /\ UNCHANGED <<alive, guard, file, token, robbed>>

\* Broken variant: the finally unlinks the file whether it is ours or not.
TimeoutUnlinks(t) ==
    /\ Goto(t, "late", "remove")
    /\ UNCHANGED <<alive, guard, file, token, robbed>>

\* Broken variant: the deadline is set anew on every round.
TimeoutNever(t) == FALSE

Timeout(t) ==
    /\ Goto(t, "late", "leave")
    /\ UNCHANGED <<alive, guard, file, token, robbed>>

----------------------------------------------------------------------------
(* Leaving: _unlink_if_owner, then the guard.                               *)

Exit(t) ==
    /\ Goto(t, "cs", "check")
    /\ UNCHANGED <<alive, guard, file, token, robbed>>

OwnerCheck(t) ==
    /\ \/ \E f \in file : f.pid = {ProcOf[t]} /\ Goto(t, "check", "remove")
       \/ (\A f \in file : f.pid # {ProcOf[t]}) /\ Goto(t, "check", "leave")
    /\ UNCHANGED <<alive, guard, file, token, robbed>>

Remove(t) ==
    /\ Goto(t, "remove", "leave")
    /\ file' = {}
    /\ UNCHANGED <<alive, guard, token, robbed>>

ReleaseGuard(t) ==
    /\ Goto(t, "leave", "idle")
    /\ guard' = [guard EXCEPT ![ProcOf[t]] = NoThread]
    /\ UNCHANGED <<alive, file, token, robbed>>

----------------------------------------------------------------------------
(* The processes: a crash loses the guard and leaves the file; a new        *)
(* process may later be given the same PID.                                 *)

Crash(p) ==
    /\ p \in alive
    /\ alive' = alive \ {p}
    /\ pc' = [t \in Threads |-> IF ProcOf[t] = p THEN "off" ELSE pc[t]]
    /\ guard' = [guard EXCEPT ![p] = NoThread]
    /\ token' = [t \in Threads |-> IF ProcOf[t] = p THEN {} ELSE token[t]]
    /\ UNCHANGED <<file, robbed>>

Start(p) ==
    /\ p \in Pids \ alive
    /\ alive' = alive \cup {p}
    /\ pc' = [t \in Threads |-> IF ProcOf[t] = p THEN "idle" ELSE pc[t]]
    /\ UNCHANGED <<guard, file, token, robbed>>

----------------------------------------------------------------------------
\* What a thread inside agent_lock does of its own accord.
Enter(t)     == TakeGuard(t) \/ GuardTimeout(t) \/ Create(t) \/ Exists(t)
                \/ WritePid(t)
StaleLock(t) == StaleRead(t) \/ StaleProbe(t) \/ UnlinkStale(t)
                \/ UnlinkMissed(t) \/ Retry(t) \/ Timeout(t)
Leave(t)     == Exit(t) \/ OwnerCheck(t) \/ Remove(t) \/ ReleaseGuard(t)
Advance(t)   == Enter(t) \/ StaleLock(t) \/ Leave(t)

Next ==
    \/ \E t \in Threads : Acquire(t) \/ Advance(t) \/ WriteFails(t)
    \/ \E p \in Pids : Crash(p) \/ Start(p)

Spec == Init /\ [][Next]_vars

(***************************************************************************)
(* Fairness: the scheduler runs every thread that is inside agent_lock and *)
(* the body of the lock ends; time passes, so a thread that looks at its   *)
(* deadline again and again at last finds it passed.  Nobody is obliged to *)
(* call agent_lock, to crash or to start.                                  *)
(***************************************************************************)
Fairness == \A t \in Threads : WF_vars(Advance(t)) /\ SF_vars(Timeout(t))

FairSpec == Spec /\ Fairness

----------------------------------------------------------------------------
(* Properties.                                                              *)

\* Exclusion between the threads of one process: two threads of a process
\* are never both past the guard (agent_lock.py:17,113-116).
ThreadMutex ==
    \A t, u \in Threads :
        (t # u /\ ProcOf[t] = ProcOf[u]) => ~(pc[t] \in Guarded /\ pc[u] \in Guarded)

\* The guard is held by the thread past it, whichever way that thread goes
\* on: success, TimeoutError, a failed write (the finally of agent_lock).  A
\* guard left behind would block the process for good.
GuardExact ==
    \A p \in Pids : \A t \in Threads :
        guard[p] = t <=> (ProcOf[t] = p /\ pc[t] \in Guarded)

\* Exclusion between processes holds as long as no stale verdict was carried
\* out on the file of a live holder: O_EXCL, the PID check of the release and
\* a crash at any point are not by themselves a way to two holders.
MutexUnlessRobbed ==
    ~robbed => \A t, u \in Threads : (LiveHolder(t) /\ LiveHolder(u)) => t = u

\* "An exclusive lock": two threads never run the body of the lock at once
\* (the docstring of agent_lock, agent_lock.py:98).
Mutex == \A t, u \in Threads : (pc[t] = "cs" /\ pc[u] = "cs") => t = u

\* The file as _stale_lock judges it now: empty, or the PID is dead.
Stale == \E f \in file : f.pid \cap alive = {}

\* What a crash, or a failed write, leaves behind does not block the next
\* caller: a stale file is gone (or written by its creator) once some thread
\* tries to open it, unless that thread dies first.
StaleReclaimed ==
    \A t \in Threads : (Stale /\ pc[t] = "open") ~> (~Stale \/ pc[t] = "off")

\* No new call to agent_lock from some moment on.
Quiet == <>[][~ \E t \in Threads : Acquire(t)]_vars

\* "On timeout, TimeoutError" (agent_lock.py:101): every call ends, in the
\* body or with TimeoutError, whatever crashes.  Only once no new calls keep
\* arriving: after unlinking a stale file the loop goes on without looking at
\* the deadline, so a caller can be kept busy for as long as others create.
CallEnds ==
    Quiet => \A t \in Threads : (pc[t] = "guard") ~> (pc[t] \in {"cs", "idle", "off"})

=============================================================================
