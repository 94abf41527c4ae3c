----------------------------- MODULE MemoryFile -----------------------------
(***************************************************************************)
(* The institutional memory of a workspace (memory/store.py): a markdown   *)
(* file in the home directory that every process of every clone updates.   *)
(* update_memory takes a lock file, reads, merges, writes a temporary file *)
(* of one fixed name and renames it.  _file_lock is not agent_lock: it     *)
(* does not look at who holds the file, goes on without it when ten        *)
(* seconds are over or the file cannot be made, and removes it at the end  *)
(* in any case.  read_memory turns every failure to read into an empty     *)
(* memory, which update_memory then writes over the file.                  *)
(* The caps of _compact are left out: the file is below them.              *)
(***************************************************************************)
EXTENDS FiniteSets

CONSTANTS
    Updaters,     \* the processes that call update_memory, once each
    NoUpdater     \* no lock file, and no temporary file

ASSUME MemoryAssumption == NoUpdater \notin Updaters

VARIABLES
    memLock,      \* who made the lock file that is there
    memAt,        \* where each process is
    memRead,      \* the patterns each process read and merged
    memTmp,       \* who wrote the temporary file last, and is it complete
    memTmpHas,    \* its patterns
    memFile,      \* the patterns of the memory file; a pattern is its updater
    memTorn,      \* the memory file is an incomplete write
    unlocked,     \* history: somebody went on without the lock
    unread        \* history: the patterns a failed read took for nothing

memVars == <<memLock, memAt, memRead, memTmp, memTmpHas, memFile, memTorn,
             unlocked, unread>>
tmpVars == <<memTmp, memTmpHas>>
fileVars == <<memFile, memTorn>>

\* The file that was opened as the temporary one may have been renamed since:
\* then it is the memory file, and after another rename it has no name.
Opened   == {"write", "overwrite", "astray"}
MemSteps == Opened \cup {"idle", "read", "open", "replace", "unlink", "done",
                         "raised", "dead"}

MemTypeOK ==
    /\ memLock \in Updaters \cup {NoUpdater}
    /\ memAt \in [Updaters -> MemSteps]
    /\ memRead \in [Updaters -> SUBSET Updaters]
    /\ memTmp \in {"none", "partial", "whole"}
    /\ memTmpHas \subseteq Updaters /\ memFile \subseteq Updaters
    /\ memTorn \in BOOLEAN /\ unlocked \in BOOLEAN /\ unread \subseteq Updaters

MemInit ==
    /\ memLock = NoUpdater /\ memAt = [u \in Updaters |-> "idle"]
    /\ memRead = [u \in Updaters |-> {}]
    /\ memTmp = "none" /\ memTmpHas = {}
    /\ memFile = {} /\ memTorn = FALSE /\ unlocked = FALSE /\ unread = {}

MemGoes(u, from, to) == memAt[u] = from /\ memAt' = [memAt EXCEPT ![u] = to]

\* The lock file is opened without O_EXCL.
MakeLockBroken(u) ==
    /\ MemGoes(u, "idle", "read") /\ memLock' = u
    /\ UNCHANGED <<memRead, tmpVars, fileVars, unlocked, unread>>

\* Its PID may not get into the file; that changes nothing.
MakeLock(u) ==
    /\ MemGoes(u, "idle", "read") /\ memLock = NoUpdater /\ memLock' = u
    /\ UNCHANGED <<memRead, tmpVars, fileVars, unlocked, unread>>

\* Ten seconds of a file that exists, its maker at work or dead; or, at once,
\* any other error of os.open.
GoUnlocked(u) ==
    /\ MemGoes(u, "idle", "read") /\ unlocked' = TRUE
    /\ UNCHANGED <<memLock, memRead, tmpVars, fileVars, unread>>

\* read_memory and _merge_patterns: a read that fails, with the lock or
\* without, is an empty memory; of a torn file some patterns are found.
ReadAndMerge(u) ==
    /\ MemGoes(u, "read", "open")
    /\ \E found \in SUBSET memFile :
         /\ memTorn \/ found \in {memFile, {}}
         /\ memRead' = [memRead EXCEPT ![u] = found \cup {u}]
         /\ unread' = unread \cup (memFile \ found)
    /\ UNCHANGED <<memLock, tmpVars, fileVars, unlocked>>

OpenTmp(u) ==
    /\ MemGoes(u, "open", "write") /\ memTmp' = "partial"
    /\ UNCHANGED <<memLock, memRead, memTmpHas, fileVars, unlocked, unread>>

\* The text goes to the file that was opened, whatever it is called by now.
FillTmp(u) ==
    /\ \/ /\ MemGoes(u, "write", "replace") /\ UNCHANGED fileVars
          /\ memTmp' = "whole" /\ memTmpHas' = memRead[u]
       \/ /\ MemGoes(u, "overwrite", "replace") /\ UNCHANGED tmpVars
          /\ memFile' = memRead[u] /\ memTorn' = FALSE
       \/ MemGoes(u, "astray", "replace") /\ UNCHANGED <<tmpVars, fileVars>>
    /\ UNCHANGED <<memLock, memRead, unlocked, unread>>

\* The rename, of the temporary file that is there: maybe another's, and maybe
\* one that another is about to write.
Renamed(step) == CASE step = "write" -> "overwrite" [] step = "overwrite" -> "astray"
                   [] OTHER -> step
ReplaceMemory(u) ==
    /\ memAt[u] = "replace" /\ memTmp # "none"
    /\ memAt' = [v \in Updaters |-> IF v = u THEN "unlink" ELSE Renamed(memAt[v])]
    /\ memFile' = memTmpHas /\ memTorn' = (memTmp = "partial")
    /\ memTmp' = "none"
    /\ UNCHANGED <<memLock, memRead, memTmpHas, unlocked, unread>>

\* _file_lock's end: whoever made it; a failure to remove it is ignored.
LockEnds == memLock' \in {NoUpdater, memLock}

RemoveLock(u) ==
    /\ MemGoes(u, "unlink", "done") /\ LockEnds
    /\ UNCHANGED <<memRead, tmpVars, fileVars, unlocked, unread>>

\* The temporary file cannot be made, filled or renamed: another process may
\* have taken it away.
UpdateRaises(u) ==
    /\ memAt[u] \in Opened \cup {"open", "replace"} /\ LockEnds
    /\ memAt' = [memAt EXCEPT ![u] = "raised"]
    /\ UNCHANGED <<memRead, tmpVars, fileVars, unlocked, unread>>

\* Its lock file stays.
UpdaterDies(u) ==
    /\ memAt[u] \notin {"idle", "done", "raised", "dead"}
    /\ memAt' = [memAt EXCEPT ![u] = "dead"]
    /\ UNCHANGED <<memLock, memRead, tmpVars, fileVars, unlocked, unread>>

MemUpdaterNext(u) ==
    \/ MakeLock(u) \/ GoUnlocked(u) \/ ReadAndMerge(u) \/ OpenTmp(u)
    \/ FillTmp(u) \/ ReplaceMemory(u) \/ RemoveLock(u) \/ UpdateRaises(u)

MemNext == \E u \in Updaters : MemUpdaterNext(u) \/ UpdaterDies(u)

----------------------------------------------------------------------------
(* As long as nobody has gone on without the lock, the memory file is whole *)
(* and has what every finished update merged, wherever a process died or    *)
(* failed to write.  What a read that failed took for nothing is excepted:  *)
(* the code loses it, and only it (update_memory, _file_lock, read_memory). *)
MergesKept ==
    ~unlocked =>
        /\ ~memTorn
        /\ \A u \in Updaters :
             memAt[u] \in {"unlink", "done"} => u \in memFile \cup unread
=============================================================================
