---------------------------- MODULE SelfHosted -----------------------------
(***************************************************************************)
(* One call of the self_hosted backend                                     *)
(* (memory/local_mcp/backends/self_hosted.py).  After the checks the       *)
(* calling thread watches the runner's _diag directory until the deadline, *)
(* the cancel event, or the end of the run.sh it started; run.sh itself is *)
(* started by stream_cli on a second, daemon thread.  An ephemeral runner  *)
(* may delete _diag before it ends, so both threads copy what they see of  *)
(* it: from fanotify events, which keep a deleted file readable, or, where *)
(* fanotify is not permitted, from the files that are there.               *)
(***************************************************************************)
EXTENDS Naturals

CONSTANT MaxWrites   \* bound: how often a log below _diag is written

ASSUME HostedAssumption == MaxWrites \in Nat

VARIABLES
    conf,      \* configuration: may run.sh be started, ephemeral, fanotify
    listener,  \* a listener of this runner that was up before: "up", "down"
    hAt,       \* where the calling thread is
    runsh,     \* run.sh: "none", "running", "zero", "nonzero", "killed"
    held,      \* a process that run.sh left holds its pipes
    streamed,  \* the stream thread: "none", "running", or its result
    dueCause,  \* what is set or over: of {"cancelled", "timed_out"}
    writes,    \* history: how often a log below _diag was written
    diag,      \* the logs below _diag: how many are there to read
    watch,     \* the directory that is written to, for fanotify
    events,    \* fanotify: the last write whose event is queued, or 0
    noticed,   \* history: the last write below a marked directory
    kept,      \* _DiagSnap._best: the last write it has a copy of
    drained,   \* history: what was noticed before the last drain
    lastSize,  \* the Worker bytes at the last sample; the first is a baseline
    seen,      \* the Worker bytes grew in this window
    grew,      \* and were growing at its end
    tail,      \* the last write that the log tail holds
    outcome    \* HostedOutcome.status

hostedVars == <<conf, listener, hAt, runsh, held, streamed, dueCause, writes, diag,
                watch, events, noticed, kept, drained, lastSize, seen, grew, tail,
                outcome>>

runVars   == <<runsh, held, streamed>>
diagVars  == <<writes, diag, watch, events, noticed, kept, drained>>
watchVars == <<lastSize, seen, grew>>

HostedTypeOK ==
    /\ conf \in [start : BOOLEAN, ephemeral : BOOLEAN, fan : BOOLEAN]
    /\ listener \in {"up", "down"}
    /\ hAt \in {"start", "watch", "join", "drain", "read", "done"}
    /\ runsh \in {"none", "running", "zero", "nonzero", "killed"}
    /\ held \in BOOLEAN /\ seen \in BOOLEAN /\ grew \in BOOLEAN
    /\ streamed \in {"none", "running", "zero", "nonzero", "timed_out",
                     "cancelled", "missing", "raised"}
    /\ dueCause \subseteq {"cancelled", "timed_out"}
    /\ writes \in 0 .. MaxWrites /\ diag \in 0 .. MaxWrites
    /\ watch \in {"absent", "unmarked", "marked", "stale"}
    /\ events \in 0 .. MaxWrites /\ noticed \in 0 .. MaxWrites /\ kept \in 0 .. MaxWrites
    /\ drained \in 0 .. MaxWrites /\ lastSize \in 0 .. MaxWrites
    /\ tail \in 0 .. MaxWrites
    /\ outcome \in {"none", "refused", "cancelled", "succeeded", "failed",
                    "timed_out", "idle", "raised"}

HostedInit ==
    /\ conf \in [start : BOOLEAN, ephemeral : BOOLEAN, fan : BOOLEAN]
    /\ listener \in {"up", "down"} /\ hAt = "start"
    /\ runsh = "none" /\ held = FALSE /\ streamed = "none" /\ dueCause = {}
    /\ watch \in {"absent", "marked"}
    /\ writes = 0 /\ diag = 0 /\ events = 0 /\ noticed = 0 /\ kept = 0 /\ drained = 0
    /\ lastSize = MaxWrites /\ seen = FALSE /\ grew = FALSE /\ tail = 0
    /\ outcome = "none"

----------------------------------------------------------------------------
(* The runner, the clock and the caller.                                    *)

Runner == runsh = "running" \/ listener = "up" \/ held

\* A log is written and closed, perhaps in a directory made for it.  fanotify
\* queues an event if the directory was marked.
LogWritten ==
    /\ Runner /\ hAt # "start" /\ writes < MaxWrites
    /\ writes' = writes + 1 /\ diag' = diag + 1
    /\ IF conf.fan /\ conf.ephemeral /\ hAt # "done" /\ watch = "marked"
       THEN events' = writes' /\ noticed' = writes'
       ELSE UNCHANGED <<events, noticed>>
    /\ watch' = IF watch = "absent" THEN "unmarked" ELSE watch
    /\ UNCHANGED <<conf, listener, hAt, dueCause, kept, drained, tail, outcome>>
    /\ UNCHANGED <<runVars, watchVars>>

\* The logs are deleted, with or without their directory.  One that is made
\* again under a name that was marked is not marked again (_marked).
DiagRemoved ==
    /\ Runner /\ conf.ephemeral /\ diag > 0 /\ diag' = 0
    /\ \/ UNCHANGED watch
       \/ watch' = IF watch = "unmarked" THEN "absent" ELSE "stale"
    /\ UNCHANGED <<conf, listener, hAt, dueCause, writes, events, noticed, kept,
                   drained, tail, outcome>> /\ UNCHANGED <<runVars, watchVars>>

RunShExits ==
    /\ runsh = "running" /\ runsh' \in {"zero", "nonzero"}
    /\ held' \in BOOLEAN
    /\ UNCHANGED <<conf, listener, hAt, streamed, dueCause, tail, outcome>>
    /\ UNCHANGED <<diagVars, watchVars>>

LetsGo ==
    /\ held /\ held' = FALSE
    /\ UNCHANGED <<conf, listener, hAt, runsh, streamed, dueCause, tail, outcome>>
    /\ UNCHANGED <<diagVars, watchVars>>

HostedDue(c) ==
    /\ hAt # "done" /\ c \notin dueCause /\ dueCause' = dueCause \cup {c}
    /\ UNCHANGED <<conf, listener, hAt, tail, outcome>>
    /\ UNCHANGED <<runVars, diagVars, watchVars>>

----------------------------------------------------------------------------
(* The stream thread: stream_cli, with before_reap ahead of every look at   *)
(* the child.                                                               *)

\* drain_and_flush: what directory is there is marked, then the events are
\* drained; without fanotify the files that are there are read.
Drain ==
    /\ watch' = IF watch = "unmarked" THEN "marked" ELSE watch
    /\ IF ~conf.ephemeral THEN UNCHANGED <<events, kept>>
       ELSE IF conf.fan
       THEN kept' = (IF events > 0 THEN events ELSE kept) /\ events' = 0
       ELSE kept' = (IF diag > 0 THEN writes ELSE kept) /\ UNCHANGED events

\* After the kill the lines that wait go to the log, which may raise.
StreamCut(c) ==
    /\ streamed = "running" /\ runsh = "running" /\ c \in dueCause
    /\ runsh' = "killed" /\ streamed' \in {c, "raised"}
    /\ Drain
    /\ UNCHANGED <<conf, listener, hAt, held, dueCause, writes, diag, noticed, drained,
                   tail, outcome>> /\ UNCHANGED watchVars

\* The log of stream_cli cannot be written: its thread ends without a result,
\* and run.sh goes on.
StreamRaises ==
    /\ streamed = "running" /\ streamed' = "raised"
    /\ UNCHANGED <<conf, listener, hAt, runsh, held, dueCause, tail, outcome>>
    /\ UNCHANGED <<diagVars, watchVars>>

StreamEnds ==
    /\ streamed = "running" /\ runsh \in {"zero", "nonzero"} /\ ~held
    /\ streamed' = runsh /\ Drain
    /\ UNCHANGED <<conf, listener, hAt, runsh, held, dueCause, writes, diag,
                   noticed, drained, tail, outcome>> /\ UNCHANGED watchVars

----------------------------------------------------------------------------
(* The calling thread.                                                      *)

Finish(s) == outcome' = s /\ hAt' = "done"

\* Labels, the runner directory, its registration, a stale log; a cancel.
RefuseHosted ==
    /\ hAt = "start"
    /\ \/ Finish("refused")
       \/ "cancelled" \in dueCause /\ Finish("cancelled")
    /\ UNCHANGED <<conf, listener, dueCause, tail>>
    /\ UNCHANGED <<runVars, diagVars, watchVars>>

\* The log is fresh and says Listening: the listener is up.
WatchListener ==
    /\ hAt = "start" /\ listener = "up" /\ hAt' = "watch"
    /\ UNCHANGED <<conf, listener, dueCause, tail, outcome>>
    /\ UNCHANGED <<runVars, diagVars, watchVars>>

\* No listener: run.sh is started if the configuration allows it.
StartRunner ==
    /\ hAt = "start" /\ listener = "down" /\ conf.start
    /\ hAt' = "watch"
    /\ \/ runsh' = "running" /\ streamed' = "running"
       \/ runsh' = "none" /\ streamed' \in {"missing", "nonzero", "raised"}
    /\ UNCHANGED <<conf, listener, held, dueCause, tail, outcome>>
    /\ UNCHANGED <<diagVars, watchVars>>

\* One round of the loop: the sizes, then the copies.
Sample ==
    /\ hAt = "watch"
    /\ lastSize' = diag
    /\ seen' = (seen \/ diag > lastSize)
    /\ grew' \in IF diag > lastSize THEN {TRUE} ELSE {grew, FALSE}
    /\ Drain
    /\ UNCHANGED <<conf, listener, hAt, dueCause, writes, diag, noticed, drained,
                   tail, outcome>> /\ UNCHANGED runVars

\* A copy cannot be written: the exception leaves the thread behind.
SampleRaises ==
    /\ hAt \in {"watch", "drain"} /\ conf.ephemeral /\ Finish("raised")
    /\ UNCHANGED <<conf, listener, dueCause, tail>>
    /\ UNCHANGED <<runVars, diagVars, watchVars>>

StopWatching ==
    /\ hAt = "watch" /\ hAt' = "join"
    /\ dueCause # {} \/ streamed \notin {"none", "running"}
    /\ UNCHANGED <<conf, listener, dueCause, tail, outcome>>
    /\ UNCHANGED <<runVars, diagVars, watchVars>>

\* The runner thread is not waited for.
JoinRunnerBroken ==
    /\ hAt = "join" /\ hAt' = "drain"
    /\ UNCHANGED <<conf, listener, dueCause, tail, outcome>>
    /\ UNCHANGED <<runVars, diagVars, watchVars>>

\* _JOIN_S and the whole timeout: stream_cli has killed what it can kill.
JoinRunner ==
    /\ hAt = "join" /\ hAt' = "drain"
    /\ streamed # "running" \/ (runsh # "running" /\ held)
    /\ UNCHANGED <<conf, listener, dueCause, tail, outcome>>
    /\ UNCHANGED <<runVars, diagVars, watchVars>>

\* The copies are not brought up to date once the runner has been joined.
LastDrainBroken ==
    /\ hAt = "drain" /\ hAt' = "read" /\ drained' = noticed
    /\ UNCHANGED <<conf, listener, dueCause, writes, diag, watch, events, noticed,
                   kept, tail, outcome>> /\ UNCHANGED <<runVars, watchVars>>

LastDrain ==
    /\ hAt = "drain" /\ hAt' = "read"
    /\ Drain /\ drained' = noticed
    /\ UNCHANGED <<conf, listener, dueCause, writes, diag, noticed, tail, outcome>>
    /\ UNCHANGED <<runVars, watchVars>>

\* _window_timeout: the deadline, with no result of run.sh to go by.
WindowTimeout(killed) ==
    IF grew THEN "timed_out" ELSE IF seen THEN "failed"
    ELSE IF killed THEN "timed_out" ELSE "idle"

\* _from_stream.
FromStream ==
    CASE streamed = "cancelled" -> "cancelled"
      [] streamed = "missing"   -> "refused"
      [] streamed = "zero"      -> "succeeded"
      [] streamed = "nonzero"   -> "failed"
      [] streamed = "timed_out" -> WindowTimeout(TRUE)

\* The files that are there go first, the copies are for a deleted _diag.
ReadDiag ==
    /\ hAt = "read"
    /\ tail' = IF diag > 0 THEN writes ELSE kept
    /\ Finish(IF "cancelled" \in dueCause THEN "cancelled"
              ELSE IF streamed \in {"none", "running", "raised"}
              THEN WindowTimeout(FALSE)
              ELSE FromStream)
    /\ UNCHANGED <<conf, listener, dueCause>>
    /\ UNCHANGED <<runVars, diagVars, watchVars>>

HostedNext ==
    \/ LogWritten \/ DiagRemoved \/ RunShExits \/ LetsGo
    \/ \E c \in {"cancelled", "timed_out"} : HostedDue(c) \/ StreamCut(c)
    \/ StreamEnds \/ StreamRaises \/ RefuseHosted \/ WatchListener \/ StartRunner \/ Sample
    \/ SampleRaises \/ StopWatching \/ JoinRunner \/ LastDrain \/ ReadDiag

----------------------------------------------------------------------------
(* A call that has ended has seen the end of the run.sh it started: only an *)
(* exception leaves one running, of the calling thread, which then does not *)
(* join the other, or of the thread that reads run.sh (self_hosted.py:778). *)
RunnerEndsWithCall ==
    hAt = "done" /\ runsh = "running" => "raised" \in {outcome, streamed}

(* The tail of the result is as new as the last log that an ephemeral       *)
(* runner wrote below a marked directory before the last drain, even when   *)
(* it had deleted _diag by then (_DiagSnap, _supervise).  A directory that  *)
(* was made after the last look, or made again, is not marked (:458).       *)
DeletedDiagIsKept == hAt = "done" => tail >= drained
=============================================================================
