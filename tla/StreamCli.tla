----------------------------- MODULE StreamCli -----------------------------
(***************************************************************************)
(* stream_cli (memory/local_mcp/stream.py): run a child in a session of    *)
(* its own, read its two pipes on two threads into a queue of bounded      *)
(* size, and in the calling thread take the lines from the queue, write    *)
(* them to the log and offer them as progress notifications, at most a     *)
(* few in a window of time.  The call ends when both pipes have ended, or  *)
(* is cut short by the cancel event or the deadline, which kill the        *)
(* process group.                                                          *)
(*                                                                         *)
(* The child may leave a process behind that holds its pipes: one of its   *)
(* group, or one that has started a session of its own ("escaped").        *)
(* Both pipes are one here; a line is a unit of size.                      *)
(***************************************************************************)
EXTENDS Naturals

CONSTANTS
    MaxLines,     \* bound: the lines the child and those it leaves write
    QueueCap,     \* _LINE_Q_CAP, in lines
    NotifyPerS,   \* _NOTIFY_PER_S
    MaxSeconds    \* bound: how often a window of time passes

ASSUME StreamAssumption ==
    /\ {MaxLines, NotifyPerS, MaxSeconds} \subseteq Nat
    /\ QueueCap \in Nat \ {0}

VARIABLES
    child,      \* the process started: "running" or "gone"
    holder,     \* a process it left that holds the pipes, or "none"
    pipes,      \* "open", or "ended": both readers have reported
    made,       \* lines written to the pipes
    queued,     \* _LineQueue: lines waiting
    lost,       \* _LineQueue.dropped
    seenLines,  \* lines the sink got
    notified,   \* notifications that were written
    dropped,    \* _Sink.lines_dropped
    pending,    \* _Sink._pending is set
    recent,     \* notifications in the current second
    seconds,    \* windows that have passed
    at,         \* where the calling thread is
    verdict,    \* "none", "timeout" or "cancel"
    cancelSet,  \* the cancel event of the call
    overdue     \* the deadline has passed

streamVars == <<child, holder, pipes, made, queued, lost, seenLines, notified,
                dropped, pending, recent, seconds, at, verdict, cancelSet,
                overdue>>

procVars == <<child, holder, made>>
sinkVars == <<seenLines, notified, dropped, pending, recent>>
envVars  == <<seconds, cancelSet, overdue>>

StreamTypeOK ==
    /\ child \in {"running", "gone"} /\ holder \in {"none", "group", "escaped"}
    /\ pipes \in {"open", "ended"}
    /\ queued \in 0 .. QueueCap
    /\ made \in 0 .. MaxLines /\ lost \in 0 .. MaxLines
    /\ seenLines \in 0 .. MaxLines /\ notified \in 0 .. MaxLines
    /\ dropped \in 0 .. MaxLines
    /\ pending \in BOOLEAN /\ recent \in 0 .. NotifyPerS
    /\ seconds \in 0 .. MaxSeconds
    /\ at \in {"loop", "kill", "join", "drain", "last", "done", "raised"}
    /\ verdict \in {"none", "timeout", "cancel"}
    /\ cancelSet \in BOOLEAN /\ overdue \in BOOLEAN

StreamInit ==
    /\ child = "running" /\ holder = "none" /\ pipes = "open"
    /\ made = 0 /\ queued = 0 /\ lost = 0
    /\ seenLines = 0 /\ notified = 0 /\ dropped = 0 /\ pending = FALSE
    /\ recent = 0 /\ seconds = 0
    /\ at = "loop" /\ verdict = "none" /\ cancelSet = FALSE /\ overdue = FALSE

----------------------------------------------------------------------------
(* The child and whoever it leaves behind, and the reader threads.          *)

\* The broken queues: one has no bound, the other drops a line and does not
\* count it.
PutUnbounded == queued' = queued + 1 /\ UNCHANGED lost

PutBroken ==
    /\ queued' = IF queued > 0 /\ queued + 1 > QueueCap THEN queued
                 ELSE queued + 1
    /\ UNCHANGED lost

\* put: a line waits, or is dropped when the queue is full; the first line
\* is kept whatever its size.
Put ==
    \/ (queued = 0 \/ queued + 1 <= QueueCap)
       /\ queued' = queued + 1 /\ UNCHANGED lost
    \/ queued > 0 /\ queued + 1 > QueueCap
       /\ lost' = lost + 1 /\ UNCHANGED queued

\* A reader thread reads a line and puts it.
Line ==
    /\ pipes = "open" /\ made < MaxLines
    /\ child = "running" \/ holder # "none"
    /\ made' = made + 1 /\ Put
    /\ UNCHANGED <<child, holder, pipes, at, verdict>>
    /\ UNCHANGED <<sinkVars, envVars>>

ChildForks(kind) ==
    /\ child = "running" /\ pipes = "open" /\ holder = "none" /\ holder' = kind
    /\ UNCHANGED <<child, pipes, made, queued, lost, at, verdict>>
    /\ UNCHANGED <<sinkVars, envVars>>

ChildExits ==
    /\ child = "running" /\ child' = "gone"
    /\ UNCHANGED <<holder, pipes, made, queued, lost, at, verdict>>
    /\ UNCHANGED <<sinkVars, envVars>>

HolderLetsGo ==
    /\ holder # "none" /\ holder' = "none"
    /\ UNCHANGED <<child, pipes, made, queued, lost, at, verdict>>
    /\ UNCHANGED <<sinkVars, envVars>>

\* End of both pipes: nobody holds them, or a child at work closed them.
PipesEnd ==
    /\ pipes = "open" /\ holder = "none" /\ pipes' = "ended"
    /\ UNCHANGED <<procVars, queued, lost, at, verdict>>
    /\ UNCHANGED <<sinkVars, envVars>>

----------------------------------------------------------------------------
(* The clock and the caller.                                                *)

SecondPasses ==
    /\ at # "done" /\ seconds < MaxSeconds
    /\ seconds' = seconds + 1 /\ recent' = 0
    /\ UNCHANGED <<procVars, pipes, queued, lost, seenLines, notified, dropped,
                   pending, at, verdict, cancelSet, overdue>>

DeadlinePasses ==
    /\ ~overdue /\ overdue' = TRUE
    /\ UNCHANGED <<procVars, pipes, queued, lost, at, verdict, seconds, cancelSet>>
    /\ UNCHANGED sinkVars

Cancelled ==
    /\ ~cancelSet /\ cancelSet' = TRUE
    /\ UNCHANGED <<procVars, pipes, queued, lost, at, verdict, seconds, overdue>>
    /\ UNCHANGED sinkVars

----------------------------------------------------------------------------
(* The sink.  A line is notified when the window has room and the write     *)
(* does not block; otherwise it is counted as dropped and the last one      *)
(* stays pending, to be sent for all of them once there is room.            *)

SinkNotify ==
    \/ /\ recent < NotifyPerS
       /\ notified' = notified + 1 /\ recent' = recent + 1
       /\ pending' = FALSE /\ UNCHANGED dropped
    \/ /\ dropped' = dropped + 1 /\ pending' = TRUE
       /\ UNCHANGED <<notified, recent>>

SinkAdd ==
    /\ queued > 0 /\ queued' = queued - 1 /\ seenLines' = seenLines + 1
    /\ SinkNotify
    /\ UNCHANGED <<procVars, pipes, lost, at, verdict>> /\ UNCHANGED envVars

\* The log cannot be written: the exception leaves by the finally clause,
\* which closes the log and kills nobody.
SinkRaises ==
    /\ at \in {"loop", "drain"} /\ queued > 0
    /\ queued' = queued - 1 /\ at' = "raised"
    /\ UNCHANGED <<procVars, pipes, lost, verdict>>
    /\ UNCHANGED <<sinkVars, envVars>>

FlushOne ==
    /\ pending /\ recent < NotifyPerS
    /\ pending' = FALSE
    /\ notified' = notified + 1 /\ recent' = recent + 1
    /\ dropped' = dropped - 1

----------------------------------------------------------------------------
(* The calling thread.                                                      *)

TakeLine == at = "loop" /\ SinkAdd

\* The queue was empty for a moment: the rate window may have opened.
FlushIdle ==
    /\ at = "loop" /\ queued = 0 /\ FlushOne
    /\ UNCHANGED <<procVars, pipes, queued, lost, seenLines, at, verdict>>
    /\ UNCHANGED envVars

Stop(v) ==
    /\ at = "loop" /\ child = "running"
    /\ v = "cancel" => cancelSet
    /\ v = "timeout" => overdue
    /\ verdict' = v /\ at' = "kill"
    /\ UNCHANGED <<procVars, pipes, queued, lost>>
    /\ UNCHANGED <<sinkVars, envVars>>

LoopEnds ==
    /\ at = "loop" /\ pipes = "ended" /\ at' = "join"
    /\ UNCHANGED <<procVars, pipes, queued, lost, verdict>>
    /\ UNCHANGED <<sinkVars, envVars>>

\* Only the child is killed.
KillGroupBroken == child' = "gone" /\ UNCHANGED holder

\* kill_process_group: SIGTERM, two seconds, SIGKILL, for the whole group.
KillGroup ==
    /\ child' = "gone"
    /\ holder' = IF holder = "group" THEN "none" ELSE holder

Kill ==
    /\ at = "kill" /\ KillGroup /\ at' = "join"
    /\ UNCHANGED <<pipes, made, queued, lost, verdict>>
    /\ UNCHANGED <<sinkVars, envVars>>

\* Two seconds for each reader; one whose pipe is still held is left behind.
JoinReaders ==
    /\ at = "join" /\ at' = "drain"
    /\ pipes = "ended" \/ holder # "none"
    /\ UNCHANGED <<procVars, pipes, queued, lost, verdict>>
    /\ UNCHANGED <<sinkVars, envVars>>

DrainLine == at = "drain" /\ SinkAdd

\* flush_progress(wait=True) sends, or gives up after its second.
Drained ==
    /\ at = "drain" /\ queued = 0 /\ at' = "last"
    /\ \/ FlushOne
       \/ UNCHANGED <<notified, recent, pending, dropped>>
    /\ UNCHANGED <<procVars, pipes, queued, lost, seenLines, verdict>>
    /\ UNCHANGED envVars

\* The drops of the queue are added; a child that closed its pipes and goes
\* on gets one second and is killed.
Return ==
    /\ at = "last" /\ at' = "done"
    /\ dropped' = dropped + lost
    /\ \/ child = "gone" /\ UNCHANGED <<child, holder>>
       \/ child = "running" /\ KillGroup
    /\ UNCHANGED <<pipes, made, queued, lost, seenLines, notified, pending, recent,
                   verdict>>
    /\ UNCHANGED envVars

CallerNext ==
    \/ TakeLine \/ FlushIdle \/ LoopEnds
    \/ \E v \in {"cancel", "timeout"} : Stop(v)
    \/ Kill \/ JoinReaders \/ DrainLine \/ Drained \/ Return \/ SinkRaises

StreamNext ==
    \/ Line \/ ChildExits \/ HolderLetsGo \/ PipesEnd
    \/ \E kind \in {"group", "escaped"} : ChildForks(kind)
    \/ SecondPasses \/ DeadlinePasses \/ Cancelled
    \/ CallerNext

\* The caller goes on; a pipe that nobody holds ends.
PipesUnheld == child = "gone" /\ PipesEnd

StreamFairness == WF_streamVars(CallerNext) /\ WF_streamVars(PipesUnheld)

----------------------------------------------------------------------------
(* A line the sink got was notified or is in lines_dropped; a call that was *)
(* not cut short so accounts for every line that was written, whether the   *)
(* queue, the rate limit or a blocked pipe dropped it (_LineQueue.put,      *)
(* _Sink._notify, flush_progress).                                          *)
LinesAccounted ==
    /\ at # "done" => notified + dropped = seenLines
    /\ at = "done" /\ verdict = "none" => notified + dropped = made

(* When a call returns, or raises after it was cut short, its child is      *)
(* gone, and so is everything else of its process group that held the pipes *)
(* (kill_process_group).  An exception of the log before that leaves the    *)
(* child as it is (stream.py:398).                                          *)
NothingLeftRunning ==
    at = "done" \/ (at = "raised" /\ verdict # "none") =>
        child = "gone" /\ holder # "group"

(* A call whose deadline has passed returns or raises, unless a process the *)
(* child left behind holds the pipes for good.                              *)
OverdueEnds ==
    overdue /\ holder = "none" ~> at \in {"done", "raised"} \/ holder # "none"
=============================================================================
