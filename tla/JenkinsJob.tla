---------------------------- MODULE JenkinsJob -----------------------------
(***************************************************************************)
(* One call of the Jenkins backend (memory/local_mcp/backends/jenkins.py): *)
(* fetch a crumb, post the build, poll the queue item until it has a build *)
(* number, follow the progressive log, read the result, report the status. *)
(* Every request looks at the cancel event and the deadline and raises     *)
(* when one of them is due; the handler then stops the build, if its       *)
(* number is known, or cancels the queue item.                             *)
(*                                                                         *)
(* The controller is external: it starts what it has queued when it likes, *)
(* and its log grows while the build runs.  Requests may fail, and the     *)
(* answer to a request the controller has carried out may be lost.  A      *)
(* local Jenkinsfile is run by stream_cli instead, in one step here.       *)
(***************************************************************************)
EXTENDS Naturals

CONSTANTS
    LogMax,      \* bound: the length of the controller's log
    ReadMax,     \* _READ_MAX, the most one response gives
    Reports      \* report_status: this process posts the commit status

ASSUME JenkinsAssumption ==
    LogMax \in Nat /\ ReadMax \in Nat \ {0} /\ Reports \in BOOLEAN

VARIABLES
    step,        \* where the call is
    cause,       \* the code of the _Fail that was raised, or "none"
    queueId,     \* _Session.queue_id is known
    number,      \* _Session.number is known
    checked,     \* _Session.revision_checked
    due,         \* what is set or over: of {"cancelled", "timed_out"}
    item,        \* the controller: what became of the posted build
    result,      \* the controller: its result, once it is built
    log,         \* the controller: how long the log is
    offset,      \* tail: start
    got,         \* bytes of the log that were given to the sink
    holed,       \* _Session.range_dropped
    stopSent,    \* the stop request was posted
    status,      \* JenkinsOutcome.status
    posted       \* the commit status, or who posts it

jenkinsVars == <<step, cause, queueId, number, checked, due, item, result,
                 log, offset, got, holed, stopSent, status, posted>>

theirs == <<item, result, log>>
tailed == <<offset, got, holed>>

Steps    == {"start", "crumb", "trigger", "queue", "tail", "result",
             "failed", "report", "done"}
Causes   == {"none", "cancelled", "timed_out", "truncated", "unreachable"}
Statuses == {"none", "succeeded", "failed", "refused", "cancelled", "timed_out",
             "raised"}

JenkinsTypeOK ==
    /\ step \in Steps /\ cause \in Causes
    /\ queueId \in BOOLEAN /\ number \in BOOLEAN /\ checked \in BOOLEAN
    /\ holed \in BOOLEAN /\ stopSent \in BOOLEAN
    /\ due \subseteq {"cancelled", "timed_out"}
    /\ item \in {"none", "queued", "building", "built", "aborted", "dropped"}
    /\ result \in {"none", "SUCCESS", "FAILURE", "ABORTED"}
    /\ log \in 0 .. LogMax /\ offset \in 0 .. LogMax /\ got \in 0 .. LogMax
    /\ status \in Statuses
    /\ posted \in {"none", "jenkins", "SUCCESSFUL", "FAILED", "CANCELLED"}

JenkinsInit ==
    /\ step = "start" /\ cause = "none"
    /\ queueId = FALSE /\ number = FALSE /\ checked = FALSE /\ due = {}
    /\ item = "none" /\ result = "none" /\ log = 0
    /\ offset = 0 /\ got = 0 /\ holed = FALSE
    /\ stopSent = FALSE /\ status = "none" /\ posted = "none"

----------------------------------------------------------------------------
(* The controller, the caller who cancels, and the clock.                   *)

Controller(from, to) ==
    /\ item = from /\ item' = to
    /\ UNCHANGED <<step, cause, queueId, number, checked, due, stopSent,
                   status, posted>> /\ UNCHANGED tailed

BuildStarts == Controller("queued", "building") /\ UNCHANGED <<result, log>>
ItemDropped == Controller("queued", "dropped") /\ UNCHANGED <<result, log>>

LogGrows ==
    /\ log < LogMax /\ log' = log + 1
    /\ Controller("building", "building") /\ UNCHANGED result

BuildEnds ==
    /\ Controller("building", "built")
    /\ result' \in {"SUCCESS", "FAILURE"} /\ UNCHANGED log

ComesDue(c) ==
    /\ step # "done" /\ c \notin due /\ due' = due \cup {c}
    /\ UNCHANGED <<step, cause, queueId, number, checked, stopSent, status,
                   posted>> /\ UNCHANGED <<theirs, tailed>>

----------------------------------------------------------------------------
(* The call.                                                                *)

Goes(from, to) == step = from /\ step' = to

InFlight == {"crumb", "trigger", "queue", "tail", "result"}

\* _Fail is raised by a request or by _check_time: on to the handler.
Raise(c) ==
    /\ step \in InFlight /\ step' = "failed" /\ cause' = c
    /\ UNCHANGED <<queueId, number, checked, due, stopSent, status, posted>>
    /\ UNCHANGED <<theirs, tailed>>

RaiseDue == \E c \in due : Raise(c)

\* No connection, an auth refusal, a redirect, an answer that is not JSON.
RequestFails == Raise("unreachable")

\* A cancel before anything was sent, a bad path, a probe that failed.
RefuseEarly ==
    /\ Goes("start", "done")
    /\ \/ status' = "refused"
       \/ "cancelled" \in due /\ status' = "cancelled"
    /\ UNCHANGED <<cause, queueId, number, checked, due, stopSent, posted>>
    /\ UNCHANGED <<theirs, tailed>>

\* The job is a local file: stream_cli runs the configured runner on it.
RunFile ==
    /\ Goes("start", "done")
    /\ status' \in Statuses \ {"none"}
    /\ UNCHANGED <<cause, queueId, number, checked, due, stopSent, posted>>
    /\ UNCHANGED <<theirs, tailed>>

ProbeController ==
    /\ Goes("start", "crumb")
    /\ UNCHANGED <<cause, queueId, number, checked, due, stopSent, status,
                   posted>> /\ UNCHANGED <<theirs, tailed>>

\* A controller without a crumb issuer is one that is asked for none.
LoadCrumb ==
    /\ Goes("crumb", "trigger")
    /\ UNCHANGED <<cause, queueId, number, checked, due, stopSent, status,
                   posted>> /\ UNCHANGED <<theirs, tailed>>

\* 201 and a Location; it may not have the form of a queue item.
Trigger ==
    /\ Goes("trigger", "queue") /\ due = {}
    /\ item' = "queued" /\ queueId' \in BOOLEAN
    /\ UNCHANGED <<cause, number, checked, due, result, log, stopSent, status,
                   posted>> /\ UNCHANGED tailed

\* The build was queued, and the answer was lost or is no 201.
TriggerLost ==
    /\ Goes("trigger", "failed") /\ due = {}
    /\ item' = "queued" /\ cause' = "unreachable"
    /\ UNCHANGED <<queueId, number, checked, due, result, log, stopSent,
                   status, posted>> /\ UNCHANGED tailed

PollQueue ==
    /\ Goes("queue", "tail") /\ due = {}
    /\ item \in {"building", "built"} /\ number' = TRUE
    /\ UNCHANGED <<cause, queueId, checked, due, stopSent, status, posted>>
    /\ UNCHANGED <<theirs, tailed>>

\* The queue item is longer than a response can be.
QueueTruncated == step = "queue" /\ Raise("truncated")

\* One response of the progressive log.  A read that breaks off is an empty
\* body; X-Text-Size tells how long the log is.
Offered == log - offset
Body    == {0} \cup {IF Offered < ReadMax THEN Offered ELSE ReadMax}

NextStart(b) == IF b < ReadMax /\ log > offset THEN log ELSE offset + b

\* A response that was cut is taken for the whole range.
TailResponseBroken(b) ==
    /\ got' = got + b /\ offset' = log /\ UNCHANGED holed
    /\ step' = IF item = "building" THEN "tail" ELSE "result"

TailResponse(b) ==
    LET nxt == NextStart(b)
    IN  /\ got' = got + b
        /\ offset' = nxt
        /\ holed' = (holed \/ nxt > offset + b)
        /\ step' = IF (b = ReadMax \/ nxt < log) /\ nxt > offset THEN "tail"
                   ELSE IF item = "building" THEN "tail" ELSE "result"

TailBuild ==
    /\ step = "tail" /\ due = {}
    /\ \E b \in Body : TailResponse(b)
    /\ UNCHANGED <<cause, queueId, number, checked, due, stopSent, status,
                   posted>> /\ UNCHANGED theirs

\* The log cannot be opened or written: no _Fail, so nothing is reported.
TailRaises ==
    /\ Goes("tail", "done") /\ status' = "raised"
    /\ UNCHANGED <<cause, queueId, number, checked, due, stopSent, posted>>
    /\ UNCHANGED <<theirs, tailed>>

ReadResult ==
    /\ Goes("result", "report") /\ due = {}
    /\ item \in {"built", "aborted"} /\ checked' = TRUE
    /\ status' = IF result = "SUCCESS" THEN "succeeded" ELSE "failed"
    /\ UNCHANGED <<cause, queueId, number, due, stopSent, posted>>
    /\ UNCHANGED <<theirs, tailed>>

\* The stop request looks at the deadline like any other.
StopBuildBroken ==
    \/ /\ number /\ "timed_out" \notin due /\ stopSent' = TRUE
       /\ \/ /\ item = "building" /\ item' = "aborted" /\ result' = "ABORTED"
          \/ UNCHANGED <<item, result>>
    \/ ~number /\ UNCHANGED <<stopSent, item, result>>
    \/ "timed_out" \in due /\ UNCHANGED <<stopSent, item, result>>

\* A stop is posted without regard to the deadline, for a known build only.
\* It may fail on the way.
StopBuild ==
    \/ /\ number /\ stopSent' = TRUE
       /\ \/ /\ item = "building" /\ item' = "aborted" /\ result' = "ABORTED"
          \/ UNCHANGED <<item, result>>
    \/ ~number /\ UNCHANGED <<stopSent, item, result>>

CancelQueueItem ==
    /\ \/ queueId /\ item = "queued" /\ item' = "dropped"
       \/ UNCHANGED item
    /\ UNCHANGED <<stopSent, result>>

Handle ==
    /\ Goes("failed", "report")
    /\ \/ cause \in {"cancelled", "timed_out"} /\ status' = cause /\ StopBuild
       \/ cause = "truncated" /\ status' = "refused" /\ CancelQueueItem
       \/ /\ cause = "unreachable" /\ status' = "refused"
          /\ UNCHANGED <<stopSent, item, result>>
    /\ UNCHANGED <<cause, queueId, number, checked, due, log, posted>>
    /\ UNCHANGED tailed

\* _status_state: a call that was cut short reports CANCELLED.
StatusState ==
    CASE status \in {"cancelled", "timed_out"} -> "CANCELLED"
      [] status = "succeeded" -> "SUCCESSFUL"
      [] status = "failed" -> "FAILED"
      [] OTHER -> "none"

\* The revision may be missing, and the post may fail.
PeekRevision == checked' \in IF Reports THEN {checked, TRUE} ELSE {checked}

ApplyStatus ==
    posted' \in IF ~number THEN {"none"}
                ELSE IF ~Reports THEN {"jenkins"} ELSE {"none", StatusState}

Report ==
    /\ Goes("report", "done") /\ PeekRevision /\ ApplyStatus
    /\ UNCHANGED <<cause, queueId, number, due, stopSent, status>>
    /\ UNCHANGED <<theirs, tailed>>

CallNext ==
    \/ RefuseEarly \/ RunFile \/ ProbeController \/ LoadCrumb
    \/ Trigger \/ TriggerLost \/ PollQueue \/ QueueTruncated \/ TailBuild
    \/ TailRaises \/ ReadResult \/ RaiseDue \/ RequestFails \/ Handle \/ Report

JenkinsNext ==
    \/ BuildStarts \/ ItemDropped \/ LogGrows \/ BuildEnds
    \/ \E c \in {"cancelled", "timed_out"} : ComesDue(c)
    \/ CallNext

----------------------------------------------------------------------------
(* The log of a build that was followed to its end is whole, or the result  *)
(* says that a range is missing (tail, _next_start, range_dropped).         *)
LogWholeOrFlagged == step = "result" => holed \/ got = log

(* When a call has ended, the build it knows of is over or was asked to     *)
(* stop, also when the deadline is over (_stop).  A request or a log that   *)
(* fails while the build is followed leaves it running (jenkins.py:1016).   *)
KnownBuildIsStopped ==
    step = "done" /\ number =>
        \/ stopSent \/ item \in {"built", "aborted"}
        \/ status \in {"refused", "raised"}
=============================================================================
