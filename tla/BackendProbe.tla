---------------------------- MODULE BackendProbe ----------------------------
(***************************************************************************)
(* The probes of memory/local_mcp/probe.py: is a backend there, without    *)
(* starting a job on it.  act asks docker and then act itself.             *)
(* self_hosted is given a process list that was made before, and looks at  *)
(* the runner's directory, its log twice, its systemd unit, and then at    *)
(* that list.  jenkins sends one GET from a thread that is abandoned when  *)
(* the time is up.                                                         *)
(*                                                                         *)
(* What a probe looks at changes between two looks: the listener starts    *)
(* and dies, its log grows, ages, is rotated and removed, the unit is      *)
(* stopped.  An answer puts together what was seen at different times.     *)
(***************************************************************************)
CONSTANTS
    HasUnit,    \* systemd_unit is configured
    HasLabels   \* labels are configured, and hold those asked for

ASSUME ProbeAssumption == {HasUnit, HasLabels} \subseteq BOOLEAN

VARIABLES
    asked,     \* the backend that is probed
    probeAt,   \* where the probe is
    code,      \* its error code; "ok" for none
    listenerUp,  \* Runner.Listener of the runner's directory runs
    unitUp,    \* its unit is active
    runnerLog, \* the newest Runner_*.log: "none", "old" or "fresh"
    listens,   \* its head says "Listening for Jobs"
    listed,    \* the process list holds the listener
    heard,     \* the text that was read says it
    grown,     \* the log grew since its size was sampled
    wasUp,     \* history: the listener ran at some time of this probe
    wasFresh,  \* history: so was its log fresh
    getting,   \* the thread that asks the controller: "none", "sent", "done"
    said       \* what it found

probeVars == <<asked, probeAt, code, listenerUp, unitUp, runnerLog, listens, listed,
               heard, grown, wasUp, wasFresh, getting, said>>
worldOfProbe == <<listenerUp, unitUp, runnerLog, listens>>
seenOfProbe  == <<listed, heard, grown>>
threadOfGet  == <<getting, said>>

HostedSteps == {"walk", "dir", "registered", "newest", "read", "sample",
                "unit", "match", "compare", "text", "labels"}
HostedCodes == {"runner_log_missing", "runner_not_registered",
                "runner_offline", "runner_log_stale", "runner_label_unknown"}
ActCodes    == {"docker_unreachable", "act_missing", "act_version_unreadable"}
GetCodes    == {"jenkins_unreachable", "jenkins_auth", "jenkins_redirect_rejected"}

ProbeTypeOK ==
    /\ asked \in {"none", "act", "self_hosted", "jenkins"}
    /\ probeAt \in {"idle", "docker", "act", "get", "join"} \cup HostedSteps
    /\ code \in {"none", "ok"} \cup HostedCodes \cup ActCodes \cup GetCodes
    /\ listenerUp \in BOOLEAN /\ unitUp \in BOOLEAN
    /\ runnerLog \in {"none", "old", "fresh"} /\ listens \in BOOLEAN
    /\ listed \in BOOLEAN /\ heard \in BOOLEAN /\ grown \in BOOLEAN
    /\ wasUp \in BOOLEAN /\ wasFresh \in BOOLEAN
    /\ getting \in {"none", "sent", "done"}
    /\ said \in {"none", "ok"} \cup GetCodes

ProbeInit ==
    /\ asked = "none" /\ probeAt = "idle" /\ code = "none"
    /\ listenerUp = TRUE /\ unitUp = TRUE
    /\ runnerLog = "fresh" /\ listens = TRUE
    /\ listed = FALSE /\ heard = FALSE /\ grown = FALSE
    /\ wasUp = FALSE /\ wasFresh = FALSE
    /\ getting = "none" /\ said = "none"

----------------------------------------------------------------------------
(* The runner, beside the probe.                                            *)

ListenerChanges ==
    /\ listenerUp' = ~listenerUp /\ wasUp' = (wasUp \/ listenerUp')
    /\ UNCHANGED <<asked, probeAt, code, unitUp, runnerLog, listens, seenOfProbe,
                   wasFresh, threadOfGet>>

UnitChanges ==
    /\ unitUp' = ~unitUp
    /\ UNCHANGED <<asked, probeAt, code, listenerUp, runnerLog, listens, seenOfProbe,
                   wasUp, wasFresh, threadOfGet>>

\* The listener writes: its log grows, or it begins one where there is none.
ListenerWrites ==
    /\ listenerUp /\ runnerLog' = "fresh" /\ wasFresh' = TRUE
    /\ grown' = (grown \/ runnerLog # "none")
    /\ listens' \in IF runnerLog = "none" THEN BOOLEAN ELSE {listens, TRUE}
    /\ UNCHANGED <<asked, probeAt, code, listenerUp, unitUp, listed, heard, wasUp,
                   threadOfGet>>

\* log_stale_s passes between two probes: the clock of one is read once.
LogAges ==
    /\ probeAt = "idle" /\ runnerLog = "fresh" /\ runnerLog' = "old"
    /\ UNCHANGED <<asked, probeAt, code, listenerUp, unitUp, listens, seenOfProbe,
                   wasUp, wasFresh, threadOfGet>>

LogRemoved ==
    /\ runnerLog # "none" /\ runnerLog' = "none"
    /\ UNCHANGED <<asked, probeAt, code, listenerUp, unitUp, listens, seenOfProbe,
                   wasUp, wasFresh, threadOfGet>>

----------------------------------------------------------------------------
Starts(backend, first) ==
    /\ probeAt = "idle" /\ probeAt' = first /\ asked' = backend
    /\ code' = "none"
    /\ listed' = FALSE /\ heard' = FALSE /\ grown' = FALSE
    /\ wasUp' = listenerUp /\ wasFresh' = (runnerLog = "fresh")
    /\ said' = "none" /\ getting' = "none"
    /\ UNCHANGED worldOfProbe

Ends(c) ==
    /\ probeAt' = "idle" /\ code' = c
    /\ UNCHANGED <<asked, worldOfProbe, seenOfProbe, wasUp, wasFresh, threadOfGet>>

Passes(from, to) ==
    /\ probeAt = from /\ probeAt' = to
    /\ UNCHANGED <<asked, code, worldOfProbe, wasUp, wasFresh, threadOfGet>>

Moves(from, to) == Passes(from, to) /\ UNCHANGED seenOfProbe

ProbeAct        == Starts("act", "docker")
ProbeSelfHosted == Starts("self_hosted", "walk")

\* docker info, then act --version: no such command, too slow, or not 0.
DockerInfo ==
    \/ Moves("docker", "act")
    \/ probeAt = "docker" /\ Ends("docker_unreachable")
ActVersion ==
    /\ probeAt = "act"
    /\ \E c \in {"ok", "act_missing", "act_version_unreadable"} : Ends(c)

\* One budget for the walk and for the probe; spent, the answer is offline.
BudgetSpent == probeAt \in HostedSteps \ {"walk"} /\ Ends("runner_offline")

\* Entries of /proc that vanish are skipped.  A walk that runs out of time
\* leaves an empty list.
ListProcesses ==
    /\ Passes("walk", "dir") /\ listed' \in {FALSE, listenerUp}
    /\ UNCHANGED <<heard, grown>>

RunnerDir ==
    \/ Moves("dir", "registered")
    \/ probeAt = "dir" /\ Ends("runner_log_missing")
Registered ==
    \/ Moves("registered", "newest")
    \/ probeAt = "registered" /\ Ends("runner_not_registered")

NewestLog ==
    \/ runnerLog # "none" /\ Moves("newest", "read")
    \/ probeAt = "newest" /\ runnerLog = "none" /\ Ends("runner_log_missing")

\* The head of the log, and it may grow while it is read.
ReadLog ==
    \/ /\ runnerLog # "none" /\ Passes("read", "sample") /\ heard' = listens
       /\ UNCHANGED <<listed, grown>>
    \/ probeAt = "read" /\ runnerLog = "none" /\ Ends("runner_log_missing")

SampleSize ==
    \/ /\ runnerLog # "none" /\ Passes("sample", "unit") /\ grown' = FALSE
       /\ UNCHANGED <<listed, heard>>
    \/ probeAt = "sample" /\ runnerLog = "none" /\ Ends("runner_log_missing")

\* A unit that is down is offline, whatever the list says.
SystemdActive ==
    \/ (HasUnit => unitUp) /\ Moves("unit", "match")
    \/ probeAt = "unit" /\ HasUnit /\ Ends("runner_offline")

\* The list is not looked at, as on Windows.
MatchProcessBroken == Moves("match", "compare")

MatchProcess ==
    \/ listed /\ Moves("match", "compare")
    \/ probeAt = "match" /\ ~listed /\ Ends("runner_offline")

\* The log is not stale when it grew since it was sampled, or is fresh by the
\* clock of the probe.
CompareLog ==
    \/ runnerLog # "none" /\ (grown \/ runnerLog = "fresh") /\ Moves("compare", "text")
    \/ probeAt = "compare" /\ runnerLog = "none" /\ Ends("runner_log_missing")
    \/ probeAt = "compare" /\ runnerLog = "old" /\ ~grown /\ Ends("runner_log_stale")

ListeningText ==
    \/ heard /\ Moves("text", "labels")
    \/ probeAt = "text" /\ ~heard /\ Ends("runner_offline")

CheckLabels ==
    /\ probeAt = "labels"
    /\ Ends(IF HasLabels THEN "ok" ELSE "runner_label_unknown")

----------------------------------------------------------------------------
(* The thread of a GET outlives the wait for it; what it finds then is not  *)
(* looked at.  No URL is configured, or the budget is gone: no thread.      *)

ProbeJenkins == Starts("jenkins", "get")

JenkinsGet ==
    /\ probeAt = "get"
    /\ \/ Ends("jenkins_unreachable")
       \/ /\ probeAt' = "join" /\ getting' = "sent"
          /\ UNCHANGED <<asked, code, worldOfProbe, seenOfProbe, wasUp, wasFresh, said>>

\* A redirect to another origin, 401 and 403, anything but 200, a body that
\* is cut or is not an object of JSON, or the answer.
JenkinsExchange ==
    /\ getting = "sent" /\ getting' = "done" /\ said' \in {"ok"} \cup GetCodes
    /\ UNCHANGED <<asked, probeAt, code, worldOfProbe, seenOfProbe, wasUp, wasFresh>>

\* No look whether the thread is still alive: what is not there is no error.
JoinGetBroken ==
    /\ probeAt = "join" /\ Ends(IF said \in GetCodes THEN said ELSE "ok")

JoinGet ==
    /\ probeAt = "join"
    /\ \/ getting = "done" /\ Ends(said)
       \/ getting = "sent" /\ Ends("jenkins_unreachable")

ProbeNext ==
    \/ ListenerChanges \/ UnitChanges \/ ListenerWrites \/ LogAges \/ LogRemoved
    \/ ProbeAct \/ DockerInfo \/ ActVersion
    \/ ProbeSelfHosted \/ BudgetSpent \/ ListProcesses \/ RunnerDir
    \/ Registered \/ NewestLog \/ ReadLog \/ SampleSize \/ SystemdActive
    \/ MatchProcess \/ CompareLog \/ ListeningText \/ CheckLabels
    \/ ProbeJenkins \/ JenkinsGet \/ JenkinsExchange \/ JoinGet

----------------------------------------------------------------------------
(* A runner is reported there only if its listener ran at some time of the  *)
(* probe, and its log was fresh at its start or was written during it; a    *)
(* controller, only if it answered with its own API before the time was up  *)
(* (_probe_self_hosted_body, _jenkins_get).                                 *)
ProbeOkWasSeen ==
    probeAt = "idle" /\ code = "ok" =>
        /\ asked = "self_hosted" => wasUp /\ wasFresh
        /\ asked = "jenkins" => said = "ok"
=============================================================================
