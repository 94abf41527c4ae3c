--------------------------- MODULE LocalPipeline ---------------------------
(***************************************************************************)
(* run_local_pipeline (memory/local_mcp/pipeline.py) as several server     *)
(* processes of one project call it.  A call is refused before it touches  *)
(* anything, or takes the local_pipeline lock within a fifth of a second,  *)
(* or is told that the pipeline is busy.  Under the lock it runs a backend *)
(* and commits: the log, a prune of the oldest records, the record, the    *)
(* audit entry.  A process may die at any step; agent_lock gives its lock  *)
(* to the next call.  The three backends differ in when they probe: act    *)
(* before a run is named, jenkins in the run, self_hosted not here.        *)
(*                                                                         *)
(* A run is named by its time stamp, so that names sort by age; the fixed  *)
(* names of refusals ("env-rejected-act") sort after every one of them.    *)
(***************************************************************************)
EXTENDS Naturals, FiniteSets

CONSTANTS
    Servers,    \* the server processes
    Nobody,     \* "no one holds the lock", not a server
    MaxRuns,    \* bound: the runs that are stamped
    Keep,       \* 20: the records that are kept
    MaxDeaths   \* bound: how often a server dies

ASSUME PipelineAssumption ==
    /\ Nobody \notin Servers
    /\ MaxRuns \in Nat /\ Keep \in Nat \ {0} /\ MaxDeaths \in Nat

VARIABLES
    pAt,      \* where each server is in its call
    lock,     \* who holds .agent/local_pipeline.lock
    name,     \* the stem of the run of each server, 0 for none
    stamp,    \* the last stamp
    logs,     \* the *.log files of local-pipeline-runs
    records,  \* the *.json files
    doomed,   \* what the prune at work has still to remove
    spared,   \* history: records that a prune did not get rid of
    torn,     \* history: logs of calls that died or raised before their
              \* record was written, and logs that a prune left
    deaths    \* how often a server died

pipelineVars == <<pAt, lock, name, stamp, logs, records, doomed, spared,
                  torn, deaths>>
pruneVars == <<doomed, spared, torn>>

Fixed  == MaxRuns + 1
Stems  == 1 .. Fixed
Bodies == {"act", "self_hosted", "jenkins"}
InBody == Bodies \cup {"backend", "building", "log", "prune", "unlink", "json",
                      "audit", "release"}

PipelineTypeOK ==
    /\ pAt \in [Servers -> {"idle", "dispatch", "notify", "dead"} \cup InBody]
    /\ lock \in Servers \cup {Nobody}
    /\ name \in [Servers -> {0} \cup Stems] /\ stamp \in 0 .. MaxRuns
    /\ logs \subseteq Stems /\ records \subseteq Stems /\ torn \subseteq Stems
    /\ doomed \subseteq Stems /\ spared \subseteq Stems
    /\ deaths \in 0 .. MaxDeaths

PipelineInit ==
    /\ pAt = [s \in Servers |-> "idle"] /\ lock = Nobody
    /\ name = [s \in Servers |-> 0] /\ stamp = 0
    /\ logs = {} /\ records = {} /\ torn = {} /\ deaths = 0
    /\ doomed = {} /\ spared = {}

At(s, from, to) == pAt[s] = from /\ pAt' = [pAt EXCEPT ![s] = to]

CallPipeline(s) ==
    /\ At(s, "idle", "dispatch")
    /\ UNCHANGED <<lock, name, stamp, logs, records, pruneVars, deaths>>

\* Outside the root, a .agent that is no real directory, no configuration,
\* not enabled, or pipeline_busy: nothing was touched.
RefusePipeline(s) ==
    /\ At(s, "dispatch", "notify")
    /\ UNCHANGED <<lock, name, stamp, logs, records, pruneVars, deaths>>

\* The lock is free within the fifth of a second.
TakeLock(s, body) ==
    /\ At(s, "dispatch", body) /\ lock = Nobody /\ lock' = s
    /\ UNCHANGED <<name, stamp, logs, records, pruneVars, deaths>>

DispatchAct(s)        == TakeLock(s, "act")
DispatchSelfHosted(s) == TakeLock(s, "self_hosted")
DispatchJenkins(s)    == TakeLock(s, "jenkins")

\* A rejected environment: recorded under a fixed name.
RejectEnv(s) ==
    /\ \E body \in Bodies : At(s, body, "log")
    /\ name' = [name EXCEPT ![s] = Fixed]
    /\ UNCHANGED <<lock, stamp, logs, records, pruneVars, deaths>>

\* A failed probe is audited and not recorded.
ProbeFails(s) ==
    /\ At(s, "act", "audit")
    /\ UNCHANGED <<lock, name, stamp, logs, records, pruneVars, deaths>>

\* The run is stamped, and the backend is called.
NameRun(s) ==
    /\ stamp < MaxRuns
    /\ stamp' = stamp + 1 /\ name' = [name EXCEPT ![s] = stamp']
    /\ UNCHANGED <<lock, logs, records, pruneVars, deaths>>

RunAct(s)        == At(s, "act", "backend") /\ NameRun(s)
RunSelfHosted(s) == At(s, "self_hosted", "backend") /\ NameRun(s)
RunJenkins(s)    == At(s, "jenkins", "building") /\ NameRun(s)

\* The backend wrote a log, or refused before it came to that.
BackendReturns(s) ==
    /\ At(s, "backend", "log") \/ At(s, "building", "log")
    /\ logs' \in {logs, logs \cup {name[s]}}
    /\ UNCHANGED <<lock, name, stamp, records, pruneVars, deaths>>

\* The probe of the controller failed: audited under the run's name, and
\* neither logged nor recorded.
JenkinsProbeFails(s) ==
    /\ At(s, "building", "audit")
    /\ UNCHANGED <<lock, name, stamp, logs, records, pruneVars, deaths>>

\* _commit: a missing log is created empty.
WriteLog(s) ==
    /\ At(s, "log", "prune") /\ logs' = logs \cup {name[s]}
    /\ UNCHANGED <<lock, name, stamp, records, pruneVars, deaths>>

\* _prune: room for one more.
Oldest(seen) == {r \in seen : Cardinality({q \in seen : q > r}) >= Keep - 1}

\* The records that are listed: not one whose lstat fails, and none at all
\* when the directory cannot be opened.
Prune(s) ==
    /\ At(s, "prune", "unlink")
    /\ \E seen \in SUBSET records : doomed' = Oldest(seen)
    /\ spared' = spared \cup (Oldest(records) \ doomed')
    /\ UNCHANGED <<lock, name, stamp, logs, records, torn, deaths>>

\* The oldest record that is left goes, unless its unlink fails.
UnlinkRecord(s) ==
    /\ pAt[s] = "unlink" /\ doomed # {} /\ doomed \subseteq records
    /\ \E r \in doomed :
        /\ \A q \in doomed : r <= q
        /\ \/ /\ records' = records \ {r} /\ spared' = spared \ {r}
              /\ UNCHANGED doomed
           \/ /\ doomed' = doomed \ {r} /\ spared' = spared \cup {r}
              /\ UNCHANGED records
    /\ UNCHANGED <<pAt, lock, name, stamp, logs, torn, deaths>>

\* The broken prune leaves the logs of the records that go.
KeepLog(s) ==
    /\ pAt[s] = "unlink" /\ ~(doomed \subseteq records)
    /\ doomed' = doomed \cap records
    /\ UNCHANGED <<pAt, lock, name, stamp, logs, records, spared, torn, deaths>>

\* Its log goes next, unless that fails.
UnlinkLog(s) ==
    /\ pAt[s] = "unlink" /\ ~(doomed \subseteq records)
    /\ doomed' = doomed \cap records
    /\ \/ logs' = logs \ (doomed \ records) /\ torn' = torn \ doomed
       \/ torn' = torn \cup (doomed \ records) /\ UNCHANGED logs
    /\ UNCHANGED <<pAt, lock, name, stamp, records, spared, deaths>>

PruneEnds(s) ==
    /\ At(s, "unlink", "json") /\ doomed = {}
    /\ UNCHANGED <<lock, name, stamp, logs, records, pruneVars, deaths>>

WriteRecord(s) ==
    /\ At(s, "json", "audit") /\ records' = records \cup {name[s]}
    /\ torn' = torn \ {name[s]}
    /\ UNCHANGED <<lock, name, stamp, logs, doomed, spared, deaths>>

WriteAudit(s) ==
    /\ At(s, "audit", "release")
    /\ UNCHANGED <<lock, name, stamp, logs, records, pruneVars, deaths>>

\* The log a backend that does not return may have written, and what a call
\* that is cut short leaves.
LogOfRun(s) ==
    IF pAt[s] \in {"backend", "building"} THEN {logs \cup {name[s]}} ELSE {}
CutShort(s) ==
    /\ logs' \in {logs} \cup LogOfRun(s)
    /\ torn' = (torn \cup doomed \cup {name[s]}) \cap (logs' \ records)

\* An OSError, a schema error, the lock of the audit log timing out: the call
\* ends in an exception and gives its lock back.  (_prune lets none of its unlinks raise.)
Raises(s) ==
    /\ pAt[s] \in InBody \ {"unlink", "release"}
    /\ pAt' = [pAt EXCEPT ![s] = "release"]
    /\ CutShort(s)
    /\ UNCHANGED <<lock, name, stamp, records, doomed, spared, deaths>>

ReleaseLock(s) ==
    /\ At(s, "release", "notify") /\ lock' = Nobody
    /\ name' = [name EXCEPT ![s] = 0]
    /\ UNCHANGED <<stamp, logs, records, pruneVars, deaths>>

\* notify_pipeline_result, outside the lock; its failure changes nothing.
Notified(s) ==
    /\ At(s, "notify", "idle")
    /\ UNCHANGED <<lock, name, stamp, logs, records, pruneVars, deaths>>

Dies(s) ==
    /\ pAt[s] \notin {"idle", "dead"} /\ deaths < MaxDeaths
    /\ pAt' = [pAt EXCEPT ![s] = "dead"] /\ deaths' = deaths + 1
    /\ lock' = IF lock = s THEN Nobody ELSE lock
    /\ name' = [name EXCEPT ![s] = 0]
    /\ IF lock = s THEN CutShort(s) /\ doomed' = {}
       ELSE UNCHANGED <<logs, torn, doomed>>
    /\ UNCHANGED <<stamp, records, spared>>

Restarts(s) ==
    /\ At(s, "dead", "idle")
    /\ UNCHANGED <<lock, name, stamp, logs, records, pruneVars, deaths>>

PipelineNext == \E s \in Servers :
    \/ CallPipeline(s) \/ RefusePipeline(s)
    \/ DispatchAct(s) \/ DispatchSelfHosted(s) \/ DispatchJenkins(s)
    \/ RejectEnv(s) \/ ProbeFails(s)
    \/ RunAct(s) \/ RunSelfHosted(s) \/ RunJenkins(s)
    \/ BackendReturns(s) \/ JenkinsProbeFails(s) \/ WriteLog(s)
    \/ Prune(s) \/ UnlinkRecord(s) \/ UnlinkLog(s) \/ PruneEnds(s)
    \/ WriteRecord(s) \/ WriteAudit(s) \/ Raises(s)
    \/ ReleaseLock(s) \/ Notified(s) \/ Dies(s) \/ Restarts(s)

----------------------------------------------------------------------------
(* The directory holds no more records than are kept, but for those that a  *)
(* prune could not remove, whoever died in a prune or between it and the    *)
(* record (_prune, _commit).                                                *)
RecordsBounded == Cardinality(records \ spared) <= Keep

(* A log without a record belongs to a call that is under way, to one that  *)
(* died or raised before its record was written, or to a record that a      *)
(* prune removed: the log is next, or its unlink failed, or the server died *)
(* in between.  (Such a log stays for good: a prune goes by the records.)   *)
LogsHaveRecords ==
    \A l \in logs \ records :
        \/ l \in torn \cup doomed
        \/ \E s \in Servers : name[s] = l /\ pAt[s] \in InBody
=============================================================================
