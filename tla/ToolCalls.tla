----------------------------- MODULE ToolCalls -----------------------------
(***************************************************************************)
(* The tools of the local MCP (memory/local_mcp/tools/local.py), one call  *)
(* at a time, as the gate of the server hands them over.  A call is bound  *)
(* to a work directory, its handler makes its checks, and then reads or    *)
(* writes the project, or starts a command and watches it (_spawn).        *)
(*                                                                         *)
(* The project is not the server's own: a local pipeline takes and gives   *)
(* back its lock, the lock file is empty for the moment between its        *)
(* creation and the pid in it, and the knowledge database comes and goes   *)
(* between the look at it and its opening.                                 *)
(***************************************************************************)
Tools == {"git_preflight", "validate_handoff", "state_snapshot",
          "state_append_delta", "state_metrics_log", "memory_info",
          "memory_query", "memory_snapshot", "memory_update",
          "knowledge_query", "knowledge_stats", "playbooks_select",
          "playbooks_list", "proxy_health", "proxy_stats",
          "integrations_status", "pytest_run", "docker_compose"}

VARIABLES
    tool,       \* the tool that was called last
    handlerAt,  \* where its handler is
    reply,      \* its answer
    wrote,      \* history: the files of the project it wrote
    cmd,        \* the command it started
    leftover,   \* a process of that command's group outlives it
    stopped,    \* the cancel event of the call is set
    timeUp,     \* the command's time is up
    pipeline,   \* .agent/local_pipeline.lock
    newer,      \* history: its pid was written after the call looked at it
    db,         \* .agent/knowledge/knowledge.sqlite
    bulletIndex \* .agent/PLAYBOOKS.json

toolVars == <<tool, handlerAt, reply, wrote, cmd, leftover, stopped, timeUp,
              pipeline, newer, db, bulletIndex>>
callVars  == <<cmd, leftover, timeUp>>
worldVars == <<pipeline, newer, db, bulletIndex>>

Files   == {"state", "memory", "audit", "db", "index", "cache"}
Replies == {"none", "ok", "refused", "failed", "cancelled", "timed_out",
            "raised"}

ToolTypeOK ==
    /\ tool \in Tools \cup {"none"}
    /\ handlerAt \in {"idle", "dispatch", "handler", "checked", "toplevel", "script",
               "run", "readers"}
    /\ reply \in Replies /\ wrote \subseteq Files
    /\ cmd \in {"none", "running", "gone"} /\ leftover \in BOOLEAN
    /\ stopped \in BOOLEAN /\ timeUp \in BOOLEAN
    /\ pipeline \in {"none", "blank", "live", "stale"} /\ newer \in BOOLEAN
    /\ db \in {"none", "foreign", "torn", "good"}
    /\ bulletIndex \in {"none", "torn", "good"}

ToolInit ==
    /\ tool = "none" /\ handlerAt = "idle" /\ reply = "none" /\ wrote = {}
    /\ cmd = "none" /\ leftover = FALSE /\ stopped = FALSE /\ timeUp = FALSE
    /\ pipeline = "none" /\ newer = FALSE /\ db = "good" /\ bulletIndex = "good"

----------------------------------------------------------------------------
(* The project around the call.                                             *)

PipelineLocks ==
    /\ \/ pipeline \in {"none", "stale"} /\ pipeline' = "blank" /\ UNCHANGED newer
       \/ pipeline = "blank" /\ pipeline' = "live" /\ newer' = TRUE
    /\ UNCHANGED <<tool, handlerAt, reply, wrote, callVars, stopped, db, bulletIndex>>

PipelineEnds ==
    /\ pipeline \in {"blank", "live"} /\ pipeline' \in {"none", "stale"}
    /\ UNCHANGED <<tool, handlerAt, reply, wrote, callVars, stopped, newer, db, bulletIndex>>

\* Somebody removes, replaces or ingests the database, or tears the index.
FilesChange ==
    /\ db' \in {"none", "foreign", "torn", "good"}
    /\ bulletIndex' \in {"none", "torn", "good"}
    /\ UNCHANGED <<tool, handlerAt, reply, wrote, callVars, stopped, pipeline, newer>>

CommandExits ==
    /\ cmd = "running" /\ cmd' = "gone" /\ leftover' \in BOOLEAN
    /\ UNCHANGED <<tool, handlerAt, reply, wrote, stopped, timeUp, worldVars>>

LeftoverEnds ==
    /\ leftover /\ cmd = "gone" /\ leftover' = FALSE
    /\ UNCHANGED <<tool, handlerAt, reply, wrote, cmd, stopped, timeUp, worldVars>>

CancelCall ==
    /\ handlerAt # "idle" /\ ~stopped /\ stopped' = TRUE
    /\ UNCHANGED <<tool, handlerAt, reply, wrote, callVars, worldVars>>

TimeIsUp ==
    /\ handlerAt \in {"toplevel", "script", "run"} /\ ~timeUp /\ timeUp' = TRUE
    /\ UNCHANGED <<tool, handlerAt, reply, wrote, cmd, leftover, stopped, worldVars>>

----------------------------------------------------------------------------
(* One step of a handler: it answers, or it goes on.                        *)

Answers(r, ws) ==
    /\ handlerAt' = "idle" /\ reply' = r /\ wrote' = wrote \cup ws
    /\ UNCHANGED <<tool, callVars, stopped, worldVars>>

GoesOn(to) ==
    /\ handlerAt' = to
    /\ UNCHANGED <<tool, reply, wrote, callVars, stopped, worldVars>>

Handles(ts) == handlerAt = "handler" /\ tool \in ts

\* default_executor: every call that is not the pipeline comes to dispatch.
CallTool(t) ==
    /\ handlerAt = "idle" /\ handlerAt' = "dispatch" /\ tool' = t
    /\ reply' = "none" /\ wrote' = {} /\ stopped' = FALSE
    /\ cmd' = "none" /\ leftover' = FALSE /\ timeUp' = FALSE /\ newer' = FALSE
    /\ UNCHANGED <<pipeline, db, bulletIndex>>

\* A work directory out of the root, or with neither .agent nor .git; and in
\* a handler, an .agent that is a link out of the work directory.
ResolvePair     == handlerAt = "dispatch" /\ (Answers("refused", {}) \/ GoesOn("handler"))
ContainedAgent(ts) == Handles(ts) /\ Answers("refused", {})

NeedAgent == {"state_snapshot", "state_append_delta", "state_metrics_log",
              "memory_update", "playbooks_select", "playbooks_list",
              "proxy_health", "integrations_status", "pytest_run"}
AgentEscapes == ContainedAgent(NeedAgent)

ValidateHandoff == Handles({"validate_handoff"}) /\ \E r \in {"ok", "refused"} : Answers(r, {})

\* A snapshot reads the state as it finds it; load_state would migrate it.
StateSnapshot == Handles({"state_snapshot"}) /\ \E r \in {"ok", "refused"} : Answers(r, {})

StateAppendDelta ==
    /\ Handles({"state_append_delta"})
    /\ Answers("refused", {}) \/ Answers("ok", {"state"}) \/ Answers("raised", {})

\* An object over 2048 bytes is refused before .agent is looked at.
StateMetricsLog ==
    /\ Handles({"state_metrics_log"})
    /\ Answers("refused", {}) \/ Answers("ok", {"state"}) \/ Answers("raised", {})

\* The memory file is the user's, not the project's.
MemoryReads == Handles({"memory_info", "memory_query", "memory_snapshot"}) /\ Answers("ok", {})

\* The store first, its audit entry after it: a raise in between leaves the
\* pattern counted, and the client with an error.
MemoryUpdate ==
    /\ Handles({"memory_update"})
    /\ \/ Answers("refused", {}) \/ Answers("raised", {})
       \/ /\ handlerAt' = "checked" /\ wrote' = {"memory"}
          /\ UNCHANGED <<tool, reply, callVars, stopped, worldVars>>

AuditUpdate ==
    /\ handlerAt = "checked" /\ tool = "memory_update"
    /\ Answers("ok", {"audit"}) \/ Answers("raised", {})

Knowing == {"knowledge_query", "knowledge_stats"}

KnowledgeFile ==
    /\ Handles(Knowing)
    /\ IF db \in {"good", "torn"} THEN GoesOn("checked") ELSE Answers("refused", {})

\* Opened for writing: what is not there is created, with its schema.
ReadKnowledgeBroken ==
    /\ handlerAt = "checked" /\ tool \in Knowing
    /\ Answers(IF db \in {"good", "none"} THEN "ok" ELSE "refused", {"db"})

\* knowledge.query and stats with readonly = True.  The file may be another
\* one by now; every error of the database is a refusal.
ReadKnowledge ==
    /\ handlerAt = "checked" /\ tool \in Knowing
    /\ Answers(IF db = "good" THEN "ok" ELSE "refused", {})

Playing == {"playbooks_select", "playbooks_list"}

\* Disabled, or told to score by embeddings.
PlaybooksBlocked == Handles(Playing) /\ (Answers("refused", {}) \/ GoesOn("checked"))

\* A torn index is moved aside under its lock, by a reader too.
ReadPlaybooks ==
    /\ handlerAt = "checked" /\ tool \in Playing /\ handlerAt' = "idle"
    /\ \/ /\ reply' = "ok"
          /\ wrote' = IF bulletIndex = "torn" THEN {"index"} ELSE {}
          /\ bulletIndex' = IF bulletIndex = "torn" THEN "none" ELSE bulletIndex
       \/ reply' = "raised" /\ UNCHANGED <<wrote, bulletIndex>>   \* the lock is not had
    /\ UNCHANGED <<tool, callVars, stopped, pipeline, newer, db>>

\* Every hop is looked at before the first one is dialled.
ProxyHealth == Handles({"proxy_health"}) /\ \E r \in {"ok", "refused"} : Answers(r, {})

\* cache_stats commits the schema of the cache it opens.
ProxyStats == Handles({"proxy_stats"}) /\ (Answers("refused", {}) \/ Answers("ok", {"cache"}))

IntegrationsStatus == Handles({"integrations_status"}) /\ Answers("ok", {})

----------------------------------------------------------------------------
(* The tools that start a command.                                          *)

Start(to) ==
    /\ handlerAt' = to /\ cmd' = "running" /\ leftover' = FALSE /\ timeUp' = FALSE
    /\ UNCHANGED <<tool, reply, wrote, stopped, worldVars>>

\* No such command: 127; Popen failing otherwise counts as an exit of 1.
SpawnOr(to, missing) == Start(to) \/ Answers(missing, {})

GitToplevel == Handles({"git_preflight"}) /\ SpawnOr("toplevel", "refused")

\* The top of the tree or the script leads out of the root.
GitScript == handlerAt = "checked" /\ tool = "git_preflight" /\ SpawnOr("script", "refused")

\* Paths out of the work directory and flags that are not listed.
PytestArgs == Handles({"pytest_run"}) /\ (Answers("refused", {}) \/ GoesOn("checked"))

\* The look at the lock is forgotten.
PeekPipelineBroken ==
    /\ handlerAt = "checked" /\ tool = "pytest_run"
    /\ SpawnOr("run", "refused")

\* _pipeline_lock_held: no file, an empty one and a dead pid are no lock;
\* the pid of a dead pipeline may have become another process's.
PeekPipeline ==
    /\ handlerAt = "checked" /\ tool = "pytest_run"
    /\ \/ pipeline \in {"live", "stale"} /\ Answers("refused", {})
       \/ /\ pipeline # "live" /\ newer' = FALSE
          /\ \/ /\ handlerAt' = "run" /\ cmd' = "running"
                /\ leftover' = FALSE /\ timeUp' = FALSE /\ UNCHANGED reply
             \/ handlerAt' = "idle" /\ reply' = "refused" /\ UNCHANGED callVars
          /\ UNCHANGED <<tool, wrote, stopped, pipeline, db, bulletIndex>>

\* Only logs, ps and config.
DockerCompose == Handles({"docker_compose"}) /\ SpawnOr("run", "refused")

Watching == handlerAt \in {"toplevel", "script", "run"}

\* The poll saw the command gone: what it left behind is not looked for.
SpawnEnds ==
    /\ Watching /\ cmd = "gone"
    /\ \/ handlerAt = "toplevel" /\ (Answers("refused", {}) \/ GoesOn("checked"))
       \/ handlerAt # "toplevel" /\ (Answers("ok", {}) \/ Answers("failed", {}))

\* Only the command itself is killed, not its group.
KillSpawnBroken ==
    /\ Watching /\ cmd = "running" /\ (stopped \/ timeUp)
    /\ cmd' = "gone" /\ leftover' \in BOOLEAN /\ handlerAt' = "idle"
    /\ reply' = IF stopped THEN "cancelled" ELSE "timed_out"
    /\ UNCHANGED <<tool, wrote, stopped, timeUp, worldVars>>

\* The cancel event goes before the deadline; either kills the group.  A
\* toplevel that is too slow is git_toplevel_failed.
KillSpawn ==
    /\ Watching /\ cmd = "running" /\ (stopped \/ timeUp)
    /\ cmd' = "gone" /\ leftover' = FALSE /\ handlerAt' = "idle"
    /\ reply' = CASE stopped         -> "cancelled"
                  [] handlerAt = "toplevel" -> "refused"
                  [] OTHER           -> "timed_out"
    /\ UNCHANGED <<tool, wrote, stopped, timeUp, worldVars>>

HandlerNext ==
    \/ ResolvePair \/ AgentEscapes \/ ValidateHandoff \/ StateSnapshot
    \/ StateAppendDelta \/ StateMetricsLog \/ MemoryReads \/ MemoryUpdate
    \/ AuditUpdate \/ KnowledgeFile \/ ReadKnowledge \/ PlaybooksBlocked
    \/ ReadPlaybooks \/ ProxyHealth \/ ProxyStats \/ IntegrationsStatus
    \/ GitToplevel \/ GitScript \/ PytestArgs \/ PeekPipeline
    \/ DockerCompose \/ SpawnEnds \/ KillSpawn

ToolNext ==
    \/ \E t \in Tools : CallTool(t)
    \/ HandlerNext
    \/ PipelineLocks \/ PipelineEnds \/ FilesChange
    \/ CommandExits \/ LeftoverEnds \/ CancelCall \/ TimeIsUp

----------------------------------------------------------------------------
(* While pytest runs, a pipeline that is running as well wrote its pid into *)
(* the lock after pytest_run had looked: the two exclude each other only at *)
(* that look (_pytest_run, _pipeline_lock_held).                            *)
PytestYieldsToPipeline ==
    handlerAt = "run" /\ tool = "pytest_run" /\ pipeline = "live" => newer

(* A call that is refused has written nothing, and the tools that only read *)
(* the project do not write it whatever becomes of its files between their  *)
(* check and their use (_knowledge_file, _read_knowledge, _state_snapshot). *)
Readers == Knowing \cup {"validate_handoff", "state_snapshot", "proxy_health",
                         "integrations_status"}
ReadersWriteNothing == reply = "refused" \/ tool \in Readers => wrote = {}

(* A command that was cancelled or ran out of time leaves no process of its *)
(* group, whichever of the two commands of git_preflight it was (_spawn).   *)
KilledLeavesNothing == reply \in {"cancelled", "timed_out"} => cmd = "gone" /\ ~leftover
=============================================================================
