# A TLA+ verification of the agentic loop

The repository runs a chain of agent roles (Orchestrator, Coder, Tester,
Debugger, Reviewer) over a working directory, one chain at a time or several in
parallel worktrees. Everything the parts share is in files under `.agent/`:
locks, the loop state, handoffs, leases, `STOP`. Several processes, and the
threads of one process, write those files; any of them may be killed at any
point. That is what the modules here are about.

Source paths below are relative to the repository and written `src/...` where
they are meant as files of this tree.

- [1. The parts of the system](#1-the-parts-of-the-system)
- [2. The modules and the code](#2-the-modules-and-the-code)
- [3. The runs](#3-the-runs)
- [4. Where the code and its documents disagree](#4-where-the-code-and-its-documents-disagree)
- [5. The proofs](#5-the-proofs)
- [6. What is abstracted, and what is not modelled](#6-what-is-abstracted-and-what-is-not-modelled)
- [7. The plan](#7-the-plan)
- [8. Running it](#8-running-it)

## 1. The parts of the system

| Part | State it keeps | Operations | What is hard | What makes it correct |
|---|---|---|---|---|
| **agent lock** `memory/agent_lock.py` | `.agent/locks/<name>.lock` with a PID; an in-memory guard per path | enter (guard, `O_EXCL`, stale check, deadline), leave (owner check, unlink) | processes and threads interleave between system calls; crashes leave files; PIDs are used again | threads exclude each other; the guard is never left behind; processes exclude each other; stale files go; calls end |
| **plans and gate** `memory/streams.py` | the `StreamPlan` list | parse, validate, check `owned_paths` against the committed changes | two spellings of a path rule (`_owned_covers`, `path_is_owned`) have to agree | ready streams have changed no common file; a rejection has a reason |
| **lease registry** `memory/stream_lease.py` | `.agent/stream_leases.json` | claim, renew, release, command line | dead holders, reused PIDs, times to live, a damaged file | leases are exclusive, live ones are never stolen, dead ones do not block |
| **role loop** `memory/supervisor.py` | `LOOP_STATE.json`, `last_handoff.json`, `STOP`, local counters | begin or resume, turn, retry, accept, advance, propose, next cycle, halt | killed between two writes and started again; retries; `STOP` between turns | pull requests on green tests only, one per cycle; `STOP` takes effect; a run ends |
| **parallel run** `memory/supervisor_parallel.py` | leases, worktrees, `streams_state.json`, the integration branch | claim all, provision, run serially or in a pool, merge, propose, release | exceptions while threads work; two sessions on one hub; one of several steps fails | streams at work are disjoint and leased; only gated work is merged; leases are given back |
| **STOP fan-out** `memory/stream_stop.py` | `STOP` in the hub and in each worktree | find the worktrees, write, clear | the list is a file that a session rewrites meanwhile | every stream at work gets `STOP` |
| **stream git** `memory/stream_git.py` | worktrees, branches, a merge in progress | add worktree, commit, push, merge, abort | timeouts in the middle of a merge; a shared integration worktree | a failed merge leaves nothing behind |
| **loop state** `memory/state.py` | `LOOP_STATE.json` | load, save, update under the lock | a plain save after a read undoes updates made since | no update is lost |
| **adapters** `memory/adapters/` | a child process per turn | run a role's turn, time out | output that does not parse, a child that outlives its parent | a turn returns a valid handoff or fails |
| **logs** `audit_log.py`, `questions_collector.py`, `performance_ledger.py` | JSON journals with Markdown views | append, answer, aggregate | torn files, concurrent writers, windows that drop the oldest | entries stay, identifiers keep their meaning |
| **memory store** `memory/store.py` | a Markdown file in the home directory, a lock file of its own | merge, compact | the lock falls through at its timeout; one temporary name for all | no merge is lost |
| **playbooks, meta optimizer** `playbooks.py`, `meta/` | JSON indexes with views; blocks in a guide | curate, seed, harvest, analyze, apply | killed between the guide and the index | lessons stay, a proposal is in the guide when it is called applied |
| **knowledge base** `memory/knowledge.py` | SQLite rows of the ingested documents | upsert, ingest, compact | documents change during a run; the cap drops by id | a look-up answers for the documents that are there |
| **LLM gateway** `memory/proxy/` | response cache | look up, forward, store, evict | an answer cut short, time to live, rows at the limit | what is served answers what was asked |
| **MCP server** `memory/local_mcp/server.py` | the call in flight, its cancel event, a wake socket | read, dispatch, run, answer, shut down | three threads; signals, end of input, a thread that does not start | one call at a time, one answer each, the server ends |
| **command streaming** `local_mcp/stream.py` | a child, its process group, a queue of lines | spawn, read, progress, deadline, kill | processes that keep the pipes; a full queue | nothing is left running, no line is lost without a count |
| **pipeline** `local_mcp/pipeline.py`, `backends/`, `probe.py` | a lock, records, logs, `_diag`, containers, a build | refuse, run, commit, prune, probe | lost answers, deleted logs, cancels, servers that die | what a run started ends with it, its logs are kept |
| **short tools** `local_mcp/tools/local.py` | – (the project's files) | check, read, write, spawn | files that change between a check and the use | a tool that reads writes nothing, pytest yields to a pipeline |
| **webhook relay** `local_mcp/hmac_relay.py` | table of deliveries seen | verify, reserve, trigger, forget | a repetition meets a first attempt that then fails; lost answers | each delivery is triggered once or can be repeated |
| **dashboard** `memory/dashboard/` | last good copies of files, marks, sockets | read, watch, debounce, broadcast, act | torn files, changes within the debounce, clients that stall | a page is fresh or says that it is not; the last change is told |
| **integrations** `memory/integrations/` | poll cursor | poll, send | a send that fails after the cursor moved | nothing is skipped |
| **experience, setup and inspection** | – | scan, generate, check | – | – |

How they meet: `run_parallel` claims leases, provisions worktrees through
`stream_git`, and calls `run_loop` in each; `run_loop` calls an adapter for a
turn, validates what it left in `last_handoff.json`, saves `LOOP_STATE.json`
and appends to the journals; every writer of a shared file goes through
`agent_lock` (or, in `store.py`, a lock of its own); the dashboard and the MCP
server read the same files and hand out `STOP` through `stream_stop`. A call of
the MCP server runs on its worker thread: a short tool, or `run_local_pipeline`,
which runs one backend, which runs its commands through `stream_cli`.

`PROJECT.json` lists each part with its files and status, and every hazard at
the line where it bites, with the properties that are for it.

## 2. The modules and the code

```
 AgentLock            PathOwnership  <---- StreamLease <---- OperatorLeases
                           ^  refined by      |
                           |                  | EXTENDS
                      ParallelRun         StreamPaths <---- StreamPlans
                           .
                           . a stream's loop, one step there
                      SupervisorLoop

 MCStores      LoopStateFile + MemoryFile + AuditTrail + QuestionsPool +
               CycleLedger + Playbooks + MetaIndex + Knowledge + ProxyGateway
 MCLongCalls   McpServer + StreamCli + LocalPipeline + ActBackend + JenkinsJob +
               SelfHosted + BackendProbe + ToolCalls + SnapshotBound
 MCServices    DashboardEvents + DashboardReads + HookRelay
```

**`AgentLock`** – one lock path. A step is one system call or one operation on
the guard, because that is where another process may come in. `pc` is the
place of each thread in `agent_lock`; `file` is what the path holds, as the set
of the files that have the name (none or one); a file carries its *creator* as
an inode would, since a write through a descriptor whose file was unlinked no
longer reaches the name. `Acquire … ReleaseGuard` follow the function from top
to bottom, `Crash` and `Start` are processes dying and PIDs used again.
`robbed` is a history variable.

**`StreamPaths`** – the path rules as operators: `OwnedCovers`, `Overlap`,
`PathIsOwned`, `FilesOutsideOwned`. A path is the sequence `str.split("/")`
gives, so that `"src//"` and `"src/"` are different and `startswith(d + "/")`
is `IsStrictPrefix`. Spelling matters here, because two functions treat it
differently.

**`StreamPlans`** – parse, validate, commit, gate. `OverlapMeetsGate` relates
the check made on tokens before anything runs to the gate applied to files
afterwards: no two accepted streams pass the gate with a change to the same
file, and plans refused for overlap have a file both own. `StreamsAssumption`
says for which tokens and files: files are what git lists (no empty segment, no
`.`), a token ends in one slash at most, and each token is one that some file
can have (`./src` and `/etc` own nothing, and are told apart by nobody).

**`PathOwnership`** – the abstract specification: paths are granted under a
stream name when no other grant overlaps, and kept until given up or death. No
registry and no liveness test.

**`StreamLease`** – the registry with its records, PIDs, start times and times
to live. `held` is what running processes have claimed and not released, and is
the refinement mapping to `own` of `PathOwnership`. A claim reads the registry
under the lock and looks at liveness twice, with processes ending and beginning
meanwhile, so it is several steps: `ClaimBegins`, `CheckOther` for each other
record (`stream_lease.py:253`), `CheckOwn`, `DropOther` for each (`:197`, where
`LeasePidDead` is asked again) and `SaveClaim`; `ClaimRaises` is a refusal or an
error. `claiming` is the claim under way; the lock keeps every other operation
out until it is over. `Renew` and `Release` have one look and are one step.

**`OperatorLeases`** – `StreamLease` as the command line uses it: each command
is a process of its own.

**`SupervisorLoop`** – `run_loop` between two reads or writes of something that
outlives the process. `state`, `last` and `stop` are the files; `Crash` is
possible everywhere; `Begin` is the resumption. `NextRole` and
`ShouldStartNewCycle` are the decision functions. `green`, `proposed` and
`late` are history.

**`ParallelRun`** – sessions of `run_parallel` on one hub and an operator. The
leases are those of `PathOwnership` (`Ownership!Grant`, `!GiveUp`, `!Die`); the
registry's theorem says that the real ones behave like that. `phase` is where
the session is, `stream` how far each stream is: *planned, claimed, placed* (has
its worktree), *looping* (in `run_loop` or the gate), *ready* or *blocked*,
*merged*. `Raises` is any exception that `run_parallel` lets through; `Joined`
is the end of the `with` block of the pool, before the `finally` clause, which
is `Release` and `End`. The operator's `STOP` is `OperatorStops`, then
`Discover` (the list of the hub, of which only the worktrees below an allowed
root are taken, `Allowed`; the others are passed over with a warning) or
`DiscoverFails`, then `WriteStop` for one worktree after the other, each of
which may be gone or fail, with a warning; `OperatorClears` is `clear_fanout`.

**The stores** (`MCStores`). Each module is one file, or one file and its views,
and the processes that use it; a step is what happens between two system calls
another process can come between, and any process may die at any step.

| Module | Code | The state, and what is peculiar to it |
|---|---|---|
| `LoopStateFile` | `state.py` | `stateFile` and what of it is on disk (`stateIs`), a copy per writer, `history`; updates under the lock beside whole saves outside of it; every write may trim what is over a cap (`WriteTrimmed`) |
| `MemoryFile` | `store.py` | the lock file that is passed over after ten seconds, or at once on an unforeseen error, and is removed by whoever ends; a read that fails is an empty memory; one temporary name for all, so that an opened file may be renamed by another before it is filled |
| `AuditTrail` | `audit_log.py` | journal and Markdown view; a torn journal makes the entry a caller gets one without id |
| `QuestionsPool` | `questions_collector.py` | the pool, edited by hand in place meanwhile; answers by id |
| `CycleLedger` | `performance_ledger.py` | a window of the last records; a torn ledger counts as empty |
| `Playbooks` | `playbooks.py` | index, views; an index that does not parse is renamed by its first reader; `Ranked` gives each bullet its place by `(score, position)` |
| `MetaIndex` | `meta/` | guide, index and ledger, which are written one after the other by operations that may be broken off anywhere; an index that does not parse is set aside and ids begin again; the example trajectory beside the harvested ones |
| `Knowledge` | `knowledge.py` | rows with SQLite's ids; ingesters without a common lock; upserts by hand, which may replace a document's row |
| `ProxyGateway` | `proxy/gateway.py`, `cache.py` | rows with a time to live; a part of an answer, whose connection was closed too early, is stored and served like a whole one |

**The calls of the local MCP server** (`MCLongCalls`).

| Module | Code | The state, and what is peculiar to it |
|---|---|---|
| `McpServer` | `server.py`, `framing.py` | reader, worker and main thread; `flight` is the gate; the wake socket; `fault` says which of the rare events has happened |
| `StreamCli` | `stream.py` | child, what holds its pipes, the queue; lines made, dropped, notified and logged are counted; a write of the log may raise (`SinkRaises`), which leaves the child as it is |
| `LocalPipeline` | `pipeline.py` | servers of one project, its lock, logs and records by age; a prune removes record and log of each run by two unlinks, each of which fails or is the last before a death |
| `ActBackend` | `backends/act.py` | containers and scratch; docker fails or hangs, `rmtree` gives up (`rmFailed`) |
| `JenkinsJob` | `backends/jenkins.py` | the controller's queue and build, what the caller knows of them, the log by offsets; a request or the log fails while the build is followed (`TailRaises`) |
| `SelfHosted` | `backends/self_hosted.py` | `run.sh` on a second thread, which may raise; `_diag` that is deleted meanwhile, with and without fanotify, and directories made after the last look, which carry no mark |
| `BackendProbe` | `probe.py` | what is looked at, one look a step, while it changes |
| `ToolCalls` | `tools/local.py` | the tool at work, a pipeline that comes and goes, the knowledge file |
| `SnapshotBound` | `tools/local.py` | a pure algorithm: parts are dropped in an order until the answer fits. A part is as many units as it is long (`Units`), and `Packed` counts them and the names of what was dropped |

**The services** (`MCServices`). `DashboardEvents` – the watcher, the debounce
and the senders on one event loop, with clients that join, stall and leave;
`DashboardReads` – one snapshot over two files that are torn, replaced and
removed between the attempts; `HookRelay` – handler threads, the replay table
with its time to live, answers that are lost, a restart.

The modules of one of these three groups share nothing that one of their
properties is about. Their MC module has a variable `part` that is chosen in
the initial state; only the chosen module moves (`Still`). One run then explores
the sum of their state spaces, where a conjunction of specifications would
explore the product and find nothing more. A module that is not chosen has one
initial state.

Operators whose name ends in `Broken` (or says what is missing, like
`SaveLedgerUncut`) are forms of an action or a decision with a plausible bug in
it. No specification uses them; put in the place of the operator that follows
them, each makes a property fail that holds otherwise. They show that the
properties can fail, and why each guard is there. `PROJECT.json` names one for
each property, some modules have a second.

`MC*` modules give values to constants, and those of the three groups join
properties of several modules under one name where they say the same thing of
different parts (`UpdatesKept == MergesKept /\ StateKept`).

## 3. The runs

| Run | Module, cfg | Bounds | States | Shows |
|---|---|---|---|---|
| `lock` | `MCAgentLock`, `AgentLock.cfg` | 2 PIDs, 3 threads (2 + 1) | 4,646 | `GuardExact`, `MutexUnlessRobbed`, `StaleReclaimed`, `CallEnds` |
| `stream_plans` | `MCStreamPlans`, `StreamPlans.cfg` | 2 specs, up to 2 of the tokens, 2 changes per stream | 276,320 | `OverlapMeetsGate` |
| `lease_registry` | `MCStreamLease`, `StreamLease.cfg` | 2 PIDs, 2 names, 3 tokens, 3 process starts, with and without `/proc` | 317,030 | `RegistryDisjoint`, `HeldIsRegistered`, `NoGhostLease`, `ImplementsOwnership` |
| `loop` | `MCSupervisorLoop`, `SupervisorLoop.cfg` | 4 turns, 2 cycles, 1 retry, 2 runs | 115,490 | `PrOnlyAfterGreenTests`, `OnePrPerCycle`, `StopEndsTheTurn`, `RunEnds` |
| `parallel_sessions` | `MCParallelRun`, `ParallelRun.cfg` | 2 sessions, 2 names, 2 paths, one plan, one session outside the allowed roots | 1,368,988 | `LeaseCoversRun`, `RunningDisjoint`, `MergedIsGated`, `EndedHoldsNothing`, `StopReachesOrWarns` |
| `stores` | `MCStores`, `Stores.cfg` | 2 processes (3 for the memory file), 2 texts, 1–4 records, caps of 1 or 2 | 947,470 | `RecordsKept`, `UpdatesKept`, `IdsMeanOneThing`, `LookUpsAreRight` |
| `long_calls` | `MCLongCalls`, `LongCalls.cfg` | 2 request ids, 3 frames, 3 lines over a queue of 1, 2 servers, 1 death | 235,140 | `OneCallAtATime`, `NothingLeftBehind`, `OutputAccounted`, `LogsKept`, `ToolsKeepOut`, `ProbeOkWasSeen`, `CallsEnd` |
| `services` | `MCServices`, `Services.cfg` | 2 pages, 1 file, 2 handler threads, 4 requests of one delivery | 149,597 | `PageFreshOrFlagged`, `DeliveryBuildsOnce`, `LastChangeIsTold` |

and four runs whose property is violated (section 4): `lock_exclusive`,
`operator_leases`, `pool_kept`, `ingest_idempotent`. Each passing run also has
its `TypeOK`. The states of `stores` are counted up to the exchange of
processes and texts: its symmetry is sound because the run has only invariants
and no module prefers one process to another. So are those of `lease_registry`,
up to the exchange of PIDs and names; its refinement is a property of the initial
state and of single steps, and `PathOwnership` is as symmetric.

What the joined properties say, part by part:

- `RecordsKept`: an audit entry whose id was given out is in the journal under
  it; the ledger is the tail of what was appended since it was last torn; no
  lesson is lost but by the cap or with a torn index; the views show the files
  unless somebody died between the two.
- `UpdatesKept`: a merge stays in the memory file until somebody goes on without
  its lock, but for what a read that failed took for nothing; an update or delta
  of the loop state stays until somebody saves a whole state that was not read
  under the lock or was torn, but for what a cap left out.
- `IdsMeanOneThing`: an id that a page showed keeps its question, until an
  append has met a torn pool; an index has one trajectory of a cycle and one
  example; a proposal that is called applied is in the guide, until a write of
  the guide is cut short, with at most one block more for each operation broken
  off; and what the ledger was told, the index calls applied, until an index is
  set aside.
- `LookUpsAreRight`: what the gateway serves was an answer to these fields, in
  its time, and no error – maybe a part of one; a document is found with its text
  once a run has ended and nothing that excuses it (an edit, a death, a row
  dropped at the cap, an upsert by hand over its row) has happened since a run
  that was alone.
- `OneCallAtATime`: one answer per request; the gate is held exactly while a
  worker runs; a shutdown has cancelled what is in flight.
- `NothingLeftBehind`: process group, `run.sh`, containers, scratch, and the
  Jenkins build whose number is known are gone or stopped with the call. The
  exceptions are those of the code, one by one: a log that raises before the call
  was cut short (the group stays), a calling or reading thread that raises
  (`run.sh` stays), `rmtree` or docker that fails, a request or the log that
  fails while the build is followed.
- `OutputAccounted`: a line is notified or counted as dropped, the console is
  whole or flagged, a cut answer fits its limit.
- `LogsKept`: what was written below a marked directory of `_diag` before the
  last drain is in the tail of the result, also when it was deleted; a log
  without a record is of a call under way, of one that died or raised (`torn`),
  or is what a prune left when its second unlink failed or never came; no more
  records than are kept, but for those whose unlink failed (`spared`).
- `CallsEnd`: a request that was read is answered, an overdue command returns,
  the server exits when its client is gone.

Why the bounds are enough for the questions asked:

- *lock*: a race on the file takes two processes (one that judges, one that
  holds) and a race on the guard two threads of one of them. Crash and restart
  are unbounded, so PIDs are used again any number of times. The safety
  properties are proved for any numbers.
- *stream plans*: overlap and the gate are about pairs of tokens, so two
  streams suffice; the six tokens are a directory with and without its slash, a
  file in it, a directory in it, and a dotted directory with and without its
  slash (`Path.suffix` takes it for a file).
- *lease registry*: three starts for two PIDs means that a PID is used again
  while a record of its former process is there and another session lives, also
  between the two looks of that session's claim.
- *loop*: the shortest way from the Orchestrator to `PR_READY` is four turns
  (Orchestrator, Coder, Tester, Reviewer), and two runs give every crash a
  restart; a second cycle can follow in the same run or in the next.
- *parallel*: the plan of the second session meets the first in a path under
  another name and in a name without a common path, which are the two ways two
  sessions touch. Serial and concurrent sessions are mixed. The worktrees of the
  first are below an allowed root and those of the second are not. The operator
  orders any number of times, but again only when no `STOP` is left of the order
  before, and may clear at any time.
- *stores*: two processes give every lost update, an update being a read, a
  write and another's write in between; the memory file has three, since a lock
  that fell through is removed by one process, taken by the second and removed
  again by the first under the third. Windows and caps are 1 or 2, so that the
  oldest record is dropped while another process still has it.
- *long calls*: with two ids one call is in flight when the next is read, and a
  third frame can be a cancel of either; three lines over a queue of one fill
  it, and one notification per second is exceeded. Two servers and one death
  put every step of a pipeline before a death and another server's call after
  it. `Keep = 1` makes each commit prune.
- *services*: two pages let one stall while the other is served, a mark of two
  gives a change during the broadcast of the one before, and two joins let a page
  come back. Four requests of one delivery on two threads with a time to live
  of 2 and a longest trigger of 1: a repetition during, after and beyond it.

**Fairness.** Safety runs need none. `lock` assumes weak fairness of every
thread inside `agent_lock` (the scheduler runs it; the bodies of the lock are
short file operations) and strong fairness of `Timeout`: time passes, so a
thread that looks at the deadline again and again finds it passed. Nobody is
obliged to call, to crash or to start; `CallEnds` is claimed only once no new
calls arrive, because the code does not look at its deadline after it has
unlinked a stale file (`agent_lock.py:128`). `loop` assumes weak fairness of
the loop's own steps; an adapter call ends, by `role_timeout_s` at the latest.
For `ProposePr` that is an assumption about `gh pr create`, which
`supervisor.py:442` gives no timeout: where it hangs, the run hangs.
`long_calls` assumes weak fairness of the threads of the server and of
`stream_cli` (`ServerFairness`, `StreamFairness`): their waits are all bounded or
woken, and a call ends, by its deadline at the latest. That a client closes its
end, that a child ends, or that a deadline passes is the premise of a property
and not assumed. `services` assumes that the event loop runs what is ready and that
a stalled connection is given up at last (`EventsFairness`); clients and writers
are free. In the runs over a `part` no fair step is enabled in the modules that
are not chosen, so their fairness asks for nothing.

`CHECK_DEADLOCK FALSE` stands where the system really may stop: a plan that is
gated or rejected is at its end (`StreamPlans.cfg`); a server has exited, a
call has returned, a pipeline's bound of runs is reached (`LongCalls.cfg`); the
processes have made their bounded number of changes (`Stores.cfg`,
`Services.cfg`, `PoolKept.cfg`, `IngestAgain.cfg`). In the other runs something can always
happen: a process may start, an operator may act.

## 4. Where the code and its documents disagree

Four have a run whose trace shows it, and a `findings` entry with both
quotations.

1. **`Mutex`** (`lock_exclusive`) – "exclusive lock". Creating the file and
   writing the PID are two calls; in between the file is empty, an empty file is
   stale, and unlinking goes by name. `MutexUnlessRobbed`, proved, says that
   this is the only hole: without a stale verdict carried out on a live
   holder's file there are never two holders.
2. **`OperatorsExclusive`** (`operator_leases`) – "conflict-free parallel
   operator sessions". A claim made on the command line is recorded under the
   PID of the command, which has exited when the next claim looks.
3. **`PoolIsKept`** (`pool_kept`) – a pool that does not parse "is not
   overwritten". `append_question` takes it for an empty pool and saves that.
   `IdsKeepTheirQuestion` is what holds until such a loss.
4. **`IngestIdempotent`** (`ingest_idempotent`) – "a repeated run is
   idempotent". With more documents than the cap of a category, each run
   exchanges which of them are kept.

Others were met while modelling. The models behave as the code does; no
separate run shows them:

- A token `src//` is compared with its slashes by the overlap check and without
  them by the gate (`streams.py:111`, `:120`). `OverlapMeetsGate` is about
  tokens that end in at most one slash.
- A retry within a turn begins another call without looking at `STOP`
  (`supervisor.py:721`), where `PARALLEL_PROTOCOL.md:69` speaks of the current
  adapter turn. `StopEndsTheTurn`, proved, is the bound that holds:
  `max_role_retries + 1` calls.
- A new cycle is also begun after the turns ran out in the middle of one
  (`supervisor.py:471`), where the text above it speaks of a terminal success.
- A second session whose claim is refused writes an empty `streams_state.json`
  over the list that `STOP` reads (`supervisor_parallel.py:268`), and one that is
  granted writes its own; `StopReachesOrWarns` is about the session whose list was
  read.
- `PARALLEL_PROTOCOL.md:69` says that `STOP` goes to each worktree listed. One
  outside the hub, its sibling and the configured `wt_base` is passed over with a
  warning (`stream_stop.py:118`); `run-parallel --wt-base`
  (`supervisor.py:932`) makes such worktrees.
- A Jenkins build that has started while the caller still has no number for it
  is not stopped: only its queue item is cancelled (`jenkins.py:635`). One whose
  number is known goes on too when a request or the log fails while it is
  followed (`jenkins.py:1016`): `stop` is sent on a time out and a cancel only.
- `update_memory` calls itself an atomic write (`store.py:125`). All processes
  have one temporary name (`:142`), and behind a lock that was passed over (`:42`,
  `:49`) one truncates the file that another is about to rename. Under the lock, a
  read that fails counts as an empty memory, which is then written (`:73`).
- A meta index that does not parse is set aside and the next one gives the same
  ids to other proposals (`meta/store.py:138`).
- An answer whose connection closes in the middle reads like one that ended
  (`proxy/gateway.py:500`), so that a part of it is cached and served for a day.
- An exception of the log while a command is at work leaves the command running
  (`stream.py:398`); a stream thread that raises leaves `run.sh` running
  (`self_hosted.py:778`).
- A process that left the group of a command and keeps its pipes holds
  `stream_cli` beyond the deadline (`stream.py:346`); `OverdueEnds` excepts it.
- The key of the gateway's cache has no path, so that `HitsAreAnswers` compares
  the fields of the key and not the endpoints; the escalation of questions never
  sets `last_escalated_cycle`.
- A reader that is at work on a frame when a signal comes, and comes back after
  the wake socket was closed, sleeps on stdin alone: the server then ends with
  its client's input or a second signal. `InputEndExits` is about the end of input.

## 5. The proofs

8123 obligations, every one of them discharged by SMT, Zenon or LS4. Every
invariant that a passing run checks is a theorem for all values of the
constants. The proofs assume of these only the named assumptions of the modules:

- `LockAssumption` (threads have processes), `LeaseAssumption` (`NoLease` is
  not a record and `NoClaim` no claim), `LoopAssumption` (limits are natural numbers);
- for `ParallelRun` `SessionsAssumption`, `PlanAssumption`, `AllowedAssumption`
  (the allowed worktrees are worktrees) and `OverlapAssumption` (overlap is symmetric and the empty set overlaps nothing –
  both are lemmas of `StreamLeaseProofs` for the real `Overlap`:
  `OverlapSymmetric`, `OverlapEmpty`);
- `StreamsAssumption`, on tokens and files (section 2);
- `RelayAssumption` (a trigger ends within the time to live: 15 s against 600);
- `StreamAssumption`, `JenkinsAssumption`, `PipelineAssumption`,
  `LedgerAssumption`, `LoopStateAssumption`, `AuditAssumption`,
  `KnowledgeAssumption`: the queue of lines, a read of the console, the records
  kept, the window of the ledger, the recent deltas, the tail of the Markdown
  and the rows of a category are at least one – constants of the code, all of
  them positive there; `KnowledgeAssumption` also that the documents are
  finitely many;
- `GatewayAssumption`: the cache has room for a row, and there is something to
  ask and somebody to ask it of; `BoundAssumption`: the parts of an answer are
  finitely many, and none of those that may be dropped is called "keep";
- of the other modules that bounds are numbers and that "nobody" is nobody.

| Module | Theorems | Inductive invariant, and why it is needed |
|---|---|---|
| `AgentLockProofs` | `TypeCorrect`, `GuardNeverLeaks`, `ThreadsExclude`, `ExclusionUnlessRobbed` | `TypeOK`, `DeadAreOff` (a restart finds its threads nowhere), `GuardExact` (implies exclusion of threads), `HolderHasFile` (whoever took the file and was not robbed has it at the path; the path holds one file, so there is one holder) |
| `StreamLeaseProofs` | `TypeCorrect`, `RegistryStaysDisjoint`, `ClaimsStayRegistered`, `NoGhosts`, `UnreadableIsKept`, `RegistryImplementsOwnership` | `TypeOK` with start times below the clock, `HeldRecord` (a held record has its process's start time, which is why it reads as live), `Backed` (a record with a running process's start time is held), `RegistryDisjoint`, `ClaimSound` (of the claim under way: a record that overlaps and was looked at is nobody's; with `/proc` it was dead at the first look, stays so, and is dropped once the second has met it; what is dropped nobody holds). Without `/proc` a record may be passed by both looks, and `RegistryDisjoint` says of such a pair that one of the two is nobody's any more. The refinement maps `held` to `own`: `SaveClaim` is a `Grant`, because every record of another holder was looked at and none of them overlaps |
| `SupervisorLoopProofs` | `TypeCorrect`, `PrIsGreen`, `CycleProposedOnce`, `StopBoundsTheCalls` | `Counters`, `ReviewerIsGreen` (the lemma `NextRoleKinds`: only a Tester without failures hands over to a Reviewer, only a Reviewer's DONE leads to a pull request), `ProposedIsDone` (once a cycle is proposed the handoff on disk is DONE, so each way on, restarts included, goes through a new number), `LateCalls` (calls since `STOP` are counted by the retries) |
| `ParallelRunProofs` | `TypeCorrect`, `LeaseCovers`, `StreamsStayDisjoint`, `OnlyGatedIsMerged`, `EndHoldsNothing`, `StopReachesWorktrees` | `Ownership!Exclusive`, and for each session `ClaimsHeld` (the lease is held from the claim to the end of the loop), `LoopsAwaited` (no loop at work where the session releases), `OnlyPlanned`, `CollectedReturned`, `SerialAlone`, `MergedStreams`, `MergingReady`; `MergedLate`. `StreamsStayDisjoint` follows from the first two: leases exclude each other and every loop has its own. `HeldIsClaimed` on top of them: what a session owns it has claimed or failed to release, and at the end nothing is claimed. `StopInv`: while a session runs or joins, the hub lists all its worktrees or those of another session (`HubListsRunning`); what was at work when `STOP` was ordered does not begin a second time (`OrderedHasBegun`, the lemma `BegunOnce`); so the fan-out has reached it, has it still to do, has warned of it, or had read another session's list (`OrderReaches`) |
| `StreamPlansProofs` | `PlansTypes`, `OverlapAndGateAgree` | `PlansInv`: the plans that run were valid and stay so, as a verdict of the gate changes neither names nor paths, and what is ready passed it. The rest are lemmas on paths as sequences: a token owns a file when its directory form leads to it (`OwnsMeansLeads`); two tokens that own one file have comparable directory forms and one covers the other (`MeetMeansCover`); a token owns every file of a token it covers (`CoverMeansMeet`). Both halves need the slash rule of `StreamsAssumption` (`RStripOfToken`) |
| `StoresProofs` | `UpdatesStay`, `RecordsStay`, `IdsStay`, `LookUpsStayRight`, `StoresTypes` | one invariant for each store, `StoresInv` together. In each, whoever is between its read and its rename has the lock and its copy is the file (`MemOne`, `StateOne`, `AuditOne`, `LedgerOne`, `PbOne`, `PoolOne`, `MetaOne`). On top of that – `MemInv`: until somebody goes on without the lock, the copy of the one past it has the file and its own update, but for what a failed read took for nothing, and nobody fills a file that another renamed. `LoopStateInv`: a copy shows all that was ever shown, because what `append_delta` cuts off it puts into the history (the lemma `CutKeepsAll`); `FewDeltas`: only the copy of whoever appends is one over the cap. `LedgerInv`: the file is the last `Window` of what was saved (`LastOnesAppend`). `PbInv`: the index holds exactly the lessons that were taught and not limited away, and a limit drops the tail of a ranking that is a bijection (`PlacesAreTaken`). `PoolInv`: the next id is greater than each one given (`NextIdIsNew`). `MetaInv`: what a session has loaded is the index, but for what it has applied itself (`OwnIsIndex`); a block in the guide beyond the number of operations broken off is one that the index or its writer knows of (`GuideInv`); what is still to be told to the ledger is applied (`UntoldInv`). `CacheInv`: a row is an answer, maybe in part, to a plain request, and no error. `KnowInv`: what an undisturbed ingester has visited is found, but for the row it is about to write (`VisitedAreFound`); an upsert by hand over a document's row ends that (`UpsertNoteKeeps`) |
| `LongCallsProofs` | `OneCall`, `CallsLeaveNothing`, `ToolsYield`, `OutputIsAccounted`, `RunLogsAreKept`, `ReadyWasSeen`, `LongCallsTypes` | `ServerInv`: a request that waits has an id of its own (`InboxIsNew`), the one in hand and the one that runs were read and have no answer (`InHand`, `Running`), so the answer each gives is the first. `LeavesNothing`: for each way to run a command, where it may be alive – `StreamInv`, `ToolInv`, `HostedInv`, `ActInv`, `JenkinsInv` – since every way out leads over the step that waits, kills or removes, or over the exception or the failure that the property names. `Reported`: a line, a byte of the console and a write below `_diag` is in one of the places it can be in, counted as a sum (`StreamLines`, `JenkinsLog`, `HostedDiag`); names are noted only while they fit beside the identity, and the cut goes on while there is something to cut (`BoundInv`); a stamp names one run, a record is made only with room for it beside those a prune could not remove, and every log without a record is accounted to a death, a prune or the call under way (`PipelineInv` with `DoomedFits` and `StampsOld`). `ProbeSeen`: each look that was passed left its witness. `Typed`: what each part of the sum needs besides |
| `ServicesProofs` | `PageIsFreshOrFlagged`, `DeliveryStartsOneBuild`, `OneThreadTriggers`, `RequestsAreCounted`, `ServicesTypes` | `ReadsInv`: what a file holds now it held during the request (`HeldIsSo`), a part that was read is fresh or marked, and stays so, because marks are taken away only by the next read of that file (`ReadIsFresh`). `RelayInv`: while a thread triggers its id is in the table, with its own moment (`TriggerIsSeen`); nobody finds it old, as a trigger is shorter than the time to live (`TriggerIsYoung`); a build more than was lost or aged is there only once the trigger is over and its id remembered (`BuildsCounted`). `RequestsCounted`: builds and the requests at work, and likewise windows and what is remembered or about to be, are no more than the requests that came; this is what bounds the counters, whose actions have no guard on them |

How the results fit together: `RegistryImplementsOwnership` is what lets
`ParallelRun` use `PathOwnership` in place of the registry. That no two registry
operations are under way at once rests on `agent_lock("leases")`, and so on the
absence of finding 1 while it runs; `ExclusionUnlessRobbed` says exactly which event that
is. The stores under `agent_lock` rest on it in the same way. `StoresProofs`,
`LongCallsProofs` and `ServicesProofs` prove about the sums, part by part: a step
is a step of the chosen part, and the others stand still. `RegistryStaysDisjoint`
and `MeetMeansOverlap` are about the same operator `Overlap`: with clean tokens no
file is owned by two live leases.

Several type invariants are not inductive alone, and show what a proof of types
is worth here: that the lists of deltas and the counts of the relay are bounded
follows only from who holds a lock or how many requests there were.

Model-checked only: liveness (`StaleReclaimed`, `CallEnds`, `RunEnds`,
`CallsEnd`, `LastChangeIsTold`), which TLAPS does not reach, and the four
violations of section 4, which are traces.

## 6. What is abstracted, and what is not modelled

- Lock: the creation of directories, the cleaning of lock names, and the polling
  interval. `os.kill(pid, 0)` is exact: a PID is alive or not.
- Plans: backslashes in tokens; what a stream changes without committing (the
  gate and the merge both look at commits).
- Leases: between the looks of `renew` and `release` and their write nothing
  happens that they would notice, so each is one step; left out are worktree,
  branch and timestamps of a record, and records with missing fields. `Renew` only sets the time to live anew,
  which no rule reads to free a lease.
- Loop: handoffs carry what the loop reads of them. An exception of the adapter
  and a handoff that does not validate are one action, because both lead to the
  same retry. The number of failed tests is zero or not. The heartbeat thread,
  prompts, the ledger and the harvest hooks are left out; two processes on one
  working directory are not modelled.
- Parallel run: provisioning and a merge are one step each that succeeds or
  fails; pushes are folded into the step that fails or goes on; sessions run
  once; a worktree is its session and stream, as its path carries the session's
  cycle. When a session is killed its streams stop with it: adapter children
  that outlive a killed parent are not modelled. One operator; the `STOP` of the
  hub itself, which no session reads, and damaged entries in the list of worktrees,
  which are skipped (`stream_stop.py:151`), are left out.
- Stores: what a record says, unless a property tells records apart; the caps
  of `_compact` in `store.py`; which lessons are similar and which patterns a
  trajectory shows (a choice); `export_sft`; the ranking of the full-text search;
  statistics and audit of the gateway. The caps of the loop state drop what they
  drop (`trimmed`), whatever the order of the entries is. `agent_lock` is taken to exclude, a rename to be
  atomic, an append of one line too.
- Long calls: frames are whole or bad; the two pipes of a child are one; the
  checks of a call's arguments are one refusal; the Bitbucket status is a step
  that succeeds or fails; fanotify events are what they keep. A local
  Jenkinsfile is one step. The cut of a log at `LOG_CAP` is left out, so that
  `OutputAccounted` is about logs below it. Some hazards the properties except and
  do not catch, as the code has no answer to them: a gate that stays held after a
  worker could not be started, pipes that a process outside the group holds, a
  reader that comes back after the wake socket was closed, and a pipeline that
  begins between the look of `pytest_run` and its start.
- Services: of the files on a page only the loop state and the last handoff have
  the mark of a stale one in the code, and `PageFreshOrFlagged` is about these; a
  change that is undone within the debounce leaves the file as it was and is
  outside the model, whose contents only go forward; routing, rendering and the checks of one request; the polling by
  which pages ask again, because the question is what the messages promise; a
  delivery with a bad signature, which is refused before any state is touched.

Not modelled at all, with the reason: prompt and report generation, stream
identity (context variables and text), the experience harvest (one pass of text
heuristics over files that are only read), the dashboard's routes and pages (no
state between requests), set-up and inspection tools (one-shot generation), the
heartbeat thread (nothing reads the file to decide anything), the adapters
beyond success and failure, the cadence of question escalation, and the
integrations. Of the last only the status tool is modelled; the poll cursor is
the one piece left with a behaviour of its own. `PROJECT.json` has the reason for
each part.

## 7. The plan

What would be worth adding, in this order:

1. `StreamGit` – merge, timeout, abort and the one integration worktree of two
   sessions; then the merge step of `ParallelRun` refined by it.
2. `Integrations` – the poll cursor and a send that fails after it moved.
3. The loop of one stream as a refinement of the *looping* status of
   `ParallelRun`.
4. The registry and the stores over a lock that can be robbed, to show what
   finding 1 does to each.
5. Proofs of what stands behind liveness and is itself safety: that a reader or
   worker of the server that sleeps has something to wake it (`InputEndExits`),
   that a change not yet told has a sender that will look (`LastChangeIsTold`).
6. The lemmas on paths in a module of their own, so that `RegistryStaysDisjoint`
   can be stated of files.

## 8. Running it

```
tlc -workers 2 -config AgentLock.cfg MCAgentLock.tla
tlc -workers 2 -config StreamLease.cfg MCStreamLease.tla
tlc -workers 2 -config SupervisorLoop.cfg MCSupervisorLoop.tla
tlc -workers 2 -config ParallelRun.cfg MCParallelRun.tla
tlc -workers 2 -config Stores.cfg MCStores.tla
tlc -workers 2 -config LongCalls.cfg MCLongCalls.tla
tlc -workers 2 -config Services.cfg MCServices.tla
tlapm AgentLockProofs.tla
```

and likewise for the other pairs in `PROJECT.json` "runs" and the other
`*Proofs` modules. `Stores.cfg`, `StreamLease.cfg`,
`ParallelRun.cfg` and `LongCalls.cfg` take about two minutes, the others one or less; the
proofs of the stores and of the long calls take about five each.
