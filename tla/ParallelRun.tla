---------------------------- MODULE ParallelRun ----------------------------
(***************************************************************************)
(* Sessions of run_parallel (memory/supervisor_parallel.py) that share one *)
(* hub: each claims the paths of its streams, gives every stream a         *)
(* worktree, runs the streams one by one or all at once, merges those that *)
(* passed the owned_paths gate and releases what it claimed.  An operator  *)
(* hands STOP to the worktrees he finds in the hub's streams_state.json    *)
(* (memory/stream_stop.py).                                                *)
(*                                                                         *)
(* The leases are the abstract ownership of module PathOwnership, which    *)
(* StreamLease implements.  A worktree is the pair of its session and its  *)
(* stream: its path carries the cycle identifier of the session.           *)
(***************************************************************************)
EXTENDS FiniteSets

CONSTANTS
    Sessions,       \* run-parallel processes, each of one run
    Names,          \* stream names
    Tokens,         \* owned_paths tokens
    Overlap(_, _),  \* two sets of tokens have a path in common
    Plan,           \* Plan[p][n]: owned_paths of stream n that p is started with
    NoOne,          \* no session has written streams_state.json
    Allowed         \* worktrees below a root that the fan-out may write to

ASSUME SessionsAssumption == NoOne \notin Sessions

ASSUME PlanAssumption == Plan \in [Sessions -> [Names -> SUBSET Tokens]]

ASSUME OverlapAssumption ==
    /\ \A a, b \in SUBSET Tokens : Overlap(a, b) => Overlap(b, a)
    /\ \A a \in SUBSET Tokens : ~Overlap({}, a)

VARIABLES
    own,         \* the leases: own[p][n] is what p holds as stream n
    phase,       \* where run_parallel of a session is
    concurrent,  \* the session runs its streams all at once
    stream,      \* how far each stream of a session is
    collected,   \* the streams whose result is in stream_results
    claimed,     \* the list that the finally clause walks
    unreleased,  \* streams whose release was logged as failed
    integration, \* worktrees merged into the integration branch
    hub,         \* streams_state.json: its writer and the worktrees it lists
    stop,        \* worktrees with .agent/STOP
    order        \* the operator's last STOP: see OperatorStops

sessionVars == <<phase, concurrent, stream, collected, claimed>>
operatorVars == <<stop, order>>
vars == <<own, sessionVars, unreleased, integration, hub, operatorVars>>

Ownership == INSTANCE PathOwnership WITH Pids <- Sessions

Worktrees == Sessions \X Names

\* The hub, its sibling agentic-loop-worktrees and the wt_base of the project
\* configuration; run-parallel takes its own wt_base from the command line.
ASSUME AllowedAssumption == Allowed \subseteq Worktrees

Phases == {"idle", "claim", "run", "join", "merge", "release", "ended", "gone"}

\* "placed" has a worktree, "looping" is in run_loop or in the gate.
Statuses == {"out", "planned", "claimed", "placed", "looping", "ready", "blocked", "merged"}

TypeOK ==
    /\ own \in [Sessions -> [Names -> SUBSET Tokens]]
    /\ phase \in [Sessions -> Phases]
    /\ concurrent \in [Sessions -> BOOLEAN]
    /\ stream \in [Sessions -> [Names -> Statuses]]
    /\ collected \in [Sessions -> SUBSET Names]
    /\ claimed \in [Sessions -> SUBSET Names]
    /\ unreleased \subseteq Worktrees
    /\ integration \subseteq Worktrees
    /\ hub \in [by : Sessions \cup {NoOne}, listed : SUBSET Worktrees]
    /\ stop \subseteq Worktrees
    /\ order \in [at : {"none", "hub", "worktrees"}, owed : SUBSET Worktrees,
                  by : Sessions \cup {NoOne}, todo : SUBSET Worktrees]

NoOrder == [at |-> "none", owed |-> {}, by |-> NoOne, todo |-> {}]

Init ==
    /\ own = [p \in Sessions |-> [n \in Names |-> {}]]
    /\ phase = [p \in Sessions |-> "idle"]
    /\ concurrent = [p \in Sessions |-> FALSE]
    /\ stream = [p \in Sessions |-> [n \in Names |-> "out"]]
    /\ collected = [p \in Sessions |-> {}]
    /\ claimed = [p \in Sessions |-> {}]
    /\ unreleased = {}
    /\ integration = {}
    /\ hub = [by |-> NoOne, listed |-> {}]
    /\ stop = {}
    /\ order = NoOrder

\* The streams of a session with one of these statuses.
With(p, statuses) == {n \in Names : stream[p][n] \in statuses}

Streams(p) == {n \in Names : Plan[p][n] # {}}

\* Streams whose loop has come to an end.
Returned(p) == With(p, {"ready", "blocked"})

\* The worktrees whose run_loop is at work.
Looping == {w \in Worktrees : phase[w[1]] # "gone" /\ stream[w[1]][w[2]] = "looping"}

SetStream(p, n, status) == stream' = [stream EXCEPT ![p][n] = status]

\* The fan-out has gone through the worktrees it found.
StopIsOut == order.at = "worktrees" /\ order.todo = {}

Goto(p, where) == phase' = [phase EXCEPT ![p] = where]

\* Broken variant: streams without their worktrees.
TickNames(p) == hub' = [by |-> p, listed |-> Streams(p)]

\* _tick after the fan-out: stream_results names every stream of the session
\* with its worktree.  (Renewing the leases changes their time to live only.)
Tick(p) == hub' = [by |-> p, listed |-> {p} \X Streams(p)]

\* run_parallel is called with a plan that validate_stream_plans accepts.
Begin(p, together) ==
    /\ phase[p] = "idle"
    /\ Streams(p) # {}
    /\ \A m, n \in Streams(p) : m # n => ~Overlap(Plan[p][m], Plan[p][n])
    /\ Goto(p, "claim")
    /\ concurrent' = [concurrent EXCEPT ![p] = together]
    /\ stream' = [stream EXCEPT ![p] =
                    [n \in Names |-> IF n \in Streams(p) THEN "planned" ELSE "out"]]
    /\ UNCHANGED <<own, collected, claimed, unreleased, integration, hub, operatorVars>>

\* claim_lease of the next plan.
ClaimNext(p, n) ==
    /\ phase[p] = "claim"
    /\ stream[p][n] = "planned"
    /\ Ownership!Grant(p, n, Plan[p][n])
    /\ SetStream(p, n, "claimed")
    /\ claimed' = [claimed EXCEPT ![p] = @ \cup {n}]
    /\ UNCHANGED <<phase, concurrent, collected, unreleased, integration, hub, operatorVars>>

\* Broken variant: a refused claim is logged and passed over.
RefusedPasses(p) ==
    /\ phase[p] = "claim"
    /\ With(p, {"planned"}) # {}
    /\ stream' = [stream EXCEPT ![p] =
                    [n \in Names |-> IF @[n] = "planned" THEN "claimed" ELSE @[n]]]
    /\ UNCHANGED <<own, phase, concurrent, collected, claimed, unreleased, integration, hub,
                   operatorVars>>

\* Broken variant: return past the finally clause.
RefusedKeeps(p) ==
    /\ phase[p] = "claim"
    /\ With(p, {"planned"}) # {}
    /\ hub' = [by |-> p, listed |-> {}]
    /\ Goto(p, "ended")
    /\ UNCHANGED <<own, concurrent, stream, collected, claimed, unreleased, integration,
                   operatorVars>>

\* claim_lease raises ValueError: the paths are taken, or the registry does
\* not parse.  _fail_blocked writes streams_state.json with no stream in it.
ClaimRefused(p) ==
    /\ phase[p] = "claim"
    /\ With(p, {"planned"}) # {}
    /\ hub' = [by |-> p, listed |-> {}]
    /\ Goto(p, "release")
    /\ UNCHANGED <<own, concurrent, stream, collected, claimed, unreleased, integration,
                   operatorVars>>

\* provision_stream_worktrees, when all is claimed.
Provision(p) ==
    /\ phase[p] = "claim"
    /\ With(p, {"claimed"}) = Streams(p)
    /\ stream' = [stream EXCEPT ![p] =
                    [n \in Names |-> IF n \in Streams(p) THEN "placed" ELSE "out"]]
    /\ UNCHANGED <<own, phase, concurrent, collected, claimed, unreleased, integration,
                   hub, operatorVars>>

\* Broken variant: the hub learns of the streams when they are done.
FanOutSilently(p) ==
    /\ phase[p] = "claim"
    /\ With(p, {"placed"}) = Streams(p)
    /\ Goto(p, "run")
    /\ UNCHANGED <<own, concurrent, stream, collected, claimed, unreleased, integration,
                   hub, operatorVars>>

\* Every stream is shown as RUNNING before the first one is.
FanOut(p) ==
    /\ phase[p] = "claim"
    /\ With(p, {"placed"}) = Streams(p)
    /\ Tick(p)
    /\ Goto(p, "run")
    /\ UNCHANGED <<own, concurrent, stream, collected, claimed, unreleased, integration,
                   operatorVars>>

\* _run_one_stream begins; run_loop looks at STOP first.  Serially, when the
\* streams before it have returned.  A pool starts all it was given, even
\* while an exception waits for it.
StartStream(p, n) ==
    /\ phase[p] \in {"run", "join"}
    /\ stream[p][n] = "placed"
    /\ ~concurrent[p] => /\ With(p, {"looping"}) = {}
                         /\ Returned(p) \subseteq collected[p]
    /\ SetStream(p, n, IF <<p, n>> \in stop THEN "blocked" ELSE "looping")
    /\ UNCHANGED <<own, phase, concurrent, collected, claimed, unreleased, integration,
                   hub, operatorVars>>

\* run_loop ends and the gate has looked at what the stream changed.
StreamReturns(p, n, status) ==
    /\ phase[p] \in {"run", "join"}
    /\ stream[p][n] = "looping"
    /\ status \in {"ready", "blocked"}
    /\ SetStream(p, n, status)
    /\ UNCHANGED <<own, phase, concurrent, collected, claimed, unreleased, integration,
                   hub, operatorVars>>

\* The result of a stream is recorded.  Serially, a blocked one is the end.
Collect(p, n) ==
    /\ phase[p] = "run"
    /\ n \in Returned(p) \ collected[p]
    /\ collected' = [collected EXCEPT ![p] = @ \cup {n}]
    /\ Tick(p)
    /\ IF ~concurrent[p] /\ stream[p][n] = "blocked"
       THEN Goto(p, "release") ELSE UNCHANGED phase
    /\ UNCHANGED <<own, concurrent, stream, claimed, unreleased, integration, operatorVars>>

\* Broken variant: a concurrent run merges the streams that are ready.
AllBackUngated(p) ==
    /\ phase[p] = "run"
    /\ collected[p] = Streams(p)
    /\ Goto(p, "merge")
    /\ UNCHANGED <<own, concurrent, stream, collected, claimed, unreleased, integration,
                   hub, operatorVars>>

\* All results are in: on to the merges, unless a stream is blocked.
AllBack(p) ==
    /\ phase[p] = "run"
    /\ collected[p] = Streams(p)
    /\ IF With(p, {"blocked"}) = {}
       THEN Goto(p, "merge") /\ UNCHANGED hub
       ELSE Goto(p, "release") /\ Tick(p)
    /\ UNCHANGED <<own, concurrent, stream, collected, claimed, unreleased, integration,
                   operatorVars>>

\* Broken variant: the pool is not waited for.
RaisesUnjoined(p) ==
    /\ phase[p] \in {"claim", "run", "merge"}
    /\ Goto(p, "release")
    /\ UNCHANGED <<own, concurrent, stream, collected, claimed, unreleased, integration,
                   hub, operatorVars>>

\* An exception that run_parallel does not catch: a lock that times out, a
\* worktree that cannot be added, run_loop itself in a serial run (which
\* ends with it).  The with statement of the pool waits for its threads.
Raises(p) ==
    /\ phase[p] \in {"claim", "run", "merge"}
    /\ Goto(p, IF phase[p] = "run" /\ concurrent[p] THEN "join" ELSE "release")
    /\ stream' = IF concurrent[p] THEN stream
                 ELSE [stream EXCEPT ![p] = [n \in Names |->
                         IF @[n] = "looping" THEN "blocked" ELSE @[n]]]
    /\ UNCHANGED <<own, concurrent, collected, claimed, unreleased, integration, hub,
                   operatorVars>>

\* The threads of the pool have ended.
Joined(p) ==
    /\ phase[p] = "join"
    /\ With(p, {"placed", "looping"}) = {}
    /\ Goto(p, "release")
    /\ UNCHANGED <<own, concurrent, stream, collected, claimed, unreleased, integration,
                   hub, operatorVars>>

\* merge_stream_branch of the next stream succeeds.
Merge(p, n) ==
    /\ phase[p] = "merge"
    /\ stream[p][n] = "ready"
    /\ SetStream(p, n, "merged")
    /\ integration' = integration \cup {<<p, n>>}
    /\ UNCHANGED <<own, phase, concurrent, collected, claimed, unreleased, hub, operatorVars>>

\* A push, the integration worktree or a merge fails.  What has been merged stays.
MergeFails(p) ==
    /\ phase[p] = "merge"
    /\ Tick(p)
    /\ Goto(p, "release")
    /\ UNCHANGED <<own, concurrent, stream, collected, claimed, unreleased, integration,
                   operatorVars>>

\* maybe_create_integration_pr, the last tick and the closing handoff.
Propose(p) ==
    /\ phase[p] = "merge"
    /\ With(p, {"merged"}) = Streams(p)
    /\ Tick(p)
    /\ Goto(p, "release")
    /\ UNCHANGED <<own, concurrent, stream, collected, claimed, unreleased, integration,
                   operatorVars>>

\* The finally clause, one lease after the other; a failure is logged.
Release(p, n, fails) ==
    /\ phase[p] = "release"
    /\ n \in claimed[p]
    /\ claimed' = [claimed EXCEPT ![p] = @ \ {n}]
    /\ IF fails
       THEN unreleased' = unreleased \cup {<<p, n>>} /\ UNCHANGED own
       ELSE Ownership!GiveUp(p, n) /\ UNCHANGED unreleased
    /\ UNCHANGED <<phase, concurrent, stream, collected, integration, hub, operatorVars>>

\* run_parallel returns or lets its exception through.
End(p) ==
    /\ phase[p] = "release"
    /\ claimed[p] = {}
    /\ Goto(p, "ended")
    /\ UNCHANGED <<own, concurrent, stream, collected, claimed, unreleased, integration,
                   hub, operatorVars>>

\* The process exits, or is killed: its threads stop, its leases are dead.
Exit(p) ==
    /\ phase[p] \notin {"idle", "gone"}
    /\ Ownership!Die(p)
    /\ Goto(p, "gone")
    /\ concurrent' = [concurrent EXCEPT ![p] = FALSE]
    /\ collected' = [collected EXCEPT ![p] = {}]
    /\ claimed' = [claimed EXCEPT ![p] = {}]
    /\ unreleased' = {w \in unreleased : w[1] # p}
    /\ UNCHANGED <<stream, integration, hub, operatorVars>>

(***************************************************************************)
(* fanout_stop, by one operator: .agent/STOP of the hub, which no session  *)
(* reads, then the list of worktrees, then one STOP after the other: owed   *)
(* are those at work then of which no warning has come since.  (Bound: he   *)
(* orders again only when no STOP is left of the order before.)  The       *)
(* leases list no worktree: a claim is made before there is one (:263).    *)
(***************************************************************************)
OperatorStops ==
    /\ order.at = "none"
    /\ stop = {}
    /\ order' = [NoOrder EXCEPT !.at = "hub", !.owed = Looping]
    /\ UNCHANGED <<own, sessionVars, unreleased, integration, hub, stop>>

\* stream_worktrees_from_hub, and _is_allowed of each worktree of the list: one
\* outside the allowed roots is passed over with a warning.
Discover ==
    /\ order.at = "hub"
    /\ order' = [order EXCEPT !.at = "worktrees", !.by = hub.by,
                   !.todo = hub.listed \cap Allowed,
                   !.owed = @ \ (hub.listed \ Allowed)]
    /\ UNCHANGED <<own, sessionVars, unreleased, integration, hub, stop>>

\* The list cannot be read: a warning about all that might be in it.
DiscoverFails ==
    /\ order.at = "hub"
    /\ order' = [order EXCEPT !.at = "worktrees", !.owed = {}]
    /\ UNCHANGED <<own, sessionVars, unreleased, integration, hub, stop>>

\* A worktree is gone, or cannot be written to: a warning, and on to the next.
WriteStop(w, fails) ==
    /\ order.at = "worktrees"
    /\ w \in order.todo
    /\ order' = [order EXCEPT !.todo = @ \ {w},
                              !.owed = IF fails THEN @ \ {w} ELSE @]
    /\ stop' = IF fails THEN stop ELSE stop \cup {w}
    /\ UNCHANGED <<own, sessionVars, unreleased, integration, hub>>

\* clear_fanout, with or without an order before it: STOP goes where the hub
\* lists an allowed worktree now, and where the file can be removed.
OperatorClears(gone) ==
    /\ order.at = "none" \/ StopIsOut
    /\ gone \subseteq hub.listed \cap Allowed
    /\ order' = NoOrder
    /\ stop' = stop \ gone
    /\ UNCHANGED <<own, sessionVars, unreleased, integration, hub>>

StreamStep(p, n) ==
    \/ ClaimNext(p, n)
    \/ StartStream(p, n)
    \/ \E status \in {"ready", "blocked"} : StreamReturns(p, n, status)
    \/ Collect(p, n)
    \/ Merge(p, n)
    \/ \E fails \in BOOLEAN : Release(p, n, fails)

SessionStep(p) ==
    \/ \E together \in BOOLEAN : Begin(p, together)
    \/ ClaimRefused(p) \/ Provision(p) \/ FanOut(p)
    \/ AllBack(p) \/ Raises(p) \/ Joined(p)
    \/ MergeFails(p) \/ Propose(p)
    \/ End(p) \/ Exit(p)

OperatorStep ==
    \/ OperatorStops \/ Discover \/ DiscoverFails
    \/ \E w \in Worktrees, fails \in BOOLEAN : WriteStop(w, fails)
    \/ \E gone \in SUBSET Worktrees : OperatorClears(gone)

Next ==
    \/ \E p \in Sessions : SessionStep(p) \/ \E n \in Names : StreamStep(p, n)
    \/ OperatorStep

Spec == Init /\ [][Next]_vars

----------------------------------------------------------------------------
(* Properties.                                                              *)

\* While run_loop works in a worktree, its session holds the lease on the
\* stream's paths, whatever exception is on its way (the finally clause,
\* supervisor_parallel.py:450, comes after the pool has been joined, :317).
LeaseCoversRun ==
    \A w \in Looping : own[w[1]][w[2]] = Plan[w[1]][w[2]]

\* "disjoint streams": streams at work at one time share no path, also
\* streams of different sessions, one of which may be on its way out.
RunningDisjoint ==
    \A v, w \in Looping :
        v # w => ~Overlap(Plan[v[1]][v[2]], Plan[w[1]][w[2]])

\* No stream is in the integration branch unless it and every other stream
\* of its session passed loop and gate: serial runs stop at the first that
\* did not, concurrent ones wait for all and merge nothing
\* (supervisor_parallel.py:333-354).
MergedIsGated ==
    \A w \in integration : Streams(w[1]) = With(w[1], {"ready", "merged"})

\* Whichever way run_parallel ends, a claim refused half-way included, it
\* holds no lease but those whose release was logged as failed
\* (supervisor_parallel.py:450-455).
EndedHoldsNothing ==
    \A p \in Sessions, n \in Names :
        (phase[p] = "ended" /\ own[p][n] # {}) => <<p, n>> \in unreleased

\* STOP reaches every stream that was at work when it was ordered, or the
\* fan-out has warned of its worktree, or another session's state was in
\* streams_state.json when it was read (stream_stop.py:151, :218).
StopReachesOrWarns ==
    StopIsOut =>
        \A w \in order.owed \cap Looping :
            w \in stop \/ order.by \in Sessions \ {w[1]}
=============================================================================
