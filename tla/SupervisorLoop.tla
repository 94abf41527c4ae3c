--------------------------- MODULE SupervisorLoop ---------------------------
(***************************************************************************)
(* run_loop (memory/supervisor.py): the loop that gives a role its turn,   *)
(* takes the handoff the role's adapter wrote, and decides which role is   *)
(* next, until a pull request is ready, the work is blocked, the operator  *)
(* stops it or the turns are used up.                                      *)
(*                                                                         *)
(* Three things outlive the process: LOOP_STATE.json (state), the handoff  *)
(* in last_handoff.json (last, written by the adapter before run_loop has  *)
(* seen it) and the STOP file.  The process may be killed between any two  *)
(* of its writes, and the operator may run it again.  A retry after an     *)
(* exception and one after a handoff that does not validate are the same   *)
(* step.  Two processes on one working directory are not modelled.         *)
(***************************************************************************)
EXTENDS Naturals, FiniteSets

CONSTANTS
    MaxTurns,    \* accepted turns in one run
    MaxCycles,   \* PR_READY completions in one run
    MaxRetries,  \* max_role_retries
    CreatePr,    \* the create_pr argument: FALSE under run_parallel
    MaxRuns      \* bound: runs the operator starts

ASSUME LoopAssumption ==
    /\ MaxTurns \in Nat \ {0} /\ MaxCycles \in Nat \ {0}
    /\ MaxRetries \in Nat /\ MaxRuns \in Nat
    /\ CreatePr \in BOOLEAN

VARIABLES
    pc,         \* where run_loop is, "down" when no process runs
    role,       \* its variable role
    handoff,    \* the handoff of this turn, once the adapter returned
    turns, retries, ready,   \* its counters
    state,      \* LOOP_STATE.json: active_role, status, cycle_number
    last,       \* last_handoff.json
    stop,       \* .agent/STOP exists
    runs,       \* runs started so far
    green,      \* history: the code as it is passed its tests, a Tester said
    proposed,   \* history: the cycle_numbers a pull request was opened for
    late        \* history: adapter calls begun since STOP was written

vars == <<pc, role, handoff, turns, retries, ready, state, last, stop, runs,
          green, proposed, late>>

Roles == {"Orchestrator", "Coder", "Tester", "Debugger", "Reviewer"}

\* What the loop reads of a handoff.  tests_failed is zero or not; policy is
\* whether process_tags meet block_process_tags; by is whose turn it was (the
\* role that the JSON names is validated and then not read).
Handoff == [by : Roles, to : Roles \cup {"None"}, failed : BOOLEAN, policy : BOOLEAN,
            status : {"IN_PROGRESS", "BLOCKED", "DONE"}]

NoHandoff == [by |-> "Orchestrator", to |-> "None", failed |-> FALSE,
              policy |-> FALSE, status |-> "none"]

Success  == {"PR_READY", "PR_READY_LOCAL"}
Statuses == {"READY", "IN_PROGRESS", "BLOCKED", "STOPPED", "STOPPED_LIMIT"} \cup Success
Locations == {"down", "top", "call", "adapter", "returned", "accepted", "pr", "done",
              "cycle"}

TypeOK ==
    /\ pc \in Locations
    /\ role \in Roles
    /\ handoff \in Handoff \cup {NoHandoff}
    /\ turns \in 0..MaxTurns /\ retries \in 0..MaxRetries /\ ready \in 0..MaxCycles
    /\ state \in [active_role : Roles, status : Statuses, cycle_number : Nat]
    /\ last \in Handoff \cup {NoHandoff}
    /\ stop \in BOOLEAN /\ green \in BOOLEAN
    /\ runs \in Nat /\ late \in Nat /\ proposed \subseteq Nat
    /\ pc # "down" => role = state.active_role
    /\ pc \in {"accepted", "pr", "done"} => last = handoff /\ handoff \in Handoff

Init ==
    /\ pc = "down"
    /\ role = "Orchestrator"
    /\ handoff = NoHandoff
    /\ turns = 0 /\ retries = 0 /\ ready = 0
    /\ state = [active_role |-> "Orchestrator", status |-> "READY", cycle_number |-> 0]
    /\ last = NoHandoff
    /\ stop = FALSE
    /\ runs = 0
    /\ green = FALSE
    /\ proposed = {}
    /\ late = 0

----------------------------------------------------------------------------
(* The decisions of the loop.                                               *)

\* next_role: the role that goes on, or "PR_READY" or "BLOCKED".
AllowedHandoff == [r \in Roles |-> CASE r = "Orchestrator" -> {"Coder"}
                                     [] r = "Coder"    -> {"Tester"}
                                     [] r = "Tester"   -> {"Reviewer", "Debugger"}
                                     [] r = "Debugger" -> {"Tester"}
                                     [] r = "Reviewer" -> {"Orchestrator"}]

DefaultChain == [r \in Roles \ {"Tester"} |-> CASE r = "Orchestrator" -> "Coder"
                                                   [] r = "Reviewer" -> "Orchestrator"
                                                   [] OTHER -> "Tester"]

\* Broken variant: a Tester's handoff_to decides, its metrics do not.
NextRoleUntested(r, h) ==
    CASE h.status = "BLOCKED" -> "BLOCKED"
      [] h.status = "DONE"    -> IF r = "Reviewer" THEN "PR_READY" ELSE "BLOCKED"
      [] OTHER ->
            IF h.to \in AllowedHandoff[r] THEN h.to
            ELSE IF h.to = "None" /\ r # "Tester" THEN DefaultChain[r] ELSE "BLOCKED"

NextRole(r, h) ==
    CASE h.status = "BLOCKED" -> "BLOCKED"
      [] h.status = "DONE"    -> IF r = "Reviewer" THEN "PR_READY" ELSE "BLOCKED"
      [] h.status = "IN_PROGRESS" /\ r = "Tester" ->
            IF h.failed \/ h.to = "Debugger" THEN "Debugger" ELSE "Reviewer"
      [] OTHER ->
            IF h.to \in AllowedHandoff[r] THEN h.to
            ELSE IF h.to = "None" THEN DefaultChain[r] ELSE "BLOCKED"

\* Broken variant: the saved handoff is not looked at.
NewCycleByStatus == state.status \in Success \cup {"STOPPED_LIMIT"}

\* _should_start_new_cycle
ShouldStartNewCycle ==
    \/ last.status = "DONE"
    \/ state.status \in Success \cup {"STOPPED_LIMIT"}

NewCycle(st) == [active_role |-> "Orchestrator", status |-> "IN_PROGRESS",
                 cycle_number |-> st.cycle_number + 1]

----------------------------------------------------------------------------
(* One run.                                                                 *)

\* The beginning of run_loop: take up where the files left off, or begin a
\* new cycle.
Begin ==
    /\ pc = "down" /\ runs < MaxRuns
    /\ pc' = "top"
    /\ state' = IF ShouldStartNewCycle THEN NewCycle(state) ELSE state
    /\ role' = state'.active_role
    /\ handoff' = IF ShouldStartNewCycle THEN NoHandoff ELSE last
    /\ turns' = 0 /\ retries' = 0 /\ ready' = 0
    /\ runs' = runs + 1
    /\ UNCHANGED <<last, stop, green, proposed, late>>

\* A return of run_loop that saves the status first.
End(status) ==
    /\ pc' = "down"
    /\ state' = [state EXCEPT !.status = status]
    /\ UNCHANGED <<role, handoff, turns, ready, last, stop, runs, green, proposed, late>>

Stopped == pc = "top" /\ turns < MaxTurns /\ stop /\ End("STOPPED") /\ UNCHANGED retries

LimitReached == pc = "top" /\ turns = MaxTurns /\ End("STOPPED_LIMIT") /\ UNCHANGED retries

\* Broken variant: STOP is not looked at.
TurnDespiteStop ==
    /\ pc = "top" /\ turns < MaxTurns
    /\ pc' = "call"
    /\ retries' = 0
    /\ UNCHANGED <<role, handoff, turns, ready, state, last, stop, runs, green,
                   proposed, late>>

Turn ==
    /\ pc = "top" /\ turns < MaxTurns /\ ~stop
    /\ pc' = "call"
    /\ retries' = 0
    /\ UNCHANGED <<role, handoff, turns, ready, state, last, stop, runs, green,
                   proposed, late>>

\* The proxy the adapter of this role needs is not ready.
ProxyNotReady == pc = "call" /\ End("BLOCKED") /\ UNCHANGED retries

\* adapter.run_role_turn begins.  From here on a coder may change the code.
CallAdapter ==
    /\ pc = "call"
    /\ pc' = "adapter"
    /\ green' = (green /\ role \notin {"Coder", "Debugger"})
    /\ late' = IF stop THEN late + 1 ELSE late
    /\ UNCHANGED <<role, handoff, turns, retries, ready, state, last, stop, runs,
                   proposed>>

\* The adapter wrote last_handoff.json (persist_role_handoff) and returned.
AdapterReturns(h) ==
    /\ pc = "adapter" /\ h.by = role
    /\ (h.status = "DONE" => h.to = "None")     \* _done_extras
    /\ pc' = "returned"
    /\ handoff' = h
    /\ last' = h
    /\ UNCHANGED <<role, turns, retries, ready, state, stop, runs, green, proposed, late>>

\* Broken variant: a failed call is not counted.
AdapterFailsUncounted ==
    /\ pc = "adapter"
    /\ pc' = "call"
    /\ UNCHANGED <<role, handoff, turns, retries, ready, state, last, stop, runs, green,
                   proposed, late>>

\* The adapter raised, or its handoff does not validate: again, or give up.
AdapterFails ==
    /\ pc = "adapter"
    /\ \/ /\ retries < MaxRetries
          /\ pc' = "call"
          /\ retries' = retries + 1
          /\ UNCHANGED <<role, handoff, turns, ready, state, last, stop, runs, green,
                         proposed, late>>
       \/ /\ retries = MaxRetries
          /\ End("BLOCKED")
          /\ UNCHANGED retries

\* The turn counts: save_handoff, and what a Tester says of the code.
Accept ==
    /\ pc = "returned"
    /\ pc' = "accepted"
    /\ turns' = turns + 1
    /\ last' = handoff
    /\ green' = IF role = "Tester" THEN ~handoff.failed ELSE green
    /\ UNCHANGED <<role, handoff, retries, ready, state, stop, runs, proposed, late>>

PolicyBlock == pc = "accepted" /\ handoff.policy /\ End("BLOCKED") /\ UNCHANGED retries

\* Broken variant: the next role is not saved.
AdvanceUnsaved ==
    /\ pc = "accepted" /\ ~handoff.policy
    /\ NextRole(role, handoff) \in Roles
    /\ pc' = "top"
    /\ role' = NextRole(role, handoff)
    /\ state' = [state EXCEPT !.status = "IN_PROGRESS"]
    /\ UNCHANGED <<handoff, turns, retries, ready, last, stop, runs, green, proposed, late>>

\* next_role names a role.
Advance ==
    /\ pc = "accepted" /\ ~handoff.policy
    /\ NextRole(role, handoff) \in Roles
    /\ pc' = "top"
    /\ role' = NextRole(role, handoff)
    /\ state' = [state EXCEPT !.active_role = role', !.status = "IN_PROGRESS"]
    /\ UNCHANGED <<handoff, turns, retries, ready, last, stop, runs, green, proposed, late>>

Blocked ==
    /\ pc = "accepted" /\ ~handoff.policy
    /\ NextRole(role, handoff) = "BLOCKED"
    /\ End("BLOCKED") /\ UNCHANGED retries

Ready ==
    /\ pc = "accepted" /\ ~handoff.policy
    /\ NextRole(role, handoff) = "PR_READY"
    /\ pc' = "pr"
    /\ UNCHANGED <<role, handoff, turns, retries, ready, state, last, stop, runs, green,
                   proposed, late>>

\* maybe_create_pr: with create_pr a pull request is opened, or left to the
\* operator when gh is missing or fails.
ProposePr ==
    /\ pc = "pr"
    /\ pc' = "done"
    /\ proposed' = IF CreatePr THEN proposed \cup {state.cycle_number} ELSE proposed
    /\ UNCHANGED <<role, handoff, turns, retries, ready, state, last, stop, runs, green,
                   late>>

RecordReady(term) ==
    /\ pc = "done"
    /\ (~CreatePr => term = "PR_READY")
    /\ ready' = ready + 1
    /\ state' = [state EXCEPT !.status = term]
    /\ pc' = IF ready' >= MaxCycles THEN "down" ELSE "cycle"
    /\ UNCHANGED <<role, handoff, turns, retries, last, stop, runs, green, proposed, late>>

\* _next_cycle: the handoff on disk stays the old one.
NextCycle ==
    /\ pc = "cycle"
    /\ pc' = "top"
    /\ role' = "Orchestrator"
    /\ handoff' = NoHandoff
    /\ state' = NewCycle(state)
    /\ UNCHANGED <<turns, retries, ready, last, stop, runs, green, proposed, late>>

----------------------------------------------------------------------------
(* The process dies; the operator writes STOP and clears it.                *)

Crash ==
    /\ pc # "down"
    /\ pc' = "down"
    /\ UNCHANGED <<role, handoff, turns, retries, ready, state, last, stop, runs, green,
                   proposed, late>>

OperatorStops ==
    /\ ~stop
    /\ stop' = TRUE
    /\ late' = 0
    /\ UNCHANGED <<pc, role, handoff, turns, retries, ready, state, last, runs, green,
                   proposed>>

OperatorClearsStop ==
    /\ stop
    /\ stop' = FALSE
    /\ late' = 0
    /\ UNCHANGED <<pc, role, handoff, turns, retries, ready, state, last, runs, green,
                   proposed>>

Loop ==
    \/ Stopped \/ LimitReached \/ Turn \/ ProxyNotReady \/ CallAdapter
    \/ \E h \in Handoff : AdapterReturns(h)
    \/ AdapterFails \/ Accept \/ PolicyBlock \/ Advance \/ Blocked \/ Ready \/ ProposePr
    \/ \E term \in Success : RecordReady(term)
    \/ NextCycle

Next == Begin \/ Loop \/ Crash \/ OperatorStops \/ OperatorClearsStop

Spec == Init /\ [][Next]_vars

\* run_loop goes on by itself: an adapter call ends, by its timeout at the
\* latest.  Nobody has to start it, stop it or kill it.
FairSpec == Spec /\ WF_vars(Loop)

----------------------------------------------------------------------------
(* Properties.                                                              *)

\* A pull request is proposed only for code whose tests passed: since the
\* last Coder or Debugger turn began, a Tester's handoff without failures was
\* accepted, whatever crashes and restarts came in between.
PrOnlyAfterGreenTests == pc = "pr" => green

\* A cycle is proposed once: no crash or restart makes the loop open a second
\* pull request under the same cycle_number.
OnePrPerCycle == (pc = "pr" /\ CreatePr) => state.cycle_number \notin proposed

\* STOP is looked at between turns only: what runs on after it was written
\* is one turn, with its retries.
StopEndsTheTurn == stop => late <= MaxRetries + 1

\* A run comes to an end, whatever the roles answer.
RunEnds == (pc = "top") ~> (pc = "down")
=============================================================================
