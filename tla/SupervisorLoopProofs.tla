------------------------ MODULE SupervisorLoopProofs ------------------------
(***************************************************************************)
(* Module SupervisorLoop for any limits on turns, cycles, retries and runs.*)
(*                                                                         *)
(* Green tests: a Reviewer gets its turn only from a Tester without        *)
(* failures, and only a Coder or a Debugger undoes green (ReviewerIsGreen).*)
(* One proposal: once a cycle is proposed the handoff on disk is DONE, so  *)
(* every way on, by the loop or by a restart, goes through a new cycle     *)
(* (ProposedIsDone).  STOP: what was begun since it was written is counted *)
(* by the retries of the turn (LateCalls).                                 *)
(***************************************************************************)
EXTENDS SupervisorLoop, TLAPS

\* The counters are below their limits where they are about to be increased,
\* and the handoff of the turn is on disk once the adapter returned.
Counters ==
    /\ pc \in {"call", "adapter", "returned"} => turns < MaxTurns
    /\ pc # "down" => ready < MaxCycles
    /\ pc \in {"returned", "accepted", "pr", "done"} => last = handoff /\ handoff \in Handoff

\* The active role is a Reviewer only for code that passed its tests.
ReviewerIsGreen ==
    /\ state.active_role = "Reviewer" => green
    /\ pc = "accepted" /\ role = "Tester" => green = ~handoff.failed
    /\ pc \in {"pr", "done"} => role = "Reviewer" /\ handoff.status = "DONE"

\* A cycle that was proposed is over: no turn of it runs, and whoever looks at
\* the handoff on disk begins the next one.
ProposedIsDone ==
    /\ \A c \in proposed : c <= state.cycle_number
    /\ state.cycle_number \in proposed =>
            pc \in {"done", "cycle", "down"} /\ last.status = "DONE"

\* Adapter calls begun since STOP was written.
LateCalls ==
    stop => /\ late <= MaxRetries + 1
            /\ pc = "call" => late <= retries
            /\ pc = "adapter" => late <= retries + 1

IInv == TypeOK /\ Counters /\ ReviewerIsGreen /\ ProposedIsDone /\ LateCalls

----------------------------------------------------------------------------
(* next_role.                                                               *)

\* Only a Tester hands over to a Reviewer, and only without failures; a pull
\* request is the answer to a Reviewer's DONE alone.
LEMMA NextRoleKinds ==
    ASSUME NEW r \in Roles, NEW h \in Handoff
    PROVE  /\ NextRole(r, h) = "Reviewer" => r = "Tester" /\ ~h.failed
           /\ NextRole(r, h) = "PR_READY" => r = "Reviewer" /\ h.status = "DONE"
<1>1. CASE h.status \in {"BLOCKED", "DONE"}
  BY <1>1 DEF NextRole
<1>2. CASE h.status = "IN_PROGRESS" /\ r = "Tester"
  BY <1>2 DEF NextRole
<1>3. CASE h.status = "IN_PROGRESS" /\ r # "Tester"
  <2>1. NextRole(r, h) = IF h.to \in AllowedHandoff[r] THEN h.to
                         ELSE IF h.to = "None" THEN DefaultChain[r] ELSE "BLOCKED"
    BY <1>3 DEF NextRole
  <2>2. AllowedHandoff[r] \subseteq {"Coder", "Tester", "Orchestrator"}
    BY <1>3 DEF AllowedHandoff, Roles
  <2>3. DefaultChain[r] \in {"Coder", "Tester", "Orchestrator"}
    BY <1>3 DEF DefaultChain, Roles
  <2> QED
    BY <2>1, <2>2, <2>3
<1> QED
  BY <1>1, <1>2, <1>3 DEF Handoff

LEMMA InitInvariant == Init => IInv
<1> SUFFICES ASSUME Init PROVE IInv
  OBVIOUS
<1> USE LoopAssumption DEF Init
<1>1. TypeOK
  <2>1. state \in [active_role : Roles, status : Statuses, cycle_number : Nat]
    BY DEF Roles, Statuses
  <2>2. pc \in Locations /\ role \in Roles /\ role = state.active_role
    BY DEF Locations, Roles
  <2>3. stop \in BOOLEAN /\ green \in BOOLEAN
    OBVIOUS
  <2>4. turns \in 0..MaxTurns /\ retries \in 0..MaxRetries /\ ready \in 0..MaxCycles
        /\ runs \in Nat /\ late \in Nat /\ proposed \subseteq Nat
    OBVIOUS
  <2>5. handoff \in Handoff \cup {NoHandoff} /\ last \in Handoff \cup {NoHandoff}
        /\ pc \notin {"accepted", "pr", "done"}
    OBVIOUS
  <2> HIDE DEF Init
  <2> QED
    BY <2>1, <2>2, <2>3, <2>4, <2>5 DEF TypeOK
<1>2. Counters /\ ReviewerIsGreen /\ ProposedIsDone /\ LateCalls
  BY DEF Counters, ReviewerIsGreen, ProposedIsDone, LateCalls
<1> QED
  BY <1>1, <1>2 DEF IInv

----------------------------------------------------------------------------
(* Types and counters.                                                      *)

\* A return that saves a status.
LEMMA EndKeepsTypes ==
    ASSUME IInv, NEW status \in Statuses, End(status), UNCHANGED retries
    PROVE  TypeOK' /\ Counters'
BY DEF End, IInv, TypeOK, Counters, Locations

LEMMA StepTypes ==
    ASSUME IInv, [Next]_vars
    PROVE  TypeOK' /\ Counters'
<1> USE LoopAssumption
<1> USE DEF IInv, TypeOK, Counters
<1>1. CASE Begin
  BY <1>1 DEF Begin, NewCycle, Locations, Roles, Statuses, NoHandoff
<1>2. CASE Stopped
  BY <1>2, EndKeepsTypes DEF Stopped, Statuses
<1>3. CASE LimitReached
  BY <1>3, EndKeepsTypes DEF LimitReached, Statuses
<1>4. CASE Turn
  BY <1>4 DEF Turn, Locations
<1>5. CASE ProxyNotReady
  BY <1>5, EndKeepsTypes DEF ProxyNotReady, Statuses
<1>6. CASE CallAdapter
  BY <1>6 DEF CallAdapter, Locations
<1>7. ASSUME NEW h \in Handoff, AdapterReturns(h) PROVE TypeOK' /\ Counters'
  BY <1>7 DEF AdapterReturns, Locations
<1>8. CASE AdapterFails
  <2>1. CASE retries < MaxRetries /\ pc' = "call"
    BY <1>8, <2>1 DEF AdapterFails, End, Locations
  <2>2. CASE End("BLOCKED") /\ UNCHANGED retries
    BY <2>2, EndKeepsTypes DEF Statuses
  <2> QED
    BY <1>8, <2>1, <2>2 DEF AdapterFails
<1>9. CASE Accept
  <2>1. handoff.failed \in BOOLEAN
    BY <1>9 DEF Accept, Handoff
  <2>2. green' \in BOOLEAN
    BY <1>9, <2>1 DEF Accept
  <2> QED
    BY <1>9, <2>2 DEF Accept, Locations
<1>10. CASE PolicyBlock
  BY <1>10, EndKeepsTypes DEF PolicyBlock, Statuses
<1>11. CASE Advance
  BY <1>11 DEF Advance, Locations, Statuses
<1>12. CASE Blocked
  BY <1>12, EndKeepsTypes DEF Blocked, Statuses
<1>13. CASE Ready
  BY <1>13 DEF Ready, Locations
<1>14. CASE ProposePr
  BY <1>14 DEF ProposePr, Locations
<1>15. ASSUME NEW term \in Success, RecordReady(term) PROVE TypeOK' /\ Counters'
  BY <1>15 DEF RecordReady, Locations, Statuses
<1>16. CASE NextCycle
  BY <1>16 DEF NextCycle, NewCycle, Locations, Roles, Statuses, NoHandoff
<1>17. CASE Crash \/ OperatorStops \/ OperatorClearsStop
  <2>1. CASE Crash
    BY <2>1 DEF Crash, Locations
  <2>2. CASE OperatorStops
    BY <2>2 DEF OperatorStops
  <2>3. CASE OperatorClearsStop
    BY <2>3 DEF OperatorClearsStop
  <2> QED
    BY <1>17, <2>1, <2>2, <2>3
<1>18. CASE UNCHANGED vars
  BY <1>18 DEF vars
<1> QED
  BY <1>1, <1>2, <1>3, <1>4, <1>5, <1>6, <1>7, <1>8, <1>9, <1>10, <1>11, <1>12, <1>13,
     <1>14, <1>15, <1>16, <1>17, <1>18 DEF Next, Loop

----------------------------------------------------------------------------
(* Green tests.                                                             *)

LEMMA StepGreen ==
    ASSUME IInv, [Next]_vars
    PROVE  ReviewerIsGreen'
<1> USE DEF IInv, ReviewerIsGreen
<1> state \in [active_role : Roles, status : Statuses, cycle_number : Nat] /\ role \in Roles
  BY DEF TypeOK
<1>1. CASE Begin
  BY <1>1 DEF Begin, NewCycle
<1>2. ASSUME NEW status, End(status) PROVE ReviewerIsGreen'
  BY <1>2 DEF End
<1>3. CASE CallAdapter
  BY <1>3 DEF CallAdapter, TypeOK
<1>4. CASE Accept
  BY <1>4 DEF Accept, TypeOK
<1>5. CASE Advance
  <2>1. handoff \in Handoff
    BY <1>5 DEF Advance, Counters
  <2>2. NextRole(role, handoff) = "Reviewer" => role = "Tester" /\ ~handoff.failed
    BY <2>1, NextRoleKinds
  <2>3. state'.active_role = NextRole(role, handoff)
    BY <1>5 DEF Advance
  <2> QED
    BY <1>5, <2>2, <2>3 DEF Advance
<1>6. CASE Ready
  <2>1. handoff \in Handoff
    BY <1>6 DEF Ready, Counters
  <2>2. role = "Reviewer" /\ handoff.status = "DONE"
    BY <1>6, <2>1, NextRoleKinds DEF Ready
  <2> QED
    BY <1>6, <2>2 DEF Ready
<1>7. CASE Turn \/ ProposePr \/ Crash \/ OperatorStops \/ OperatorClearsStop
  BY <1>7 DEF Turn, ProposePr, Crash, OperatorStops, OperatorClearsStop
<1>8. ASSUME NEW h \in Handoff, AdapterReturns(h) PROVE ReviewerIsGreen'
  BY <1>8 DEF AdapterReturns
<1>9. ASSUME NEW term \in Success, RecordReady(term) PROVE ReviewerIsGreen'
  BY <1>9 DEF RecordReady
<1>10. CASE NextCycle
  BY <1>10 DEF NextCycle, NewCycle
<1>11. CASE AdapterFails
  BY <1>2, <1>11 DEF AdapterFails
<1>12. CASE UNCHANGED vars
  BY <1>12 DEF vars
<1> QED
  BY <1>1, <1>2, <1>3, <1>4, <1>5, <1>6, <1>7, <1>8, <1>9, <1>10, <1>11, <1>12
     DEF Next, Loop, Stopped, LimitReached, ProxyNotReady, PolicyBlock, Blocked

----------------------------------------------------------------------------
(* One proposal for a cycle.                                                *)

LEMMA StepProposed ==
    ASSUME IInv, [Next]_vars
    PROVE  ProposedIsDone'
<1> USE DEF IInv, ProposedIsDone
<1> state.cycle_number \in Nat /\ proposed \subseteq Nat
    /\ state \in [active_role : Roles, status : Statuses, cycle_number : Nat]
  BY DEF TypeOK
<1>1. CASE Begin
  BY <1>1 DEF Begin, NewCycle, ShouldStartNewCycle
<1>2. ASSUME NEW status, End(status) PROVE ProposedIsDone'
  BY <1>2 DEF End
<1>3. CASE ProposePr
  <2>1. last.status = "DONE"
    BY <1>3 DEF ProposePr, Counters, ReviewerIsGreen
  <2> QED
    BY <1>3, <2>1 DEF ProposePr
<1>4. ASSUME NEW h \in Handoff, AdapterReturns(h) PROVE ProposedIsDone'
  BY <1>4 DEF AdapterReturns
<1>5. CASE Accept
  BY <1>5 DEF Accept
<1>6. ASSUME NEW term \in Success, RecordReady(term) PROVE ProposedIsDone'
  BY <1>6 DEF RecordReady
<1>7. CASE NextCycle
  BY <1>7 DEF NextCycle, NewCycle
<1>8. CASE Turn \/ CallAdapter \/ Advance \/ Ready \/ Crash \/ OperatorStops
           \/ OperatorClearsStop
  BY <1>8 DEF Turn, CallAdapter, Advance, Ready, Crash, OperatorStops, OperatorClearsStop
<1>9. CASE AdapterFails
  BY <1>2, <1>9 DEF AdapterFails
<1>10. CASE UNCHANGED vars
  BY <1>10 DEF vars
<1> QED
  BY <1>1, <1>2, <1>3, <1>4, <1>5, <1>6, <1>7, <1>8, <1>9, <1>10
     DEF Next, Loop, Stopped, LimitReached, ProxyNotReady, PolicyBlock, Blocked

----------------------------------------------------------------------------
(* STOP.                                                                    *)

LEMMA StepLate ==
    ASSUME IInv, [Next]_vars
    PROVE  LateCalls'
<1> USE LoopAssumption DEF IInv, LateCalls
<1> late \in Nat /\ retries \in 0..MaxRetries /\ stop \in BOOLEAN
  BY DEF TypeOK
<1>1. CASE Begin
  BY <1>1 DEF Begin
<1>2. ASSUME NEW status, End(status) PROVE LateCalls'
  BY <1>2 DEF End
<1>3. CASE Turn
  BY <1>3 DEF Turn
<1>4. CASE CallAdapter
  BY <1>4 DEF CallAdapter
<1>5. CASE AdapterFails
  BY <1>2, <1>5 DEF AdapterFails
<1>6. ASSUME NEW h \in Handoff, AdapterReturns(h) PROVE LateCalls'
  BY <1>6 DEF AdapterReturns
<1>7. ASSUME NEW term \in Success, RecordReady(term) PROVE LateCalls'
  BY <1>7 DEF RecordReady
<1>8. CASE Accept \/ Advance \/ Ready \/ ProposePr \/ NextCycle \/ Crash
  BY <1>8 DEF Accept, Advance, Ready, ProposePr, NextCycle, Crash
<1>9. CASE OperatorStops \/ OperatorClearsStop
  BY <1>9 DEF OperatorStops, OperatorClearsStop
<1>10. CASE UNCHANGED vars
  BY <1>10 DEF vars
<1> QED
  BY <1>1, <1>2, <1>3, <1>4, <1>5, <1>6, <1>7, <1>8, <1>9, <1>10
     DEF Next, Loop, Stopped, LimitReached, ProxyNotReady, PolicyBlock, Blocked

----------------------------------------------------------------------------
(* The theorems.                                                            *)

LEMMA Invariance == Spec => []IInv
<1>1. Init => IInv
  BY InitInvariant
<1>2. IInv /\ [Next]_vars => IInv'
  BY StepTypes, StepGreen, StepProposed, StepLate DEF IInv
<1> QED
  BY <1>1, <1>2, PTL DEF Spec

\* Every reachable state has its type: no counter of run_loop passes its
\* limit, and the role that runs is the one LOOP_STATE.json names.
THEOREM TypeCorrect == Spec => []TypeOK
<1>1. IInv => TypeOK
  BY DEF IInv
<1> QED
  BY <1>1, Invariance, PTL

\* Whatever crashes, restarts and retries happen, a pull request is proposed
\* only for code whose tests passed since it was last given to a Coder or a
\* Debugger (next_role and the _save of the active role).
THEOREM PrIsGreen == Spec => []PrOnlyAfterGreenTests
<1>1. IInv => PrOnlyAfterGreenTests
  BY DEF IInv, TypeOK, ReviewerIsGreen, PrOnlyAfterGreenTests
<1> QED
  BY <1>1, Invariance, PTL

\* No cycle is proposed twice (_should_start_new_cycle and the DONE handoff
\* that the adapter left on disk).
THEOREM CycleProposedOnce == Spec => []OnePrPerCycle
<1>1. IInv => OnePrPerCycle
  BY DEF IInv, ProposedIsDone, OnePrPerCycle
<1> QED
  BY <1>1, Invariance, PTL

\* After STOP at most max_role_retries + 1 adapter calls are begun, all in the
\* turn that was running (the STOP check at the top of the loop).
THEOREM StopBoundsTheCalls == Spec => []StopEndsTheTurn
<1>1. IInv => StopEndsTheTurn
  BY DEF IInv, LateCalls, StopEndsTheTurn
<1> QED
  BY <1>1, Invariance, PTL
=============================================================================
