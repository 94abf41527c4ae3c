------------------------- MODULE ParallelRunProofs -------------------------
(***************************************************************************)
(* That the sessions of run_parallel keep their streams apart and merge    *)
(* nothing ungated, for any sessions, names, tokens and plans.  The        *)
(* exclusion of streams comes down to two facts: the leases exclude each   *)
(* other, and a session holds the lease of a stream from the claim until   *)
(* its loop is over, on every way through run_parallel.                    *)
(* The operator's STOP reaches a worktree at work because its session has  *)
(* listed it in the hub before its loop began, and a loop begins once.     *)
(***************************************************************************)
EXTENDS ParallelRun, TLAPS

\* Where a session has loops to come or at work.
Active == {"claim", "run", "join"}

\* Where a session merges or has merged.
Late == {"merge", "release", "ended", "gone"}

\* From the claim to the end of the loop the lease is held as planned.
ClaimsHeld(p) ==
    \A n \in Names :
        (phase[p] \in Active /\ stream[p][n] \in {"claimed", "placed", "looping"})
        => own[p][n] = Plan[p][n]

\* A loop is at work only where the session waits for it.
LoopsAwaited(p) ==
    \A n \in Names : stream[p][n] = "looping" => phase[p] \in {"run", "join", "gone"}

\* Streams that the session does not have take no part, and none before it begins.
OnlyPlanned(p) ==
    \A n \in Names : stream[p][n] # "out" => n \in Streams(p) /\ phase[p] # "idle"

\* What is collected has returned.
CollectedReturned(p) == collected[p] \subseteq With(p, {"ready", "blocked", "merged"})

\* A serial session has one loop at work, and all before it collected.
SerialAlone(p) ==
    (phase[p] \in {"run", "join"} /\ ~concurrent[p]) =>
        \A m, n \in Names : stream[p][n] = "looping" =>
            /\ stream[p][m] = "looping" => m = n
            /\ stream[p][m] \in {"ready", "blocked"} => m \in collected[p]

\* Only a session that merges has merged streams before its end.
MergedStreams(p) ==
    phase[p] \in {"idle", "claim", "run", "join"} => With(p, {"merged"}) = {}

\* The merges begin when all streams are ready.
MergingReady(p) == phase[p] = "merge" => Streams(p) = With(p, {"ready", "merged"})

SessionInv(p) ==
    /\ ClaimsHeld(p)
    /\ LoopsAwaited(p)
    /\ OnlyPlanned(p)
    /\ CollectedReturned(p)
    /\ SerialAlone(p)
    /\ MergedStreams(p)
    /\ MergingReady(p)

\* Only a session that merges, or has merged, is in the integration branch.
MergedLate ==
    \A w \in integration : phase[w[1]] \in Late

IInv ==
    /\ TypeOK
    /\ Ownership!Exclusive
    /\ \A p \in Sessions : SessionInv(p)
    /\ MergedLate
    /\ MergedIsGated

USE DEF Worktrees, Phases, Statuses

LEMMA InitIInv == Init => IInv
<1> SUFFICES ASSUME Init PROVE IInv
    OBVIOUS
<1>1. TypeOK
    BY DEF Init, TypeOK, NoOrder
<1>2. Ownership!Exclusive
    BY OverlapAssumption DEF Init, Ownership!Exclusive
<1>3. ASSUME NEW p \in Sessions PROVE SessionInv(p)
    BY DEF Init, SessionInv, ClaimsHeld, LoopsAwaited, OnlyPlanned, CollectedReturned, SerialAlone,
           MergedStreams, MergingReady, Active, With
<1>5. MergedLate /\ MergedIsGated
    BY DEF Init, MergedLate, MergedIsGated
<1> QED
    BY <1>1, <1>2, <1>3, <1>5 DEF IInv

\* The steps of the operator leave all but STOP alone.
LEMMA OperatorKeeps ==
    ASSUME IInv, OperatorStep
    PROVE  IInv'
<1> USE DEF OperatorStep
<1>1. UNCHANGED <<own, sessionVars, unreleased, integration, hub>>
    BY DEF OperatorStops, Discover, DiscoverFails, OperatorClears, WriteStop
<1>2. TypeOK'
    <2>1. TypeOK
        BY DEF IInv
    <2>2. CASE OperatorStops
        BY <2>1, <2>2, <1>1 DEF TypeOK, OperatorStops, NoOrder, Looping, sessionVars
    <2>3. CASE Discover
        BY <2>1, <2>3, <1>1 DEF TypeOK, Discover, sessionVars
    <2>6. CASE DiscoverFails
        BY <2>1, <2>6, <1>1 DEF TypeOK, DiscoverFails, sessionVars
    <2>4. CASE \E gone \in SUBSET Worktrees : OperatorClears(gone)
        BY <2>1, <2>4, <1>1 DEF TypeOK, OperatorClears, NoOrder, sessionVars
    <2>5. CASE \E w \in Worktrees, fails \in BOOLEAN : WriteStop(w, fails)
        <3>1. PICK w \in Worktrees, fails \in BOOLEAN : WriteStop(w, fails)
            BY <2>5
        <3>2. stop' \subseteq Worktrees
            BY <2>1, <3>1 DEF TypeOK, WriteStop
        <3>3. order' \in [at : {"none", "hub", "worktrees"}, owed : SUBSET Worktrees,
                          by : Sessions \cup {NoOne}, todo : SUBSET Worktrees]
            BY <2>1, <3>1 DEF TypeOK, WriteStop
        <3> QED
            BY <2>1, <3>2, <3>3, <1>1 DEF TypeOK, sessionVars
    <2> QED
        BY <2>2, <2>3, <2>4, <2>5, <2>6
<1>3. Ownership!Exclusive'
    BY <1>1 DEF IInv, Ownership!Exclusive
<1>4. ASSUME NEW p \in Sessions PROVE SessionInv(p)'
    BY <1>1 DEF IInv, SessionInv, sessionVars, ClaimsHeld, LoopsAwaited, OnlyPlanned,
                CollectedReturned, SerialAlone, MergedStreams, MergingReady, With, Streams
<1>5. (MergedLate /\ MergedIsGated)'
    BY <1>1 DEF IInv, sessionVars, MergedLate, MergedIsGated, With, Streams
<1> QED
    BY <1>2, <1>3, <1>4, <1>5 DEF IInv

\* The two steps of a session that change what it owns, and its end.
LEMMA LeasesExclude ==
    ASSUME IInv, NEW p \in Sessions,
           \/ \E n \in Names : ClaimNext(p, n)
           \/ \E n \in Names, fails \in BOOLEAN : Release(p, n, fails)
           \/ Exit(p)
    PROVE  Ownership!Exclusive'
<1> USE DEF IInv, TypeOK
<1>1. CASE \E n \in Names : ClaimNext(p, n)
    <2>1. PICK n \in Names : ClaimNext(p, n)
        BY <1>1
    <2>2. own' = [own EXCEPT ![p][n] = Plan[p][n]]
        BY <2>1 DEF ClaimNext, Ownership!Grant
    <2>3. \A q \in Sessions, m \in Names :
            <<q, m>> # <<p, n>> => ~Overlap(Plan[p][n], own[q][m])
        BY <2>1 DEF ClaimNext, Ownership!Grant
    <2>4. ASSUME NEW q \in Sessions, NEW m \in Names, <<q, m>> # <<p, n>>
          PROVE  ~Overlap(own[q][m], Plan[p][n])
        <3>1. own[q][m] \in SUBSET Tokens /\ Plan[p][n] \in SUBSET Tokens
            BY PlanAssumption
        <3>2. ~Overlap(Plan[p][n], own[q][m])
            BY <2>3, <2>4
        <3> QED
            BY <3>1, <3>2, OverlapAssumption
    <2>5. \A q \in Sessions, m \in Names :
            own'[q][m] = IF <<q, m>> = <<p, n>> THEN Plan[p][n] ELSE own[q][m]
        BY <2>2
    <2> SUFFICES ASSUME NEW q \in Sessions, NEW r \in Sessions, NEW m \in Names, NEW k \in Names,
                        <<q, m>> # <<r, k>>
                 PROVE  ~Overlap(own'[q][m], own'[r][k])
        BY DEF Ownership!Exclusive
    <2>6. CASE <<q, m>> = <<p, n>>
        <3>1. own'[q][m] = Plan[p][n] /\ own'[r][k] = own[r][k]
            BY <2>5, <2>6
        <3> QED
            BY <2>3, <2>6, <3>1
    <2>7. CASE <<r, k>> = <<p, n>>
        <3>1. own'[r][k] = Plan[p][n] /\ own'[q][m] = own[q][m]
            BY <2>5, <2>7
        <3> QED
            BY <2>4, <2>7, <3>1
    <2>8. CASE <<q, m>> # <<p, n>> /\ <<r, k>> # <<p, n>>
        <3>1. own'[r][k] = own[r][k] /\ own'[q][m] = own[q][m]
            BY <2>5, <2>8
        <3> QED
            BY <3>1 DEF Ownership!Exclusive
    <2> QED
        BY <2>6, <2>7, <2>8
<1>2. ASSUME (\E n \in Names, fails \in BOOLEAN : Release(p, n, fails)) \/ Exit(p)
      PROVE  Ownership!Exclusive'
    <2>1. \A q \in Sessions, m \in Names : own'[q][m] = own[q][m] \/ own'[q][m] = {}
        BY <1>2 DEF Release, Exit, Ownership!GiveUp, Ownership!Die
    <2>2. \A a \in SUBSET Tokens : ~Overlap({}, a) /\ ~Overlap(a, {})
        BY OverlapAssumption
    <2> SUFFICES ASSUME NEW q \in Sessions, NEW r \in Sessions, NEW m \in Names, NEW k \in Names,
                        <<q, m>> # <<r, k>>
                 PROVE  ~Overlap(own'[q][m], own'[r][k])
        BY DEF Ownership!Exclusive
    <2>3. own[q][m] \in SUBSET Tokens /\ own[r][k] \in SUBSET Tokens /\ {} \in SUBSET Tokens
        OBVIOUS
    <2>4. ~Overlap(own[q][m], own[r][k])
        BY DEF Ownership!Exclusive
    <2>5. CASE own'[q][m] = {}
        <3>1. own'[r][k] \in SUBSET Tokens
            BY <2>1, <2>3
        <3> QED
            BY <2>2, <2>5, <3>1
    <2>6. CASE own'[r][k] = {}
        <3>1. own'[q][m] \in SUBSET Tokens
            BY <2>1, <2>3
        <3> QED
            BY <2>2, <2>6, <3>1
    <2>7. CASE own'[q][m] = own[q][m] /\ own'[r][k] = own[r][k]
        BY <2>4, <2>7
    <2> QED
        BY <2>1, <2>5, <2>6, <2>7
<1> QED
    BY <1>1, <1>2

LEMMA SessionKeepsType ==
    ASSUME TypeOK, NEW p \in Sessions, SessionStep(p)
    PROVE  TypeOK'
<1> USE DEF TypeOK, SetStream, Goto, Tick, sessionVars, operatorVars, Streams
<1>1. CASE \E together \in BOOLEAN : Begin(p, together)
    BY <1>1 DEF Begin
<1>2. CASE ClaimRefused(p)
    BY <1>2 DEF ClaimRefused
<1>3. CASE Provision(p)
    BY <1>3 DEF Provision
<1>4. CASE FanOut(p)
    BY <1>4 DEF FanOut
<1>5. CASE AllBack(p)
    <2>1. hub' = hub \/ hub' = [by |-> p, listed |-> {p} \X Streams(p)]
        BY <1>5 DEF AllBack
    <2>2. phase' \in [Sessions -> Phases]
        <3>1. (With(p, {"blocked"}) = {}) => phase' = [phase EXCEPT ![p] = "merge"]
            BY <1>5, Zenon DEF AllBack
        <3>2. (With(p, {"blocked"}) # {}) => phase' = [phase EXCEPT ![p] = "release"]
            BY <1>5, Zenon DEF AllBack
        <3> QED
            BY <3>1, <3>2
    <2>3. {p} \X Streams(p) \in SUBSET Worktrees
        OBVIOUS
    <2>4. hub' \in [by : Sessions \cup {NoOne}, listed : SUBSET Worktrees]
        BY <2>1, <2>3
    <2>5. UNCHANGED <<own, concurrent, stream, collected, claimed, unreleased, integration, stop, order>>
        BY <1>5 DEF AllBack
    <2> QED
        BY <2>2, <2>4, <2>5
<1>6. CASE Raises(p)
    BY <1>6 DEF Raises
<1>7. CASE Joined(p)
    BY <1>7 DEF Joined
<1>8. CASE MergeFails(p)
    BY <1>8 DEF MergeFails
<1>9. CASE Propose(p)
    BY <1>9 DEF Propose
<1>10. CASE End(p)
    BY <1>10 DEF End
<1>11. CASE Exit(p)
    BY <1>11 DEF Exit, Ownership!Die
<1> QED
    BY <1>1, <1>2, <1>3, <1>4, <1>5, <1>6, <1>7, <1>8, <1>9, <1>10, <1>11 DEF SessionStep

LEMMA StreamKeepsType ==
    ASSUME TypeOK, NEW p \in Sessions, NEW n \in Names, StreamStep(p, n)
    PROVE  TypeOK'
<1> USE DEF TypeOK, SetStream, Goto, Tick, sessionVars, operatorVars, Streams
<1>1. CASE ClaimNext(p, n)
    BY <1>1, PlanAssumption DEF ClaimNext, Ownership!Grant
<1>2. CASE StartStream(p, n)
    BY <1>2 DEF StartStream
<1>3. CASE \E status \in {"ready", "blocked"} : StreamReturns(p, n, status)
    BY <1>3 DEF StreamReturns
<1>4. CASE Collect(p, n)
    BY <1>4 DEF Collect, Returned, With
<1>5. CASE Merge(p, n)
    BY <1>5 DEF Merge
<1>6. CASE \E fails \in BOOLEAN : Release(p, n, fails)
    <2>1. PICK fails \in BOOLEAN : Release(p, n, fails)
        BY <1>6
    <2>2. CASE fails
        BY <2>1, <2>2 DEF Release
    <2>3. CASE ~fails
        <3>1. own' = [own EXCEPT ![p][n] = {}] /\ unreleased' = unreleased
            BY <2>1, <2>3, Zenon DEF Release, Ownership!GiveUp
        <3> QED
            BY <2>1, <3>1 DEF Release
    <2> QED
        BY <2>1, <2>2, <2>3
<1> QED
    BY <1>1, <1>2, <1>3, <1>4, <1>5, <1>6 DEF StreamStep

\* A step of one session leaves what belongs to the others alone.
LEMMA SessionAlone ==
    ASSUME TypeOK, NEW p \in Sessions, NEW q \in Sessions \ {p}, SessionStep(p)
    PROVE  /\ phase'[q] = phase[q] /\ stream'[q] = stream[q] /\ own'[q] = own[q]
           /\ collected'[q] = collected[q] /\ concurrent'[q] = concurrent[q]
<1> USE DEF TypeOK, Goto, SetStream, sessionVars
<1>1. CASE \E together \in BOOLEAN : Begin(p, together)
    BY <1>1 DEF Begin
<1>2. CASE ClaimRefused(p)
    BY <1>2 DEF ClaimRefused
<1>3. CASE Provision(p)
    BY <1>3 DEF Provision
<1>4. CASE FanOut(p)
    BY <1>4 DEF FanOut
<1>5. CASE AllBack(p)
    BY <1>5 DEF AllBack
<1>6. CASE Raises(p)
    BY <1>6 DEF Raises
<1>7. CASE Joined(p)
    BY <1>7 DEF Joined
<1>8. CASE MergeFails(p)
    BY <1>8 DEF MergeFails
<1>9. CASE Propose(p)
    BY <1>9 DEF Propose
<1>10. CASE End(p)
    BY <1>10 DEF End
<1>11. CASE Exit(p)
    BY <1>11 DEF Exit, Ownership!Die
<1> QED
    BY <1>1, <1>2, <1>3, <1>4, <1>5, <1>6, <1>7, <1>8, <1>9, <1>10, <1>11 DEF SessionStep

LEMMA StreamAlone ==
    ASSUME TypeOK, NEW p \in Sessions, NEW q \in Sessions \ {p}, NEW n \in Names,
           StreamStep(p, n)
    PROVE  /\ phase'[q] = phase[q] /\ stream'[q] = stream[q] /\ own'[q] = own[q]
           /\ collected'[q] = collected[q] /\ concurrent'[q] = concurrent[q]
<1> USE DEF TypeOK, Goto, SetStream, sessionVars
<1>1. CASE ClaimNext(p, n)
    BY <1>1 DEF ClaimNext, Ownership!Grant
<1>2. CASE StartStream(p, n)
    BY <1>2 DEF StartStream
<1>3. CASE \E status \in {"ready", "blocked"} : StreamReturns(p, n, status)
    BY <1>3 DEF StreamReturns
<1>4. CASE Collect(p, n)
    BY <1>4 DEF Collect
<1>5. CASE Merge(p, n)
    BY <1>5 DEF Merge
<1>6. CASE \E fails \in BOOLEAN : Release(p, n, fails)
    BY <1>6 DEF Release, Ownership!GiveUp
<1> QED
    BY <1>1, <1>2, <1>3, <1>4, <1>5, <1>6 DEF StreamStep

\* A step of a session keeps what holds of it.
LEMMA SessionKeepsInv ==
    ASSUME TypeOK, NEW p \in Sessions, SessionInv(p), SessionStep(p)
    PROVE  SessionInv(p)'
<1> USE DEF TypeOK, Goto, SetStream, sessionVars, SessionInv, Active, With, Returned, Streams,
        ClaimsHeld, LoopsAwaited, OnlyPlanned, CollectedReturned, SerialAlone, MergedStreams, MergingReady
<1>1. CASE \E together \in BOOLEAN : Begin(p, together)
    <2>1. ClaimsHeld(p)'
        BY <1>1 DEF Begin
    <2>2. LoopsAwaited(p)'
        BY <1>1 DEF Begin
    <2>3. OnlyPlanned(p)'
        BY <1>1 DEF Begin
    <2>4. CollectedReturned(p)'
        BY <1>1 DEF Begin
    <2>5. SerialAlone(p)'
        BY <1>1 DEF Begin
    <2>6. MergedStreams(p)'
        BY <1>1 DEF Begin
    <2>7. MergingReady(p)'
        BY <1>1 DEF Begin
    <2> QED
        BY <2>1, <2>2, <2>3, <2>4, <2>5, <2>6, <2>7
<1>2. CASE ClaimRefused(p)
    BY <1>2 DEF ClaimRefused
<1>3. CASE Provision(p)
    <2>1. ClaimsHeld(p)'
        BY <1>3 DEF Provision
    <2>2. LoopsAwaited(p)'
        BY <1>3 DEF Provision
    <2>3. OnlyPlanned(p)'
        BY <1>3 DEF Provision
    <2>4. CollectedReturned(p)'
        BY <1>3 DEF Provision
    <2>5. SerialAlone(p)'
        BY <1>3 DEF Provision
    <2>6. MergedStreams(p)'
        BY <1>3 DEF Provision
    <2>7. MergingReady(p)'
        BY <1>3 DEF Provision
    <2> QED
        BY <2>1, <2>2, <2>3, <2>4, <2>5, <2>6, <2>7
<1>4. CASE FanOut(p)
    BY <1>4 DEF FanOut
<1>5. CASE AllBack(p)
    <2>1. ClaimsHeld(p)'
        BY <1>5 DEF AllBack
    <2>2. LoopsAwaited(p)'
        BY <1>5 DEF AllBack
    <2>3. OnlyPlanned(p)'
        BY <1>5 DEF AllBack
    <2>4. CollectedReturned(p)'
        BY <1>5 DEF AllBack
    <2>5. SerialAlone(p)'
        BY <1>5 DEF AllBack
    <2>6. MergedStreams(p)'
        BY <1>5 DEF AllBack
    <2>7. MergingReady(p)'
        <3>1. CASE With(p, {"blocked"}) = {}
            <4>1. \A n \in Streams(p) : stream[p][n] \in {"ready", "merged"}
                BY <1>5, <3>1 DEF AllBack
            <4>2. \A n \in Names : stream[p][n] \in {"ready", "merged"} => n \in Streams(p)
                OBVIOUS
            <4>3. stream' = stream
                BY <1>5 DEF AllBack
            <4> QED
                BY <4>1, <4>2, <4>3
        <3>2. CASE With(p, {"blocked"}) # {}
            <4>1. phase'[p] = "release"
                BY <1>5, <3>2 DEF AllBack
            <4> QED
                BY <4>1
        <3> QED
            BY <3>1, <3>2
    <2> QED
        BY <2>1, <2>2, <2>3, <2>4, <2>5, <2>6, <2>7
<1>6. CASE Raises(p)
    BY <1>6 DEF Raises
<1>7. CASE Joined(p)
    BY <1>7 DEF Joined
<1>8. CASE MergeFails(p)
    BY <1>8 DEF MergeFails
<1>9. CASE Propose(p)
    BY <1>9 DEF Propose
<1>10. CASE End(p)
    BY <1>10 DEF End
<1>11. CASE Exit(p)
    BY <1>11 DEF Exit, Ownership!Die
<1> QED
    BY <1>1, <1>2, <1>3, <1>4, <1>5, <1>6, <1>7, <1>8, <1>9, <1>10, <1>11 DEF SessionStep

LEMMA StreamKeepsInv ==
    ASSUME TypeOK, NEW p \in Sessions, NEW n \in Names, SessionInv(p), StreamStep(p, n)
    PROVE  SessionInv(p)'
<1> USE DEF TypeOK, Goto, SetStream, sessionVars, SessionInv, Active, With, Returned, Streams,
        ClaimsHeld, LoopsAwaited, OnlyPlanned, CollectedReturned, SerialAlone, MergedStreams, MergingReady
<1>1. CASE ClaimNext(p, n)
    <2>1. ClaimsHeld(p)'
        BY <1>1 DEF ClaimNext, Ownership!Grant
    <2>2. LoopsAwaited(p)'
        BY <1>1 DEF ClaimNext, Ownership!Grant
    <2>3. OnlyPlanned(p)'
        BY <1>1 DEF ClaimNext, Ownership!Grant
    <2>4. CollectedReturned(p)'
        BY <1>1 DEF ClaimNext, Ownership!Grant
    <2>5. SerialAlone(p)'
        BY <1>1 DEF ClaimNext, Ownership!Grant
    <2>6. MergedStreams(p)'
        BY <1>1 DEF ClaimNext, Ownership!Grant
    <2>7. MergingReady(p)'
        BY <1>1 DEF ClaimNext, Ownership!Grant
    <2> QED
        BY <2>1, <2>2, <2>3, <2>4, <2>5, <2>6, <2>7
<1>2. CASE StartStream(p, n)
    <2>1. ClaimsHeld(p)'
        BY <1>2 DEF StartStream
    <2>2. LoopsAwaited(p)'
        BY <1>2 DEF StartStream
    <2>3. OnlyPlanned(p)'
        BY <1>2 DEF StartStream
    <2>4. CollectedReturned(p)'
        BY <1>2 DEF StartStream
    <2>5. SerialAlone(p)'
        BY <1>2 DEF StartStream
    <2>6. MergedStreams(p)'
        BY <1>2 DEF StartStream
    <2>7. MergingReady(p)'
        BY <1>2 DEF StartStream
    <2> QED
        BY <2>1, <2>2, <2>3, <2>4, <2>5, <2>6, <2>7
<1>3. CASE \E status \in {"ready", "blocked"} : StreamReturns(p, n, status)
    <2>1. ClaimsHeld(p)'
        BY <1>3 DEF StreamReturns
    <2>2. LoopsAwaited(p)'
        BY <1>3 DEF StreamReturns
    <2>3. OnlyPlanned(p)'
        <3>1. PICK status \in {"ready", "blocked"} : StreamReturns(p, n, status)
            BY <1>3
        <3>2. \A m \in Names : stream'[p][m] # "out" => stream[p][m] # "out"
            BY <3>1 DEF StreamReturns
        <3>3. phase'[p] # "idle"
            BY <3>1 DEF StreamReturns
        <3> QED
            BY <3>2, <3>3
    <2>4. CollectedReturned(p)'
        BY <1>3 DEF StreamReturns
    <2>5. SerialAlone(p)'
        BY <1>3 DEF StreamReturns
    <2>6. MergedStreams(p)'
        BY <1>3 DEF StreamReturns
    <2>7. MergingReady(p)'
        BY <1>3 DEF StreamReturns
    <2> QED
        BY <2>1, <2>2, <2>3, <2>4, <2>5, <2>6, <2>7
<1>4. CASE Collect(p, n)
    BY <1>4 DEF Collect
<1>5. CASE Merge(p, n)
    BY <1>5 DEF Merge
<1>6. CASE \E fails \in BOOLEAN : Release(p, n, fails)
    BY <1>6 DEF Release, Ownership!GiveUp
<1> QED
    BY <1>1, <1>2, <1>3, <1>4, <1>5, <1>6 DEF StreamStep

\* A session that merges or has merged never goes back, and the streams that
\* passed the gate stay what they are.
LEMMA LateSession ==
    ASSUME TypeOK, NEW p \in Sessions, phase[p] \in Late, SessionStep(p)
    PROVE  /\ phase'[p] \in Late
           /\ \A m \in Names : stream'[p][m] \in {"ready", "merged"}
                            <=> stream[p][m] \in {"ready", "merged"}
           /\ integration' = integration
<1> USE DEF TypeOK, Goto, SetStream, sessionVars, Late, With, Streams
<1>1. CASE \E together \in BOOLEAN : Begin(p, together)
    BY <1>1 DEF Begin
<1>2. CASE ClaimRefused(p)
    BY <1>2 DEF ClaimRefused
<1>3. CASE Provision(p)
    BY <1>3 DEF Provision
<1>4. CASE FanOut(p)
    BY <1>4 DEF FanOut
<1>5. CASE AllBack(p)
    BY <1>5 DEF AllBack
<1>6. CASE Raises(p)
    BY <1>6 DEF Raises
<1>7. CASE Joined(p)
    BY <1>7 DEF Joined
<1>8. CASE MergeFails(p)
    BY <1>8 DEF MergeFails
<1>9. CASE Propose(p)
    BY <1>9 DEF Propose
<1>10. CASE End(p)
    BY <1>10 DEF End
<1>11. CASE Exit(p)
    BY <1>11 DEF Exit, Ownership!Die
<1> QED
    BY <1>1, <1>2, <1>3, <1>4, <1>5, <1>6, <1>7, <1>8, <1>9, <1>10, <1>11 DEF SessionStep

LEMMA LateStream ==
    ASSUME TypeOK, NEW p \in Sessions, NEW n \in Names, phase[p] \in Late, StreamStep(p, n)
    PROVE  /\ phase'[p] \in Late
           /\ \A m \in Names : stream'[p][m] \in {"ready", "merged"}
                            <=> stream[p][m] \in {"ready", "merged"}
           /\ \/ integration' = integration
              \/ (phase[p] = "merge" /\ integration' = integration \cup {<<p, n>>})
<1> USE DEF TypeOK, Goto, SetStream, sessionVars, Late, With, Streams
<1>1. CASE ClaimNext(p, n)
    BY <1>1 DEF ClaimNext, Ownership!Grant
<1>2. CASE StartStream(p, n)
    BY <1>2 DEF StartStream
<1>3. CASE \E status \in {"ready", "blocked"} : StreamReturns(p, n, status)
    BY <1>3 DEF StreamReturns
<1>4. CASE Collect(p, n)
    BY <1>4 DEF Collect
<1>5. CASE Merge(p, n)
    BY <1>5 DEF Merge
<1>6. CASE \E fails \in BOOLEAN : Release(p, n, fails)
    BY <1>6 DEF Release, Ownership!GiveUp
<1> QED
    BY <1>1, <1>2, <1>3, <1>4, <1>5, <1>6 DEF StreamStep

\* Before that, it merges nothing.
LEMMA EarlyMergesNothing ==
    ASSUME NEW p \in Sessions, phase[p] \notin Late,
           SessionStep(p) \/ \E n \in Names : StreamStep(p, n)
    PROVE  integration' = integration
BY DEF Late, SessionStep, StreamStep, Begin, ClaimRefused, Provision, FanOut, AllBack, Raises, Joined,
       MergeFails, Propose, End, Exit, ClaimNext, StartStream, StreamReturns, Collect, Merge, Release

LEMMA IntegrationKeeps ==
    ASSUME IInv, NEW p \in Sessions, SessionStep(p) \/ \E n \in Names : StreamStep(p, n)
    PROVE  MergedLate' /\ MergedIsGated'
<1> SUFFICES ASSUME NEW w \in integration'
             PROVE  /\ phase'[w[1]] \in Late
                    /\ Streams(w[1]) = With(w[1], {"ready", "merged"})'
    BY DEF MergedLate, MergedIsGated, With, Streams
<1>0. TypeOK /\ SessionInv(p) /\ MergedLate /\ MergedIsGated
    BY DEF IInv
<1>1. w \in integration \/ (w[1] = p /\ phase[p] = "merge")
    <2>1. CASE phase[p] \in Late
        BY <1>0, <2>1, LateSession, LateStream
    <2>2. CASE phase[p] \notin Late
        BY <2>2, EarlyMergesNothing
    <2> QED
        BY <2>1, <2>2
<1>2. phase[w[1]] \in Late /\ Streams(w[1]) = With(w[1], {"ready", "merged"}) /\ w[1] \in Sessions
    BY <1>0, <1>1 DEF MergedLate, MergedIsGated, SessionInv, MergingReady, Late, TypeOK
<1>3. CASE w[1] = p
    <2>1. phase'[p] \in Late /\ \A m \in Names : stream'[p][m] \in {"ready", "merged"}
                                              <=> stream[p][m] \in {"ready", "merged"}
        BY <1>0, <1>2, <1>3, LateSession, LateStream
    <2> QED
        BY <1>2, <1>3, <2>1 DEF With, Streams
<1>4. CASE w[1] # p
    <2>1. phase'[w[1]] = phase[w[1]] /\ stream'[w[1]] = stream[w[1]]
        BY <1>0, <1>2, <1>4, SessionAlone, StreamAlone
    <2> QED
        BY <1>2, <2>1 DEF With, Streams
<1> QED
    BY <1>3, <1>4

LEMMA ExclusiveKeeps ==
    ASSUME IInv, NEW p \in Sessions, SessionStep(p) \/ \E n \in Names : StreamStep(p, n)
    PROVE  Ownership!Exclusive'
<1>1. \/ UNCHANGED own
      \/ \E n \in Names : ClaimNext(p, n)
      \/ \E n \in Names, fails \in BOOLEAN : Release(p, n, fails)
      \/ Exit(p)
    BY DEF SessionStep, StreamStep, Begin, ClaimRefused, Provision, FanOut, AllBack, Raises, Joined,
           MergeFails, Propose, End, StartStream, StreamReturns, Collect, Merge
<1>2. CASE UNCHANGED own
    BY <1>2 DEF IInv, Ownership!Exclusive
<1> QED
    BY <1>1, <1>2, LeasesExclude

LEMMA Inductive == IInv /\ [Next]_vars => IInv'
<1> SUFFICES ASSUME IInv, [Next]_vars PROVE IInv'
    OBVIOUS
<1>1. CASE UNCHANGED vars
    BY <1>1 DEF vars, sessionVars, operatorVars, IInv, TypeOK, Ownership!Exclusive, SessionInv,
                ClaimsHeld, LoopsAwaited, OnlyPlanned, CollectedReturned, SerialAlone, MergedStreams,
                MergingReady, MergedLate, MergedIsGated, With, Streams
<1>2. CASE OperatorStep
    BY <1>2, OperatorKeeps
<1>3. ASSUME NEW p \in Sessions, SessionStep(p) \/ \E n \in Names : StreamStep(p, n)
      PROVE  IInv'
    <2>1. TypeOK'
        BY <1>3, SessionKeepsType, StreamKeepsType DEF IInv
    <2>2. ASSUME NEW q \in Sessions PROVE SessionInv(q)'
        <3>1. CASE q = p
            BY <1>3, <3>1, SessionKeepsInv, StreamKeepsInv DEF IInv
        <3>2. CASE q # p
            <4>1. /\ phase'[q] = phase[q] /\ stream'[q] = stream[q] /\ own'[q] = own[q]
                  /\ collected'[q] = collected[q] /\ concurrent'[q] = concurrent[q]
                BY <1>3, <3>2, SessionAlone, StreamAlone DEF IInv
            <4>2. SessionInv(q)
                BY DEF IInv
            <4> QED
                BY <4>1, <4>2 DEF SessionInv, ClaimsHeld, LoopsAwaited, OnlyPlanned, CollectedReturned,
                                  SerialAlone, MergedStreams, MergingReady, With, Streams
        <3> QED
            BY <3>1, <3>2
    <2> QED
        BY <1>3, <2>1, <2>2, ExclusiveKeeps, IntegrationKeeps DEF IInv
<1> QED
    BY <1>1, <1>2, <1>3 DEF Next

THEOREM Invariance == Spec => []IInv
    BY InitIInv, Inductive, PTL DEF Spec

----------------------------------------------------------------------------

\* The state of the hub, the sessions and the operator keeps its type.
THEOREM TypeCorrect == Spec => []TypeOK
<1>1. IInv => TypeOK
    BY DEF IInv
<1> QED
    BY <1>1, Invariance, PTL

\* A loop never works without the lease on its stream's paths: the finally
\* clause of run_parallel is reached only when the loops are over.
THEOREM LeaseCovers == Spec => []LeaseCoversRun
<1>1. IInv => LeaseCoversRun
    BY DEF IInv, SessionInv, ClaimsHeld, LoopsAwaited, LeaseCoversRun, Looping, Active
<1> QED
    BY <1>1, Invariance, PTL

\* Streams that are at work at one time share no path, whichever sessions
\* they belong to.
THEOREM StreamsStayDisjoint == Spec => []RunningDisjoint
<1>1. IInv => RunningDisjoint
    <2> SUFFICES ASSUME IInv, NEW v \in Looping, NEW w \in Looping, v # w
                 PROVE  ~Overlap(Plan[v[1]][v[2]], Plan[w[1]][w[2]])
        BY DEF RunningDisjoint
    <2>1. LeaseCoversRun
        BY DEF IInv, SessionInv, ClaimsHeld, LoopsAwaited, LeaseCoversRun, Looping, Active
    <2>2. v[1] \in Sessions /\ v[2] \in Names /\ w[1] \in Sessions /\ w[2] \in Names
        BY DEF Looping
    <2>3. <<v[1], v[2]>> # <<w[1], w[2]>>
        BY DEF Looping
    <2>4. ~Overlap(own[v[1]][v[2]], own[w[1]][w[2]])
        BY <2>2, <2>3 DEF IInv, Ownership!Exclusive
    <2> QED
        BY <2>1, <2>4 DEF LeaseCoversRun
<1> QED
    BY <1>1, Invariance, PTL

\* Nothing reaches the integration branch unless every stream of its session
\* passed the loop and the gate.
THEOREM OnlyGatedIsMerged == Spec => []MergedIsGated
<1>1. IInv => MergedIsGated
    BY DEF IInv
<1> QED
    BY <1>1, Invariance, PTL

----------------------------------------------------------------------------
\* What a session owns it has claimed and not released, or its release has
\* failed; at the end nothing is left to release.
HeldIsClaimed ==
    \A p \in Sessions :
        /\ \A n \in Names : own[p][n] # {} => n \in claimed[p] \/ <<p, n>> \in unreleased
        /\ phase[p] = "ended" => claimed[p] = {}

\* A session's step that is not one of these claims and releases nothing.
LEMMA HeldElsewhere ==
    ASSUME IInv, HeldIsClaimed, NEW p \in Sessions,
           UNCHANGED <<own, claimed, unreleased>>,
           phase' = phase \/ \E where \in Phases \ {"ended"} : Goto(p, where)
    PROVE  HeldIsClaimed'
    BY DEF IInv, TypeOK, HeldIsClaimed, Goto

LEMMA HeldKeeps ==
    ASSUME IInv, HeldIsClaimed, [Next]_vars
    PROVE  HeldIsClaimed'
<1> USE DEF IInv, TypeOK
<1>1. CASE UNCHANGED vars \/ OperatorStep
    BY <1>1 DEF vars, sessionVars, HeldIsClaimed, OperatorStep, OperatorStops, Discover,
                DiscoverFails, OperatorClears, WriteStop
<1>2. ASSUME NEW p \in Sessions, NEW n \in Names, ClaimNext(p, n)
      PROVE  HeldIsClaimed'
    BY <1>2 DEF ClaimNext, Ownership!Grant, HeldIsClaimed
<1>3. ASSUME NEW p \in Sessions, NEW n \in Names, NEW fails \in BOOLEAN, Release(p, n, fails)
      PROVE  HeldIsClaimed'
    BY <1>3 DEF Release, Ownership!GiveUp, HeldIsClaimed
<1>4. ASSUME NEW p \in Sessions, Exit(p) PROVE HeldIsClaimed'
    <2>1. /\ \A n \in Names : own'[p][n] = {}
          /\ phase'[p] = "gone"
          /\ \A q \in Sessions \ {p} : /\ own'[q] = own[q] /\ claimed'[q] = claimed[q]
                                       /\ phase'[q] = phase[q]
          /\ unreleased' = {w \in unreleased : w[1] # p}
        BY <1>4 DEF Exit, Goto, Ownership!Die
    <2> QED
        BY <2>1 DEF HeldIsClaimed
<1>5. ASSUME NEW p \in Sessions, End(p) PROVE HeldIsClaimed'
    BY <1>5 DEF End, Goto, HeldIsClaimed
<1>6. ASSUME NEW p \in Sessions,
             \/ \E together \in BOOLEAN : Begin(p, together)
             \/ ClaimRefused(p) \/ Provision(p) \/ FanOut(p) \/ AllBack(p) \/ Raises(p)
             \/ Joined(p) \/ MergeFails(p) \/ Propose(p)
             \/ \E n \in Names : \/ StartStream(p, n) \/ Collect(p, n) \/ Merge(p, n)
                                 \/ \E status \in {"ready", "blocked"} : StreamReturns(p, n, status)
      PROVE  HeldIsClaimed'
    <2>1. /\ UNCHANGED <<own, claimed, unreleased>>
          /\ phase' = phase \/ \E where \in Phases \ {"ended"} : Goto(p, where)
        BY <1>6 DEF Begin, ClaimRefused, Provision, FanOut, AllBack, Raises, Joined, MergeFails,
                    Propose, StartStream, Collect, Merge, StreamReturns
    <2> QED
        BY <2>1, HeldElsewhere
<1> QED
    BY <1>1, <1>2, <1>3, <1>4, <1>5, <1>6 DEF Next, SessionStep, StreamStep

\* A session that has come to its end owns nothing but what it failed to
\* release (the finally clause of run_parallel), however it came there.
THEOREM EndHoldsNothing == Spec => []EndedHoldsNothing
<1>1. Init => HeldIsClaimed
    BY DEF Init, HeldIsClaimed
<1>2. IInv /\ HeldIsClaimed /\ [Next]_vars => HeldIsClaimed'
    BY HeldKeeps
<1>3. HeldIsClaimed => EndedHoldsNothing
    BY DEF HeldIsClaimed, EndedHoldsNothing
<1> QED
    BY <1>1, <1>2, <1>3, Invariance, PTL DEF Spec

----------------------------------------------------------------------------
(* STOP.  What the operator's order has found to be running has begun, and  *)
(* does not begin again; and a session whose streams are at work stands in  *)
(* streams_state.json with all of them, or another session does.            *)

\* Where a stream is from the start of its loop on.
Begun == {"looping", "ready", "blocked", "merged"}

\* From the fan-out until the last result is in, the hub lists the worktrees of
\* the session that wrote it last.
HubListsRunning ==
    \A p \in Sessions : phase[p] \in {"run", "join"} =>
        /\ hub.by # NoOne
        /\ hub.by = p => hub.listed = {p} \X Streams(p)

OrderedHasBegun ==
    order.at # "none" => \A w \in order.owed : stream[w[1]][w[2]] \in Begun

\* The fan-out has reached a worktree, or will, or has warned of it, or found
\* another session's list.
OrderReaches ==
    order.at = "worktrees" => \A w \in order.owed \cap Looping :
        w \in stop \cup order.todo \/ order.by \in Sessions \ {w[1]}

StopInv == HubListsRunning /\ OrderedHasBegun /\ OrderReaches

\* A loop that has begun does not begin again, in this session.
LEMMA BegunOnce ==
    ASSUME TypeOK, NEW p \in Sessions, SessionInv(p),
           SessionStep(p) \/ \E n \in Names : StreamStep(p, n),
           NEW m \in Names, stream[p][m] \in Begun
    PROVE  /\ stream'[p][m] \in Begun
           /\ (stream'[p][m] = "looping" /\ phase'[p] # "gone")
                => (stream[p][m] = "looping" /\ phase[p] # "gone")
<1> USE DEF TypeOK, Goto, SetStream, Begun
<1>1. CASE \E together \in BOOLEAN : Begin(p, together)
    BY <1>1 DEF Begin, SessionInv, OnlyPlanned
<1>2. CASE ClaimRefused(p)
    BY <1>2 DEF ClaimRefused
<1>3. CASE Provision(p)
    <2>1. m \in Streams(p) /\ m \notin With(p, {"claimed"})
        BY DEF SessionInv, OnlyPlanned, With
    <2> QED
        BY <1>3, <2>1 DEF Provision
<1>4. CASE FanOut(p)
    BY <1>4 DEF FanOut
<1>5. CASE AllBack(p)
    BY <1>5 DEF AllBack
<1>6. CASE Raises(p)
    BY <1>6 DEF Raises
<1>7. CASE Joined(p)
    BY <1>7 DEF Joined
<1>8. CASE MergeFails(p)
    BY <1>8 DEF MergeFails
<1>9. CASE Propose(p)
    BY <1>9 DEF Propose
<1>10. CASE End(p)
    BY <1>10 DEF End
<1>11. CASE Exit(p)
    BY <1>11 DEF Exit
<1>12. ASSUME NEW n \in Names, ClaimNext(p, n)
       PROVE  stream'[p][m] = stream[p][m] /\ phase' = phase
    BY <1>12 DEF ClaimNext
<1>13. ASSUME NEW n \in Names, StartStream(p, n)
       PROVE  stream'[p][m] = stream[p][m] /\ phase' = phase
    BY <1>13 DEF StartStream
<1>14. ASSUME NEW n \in Names, NEW status \in {"ready", "blocked"}, StreamReturns(p, n, status)
       PROVE  /\ stream'[p][m] = stream[p][m] \/ stream'[p][m] \in {"ready", "blocked"}
              /\ phase' = phase
    BY <1>14 DEF StreamReturns
<1>15. ASSUME NEW n \in Names, Collect(p, n)
       PROVE  stream'[p][m] = stream[p][m] /\ (phase[p] # "gone")
    BY <1>15 DEF Collect
<1>16. ASSUME NEW n \in Names, Merge(p, n)
       PROVE  (stream'[p][m] = stream[p][m] \/ stream'[p][m] = "merged") /\ phase' = phase
    BY <1>16 DEF Merge
<1>17. ASSUME NEW n \in Names, NEW fails \in BOOLEAN, Release(p, n, fails)
       PROVE  stream'[p][m] = stream[p][m] /\ phase' = phase
    BY <1>17 DEF Release
<1>18. ASSUME NEW n \in Names, StreamStep(p, n)
       PROVE  /\ stream'[p][m] = stream[p][m] \/ stream'[p][m] \in {"ready", "blocked", "merged"}
              /\ phase' = phase \/ phase[p] # "gone"
    BY <1>12, <1>13, <1>14, <1>15, <1>16, <1>17, <1>18 DEF StreamStep
<1>19. CASE \E n \in Names : StreamStep(p, n)
    BY <1>18, <1>19
<1> QED
    BY <1>1, <1>2, <1>3, <1>4, <1>5, <1>6, <1>7, <1>8, <1>9, <1>10, <1>11, <1>19 DEF SessionStep

\* A session that is at work after a step of its own was so before it, or has
\* written streams_state.json in this step.
LEMMA HubIsKept ==
    ASSUME TypeOK, NEW p \in Sessions,
           SessionStep(p) \/ \E n \in Names : StreamStep(p, n)
    PROVE  /\ UNCHANGED <<stop, order>>
           /\ \/ hub' = hub /\ (phase'[p] \in {"run", "join"} => phase[p] \in {"run", "join"})
              \/ hub' = [by |-> p, listed |-> {p} \X Streams(p)]
              \/ hub'.by = p /\ phase'[p] = "release"
<1> USE DEF TypeOK, Goto, SetStream, Tick, operatorVars
<1>1. CASE \E together \in BOOLEAN : Begin(p, together)
    BY <1>1 DEF Begin
<1>2. CASE ClaimRefused(p)
    BY <1>2 DEF ClaimRefused
<1>3. CASE Provision(p)
    BY <1>3 DEF Provision
<1>4. CASE FanOut(p)
    BY <1>4 DEF FanOut
<1>5. CASE AllBack(p)
    BY <1>5 DEF AllBack
<1>6. CASE Raises(p)
    BY <1>6 DEF Raises
<1>7. CASE Joined(p)
    BY <1>7 DEF Joined
<1>8. CASE MergeFails(p)
    BY <1>8 DEF MergeFails
<1>9. CASE Propose(p)
    BY <1>9 DEF Propose
<1>10. CASE End(p)
    BY <1>10 DEF End
<1>11. CASE Exit(p)
    BY <1>11 DEF Exit
<1>12. CASE \E n \in Names : ClaimNext(p, n)
    BY <1>12 DEF ClaimNext
<1>13. CASE \E n \in Names : StartStream(p, n)
    BY <1>13 DEF StartStream
<1>14. CASE \E n \in Names, status \in {"ready", "blocked"} : StreamReturns(p, n, status)
    BY <1>14 DEF StreamReturns
<1>15. CASE \E n \in Names : Collect(p, n)
    BY <1>15 DEF Collect
<1>16. CASE \E n \in Names : Merge(p, n)
    BY <1>16 DEF Merge
<1>17. CASE \E n \in Names, fails \in BOOLEAN : Release(p, n, fails)
    BY <1>17 DEF Release
<1> QED
    BY <1>1, <1>2, <1>3, <1>4, <1>5, <1>6, <1>7, <1>8, <1>9, <1>10, <1>11, <1>12, <1>13, <1>14,
       <1>15, <1>16, <1>17 DEF SessionStep, StreamStep

\* The other sessions go on as they were.
LEMMA OthersAsBefore ==
    ASSUME TypeOK, NEW p \in Sessions, NEW q \in Sessions \ {p},
           SessionStep(p) \/ \E n \in Names : StreamStep(p, n)
    PROVE  phase'[q] = phase[q] /\ stream'[q] = stream[q]
BY SessionAlone, StreamAlone

LEMMA SessionKeepsStop ==
    ASSUME IInv, StopInv, NEW p \in Sessions,
           SessionStep(p) \/ \E n \in Names : StreamStep(p, n)
    PROVE  StopInv'
<1>1. TypeOK /\ SessionInv(p)
    BY DEF IInv
<1>2. UNCHANGED <<stop, order>>
    BY <1>1, HubIsKept
<1>3. ASSUME NEW q \in Sessions \ {p}
      PROVE  phase'[q] = phase[q] /\ stream'[q] = stream[q]
    BY <1>1, OthersAsBefore
<1>4. HubListsRunning'
    <2> SUFFICES ASSUME NEW q \in Sessions, phase'[q] \in {"run", "join"}
                 PROVE  hub'.by # NoOne /\ (hub'.by = q => hub'.listed = {q} \X Streams(q))
        BY DEF HubListsRunning, Streams
    <2>1. CASE hub' = hub /\ (phase'[p] \in {"run", "join"} => phase[p] \in {"run", "join"})
        <3>1. phase[q] \in {"run", "join"}
            BY <1>3, <2>1
        <3> QED
            BY <2>1, <3>1 DEF StopInv, HubListsRunning
    <2>2. CASE hub' = [by |-> p, listed |-> {p} \X Streams(p)]
        BY <2>2, SessionsAssumption
    <2>3. CASE hub'.by = p /\ phase'[p] = "release"
        BY <2>3, SessionsAssumption
    <2> QED
        BY <1>1, <2>1, <2>2, <2>3, HubIsKept
<1>5. ASSUME order.at # "none", NEW w \in order.owed
      PROVE  /\ stream'[w[1]][w[2]] \in Begun
             /\ w \in Looping' => w \in Looping
    <2>1. w \in Worktrees /\ w[1] \in Sessions /\ w[2] \in Names
        BY <1>1 DEF TypeOK
    <2>2. stream[w[1]][w[2]] \in Begun
        BY <1>5 DEF StopInv, OrderedHasBegun
    <2>3. CASE w[1] = p
        <3>1. /\ stream'[p][w[2]] \in Begun
              /\ (stream'[p][w[2]] = "looping" /\ phase'[p] # "gone")
                   => (stream[p][w[2]] = "looping" /\ phase[p] # "gone")
            BY <1>1, <2>1, <2>2, <2>3, BegunOnce
        <3> QED
            BY <2>1, <2>3, <3>1 DEF Looping
    <2>4. CASE w[1] # p
        BY <1>3, <2>1, <2>2, <2>4 DEF Looping
    <2> QED
        BY <2>3, <2>4
<1>6. OrderedHasBegun'
    BY <1>2, <1>5 DEF OrderedHasBegun
<1>7. OrderReaches'
    BY <1>2, <1>5 DEF StopInv, OrderReaches
<1> QED
    BY <1>4, <1>6, <1>7 DEF StopInv

LEMMA OperatorKeepsStop ==
    ASSUME IInv, StopInv, OperatorStep
    PROVE  StopInv'
<1>1. UNCHANGED <<phase, stream, hub>>
    BY DEF OperatorStep, OperatorStops, Discover, DiscoverFails, OperatorClears, WriteStop,
           sessionVars
<1>2. HubListsRunning' /\ Looping' = Looping
    BY <1>1 DEF StopInv, HubListsRunning, Streams, Looping
<1>3. CASE OperatorStops
    <2>1. order'.at = "hub" /\ order'.owed = Looping
        BY <1>3 DEF OperatorStops, NoOrder
    <2>2. OrderedHasBegun'
        BY <1>1, <2>1 DEF OrderedHasBegun, Looping, Begun
    <2> QED
        BY <1>2, <2>1, <2>2 DEF StopInv, OrderReaches
<1>4. CASE Discover
    <2>1. /\ order.at # "none"
          /\ order'.by = hub.by /\ order'.todo = hub.listed \cap Allowed
          /\ order'.owed = order.owed \ (hub.listed \ Allowed)
        BY <1>4 DEF Discover, IInv, TypeOK
    <2>2. OrderedHasBegun'
        BY <1>1, <2>1 DEF StopInv, OrderedHasBegun
    <2>3. ASSUME NEW w \in order.owed \cap Looping
          PROVE  w \in hub.listed \/ hub.by \in Sessions \ {w[1]}
        <3>1. /\ w[1] \in Sessions /\ w[2] \in Names /\ w = <<w[1], w[2]>>
              /\ phase[w[1]] # "gone" /\ stream[w[1]][w[2]] = "looping"
            BY DEF Looping
        <3>2. phase[w[1]] \in {"run", "join"} /\ w[2] \in Streams(w[1])
            BY <3>1 DEF IInv, SessionInv, LoopsAwaited, OnlyPlanned
        <3>3. hub.by # NoOne /\ (hub.by = w[1] => hub.listed = {w[1]} \X Streams(w[1]))
            BY <3>1, <3>2 DEF StopInv, HubListsRunning
        <3>4. hub.by \in Sessions
            BY <3>3 DEF IInv, TypeOK
        <3>5. <<w[1], w[2]>> \in {w[1]} \X Streams(w[1])
            BY <3>2
        <3> QED
            BY <3>1, <3>3, <3>4, <3>5
    <2>4. OrderReaches'
        BY <1>2, <2>1, <2>3 DEF OrderReaches
    <2> QED
        BY <1>2, <2>2, <2>4 DEF StopInv
<1>5. CASE \E gone \in SUBSET Worktrees : OperatorClears(gone)
    <2>1. order'.at = "none"
        BY <1>5 DEF OperatorClears, NoOrder
    <2> QED
        BY <1>2, <2>1 DEF StopInv, OrderedHasBegun, OrderReaches
<1>6. ASSUME NEW v \in Worktrees, NEW fails \in BOOLEAN, WriteStop(v, fails) PROVE StopInv'
    <2>1. /\ order.at = "worktrees" /\ order'.at = "worktrees" /\ order'.owed \subseteq order.owed
          /\ order'.by = order.by /\ order'.todo = order.todo \ {v}
          /\ stop \subseteq stop' /\ (v \in stop' \/ v \notin order'.owed)
        BY <1>6 DEF WriteStop, IInv, TypeOK
    <2>2. OrderedHasBegun'
        BY <1>1, <2>1 DEF StopInv, OrderedHasBegun
    <2>3. OrderReaches'
        BY <1>2, <2>1 DEF StopInv, OrderReaches
    <2> QED
        BY <1>2, <2>2, <2>3 DEF StopInv
<1>7. CASE DiscoverFails
    <2>1. order.at # "none" /\ order'.owed = {}
        BY <1>7 DEF DiscoverFails, IInv, TypeOK
    <2>2. OrderedHasBegun'
        BY <1>1, <2>1 DEF StopInv, OrderedHasBegun
    <2>3. OrderReaches'
        BY <2>1 DEF OrderReaches
    <2> QED
        BY <1>2, <2>2, <2>3 DEF StopInv
<1> QED
    BY <1>3, <1>4, <1>5, <1>6, <1>7 DEF OperatorStep

LEMMA StopKeeps ==
    ASSUME IInv, StopInv, [Next]_vars
    PROVE  StopInv'
<1>1. CASE UNCHANGED vars
    BY <1>1 DEF vars, sessionVars, operatorVars, StopInv, HubListsRunning, OrderedHasBegun, OrderReaches,
                Looping, Streams
<1> QED
    BY <1>1, SessionKeepsStop, OperatorKeepsStop DEF Next

\* When the operator's STOP is out, it stands in every worktree whose loop was at
\* work when he gave it and still is, or a warning has named the worktree (one
\* outside the allowed roots, a failed write, an unreadable list), unless another
\* session had written over streams_state.json (memory/stream_stop.py: the
\* fan-out goes by that file).
THEOREM StopReachesWorktrees == Spec => []StopReachesOrWarns
<1>1. Init => StopInv
    BY DEF Init, NoOrder, StopInv, HubListsRunning, OrderedHasBegun, OrderReaches
<1>2. IInv /\ StopInv /\ [Next]_vars => StopInv'
    BY StopKeeps
<1>3. StopInv => StopReachesOrWarns
    BY DEF StopInv, OrderReaches, StopIsOut, StopReachesOrWarns
<1> QED
    BY <1>1, <1>2, <1>3, Invariance, PTL DEF Spec
=============================================================================
