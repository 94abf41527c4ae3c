--------------------------- MODULE OperatorLeases ---------------------------
(***************************************************************************)
(* The lease registry as the recipe for operator sessions uses it          *)
(* (PARALLEL_PROTOCOL.md:48-50, scripts/parallel_scaffold.sh): not from    *)
(* inside a run-parallel process that lives as long as its streams, but by *)
(* `python -m memory.stream_lease claim`, a process that runs main for one *)
(* command and exits.  The session that ordered the claim goes on working. *)
(***************************************************************************)
EXTENDS StreamLease

VARIABLES
    claimed,   \* what the session of each stream was granted on the command line
    ran        \* the command-line processes that have run their command

opVars == <<vars, claimed, ran>>

OpInit ==
    /\ Init
    /\ claimed = [n \in Names |-> {}]
    /\ ran = {}

\* main with the command claim begins.
CliClaim(p, n, paths) ==
    /\ p \notin ran
    /\ ClaimBegins(p, n, paths)
    /\ UNCHANGED <<claimed, ran>>

\* The claim at work takes its next look, or is refused.
CliClaimWorks ==
    /\ \/ \E m \in Names : CheckOther(m) \/ DropOther(m)
       \/ CheckOwn
       \/ ClaimRaises
    /\ UNCHANGED <<claimed, ran>>

\* The claim is saved, and the command answers 0.
CliClaimed ==
    /\ SaveClaim
    /\ claimed' = [claimed EXCEPT ![claiming.name] = claiming.paths]
    /\ ran' = ran \cup {claiming.pid}

\* main with the command release.
CliRelease(p, n) ==
    /\ p \notin ran
    /\ Release(p, n)
    /\ claimed' = [claimed EXCEPT ![n] = {}]
    /\ ran' = ran \cup {p}

\* The process of the command ends; the session does not.
CliExit(p) ==
    /\ p \in ran
    /\ Exit(p)
    /\ ran' = ran \ {p}
    /\ UNCHANGED claimed

CliStart(p) ==
    /\ Start(p)
    /\ UNCHANGED <<claimed, ran>>

OpNext ==
    \/ \E p \in Pids :
        \/ \E n \in Names, paths \in Claims : CliClaim(p, n, paths)
        \/ \E n \in Names : CliRelease(p, n)
        \/ CliExit(p)
        \/ CliStart(p)
    \/ CliClaimWorks \/ CliClaimed

OpSpec == OpInit /\ [][OpNext]_opVars

\* "Conflict-free parallel operator sessions ... Claim exclusive owned_paths"
\* (PARALLEL_PROTOCOL.md:48,50): two sessions that were granted their claims
\* on the command line, and have not released them, share no path.
OperatorsExclusive ==
    \A m, n \in Names : m # n => ~Overlap(claimed[m], claimed[n])
=============================================================================
