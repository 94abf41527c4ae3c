---------------------------- MODULE StreamPlans ----------------------------
(***************************************************************************)
(* The plan of a parallel run and its merge gate (memory/streams.py, and   *)
(* _run_one_stream in memory/supervisor_parallel.py): stream specs are     *)
(* parsed one by one, the list is validated, every stream then commits     *)
(* changes in its own worktree and passes the owned_paths gate or is       *)
(* blocked.  The gate looks at the committed changes, and those are what   *)
(* is merged later.                                                        *)
(***************************************************************************)
EXTENDS StreamPaths

CONSTANTS
    Names,        \* stream names
    Tokens,       \* owned_paths tokens an operator may write
    Files,        \* repository files a stream may change
    MaxPlans,     \* bound: specs on the command line
    MaxTokens,    \* bound: tokens in a spec
    MaxEdits      \* bound: files one stream commits

\* The files are what git lists: no empty segment and no "." in a path.  A token
\* ends with one slash at most: "src//" is under "src" for the gate and not for
\* the overlap check.  A token that no file can have ("./src", "/etc") owns nothing.
ASSUME StreamsAssumption ==
    /\ Tokens \cup Files \subseteq Seq(STRING) \ {<<>>}
    /\ \A f \in Files : \A i \in DOMAIN f : f[i] \notin {"", "."}
    /\ \A t \in Tokens : EndsWithSlash(t) => ~EndsWithSlash(Front(t))
    /\ \A t \in Tokens : \E f \in Files : OwnedBy(f, t)

VARIABLES
    plans,    \* the StreamPlan list, in order
    phase,    \* "parse", then "run" or "rejected"
    changed   \* files that each plan's branch changed

vars == <<plans, phase, changed>>

Status == {"PENDING", "STREAM_READY", "BLOCKED"}

StreamPlan == [name : Names, owned_paths : (SUBSET Tokens) \ {{}}, status : Status]

TypeOK ==
    /\ plans \in Seq(StreamPlan)
    /\ phase \in {"parse", "run", "rejected"}
    /\ changed \in [1..Len(plans) -> SUBSET Files]
    /\ phase # "run" => \A i \in DOMAIN plans : plans[i].status = "PENDING" /\ changed[i] = {}

Init ==
    /\ plans = <<>>
    /\ phase = "parse"
    /\ changed = <<>>

\* parse_stream_specs, one "name:path1,path2".
ParseSpec(name, owned) ==
    /\ phase = "parse"
    /\ plans' = Append(plans, [name |-> name, owned_paths |-> owned, status |-> "PENDING"])
    /\ changed' = Append(changed, {})
    /\ UNCHANGED phase

\* Broken variant: only an earlier stream is asked whether it covers a later one.
ValidPlansOneWay(ps) ==
    /\ Len(ps) >= 1
    /\ \A i, j \in DOMAIN ps : i < j =>
        /\ ps[i].name # ps[j].name
        /\ \A a \in ps[i].owned_paths, b \in ps[j].owned_paths : ~OwnedCovers(a, b)

\* The check of validate_stream_plans.
ValidPlans(ps) ==
    /\ Len(ps) >= 1
    /\ \A i, j \in DOMAIN ps : i < j =>
        /\ ps[i].name # ps[j].name
        /\ ~Overlap(ps[i].owned_paths, ps[j].owned_paths)

\* validate_stream_plans: go on, or ValueError before anything is provisioned.
ValidateStreamPlans ==
    /\ phase = "parse"
    /\ phase' = IF ValidPlans(plans) THEN "run" ELSE "rejected"
    /\ UNCHANGED <<plans, changed>>

\* Broken variant: streams run before the plan is validated.
CommitEarly(i, f) ==
    /\ plans[i].status = "PENDING"
    /\ changed' = [changed EXCEPT ![i] = @ \cup {f}]
    /\ UNCHANGED <<plans, phase>>

\* The coder of stream i commits a change to a file.
Commit(i, f) ==
    /\ phase = "run"
    /\ plans[i].status = "PENDING"
    /\ changed' = [changed EXCEPT ![i] = @ \cup {f}]
    /\ UNCHANGED <<plans, phase>>

\* check_owned_paths_gate after the loop of stream i ended PR_READY.
OwnedPathsGate(i) ==
    /\ phase = "run"
    /\ plans[i].status = "PENDING"
    /\ plans' = [plans EXCEPT ![i].status =
                    IF FilesOutsideOwned(changed[i], plans[i].owned_paths) = {}
                    THEN "STREAM_READY" ELSE "BLOCKED"]
    /\ UNCHANGED <<phase, changed>>

Next ==
    \/ /\ Len(plans) < MaxPlans
       /\ \E name \in Names, owned \in (SUBSET Tokens) \ {{}} :
            Cardinality(owned) <= MaxTokens /\ ParseSpec(name, owned)
    \/ ValidateStreamPlans
    \/ \E i \in DOMAIN plans, f \in Files :
            Cardinality(changed[i]) < MaxEdits /\ Commit(i, f)
    \/ \E i \in DOMAIN plans : OwnedPathsGate(i)

Spec == Init /\ [][Next]_vars

----------------------------------------------------------------------------
(* Properties.                                                              *)

\* "Reject overlapping owned_paths across streams" (streams.py:120), for what
\* it is meant to achieve: no two streams that passed the gate have changed
\* the same file, so their branches merge without touching each other.
ReadyStreamsDisjoint ==
    \A i, j \in DOMAIN plans :
        (i # j /\ plans[i].status = "STREAM_READY" /\ plans[j].status = "STREAM_READY")
        => changed[i] \cap changed[j] = {}

\* No false alarm: plans with different names are rejected only if there is a
\* file that two of them would own.
RejectionHasReason ==
    (phase = "rejected" /\ plans # <<>>) =>
        \E i, j \in DOMAIN plans : i < j /\
            \/ plans[i].name = plans[j].name
            \/ \E f \in Files : /\ PathIsOwned(f, plans[i].owned_paths)
                                /\ PathIsOwned(f, plans[j].owned_paths)

\* The overlap check and the gate draw one line: plans that pass the one stay
\* apart at the other, and none are rejected that the other would keep apart
\* (validate_stream_plans, files_outside_owned).
OverlapMeetsGate == ReadyStreamsDisjoint /\ RejectionHasReason
=============================================================================
