---------------------------- MODULE MCLongCalls ----------------------------
(* The local MCP server and what its long call runs, for TLC: the stdio     *)
(* server, stream_cli, the three backends, the pipeline that calls them,    *)
(* the short tools, the backend probe and the size bound of an answer.      *)
(* "part" picks one of them in the initial state and leaves the others      *)
(* alone, so that one run explores their sum and not their product.         *)
EXTENDS McpServer, StreamCli, JenkinsJob, SelfHosted, ActBackend,
        LocalPipeline, ToolCalls, BackendProbe, SnapshotBound, TLC

VARIABLE part

vars == <<part, serverVars, streamVars, jenkinsVars, hostedVars, actVars,
          pipelineVars, toolVars, probeVars, boundVars>>

\* A part that is not picked begins in one state only.
Init ==
    /\ part \in {"server", "stream", "jenkins", "hosted", "act",
                 "pipeline", "tools", "probe", "bound"}
    /\ ServerInit /\ StreamInit /\ JenkinsInit /\ HostedInit /\ ActInit
    /\ PipelineInit /\ ToolInit /\ ProbeInit /\ BoundInit
    /\ part # "hosted" =>
         listener = "up" /\ watch = "absent" /\
         conf = [start |-> TRUE, ephemeral |-> TRUE, fan |-> TRUE]
    /\ part # "act" => pulls
    /\ part # "bound" => size = [p \in Parts |-> 1]

\* Only the part that was picked moves.
Still ==
    /\ part' = part
    /\ part # "server" => UNCHANGED serverVars
    /\ part # "stream" => UNCHANGED streamVars
    /\ part # "jenkins" => UNCHANGED jenkinsVars
    /\ part # "hosted" => UNCHANGED hostedVars
    /\ part # "act" => UNCHANGED actVars
    /\ part # "pipeline" => UNCHANGED pipelineVars
    /\ part # "tools" => UNCHANGED toolVars
    /\ part # "probe" => UNCHANGED probeVars
    /\ part # "bound" => UNCHANGED boundVars

Server    == part = "server" /\ ServerNext /\ Still
Stream    == part = "stream" /\ StreamNext /\ Still
Jenkins   == part = "jenkins" /\ JenkinsNext /\ Still
Hosted    == part = "hosted" /\ HostedNext /\ Still
Act       == part = "act" /\ ActNext /\ Still
Pipeline  == part = "pipeline" /\ PipelineNext /\ Still
ToolsPart == part = "tools" /\ ToolNext /\ Still
Probe     == part = "probe" /\ ProbeNext /\ Still
Bound     == part = "bound" /\ BoundNext /\ Still

Next == Server \/ Stream \/ Jenkins \/ Hosted \/ Act \/ Pipeline \/
        ToolsPart \/ Probe \/ Bound

\* None of the fair steps of a part is enabled in its initial state, so the
\* fairness of the parts that were not picked asks for nothing.
Spec ==
    /\ Init /\ [][Next]_vars
    /\ ServerFairness /\ StreamFairness

TypeOK ==
    /\ ServerTypeOK /\ StreamTypeOK /\ JenkinsTypeOK /\ HostedTypeOK
    /\ ActTypeOK /\ PipelineTypeOK /\ ToolTypeOK /\ ProbeTypeOK
    /\ BoundTypeOK

(* What a call started is gone when the call is, however it ended: the group *)
(* of a command, run.sh of a runner, the containers of act, the build of    *)
(* Jenkins whose number is known.                                           *)
NothingLeftBehind ==
    /\ NothingLeftRunning /\ KilledLeavesNothing
    /\ RunnerEndsWithCall /\ ActLeavesNothing /\ KnownBuildIsStopped

(* What is read of an output is whole, or it says what is missing: the lines *)
(* of a command, the console of a build, the parts of a bounded answer.     *)
OutputAccounted == LinesAccounted /\ LogWholeOrFlagged /\ AnswerFits

(* The diagnostics of a run outlive it: what the runner deletes is kept, no *)
(* pipeline log is left without its record, and the records are bounded.    *)
LogsKept == DeletedDiagIsKept /\ LogsHaveRecords /\ RecordsBounded

(* The short tools keep out of the way: of a pipeline that runs, and of the *)
(* files they only read.                                                    *)
ToolsKeepOut == PytestYieldsToPipeline /\ ReadersWriteNothing

(* One call at a time, answered once, and none that outlives the order to   *)
(* shut down without being told.                                            *)
OneCallAtATime == AnsweredAtMostOnce /\ GateHasWorker /\ ShutdownCancels

(* Every request is answered, every command past its deadline ends, and the *)
(* server exits when its client is gone.                                    *)
CallsEnd == EveryRequestAnswered /\ OverdueEnds /\ InputEndExits
=============================================================================
