---------------------------- MODULE ActBackend -----------------------------
(***************************************************************************)
(* One run of the act backend (memory/local_mcp/backends/act.py): scan the *)
(* workflow, ask act for its flags, look for the image, then run act push  *)
(* in a scratch home and clean up behind it, whatever happened.  Every     *)
(* wait looks at the cancel event.  Docker is external: a command may fail *)
(* or hang, and the containers of a killed act stay until they are         *)
(* removed by the label of this run.                                       *)
(***************************************************************************)
VARIABLES
    aStep,       \* where run() is
    scratch,     \* the scratch directory is there
    containers,  \* containers with this run's label are there
    dockerDown,  \* history: a docker command of the clean-up failed
    rmFailed,    \* history: rmtree gave up on a file, which it does not tell
    aCancel,     \* the cancel event is set
    pulls,       \* act.pull: the image need not be present
    streamEnd,   \* how stream_cli ended, or "none"
    aStatus      \* ActOutcome.status

actVars == <<aStep, scratch, containers, dockerDown, rmFailed, aCancel, pulls,
             streamEnd, aStatus>>

StreamResults == {"timed_out", "cancelled", "zero", "missing", "nonzero"}

ActTypeOK ==
    /\ aStep \in {"start", "scan", "help", "image", "files", "act", "ps",
                  "rm", "rmtree", "result", "done"}
    /\ scratch \in BOOLEAN /\ containers \in BOOLEAN /\ dockerDown \in BOOLEAN
    /\ rmFailed \in BOOLEAN /\ aCancel \in BOOLEAN /\ pulls \in BOOLEAN
    /\ streamEnd \in StreamResults \cup {"none", "raised"}
    /\ aStatus \in {"none", "refused", "cancelled", "timed_out", "succeeded",
                    "failed", "raised"}

ActInit ==
    /\ aStep = "start" /\ scratch = FALSE /\ containers = FALSE
    /\ dockerDown = FALSE /\ rmFailed = FALSE /\ aCancel = FALSE /\ pulls \in BOOLEAN
    /\ streamEnd = "none" /\ aStatus = "none"

ActGoes(from, to) == aStep = from /\ aStep' = to

CancelAct ==
    /\ aStep # "done" /\ ~aCancel /\ aCancel' = TRUE
    /\ UNCHANGED <<aStep, scratch, containers, dockerDown, rmFailed, pulls, streamEnd,
                   aStatus>>

\* A refusal or a cancel before there is anything to clean up: no such
\* workflow, one too long or too risky, no act, an act that would mount the
\* docker socket, docker in docker not acknowledged, no image name.
GiveUp ==
    /\ aStep \in {"start", "scan", "help"} /\ aStep' = "done"
    /\ \/ aStatus' = "refused"
       \/ aCancel /\ aStatus' = "cancelled"
    /\ UNCHANGED <<scratch, containers, dockerDown, rmFailed, aCancel, pulls, streamEnd>>

ScanWorkflow ==
    /\ ActGoes("start", "scan") /\ ~aCancel
    /\ UNCHANGED <<scratch, containers, dockerDown, rmFailed, aCancel, pulls, streamEnd,
                   aStatus>>

AskHelp ==
    /\ ActGoes("scan", "help") /\ ~aCancel
    /\ UNCHANGED <<scratch, containers, dockerDown, rmFailed, aCancel, pulls, streamEnd,
                   aStatus>>

MakeScratch ==
    /\ ActGoes("help", IF pulls THEN "files" ELSE "image") /\ scratch' = TRUE
    /\ UNCHANGED <<containers, dockerDown, rmFailed, aCancel, pulls, streamEnd, aStatus>>

ImageThere ==
    /\ ActGoes("image", "files")
    /\ UNCHANGED <<scratch, containers, dockerDown, rmFailed, aCancel, pulls, streamEnd,
                   aStatus>>

\* Within the try: the image is absent, docker does not answer, a cancel, or
\* an exception; the finally clause comes next.
Leave ==
    /\ aStep \in {"image", "files"} /\ aStep' = "ps"
    /\ aStatus' \in {"refused", "raised"} \cup IF aCancel THEN {"cancelled"} ELSE {}
    /\ UNCHANGED <<scratch, containers, dockerDown, rmFailed, aCancel, pulls, streamEnd>>

PushAct ==
    /\ ActGoes("files", "act") /\ ~aCancel /\ containers' \in BOOLEAN
    /\ UNCHANGED <<scratch, dockerDown, rmFailed, aCancel, pulls, streamEnd, aStatus>>

\* act was killed and is not cleaned up after.
ActEndsBroken ==
    /\ aStep = "act"
    /\ streamEnd' \in (StreamResults \ {"cancelled"}) \cup {"raised"}
                        \cup IF aCancel THEN {"cancelled"} ELSE {}
    /\ aStep' = IF streamEnd' \in {"timed_out", "cancelled"} THEN "result" ELSE "ps"
    /\ containers' \in {containers, FALSE}
    /\ UNCHANGED <<scratch, dockerDown, rmFailed, aCancel, pulls, aStatus>>

\* stream_cli returns.  act removes its containers when it is left to.
ActEnds ==
    /\ ActGoes("act", "ps")
    /\ streamEnd' \in (StreamResults \ {"cancelled"}) \cup {"raised"}
                        \cup IF aCancel THEN {"cancelled"} ELSE {}
    /\ containers' \in {containers, FALSE}
    /\ UNCHANGED <<scratch, dockerDown, rmFailed, aCancel, pulls, aStatus>>

\* docker ps by label, without the cancel event and within five seconds.
ListContainers ==
    /\ aStep = "ps"
    /\ \/ aStep' = (IF containers THEN "rm" ELSE "rmtree") /\ UNCHANGED dockerDown
       \/ aStep' = "rmtree" /\ dockerDown' = TRUE
    /\ UNCHANGED <<scratch, containers, rmFailed, aCancel, pulls, streamEnd, aStatus>>

RemoveContainers ==
    /\ ActGoes("rm", "rmtree")
    /\ \/ containers' = FALSE /\ UNCHANGED dockerDown
       \/ dockerDown' = TRUE /\ UNCHANGED containers
    /\ UNCHANGED <<scratch, rmFailed, aCancel, pulls, streamEnd, aStatus>>

RemoveScratch ==
    /\ ActGoes("rmtree", "result")
    /\ \/ scratch' = FALSE /\ UNCHANGED rmFailed
       \/ scratch /\ rmFailed' = TRUE /\ UNCHANGED scratch
    /\ UNCHANGED <<containers, dockerDown, aCancel, pulls, streamEnd, aStatus>>

\* The outcome of a call that left early stands; the others go by the stream.
FromStreamResult ==
    CASE streamEnd = "zero"    -> "succeeded"
      [] streamEnd = "nonzero" -> "failed"
      [] streamEnd = "missing" -> "refused"
      [] streamEnd = "none"    -> aStatus
      [] OTHER                 -> streamEnd

ActResult ==
    /\ ActGoes("result", "done") /\ aStatus' = FromStreamResult
    /\ UNCHANGED <<scratch, containers, dockerDown, rmFailed, aCancel, pulls, streamEnd>>

ActNext ==
    \/ CancelAct \/ GiveUp \/ ScanWorkflow \/ AskHelp \/ MakeScratch
    \/ ImageThere \/ Leave \/ PushAct \/ ActEnds \/ ListContainers
    \/ RemoveContainers \/ RemoveScratch \/ ActResult

----------------------------------------------------------------------------
(* A run leaves no scratch directory unless rmtree failed, and no container *)
(* with its label unless docker itself failed in the clean-up, on every way *)
(* out of run(): refusals, cancels, a timeout, an exception.                *)
ActLeavesNothing ==
    aStep = "done" => (scratch => rmFailed) /\ (containers => dockerDown)
=============================================================================
