-------------------------- MODULE LongCallsProofs --------------------------
(***************************************************************************)
(* That the stdio server runs one call at a time and answers each request  *)
(* once, that no call leaves behind what it started, that what a call says *)
(* of its output is so, and that the pipeline keeps its logs, for any ids, *)
(* any servers and any bounds.                                             *)
(*                                                                         *)
(* A request that was read is answered by the reader or handed to the      *)
(* worker, never both: the id of the frame in hand has no answer yet, nor  *)
(* has the id the worker runs, and the two differ, because a client does   *)
(* not use an id twice.  What a call started is gone because every way out *)
(* of it leads over the step that waits for it, kills it or removes it.    *)
(* A line, a byte of a console or a write below _diag is somewhere: each   *)
(* of these invariants is a sum over the places it may be in.  A stamp     *)
(* names one run, and the run at work holds the lock, so its log can only  *)
(* be without a record while it is at work, or when it was torn.           *)
(***************************************************************************)
EXTENDS MCLongCalls, SequenceTheorems, FiniteSetTheorems, WellFoundedInduction, TLAPS

\* The part of the type that the proof needs.
ServerTypes ==
    /\ inbox \in Seq(Frame)
    /\ frame \in {{}} \cup {{f} : f \in Frame}
    /\ flight \in Ids \cup {NoCall} /\ cancelled \in BOOLEAN
    /\ worker \in {"none", "running", "answered"}
    /\ answers \in [Ids -> Nat] /\ taken \subseteq Ids
    /\ reader \in {"select", "blind", "dispatch", "ended"}

IsRequest(k) == inbox[k].kind \in Requests

\* The requests that wait have ids of their own.
InboxIsNew ==
    \A k \in 1 .. Len(inbox) : IsRequest(k) =>
        /\ inbox[k].id \notin taken
        /\ \A j \in 1 .. Len(inbox) : IsRequest(j) /\ inbox[j].id = inbox[k].id => j = k

\* The request in hand was read and has no answer; no worker runs it.
InHand ==
    \A f \in frame : f.kind \in Requests =>
        /\ f.id \in taken /\ answers[f.id] = 0
        /\ worker = "running" => flight # f.id

\* The call that runs was read and has no answer.
Running ==
    worker = "running" => flight \in taken /\ answers[flight] = 0

OnlyTaken == \A i \in Ids : answers[i] <= 1 /\ (i \notin taken => answers[i] = 0)

ServerInv ==
    /\ ServerTypes /\ InboxIsNew /\ InHand /\ Running /\ OnlyTaken
    /\ GateHasWorker /\ ShutdownCancels

\* One answer more.
AnswersOnly(i) ==
    /\ answers' \in [Ids -> Nat] /\ answers'[i] = 1
    /\ \A j \in Ids \ {i} : answers'[j] = answers[j]

LEMMA FirstAnswer ==
  ASSUME ServerInv, NEW i \in Ids, answers[i] = 0, Answer(i)
  PROVE  AnswersOnly(i)
<1>1. answers \in [Ids -> Nat] /\ answers' = [answers EXCEPT ![i] = answers[i] + 1]
  BY DEF ServerInv, ServerTypes, Answer
<1> QED
  BY <1>1 DEF AnswersOnly

LEMMA ServerInitInv == ServerInit => ServerInv
<1> SUFFICES ASSUME ServerInit PROVE ServerInv
  OBVIOUS
<1>1. inbox = <<>> /\ inbox \in Seq(Frame) /\ Len(inbox) = 0
  BY DEF ServerInit
<1>2. InboxIsNew
  BY <1>1 DEF InboxIsNew
<1>3. ServerTypes
  BY <1>1 DEF ServerInit, ServerTypes
<1>4. InHand /\ Running /\ OnlyTaken /\ GateHasWorker /\ ShutdownCancels
  BY DEF ServerInit, InHand, Running, OnlyTaken, GateHasWorker, ShutdownCancels
<1> QED
  BY <1>2, <1>3, <1>4 DEF ServerInv

\* A request is put behind those that wait: its id is new to all of them.
LEMMA ClientWritesKeeps ==
  ASSUME ServerInv, NEW f \in Frame, ClientWrites(f)
  PROVE  ServerInv'
<1>1. /\ inbox \in Seq(Frame) /\ inbox' = Append(inbox, f)
      /\ UNCHANGED <<reader, frame, flight, cancelled, worker, main, answers, taken, fault>>
  BY DEF ClientWrites, ServerInv, ServerTypes
<1>2. /\ inbox' \in Seq(Frame) /\ Len(inbox') = Len(inbox) + 1 /\ Len(inbox) \in Nat
      /\ \A k \in 1 .. Len(inbox) : inbox'[k] = inbox[k]
      /\ inbox'[Len(inbox) + 1] = f
  BY <1>1
<1>3. f.kind \in Requests =>
        /\ f.id \notin taken
        /\ \A k \in 1 .. Len(inbox) : inbox[k].kind \in Requests => inbox[k].id # f.id
  BY <1>2 DEF ClientWrites, Used
<1>4. \A k \in 1 .. Len(inbox') : k \in 1 .. Len(inbox) \/ k = Len(inbox) + 1
  BY <1>2
<1>5. InboxIsNew'
  BY <1>1, <1>2, <1>3, <1>4 DEF ServerInv, InboxIsNew, IsRequest
<1>6. (ServerTypes /\ InHand /\ Running /\ OnlyTaken /\ GateHasWorker /\ ShutdownCancels)'
  BY <1>1, <1>2 DEF ServerInv, ServerTypes, InHand, Running, OnlyTaken, GateHasWorker,
                    ShutdownCancels
<1> QED
  BY <1>5, <1>6 DEF ServerInv

\* The first frame is taken: its id is in hand now, and no other frame has it.
LEMMA TakeFrameKeeps ==
  ASSUME ServerInv, TakeFrame
  PROVE  ServerInv'
<1> DEFINE f == Head(inbox)
<1>1. /\ inbox \in Seq(Frame) /\ inbox # <<>> /\ frame' = {f} /\ inbox' = Tail(inbox)
      /\ taken' = (IF f.kind \in Requests THEN taken \cup {f.id} ELSE taken)
      /\ reader' = "dispatch"
      /\ UNCHANGED <<flight, cancelled, worker, main, answers, fault>>
  BY DEF TakeFrame, ServerInv, ServerTypes
<1>2. /\ f = inbox[1] /\ f \in Frame /\ f.id \in Ids /\ 1 \in 1 .. Len(inbox)
      /\ inbox' \in Seq(Frame) /\ Len(inbox') = Len(inbox) - 1 /\ Len(inbox) \in Nat
      /\ \A k \in 1 .. Len(inbox') : inbox'[k] = inbox[k + 1]
  <2>1. Len(inbox) \in Nat \ {0}
    BY <1>1, EmptySeq
  <2>2. f = inbox[1] /\ f \in Frame /\ 1 \in 1 .. Len(inbox)
    BY <1>1, <2>1
  <2>3. f.id \in Ids
    BY <2>2 DEF Frame
  <2>4. /\ inbox' \in Seq(Frame) /\ Len(inbox') = Len(inbox) - 1
        /\ \A k \in 1 .. Len(inbox') : inbox'[k] = inbox[k + 1]
    BY <1>1, <2>1
  <2> QED
    BY <2>1, <2>2, <2>3, <2>4
<1>3. \A k \in 1 .. Len(inbox') : k + 1 \in 1 .. Len(inbox) /\ k + 1 # 1
  BY <1>2
<1>4. f.kind \in Requests => f.id \notin taken
  BY <1>2 DEF ServerInv, InboxIsNew, IsRequest
<1>5. InboxIsNew'
  <2> SUFFICES ASSUME NEW k \in 1 .. Len(inbox'), IsRequest(k)'
               PROVE  /\ inbox'[k].id \notin taken'
                      /\ \A j \in 1 .. Len(inbox') :
                            IsRequest(j)' /\ inbox'[j].id = inbox'[k].id => j = k
    BY DEF InboxIsNew
  <2>1. /\ IsRequest(k + 1) /\ inbox'[k].id = inbox[k + 1].id
        /\ inbox[k + 1].id \notin taken
    BY <1>2, <1>3 DEF ServerInv, InboxIsNew, IsRequest
  <2>2. f.kind \in Requests => f.id # inbox[k + 1].id
    BY <1>2, <1>3, <2>1 DEF ServerInv, InboxIsNew, IsRequest
  <2>3. \A j \in 1 .. Len(inbox') :
           IsRequest(j)' /\ inbox'[j].id = inbox'[k].id => j + 1 = k + 1
    BY <1>2, <1>3, <2>1 DEF ServerInv, InboxIsNew, IsRequest
  <2> QED
    BY <1>1, <2>1, <2>2, <2>3
<1>6. ServerTypes'
  BY <1>1, <1>2 DEF ServerInv, ServerTypes
<1>7. (InHand /\ Running /\ OnlyTaken)'
  BY <1>1, <1>2, <1>4 DEF ServerInv, ServerTypes, InHand, Running, OnlyTaken
<1>8. (GateHasWorker /\ ShutdownCancels)'
  BY <1>1 DEF ServerInv, GateHasWorker, ShutdownCancels
<1> QED
  BY <1>5, <1>6, <1>7, <1>8 DEF ServerInv

\* The reader deals with the frame in hand.
LEMMA DispatchKeeps ==
  ASSUME ServerInv, DispatchOther \/ DispatchAnswered \/ StartCall \/ StartFails
  PROVE  ServerInv'
<1>1. /\ reader = "dispatch" /\ frame' = {} /\ reader' \in {"select", "blind"}
      /\ UNCHANGED <<inbox, main, taken>>
  BY DEF DispatchOther, DispatchAnswered, StartCall, StartFails, BackToRead
<1>2. \A f \in frame : f \in Frame /\ f.id \in Ids /\ f.kind \in Kinds /\ f.id # NoCall
  BY ServerAssumption DEF ServerInv, ServerTypes, Frame
<1> USE DEF ServerInv, ServerTypes, InHand, Running, OnlyTaken, GateHasWorker, Requests
<1>3. InboxIsNew' /\ ShutdownCancels' /\ InHand'
  BY <1>1 DEF InboxIsNew, IsRequest, ShutdownCancels
<1>4. CASE DispatchOther
  BY <1>1, <1>3, <1>4 DEF DispatchOther
<1>5. CASE DispatchAnswered
  <2>1. PICK f \in frame : f.kind \in Requests /\ Answer(f.id)
    BY <1>5 DEF DispatchAnswered
  <2>2. /\ UNCHANGED <<flight, cancelled, worker, fault>>
        /\ f.id \in taken /\ f.id \in Ids /\ answers[f.id] = 0
        /\ worker = "running" => flight # f.id
    BY <1>2, <1>5, <2>1 DEF DispatchAnswered
  <2>3. AnswersOnly(f.id)
    BY <2>1, <2>2, FirstAnswer
  <2> QED
    BY <1>1, <1>3, <2>2, <2>3 DEF AnswersOnly
<1>6. CASE StartCall
  <2>1. PICK f \in frame : f.kind = "call" /\ flight' = f.id
    BY <1>6 DEF StartCall
  <2>2. /\ UNCHANGED <<answers, fault>> /\ cancelled' = FALSE /\ worker' = "running"
        /\ flight' = f.id /\ f.id \in taken /\ f.id \in Ids /\ f.id # NoCall
        /\ answers[f.id] = 0
    BY <1>2, <1>6, <2>1 DEF StartCall
  <2> QED
    BY <1>1, <1>3, <2>2
<1>7. CASE StartFails
  <2>1. PICK f \in frame : f.kind = "call" /\ flight' = f.id /\ Answer(f.id)
    BY <1>7 DEF StartFails
  <2>2. /\ UNCHANGED worker /\ cancelled' = FALSE /\ fault' = "start" /\ flight = NoCall
        /\ flight' = f.id /\ f.id \in taken /\ f.id \in Ids /\ f.id # NoCall
        /\ answers[f.id] = 0 /\ worker # "running"
    BY <1>2, <1>7, <2>1, ServerAssumption DEF StartFails
  <2>3. AnswersOnly(f.id)
    BY <2>1, <2>2, FirstAnswer
  <2>4. ServerTypes'
    BY <1>1, <2>2, <2>3 DEF AnswersOnly
  <2>5. Running' /\ GateHasWorker'
    BY <1>1, <2>2
  <2>6. OnlyTaken'
    BY <1>1, <2>2, <2>3 DEF AnswersOnly
  <2> QED
    BY <1>3, <2>4, <2>5, <2>6
<1> QED
  BY <1>4, <1>5, <1>6, <1>7

\* The worker answers its call, and gives the gate back.
LEMMA WorkerKeeps ==
  ASSUME ServerInv, RunCall \/ FinishCall
  PROVE  ServerInv'
<1> USE ServerAssumption DEF ServerInv, ServerTypes, InHand, Running, OnlyTaken,
        GateHasWorker, InboxIsNew, IsRequest, ShutdownCancels
<1>1. CASE RunCall
  <2>1. /\ worker = "running" /\ worker' = "answered" /\ flight \in Ids
        /\ answers[flight] = 0 /\ flight \in taken /\ Answer(flight)
        /\ UNCHANGED <<inbox, reader, frame, flight, cancelled, main, taken, fault>>
    BY <1>1 DEF RunCall
  <2>2. AnswersOnly(flight)
    BY <2>1, FirstAnswer
  <2> QED
    BY <2>1, <2>2 DEF AnswersOnly
<1>2. CASE FinishCall
  BY <1>2 DEF FinishCall
<1> QED
  BY <1>1, <1>2

\* The main thread, the end of the input, and the steps that touch no call.
LEMMA MainKeeps ==
  ASSUME ServerInv,
         \/ ClientCloses \/ ReadFails \/ EndOfInput \/ MainNext \/ Signal \/ SecondSignal
         \/ UNCHANGED serverVars
  PROVE  ServerInv'
<1>1. /\ UNCHANGED <<inbox, frame, flight, answers, taken>>
      /\ cancelled' \in BOOLEAN /\ reader' \in {"select", "blind", "dispatch", "ended"}
      /\ worker' \in {worker, "none"}
      /\ worker' # worker => main' = "exited"
      /\ main = "exited" => main' = "exited"
      /\ fault' = fault \/ fault = "none" \/ main' = "exited"
  BY DEF ClientCloses, ReadFails, EndOfInput, MainNext, Joined, WaitOver, CloseWake, Exit,
         Signal, SecondSignal, ShutdownWait, CancelCurrent, serverVars, ServerInv, ServerTypes
<1>2. ServerTypes' /\ InboxIsNew' /\ OnlyTaken'
  BY <1>1 DEF ServerInv, ServerTypes, InboxIsNew, IsRequest, OnlyTaken
<1>3. InHand' /\ Running'
  BY <1>1 DEF ServerInv, InHand, Running
<1>4. GateHasWorker'
  BY <1>1 DEF ServerInv, GateHasWorker
<1>5. ShutdownCancels'
  BY DEF ClientCloses, ReadFails, EndOfInput, MainNext, Joined, WaitOver, CloseWake, Exit,
         Signal, SecondSignal, ShutdownWait, CancelCurrent, serverVars, ServerInv,
         ServerTypes, ShutdownCancels
<1> QED
  BY <1>2, <1>3, <1>4, <1>5 DEF ServerInv

LEMMA ServerStepKeeps ==
  ASSUME ServerInv, [ServerNext]_serverVars
  PROVE  ServerInv'
BY ClientWritesKeeps, TakeFrameKeeps, DispatchKeeps, WorkerKeeps, MainKeeps
   DEF ServerNext, ReaderNext, RefuseCall

----------------------------------------------------------------------------
(* What the calls leave behind.                                             *)

\* stream_cli: the pipes end only when nobody holds them, and past a kill
\* there is no child and nobody of its group.
StreamInv ==
    /\ pipes = "ended" => holder = "none"
    /\ at \in {"join", "drain", "last"} =>
         pipes = "ended" \/ (child = "gone" /\ holder # "group")
    /\ at = "loop" => verdict = "none"
    /\ at \in {"join", "drain", "last"} /\ verdict # "none" =>
         child = "gone" /\ holder # "group"
    /\ NothingLeftRunning

LEMMA StreamKeeps ==
  ASSUME StreamInv, [StreamNext]_streamVars
  PROVE  StreamInv'
<1> USE DEF StreamInv, NothingLeftRunning
<1>1. CASE UNCHANGED streamVars
  BY <1>1 DEF streamVars
<1>2. CASE Line \/ SecondPasses \/ DeadlinePasses \/ Cancelled \/ TakeLine \/ FlushIdle \/ DrainLine
  BY <1>2 DEF Line, SecondPasses, DeadlinePasses, Cancelled, TakeLine, FlushIdle, DrainLine,
              SinkAdd, procVars
<1>6. CASE SinkRaises
  BY <1>6 DEF SinkRaises, procVars
<1>3. CASE ChildExits \/ HolderLetsGo \/ PipesEnd \/ \E kind \in {"group", "escaped"} : ChildForks(kind)
  BY <1>3 DEF ChildExits, HolderLetsGo, PipesEnd, ChildForks, procVars
<1>4. CASE LoopEnds \/ JoinReaders \/ Drained \/ \E v \in {"cancel", "timeout"} : Stop(v)
  BY <1>4 DEF LoopEnds, JoinReaders, Drained, Stop, procVars
<1>5. CASE Kill \/ Return
  BY <1>5 DEF Kill, Return, KillGroup
<1> QED
  BY <1>1, <1>2, <1>3, <1>4, <1>5, <1>6 DEF StreamNext, CallerNext

\* The tools: a handler at work has not answered, and only a memory update
\* has written before it answers.
ToolInv ==
    /\ handlerAt # "idle" => reply = "none"
    /\ handlerAt # "idle" /\ wrote # {} => tool = "memory_update" /\ handlerAt = "checked"
    /\ KilledLeavesNothing /\ ToolsKeepOut

LEMMA ToolKeeps ==
  ASSUME ToolInv, [ToolNext]_toolVars
  PROVE  ToolInv'
<1> USE DEF ToolInv, KilledLeavesNothing, ToolsKeepOut, PytestYieldsToPipeline,
        ReadersWriteNothing, Readers, Knowing, worldVars
<1>1. CASE UNCHANGED toolVars
  BY <1>1 DEF toolVars
<1>2. CASE PipelineLocks \/ PipelineEnds \/ FilesChange \/ CommandExits \/ LeftoverEnds
           \/ CancelCall \/ TimeIsUp \/ \E t \in Tools : CallTool(t)
  BY <1>2 DEF PipelineLocks, PipelineEnds, FilesChange, CommandExits, LeftoverEnds,
              CancelCall, TimeIsUp, CallTool, callVars
<1>3. CASE ResolvePair \/ AgentEscapes \/ ValidateHandoff \/ StateSnapshot \/ StateAppendDelta
           \/ StateMetricsLog \/ MemoryReads \/ MemoryUpdate \/ AuditUpdate
  BY <1>3 DEF ResolvePair, AgentEscapes, ContainedAgent, ValidateHandoff, StateSnapshot,
              StateAppendDelta, StateMetricsLog, MemoryReads, MemoryUpdate, AuditUpdate,
              Handles, Answers, GoesOn, callVars
<1>4. CASE KnowledgeFile \/ ReadKnowledge \/ PlaybooksBlocked \/ ReadPlaybooks \/ ProxyHealth
           \/ ProxyStats \/ IntegrationsStatus \/ PytestArgs
  BY <1>4 DEF KnowledgeFile, ReadKnowledge, PlaybooksBlocked, ReadPlaybooks, ProxyHealth,
              ProxyStats, IntegrationsStatus, PytestArgs, Playing, Handles, Answers, GoesOn, callVars
<1>5. CASE GitToplevel \/ GitScript \/ PeekPipeline \/ DockerCompose \/ SpawnEnds
  BY <1>5 DEF GitToplevel, GitScript, PeekPipeline, DockerCompose, SpawnEnds, SpawnOr, Start,
              Handles, Watching, Answers, GoesOn, callVars
<1>6. CASE KillSpawn
  <2>1. /\ handlerAt \in {"toplevel", "script", "run"} /\ cmd' = "gone" /\ leftover' = FALSE
        /\ handlerAt' = "idle" /\ UNCHANGED <<tool, wrote>>
    BY <1>6, Zenon DEF KillSpawn, Watching
  <2>2. wrote = {}
    BY <2>1
  <2> QED
    BY <2>1, <2>2
<1> QED
  BY <1>1, <1>2, <1>3, <1>4, <1>5, <1>6 DEF ToolNext, HandlerNext

\* The self-hosted runner: run.sh is at work only while its stream thread is,
\* or when that thread has raised, and the call joins it before it goes on.
HostedInv ==
    /\ streamed \notin {"running", "raised"} => runsh # "running"
    /\ hAt = "start" => runsh = "none" /\ streamed = "none"
    /\ hAt \in {"drain", "read"} /\ streamed # "raised" => runsh # "running"
    /\ RunnerEndsWithCall

LEMMA HostedKeeps ==
  ASSUME HostedInv, [HostedNext]_hostedVars
  PROVE  HostedInv'
<1> USE DEF HostedInv, RunnerEndsWithCall, runVars
<1>1. CASE UNCHANGED hostedVars
  BY <1>1 DEF hostedVars
<1>2. CASE LogWritten \/ DiagRemoved \/ RunShExits \/ LetsGo
           \/ \E c \in {"cancelled", "timed_out"} : HostedDue(c) \/ StreamCut(c)
  BY <1>2 DEF LogWritten, DiagRemoved, RunShExits, LetsGo, HostedDue, StreamCut
<1>3. CASE StreamEnds \/ StreamRaises \/ RefuseHosted \/ WatchListener \/ StartRunner
           \/ Sample \/ SampleRaises
  BY <1>3 DEF StreamEnds, StreamRaises, RefuseHosted, WatchListener, StartRunner, Sample,
              SampleRaises, Finish
<1>4. CASE StopWatching \/ JoinRunner \/ LastDrain \/ ReadDiag
  BY <1>4 DEF StopWatching, JoinRunner, LastDrain, ReadDiag, Finish
<1> QED
  BY <1>1, <1>2, <1>3, <1>4 DEF HostedNext

\* act: what there is to clean up is there only where the clean-up comes next.
ActInv ==
    /\ scratch /\ aStep \notin {"image", "files", "act", "ps", "rm", "rmtree"} => rmFailed
    /\ containers /\ aStep \notin {"act", "ps", "rm"} => dockerDown

LEMMA ActKeeps ==
  ASSUME ActInv, [ActNext]_actVars
  PROVE  ActInv'
<1> USE DEF ActInv
<1>1. CASE UNCHANGED actVars
  BY <1>1 DEF actVars
<1>2. CASE CancelAct \/ GiveUp \/ ScanWorkflow \/ AskHelp \/ MakeScratch \/ ImageThere \/ Leave
  BY <1>2 DEF CancelAct, GiveUp, ScanWorkflow, AskHelp, MakeScratch, ImageThere, Leave, ActGoes
<1>3. CASE PushAct \/ RemoveContainers \/ RemoveScratch \/ ActResult
  BY <1>3 DEF PushAct, RemoveContainers, RemoveScratch, ActResult, ActGoes
<1>4. CASE ActEnds
  <2>1. aStep' = "ps"
    BY <1>4 DEF ActEnds, ActGoes
  <2> QED
    BY <2>1
<1>5. CASE ListContainers
  <2>1. \/ containers /\ aStep' = "rm" /\ UNCHANGED dockerDown
        \/ ~containers /\ aStep' = "rmtree" /\ UNCHANGED dockerDown
        \/ aStep' = "rmtree" /\ dockerDown' = TRUE
    BY <1>5 DEF ListContainers
  <2>2. UNCHANGED <<scratch, containers>>
    BY <1>5 DEF ListContainers
  <2> QED
    BY <2>1, <2>2
<1> QED
  BY <1>1, <1>2, <1>3, <1>4, <1>5 DEF ActNext

\* Jenkins: the number of a build is known only past the queue, and a status
\* is there only past the handler, which has sent the stop, past the result of
\* a build that is over, or past a failure that was no time out and no cancel.
JenkinsInv ==
    /\ step \in {"start", "crumb", "trigger", "queue"} => ~number
    /\ step \notin {"report", "done"} => status = "none"
    /\ step \in {"report", "done"} /\ number =>
         stopSent \/ item \in {"built", "aborted"} \/ status \in {"refused", "raised"}

LEMMA JenkinsKeeps ==
  ASSUME JenkinsInv, [JenkinsNext]_jenkinsVars
  PROVE  JenkinsInv'
<1> USE DEF JenkinsInv, Goes, theirs, tailed
<1>1. CASE UNCHANGED jenkinsVars
  BY <1>1 DEF jenkinsVars
<1>2. CASE BuildStarts \/ ItemDropped \/ LogGrows \/ BuildEnds
           \/ \E c \in {"cancelled", "timed_out"} : ComesDue(c)
  BY <1>2 DEF BuildStarts, ItemDropped, LogGrows, BuildEnds, ComesDue, Controller
<1>3. CASE RefuseEarly \/ RunFile \/ ProbeController \/ LoadCrumb \/ Trigger \/ TriggerLost
  BY <1>3 DEF RefuseEarly, RunFile, ProbeController, LoadCrumb, Trigger, TriggerLost
<1>4. CASE PollQueue \/ ReadResult \/ Report
  BY <1>4 DEF PollQueue, ReadResult, Report
<1>5. CASE TailBuild
  <2>1. PICK b \in Body : TailResponse(b)
    BY <1>5 DEF TailBuild
  <2>2. step = "tail" /\ step' \in {"tail", "result"} /\ UNCHANGED <<number, status, stopSent>>
    BY <1>5, <2>1 DEF TailBuild, TailResponse
  <2> QED
    BY <2>2
<1>6. CASE QueueTruncated \/ RaiseDue \/ RequestFails
  BY <1>6 DEF QueueTruncated, RaiseDue, RequestFails, Raise, InFlight
<1>7. CASE Handle
  <2>1. CASE cause \in {"cancelled", "timed_out"} /\ status' = cause /\ StopBuild
    BY <1>7, <2>1 DEF Handle, StopBuild
  <2>2. CASE status' = "refused"
    BY <1>7, <2>2 DEF Handle
  <2> QED
    BY <1>7, <2>1, <2>2 DEF Handle
<1>8. CASE TailRaises
  BY <1>8 DEF TailRaises
<1> QED
  BY <1>1, <1>2, <1>3, <1>4, <1>5, <1>6, <1>7, <1>8 DEF JenkinsNext, CallNext

LeavesNothing == StreamInv /\ ToolInv /\ HostedInv /\ ActInv /\ JenkinsInv

LEMMA LeavesNothingInit == Init => LeavesNothing
BY DEF Init, StreamInit, ToolInit, HostedInit, ActInit, JenkinsInit, LeavesNothing,
       StreamInv, NothingLeftRunning, ToolInv, KilledLeavesNothing, ToolsKeepOut,
       PytestYieldsToPipeline, ReadersWriteNothing, HostedInv,
       RunnerEndsWithCall, ActInv, JenkinsInv

----------------------------------------------------------------------------
(* What the calls report.                                                   *)

\* stream_cli: where each line is.  A call that was not cut short goes on only
\* when the pipes have ended, and ends only with an empty queue.
StreamLines ==
    /\ made \in Nat /\ queued \in Nat /\ lost \in Nat
    /\ seenLines \in Nat /\ notified \in Nat /\ dropped \in Nat
    /\ made <= MaxLines /\ queued <= QueueCap
    /\ at # "raised" => made = seenLines + queued + lost
    /\ seenLines + queued + lost <= made
    /\ at # "done" => notified + dropped = seenLines
    /\ at = "done" => notified + dropped <= seenLines + lost
    /\ at = "done" /\ verdict = "none" => notified + dropped = seenLines + lost
    /\ pending => dropped > 0
    /\ at = "kill" => verdict # "none"
    /\ at \notin {"loop", "raised"} /\ verdict = "none" => pipes = "ended"
    /\ at \in {"last", "done"} /\ verdict = "none" => queued = 0

LEMMA StreamLinesKeep ==
  ASSUME StreamLines, [StreamNext]_streamVars
  PROVE  StreamLines'
<1> USE StreamAssumption DEF StreamLines, procVars, sinkVars, envVars
<1>1. CASE UNCHANGED streamVars
  BY <1>1 DEF streamVars
<1>2. CASE Line
  <2>1. /\ UNCHANGED <<seenLines, notified, dropped, pending, at, verdict, pipes>>
        /\ made < MaxLines /\ made' = made + 1 /\ pipes = "open"
    BY <1>2 DEF Line
  <2>2. QueueCap \in Nat /\ QueueCap >= 1
    OBVIOUS
  <2>3. \/ queued' = queued + 1 /\ lost' = lost /\ (queued = 0 \/ queued + 1 <= QueueCap)
        \/ queued' = queued /\ lost' = lost + 1
    BY <1>2, Zenon DEF Line, Put
  <2>4. /\ made' \in Nat /\ queued' \in Nat /\ lost' \in Nat
        /\ made' <= MaxLines /\ queued' <= QueueCap
        /\ at # "raised" => made' = seenLines + queued' + lost'
        /\ seenLines + queued' + lost' <= made'
    <3>1. MaxLines \in Nat
      OBVIOUS
    <3> QED
      BY <2>1, <2>2, <2>3, <3>1
  <2>5. at \in {"last", "done"} => verdict # "none"
    BY <2>1
  <2>6. at = "done" => notified + dropped <= seenLines + lost'
    BY <2>3
  <2>7. /\ seenLines' \in Nat /\ notified' \in Nat /\ dropped' \in Nat
        /\ at' # "done" => notified' + dropped' = seenLines'
        /\ at' = "done" => notified' + dropped' <= seenLines' + lost'
        /\ pending' => dropped' > 0
    BY <2>1, <2>6
  <2>8. /\ at' = "done" /\ verdict' = "none" => notified' + dropped' = seenLines' + lost'
        /\ at' = "kill" => verdict' # "none"
        /\ at' \notin {"loop", "raised"} /\ verdict' = "none" => pipes' = "ended"
        /\ at' \in {"last", "done"} /\ verdict' = "none" => queued' = 0
    BY <2>1, <2>5
  <2>9. /\ at' # "raised" => made' = seenLines' + queued' + lost'
        /\ seenLines' + queued' + lost' <= made'
    BY <2>1, <2>4
  <2> QED
    BY <2>4, <2>7, <2>8, <2>9
<1>3. CASE SecondPasses \/ DeadlinePasses \/ Cancelled
  BY <1>3 DEF SecondPasses, DeadlinePasses, Cancelled
<1>4. CASE ChildExits \/ HolderLetsGo \/ PipesEnd \/ \E kind \in {"group", "escaped"} : ChildForks(kind)
  BY <1>4 DEF ChildExits, HolderLetsGo, PipesEnd, ChildForks
<1>5. CASE SinkAdd /\ at \in {"loop", "drain"}
  BY <1>5 DEF SinkAdd, SinkNotify
<1>6. CASE FlushIdle \/ Drained
  BY <1>6 DEF FlushIdle, Drained, FlushOne
<1>7. CASE LoopEnds \/ JoinReaders \/ Kill \/ \E v \in {"cancel", "timeout"} : Stop(v)
  BY <1>7 DEF LoopEnds, JoinReaders, Kill, KillGroup, Stop
<1>8. CASE Return
  BY <1>8 DEF Return, KillGroup
<1>9. CASE SinkRaises
  BY <1>9 DEF SinkRaises
<1> QED
  BY <1>1, <1>2, <1>3, <1>4, <1>5, <1>6, <1>7, <1>8, <1>9
     DEF StreamNext, CallerNext, TakeLine, DrainLine

LEMMA StreamAccounts == StreamLines => LinesAccounted
BY DEF StreamLines, LinesAccounted

\* Jenkins: what was given to the sink ends where the next range begins,
\* unless a range was dropped, and the result is read of a build that is over.
JenkinsLog ==
    /\ log \in Nat /\ offset \in Nat /\ got \in Nat /\ holed \in BOOLEAN
    /\ got <= offset /\ offset <= log /\ log <= LogMax
    /\ ~holed => got = offset
    /\ step \in {"tail", "result"} => item \in {"building", "built", "aborted"}
    /\ step = "result" => item # "building" /\ offset = log

LEMMA TailResponseKeeps ==
  ASSUME JenkinsLog, NEW b \in Body, TailResponse(b), step = "tail", UNCHANGED theirs
  PROVE  JenkinsLog'
<1> USE JenkinsAssumption
<1>1. /\ LogMax \in Nat /\ log \in Nat /\ offset \in Nat /\ got \in Nat /\ ReadMax \in Nat \ {0}
      /\ got <= offset /\ offset <= log /\ log <= LogMax
      /\ item \in {"building", "built", "aborted"}
      /\ UNCHANGED <<item, log>>
  BY DEF JenkinsLog, theirs
<1>2. b \in Nat /\ offset + b <= log
  <2>1. CASE b = 0
    BY <1>1, <2>1
  <2>2. CASE b = IF log - offset < ReadMax THEN log - offset ELSE ReadMax
    BY <1>1, <2>2
  <2> QED
    BY <2>1, <2>2 DEF Body, Offered
<1>3. /\ NextStart(b) \in {log, offset + b}
      /\ NextStart(b) = offset => b = 0 /\ log = offset
  BY <1>1, <1>2 DEF NextStart
<1>4. /\ got' = got + b /\ offset' = NextStart(b)
      /\ holed' = (holed \/ NextStart(b) > offset + b)
      /\ step' \in {"tail", "result"}
      /\ step' = "result" => item # "building" /\ NextStart(b) = log
  BY <1>1, <1>2, <1>3 DEF TailResponse
<1>5. holed' \in BOOLEAN /\ (~holed' => got' = offset')
  <2>1. holed' \in BOOLEAN
    BY <1>4
  <2>2. ~holed' => ~holed /\ ~(NextStart(b) > offset + b)
    BY <1>4
  <2>3. ~holed => got = offset
    BY DEF JenkinsLog
  <2> QED
    BY <1>1, <1>2, <1>3, <1>4, <2>1, <2>2, <2>3
<1>6. got' \in Nat /\ offset' \in Nat /\ got' <= offset' /\ offset' <= log
  BY <1>1, <1>2, <1>3, <1>4
<1> QED
  BY <1>1, <1>4, <1>5, <1>6 DEF JenkinsLog

LEMMA JenkinsLogKeeps ==
  ASSUME JenkinsLog, [JenkinsNext]_jenkinsVars
  PROVE  JenkinsLog'
<1> USE JenkinsAssumption DEF Goes, theirs, tailed
<1>1. CASE UNCHANGED jenkinsVars
  BY <1>1 DEF JenkinsLog, jenkinsVars
<1>2. CASE BuildStarts \/ ItemDropped \/ LogGrows \/ BuildEnds
           \/ \E c \in {"cancelled", "timed_out"} : ComesDue(c)
  BY <1>2 DEF JenkinsLog, BuildStarts, ItemDropped, LogGrows, BuildEnds, ComesDue, Controller
<1>3. CASE RefuseEarly \/ RunFile \/ ProbeController \/ LoadCrumb \/ Trigger \/ TriggerLost
  BY <1>3 DEF JenkinsLog, RefuseEarly, RunFile, ProbeController, LoadCrumb, Trigger, TriggerLost
<1>4. CASE PollQueue \/ ReadResult \/ Report
  BY <1>4 DEF JenkinsLog, PollQueue, ReadResult, Report
<1>5. CASE TailBuild
  BY <1>5, TailResponseKeeps DEF TailBuild
<1>6. CASE QueueTruncated \/ RaiseDue \/ RequestFails
  BY <1>6 DEF JenkinsLog, QueueTruncated, RaiseDue, RequestFails, Raise, InFlight
<1>7. CASE Handle \/ TailRaises
  BY <1>7 DEF JenkinsLog, Handle, StopBuild, CancelQueueItem, TailRaises
<1> QED
  BY <1>1, <1>2, <1>3, <1>4, <1>5, <1>6, <1>7 DEF JenkinsNext, CallNext

\* self_hosted: what was noticed is in a copy, or it is the event that waits;
\* so a drain leaves a copy that is as new, and later drains bring newer ones.
HostedDiag ==
    /\ {writes, diag, events, noticed, kept, drained, tail} \subseteq 0 .. MaxWrites
    /\ diag <= writes /\ noticed <= writes /\ kept <= writes /\ drained <= noticed
    /\ events > 0 => events = noticed
    /\ events = 0 => noticed <= kept
    /\ ~(conf.ephemeral /\ conf.fan) => noticed = 0
    /\ hAt \notin {"read", "done"} => drained = 0
    /\ hAt = "read" => drained <= kept
    /\ DeletedDiagIsKept

LEMMA HostedDiagKeeps ==
  ASSUME HostedDiag, [HostedNext]_hostedVars
  PROVE  HostedDiag'
<1> USE HostedAssumption DEF HostedDiag, DeletedDiagIsKept, runVars, diagVars, watchVars
<1>1. CASE UNCHANGED hostedVars
  BY <1>1 DEF hostedVars
<1>2. CASE LogWritten \/ DiagRemoved
  BY <1>2 DEF LogWritten, DiagRemoved
<1>3. CASE RunShExits \/ LetsGo \/ StreamRaises \/ \E c \in {"cancelled", "timed_out"} : HostedDue(c)
  BY <1>3 DEF RunShExits, LetsGo, StreamRaises, HostedDue
<1>4. CASE StreamEnds \/ \E c \in {"cancelled", "timed_out"} : StreamCut(c)
  BY <1>4 DEF StreamEnds, StreamCut, Drain
<1>5. CASE RefuseHosted \/ WatchListener \/ StartRunner
  BY <1>5 DEF RefuseHosted, WatchListener, StartRunner, Finish
<1>6. CASE Sample
  BY <1>6 DEF Sample, Drain
<1>7. CASE SampleRaises \/ StopWatching \/ JoinRunner
  BY <1>7 DEF SampleRaises, StopWatching, JoinRunner, Finish
<1>8. CASE LastDrain
  BY <1>8 DEF LastDrain, Drain
<1>9. CASE ReadDiag
  BY <1>9 DEF ReadDiag, Finish
<1> QED
  BY <1>1, <1>2, <1>3, <1>4, <1>5, <1>6, <1>7, <1>8, <1>9 DEF HostedNext

\* The probe: what is listed, fresh or grown now was so during the probe, and
\* each look that was passed has left its witness.
ProbeSeen ==
    /\ listenerUp \in BOOLEAN /\ wasUp \in BOOLEAN /\ wasFresh \in BOOLEAN
    /\ grown \in BOOLEAN /\ listed \in BOOLEAN
    /\ asked = "none" => probeAt = "idle" /\ code = "none"
    /\ asked # "none" =>
         /\ listenerUp => wasUp
         /\ listed => wasUp
         /\ runnerLog = "fresh" => wasFresh
         /\ grown => wasFresh
    /\ probeAt \in {"docker", "act"} => asked = "act"
    /\ probeAt \in {"get", "join"} => asked = "jenkins"
    /\ probeAt \in HostedSteps => asked = "self_hosted"
    /\ probeAt \in {"compare", "text", "labels"} => wasUp
    /\ probeAt \in {"text", "labels"} => wasFresh
    /\ probeAt # "idle" => code = "none"
    /\ asked = "jenkins" /\ code = "ok" => getting # "sent"
    /\ ProbeOkWasSeen

LEMMA ProbeKeeps ==
  ASSUME ProbeSeen, [ProbeNext]_probeVars
  PROVE  ProbeSeen'
<1> USE DEF ProbeSeen, ProbeOkWasSeen, HostedSteps, worldOfProbe, seenOfProbe, threadOfGet
<1>1. CASE UNCHANGED probeVars
  BY <1>1 DEF probeVars
<1>2. CASE ListenerChanges
  BY <1>2 DEF ListenerChanges
<1>3. CASE ListenerWrites
  BY <1>3 DEF ListenerWrites
<1>4. CASE UnitChanges \/ LogAges \/ LogRemoved
  BY <1>4 DEF UnitChanges, LogAges, LogRemoved
<1>5. CASE ProbeAct \/ ProbeSelfHosted \/ ProbeJenkins
  BY <1>5 DEF ProbeAct, ProbeSelfHosted, ProbeJenkins, Starts
<1>6. CASE DockerInfo \/ ActVersion \/ BudgetSpent
  BY <1>6 DEF DockerInfo, ActVersion, BudgetSpent, Ends, Moves, Passes
<1>7. CASE RunnerDir \/ Registered \/ NewestLog
  BY <1>7 DEF RunnerDir, Registered, NewestLog, Ends, Moves, Passes
<1>8. CASE ListProcesses
  <2>1. /\ probeAt = "walk" /\ probeAt' = "dir"
        /\ listed' = FALSE \/ listed' = listenerUp
        /\ UNCHANGED <<asked, code, listenerUp, runnerLog, grown, wasUp, wasFresh, getting, said>>
    BY <1>8 DEF ListProcesses, Passes
  <2>2. asked = "self_hosted" /\ (listenerUp => wasUp) /\ listed' \in BOOLEAN
    BY <2>1
  <2>3. listed' => wasUp
    BY <2>1, <2>2
  <2> QED
    BY <2>1, <2>2, <2>3
<1>9. CASE ReadLog
  BY <1>9 DEF ReadLog, Ends, Passes
<1>10. CASE SampleSize
  <2>1. CASE Passes("sample", "unit") /\ grown' = FALSE /\ UNCHANGED <<listed, heard>>
    BY <2>1 DEF Passes
  <2>2. CASE probeAt = "sample" /\ Ends("runner_log_missing")
    BY <2>2 DEF Ends
  <2> QED
    BY <1>10, <2>1, <2>2 DEF SampleSize
<1>11. CASE SystemdActive
  BY <1>11 DEF SystemdActive, Ends, Moves, Passes
<1>12. CASE MatchProcess \/ CompareLog \/ ListeningText \/ CheckLabels
  BY <1>12 DEF MatchProcess, CompareLog, ListeningText, CheckLabels, Ends, Moves, Passes
<1>13. CASE JenkinsGet
  BY <1>13 DEF JenkinsGet, Ends
<1>14. CASE JenkinsExchange
  BY <1>14 DEF JenkinsExchange, Ends
<1>15. CASE JoinGet
  BY <1>15 DEF JoinGet, Ends
<1> QED
  BY <1>1, <1>2, <1>3, <1>4, <1>5, <1>6, <1>7, <1>8, <1>9, <1>10, <1>11, <1>12, <1>13,
     <1>14, <1>15 DEF ProbeNext

\* A bounded answer: the units that are left when only the identity is.
LEMMA OnlyTheIdentity ==
  ASSUME size \in [Parts -> 0 .. MaxSize], \A p \in Parts \ {"keep"} : size[p] = 0
  PROVE  Cardinality(Units(size)) \in Nat /\ Cardinality(Units(size)) <= size["keep"]
<1>1. "keep" \in Parts /\ size["keep"] \in Nat /\ MaxSize \in Nat
  BY BoundAssumption DEF Parts
<1> DEFINE K == {"keep"} \X (1 .. size["keep"])
<1>2. Units(size) \subseteq K
  <2> SUFFICES ASSUME NEW u \in Units(size) PROVE u \in K
    OBVIOUS
  <2>1. u \in Parts \X (1 .. MaxSize) /\ u[2] <= size[u[1]]
    BY DEF Units
  <2>2. u[1] = "keep"
    BY <2>1
  <2> QED
    BY <2>1, <2>2, <1>1
<1>3. IsFiniteSet({"keep"}) /\ Cardinality({"keep"}) = 1
  BY FS_Singleton
<1>4. IsFiniteSet(1 .. size["keep"]) /\ Cardinality(1 .. size["keep"]) = size["keep"]
  BY <1>1, FS_Interval
<1>5. IsFiniteSet(K) /\ Cardinality(K) = size["keep"]
  BY <1>1, <1>3, <1>4, FS_Product
<1> QED
  BY <1>2, <1>5, FS_Subset, FS_CardinalityType

\* The answer: the names with the identity are within the limit, and at the
\* end either the whole is, or there is nothing left to drop.
BoundInv ==
    /\ BoundTypeOK
    /\ IsFiniteSet(named)
    /\ size["keep"] <= Limit => size["keep"] + Cardinality(named) <= Limit
    /\ bounding = "cut" => Fits \/ \A p \in Parts \ {"keep"} : size[p] = 0

LEMMA DropKeeps ==
  ASSUME BoundInv, NEW p \in Parts \ {"keep"}, NEW n \in 0 .. MaxSize, Drop(p, n),
         bounding' = bounding, bounding # "cut"
  PROVE  BoundInv'
<1>1. /\ "keep" \in Parts /\ size \in [Parts -> 0 .. MaxSize]
      /\ named \subseteq Parts \cup {"patterns"} /\ IsFiniteSet(named)
  BY DEF BoundInv, BoundTypeOK, Parts
<1>2. size' \in [Parts -> 0 .. MaxSize] /\ size'["keep"] = size["keep"]
  BY <1>1 DEF Drop
<1>3. \/ named' = named
      \/ named' = named \cup {p} /\ size["keep"] + Cardinality(named') <= Limit
  BY DEF Drop, RememberDrop
<1>4. IsFiniteSet(named')
  BY <1>1, <1>3, FS_AddElement
<1> QED
  BY <1>1, <1>2, <1>3, <1>4 DEF BoundInv, BoundTypeOK

LEMMA BoundKeeps ==
  ASSUME BoundInv, [BoundNext]_boundVars
  PROVE  BoundInv'
<1>0. /\ {"keep", "llm_ontology", "recent_distillations"} \subseteq Parts
      /\ Patterns \subseteq Parts \ {"keep"} /\ size \in [Parts -> 0 .. MaxSize]
      /\ MaxSize \in Nat /\ 0 \in 0 .. MaxSize
  BY BoundAssumption DEF BoundInv, BoundTypeOK, Parts
<1>1. CASE UNCHANGED boundVars
  BY <1>1 DEF boundVars, BoundInv, BoundTypeOK, Fits, Packed
<1>2. CASE Pack
  BY <1>2 DEF Pack, BoundInv, BoundTypeOK
<1>3. CASE DropFirst
  <2>1. CASE Drop("llm_ontology", 0) /\ bounding = "first" /\ UNCHANGED bounding
    BY <1>0, <2>1, DropKeeps
  <2>2. CASE bounding = "first" /\ Later("shrink")
    BY <2>2 DEF Later, BoundInv, BoundTypeOK
  <2> QED
    BY <1>3, <2>1, <2>2 DEF DropFirst
<1>4. CASE DropDistillation
  <2>1. CASE /\ bounding = "shrink" /\ size["recent_distillations"] > 0
             /\ Drop("recent_distillations", size["recent_distillations"] - 1)
             /\ UNCHANGED bounding
    <3>1. size["recent_distillations"] - 1 \in 0 .. MaxSize
      BY <1>0, <2>1
    <3> QED
      BY <1>0, <2>1, <3>1, DropKeeps
  <2>2. CASE bounding = "shrink" /\ Later("patterns")
    BY <2>2 DEF Later, BoundInv, BoundTypeOK
  <2> QED
    BY <1>4, <2>1, <2>2 DEF DropDistillation
<1>5. CASE DropPattern
  <2>1. CASE bounding = "patterns" /\ UNCHANGED bounding /\ \E p \in Patterns : Drop(p, 0)
    BY <1>0, <2>1, DropKeeps
  <2>2. CASE bounding' = "extras" /\ UNCHANGED size /\ (RememberDrop("patterns") \/ UNCHANGED named)
    <3>1. \/ named' = named
          \/ named' = named \cup {"patterns"} /\ size["keep"] + Cardinality(named') <= Limit
      BY <2>2 DEF RememberDrop
    <3>2. IsFiniteSet(named')
      BY <3>1, FS_AddElement DEF BoundInv
    <3> QED
      BY <2>2, <3>1, <3>2 DEF BoundInv, BoundTypeOK
  <2> QED
    BY <1>5, <2>1, <2>2 DEF DropPattern
<1>6. CASE DropExtra
  <2> DEFINE there == {p \in Parts \ {"keep"} : size[p] > 0}
  <2>1. CASE bounding = "extras" /\ UNCHANGED bounding /\ \E p \in there : Drop(p, 0)
    BY <1>0, <2>1, DropKeeps
  <2>2. CASE (Fits \/ there = {}) /\ Later("cut")
    <3>1. Fits \/ \A p \in Parts \ {"keep"} : size[p] = 0
      BY <1>0, <2>2
    <3>2. UNCHANGED <<size, named>> /\ bounding' = "cut"
      BY <2>2 DEF Later
    <3> QED
      BY <3>1, <3>2 DEF BoundInv, BoundTypeOK, Fits, Packed
  <2> QED
    BY <1>6, <2>1, <2>2 DEF DropExtra
<1> QED
  BY <1>1, <1>2, <1>3, <1>4, <1>5, <1>6 DEF BoundNext

LEMMA BoundAnswer == BoundInv => AnswerFits
<1> SUFFICES ASSUME BoundInv, bounding = "cut", size["keep"] <= Limit,
                    \A p \in Parts \ {"keep"} : size[p] = 0
             PROVE  Fits
  <2>1. BoundInv => size["keep"] \in Nat /\ Limit \in Nat
    BY BoundAssumption DEF BoundInv, BoundTypeOK, Parts
  <2> QED
    BY <2>1 DEF AnswerFits, BoundInv
<1>1. size["keep"] \in Nat /\ Limit \in Nat /\ Cardinality(named) \in Nat
  BY BoundAssumption, FS_CardinalityType DEF BoundInv, BoundTypeOK, Parts
<1>2. Cardinality(Units(size)) \in Nat /\ Cardinality(Units(size)) <= size["keep"]
  BY OnlyTheIdentity DEF BoundInv, BoundTypeOK
<1>3. size["keep"] + Cardinality(named) <= Limit
  BY DEF BoundInv
<1> QED
  BY <1>1, <1>2, <1>3 DEF Fits, Packed

----------------------------------------------------------------------------
(* What the pipeline keeps.                                                 *)

\* A set of numbers has a least one.
LEMMA LeastOf ==
  ASSUME NEW T \in SUBSET Nat, T # {}
  PROVE  \E m \in T : \A t \in T : m <= t
<1> DEFINE Less == {ss \in Nat \X Nat : ss[1] < ss[2]}
<1>1. IsWellFoundedOn(Less, Nat)
  BY NatLessThanWellFounded DEF OpToRel
<1>2. \E m \in T : \A t \in T : ~(<<t, m>> \in Less)
  <2> HIDE DEF Less
  <2> QED
    BY <1>1, WFMin
<1>3. PICK m \in T : \A t \in T : ~(<<t, m>> \in Less)
  BY <1>2
<1>4. \A t \in T : ~(t < m)
  BY <1>3
<1> QED
  BY <1>3, <1>4

\* Of a set of numbers, those with fewer than n larger ones are n at most.
LEMMA FewAreRecent ==
  ASSUME NEW R \in SUBSET Nat, IsFiniteSet(R), NEW n \in Nat
  PROVE  LET T == {r \in R : Cardinality({q \in R : q > r}) < n}
         IN  IsFiniteSet(T) /\ Cardinality(T) <= n
<1> DEFINE T == {r \in R : Cardinality({q \in R : q > r}) < n}
<1> SUFFICES IsFiniteSet(T) /\ Cardinality(T) <= n
  OBVIOUS
<1>1. IsFiniteSet(T) /\ Cardinality(T) \in Nat
  BY FS_Subset, FS_CardinalityType
<1>2. CASE T = {}
  <2> HIDE DEF T
  <2> QED
    BY <1>2, FS_EmptySet
<1>3. CASE T # {}
  <2>1. PICK m \in T : \A t \in T : m <= t
    BY <1>3, LeastOf
  <2> DEFINE L == {q \in R : q > m}
  <2>2. IsFiniteSet(L) /\ Cardinality(L) \in Nat /\ Cardinality(L) < n
    BY FS_Subset, FS_CardinalityType
  <2>3. T \ {m} \subseteq L
    <3>1. T \subseteq R /\ R \subseteq Nat
      OBVIOUS
    <3> HIDE DEF T
    <3> QED
      BY <2>1, <3>1
  <2>4. Cardinality(T \ {m}) <= Cardinality(L)
    BY <2>2, <2>3, FS_Subset
  <2>5. Cardinality(T \ {m}) = Cardinality(T) - 1
    BY <1>1, FS_RemoveElement
  <2> QED
    BY <1>1, <2>2, <2>4, <2>5
<1> QED
  BY <1>1, <1>2, <1>3

\* The pipeline: who is at work holds the lock; a stamp is the name of one run
\* only, so that the run at work finds neither log nor record of its name; when
\* it comes to the audit its log has a record, or it is torn; and what a prune
\* has still to remove comes down to the bound, the records it cannot remove
\* aside.
NameFits(s) ==
    /\ pAt[s] \in {"idle", "dispatch", "notify", "dead"} \cup Bodies => name[s] = 0
    /\ pAt[s] \in {"backend", "building"} => name[s] \in (1 .. stamp) \ logs
    /\ pAt[s] \in {"log", "prune", "unlink", "json"} => name[s] \in (1 .. stamp) \cup {Fixed}
    /\ pAt[s] \in {"audit", "release"} /\ name[s] \in logs => name[s] \in records \cup torn
    /\ pAt[s] = "unlink" => Cardinality(records \ (spared \cup doomed)) <= Keep - 1
    /\ pAt[s] = "json" => Cardinality(records \ spared) <= Keep - 1

StampsOld == \A l \in logs \cup records : l <= stamp \/ l = Fixed

DoomedFits == \A s \in Servers : lock = s /\ pAt[s] # "unlink" => doomed = {}

PipelineInv ==
    /\ PipelineTypeOK
    /\ \A s \in Servers : (pAt[s] \in InBody <=> lock = s) /\ NameFits(s)
    /\ lock = Nobody => doomed = {}
    /\ DoomedFits /\ StampsOld /\ LogsHaveRecords /\ RecordsBounded

\* Any set of records is finite, and has no fewer than its part.
LEMMA RecordsFinite ==
  ASSUME PipelineTypeOK, NEW S \in SUBSET Stems, NEW T \in SUBSET S
  PROVE  /\ S \subseteq Nat /\ IsFiniteSet(S) /\ Cardinality(S) \in Nat
         /\ Cardinality(T) \in Nat /\ Cardinality(T) <= Cardinality(S)
<1>1. S \subseteq 1 .. (MaxRuns + 1) /\ MaxRuns \in Nat
  BY PipelineAssumption DEF PipelineTypeOK, Stems, Fixed
<1>2. IsFiniteSet(1 .. (MaxRuns + 1))
  BY <1>1, FS_Interval
<1>3. IsFiniteSet(S)
  BY <1>1, <1>2, FS_Subset
<1>4. IsFiniteSet(T) /\ Cardinality(T) <= Cardinality(S)
  BY <1>3, FS_Subset
<1>5. Cardinality(S) \in Nat /\ Cardinality(T) \in Nat
  BY <1>3, <1>4, FS_CardinalityType
<1> QED
  BY <1>1, <1>3, <1>4, <1>5

\* A step of the server that holds the lock to a place under it, with the name
\* n: of the logs without a record it needs to be shown only that each is torn
\* or doomed, or has that name.
UnderLock(s, to, n) ==
    /\ pAt' = [pAt EXCEPT ![s] = to] /\ name' = [name EXCEPT ![s] = n]
    /\ UNCHANGED <<lock, deaths>> /\ stamp' \in 0 .. MaxRuns
    /\ logs' \subseteq Stems /\ records' \subseteq Stems /\ torn' \subseteq Stems
    /\ doomed' \subseteq Stems /\ spared' \subseteq Stems
    /\ stamp <= stamp' /\ (to # "unlink" => doomed' = {})
    /\ logs' \ records' \subseteq torn' \cup doomed' \cup {n}

LEMMA UnderLockKeeps ==
  ASSUME PipelineInv, NEW s \in Servers, pAt[s] \in InBody,
         NEW to \in InBody, NEW n \in {0} \cup Stems, UnderLock(s, to, n),
         NameFits(s)', StampsOld', RecordsBounded'
  PROVE  PipelineInv'
<1>1. /\ lock = s /\ pAt'[s] = to /\ name'[s] = n /\ lock # Nobody
      /\ \A t \in Servers \ {s} : pAt'[t] = pAt[t] /\ name'[t] = name[t] /\ pAt[t] \notin InBody
  BY PipelineAssumption DEF PipelineInv, PipelineTypeOK, UnderLock
<1>2. PipelineTypeOK'
  BY DEF PipelineInv, PipelineTypeOK, UnderLock
<1>3. \A t \in Servers : pAt'[t] \in InBody <=> lock' = t
  BY <1>1 DEF UnderLock
<1>4. \A t \in Servers \ {s} : NameFits(t)'
  BY <1>1 DEF PipelineInv, NameFits, InBody
<1>5. LogsHaveRecords'
  BY <1>1 DEF LogsHaveRecords, UnderLock
<1>6. DoomedFits' /\ lock' # Nobody
  BY <1>1 DEF DoomedFits, UnderLock
<1> QED
  BY <1>2, <1>3, <1>4, <1>5, <1>6 DEF PipelineInv

\* What is known of a server and its files.
LEMMA BodyFacts ==
  ASSUME PipelineInv, NEW s \in Servers
  PROVE  /\ pAt \in [Servers -> {"idle", "dispatch", "notify", "dead"} \cup InBody]
         /\ name \in [Servers -> {0} \cup Stems] /\ name[s] \in {0} \cup Stems
         /\ name = [name EXCEPT ![s] = name[s]]
         /\ logs \subseteq Stems /\ records \subseteq Stems /\ torn \subseteq Stems
         /\ doomed \subseteq Stems /\ spared \subseteq Stems /\ 0 \notin Stems
         /\ stamp \in 0 .. MaxRuns /\ MaxRuns \in Nat /\ Stems = 1 .. (MaxRuns + 1)
         /\ NameFits(s) /\ StampsOld /\ RecordsBounded
BY PipelineAssumption DEF PipelineInv, PipelineTypeOK, Stems, Fixed

\* And of the one that holds the lock.
LEMMA HolderFacts ==
  ASSUME PipelineInv, NEW s \in Servers, pAt[s] \in InBody
  PROVE  /\ lock = s /\ logs \ records \subseteq torn \cup doomed \cup {name[s]}
         /\ pAt[s] # "unlink" => doomed = {}
<1>1. lock = s /\ \A t \in Servers \ {s} : pAt[t] \notin InBody
  BY DEF PipelineInv
<1> QED
  BY <1>1 DEF PipelineInv, LogsHaveRecords, DoomedFits

LEMMA PruneKeeps ==
  ASSUME PipelineInv, NEW s \in Servers, Prune(s)
  PROVE  PipelineInv'
<1>1. PICK entries \in SUBSET records :
        /\ pAt[s] = "prune" /\ pAt' = [pAt EXCEPT ![s] = "unlink"]
        /\ doomed' = Oldest(entries) /\ spared' = spared \cup (Oldest(records) \ doomed')
        /\ UNCHANGED <<lock, name, stamp, logs, records, torn, deaths>>
  BY DEF Prune, At
<1>2. doomed' \subseteq records /\ Oldest(records) \subseteq records
  BY <1>1 DEF Oldest
<1>3. /\ pAt[s] \in InBody /\ "unlink" \in InBody /\ pAt'[s] = "unlink" /\ name[s] \in Stems
      /\ spared' \subseteq Stems /\ doomed' \subseteq Stems /\ doomed = {} /\ PipelineTypeOK
      /\ logs \ records \subseteq torn \cup {name[s]}
  BY <1>1, <1>2, BodyFacts, HolderFacts DEF InBody, NameFits, Fixed, PipelineInv
<1>4. Cardinality(records \ (spared' \cup doomed')) <= Keep - 1
  <2>1. Keep - 1 \in Nat
    BY PipelineAssumption
  <2>3. records \subseteq Nat /\ IsFiniteSet(records)
    BY <1>3, RecordsFinite, BodyFacts
  <2> DEFINE Few == {r \in records : Cardinality({q \in records : q > r}) < Keep - 1}
  <2>4. \A r \in records : Cardinality({q \in records : q > r}) \in Nat
    BY <1>3, RecordsFinite, BodyFacts
  <2>5. records \ Oldest(records) \subseteq Few
    BY <2>1, <2>4 DEF Oldest
  <2>6. records \ (spared' \cup doomed') \subseteq Few
    BY <1>1, <2>5
  <2>7. Cardinality(Few) <= Keep - 1
    BY <2>1, <2>3, FewAreRecent
  <2>8. /\ Cardinality(Few) \in Nat
        /\ Cardinality(records \ (spared' \cup doomed')) \in Nat
        /\ Cardinality(records \ (spared' \cup doomed')) <= Cardinality(Few)
    <3>1. Few \in SUBSET Stems
      BY BodyFacts
    <3> HIDE DEF Few
    <3> QED
      BY <1>3, <2>6, <3>1, RecordsFinite
  <2> QED
    BY <2>1, <2>7, <2>8
<1>5. RecordsBounded'
  <2>1. records \ spared' \subseteq records \ spared
    BY <1>1
  <2>2. /\ Cardinality(records \ spared) \in Nat /\ Cardinality(records \ spared') \in Nat
        /\ Cardinality(records \ spared') <= Cardinality(records \ spared)
    BY <1>3, <2>1, RecordsFinite, BodyFacts
  <2>3. Cardinality(records \ spared) <= Keep /\ Keep \in Nat /\ records' = records
    BY <1>1, BodyFacts, PipelineAssumption DEF RecordsBounded
  <2> QED
    BY <2>2, <2>3 DEF RecordsBounded
<1>6. StampsOld' /\ NameFits(s)'
  BY <1>1, <1>3, <1>4, BodyFacts DEF StampsOld, NameFits, Bodies
<1>7. UnderLock(s, "unlink", name[s])
  BY <1>1, <1>3, BodyFacts DEF UnderLock
<1> QED
  BY <1>3, <1>5, <1>6, <1>7, UnderLockKeeps

\* The unlinks: what is neither spared nor doomed stays what it was.
LEMMA UnlinkKeeps ==
  ASSUME PipelineInv, NEW s \in Servers, UnlinkRecord(s) \/ UnlinkLog(s) \/ PruneEnds(s)
  PROVE  PipelineInv'
<1>1. /\ pAt[s] = "unlink" /\ pAt[s] \in InBody /\ PipelineTypeOK /\ name[s] \in Stems
      /\ name[s] <= stamp \/ name[s] = Fixed
      /\ Cardinality(records \ (spared \cup doomed)) <= Keep - 1
      /\ logs \ records \subseteq torn \cup doomed \cup {name[s]} /\ pAt = [pAt EXCEPT ![s] = "unlink"]
      /\ "unlink" \in InBody /\ "json" \in InBody
  <2>1. pAt[s] = "unlink" /\ PipelineTypeOK
    BY DEF UnlinkRecord, UnlinkLog, PruneEnds, At, PipelineInv
  <2>2. pAt[s] \in InBody /\ "unlink" \in InBody /\ "json" \in InBody
    BY <2>1 DEF InBody
  <2>3. name[s] \in (1 .. stamp) \cup {Fixed} /\ Cardinality(records \ (spared \cup doomed)) <= Keep - 1
    BY <2>1, BodyFacts DEF NameFits
  <2>4. pAt = [pAt EXCEPT ![s] = "unlink"]
    BY <2>1, BodyFacts
  <2>5. name[s] \in Stems /\ (name[s] <= stamp \/ name[s] = Fixed)
    BY <2>3, BodyFacts DEF Fixed
  <2> QED
    BY <2>1, <2>2, <2>3, <2>4, <2>5, HolderFacts
<1>2. CASE UnlinkRecord(s) \/ UnlinkLog(s)
  <2>1. /\ UNCHANGED <<pAt, lock, name, stamp, deaths>>
        /\ logs' \subseteq logs /\ records' \subseteq records /\ spared' \subseteq Stems
        /\ doomed' \subseteq Stems /\ torn' \subseteq Stems
    BY <1>2, BodyFacts DEF UnlinkRecord, UnlinkLog
  <2>2. /\ records' \ (spared' \cup doomed') = records \ (spared \cup doomed)
        /\ records' \ spared' \subseteq records \ spared
        /\ logs' \ records' \subseteq torn' \cup doomed' \cup {name[s]}
    <3>1. CASE UnlinkRecord(s)
      <4>1. PICK r \in doomed :
               \/ records' = records \ {r} /\ spared' = spared \ {r} /\ doomed' = doomed
               \/ doomed' = doomed \ {r} /\ spared' = spared \cup {r} /\ records' = records
        BY <3>1 DEF UnlinkRecord
      <4>2. doomed \subseteq records /\ UNCHANGED <<logs, torn>>
        BY <3>1 DEF UnlinkRecord
      <4> QED
        BY <1>1, <4>1, <4>2
    <3>2. CASE UnlinkLog(s)
      <4>1. /\ UNCHANGED <<records, spared>> /\ doomed' = doomed \cap records
            /\ \/ logs' = logs \ (doomed \ records) /\ torn' = torn \ doomed
               \/ torn' = torn \cup (doomed \ records) /\ logs' = logs
        BY <3>2 DEF UnlinkLog
      <4> QED
        BY <1>1, <4>1
    <3> QED
      BY <1>2, <3>1, <3>2
  <2>3. RecordsBounded'
    <3>1. /\ Cardinality(records \ spared) \in Nat /\ Cardinality(records' \ spared') \in Nat
          /\ Cardinality(records' \ spared') <= Cardinality(records \ spared)
      BY <1>1, <2>1, <2>2, RecordsFinite, BodyFacts
    <3>2. Cardinality(records \ spared) <= Keep /\ Keep \in Nat
      BY BodyFacts, PipelineAssumption DEF RecordsBounded
    <3> QED
      BY <3>1, <3>2 DEF RecordsBounded
  <2>4. NameFits(s)' /\ StampsOld'
    BY <1>1, <2>1, <2>2, BodyFacts DEF NameFits, StampsOld, Bodies
  <2>5. UnderLock(s, "unlink", name[s])
    BY <1>1, <2>1, <2>2, BodyFacts DEF UnderLock
  <2> QED
    BY <1>1, <2>3, <2>4, <2>5, UnderLockKeeps
<1>3. CASE PruneEnds(s)
  <2>1. /\ pAt' = [pAt EXCEPT ![s] = "json"] /\ doomed = {} /\ doomed' = {}
        /\ UNCHANGED <<lock, name, stamp, logs, records, spared, torn, deaths>>
    BY <1>3 DEF PruneEnds, At, pruneVars
  <2>2. pAt'[s] = "json" /\ records \ (spared \cup doomed) = records \ spared
    BY <2>1, BodyFacts
  <2>3. NameFits(s)' /\ StampsOld' /\ RecordsBounded'
    BY <1>1, <2>1, <2>2, BodyFacts DEF NameFits, StampsOld, RecordsBounded, Bodies
  <2>4. UnderLock(s, "json", name[s])
    BY <1>1, <2>1, BodyFacts DEF UnderLock
  <2> QED
    BY <1>1, <2>3, <2>4, UnderLockKeeps
<1> QED
  BY <1>2, <1>3

\* The steps before the lock is taken and after it is given back.
LEMMA OutsideKeeps ==
  ASSUME PipelineInv, NEW s \in Servers,
         CallPipeline(s) \/ RefusePipeline(s) \/ Notified(s) \/ Restarts(s)
  PROVE  PipelineInv'
<1>1. PICK to \in {"dispatch", "notify", "idle"} :
        /\ pAt[s] \in {"idle", "dispatch", "notify", "dead"} /\ pAt' = [pAt EXCEPT ![s] = to]
        /\ UNCHANGED <<lock, name, stamp, logs, records, doomed, spared, torn, deaths>>
  BY DEF CallPipeline, RefusePipeline, Notified, Restarts, At, pruneVars
<1>2. /\ pAt[s] \notin InBody /\ pAt'[s] = to /\ to \notin InBody /\ lock # s /\ name[s] = 0
      /\ \A t \in Servers \ {s} : pAt'[t] = pAt[t]
  BY <1>1, BodyFacts DEF InBody, Bodies, NameFits, PipelineInv
<1>3. PipelineTypeOK'
  BY <1>1 DEF PipelineInv, PipelineTypeOK
<1>4. \A t \in Servers : (pAt'[t] \in InBody <=> lock' = t) /\ NameFits(t)'
  <2>1. \A t \in Servers \ {s} : (pAt'[t] \in InBody <=> lock' = t) /\ NameFits(t)'
    BY <1>1, <1>2 DEF PipelineInv, NameFits
  <2>2. (pAt'[s] \in InBody <=> lock' = s) /\ NameFits(s)'
    BY <1>1, <1>2 DEF NameFits, Bodies
  <2> QED
    BY <2>1, <2>2
<1>5. DoomedFits' /\ (lock' = Nobody => doomed' = {})
  BY <1>1, <1>2 DEF PipelineInv, DoomedFits
<1>6. StampsOld' /\ LogsHaveRecords' /\ RecordsBounded'
  BY <1>1, <1>2 DEF PipelineInv, StampsOld, LogsHaveRecords, RecordsBounded
<1> QED
  BY <1>3, <1>4, <1>5, <1>6 DEF PipelineInv

LEMMA TakeLockKeeps ==
  ASSUME PipelineInv, NEW s \in Servers, NEW body \in Bodies, TakeLock(s, body)
  PROVE  PipelineInv'
<1>1. /\ pAt[s] = "dispatch" /\ pAt' = [pAt EXCEPT ![s] = body] /\ lock = Nobody /\ lock' = s
      /\ UNCHANGED <<name, stamp, logs, records, doomed, spared, torn, deaths>>
  BY DEF TakeLock, At, pruneVars
<1>2. /\ pAt'[s] = body /\ body \in InBody /\ name[s] = 0 /\ doomed = {}
      /\ \A t \in Servers : pAt[t] \notin InBody
      /\ \A t \in Servers \ {s} : pAt'[t] = pAt[t]
  BY <1>1, BodyFacts, PipelineAssumption DEF InBody, NameFits, PipelineInv
<1>3. PipelineTypeOK'
  BY <1>1, <1>2 DEF PipelineInv, PipelineTypeOK
<1>4. \A t \in Servers : (pAt'[t] \in InBody <=> lock' = t) /\ NameFits(t)'
  <2>1. \A t \in Servers \ {s} : (pAt'[t] \in InBody <=> lock' = t) /\ NameFits(t)'
    BY <1>1, <1>2 DEF PipelineInv, NameFits
  <2>2. (pAt'[s] \in InBody <=> lock' = s) /\ NameFits(s)'
    BY <1>1, <1>2 DEF NameFits, Bodies
  <2> QED
    BY <2>1, <2>2
<1>5. DoomedFits' /\ lock' # Nobody
  BY <1>1, <1>2, PipelineAssumption DEF DoomedFits
<1>6. StampsOld' /\ LogsHaveRecords' /\ RecordsBounded'
  BY <1>1, <1>2 DEF PipelineInv, StampsOld, LogsHaveRecords, RecordsBounded
<1> QED
  BY <1>3, <1>4, <1>5, <1>6 DEF PipelineInv

LEMMA NameKeeps ==
  ASSUME PipelineInv, NEW s \in Servers,
         RejectEnv(s) \/ RunAct(s) \/ RunSelfHosted(s) \/ RunJenkins(s)
  PROVE  PipelineInv'
<1>0. /\ pAt[s] \in Bodies /\ pAt[s] \in InBody /\ name[s] = 0 /\ doomed = {}
      /\ logs \ records \subseteq torn
  <2>1. pAt[s] \in Bodies
    BY DEF RejectEnv, RunAct, RunSelfHosted, RunJenkins, At, Bodies
  <2> QED
    BY <2>1, BodyFacts, HolderFacts DEF InBody, Bodies, NameFits
<1>1. CASE RejectEnv(s)
  <2>1. /\ pAt' = [pAt EXCEPT ![s] = "log"] /\ name' = [name EXCEPT ![s] = Fixed]
        /\ UNCHANGED <<lock, stamp, logs, records, doomed, spared, torn, deaths>>
    BY <1>1 DEF RejectEnv, At, pruneVars
  <2>2. Fixed \in Stems /\ "log" \in InBody /\ pAt'[s] = "log" /\ name'[s] = Fixed
    BY <2>1, BodyFacts DEF InBody, Fixed
  <2>3. NameFits(s)' /\ StampsOld' /\ RecordsBounded'
    BY <2>1, <2>2, BodyFacts DEF NameFits, StampsOld, RecordsBounded, Bodies
  <2>4. UnderLock(s, "log", Fixed)
    BY <1>0, <2>1, <2>2, BodyFacts DEF UnderLock
  <2> QED
    BY <1>0, <2>2, <2>3, <2>4, UnderLockKeeps
<1>2. CASE RunAct(s) \/ RunSelfHosted(s) \/ RunJenkins(s)
  <2>1. PICK to \in {"backend", "building"} :
             /\ pAt' = [pAt EXCEPT ![s] = to]
             /\ stamp < MaxRuns /\ stamp' = stamp + 1 /\ name' = [name EXCEPT ![s] = stamp + 1]
             /\ UNCHANGED <<lock, logs, records, doomed, spared, torn, deaths>>
    BY <1>2 DEF RunAct, RunSelfHosted, RunJenkins, NameRun, At, pruneVars
  <2>2. /\ stamp + 1 \in Stems /\ stamp' \in 0 .. MaxRuns /\ stamp <= stamp' /\ stamp + 1 \notin logs
        /\ to \in InBody /\ pAt'[s] = to /\ name'[s] = stamp + 1
    BY <2>1, BodyFacts DEF InBody, Fixed, StampsOld
  <2>3. NameFits(s)'
    BY <2>1, <2>2, BodyFacts DEF NameFits, Bodies
  <2>4. StampsOld' /\ RecordsBounded'
    <3>1. \A l \in logs \cup records : l <= stamp \/ l = Fixed
      BY BodyFacts DEF StampsOld
    <3>2. logs \cup records \subseteq Nat /\ stamp \in Nat
      BY BodyFacts
    <3>3. StampsOld'
      BY <2>1, <3>1, <3>2 DEF StampsOld
    <3>4. RecordsBounded'
      BY <2>1, BodyFacts DEF RecordsBounded
    <3> QED
      BY <3>3, <3>4
  <2>5. UnderLock(s, to, stamp + 1)
    BY <1>0, <2>1, <2>2, BodyFacts DEF UnderLock
  <2> QED
    BY <1>0, <2>2, <2>3, <2>4, <2>5, UnderLockKeeps
<1> QED
  BY <1>1, <1>2

LEMMA BackendKeeps ==
  ASSUME PipelineInv, NEW s \in Servers,
         ProbeFails(s) \/ BackendReturns(s) \/ JenkinsProbeFails(s) \/ WriteLog(s)
  PROVE  PipelineInv'
<1>1. CASE ProbeFails(s) \/ JenkinsProbeFails(s)
  <2>1. /\ pAt[s] \in {"act", "building"} /\ pAt' = [pAt EXCEPT ![s] = "audit"]
        /\ UNCHANGED <<lock, name, stamp, logs, records, doomed, spared, torn, deaths>>
    BY <1>1 DEF ProbeFails, JenkinsProbeFails, At, pruneVars
  <2>2. /\ pAt[s] \in InBody /\ "audit" \in InBody /\ name[s] \notin logs /\ pAt'[s] = "audit"
        /\ doomed = {} /\ logs \ records \subseteq torn \cup {name[s]}
    BY <2>1, BodyFacts, HolderFacts DEF InBody, Bodies, NameFits
  <2>3. NameFits(s)' /\ StampsOld' /\ RecordsBounded'
    BY <2>1, <2>2, BodyFacts DEF NameFits, StampsOld, RecordsBounded, Bodies
  <2>4. UnderLock(s, "audit", name[s])
    BY <2>1, <2>2, BodyFacts DEF UnderLock
  <2> QED
    BY <2>2, <2>3, <2>4, BodyFacts, UnderLockKeeps
<1>2. CASE BackendReturns(s) \/ WriteLog(s)
  <2>1. PICK to \in {"log", "prune"} :
             /\ pAt[s] \in {"backend", "building", "log"} /\ pAt' = [pAt EXCEPT ![s] = to]
             /\ logs' = logs \/ logs' = logs \cup {name[s]}
             /\ UNCHANGED <<lock, name, stamp, records, doomed, spared, torn, deaths>>
    BY <1>2 DEF BackendReturns, WriteLog, At, pruneVars
  <2>2. /\ pAt[s] \in InBody /\ to \in InBody /\ name[s] \in Stems /\ pAt'[s] = to
        /\ name[s] <= stamp \/ name[s] = Fixed
        /\ doomed = {} /\ logs \ records \subseteq torn \cup {name[s]}
    BY <2>1, BodyFacts, HolderFacts DEF InBody, Bodies, NameFits, Fixed
  <2>3. NameFits(s)' /\ StampsOld' /\ RecordsBounded'
    BY <2>1, <2>2, BodyFacts DEF NameFits, StampsOld, RecordsBounded, Bodies
  <2>4. UnderLock(s, to, name[s])
    BY <2>1, <2>2, BodyFacts DEF UnderLock
  <2> QED
    BY <2>2, <2>3, <2>4, UnderLockKeeps
<1> QED
  BY <1>1, <1>2

LEMMA RecordKeeps ==
  ASSUME PipelineInv, NEW s \in Servers, WriteRecord(s) \/ WriteAudit(s)
  PROVE  PipelineInv'
<1>1. CASE WriteRecord(s)
  <2>1. /\ pAt[s] = "json" /\ pAt' = [pAt EXCEPT ![s] = "audit"] /\ records' = records \cup {name[s]}
        /\ torn' = torn \ {name[s]}
        /\ UNCHANGED <<lock, name, stamp, logs, doomed, spared, deaths>>
    BY <1>1 DEF WriteRecord, At
  <2>2. /\ pAt[s] \in InBody /\ "audit" \in InBody /\ pAt'[s] = "audit"
        /\ name[s] \in Stems /\ PipelineTypeOK
        /\ name[s] <= stamp \/ name[s] = Fixed
        /\ doomed = {} /\ logs \ records \subseteq torn \cup {name[s]}
    <3>1. /\ pAt[s] \in InBody /\ "audit" \in InBody
          /\ name[s] \in (1 .. stamp) \cup {Fixed} /\ PipelineTypeOK
      BY <2>1, BodyFacts DEF InBody, NameFits, PipelineInv
    <3>2. name[s] \in Stems /\ (name[s] <= stamp \/ name[s] = Fixed) /\ pAt'[s] = "audit"
      BY <2>1, <3>1, BodyFacts DEF Fixed
    <3> QED
      BY <2>1, <3>1, <3>2, HolderFacts
  <2>3. /\ IsFiniteSet(records \ spared) /\ Cardinality(records \ spared) \in Nat
        /\ Cardinality(records \ spared) <= Keep - 1
    BY <2>1, <2>2, BodyFacts, RecordsFinite DEF NameFits
  <2>4. RecordsBounded'
    <3>1. /\ Cardinality((records \ spared) \cup {name[s]}) \in Nat
          /\ Cardinality((records \ spared) \cup {name[s]}) <= Cardinality(records \ spared) + 1
      BY <2>3, FS_AddElement
    <3>2. /\ records' \ spared' \in SUBSET ((records \ spared) \cup {name[s]})
          /\ (records \ spared) \cup {name[s]} \in SUBSET Stems
      BY <2>1, <2>2, BodyFacts
    <3>3. /\ Cardinality(records' \ spared') \in Nat
          /\ Cardinality(records' \ spared') <= Cardinality((records \ spared) \cup {name[s]})
      BY <2>2, <3>2, RecordsFinite
    <3> QED
      BY <2>3, <3>1, <3>3, PipelineAssumption DEF RecordsBounded
  <2>5. NameFits(s)' /\ StampsOld'
    BY <2>1, <2>2, BodyFacts DEF NameFits, StampsOld, Bodies
  <2>6. UnderLock(s, "audit", name[s])
    BY <2>1, <2>2, BodyFacts DEF UnderLock
  <2> QED
    BY <2>2, <2>4, <2>5, <2>6, UnderLockKeeps
<1>2. CASE WriteAudit(s)
  <2>1. /\ pAt[s] = "audit" /\ pAt' = [pAt EXCEPT ![s] = "release"]
        /\ UNCHANGED <<lock, name, stamp, logs, records, doomed, spared, torn, deaths>>
    BY <1>2 DEF WriteAudit, At, pruneVars
  <2>2. /\ pAt[s] \in InBody /\ "release" \in InBody /\ pAt'[s] = "release"
        /\ doomed = {} /\ logs \ records \subseteq torn \cup {name[s]}
    BY <2>1, BodyFacts, HolderFacts DEF InBody
  <2>3. NameFits(s)' /\ StampsOld' /\ RecordsBounded'
    BY <2>1, <2>2, BodyFacts DEF NameFits, StampsOld, RecordsBounded, Bodies
  <2>4. UnderLock(s, "release", name[s])
    BY <2>1, <2>2, BodyFacts DEF UnderLock
  <2> QED
    BY <2>2, <2>3, <2>4, BodyFacts, UnderLockKeeps
<1> QED
  BY <1>1, <1>2

\* A call that is cut short leaves its name, and what it had still to remove,
\* with the torn.
LEMMA CutShortFacts ==
  ASSUME PipelineInv, NEW s \in Servers, pAt[s] \in InBody, CutShort(s)
  PROVE  /\ logs' \subseteq Stems /\ torn' \subseteq Stems /\ logs' \ records \subseteq torn'
         /\ \A l \in logs' : l <= stamp \/ l = Fixed
<1>1. /\ torn' = (torn \cup doomed \cup {name[s]}) \cap (logs' \ records)
      /\ \/ logs' = logs
         \/ pAt[s] \in {"backend", "building"} /\ logs' = logs \cup {name[s]}
  BY DEF CutShort, LogOfRun
<1>2. pAt[s] \in {"backend", "building"} => name[s] \in Stems /\ name[s] <= stamp
  BY BodyFacts DEF NameFits
<1> QED
  BY <1>1, <1>2, BodyFacts, HolderFacts DEF StampsOld

LEMMA RaisesKeeps ==
  ASSUME PipelineInv, NEW s \in Servers, Raises(s)
  PROVE  PipelineInv'
<1>1. /\ pAt[s] \in InBody \ {"unlink"} /\ pAt' = [pAt EXCEPT ![s] = "release"] /\ CutShort(s)
      /\ UNCHANGED <<lock, name, stamp, records, doomed, spared, deaths>>
  BY DEF Raises
<1>2. /\ "release" \in InBody /\ pAt'[s] = "release" /\ doomed = {}
      /\ logs' \subseteq Stems /\ torn' \subseteq Stems /\ logs' \ records \subseteq torn'
      /\ \A l \in logs' : l <= stamp \/ l = Fixed
  BY <1>1, BodyFacts, HolderFacts, CutShortFacts DEF InBody
<1>3. NameFits(s)' /\ StampsOld' /\ RecordsBounded'
  BY <1>1, <1>2, BodyFacts DEF NameFits, StampsOld, RecordsBounded, Bodies
<1>4. UnderLock(s, "release", name[s])
  BY <1>1, <1>2, BodyFacts DEF UnderLock
<1> QED
  BY <1>1, <1>2, <1>3, <1>4, BodyFacts, UnderLockKeeps

\* The lock is given back, by the server or by its death.
LEMMA LockGoesKeeps ==
  ASSUME PipelineInv, NEW s \in Servers, ReleaseLock(s) \/ Dies(s)
  PROVE  PipelineInv'
<1>1. PICK to \in {"notify", "dead"} :
        /\ pAt' = [pAt EXCEPT ![s] = to] /\ name' = [name EXCEPT ![s] = 0]
        /\ deaths' \in 0 .. MaxDeaths /\ lock' = IF lock = s THEN Nobody ELSE lock
        /\ UNCHANGED <<stamp, records, spared>>
        /\ logs' \subseteq Stems /\ torn' \subseteq Stems /\ doomed' \subseteq Stems
        /\ \A l \in logs' : l <= stamp \/ l = Fixed
        /\ lock = s => doomed' = {} /\ logs' \ records \subseteq torn'
        /\ lock # s => UNCHANGED <<logs, torn, doomed>>
  <2>1. CASE ReleaseLock(s)
    <3>1. /\ pAt[s] = "release" /\ pAt[s] \in InBody /\ pAt' = [pAt EXCEPT ![s] = "notify"]
          /\ lock' = Nobody /\ name' = [name EXCEPT ![s] = 0]
          /\ UNCHANGED <<stamp, logs, records, doomed, spared, torn, deaths>>
      BY <2>1 DEF ReleaseLock, At, pruneVars, InBody
    <3>2. lock = s /\ doomed = {} /\ logs \ records \subseteq torn
      BY <3>1, BodyFacts, HolderFacts DEF NameFits
    <3>3. deaths \in 0 .. MaxDeaths
      BY DEF PipelineInv, PipelineTypeOK
    <3> QED
      BY <3>1, <3>2, <3>3, BodyFacts DEF StampsOld
  <2>2. CASE Dies(s)
    <3>1. /\ pAt' = [pAt EXCEPT ![s] = "dead"] /\ name' = [name EXCEPT ![s] = 0]
          /\ lock' = (IF lock = s THEN Nobody ELSE lock) /\ UNCHANGED <<stamp, records, spared>>
          /\ deaths < MaxDeaths /\ deaths' = deaths + 1
          /\ IF lock = s THEN CutShort(s) /\ doomed' = {} ELSE UNCHANGED <<logs, torn, doomed>>
      BY <2>2 DEF Dies
    <3>2. deaths' \in 0 .. MaxDeaths
      BY <3>1, PipelineAssumption DEF PipelineInv, PipelineTypeOK
    <3>3. CASE lock = s
      <4>1. pAt[s] \in InBody /\ CutShort(s) /\ doomed' = {}
        BY <3>1, <3>3 DEF PipelineInv
      <4> QED
        BY <3>1, <3>2, <3>3, <4>1, CutShortFacts
    <3>4. CASE lock # s
      BY <3>1, <3>2, <3>4, BodyFacts DEF StampsOld
    <3> QED
      BY <3>3, <3>4
  <2> QED
    BY <2>1, <2>2
<1>2. /\ pAt'[s] = to /\ name'[s] = 0 /\ to \notin InBody /\ s # Nobody
      /\ \A t \in Servers \ {s} : pAt'[t] = pAt[t] /\ name'[t] = name[t]
  BY <1>1, BodyFacts, PipelineAssumption DEF InBody, Bodies
<1>3. PipelineTypeOK'
  BY <1>1, PipelineAssumption DEF PipelineInv, PipelineTypeOK
<1>4. StampsOld' /\ RecordsBounded'
  BY <1>1, BodyFacts DEF StampsOld, RecordsBounded
<1>5. \A t \in Servers : pAt'[t] \in InBody <=> lock' = t
  BY <1>1, <1>2, PipelineAssumption DEF PipelineInv
<1>6. \A t \in Servers : NameFits(t)'
  <2>1. NameFits(s)'
    BY <1>2 DEF NameFits, Bodies
  <2>2. CASE lock = s
    BY <1>1, <1>2, <2>1, <2>2 DEF PipelineInv, NameFits, InBody
  <2>3. CASE lock # s
    BY <1>1, <1>2, <2>1, <2>3 DEF PipelineInv, NameFits
  <2> QED
    BY <2>2, <2>3
<1>7. DoomedFits' /\ (lock' = Nobody => doomed' = {})
  BY <1>1, <1>2, PipelineAssumption DEF PipelineInv, DoomedFits
<1>8. LogsHaveRecords'
  BY <1>1, <1>2 DEF PipelineInv, LogsHaveRecords
<1> QED
  BY <1>3, <1>4, <1>5, <1>6, <1>7, <1>8 DEF PipelineInv

LEMMA PipelineKeeps ==
  ASSUME PipelineInv, [PipelineNext]_pipelineVars
  PROVE  PipelineInv'
<1>1. CASE UNCHANGED pipelineVars
  BY <1>1 DEF pipelineVars, PipelineInv, PipelineTypeOK, NameFits, StampsOld, LogsHaveRecords,
              RecordsBounded, DoomedFits
<1>2. CASE PipelineNext
  <2>1. PICK s \in Servers :
          \/ CallPipeline(s) \/ RefusePipeline(s) \/ Notified(s) \/ Restarts(s)
          \/ \E body \in Bodies : TakeLock(s, body)
          \/ RejectEnv(s) \/ RunAct(s) \/ RunSelfHosted(s) \/ RunJenkins(s)
          \/ ProbeFails(s) \/ BackendReturns(s) \/ JenkinsProbeFails(s) \/ WriteLog(s)
          \/ Prune(s) \/ UnlinkRecord(s) \/ UnlinkLog(s) \/ PruneEnds(s)
          \/ WriteRecord(s) \/ WriteAudit(s) \/ Raises(s)
          \/ ReleaseLock(s) \/ Dies(s)
    BY <1>2 DEF PipelineNext, DispatchAct, DispatchSelfHosted, DispatchJenkins, Bodies
  <2> QED
    BY <2>1, OutsideKeeps, TakeLockKeeps, NameKeeps, BackendKeeps, PruneKeeps, UnlinkKeeps,
       RecordKeeps, RaisesKeeps, LockGoesKeeps
<1> QED
  BY <1>1, <1>2

----------------------------------------------------------------------------
(* The types: what the invariants above leave open.                         *)

ServerRest ==
    /\ sent \in 0 .. MaxFrames /\ stdin \in {"open", "closed"}
    /\ main \in {"join", "wait", "close", "threads", "exited"}
    /\ wake \in [open : BOOLEAN, byte : BOOLEAN]
    /\ fault \in {"none", "start", "read", "kill"}

LEMMA ServerRestKeeps ==
  ASSUME ServerRest, [ServerNext]_serverVars
  PROVE  ServerRest'
<1> USE ServerAssumption DEF ServerRest
<1>1. CASE UNCHANGED serverVars
  BY <1>1 DEF serverVars
<1>2. CASE \E f \in Frame : ClientWrites(f)
  BY <1>2 DEF ClientWrites
<1>3. CASE ClientCloses \/ ReadFails \/ TakeFrame
  BY <1>3 DEF ClientCloses, ReadFails, TakeFrame
<1>4. CASE EndOfInput
  <2>1. wake' \in [open : BOOLEAN, byte : BOOLEAN]
    BY <1>4 DEF EndOfInput
  <2> QED
    BY <1>4, <2>1 DEF EndOfInput
<1>5. CASE DispatchOther \/ DispatchAnswered
  BY <1>5 DEF DispatchOther, DispatchAnswered
<1>6. CASE StartCall \/ StartFails
  BY <1>6 DEF StartCall, StartFails
<1>7. CASE RunCall \/ FinishCall \/ WaitOver \/ Exit \/ SecondSignal
  BY <1>7 DEF RunCall, FinishCall, WaitOver, Exit, SecondSignal
<1>8. CASE Joined \/ Signal
  <2>1. /\ wake' \in [open : BOOLEAN, byte : BOOLEAN] /\ main' \in {"close", "wait"}
        /\ UNCHANGED <<sent, stdin, fault>>
    BY <1>8 DEF Joined, Signal, ShutdownWait
  <2> QED
    BY <2>1
<1>9. CASE CloseWake
  <2>1. /\ wake' \in [open : BOOLEAN, byte : BOOLEAN] /\ main' = "threads"
        /\ UNCHANGED <<sent, stdin, fault>>
    BY <1>9 DEF CloseWake
  <2> QED
    BY <2>1
<1> QED
  BY <1>1, <1>2, <1>3, <1>4, <1>5, <1>6, <1>7, <1>8, <1>9
     DEF ServerNext, ReaderNext, RefuseCall, MainNext

\* stream_cli, but for the lines.
StreamKinds ==
    /\ child \in {"running", "gone"} /\ holder \in {"none", "group", "escaped"}
    /\ pipes \in {"open", "ended"} /\ pending \in BOOLEAN
    /\ recent \in 0 .. NotifyPerS /\ seconds \in 0 .. MaxSeconds
    /\ at \in {"loop", "kill", "join", "drain", "last", "done", "raised"}
    /\ verdict \in {"none", "timeout", "cancel"}
    /\ cancelSet \in BOOLEAN /\ overdue \in BOOLEAN

LEMMA StreamKindsKeep ==
  ASSUME StreamKinds, [StreamNext]_streamVars
  PROVE  StreamKinds'
<1> USE StreamAssumption DEF StreamKinds, procVars, sinkVars, envVars
<1>1. CASE UNCHANGED streamVars
  BY <1>1 DEF streamVars
<1>2. CASE Line \/ ChildExits \/ HolderLetsGo \/ PipesEnd
  BY <1>2 DEF Line, ChildExits, HolderLetsGo, PipesEnd
<1>3. CASE \E kind \in {"group", "escaped"} : ChildForks(kind)
  BY <1>3 DEF ChildForks
<1>4. CASE SecondPasses
  <2>1. recent' \in 0 .. NotifyPerS /\ seconds' \in 0 .. MaxSeconds
    BY <1>4 DEF SecondPasses
  <2>2. UNCHANGED <<child, holder, pipes, pending, at, verdict, cancelSet, overdue>>
    BY <1>4 DEF SecondPasses
  <2> QED
    BY <2>1, <2>2
<1>5. CASE DeadlinePasses
  BY <1>5 DEF DeadlinePasses
<1>6. CASE Cancelled
  <2>1. cancelSet' \in BOOLEAN
    BY <1>6 DEF Cancelled
  <2> QED
    BY <1>6, <2>1 DEF Cancelled
<1>7. CASE SinkAdd
  <2>1. pending' \in BOOLEAN
    BY <1>7 DEF SinkAdd, SinkNotify
  <2>2. recent' \in 0 .. NotifyPerS
    BY <1>7 DEF SinkAdd, SinkNotify
  <2> QED
    BY <1>7, <2>1, <2>2 DEF SinkAdd
<1>8. CASE FlushIdle \/ Drained
  <2>1. pending' \in BOOLEAN
    BY <1>8 DEF FlushIdle, Drained, FlushOne
  <2>2. recent' \in 0 .. NotifyPerS
    BY <1>8 DEF FlushIdle, Drained, FlushOne
  <2> QED
    BY <1>8, <2>1, <2>2 DEF FlushIdle, Drained
<1>9. CASE LoopEnds \/ JoinReaders \/ Kill
  BY <1>9 DEF LoopEnds, JoinReaders, Kill, KillGroup
<1>10. CASE Return
  BY <1>10 DEF Return, KillGroup
<1>11. CASE \E v \in {"cancel", "timeout"} : Stop(v)
  BY <1>11 DEF Stop
<1>12. CASE SinkRaises
  BY <1>12 DEF SinkRaises
<1> QED
  BY <1>1, <1>2, <1>3, <1>4, <1>5, <1>6, <1>7, <1>8, <1>9, <1>10, <1>11, <1>12
     DEF StreamNext, CallerNext, TakeLine, DrainLine

LEMMA StreamTyped == StreamLines /\ StreamKinds => StreamTypeOK
<1> SUFFICES ASSUME StreamLines, StreamKinds PROVE StreamTypeOK
  OBVIOUS
<1>1. /\ seenLines <= MaxLines /\ lost <= MaxLines
      /\ notified <= MaxLines /\ dropped <= MaxLines
  BY StreamAssumption DEF StreamLines
<1> QED
  BY <1>1, StreamAssumption DEF StreamLines, StreamKinds, StreamTypeOK

\* Jenkins, but for its log.
JenkinsKinds ==
    /\ step \in Steps /\ cause \in Causes
    /\ queueId \in BOOLEAN /\ number \in BOOLEAN /\ checked \in BOOLEAN
    /\ stopSent \in BOOLEAN /\ due \subseteq {"cancelled", "timed_out"}
    /\ item \in {"none", "queued", "building", "built", "aborted", "dropped"}
    /\ result \in {"none", "SUCCESS", "FAILURE", "ABORTED"}
    /\ status \in Statuses
    /\ posted \in {"none", "jenkins", "SUCCESSFUL", "FAILED", "CANCELLED"}

LEMMA JenkinsKindsKeep ==
  ASSUME JenkinsKinds, [JenkinsNext]_jenkinsVars
  PROVE  JenkinsKinds'
<1> USE DEF JenkinsKinds, Goes, theirs, tailed
<1>1. CASE UNCHANGED jenkinsVars
  BY <1>1 DEF jenkinsVars
<1>2. CASE BuildStarts \/ ItemDropped
  BY <1>2 DEF BuildStarts, ItemDropped, Controller
<1>3. CASE LogGrows \/ BuildEnds
  BY <1>3 DEF LogGrows, BuildEnds, Controller
<1>4. CASE \E c \in {"cancelled", "timed_out"} : ComesDue(c)
  BY <1>4 DEF ComesDue
<1>5. CASE RefuseEarly
  BY <1>5 DEF RefuseEarly, Steps, Statuses
<1>6. CASE RunFile
  BY <1>6 DEF RunFile, Steps
<1>7. CASE ProbeController
  BY <1>7 DEF ProbeController, Steps
<1>8. CASE LoadCrumb
  BY <1>8 DEF LoadCrumb, Steps
<1>9. CASE Trigger
  BY <1>9 DEF Trigger, Steps
<1>10. CASE TriggerLost
  BY <1>10 DEF TriggerLost, Steps, Causes
<1>11. CASE PollQueue
  BY <1>11 DEF PollQueue, Steps
<1>12. CASE ReadResult
  BY <1>12 DEF ReadResult, Steps, Statuses
<1>13. CASE TailBuild
  BY <1>13 DEF TailBuild, Steps, TailResponse
<1>14. CASE QueueTruncated
  BY <1>14 DEF QueueTruncated, Steps, Raise, Causes
<1>15. CASE RaiseDue
  BY <1>15 DEF RaiseDue, Steps, Raise, Causes
<1>16. CASE RequestFails
  BY <1>16 DEF RequestFails, Steps, Raise, Causes
<1>17. CASE Handle
  <2>1. stopSent' \in BOOLEAN
    <3>1. CASE StopBuild
      BY <3>1 DEF StopBuild
    <3> QED
      BY <1>17, <3>1 DEF Handle, CancelQueueItem
  <2>2. /\ item' \in {"none", "queued", "building", "built", "aborted", "dropped"}
        /\ result' \in {"none", "SUCCESS", "FAILURE", "ABORTED"}
    <3>1. CASE StopBuild
      BY <3>1 DEF StopBuild
    <3> QED
      BY <1>17, <3>1 DEF Handle, CancelQueueItem
  <2>3. status' \in Statuses /\ step' \in Steps
    BY <1>17 DEF Handle, Steps, Statuses
  <2> QED
    BY <1>17, <2>1, <2>2, <2>3 DEF Handle
<1>18. CASE Report
  BY <1>18 DEF Report, Steps, PeekRevision, ApplyStatus, StatusState
<1>19. CASE TailRaises
  BY <1>19 DEF TailRaises, Steps, Statuses
<1> QED
  BY <1>1, <1>2, <1>3, <1>4, <1>5, <1>6, <1>7, <1>8, <1>9, <1>10, <1>11, <1>12, <1>13, <1>14,
     <1>15, <1>16, <1>17, <1>18, <1>19 DEF JenkinsNext, CallNext

\* The self-hosted runner, but for what is below _diag.
HostedKinds ==
    /\ conf \in [start : BOOLEAN, ephemeral : BOOLEAN, fan : BOOLEAN]
    /\ listener \in {"up", "down"}
    /\ hAt \in {"start", "watch", "join", "drain", "read", "done"}
    /\ runsh \in {"none", "running", "zero", "nonzero", "killed"}
    /\ held \in BOOLEAN /\ seen \in BOOLEAN /\ grew \in BOOLEAN
    /\ streamed \in {"none", "running", "zero", "nonzero", "timed_out",
                     "cancelled", "missing", "raised"}
    /\ watch \in {"absent", "unmarked", "marked", "stale"}
    /\ dueCause \subseteq {"cancelled", "timed_out"}
    /\ lastSize \in 0 .. MaxWrites /\ tail \in 0 .. MaxWrites
    /\ outcome \in {"none", "refused", "cancelled", "succeeded", "failed",
                    "timed_out", "idle", "raised"}

LEMMA HostedKindsKeep ==
  ASSUME HostedKinds, HostedDiag, [HostedNext]_hostedVars
  PROVE  HostedKinds'
<1> USE DEF HostedKinds, runVars, diagVars, watchVars
<1>1. CASE UNCHANGED hostedVars
  BY <1>1 DEF hostedVars
<1>2. CASE LogWritten \/ DiagRemoved
  <2>1. UNCHANGED <<conf, listener, hAt, runsh, held, streamed, dueCause, lastSize, seen, grew,
                    tail, outcome>>
    BY <1>2 DEF LogWritten, DiagRemoved
  <2>2. watch' \in {"absent", "unmarked", "marked", "stale"}
    BY <1>2 DEF LogWritten, DiagRemoved
  <2> QED
    BY <2>1, <2>2
<1>3. CASE RunShExits
  BY <1>3 DEF RunShExits
<1>4. CASE LetsGo
  <2>1. UNCHANGED <<conf, listener, hAt, runsh, streamed, dueCause, lastSize, seen, grew,
                    watch, tail, outcome>>
    BY <1>4 DEF LetsGo
  <2>2. held' \in BOOLEAN
    BY <1>4 DEF LetsGo
  <2> QED
    BY <2>1, <2>2
<1>5. CASE \E c \in {"cancelled", "timed_out"} : HostedDue(c)
  BY <1>5 DEF HostedDue
<1>6. CASE StreamEnds \/ StreamRaises
  <2>1. watch' \in {"absent", "unmarked", "marked", "stale"}
    BY <1>6 DEF StreamEnds, StreamRaises, Drain
  <2>2. /\ streamed' \in {"zero", "nonzero", "raised"}
        /\ UNCHANGED <<conf, listener, hAt, runsh, held, dueCause, lastSize, seen, grew, tail, outcome>>
    BY <1>6 DEF StreamEnds, StreamRaises
  <2> QED
    BY <2>1, <2>2
<1>7. CASE \E c \in {"cancelled", "timed_out"} : StreamCut(c)
  BY <1>7 DEF StreamCut, Drain
<1>8. CASE RefuseHosted
  BY <1>8 DEF RefuseHosted, Finish
<1>9. CASE WatchListener
  BY <1>9 DEF WatchListener
<1>10. CASE StartRunner
  BY <1>10 DEF StartRunner
<1>11. CASE Sample
  <2>1. UNCHANGED <<conf, listener, hAt, runsh, held, streamed, dueCause, tail, outcome>>
    BY <1>11 DEF Sample
  <2>2. seen' \in BOOLEAN /\ grew' \in BOOLEAN
    BY <1>11 DEF Sample
  <2>3. lastSize' \in 0 .. MaxWrites
    BY <1>11 DEF Sample, HostedDiag
  <2>4. watch' \in {"absent", "unmarked", "marked", "stale"}
    BY <1>11 DEF Sample, Drain
  <2> QED
    BY <2>1, <2>2, <2>3, <2>4
<1>12. CASE SampleRaises
  BY <1>12 DEF SampleRaises, Finish
<1>13. CASE StopWatching \/ JoinRunner
  <2>1. UNCHANGED <<conf, listener, runsh, held, streamed, dueCause, lastSize, seen, grew, watch,
                    tail, outcome>>
    BY <1>13 DEF StopWatching, JoinRunner
  <2>2. hAt' \in {"join", "drain"}
    BY <1>13 DEF StopWatching, JoinRunner
  <2> QED
    BY <2>1, <2>2
<1>14. CASE LastDrain
  BY <1>14 DEF LastDrain, Drain
<1>15. CASE ReadDiag
  <2>1. /\ outcome' \in {"cancelled", "succeeded", "failed", "refused", "timed_out", "idle"}
        /\ hAt' = "done"
    BY <1>15 DEF ReadDiag, Finish, WindowTimeout, FromStream
  <2>2. tail' \in 0 .. MaxWrites
    BY <1>15 DEF ReadDiag, HostedDiag
  <2> QED
    BY <1>15, <2>1, <2>2 DEF ReadDiag
<1> QED
  BY <1>1, <1>2, <1>3, <1>4, <1>5, <1>6, <1>7, <1>8, <1>9, <1>10, <1>11, <1>12, <1>13, <1>14,
     <1>15 DEF HostedNext

LEMMA ActTypeKeeps ==
  ASSUME ActTypeOK, [ActNext]_actVars
  PROVE  ActTypeOK'
<1> USE DEF ActTypeOK, ActGoes
<1>1. CASE UNCHANGED actVars
  BY <1>1 DEF actVars
<1>2. CASE CancelAct
  BY <1>2 DEF CancelAct
<1>3. CASE GiveUp
  BY <1>3 DEF GiveUp
<1>4. CASE ScanWorkflow \/ AskHelp
  BY <1>4 DEF ScanWorkflow, AskHelp
<1>5. CASE MakeScratch
  BY <1>5 DEF MakeScratch
<1>6. CASE ImageThere
  BY <1>6 DEF ImageThere
<1>7. CASE Leave
  BY <1>7 DEF Leave
<1>8. CASE PushAct
  BY <1>8 DEF PushAct
<1>9. CASE ActEnds
  BY <1>9 DEF ActEnds, StreamResults
<1>10. CASE ListContainers
  BY <1>10 DEF ListContainers
<1>11. CASE RemoveContainers
  BY <1>11 DEF RemoveContainers
<1>12. CASE RemoveScratch
  BY <1>12 DEF RemoveScratch
<1>13. CASE ActResult
  BY <1>13 DEF ActResult, FromStreamResult, StreamResults
<1> QED
  BY <1>1, <1>2, <1>3, <1>4, <1>5, <1>6, <1>7, <1>8, <1>9, <1>10, <1>11, <1>12, <1>13
     DEF ActNext

\* A handler answers, goes on, or starts a command.
HandlerSteps == {"idle", "dispatch", "handler", "checked", "toplevel", "script",
                 "run", "readers"}

LEMMA AnswersKeeps ==
  ASSUME ToolTypeOK, NEW r \in Replies, NEW ws \in SUBSET Files, Answers(r, ws)
  PROVE  ToolTypeOK'
<1>1. /\ handlerAt' = "idle" /\ reply' = r /\ wrote' = wrote \cup ws
      /\ tool' = tool /\ cmd' = cmd /\ leftover' = leftover /\ timeUp' = timeUp
      /\ stopped' = stopped /\ pipeline' = pipeline /\ newer' = newer /\ db' = db
      /\ bulletIndex' = bulletIndex
  BY DEF Answers, callVars, worldVars
<1>2. wrote' \subseteq Files
  BY <1>1 DEF ToolTypeOK
<1> QED
  BY <1>1, <1>2 DEF ToolTypeOK

LEMMA GoesOnKeeps ==
  ASSUME ToolTypeOK, NEW to \in HandlerSteps, GoesOn(to)
  PROVE  ToolTypeOK'
BY DEF GoesOn, callVars, worldVars, ToolTypeOK, HandlerSteps

LEMMA StartKeeps ==
  ASSUME ToolTypeOK, NEW to \in HandlerSteps, Start(to)
  PROVE  ToolTypeOK'
<1>1. leftover' \in BOOLEAN /\ timeUp' \in BOOLEAN
  BY DEF Start
<1>2. /\ handlerAt' \in HandlerSteps /\ cmd' = "running"
      /\ tool' = tool /\ reply' = reply /\ wrote' = wrote
      /\ stopped' = stopped /\ pipeline' = pipeline /\ newer' = newer /\ db' = db
      /\ bulletIndex' = bulletIndex
  BY DEF Start, worldVars
<1> QED
  BY <1>1, <1>2 DEF ToolTypeOK, HandlerSteps

LEMMA ToolTypeKeeps ==
  ASSUME ToolTypeOK, [ToolNext]_toolVars
  PROVE  ToolTypeOK'
<1> DEFINE Answered == \E r \in Replies, ws \in SUBSET Files : Answers(r, ws)
           WentOn == \E to \in HandlerSteps : GoesOn(to)
           Started == \E to \in HandlerSteps : Start(to)
<1>1. CASE UNCHANGED toolVars
  BY <1>1 DEF ToolTypeOK, toolVars
<1>2. CASE PipelineLocks
  <2>1. pipeline' \in {"blank", "live"} /\ newer' \in BOOLEAN
    BY <1>2 DEF PipelineLocks, ToolTypeOK
  <2> QED
    BY <1>2, <2>1 DEF PipelineLocks, ToolTypeOK, callVars
<1>3. CASE PipelineEnds \/ FilesChange
  BY <1>3 DEF PipelineEnds, FilesChange, ToolTypeOK, callVars
<1>4. CASE CommandExits \/ CancelCall \/ TimeIsUp
  BY <1>4 DEF CommandExits, CancelCall, TimeIsUp, ToolTypeOK, callVars, worldVars
<1>5. CASE LeftoverEnds
  <2>1. leftover' \in BOOLEAN
    BY <1>5 DEF LeftoverEnds
  <2> QED
    BY <1>5, <2>1 DEF LeftoverEnds, ToolTypeOK, callVars, worldVars
<1>6. CASE \E t \in Tools : CallTool(t)
  BY <1>6 DEF CallTool, ToolTypeOK, Files, Replies
<1>7. CASE Answered
  BY <1>7, AnswersKeeps
<1>8. CASE WentOn
  BY <1>8, GoesOnKeeps
<1>9. CASE Started
  BY <1>9, StartKeeps
<1>10. CASE ResolvePair \/ AgentEscapes \/ ValidateHandoff \/ StateSnapshot \/ StateAppendDelta
            \/ StateMetricsLog \/ MemoryReads \/ AuditUpdate
  <2>1. Answered \/ WentOn
    BY <1>10 DEF ResolvePair, AgentEscapes, ContainedAgent, ValidateHandoff, StateSnapshot,
       StateAppendDelta, StateMetricsLog, MemoryReads, AuditUpdate, Replies, Files, HandlerSteps
  <2> QED
    BY <2>1, <1>7, <1>8
<1>11. CASE KnowledgeFile \/ ReadKnowledge \/ PlaybooksBlocked \/ ProxyHealth
            \/ ProxyStats \/ IntegrationsStatus \/ PytestArgs
  <2>1. Answered \/ WentOn
    BY <1>11 DEF KnowledgeFile, ReadKnowledge, PlaybooksBlocked, ProxyHealth, ProxyStats,
       IntegrationsStatus, PytestArgs, Replies, Files, HandlerSteps
  <2> QED
    BY <2>1, <1>7, <1>8
<1>12. CASE GitToplevel \/ GitScript \/ DockerCompose \/ SpawnEnds
  <2>1. Answered \/ WentOn \/ Started
    BY <1>12 DEF GitToplevel, GitScript, DockerCompose, SpawnEnds, SpawnOr, Replies, Files,
                 HandlerSteps
  <2> QED
    BY <2>1, <1>7, <1>8, <1>9
<1>13. CASE MemoryUpdate
  <2>1. CASE Answered
    BY <2>1, <1>7
  <2>2. CASE handlerAt' = "checked" /\ wrote' = {"memory"}
             /\ UNCHANGED <<tool, reply, callVars, stopped, worldVars>>
    BY <2>2 DEF ToolTypeOK, Files, callVars, worldVars
  <2> QED
    BY <1>13, <2>1, <2>2 DEF MemoryUpdate, Replies, Files
<1>14. CASE ReadPlaybooks
  <2>1. /\ reply' \in Replies /\ wrote' \subseteq Files /\ handlerAt' = "idle"
        /\ bulletIndex' \in {"none", "torn", "good"}
    BY <1>14 DEF ReadPlaybooks, Replies, Files, ToolTypeOK
  <2> QED
    BY <1>14, <2>1 DEF ReadPlaybooks, ToolTypeOK, callVars
<1>15. CASE PeekPipeline
  <2>1. CASE Answers("refused", {})
    BY <2>1, <1>7 DEF Replies
  <2>2. CASE ~Answers("refused", {})
    <3>1. newer' \in BOOLEAN /\ leftover' \in BOOLEAN /\ timeUp' \in BOOLEAN
      BY <1>15, <2>2 DEF PeekPipeline, callVars, ToolTypeOK
    <3>2. handlerAt' \in {"run", "idle"} /\ cmd' \in {cmd, "running"} /\ reply' \in {reply, "refused"}
      BY <1>15, <2>2 DEF PeekPipeline, callVars
    <3>3. UNCHANGED <<tool, wrote, stopped, pipeline, db, bulletIndex>>
      BY <1>15, <2>2 DEF PeekPipeline
    <3> QED
      BY <3>1, <3>2, <3>3 DEF ToolTypeOK, Replies
  <2> QED
    BY <2>1, <2>2
<1>16. CASE KillSpawn
  <2>1. leftover' \in BOOLEAN
    BY <1>16 DEF KillSpawn
  <2>2. reply' \in Replies
    BY <1>16 DEF KillSpawn, Replies
  <2> QED
    BY <1>16, <2>1, <2>2 DEF KillSpawn, ToolTypeOK, worldVars
<1> QED
  BY <1>1, <1>2, <1>3, <1>4, <1>5, <1>6, <1>10, <1>11, <1>12, <1>13, <1>14, <1>15, <1>16
     DEF ToolNext, HandlerNext

LEMMA ProbeTypeKeeps ==
  ASSUME ProbeTypeOK, [ProbeNext]_probeVars
  PROVE  ProbeTypeOK'
<1> USE DEF ProbeTypeOK, HostedSteps, HostedCodes, ActCodes, GetCodes, worldOfProbe,
            seenOfProbe, threadOfGet
<1>1. CASE UNCHANGED probeVars
  BY <1>1 DEF probeVars
<1>2. CASE ListenerChanges
  BY <1>2 DEF ListenerChanges
<1>3. CASE UnitChanges
  BY <1>3 DEF UnitChanges
<1>4. CASE ListenerWrites
  <2>1. /\ grown' \in BOOLEAN /\ wasFresh' \in BOOLEAN /\ listens' \in BOOLEAN
        /\ runnerLog' = "fresh"
    BY <1>4 DEF ListenerWrites
  <2> QED
    BY <1>4, <2>1 DEF ListenerWrites
<1>5. CASE LogAges \/ LogRemoved
  BY <1>5 DEF LogAges, LogRemoved
<1>6. CASE ProbeAct \/ ProbeSelfHosted \/ ProbeJenkins
  BY <1>6 DEF ProbeAct, ProbeSelfHosted, ProbeJenkins, Starts
<1>7. CASE DockerInfo \/ ActVersion \/ BudgetSpent
  BY <1>7 DEF DockerInfo, ActVersion, BudgetSpent, Ends, Moves, Passes
<1>8. CASE ListProcesses
  <2>1. listed' \in BOOLEAN /\ probeAt' = "dir"
    BY <1>8 DEF ListProcesses, Passes
  <2> QED
    BY <1>8, <2>1 DEF ListProcesses, Passes
<1>9. CASE RunnerDir \/ Registered \/ NewestLog \/ ReadLog
  BY <1>9 DEF RunnerDir, Registered, NewestLog, ReadLog, Ends, Moves, Passes
<1>10. CASE SampleSize
  <2>1. grown' \in BOOLEAN
    BY <1>10 DEF SampleSize, Ends
  <2> QED
    BY <1>10, <2>1 DEF SampleSize, Ends, Passes
<1>11. CASE SystemdActive
  BY <1>11 DEF SystemdActive, Ends, Moves, Passes
<1>12. CASE MatchProcess \/ CompareLog \/ ListeningText \/ CheckLabels
  BY <1>12 DEF MatchProcess, CompareLog, ListeningText, CheckLabels, Ends, Moves, Passes
<1>13. CASE JenkinsGet \/ JenkinsExchange \/ JoinGet
  BY <1>13 DEF JenkinsGet, JenkinsExchange, JoinGet, Ends
<1> QED
  BY <1>1, <1>2, <1>3, <1>4, <1>5, <1>6, <1>7, <1>8, <1>9, <1>10, <1>11, <1>12, <1>13
     DEF ProbeNext

----------------------------------------------------------------------------
(* Together.                                                                *)

\* A step of the whole is a step of each part, or leaves it alone.
LEMMA LongCallsStep ==
  ASSUME [Next]_vars
  PROVE  /\ [ServerNext]_serverVars /\ [StreamNext]_streamVars /\ [ToolNext]_toolVars
         /\ [HostedNext]_hostedVars /\ [ActNext]_actVars /\ [JenkinsNext]_jenkinsVars
         /\ [PipelineNext]_pipelineVars /\ [ProbeNext]_probeVars /\ [BoundNext]_boundVars
<1>1. CASE UNCHANGED vars
  BY <1>1 DEF vars
<1>2. CASE Next
  BY <1>2 DEF Next, Server, Stream, Jenkins, Hosted, Act, Pipeline, ToolsPart, Probe,
              Bound, Still
<1> QED
  BY <1>1, <1>2

\* What the calls say, and what is left of them, in one invariant.
Reported == StreamLines /\ JenkinsLog /\ HostedDiag /\ BoundInv /\ PipelineInv

LEMMA ReportedInit == Init => Reported
<1> SUFFICES ASSUME Init PROVE Reported
  OBVIOUS
<1>1. StreamLines
  BY StreamAssumption DEF Init, StreamInit, StreamLines
<1>2. JenkinsLog
  <2>1. holed \in BOOLEAN
    BY DEF Init, JenkinsInit
  <2>2. log = 0 /\ offset = 0 /\ got = 0 /\ step = "start"
    BY DEF Init, JenkinsInit
  <2> QED
    BY <2>1, <2>2, JenkinsAssumption DEF JenkinsLog
<1>3. HostedDiag
  BY HostedAssumption DEF Init, HostedInit, HostedDiag, DeletedDiagIsKept
<1>4. BoundInv
  <2>1. named = {} /\ IsFiniteSet(named) /\ Cardinality(named) = 0
    BY FS_EmptySet DEF Init, BoundInit
  <2>2. "keep" \in Parts /\ size \in [Parts -> 0 .. MaxSize] /\ size["keep"] \in Nat
        /\ Limit \in Nat /\ bounding = "pack"
    BY BoundAssumption DEF Init, BoundInit, Parts
  <2> QED
    BY <2>1, <2>2 DEF BoundInv, BoundTypeOK
<1>5. PipelineInv
  <2>1. records \ spared = {} /\ Cardinality(records \ spared) = 0
    BY FS_EmptySet DEF Init, PipelineInit
  <2> QED
    BY <2>1, PipelineAssumption
       DEF Init, PipelineInit, PipelineInv, PipelineTypeOK, NameFits, StampsOld,
           DoomedFits, LogsHaveRecords, RecordsBounded, InBody, Bodies
<1> QED
  BY <1>1, <1>2, <1>3, <1>4, <1>5 DEF Reported

LEMMA ReportedKeeps ==
  ASSUME Reported, [Next]_vars
  PROVE  Reported'
BY LongCallsStep, StreamLinesKeep, JenkinsLogKeeps, HostedDiagKeeps, BoundKeeps, PipelineKeeps
   DEF Reported

\* The rest of the types.
Typed ==
    /\ ServerInv /\ ServerRest /\ StreamKinds /\ JenkinsKinds /\ HostedKinds
    /\ ActTypeOK /\ ToolTypeOK /\ ProbeTypeOK

LEMMA TypedInit == Init => Typed
<1> SUFFICES ASSUME Init PROVE Typed
  OBVIOUS
<1>1. ServerInv /\ ServerRest
  BY ServerInitInv, ServerAssumption DEF Init, ServerInit, ServerRest
<1>2. StreamKinds
  <2>1. pending \in BOOLEAN /\ cancelSet \in BOOLEAN /\ overdue \in BOOLEAN
    BY DEF Init, StreamInit
  <2>2. /\ child = "running" /\ holder = "none" /\ pipes = "open" /\ recent = 0 /\ seconds = 0
        /\ at = "loop" /\ verdict = "none"
    BY DEF Init, StreamInit
  <2> QED
    BY <2>1, <2>2, StreamAssumption DEF StreamKinds
<1>3. JenkinsKinds
  <2>1. /\ queueId \in BOOLEAN /\ number \in BOOLEAN /\ checked \in BOOLEAN
        /\ stopSent \in BOOLEAN
    BY DEF Init, JenkinsInit
  <2>2. /\ step = "start" /\ cause = "none" /\ due = {} /\ item = "none" /\ result = "none"
        /\ status = "none" /\ posted = "none"
    BY DEF Init, JenkinsInit
  <2> QED
    BY <2>1, <2>2 DEF JenkinsKinds, Steps, Causes, Statuses
<1>4. HostedKinds
  <2>1. held \in BOOLEAN /\ seen \in BOOLEAN /\ grew \in BOOLEAN
    BY DEF Init, HostedInit
  <2> QED
    BY <2>1, HostedAssumption DEF Init, HostedInit, HostedKinds
<1>5. ActTypeOK
  <2>1. scratch \in BOOLEAN /\ containers \in BOOLEAN /\ dockerDown \in BOOLEAN
    BY DEF Init, ActInit
  <2>2. rmFailed \in BOOLEAN /\ aCancel \in BOOLEAN /\ pulls \in BOOLEAN
    BY DEF Init, ActInit
  <2>3. aStep = "start" /\ streamEnd = "none" /\ aStatus = "none"
    BY DEF Init, ActInit
  <2> QED
    BY <2>1, <2>2, <2>3 DEF ActTypeOK
<1>6. ToolTypeOK
  BY DEF Init, ToolInit, ToolTypeOK, Replies
<1>7. ProbeTypeOK
  BY DEF Init, ProbeInit, ProbeTypeOK
<1> QED
  BY <1>1, <1>2, <1>3, <1>4, <1>5, <1>6, <1>7 DEF Typed

LEMMA TypedKeeps ==
  ASSUME Typed, HostedDiag, [Next]_vars
  PROVE  Typed'
BY LongCallsStep, ServerStepKeeps, ServerRestKeeps, StreamKindsKeep, JenkinsKindsKeep,
   HostedKindsKeep, ActTypeKeeps, ToolTypeKeeps, ProbeTypeKeeps
   DEF Typed

LEMMA TypesAreRight == Typed /\ Reported => TypeOK
<1> SUFFICES ASSUME Typed, Reported PROVE TypeOK
  OBVIOUS
<1>1. ServerTypeOK
  BY DEF Typed, ServerInv, ServerTypes, ServerRest, ServerTypeOK
<1>2. StreamTypeOK
  BY StreamTyped DEF Typed, Reported
<1>3. JenkinsTypeOK
  BY JenkinsAssumption DEF Typed, Reported, JenkinsKinds, JenkinsLog, JenkinsTypeOK
<1>4. HostedTypeOK
  BY DEF Typed, Reported, HostedKinds, HostedDiag, HostedTypeOK
<1> QED
  BY <1>1, <1>2, <1>3, <1>4
     DEF Typed, Reported, TypeOK, PipelineInv, BoundInv

----------------------------------------------------------------------------
\* A request is answered once at most, the gate is held for a worker that runs
\* or could not be started, and a call in flight knows of the shutdown
\* (_dispatch, _start_call, _run_call and shutdown_wait of server.py), for any
\* ids and any number of frames.
THEOREM OneCall == Spec => []OneCallAtATime
<1>1. Init => ServerInv
  BY ServerInitInv DEF Init
<1>2. ServerInv /\ [Next]_vars => ServerInv'
  BY LongCallsStep, ServerStepKeeps
<1>3. ServerInv => OneCallAtATime
  BY DEF ServerInv, OnlyTaken, AnsweredAtMostOnce, OneCallAtATime
<1> QED
  BY <1>1, <1>2, <1>3, PTL DEF Spec

\* What a call started is gone when it returns: the process group of a
\* command, run.sh, the containers and the scratch directory of act, the build
\* of Jenkins whose number is known (kill_process_group of stream.py, _spawn of
\* tools/local.py, the three backends), for any bounds.
THEOREM CallsLeaveNothing == Spec => []NothingLeftBehind
<1>1. Init => LeavesNothing
  BY LeavesNothingInit
<1>2. LeavesNothing /\ [Next]_vars => LeavesNothing'
  BY LongCallsStep, StreamKeeps, ToolKeeps, HostedKeeps, ActKeeps, JenkinsKeeps
     DEF LeavesNothing
<1>3. LeavesNothing => NothingLeftBehind
  BY DEF LeavesNothing, StreamInv, ToolInv, HostedInv, ActInv, JenkinsInv,
         NothingLeftBehind, ActLeavesNothing, KnownBuildIsStopped
<1> QED
  BY <1>1, <1>2, <1>3, PTL DEF Spec

\* pytest_run runs beside a pipeline only when the pipeline wrote its pid after
\* the look at its lock, and a tool that only reads, or refuses, has written
\* nothing (_pytest_run, _pipeline_lock_held, _read_knowledge of tools/local.py).
THEOREM ToolsYield == Spec => []ToolsKeepOut
<1>1. Init => LeavesNothing
  BY LeavesNothingInit
<1>2. LeavesNothing /\ [Next]_vars => LeavesNothing'
  BY LongCallsStep, StreamKeeps, ToolKeeps, HostedKeeps, ActKeeps, JenkinsKeeps
     DEF LeavesNothing
<1>3. LeavesNothing => ToolsKeepOut
  BY DEF LeavesNothing, ToolInv
<1> QED
  BY <1>1, <1>2, <1>3, PTL DEF Spec

\* Every line of a command is notified or counted as dropped, when the call was
\* not cut short (_LineQueue.put, _Sink._notify, flush_progress of stream.py);
\* the console of a build is whole or says that a range is missing (tail and
\* _next_start of backends/jenkins.py); and an answer fits its limit when the
\* identity does, names and all (_bound_payload of tools/local.py).
THEOREM OutputIsAccounted == Spec => []OutputAccounted
<1>1. Init => Reported
  BY ReportedInit
<1>2. Reported /\ [Next]_vars => Reported'
  BY ReportedKeeps
<1>3. Reported => OutputAccounted
  BY StreamAccounts, BoundAnswer DEF Reported, JenkinsLog, LogWholeOrFlagged, OutputAccounted
<1> QED
  BY <1>1, <1>2, <1>3, PTL DEF Spec

\* What an ephemeral runner logged before the last drain is in the tail of the
\* result (_DiagSnap of backends/self_hosted.py), every log of a pipeline has a
\* record or the run was torn, and the records stay within what _prune
\* leaves room for (_commit of pipeline.py), for any servers and runs.
THEOREM RunLogsAreKept == Spec => []LogsKept
<1>1. Init => Reported
  BY ReportedInit
<1>2. Reported /\ [Next]_vars => Reported'
  BY ReportedKeeps
<1>3. Reported => LogsKept
  BY DEF Reported, HostedDiag, PipelineInv, LogsKept
<1> QED
  BY <1>1, <1>2, <1>3, PTL DEF Spec

\* A backend that is said to be ready was seen so by the looks of this probe
\* (probe_act, probe_self_hosted, probe_jenkins of probe.py).
THEOREM ReadyWasSeen == Spec => []ProbeOkWasSeen
<1>1. Init => ProbeSeen
  BY DEF Init, ProbeInit, ProbeSeen, ProbeOkWasSeen, HostedSteps
<1>2. ProbeSeen /\ [Next]_vars => ProbeSeen'
  BY LongCallsStep, ProbeKeeps
<1>3. ProbeSeen => ProbeOkWasSeen
  BY DEF ProbeSeen
<1> QED
  BY <1>1, <1>2, <1>3, PTL DEF Spec

\* The state of the server, of its calls and of its tools keeps its type, and
\* the counters their bounds, though the code never looks at most of them: no
\* subtraction goes below zero (flush_progress, _LineQueue, _DiagSnap).
THEOREM LongCallsTypes == Spec => []TypeOK
<1>1. Init => Typed /\ Reported
  BY TypedInit, ReportedInit
<1>2. Typed /\ Reported /\ [Next]_vars => (Typed /\ Reported)'
  BY TypedKeeps, ReportedKeeps DEF Reported
<1>3. Typed /\ Reported => TypeOK
  BY TypesAreRight
<1> QED
  BY <1>1, <1>2, <1>3, PTL DEF Spec

=============================================================================
