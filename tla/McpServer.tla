----------------------------- MODULE McpServer -----------------------------
(***************************************************************************)
(* The stdio server of the local MCP (memory/local_mcp/server.py over      *)
(* framing.py).  Three threads: the main one waits for the reader and      *)
(* receives the signals; the reader takes a frame from stdin, answers it   *)
(* or starts a call, and reads again; a worker runs the one tools/call     *)
(* that may be in flight, answers it, and then gives the gate back.        *)
(*                                                                         *)
(* The reader sleeps in select on stdin and on a wake socket.  A shutdown  *)
(* writes one byte to that socket, cancels the call in flight, waits for   *)
(* it a bounded time, and closes the socket.  A reader that comes back to  *)
(* read after the socket was closed has only stdin to sleep on.            *)
(*                                                                         *)
(* A frame is its kind and its id.  The client is external: it writes      *)
(* frames, one request per id, and closes its end when it likes.           *)
(***************************************************************************)
EXTENDS Naturals, Sequences, FiniteSets

CONSTANTS
    Ids,        \* the ids a client gives its requests
    NoCall,     \* "no call is in flight", not an id
    MaxFrames   \* bound: the frames one client writes

ASSUME ServerAssumption == NoCall \notin Ids /\ MaxFrames \in Nat

VARIABLES
    inbox,      \* the frames in the stdin pipe
    sent,       \* how many frames the client has written
    stdin,      \* the client's end: "open" or "closed"
    reader,     \* where the reader thread is
    frame,      \* the frame the reader dispatches, as a set
    flight,     \* _Gate._flight: the id of the call in flight
    cancelled,  \* the cancel event of that call
    worker,     \* the worker thread of that call
    main,       \* where the main thread is
    wake,       \* the wake socket: open, and whether a byte waits in it
    answers,    \* history: how many answers each id got
    taken,      \* history: the requests the reader took from stdin
    fault       \* history: "none", "start" (no worker thread), "read", "kill"

serverVars == <<inbox, sent, stdin, reader, frame, flight, cancelled, worker,
                main, wake, answers, taken, fault>>

\* What _dispatch tells apart.  "bad" has no usable id and is answered with
\* a null one; "cancel" is a notification and is never answered.
\* "other" is ping, initialize, tools/list and unknown methods.
Kinds    == {"call", "other", "bad", "cancel"}
Frame    == [kind : Kinds, id : Ids]
Requests == {"call", "other"}

ServerTypeOK ==
    /\ inbox \in Seq(Frame) /\ sent \in 0 .. MaxFrames
    /\ stdin \in {"open", "closed"}
    /\ reader \in {"select", "blind", "dispatch", "ended"}
    /\ frame \in {{}} \cup {{f} : f \in Frame}
    /\ flight \in Ids \cup {NoCall} /\ cancelled \in BOOLEAN
    /\ worker \in {"none", "running", "answered"}
    /\ main \in {"join", "wait", "close", "threads", "exited"}
    /\ wake \in [open : BOOLEAN, byte : BOOLEAN]
    /\ answers \in [Ids -> Nat] /\ taken \subseteq Ids
    /\ fault \in {"none", "start", "read", "kill"}

ServerInit ==
    /\ inbox = <<>> /\ sent = 0 /\ stdin = "open"
    /\ reader = "select" /\ frame = {}
    /\ flight = NoCall /\ cancelled = FALSE /\ worker = "none"
    /\ main = "join"
    /\ wake = [open |-> TRUE, byte |-> FALSE]
    /\ answers = [i \in Ids |-> 0] /\ taken = {} /\ fault = "none"

----------------------------------------------------------------------------
(* The client.                                                              *)

Used == taken \cup {inbox[k].id : k \in {j \in 1 .. Len(inbox) :
                                            inbox[j].kind \in Requests}}

ClientWrites(f) ==
    /\ stdin = "open" /\ sent < MaxFrames /\ main # "exited"
    /\ f.kind \in Requests => f.id \notin Used
    /\ inbox' = Append(inbox, f) /\ sent' = sent + 1
    /\ UNCHANGED <<stdin, reader, frame, flight, cancelled, worker, main,
                   wake, answers, taken, fault>>

ClientCloses ==
    /\ stdin = "open" /\ stdin' = "closed"
    /\ UNCHANGED <<inbox, sent, reader, frame, flight, cancelled, worker,
                   main, wake, answers, taken, fault>>

----------------------------------------------------------------------------
(* The reader.  Back at read_message it passes the wake socket on, if there *)
(* is one left.  Bytes of stdin go before the wake byte.                    *)

BackToRead == reader' = IF wake.open THEN "select" ELSE "blind"

Answer(i) == answers' = [answers EXCEPT ![i] = @ + 1]

CancelCurrent == cancelled' = (cancelled \/ flight # NoCall)

TakeFrame ==
    /\ reader \in {"select", "blind"} /\ inbox # <<>>
    /\ frame' = {Head(inbox)} /\ inbox' = Tail(inbox)
    /\ taken' = IF Head(inbox).kind \in Requests
                THEN taken \cup {Head(inbox).id} ELSE taken
    /\ reader' = "dispatch"
    /\ UNCHANGED <<sent, stdin, flight, cancelled, worker, main, wake, answers, fault>>

\* The end of the input leaves it to shutdown_wait to cancel.
EndOfInputBroken ==
    /\ inbox = <<>>
    /\ \/ reader \in {"select", "blind"} /\ stdin = "closed" /\ UNCHANGED wake
       \/ reader = "select" /\ stdin = "open" /\ wake.byte
          /\ wake' = [wake EXCEPT !.byte = FALSE]
    /\ reader' = "ended"
    /\ UNCHANGED <<inbox, sent, stdin, frame, flight, cancelled, worker, main,
                   answers, taken, fault>>

\* End of stdin, or the wake byte: both reach _read_loop as EOFError.
EndOfInput ==
    /\ inbox = <<>>
    /\ \/ reader \in {"select", "blind"} /\ stdin = "closed" /\ UNCHANGED wake
       \/ reader = "select" /\ stdin = "open" /\ wake.byte
          /\ wake' = [wake EXCEPT !.byte = FALSE]
    /\ CancelCurrent /\ reader' = "ended"
    /\ UNCHANGED <<inbox, sent, stdin, frame, flight, worker, main, answers, taken, fault>>

\* os.read fails: the loop returns and cancels nothing.
ReadFails ==
    /\ reader \in {"select", "blind"} /\ inbox = <<>> /\ fault = "none"
    /\ reader' = "ended" /\ fault' = "read"
    /\ UNCHANGED <<inbox, sent, stdin, frame, flight, cancelled, worker,
                   main, wake, answers, taken>>

\* _dispatch of a notification or of a frame without a usable id.
DispatchOther ==
    /\ reader = "dispatch"
    /\ \E f \in frame :
         /\ f.kind \in {"bad", "cancel"}
         /\ cancelled' = (cancelled \/ (f.kind = "cancel" /\ flight = f.id))
    /\ frame' = {} /\ BackToRead
    /\ UNCHANGED <<inbox, sent, stdin, flight, worker, main, wake,
                   answers, taken, fault>>

\* Answered on the reader thread; everything but ping is refused while a
\* call is in flight.
DispatchAnswered ==
    /\ reader = "dispatch"
    /\ \E f \in frame : f.kind \in Requests /\ Answer(f.id)
    /\ frame' = {} /\ BackToRead
    /\ UNCHANGED <<inbox, sent, stdin, flight, cancelled, worker, main,
                   wake, taken, fault>>

\* A call that fails its argument checks never asks for the gate.
RefuseCall == (\A f \in frame : f.kind = "call") /\ DispatchAnswered

StartCall ==
    /\ reader = "dispatch" /\ flight = NoCall
    /\ \E f \in frame : f.kind = "call" /\ flight' = f.id
    /\ cancelled' = FALSE /\ worker' = "running"
    /\ frame' = {} /\ BackToRead
    /\ UNCHANGED <<inbox, sent, stdin, main, wake, answers, taken,
                   fault>>

\* The gate is taken and worker.start() raises: the request is answered with
\* an internal error, and nothing gives the gate back.
StartFails ==
    /\ reader = "dispatch" /\ flight = NoCall /\ fault = "none"
    /\ \E f \in frame : f.kind = "call" /\ flight' = f.id /\ Answer(f.id)
    /\ cancelled' = FALSE /\ fault' = "start"
    /\ frame' = {} /\ BackToRead
    /\ UNCHANGED <<inbox, sent, stdin, worker, main, wake, taken>>

----------------------------------------------------------------------------
(* The worker: the executor returns or raises, either way one answer goes   *)
(* out, and the gate is given back after it.                                *)

\* A call that was cancelled sends nothing.
RunCallBroken ==
    /\ worker = "running" /\ worker' = "answered"
    /\ IF cancelled THEN UNCHANGED answers ELSE Answer(flight)
    /\ UNCHANGED <<inbox, sent, stdin, reader, frame, flight, cancelled,
                   main, wake, taken, fault>>

RunCall ==
    /\ worker = "running" /\ worker' = "answered"
    /\ Answer(flight)
    /\ UNCHANGED <<inbox, sent, stdin, reader, frame, flight, cancelled,
                   main, wake, taken, fault>>

FinishCall ==
    /\ worker = "answered" /\ worker' = "none"
    /\ flight' = NoCall /\ cancelled' = FALSE
    /\ UNCHANGED <<inbox, sent, stdin, reader, frame, main, wake,
                   answers, taken, fault>>

----------------------------------------------------------------------------
(* The main thread.  shutdown_wait is entered by a signal, or when the      *)
(* reader is back.                                                          *)

ShutdownWait ==
    /\ wake' = [wake EXCEPT !.byte = TRUE]
    /\ CancelCurrent
    /\ main' = IF flight = NoCall THEN "close" ELSE "wait"
    /\ UNCHANGED <<inbox, sent, stdin, reader, frame, flight, worker,
                   answers, taken, fault>>

Signal   == main = "join" /\ ShutdownWait
Joined   == main = "join" /\ reader = "ended" /\ ShutdownWait

\* The call is done, or the grace is over.
WaitOver ==
    /\ main = "wait" /\ main' = "close"
    /\ UNCHANGED <<inbox, sent, stdin, reader, frame, flight, cancelled,
                   worker, wake, answers, taken, fault>>

CloseWake ==
    /\ main = "close" /\ main' = "threads"
    /\ wake' = [wake EXCEPT !.open = FALSE]
    /\ UNCHANGED <<inbox, sent, stdin, reader, frame, flight, cancelled,
                   worker, answers, taken, fault>>

\* Neither the reader nor the worker is a daemon: the interpreter waits.
Exit ==
    /\ main = "threads" /\ reader = "ended" /\ worker = "none"
    /\ main' = "exited"
    /\ UNCHANGED <<inbox, sent, stdin, reader, frame, flight, cancelled,
                   worker, wake, answers, taken, fault>>

\* The handlers are restored by then: a second signal ends the process.
SecondSignal ==
    /\ main = "threads" /\ main' = "exited" /\ fault' = "kill"
    /\ reader' = "ended" /\ worker' = "none"
    /\ UNCHANGED <<inbox, sent, stdin, frame, flight, cancelled, wake, answers, taken>>

ReaderNext ==
    \/ TakeFrame \/ EndOfInput \/ DispatchOther
    \/ DispatchAnswered \/ RefuseCall \/ StartCall \/ StartFails

MainNext == Joined \/ WaitOver \/ CloseWake \/ Exit

ServerNext ==
    \/ \E f \in Frame : ClientWrites(f)
    \/ ClientCloses \/ ReadFails \/ ReaderNext
    \/ RunCall \/ FinishCall \/ MainNext
    \/ Signal \/ SecondSignal

ServerFairness ==
    /\ WF_serverVars(ReaderNext) /\ WF_serverVars(MainNext)
    /\ WF_serverVars(RunCall) /\ WF_serverVars(FinishCall)

----------------------------------------------------------------------------
(* No request is answered twice, whether the reader refuses it, the worker  *)
(* finishes it, or its thread could not be started (_dispatch, _run_call).  *)
AnsweredAtMostOnce == \A i \in Ids : answers[i] <= 1

(* The gate is held exactly while a worker runs for it; only a worker that  *)
(* could not be started leaves it held, for ever (_start_call, begin and    *)
(* start are two statements).                                               *)
GateHasWorker ==
    main # "exited" =>
        /\ worker # "none" => flight # NoCall
        /\ flight # NoCall => worker # "none" \/ fault = "start"

(* Once the server is shutting down and its input has ended, a call that is *)
(* still in flight has been cancelled, also one that was begun after the    *)
(* signal by a reader that had not seen it yet (shutdown_wait, _read_loop). *)
ShutdownCancels ==
    reader = "ended" /\ main \notin {"join", "exited"} /\ fault # "read" =>
        flight = NoCall \/ cancelled

(* A request that was read is answered, unless a second signal ends the     *)
(* process.                                                                 *)
EveryRequestAnswered ==
    \A i \in Ids : i \in taken ~> answers[i] > 0 \/ fault = "kill"

(* When the client closes its end the server exits, whatever was in flight, *)
(* signalled or not.                                                        *)
InputEndExits == stdin = "closed" ~> main = "exited"
=============================================================================
