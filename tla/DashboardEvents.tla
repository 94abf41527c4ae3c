-------------------------- MODULE DashboardEvents --------------------------
(***************************************************************************)
(* How a page of the dashboard learns that a file has changed              *)
(* (memory/dashboard: watcher.py, broadcaster.py, actions.py, ws_ui of     *)
(* server.py).  One event loop runs everything: a coroutine gives way only *)
(* where it awaits.  The watcher compares the marks (mtime and size) of    *)
(* the files with those it saw last, waits for the burst of writes to end, *)
(* and sends one message a file to every socket in the pool, one socket    *)
(* after the other.  The handler of a button writes, and sends its own     *)
(* messages in the same way.  A client that does not read holds its sender *)
(* up until the connection is given up.                                    *)
(*                                                                         *)
(* The pages also ask again every few seconds; that is left out, since the *)
(* question is what the messages alone promise.                            *)
(***************************************************************************)
EXTENDS Naturals, FiniteSets

CONSTANTS
    Pages,      \* the clients
    NoPage,     \* no client
    Files,      \* the files that are watched; each is only ever replaced
    NoFile,     \* no file
    StopFile,   \* the file a button writes
    MaxMark,    \* bound: the versions of a file
    MaxJoins    \* bound: the connections

ASSUME EventsAssumption ==
    /\ NoPage \notin Pages /\ NoFile \notin Files /\ StopFile \in Files
    /\ MaxMark \in Nat /\ MaxJoins \in Nat

Senders == {"watcher", "button"}

VARIABLES
    mark,       \* the version of each file
    prevMark,   \* Watcher._prev
    watchAt,    \* the watcher: "sleep", "debounce" or "send"
    buttonAt,   \* the handler of a button: "idle" or "send"
    toTell,     \* the files each sender has a message for
    telling,    \* the file of the message it is sending, or NoFile
    clientsLeft,\* the sockets of its list it has not sent that message to
    sendTo,     \* the socket it is sending to, or NoPage
    sendMark,   \* the versions its messages are about
    conn,       \* each client: "off", "joined" (in the pool), "open", "gone"
    sockets,    \* WSBroadcaster._clients
    stalled,    \* the clients that do not read
    told,       \* the newest version of each file that a message to the client
                \* was about; "connected" makes the page read all of them
    joins       \* how many connections there were

eventsVars == <<mark, prevMark, watchAt, buttonAt, toTell, telling, clientsLeft,
                sendTo, sendMark, conn, sockets, stalled, told, joins>>
sending  == <<toTell, telling, clientsLeft, sendTo, sendMark>>
clients  == <<conn, sockets, stalled, told, joins>>

Marks == [Files -> 0 .. MaxMark]

EventsTypeOK ==
    /\ mark \in Marks /\ prevMark \in Marks
    /\ watchAt \in {"sleep", "debounce", "send"} /\ buttonAt \in {"idle", "send"}
    /\ toTell \in [Senders -> SUBSET Files]
    /\ telling \in [Senders -> Files \cup {NoFile}]
    /\ clientsLeft \in [Senders -> SUBSET Pages]
    /\ sendTo \in [Senders -> Pages \cup {NoPage}]
    /\ sendMark \in [Senders -> Marks]
    /\ conn \in [Pages -> {"off", "joined", "open", "gone"}]
    /\ sockets \subseteq Pages /\ stalled \subseteq Pages
    /\ told \in [Pages -> Marks] /\ joins \in 0 .. MaxJoins

EventsInit ==
    /\ mark = [f \in Files |-> 0] /\ prevMark = mark
    /\ watchAt = "sleep" /\ buttonAt = "idle"
    /\ toTell = [s \in Senders |-> {}] /\ telling = [s \in Senders |-> NoFile]
    /\ clientsLeft = [s \in Senders |-> {}] /\ sendTo = [s \in Senders |-> NoPage]
    /\ sendMark = [s \in Senders |-> mark]
    /\ conn = [p \in Pages |-> "off"] /\ sockets = {} /\ stalled = {}
    /\ told = [p \in Pages |-> mark] /\ joins = 0

\* Another process replaces a file.
FileChanges(f) ==
    /\ mark[f] < MaxMark /\ mark' = [mark EXCEPT ![f] = @ + 1]
    /\ UNCHANGED <<prevMark, watchAt, buttonAt, sending, clients>>

\* Watcher.tick: a look that finds a change, and a second one 150 ms later.
WatcherLooks ==
    /\ watchAt = "sleep" /\ mark # prevMark /\ watchAt' = "debounce"
    /\ UNCHANGED <<mark, prevMark, buttonAt, sending, clients>>

WatcherLooksAgain ==
    /\ watchAt = "debounce" /\ watchAt' = "send" /\ prevMark' = mark
    /\ toTell' = [toTell EXCEPT !["watcher"] = {f \in Files : mark[f] # prevMark[f]}]
    /\ sendMark' = [sendMark EXCEPT !["watcher"] = mark]
    /\ UNCHANGED <<mark, buttonAt, telling, clientsLeft, sendTo, clients>>

\* stop, clear-stop or resolve: the file is written, the entry of the audit
\* log is appended, with no await between them; an append that raises ends
\* the request, and the file is written.
ButtonWrites ==
    /\ buttonAt = "idle" /\ mark[StopFile] < MaxMark
    /\ mark' = [mark EXCEPT ![StopFile] = @ + 1]
    /\ \/ UNCHANGED <<buttonAt, sending>>
       \/ /\ buttonAt' = "send"
          /\ toTell' = [toTell EXCEPT !["button"] = {StopFile}]
          /\ sendMark' = [sendMark EXCEPT !["button"] = mark']
          /\ UNCHANGED <<telling, clientsLeft, sendTo>>
    /\ UNCHANGED <<prevMark, watchAt, clients>>

\* broadcast: the list of the sockets is taken once for each message.
NextMessage(s) ==
    /\ telling[s] = NoFile
    /\ \E f \in toTell[s] :
         /\ telling' = [telling EXCEPT ![s] = f]
         /\ toTell' = [toTell EXCEPT ![s] = @ \ {f}]
    /\ clientsLeft' = [clientsLeft EXCEPT ![s] = sockets]
    /\ UNCHANGED <<mark, prevMark, watchAt, buttonAt, sendTo, sendMark, clients>>

NextClient(s) ==
    /\ telling[s] # NoFile /\ sendTo[s] = NoPage
    /\ \E p \in clientsLeft[s] :
         /\ sendTo' = [sendTo EXCEPT ![s] = p]
         /\ clientsLeft' = [clientsLeft EXCEPT ![s] = @ \ {p}]
    /\ UNCHANGED <<mark, prevMark, watchAt, buttonAt, toTell, telling, sendMark, clients>>

\* send_json returns or raises; it does neither while the client is stalled.
SendEnds(s) ==
    LET p == sendTo[s]
        f == telling[s]
    IN  /\ p # NoPage /\ p \notin stalled
        /\ sendTo' = [sendTo EXCEPT ![s] = NoPage]
        /\ told' = IF conn[p] = "gone" \/ told[p][f] >= sendMark[s][f] THEN told
                   ELSE [told EXCEPT ![p][f] = sendMark[s][f]]
        /\ UNCHANGED <<mark, prevMark, watchAt, buttonAt, toTell, telling,
                       clientsLeft, sendMark, conn, sockets, stalled, joins>>

\* The sockets that raised leave the pool.
MessageEnds(s) ==
    /\ telling[s] # NoFile /\ sendTo[s] = NoPage /\ clientsLeft[s] = {}
    /\ telling' = [telling EXCEPT ![s] = NoFile]
    /\ sockets' = {p \in sockets : conn[p] # "gone"}
    /\ UNCHANGED <<mark, prevMark, watchAt, buttonAt, toTell, clientsLeft, sendTo,
                   sendMark, conn, stalled, told, joins>>

\* The marks are taken once more when the messages are out.
WatcherSleepsBroken ==
    /\ watchAt = "send" /\ telling["watcher"] = NoFile /\ toTell["watcher"] = {}
    /\ watchAt' = "sleep" /\ prevMark' = mark
    /\ UNCHANGED <<mark, buttonAt, sending, clients>>

WatcherSleeps ==
    /\ watchAt = "send" /\ telling["watcher"] = NoFile /\ toTell["watcher"] = {}
    /\ watchAt' = "sleep"
    /\ UNCHANGED <<mark, prevMark, buttonAt, sending, clients>>

ButtonEnds ==
    /\ buttonAt = "send" /\ telling["button"] = NoFile /\ toTell["button"] = {}
    /\ buttonAt' = "idle"
    /\ UNCHANGED <<mark, prevMark, watchAt, sending, clients>>

\* ws_ui: the socket is in the pool before "connected" is sent to it.
Joins(p) ==
    /\ conn[p] = "off" /\ joins < MaxJoins /\ joins' = joins + 1
    /\ conn' = [conn EXCEPT ![p] = "joined"] /\ sockets' = sockets \cup {p}
    /\ UNCHANGED <<mark, prevMark, watchAt, buttonAt, sending, stalled, told>>

Connected(p) ==
    /\ conn[p] = "joined" /\ p \notin stalled
    /\ conn' = [conn EXCEPT ![p] = "open"] /\ told' = [told EXCEPT ![p] = mark]
    /\ UNCHANGED <<mark, prevMark, watchAt, buttonAt, sending, sockets, stalled, joins>>

\* The client stops to read; the server pings it and gives it up in the end.
Stalls(p) ==
    /\ conn[p] \in {"joined", "open"} /\ p \notin stalled
    /\ stalled' = stalled \cup {p}
    /\ UNCHANGED <<mark, prevMark, watchAt, buttonAt, sending, conn, sockets, told, joins>>

GivenUp(p) ==
    /\ p \in stalled /\ stalled' = stalled \ {p}
    /\ conn' = [conn EXCEPT ![p] = "gone"]
    /\ UNCHANGED <<mark, prevMark, watchAt, buttonAt, sending, sockets, told, joins>>

\* The page is closed; the server sees it at its next send.
Leaves(p) ==
    /\ conn[p] \in {"joined", "open"} /\ p \notin stalled
    /\ conn' = [conn EXCEPT ![p] = "gone"]
    /\ UNCHANGED <<mark, prevMark, watchAt, buttonAt, sending, sockets, stalled, told, joins>>

\* ws_ui of a socket that is gone: its heartbeat raises, it disconnects, and
\* the page may come back with a new socket once nobody has the old one.
Disconnects(p) ==
    /\ conn[p] = "gone" /\ \A s \in Senders : p # sendTo[s] /\ p \notin clientsLeft[s]
    /\ conn' = [conn EXCEPT ![p] = "off"] /\ sockets' = sockets \ {p}
    /\ told' = [told EXCEPT ![p] = [f \in Files |-> 0]]
    /\ UNCHANGED <<mark, prevMark, watchAt, buttonAt, sending, stalled, joins>>

WatcherSteps == WatcherLooks \/ WatcherLooksAgain \/ WatcherSleeps
Sends(s)     == NextMessage(s) \/ NextClient(s) \/ SendEnds(s) \/ MessageEnds(s)

EventsNext ==
    \/ \E f \in Files : FileChanges(f)
    \/ WatcherSteps \/ ButtonWrites \/ ButtonEnds
    \/ \E s \in Senders : Sends(s)
    \/ \E p \in Pages : \/ Joins(p) \/ Connected(p) \/ Stalls(p) \/ GivenUp(p)
                        \/ Leaves(p) \/ Disconnects(p)

\* The event loop runs what can run, and the pings give a stalled client up.
EventsFairness ==
    /\ WF_eventsVars(WatcherSteps)
    /\ \A s \in Senders : WF_eventsVars(Sends(s))
    /\ \A p \in Pages : WF_eventsVars(Connected(p)) /\ WF_eventsVars(GivenUp(p))

----------------------------------------------------------------------------
(* A page that stays connected is told of the last change of every file,    *)
(* whatever joins, leaves or stalls, and whoever else sends, meanwhile      *)
(* (Watcher.tick, WSBroadcaster.broadcast, ws_ui).                          *)
LastChangeIsTold ==
    \A p \in Pages, f \in Files :
        (conn[p] = "open" /\ mark[f] = MaxMark)
            ~> (conn[p] # "open" \/ told[p][f] = MaxMark)
=============================================================================
