--------------------------- MODULE ServicesProofs ---------------------------
(***************************************************************************)
(* What the services beside the loop keep, for any number of threads,      *)
(* deliveries, pages, files and attempts.                                  *)
(*                                                                         *)
(* The messages of the dashboard: the types of their variables.            *)
(*                                                                         *)
(* The reads of the dashboard: a part of the page that has been read stays *)
(* right while the other is read, because what its file held is not taken  *)
(* back (held only grows until the next request), and only a read of the   *)
(* part itself removes its mark.                                           *)
(*                                                                         *)
(* The webhook relay: while a thread triggers the build of a delivery its  *)
(* id is remembered, with the moment of that thread: nobody else forgets   *)
(* it, because a request takes less than the window (TriggerMax < Ttl), so *)
(* nobody else triggers.  What is forgotten at the end of a trigger, or    *)
(* because of its age, is counted; and a request starts one build at most  *)
(* and passes one window at most, so no count outgrows the requests.       *)
(***************************************************************************)
EXTENDS MCServices, FiniteSetTheorems, TLAPS

----------------------------------------------------------------------------
(* The messages of the dashboard.                                           *)

LEMMA EventsTypesInit == EventsInit => EventsTypeOK
<1> SUFFICES ASSUME EventsInit PROVE EventsTypeOK
  OBVIOUS
<1>1. mark \in Marks /\ prevMark \in Marks
  BY EventsAssumption DEF EventsInit, Marks
<1>2. /\ sendMark = [s \in Senders |-> mark] /\ told = [p \in Pages |-> mark] /\ joins = 0
      /\ 0 \in 0 .. MaxJoins
  BY EventsAssumption DEF EventsInit
<1>3. sendMark \in [Senders -> Marks] /\ told \in [Pages -> Marks]
  BY <1>1, <1>2
<1> QED
  BY <1>1, <1>2, <1>3 DEF EventsInit, EventsTypeOK

\* A file's next version.
LEMMA NextMark ==
  ASSUME EventsTypeOK, NEW f \in Files, mark[f] < MaxMark, mark' = [mark EXCEPT ![f] = @ + 1]
  PROVE  mark' \in Marks
<1>1. mark[f] \in 0 .. MaxMark /\ MaxMark \in Nat
  BY EventsAssumption DEF EventsTypeOK, Marks
<1>2. mark[f] + 1 \in 0 .. MaxMark
  BY <1>1
<1> QED
  BY <1>2 DEF EventsTypeOK, Marks

\* The steps of the watcher, and of a button.
LEMMA SourcesTyped ==
  ASSUME EventsTypeOK,
         WatcherSteps \/ ButtonWrites \/ ButtonEnds \/ \E f \in Files : FileChanges(f)
  PROVE  EventsTypeOK'
<1> USE DEF sending, clients
<1>1. CASE WatcherLooks
  BY <1>1 DEF WatcherLooks, EventsTypeOK
<1>2. CASE WatcherLooksAgain
  <2>1. toTell' \in [Senders -> SUBSET Files] /\ sendMark' \in [Senders -> Marks]
    BY <1>2 DEF WatcherLooksAgain, EventsTypeOK
  <2> QED
    BY <1>2, <2>1 DEF WatcherLooksAgain, EventsTypeOK
<1>3. CASE WatcherSleeps
  BY <1>3 DEF WatcherSleeps, EventsTypeOK
<1>4. CASE ButtonWrites
  <2>1. mark' \in Marks
    BY <1>4, NextMark, EventsAssumption DEF ButtonWrites
  <2>2. \/ UNCHANGED <<toTell, sendMark>>
        \/ /\ toTell' = [toTell EXCEPT !["button"] = {StopFile}]
           /\ sendMark' = [sendMark EXCEPT !["button"] = mark']
    BY <1>4 DEF ButtonWrites
  <2>4. toTell' \in [Senders -> SUBSET Files] /\ sendMark' \in [Senders -> Marks]
    BY <2>1, <2>2, EventsAssumption DEF EventsTypeOK
  <2>3. /\ UNCHANGED <<prevMark, watchAt, telling, clientsLeft, sendTo, conn, sockets, stalled,
                       told, joins>>
        /\ buttonAt' \in {buttonAt, "send"}
    BY <1>4 DEF ButtonWrites
  <2> QED
    BY <2>1, <2>3, <2>4 DEF EventsTypeOK
<1>5. CASE ButtonEnds
  BY <1>5 DEF ButtonEnds, EventsTypeOK
<1>6. ASSUME NEW f \in Files, FileChanges(f) PROVE EventsTypeOK'
  <2>1. mark' \in Marks
    BY <1>6, NextMark DEF FileChanges
  <2> QED
    BY <1>6, <2>1 DEF FileChanges, EventsTypeOK
<1> QED
  BY <1>1, <1>2, <1>3, <1>4, <1>5, <1>6 DEF WatcherSteps

LEMMA SendsTyped ==
  ASSUME EventsTypeOK, NEW s \in Senders, Sends(s)
  PROVE  EventsTypeOK'
<1> USE DEF sending, clients
<1>1. CASE NextMessage(s)
  <2>1. PICK f \in toTell[s] : /\ telling' = [telling EXCEPT ![s] = f]
                               /\ toTell' = [toTell EXCEPT ![s] = @ \ {f}]
    BY <1>1 DEF NextMessage
  <2>2. f \in Files
    BY <2>1 DEF EventsTypeOK
  <2>3. toTell' \in [Senders -> SUBSET Files] /\ telling' \in [Senders -> Files \cup {NoFile}]
    BY <2>1, <2>2 DEF EventsTypeOK
  <2>4. clientsLeft' \in [Senders -> SUBSET Pages]
    BY <1>1 DEF NextMessage, EventsTypeOK
  <2> QED
    BY <1>1, <2>3, <2>4 DEF NextMessage, EventsTypeOK
<1>2. CASE NextClient(s)
  <2>1. PICK p \in clientsLeft[s] : /\ sendTo' = [sendTo EXCEPT ![s] = p]
                                    /\ clientsLeft' = [clientsLeft EXCEPT ![s] = @ \ {p}]
    BY <1>2 DEF NextClient
  <2>2. p \in Pages
    BY <2>1 DEF EventsTypeOK
  <2>3. sendTo' \in [Senders -> Pages \cup {NoPage}] /\ clientsLeft' \in [Senders -> SUBSET Pages]
    BY <2>1, <2>2 DEF EventsTypeOK
  <2> QED
    BY <1>2, <2>3 DEF NextClient, EventsTypeOK
<1>3. CASE SendEnds(s)
  <2> DEFINE p == sendTo[s]
             f == telling[s]
  <2>1. /\ p # NoPage /\ sendTo' = [sendTo EXCEPT ![s] = NoPage]
        /\ told' = told \/ told' = [told EXCEPT ![p][f] = sendMark[s][f]]
        /\ UNCHANGED <<mark, prevMark, watchAt, buttonAt, toTell, telling,
                       clientsLeft, sendMark, conn, sockets, stalled, joins>>
    BY <1>3 DEF SendEnds
  <2>2. p \in Pages /\ f \in Files \cup {NoFile} /\ sendMark[s] \in Marks
    BY <2>1 DEF EventsTypeOK
  <2> HIDE DEF p, f
  <2>3. told' \in [Pages -> Marks]
    <3>1. told[p] \in Marks
      BY <2>2 DEF EventsTypeOK
    <3>2. CASE f \in Files
      <4>1. sendMark[s][f] \in 0 .. MaxMark
        BY <2>2, <3>2 DEF Marks
      <4>2. [told[p] EXCEPT ![f] = sendMark[s][f]] \in Marks
        BY <3>1, <4>1 DEF Marks
      <4> QED
        BY <2>1, <4>2 DEF EventsTypeOK
    <3>3. CASE f = NoFile
      <4>1. [told[p] EXCEPT ![f] = sendMark[s][f]] \in Marks
        BY <3>1, <3>3, EventsAssumption DEF Marks
      <4> QED
        BY <2>1, <4>1 DEF EventsTypeOK
    <3> QED
      BY <2>2, <3>2, <3>3
  <2>4. sendTo' \in [Senders -> Pages \cup {NoPage}]
    BY <2>1 DEF EventsTypeOK
  <2> QED
    BY <2>1, <2>3, <2>4 DEF EventsTypeOK
<1>4. CASE MessageEnds(s)
  BY <1>4 DEF MessageEnds, EventsTypeOK
<1> QED
  BY <1>1, <1>2, <1>3, <1>4 DEF Sends

LEMMA ClientsTyped ==
  ASSUME EventsTypeOK, NEW p \in Pages,
         Joins(p) \/ Connected(p) \/ Stalls(p) \/ GivenUp(p) \/ Leaves(p) \/ Disconnects(p)
  PROVE  EventsTypeOK'
<1>1. UNCHANGED <<mark, prevMark, watchAt, buttonAt, toTell, telling, clientsLeft, sendTo, sendMark>>
  BY DEF Joins, Connected, Stalls, GivenUp, Leaves, Disconnects, sending
<1>2. conn' \in [Pages -> {"off", "joined", "open", "gone"}]
  <2>1. UNCHANGED conn \/ \E c \in {"off", "joined", "open", "gone"} : conn' = [conn EXCEPT ![p] = c]
    BY DEF Joins, Connected, Stalls, GivenUp, Leaves, Disconnects
  <2> QED
    BY <2>1 DEF EventsTypeOK
<1>3. /\ sockets' \in {sockets, sockets \cup {p}, sockets \ {p}}
      /\ stalled' \in {stalled, stalled \cup {p}, stalled \ {p}}
  BY DEF Joins, Connected, Stalls, GivenUp, Leaves, Disconnects
<1>4. told' \in [Pages -> Marks]
  <2>1. mark \in Marks /\ [f \in Files |-> 0] \in Marks
    BY EventsAssumption DEF EventsTypeOK, Marks
  <2>2. \/ UNCHANGED told
        \/ told' = [told EXCEPT ![p] = mark]
        \/ told' = [told EXCEPT ![p] = [f \in Files |-> 0]]
    BY DEF Joins, Connected, Stalls, GivenUp, Leaves, Disconnects
  <2> QED
    BY <2>1, <2>2 DEF EventsTypeOK
<1>5. joins' \in 0 .. MaxJoins
  <2>1. joins \in 0 .. MaxJoins /\ MaxJoins \in Nat
    BY EventsAssumption DEF EventsTypeOK
  <2>2. joins' = joins \/ (joins < MaxJoins /\ joins' = joins + 1)
    BY DEF Joins, Connected, Stalls, GivenUp, Leaves, Disconnects
  <2> QED
    BY <2>1, <2>2
<1> QED
  BY <1>1, <1>2, <1>3, <1>4, <1>5 DEF EventsTypeOK

LEMMA EventsTyped ==
  ASSUME EventsTypeOK, [EventsNext]_eventsVars
  PROVE  EventsTypeOK'
<1>1. CASE UNCHANGED eventsVars
  BY <1>1 DEF eventsVars, EventsTypeOK
<1> QED
  BY <1>1, SourcesTyped, SendsTyped, ClientsTyped DEF EventsNext

----------------------------------------------------------------------------
(* The reads of the dashboard.                                              *)

\* The part of the type that the proof needs.
ReadsTypes ==
    /\ content \in [Parts -> Nat] /\ lastContent \in [Parts -> Nat]
    /\ page \in [Parts -> Nat] /\ cached \in [Parts -> Nat]
    /\ held \in [Parts -> SUBSET Nat]
    /\ reading \in Parts \cup {"respond", "none"}

\* The files hold what they were seen to hold.
HeldIsSo == \A p \in Parts : content[p] \in held[p]

Fresh(p) == page[p] \in held[p] \/ p \in marked

\* The parts that have been read are right: the state, and then both.
ReadIsFresh ==
    /\ reading = "handoff" => Fresh("state")
    /\ reading = "respond" => Fresh("state") /\ Fresh("handoff")

ReadsInv == ReadsTypes /\ HeldIsSo /\ ReadIsFresh

LEMMA ReadsInitInv == ReadsInit => ReadsInv
BY DEF ReadsInit, ReadsInv, ReadsTypes, HeldIsSo, ReadIsFresh, Parts

\* A writer adds to what the file has held, and changes nothing else.
LEMMA HoldsKeeps ==
  ASSUME ReadsInv, NEW p \in Parts, NEW v \in Nat, Holds(p, v),
         lastContent' \in [Parts -> Nat], UNCHANGED serverVars
  PROVE  ReadsInv'
<1>1. /\ content' = [content EXCEPT ![p] = v]
      /\ held' = [held EXCEPT ![p] = @ \cup {v}]
      /\ UNCHANGED <<cached, marked, reading, page>>
  BY DEF Holds, serverVars
<1>2. ReadsTypes'
  BY <1>1 DEF ReadsInv, ReadsTypes
<1>3. \A q \in Parts : held[q] \subseteq held'[q] /\ content'[q] \in held'[q]
  BY <1>1 DEF ReadsInv, ReadsTypes, HeldIsSo
<1>4. ReadIsFresh'
  BY <1>1, <1>3 DEF ReadsInv, ReadIsFresh, Fresh, Parts
<1> QED
  BY <1>2, <1>3, <1>4 DEF ReadsInv, HeldIsSo

LEMMA WritersKeep ==
  ASSUME ReadsInv,
         StateReplaced \/ HandoffOpened \/ HandoffWritten \/ \E p \in Parts : FileRemoved(p)
  PROVE  ReadsInv'
<1>1. CASE StateReplaced
  <2>1. lastContent["state"] + 1 \in Nat /\ lastContent' \in [Parts -> Nat]
    BY <1>1 DEF StateReplaced, ReadsInv, ReadsTypes, Parts
  <2> QED
    BY <1>1, <2>1, HoldsKeeps DEF StateReplaced, Parts
<1>2. CASE HandoffOpened
  BY <1>2 DEF HandoffOpened, serverVars, ReadsInv, ReadsTypes, HeldIsSo, ReadIsFresh, Fresh
<1>3. CASE HandoffWritten
  <2>1. lastContent["handoff"] + 1 \in Nat /\ lastContent' \in [Parts -> Nat]
    BY <1>3 DEF HandoffWritten, ReadsInv, ReadsTypes, Parts
  <2> QED
    BY <1>3, <2>1, HoldsKeeps DEF HandoffWritten, Parts
<1>4. CASE \E p \in Parts : FileRemoved(p)
  <2>1. lastContent' \in [Parts -> Nat]
    BY <1>4 DEF FileRemoved, ReadsInv, ReadsTypes
  <2> QED
    BY <1>4, <2>1, HoldsKeeps DEF FileRemoved
<1> QED
  BY <1>1, <1>2, <1>3, <1>4

\* A part is read, and what it shows is fresh or marked; the mark of the other
\* part is left alone.
LEMMA PartRead ==
  ASSUME ReadsInv, NEW p \in Parts, reading = p, GoesOn(p),
         UNCHANGED <<content, lastContent, held>>, cached' \in [Parts -> Nat],
         NEW v \in Nat, page' = [page EXCEPT ![p] = v],
         v \in held[p] \/ p \in marked',
         \A q \in Parts \ {p} : q \in marked => q \in marked'
  PROVE  ReadsInv'
<1>1. /\ page' \in [Parts -> Nat] /\ page'[p] = v
      /\ \A q \in Parts \ {p} : page'[q] = page[q]
  BY DEF ReadsInv, ReadsTypes
<1>2. reading' = IF p = "state" THEN "handoff" ELSE "respond"
  BY DEF GoesOn
<1>3. ReadsTypes' /\ HeldIsSo'
  BY <1>1, <1>2 DEF ReadsInv, ReadsTypes, HeldIsSo, Parts
<1>4. Fresh(p)'
  BY <1>1 DEF Fresh
<1>5. p = "handoff" => Fresh("state")'
  BY <1>1 DEF ReadsInv, ReadIsFresh, Fresh, Parts
<1>6. ReadIsFresh'
  BY <1>2, <1>4, <1>5 DEF ReadIsFresh, Parts
<1> QED
  BY <1>3, <1>6 DEF ReadsInv

LEMMA ReadersKeep ==
  ASSUME ReadsInv, NEW p \in Parts,
         LookForFile(p) \/ ReadGood(p) \/ ReadBad(p) \/ ReadGivesUp(p)
  PROVE  ReadsInv'
<1> USE DEF files
<1>1. CASE LookForFile(p) /\ (content[p] # 0 \/ p \in tornNow)
  BY <1>1 DEF LookForFile, ReadsInv, ReadsTypes, HeldIsSo, ReadIsFresh, Fresh
<1>2. CASE LookForFile(p) /\ ~(content[p] # 0 \/ p \in tornNow)
  <2>1. 0 \in held[p] /\ cached' \in [Parts -> Nat]
    BY <1>2 DEF LookForFile, ReadsInv, ReadsTypes, HeldIsSo
  <2> QED
    BY <1>2, <2>1, PartRead DEF LookForFile
<1>3. CASE ReadGood(p)
  <2>1. /\ content[p] \in Nat /\ content[p] \in held[p]
        /\ cached' \in [Parts -> Nat]
    BY <1>3 DEF ReadGood, ReadsInv, ReadsTypes, HeldIsSo
  <2> QED
    BY <1>3, <2>1, PartRead DEF ReadGood
<1>4. CASE ReadBad(p)
  BY <1>4 DEF ReadBad, ReadsInv, ReadsTypes, HeldIsSo, ReadIsFresh, Fresh
<1>5. CASE ReadGivesUp(p)
  <2>1. cached[p] \in Nat /\ cached' \in [Parts -> Nat]
    BY <1>5 DEF ReadGivesUp, ReadsInv, ReadsTypes
  <2> QED
    BY <1>5, <2>1, PartRead DEF ReadGivesUp
<1> QED
  BY <1>1, <1>2, <1>3, <1>4, <1>5

LEMMA RequestKeeps ==
  ASSUME ReadsInv, RequestBegins \/ SnapshotEnds
  PROVE  ReadsInv'
<1>1. CASE RequestBegins
  BY <1>1 DEF RequestBegins, ReadsInv, ReadsTypes, HeldIsSo, ReadIsFresh, Parts
<1>2. CASE SnapshotEnds
  BY <1>2 DEF SnapshotEnds, files, ReadsInv, ReadsTypes, HeldIsSo, ReadIsFresh, Parts
<1> QED
  BY <1>1, <1>2

LEMMA ReadsStepKeeps ==
  ASSUME ReadsInv, [ReadsNext]_readsVars
  PROVE  ReadsInv'
<1>1. CASE UNCHANGED readsVars
  BY <1>1 DEF readsVars, ReadsInv, ReadsTypes, HeldIsSo, ReadIsFresh, Fresh
<1>2. CASE ReadsNext
  BY <1>2, WritersKeep, ReadersKeep, RequestKeeps DEF ReadsNext
<1> QED
  BY <1>1, <1>2


\* Only the handoff is written in place, and what is being written is counted.
HandoffHasRoom ==
    /\ tornNow \subseteq {"handoff"}
    /\ "handoff" \in tornNow => lastContent["handoff"] < MaxContent

LEMMA ReadsTypesInit == ReadsInit => ReadsTypeOK /\ HandoffHasRoom
<1> SUFFICES ASSUME ReadsInit PROVE ReadsTypeOK /\ HandoffHasRoom
  OBVIOUS
<1>1. seenFile \in BOOLEAN /\ pageStale \in BOOLEAN /\ 0 \in Contents /\ tries \in 0 .. TornRetries + 1
  <2>1. seenFile \in BOOLEAN /\ pageStale \in BOOLEAN
    BY DEF ReadsInit
  <2>2. 0 \in Contents /\ 0 \in 0 .. TornRetries + 1
    BY ReadsAssumption DEF Contents
  <2> QED
    BY <2>1, <2>2 DEF ReadsInit
<1>2. /\ content = [p \in Parts |-> 0] /\ lastContent = [p \in Parts |-> 0]
      /\ cached = [p \in Parts |-> 0] /\ page = [p \in Parts |-> 0]
      /\ held = [p \in Parts |-> {0}] /\ tornNow = {} /\ marked = {} /\ reading = "none"
  BY DEF ReadsInit
<1>3. /\ content \in [Parts -> Contents] /\ lastContent \in [Parts -> Contents]
      /\ cached \in [Parts -> Contents] /\ page \in [Parts -> Contents]
      /\ held \in [Parts -> SUBSET Contents]
  <2>1. {0} \in SUBSET Contents
    BY <1>1
  <2> QED
    BY <1>1, <1>2, <2>1
<1> QED
  BY <1>1, <1>2, <1>3 DEF ReadsTypeOK, HandoffHasRoom

LEMMA RoomStays ==
  ASSUME ReadsTypeOK, HandoffHasRoom, [ReadsNext]_readsVars
  PROVE  HandoffHasRoom'
<1>1. CASE UNCHANGED <<tornNow, lastContent>>
  BY <1>1 DEF HandoffHasRoom
<1>2. CASE StateReplaced
  BY <1>2 DEF StateReplaced, HandoffHasRoom, ReadsTypeOK, Parts
<1>3. CASE HandoffOpened
  BY <1>3 DEF HandoffOpened, HandoffHasRoom
<1>4. CASE HandoffWritten
  BY <1>4 DEF HandoffWritten, HandoffHasRoom
<1> QED
  BY <1>1, <1>2, <1>3, <1>4 DEF ReadsNext, readsVars, RequestBegins, SnapshotEnds, FileRemoved,
     LookForFile, ReadGood, ReadBad, ReadGivesUp, files

LEMMA WritesTyped ==
  ASSUME ReadsTypeOK, HandoffHasRoom,
         StateReplaced \/ HandoffOpened \/ HandoffWritten \/ \E p \in Parts : FileRemoved(p)
  PROVE  ReadsTypeOK'
<1>1. ASSUME NEW p \in Parts, NEW v \in Contents, Holds(p, v), UNCHANGED serverVars,
             lastContent' \in [Parts -> Contents], tornNow' \subseteq Parts
      PROVE  ReadsTypeOK'
  <2>1. content' \in [Parts -> Contents] /\ held' \in [Parts -> SUBSET Contents]
    BY <1>1 DEF Holds, ReadsTypeOK
  <2> QED
    BY <1>1, <2>1 DEF serverVars, ReadsTypeOK
<1>2. ASSUME NEW p \in Parts, lastContent[p] < MaxContent
      PROVE  lastContent[p] + 1 \in Contents
  <2>1. lastContent[p] \in 0 .. MaxContent /\ MaxContent \in Nat
    BY ReadsAssumption DEF ReadsTypeOK, Contents
  <2> QED
    BY <1>2, <2>1 DEF Contents
<1>3. "state" \in Parts /\ "handoff" \in Parts
  BY DEF Parts
<1>4. CASE StateReplaced
  <2>1. lastContent["state"] + 1 \in Contents
    BY <1>2, <1>3, <1>4 DEF StateReplaced
  <2>2. lastContent' \in [Parts -> Contents] /\ tornNow' \subseteq Parts
    BY <1>3, <1>4, <2>1 DEF StateReplaced, ReadsTypeOK
  <2>3. Holds("state", lastContent["state"] + 1) /\ UNCHANGED serverVars
    BY <1>4 DEF StateReplaced
  <2> QED
    BY <1>1, <1>3, <2>1, <2>2, <2>3
<1>5. CASE HandoffOpened
  BY <1>3, <1>5 DEF HandoffOpened, serverVars, ReadsTypeOK
<1>6. CASE HandoffWritten
  <2>1. lastContent["handoff"] + 1 \in Contents
    BY <1>2, <1>3, <1>6 DEF HandoffWritten, HandoffHasRoom
  <2>2. lastContent' \in [Parts -> Contents] /\ tornNow' \subseteq Parts
    BY <1>3, <1>6, <2>1 DEF HandoffWritten, ReadsTypeOK
  <2>3. Holds("handoff", lastContent["handoff"] + 1) /\ UNCHANGED serverVars
    BY <1>6 DEF HandoffWritten
  <2> QED
    BY <1>1, <1>3, <2>1, <2>2, <2>3
<1>7. ASSUME NEW p \in Parts, FileRemoved(p) PROVE ReadsTypeOK'
  <2>1. 0 \in Contents /\ lastContent' \in [Parts -> Contents] /\ tornNow' \subseteq Parts
    BY <1>7, ReadsAssumption DEF FileRemoved, ReadsTypeOK, Contents
  <2>2. Holds(p, 0) /\ UNCHANGED serverVars
    BY <1>7 DEF FileRemoved
  <2> QED
    BY <1>1, <2>1, <2>2
<1> QED
  BY <1>4, <1>5, <1>6, <1>7

LEMMA RequestsTyped ==
  ASSUME ReadsTypeOK, RequestBegins \/ SnapshotEnds \/
         \E p \in Parts : LookForFile(p) \/ ReadGood(p) \/ ReadBad(p) \/ ReadGivesUp(p)
  PROVE  ReadsTypeOK'
<1> USE DEF files
<1>1. 0 \in Contents /\ TornRetries \in Nat
  BY ReadsAssumption DEF Contents
<1>2. CASE RequestBegins
  <2>1. seenFile' \in BOOLEAN /\ held' \in [Parts -> SUBSET Contents]
    BY <1>2 DEF RequestBegins, ReadsTypeOK
  <2>2. /\ reading' = "state"
        /\ UNCHANGED <<content, lastContent, tornNow, cached, marked, tries, page, pageStale>>
    BY <1>2 DEF RequestBegins
  <2> QED
    BY <2>1, <2>2 DEF ReadsTypeOK, Parts
<1>3. CASE SnapshotEnds
  <2>1. pageStale' \in BOOLEAN
    BY <1>3 DEF SnapshotEnds
  <2>2. /\ reading' = "none" /\ UNCHANGED <<content, lastContent, tornNow, held>>
        /\ UNCHANGED <<cached, marked, seenFile, tries, page>>
    BY <1>3 DEF SnapshotEnds
  <2> QED
    BY <2>1, <2>2 DEF ReadsTypeOK
<1>4. ASSUME NEW p \in Parts, LookForFile(p) \/ ReadGood(p) \/ ReadBad(p) \/ ReadGivesUp(p)
      PROVE  ReadsTypeOK'
  <2>1. UNCHANGED <<content, lastContent, tornNow, held, pageStale>>
    BY <1>4 DEF LookForFile, ReadGood, ReadBad, ReadGivesUp
  <2>2. seenFile' \in BOOLEAN
    BY <1>4 DEF LookForFile, ReadGood, ReadBad, ReadGivesUp, ReadsTypeOK
  <2>3. tries' \in 0 .. TornRetries + 1
    <3>1. tries \in 0 .. TornRetries + 1
      BY DEF ReadsTypeOK
    <3>2. \/ tries' = tries \/ tries' = 0 \/ tries' = 1 \/ tries' = TornRetries + 1
          \/ (tries > 0 /\ tries' = tries - 1)
      BY <1>4 DEF LookForFile, ReadGood, ReadBad, ReadGivesUp
    <3> QED
      BY <1>1, <3>1, <3>2
  <2>4. cached' \in [Parts -> Contents]
    BY <1>4 DEF LookForFile, ReadGood, ReadBad, ReadGivesUp, ReadsTypeOK
  <2>5. marked' \subseteq Parts
    BY <1>4 DEF LookForFile, ReadGood, ReadBad, ReadGivesUp, ReadsTypeOK
  <2>6. page' \in [Parts -> Contents]
    <3>1. \/ page' = page \/ page' = [page EXCEPT ![p] = 0]
          \/ page' = [page EXCEPT ![p] = content[p]] \/ page' = [page EXCEPT ![p] = cached[p]]
      BY <1>4 DEF LookForFile, ReadGood, ReadBad, ReadGivesUp
    <3> QED
      BY <1>1, <3>1 DEF ReadsTypeOK
  <2>7. reading' \in Parts \cup {"respond", "none"}
    BY <1>4 DEF LookForFile, ReadGood, ReadBad, ReadGivesUp, GoesOn, ReadsTypeOK, Parts
  <2> QED
    BY <2>1, <2>2, <2>3, <2>4, <2>5, <2>6, <2>7 DEF ReadsTypeOK
<1> QED
  BY <1>2, <1>3, <1>4

LEMMA ReadsTyped ==
  ASSUME ReadsTypeOK, HandoffHasRoom, [ReadsNext]_readsVars
  PROVE  ReadsTypeOK'
<1>1. CASE UNCHANGED readsVars
  BY <1>1 DEF readsVars, ReadsTypeOK
<1> QED
  BY <1>1, WritesTyped, RequestsTyped DEF ReadsNext

----------------------------------------------------------------------------
(* The webhook relay.                                                       *)

\* The part of the type that the first argument needs; the bounds come after it.
RelayTypes ==
    /\ clock \in Nat /\ seenIds \subseteq Hooks \X Nat /\ IsFiniteSet(seenIds)
    /\ hookAt \in [Threads -> {"idle", "checked", "trigger"}]
    /\ hookOf \in [Threads -> Hooks] /\ moment \in [Threads -> Nat]
    /\ queued \in [Hooks -> Nat] /\ lostAnswer \in [Hooks -> Nat]
    /\ windows \in [Hooks -> Nat] /\ relayRestarted \in BOOLEAN

\* No request is older than the longest it may take.
RequestsEnd ==
    \A t \in Threads : hookAt[t] # "idle" =>
        moment[t] <= clock /\ clock - moment[t] <= TriggerMax

\* An id is remembered with one moment.
OneMoment == \A r, s \in seenIds : r[1] = s[1] => r = s

\* The id is remembered, with the thread's own moment, while it triggers.
TriggerIsSeen ==
    \A t \in Threads : hookAt[t] = "trigger" => <<hookOf[t], moment[t]>> \in seenIds

\* One thread at a time triggers the build of a delivery.
OneTrigger ==
    \A t, u \in Threads :
        hookAt[t] = "trigger" /\ hookAt[u] = "trigger" /\ hookOf[t] = hookOf[u] => t = u

Remembered(h) == \E s \in seenIds : s[1] = h
Triggering(h) == \E t \in Threads : hookAt[t] = "trigger" /\ hookOf[t] = h

\* One build more than was lost or aged out only once the trigger is over and
\* its id still remembered.
BuildsCounted ==
    ~relayRestarted =>
        \A h \in Hooks :
            /\ queued[h] <= 1 + lostAnswer[h] + windows[h]
            /\ (Triggering(h) \/ ~Remembered(h)) => queued[h] <= lostAnswer[h] + windows[h]

RelayInv ==
    /\ RelayTypes /\ RequestsEnd /\ OneMoment /\ TriggerIsSeen /\ OneTrigger
    /\ BuildsCounted

\* What a look-up finds old.
Old(t) == {s \in seenIds : moment[t] >= s[2] /\ moment[t] - s[2] >= Ttl}

\* The id of a build that is being triggered is not old to anybody.
LEMMA TriggerIsYoung ==
  ASSUME RelayInv, NEW t \in Threads, hookAt[t] = "checked",
         NEW u \in Threads, hookAt[u] = "trigger"
  PROVE  <<hookOf[u], moment[u]>> \in seenIds \ Old(t)
<1>1. <<hookOf[u], moment[u]>> \in seenIds
  BY DEF RelayInv, TriggerIsSeen
<1>2. /\ moment[t] \in Nat /\ moment[u] \in Nat /\ clock \in Nat
      /\ moment[t] <= clock /\ clock - moment[u] <= TriggerMax
  BY DEF RelayInv, RelayTypes, RequestsEnd
<1>3. TriggerMax \in Nat /\ Ttl \in Nat /\ TriggerMax < Ttl
  BY RelayAssumption
<1>4. ~(moment[t] - moment[u] >= Ttl)
  BY <1>2, <1>3
<1> QED
  BY <1>1, <1>4 DEF Old

\* A window passes for an id that is dropped because of its age.
LEMMA WindowsGrow ==
  ASSUME RelayInv, NEW t \in Threads
  PROVE  \A h \in Hooks :
            LET n == Cardinality({s \in Old(t) : s[1] = h})
            IN  n \in Nat /\ ((\E s \in Old(t) : s[1] = h) => n >= 1)
<1> TAKE h \in Hooks
<1> DEFINE D == {s \in Old(t) : s[1] = h}
<1>1. IsFiniteSet(seenIds) /\ D \subseteq seenIds
  BY DEF RelayInv, RelayTypes, Old
<1>2. IsFiniteSet(D)
  BY <1>1, FS_Subset
<1>3. Cardinality(D) \in Nat
  BY <1>2, FS_CardinalityType
<1>4. D # {} => Cardinality(D) # 0
  BY <1>2, FS_EmptySet
<1>5. (\E s \in Old(t) : s[1] = h) => D # {}
  OBVIOUS
<1> QED
  BY <1>3, <1>4, <1>5

LEMMA RelayInitInv == RelayInit => RelayInv
<1> SUFFICES ASSUME RelayInit PROVE RelayInv
  OBVIOUS
<1>1. RelayTypes
  <2>1. IsFiniteSet(seenIds)
    BY FS_EmptySet DEF RelayInit
  <2>2. hookOf \in [Threads -> Hooks]
    BY RelayAssumption DEF RelayInit
  <2> QED
    BY <2>1, <2>2 DEF RelayInit, RelayTypes
<1>2. RequestsEnd /\ OneMoment /\ TriggerIsSeen /\ OneTrigger /\ BuildsCounted
  BY DEF RelayInit, RequestsEnd, OneMoment, TriggerIsSeen, OneTrigger,
         BuildsCounted, Triggering, Remembered
<1> QED
  BY <1>1, <1>2 DEF RelayInv

LEMMA ArrivesKeeps ==
  ASSUME RelayInv, NEW t \in Threads, NEW h \in Hooks, Arrives(t, h)
  PROVE  RelayInv'
<1> USE DEF RelayInv
<1>1. RelayTypes'
  BY DEF RelayTypes, Arrives, HookGoes
<1>2. \A u \in Threads : hookAt'[u] = "trigger" <=> hookAt[u] = "trigger"
  BY DEF RelayTypes, Arrives, HookGoes
<1>3. \A u \in Threads : hookAt[u] = "trigger" =>
         hookOf'[u] = hookOf[u] /\ moment'[u] = moment[u]
  BY DEF RelayTypes, Arrives, HookGoes
<1>4. RequestsEnd'
  BY RelayAssumption DEF RelayTypes, RequestsEnd, Arrives, HookGoes
<1>5. OneMoment' /\ TriggerIsSeen' /\ OneTrigger'
  BY <1>2, <1>3 DEF OneMoment, TriggerIsSeen, OneTrigger, Arrives
<1>6. BuildsCounted'
  <2>1. \A g \in Hooks : Triggering(g)' <=> Triggering(g)
    BY <1>2, <1>3 DEF Triggering
  <2>2. \A g \in Hooks : Remembered(g)' <=> Remembered(g)
    BY DEF Remembered, Arrives
  <2> QED
    BY <2>1, <2>2 DEF BuildsCounted, Arrives
<1> QED
  BY <1>1, <1>4, <1>5, <1>6

LEMMA LookUpKeeps ==
  ASSUME RelayInv, NEW t \in Threads, LookUp(t)
  PROVE  RelayInv'
<1> DEFINE known == \E s \in seenIds \ Old(t) : s[1] = hookOf[t]
           mine  == <<hookOf[t], moment[t]>>
<1>1. /\ hookAt[t] = "checked" /\ hookOf[t] \in Hooks /\ moment[t] \in Nat
      /\ known => hookAt' = [hookAt EXCEPT ![t] = "idle"]
      /\ ~known => hookAt' = [hookAt EXCEPT ![t] = "trigger"]
      /\ known => seenIds' = seenIds \ Old(t)
      /\ ~known => seenIds' = (seenIds \ Old(t)) \cup {mine}
      /\ windows' = [h \in Hooks |-> windows[h] + Cardinality({s \in Old(t) : s[1] = h})]
      /\ UNCHANGED <<clock, hookOf, moment, arrived, queued, lostAnswer, relayRestarted>>
  BY DEF LookUp, HookGoes, Old, RelayInv, RelayTypes
<1>2. \A u \in Threads \ {t} : hookAt'[u] = hookAt[u]
  BY <1>1 DEF RelayInv, RelayTypes
<1>3. hookAt'[t] = IF known THEN "idle" ELSE "trigger"
  BY <1>1 DEF RelayInv, RelayTypes
<1>4. \A u \in Threads : hookAt[u] = "trigger" => <<hookOf[u], moment[u]>> \in seenIds \ Old(t)
  BY <1>1, TriggerIsYoung
<1>5. RelayTypes'
  <2>1. IsFiniteSet(seenIds) /\ seenIds \ Old(t) \subseteq seenIds
    BY DEF RelayInv, RelayTypes
  <2>2. IsFiniteSet(seenIds \ Old(t))
    BY <2>1, FS_Subset
  <2>3. IsFiniteSet((seenIds \ Old(t)) \cup {mine})
    BY <2>2, FS_AddElement
  <2>4. IsFiniteSet(seenIds')
    BY <1>1, <2>2, <2>3
  <2>5. windows' \in [Hooks -> Nat]
    BY <1>1, WindowsGrow DEF RelayInv, RelayTypes
  <2>6. seenIds' \subseteq Hooks \X Nat
    BY <1>1 DEF RelayInv, RelayTypes
  <2>7. hookAt' \in [Threads -> {"idle", "checked", "trigger"}]
    BY <1>1 DEF RelayInv, RelayTypes
  <2> QED
    BY <1>1, <2>4, <2>5, <2>6, <2>7 DEF RelayInv, RelayTypes
<1>6. RequestsEnd'
  BY <1>1, <1>2, <1>3 DEF RelayInv, RequestsEnd
<1>7. OneMoment'
  BY <1>1 DEF RelayInv, OneMoment
<1>8. TriggerIsSeen'
  BY <1>1, <1>2, <1>3, <1>4 DEF TriggerIsSeen
<1>9. OneTrigger'
  <2>1. ~known => \A u \in Threads : hookAt[u] = "trigger" => hookOf[u] # hookOf[t]
    BY <1>4
  <2> QED
    BY <1>1, <1>2, <1>3, <2>1 DEF RelayInv, OneTrigger
<1>10. BuildsCounted'
  <2> SUFFICES ASSUME ~relayRestarted, NEW h \in Hooks
               PROVE  /\ queued[h] <= 1 + lostAnswer[h] + windows'[h]
                      /\ (Triggering(h)' \/ ~Remembered(h)') =>
                            queued[h] <= lostAnswer[h] + windows'[h]
    BY <1>1 DEF BuildsCounted
  <2> DEFINE n == Cardinality({s \in Old(t) : s[1] = h})
  <2>1. /\ n \in Nat /\ windows'[h] = windows[h] + n
        /\ (\E s \in Old(t) : s[1] = h) => n >= 1
    BY <1>1, WindowsGrow
  <2>2. queued[h] \in Nat /\ lostAnswer[h] \in Nat /\ windows[h] \in Nat
    BY DEF RelayInv, RelayTypes
  <2>3. /\ queued[h] <= 1 + lostAnswer[h] + windows[h]
        /\ (Triggering(h) \/ ~Remembered(h)) => queued[h] <= lostAnswer[h] + windows[h]
    BY DEF RelayInv, BuildsCounted
  <2>4. CASE n >= 1
    BY <2>1, <2>2, <2>3, <2>4
  <2>5. CASE ~(n >= 1)
    <3>1. n = 0 /\ ~(\E s \in Old(t) : s[1] = h)
      BY <2>1, <2>5
    <3>2. ~Remembered(h)' => ~Remembered(h)
      BY <1>1, <3>1 DEF Remembered
    <3>3. Triggering(h)' => Triggering(h) \/ ~Remembered(h)
      <4>1. SUFFICES ASSUME Triggering(h)', ~Triggering(h) PROVE ~Remembered(h)
        OBVIOUS
      <4>2. hookOf[t] = h /\ ~known
        BY <1>1, <1>2, <1>3, <4>1 DEF Triggering
      <4> QED
        BY <3>1, <4>2 DEF Remembered
    <3> QED
      BY <2>1, <2>2, <2>3, <3>1, <3>2, <3>3
  <2> QED
    BY <2>4, <2>5
<1> QED
  BY <1>5, <1>6, <1>7, <1>8, <1>9, <1>10 DEF RelayInv

\* What the three ways out of a trigger share: the thread is idle again, and
\* nobody else was triggering the same build.
LEMMA TriggerEnds ==
  ASSUME RelayInv, NEW t \in Threads, HookGoes(t, "trigger", "idle"),
         UNCHANGED <<hookOf, moment>>
  PROVE  /\ hookAt[t] = "trigger" /\ hookOf[t] \in Hooks
         /\ hookAt' \in [Threads -> {"idle", "checked", "trigger"}]
         /\ \A u \in Threads : hookAt'[u] # "idle" => hookAt'[u] = hookAt[u] /\ u # t
         /\ \A u \in Threads : hookAt'[u] = "trigger" => hookOf[u] # hookOf[t]
         /\ \A h \in Hooks : Triggering(h)' <=> Triggering(h) /\ h # hookOf[t]
<1>1. /\ hookAt[t] = "trigger" /\ hookOf[t] \in Hooks
      /\ hookAt' \in [Threads -> {"idle", "checked", "trigger"}]
      /\ hookAt'[t] = "idle" /\ \A u \in Threads \ {t} : hookAt'[u] = hookAt[u]
  BY DEF HookGoes, RelayInv, RelayTypes
<1>2. \A u \in Threads : hookAt'[u] # "idle" => hookAt'[u] = hookAt[u] /\ u # t
  BY <1>1
<1>3. \A u \in Threads : hookAt'[u] = "trigger" => hookOf[u] # hookOf[t]
  BY <1>1, <1>2 DEF RelayInv, OneTrigger
<1>4. \A h \in Hooks : Triggering(h)' <=> Triggering(h) /\ h # hookOf[t]
  BY <1>1, <1>3 DEF Triggering
<1> QED
  BY <1>1, <1>2, <1>3, <1>4

\* The id stays: the build it has started is the one more that is allowed.
LEMMA TriggeredKeeps ==
  ASSUME RelayInv, NEW t \in Threads, Triggered(t)
  PROVE  RelayInv'
<1>1. /\ HookGoes(t, "trigger", "idle") /\ queued' = BumpOf(queued, hookOf[t])
      /\ UNCHANGED <<clock, seenIds, hookOf, moment, arrived, lostAnswer, windows,
                     relayRestarted>>
  BY DEF Triggered
<1>2. /\ hookAt[t] = "trigger" /\ hookOf[t] \in Hooks
      /\ hookAt' \in [Threads -> {"idle", "checked", "trigger"}]
      /\ \A u \in Threads : hookAt'[u] # "idle" => hookAt'[u] = hookAt[u] /\ u # t
      /\ \A u \in Threads : hookAt'[u] = "trigger" => hookOf[u] # hookOf[t]
      /\ \A h \in Hooks : Triggering(h)' <=> Triggering(h) /\ h # hookOf[t]
  BY <1>1, TriggerEnds
<1>3. /\ queued' \in [Hooks -> Nat] /\ queued'[hookOf[t]] = queued[hookOf[t]] + 1
      /\ \A h \in Hooks \ {hookOf[t]} : queued'[h] = queued[h]
  BY <1>1, <1>2 DEF BumpOf, RelayInv, RelayTypes
<1>4. RelayTypes'
  BY <1>1, <1>2, <1>3 DEF RelayInv, RelayTypes
<1>5. RequestsEnd' /\ OneMoment' /\ TriggerIsSeen' /\ OneTrigger'
  BY <1>1, <1>2 DEF RelayInv, RequestsEnd, OneMoment, TriggerIsSeen, OneTrigger
<1>6. BuildsCounted'
  <2>1. Triggering(hookOf[t]) /\ Remembered(hookOf[t])'
    BY <1>1, <1>2 DEF Triggering, Remembered, RelayInv, TriggerIsSeen
  <2>2. \A h \in Hooks : Remembered(h)' <=> Remembered(h)
    BY <1>1 DEF Remembered
  <2>3. \A h \in Hooks : queued[h] \in Nat /\ lostAnswer[h] \in Nat /\ windows[h] \in Nat
    BY DEF RelayInv, RelayTypes
  <2> QED
    BY <1>1, <1>2, <1>3, <2>1, <2>2, <2>3 DEF RelayInv, BuildsCounted
<1> QED
  BY <1>4, <1>5, <1>6 DEF RelayInv

\* The id is forgotten: no other thread counts on it.
LEMMA ForgetKeeps ==
  ASSUME RelayInv, NEW t \in Threads, HookGoes(t, "trigger", "idle"),
         Forgets(hookOf[t]), UNCHANGED <<clock, hookOf, moment>>
  PROVE  /\ RequestsEnd' /\ OneMoment' /\ TriggerIsSeen' /\ OneTrigger'
         /\ seenIds' \subseteq Hooks \X Nat /\ IsFiniteSet(seenIds')
         /\ \A h \in Hooks : Remembered(h)' <=> Remembered(h) /\ h # hookOf[t]
<1>1. /\ \A u \in Threads : hookAt'[u] # "idle" => hookAt'[u] = hookAt[u] /\ u # t
      /\ \A u \in Threads : hookAt'[u] = "trigger" => hookOf[u] # hookOf[t]
  BY TriggerEnds
<1>2. seenIds' = {s \in seenIds : s[1] # hookOf[t]} /\ seenIds' \subseteq seenIds
  BY DEF Forgets
<1>3. seenIds' \subseteq Hooks \X Nat /\ IsFiniteSet(seenIds')
  BY <1>2, FS_Subset DEF RelayInv, RelayTypes
<1>4. RequestsEnd' /\ OneMoment' /\ OneTrigger'
  BY <1>1, <1>2 DEF RelayInv, RequestsEnd, OneMoment, OneTrigger
<1>5. TriggerIsSeen'
  <2> SUFFICES ASSUME NEW u \in Threads, hookAt'[u] = "trigger"
               PROVE  <<hookOf[u], moment[u]>> \in seenIds'
    BY DEF TriggerIsSeen
  <2>1. <<hookOf[u], moment[u]>> \in seenIds
    BY <1>1 DEF RelayInv, TriggerIsSeen
  <2> QED
    BY <1>1, <1>2, <2>1
<1>6. \A h \in Hooks : Remembered(h)' <=> Remembered(h) /\ h # hookOf[t]
  BY <1>2 DEF Remembered
<1> QED
  BY <1>3, <1>4, <1>5, <1>6

LEMMA RefusedKeeps ==
  ASSUME RelayInv, NEW t \in Threads, Refused(t)
  PROVE  RelayInv'
<1>1. /\ HookGoes(t, "trigger", "idle") /\ Forgets(hookOf[t])
      /\ UNCHANGED <<clock, hookOf, moment, arrived, queued, lostAnswer, windows,
                     relayRestarted>>
  BY DEF Refused
<1>2. /\ hookAt[t] = "trigger" /\ hookOf[t] \in Hooks
      /\ hookAt' \in [Threads -> {"idle", "checked", "trigger"}]
      /\ \A h \in Hooks : Triggering(h)' <=> Triggering(h) /\ h # hookOf[t]
  BY <1>1, TriggerEnds
<1>3. /\ RequestsEnd' /\ OneMoment' /\ TriggerIsSeen' /\ OneTrigger'
      /\ seenIds' \subseteq Hooks \X Nat /\ IsFiniteSet(seenIds')
      /\ \A h \in Hooks : Remembered(h)' <=> Remembered(h) /\ h # hookOf[t]
  BY <1>1, ForgetKeeps
<1>4. RelayTypes'
  BY <1>1, <1>2, <1>3 DEF RelayInv, RelayTypes
<1>5. BuildsCounted'
  <2>1. Triggering(hookOf[t])
    BY <1>2 DEF Triggering
  <2> QED
    BY <1>1, <1>2, <1>3, <2>1 DEF RelayInv, BuildsCounted
<1> QED
  BY <1>3, <1>4, <1>5 DEF RelayInv

LEMMA TriggeredUnheardKeeps ==
  ASSUME RelayInv, NEW t \in Threads, TriggeredUnheard(t)
  PROVE  RelayInv'
<1>1. /\ HookGoes(t, "trigger", "idle") /\ Forgets(hookOf[t])
      /\ queued' = BumpOf(queued, hookOf[t]) /\ lostAnswer' = BumpOf(lostAnswer, hookOf[t])
      /\ UNCHANGED <<clock, hookOf, moment, arrived, windows, relayRestarted>>
  BY DEF TriggeredUnheard
<1>2. /\ hookAt[t] = "trigger" /\ hookOf[t] \in Hooks
      /\ hookAt' \in [Threads -> {"idle", "checked", "trigger"}]
      /\ \A h \in Hooks : Triggering(h)' <=> Triggering(h) /\ h # hookOf[t]
  BY <1>1, TriggerEnds
<1>3. /\ RequestsEnd' /\ OneMoment' /\ TriggerIsSeen' /\ OneTrigger'
      /\ seenIds' \subseteq Hooks \X Nat /\ IsFiniteSet(seenIds')
      /\ \A h \in Hooks : Remembered(h)' <=> Remembered(h) /\ h # hookOf[t]
  BY <1>1, ForgetKeeps
<1>4. /\ queued' \in [Hooks -> Nat] /\ lostAnswer' \in [Hooks -> Nat]
      /\ queued'[hookOf[t]] = queued[hookOf[t]] + 1
      /\ lostAnswer'[hookOf[t]] = lostAnswer[hookOf[t]] + 1
      /\ \A h \in Hooks \ {hookOf[t]} : queued'[h] = queued[h] /\ lostAnswer'[h] = lostAnswer[h]
  BY <1>1, <1>2 DEF BumpOf, RelayInv, RelayTypes
<1>5. RelayTypes'
  BY <1>1, <1>2, <1>3, <1>4 DEF RelayInv, RelayTypes
<1>6. BuildsCounted'
  <2>1. Triggering(hookOf[t])
    BY <1>2 DEF Triggering
  <2>2. \A h \in Hooks : queued[h] \in Nat /\ lostAnswer[h] \in Nat /\ windows[h] \in Nat
    BY DEF RelayInv, RelayTypes
  <2> QED
    BY <1>1, <1>2, <1>3, <1>4, <2>1, <2>2 DEF RelayInv, BuildsCounted
<1> QED
  BY <1>3, <1>5, <1>6 DEF RelayInv

LEMMA TimePassesKeeps ==
  ASSUME RelayInv, TimePasses
  PROVE  RelayInv'
<1>1. /\ clock' = clock + 1
      /\ \A t \in Threads : hookAt[t] # "idle" => clock - moment[t] < TriggerMax
      /\ UNCHANGED <<seenIds, hookAt, hookOf, moment, arrived, queued, lostAnswer,
                     windows, relayRestarted>>
  BY DEF TimePasses
<1>2. RelayTypes'
  BY <1>1 DEF RelayInv, RelayTypes
<1>3. RequestsEnd'
  BY <1>1, RelayAssumption DEF RelayInv, RelayTypes, RequestsEnd
<1>4. OneMoment' /\ TriggerIsSeen' /\ OneTrigger'
  BY <1>1 DEF RelayInv, OneMoment, TriggerIsSeen, OneTrigger
<1>5. BuildsCounted'
  BY <1>1 DEF RelayInv, BuildsCounted, Triggering, Remembered
<1> QED
  BY <1>2, <1>3, <1>4, <1>5 DEF RelayInv

LEMMA RelayRestartsKeeps ==
  ASSUME RelayInv, RelayRestarts
  PROVE  RelayInv'
<1>1. IsFiniteSet({})
  BY FS_EmptySet
<1>2. RelayTypes'
  BY <1>1 DEF RelayRestarts, RelayInv, RelayTypes
<1>3. RequestsEnd' /\ OneMoment' /\ TriggerIsSeen' /\ OneTrigger' /\ BuildsCounted'
  BY DEF RelayRestarts, RelayInv, RequestsEnd, OneMoment, TriggerIsSeen, OneTrigger,
         BuildsCounted
<1> QED
  BY <1>2, <1>3 DEF RelayInv

LEMMA RelayStillKeeps ==
  ASSUME RelayInv, UNCHANGED relayVars
  PROVE  RelayInv'
BY DEF RelayInv, relayVars, RelayTypes, RequestsEnd, OneMoment, TriggerIsSeen,
       OneTrigger, BuildsCounted, Triggering, Remembered

LEMMA RelayStepKeeps ==
  ASSUME RelayInv, [RelayNext]_relayVars
  PROVE  RelayInv'
<1>1. CASE UNCHANGED relayVars
  BY <1>1, RelayStillKeeps
<1>2. CASE \E t \in Threads :
             \/ \E h \in Hooks : Arrives(t, h)
             \/ LookUp(t) \/ Triggered(t) \/ Refused(t) \/ TriggeredUnheard(t)
  BY <1>2, ArrivesKeeps, LookUpKeeps, TriggeredKeeps, RefusedKeeps, TriggeredUnheardKeeps
<1>3. CASE TimePasses \/ RelayRestarts
  BY <1>3, TimePassesKeeps, RelayRestartsKeeps
<1> QED
  BY <1>1, <1>2, <1>3 DEF RelayNext

----------------------------------------------------------------------------
(* The counts of the relay: what a delivery may cause, a request of it has. *)

\* The requests of a delivery that are being handled, and those of them that
\* have not been looked up.
Handled(h) == {t \in Threads : hookAt[t] # "idle" /\ hookOf[t] = h}
Unseen(h)  == {t \in Threads : hookAt[t] = "checked" /\ hookOf[t] = h}
SeenAs(h)  == {s \in seenIds : s[1] = h}

\* Each request starts one build at most, and passes one window at most.
RequestsCounted ==
    /\ clock <= MaxClock /\ arrived \in 0 .. MaxDeliveries
    /\ seenIds \subseteq Hooks \X (0 .. MaxClock) /\ \A t \in Threads : moment[t] <= MaxClock
    /\ \A h \in Hooks :
          /\ IsFiniteSet(Handled(h)) /\ lostAnswer[h] <= queued[h]
          /\ queued[h] + Cardinality(Handled(h)) <= arrived
          /\ windows[h] + Cardinality(SeenAs(h)) + Cardinality(Unseen(h)) <= arrived

\* What is counted is finite.
LEMMA CountsAreNumbers ==
  ASSUME RelayInv, RequestsCounted, NEW h \in Hooks
  PROVE  /\ IsFiniteSet(SeenAs(h)) /\ IsFiniteSet(Unseen(h)) /\ IsFiniteSet(Handled(h))
         /\ Cardinality(SeenAs(h)) \in Nat /\ Cardinality(Unseen(h)) \in Nat
         /\ Cardinality(Handled(h)) \in Nat
         /\ queued[h] \in Nat /\ lostAnswer[h] \in Nat /\ windows[h] \in Nat /\ arrived \in Nat
<1>1. IsFiniteSet(seenIds) /\ SeenAs(h) \subseteq seenIds
  BY DEF RelayInv, RelayTypes, SeenAs
<1>2. IsFiniteSet(Handled(h)) /\ Unseen(h) \subseteq Handled(h)
  BY DEF RequestsCounted, Unseen, Handled
<1>3. IsFiniteSet(SeenAs(h)) /\ IsFiniteSet(Unseen(h))
  BY <1>1, <1>2, FS_Subset
<1>4. queued[h] \in Nat /\ lostAnswer[h] \in Nat /\ windows[h] \in Nat /\ arrived \in Nat
  BY DEF RelayInv, RelayTypes, RequestsCounted
<1> QED
  BY <1>2, <1>3, <1>4, FS_CardinalityType

LEMMA CountedInit == RelayInit => RequestsCounted
<1> SUFFICES ASSUME RelayInit PROVE RequestsCounted
  OBVIOUS
<1>1. IsFiniteSet({}) /\ Cardinality({}) = 0
  BY FS_EmptySet
<1>2. ASSUME NEW h \in Hooks
      PROVE  /\ Handled(h) = {} /\ SeenAs(h) = {} /\ Unseen(h) = {}
             /\ lostAnswer[h] = 0 /\ queued[h] = 0 /\ windows[h] = 0
  BY DEF RelayInit, Handled, SeenAs, Unseen
<1>3. /\ clock = 0 /\ arrived = 0 /\ seenIds = {} /\ \A t \in Threads : moment[t] = 0
      /\ MaxClock \in Nat /\ MaxDeliveries \in Nat
  BY RelayAssumption DEF RelayInit
<1>4. ASSUME NEW h \in Hooks
      PROVE  /\ IsFiniteSet(Handled(h)) /\ lostAnswer[h] <= queued[h]
             /\ queued[h] + Cardinality(Handled(h)) <= arrived
             /\ windows[h] + Cardinality(SeenAs(h)) + Cardinality(Unseen(h)) <= arrived
  BY <1>1, <1>2, <1>3
<1>5. clock <= MaxClock /\ arrived \in 0 .. MaxDeliveries /\ \A t \in Threads : moment[t] <= MaxClock
  BY <1>3
<1> QED
  BY <1>3, <1>4, <1>5 DEF RequestsCounted

LEMMA ArrivesCounted ==
  ASSUME RelayInv, RequestsCounted, NEW t \in Threads, NEW g \in Hooks, Arrives(t, g)
  PROVE  RequestsCounted'
<1>1. /\ hookAt[t] = "idle" /\ hookAt' = [hookAt EXCEPT ![t] = "checked"]
      /\ arrived < MaxDeliveries /\ arrived' = arrived + 1
      /\ hookOf' = [hookOf EXCEPT ![t] = g] /\ moment' = [moment EXCEPT ![t] = clock]
      /\ UNCHANGED <<clock, seenIds, queued, lostAnswer, windows, relayRestarted>>
  BY DEF Arrives, HookGoes
<1>2. /\ hookAt'[t] = "checked" /\ hookOf'[t] = g
      /\ \A u \in Threads \ {t} : hookAt'[u] = hookAt[u] /\ hookOf'[u] = hookOf[u]
  BY <1>1 DEF RelayInv, RelayTypes
<1>3. ASSUME NEW h \in Hooks
      PROVE  /\ IsFiniteSet(Handled(h)') /\ lostAnswer'[h] <= queued'[h]
             /\ queued'[h] + Cardinality(Handled(h)') <= arrived'
             /\ windows'[h] + Cardinality(SeenAs(h)') + Cardinality(Unseen(h)') <= arrived'
  <2>1. /\ t \notin Handled(h) /\ t \notin Unseen(h) /\ SeenAs(h)' = SeenAs(h)
        /\ Handled(h)' = Handled(h) \/ Handled(h)' = Handled(h) \cup {t}
        /\ Unseen(h)' = Unseen(h) \/ Unseen(h)' = Unseen(h) \cup {t}
    BY <1>1, <1>2 DEF Handled, Unseen, SeenAs
  <2>2. /\ IsFiniteSet(SeenAs(h)) /\ IsFiniteSet(Unseen(h)) /\ IsFiniteSet(Handled(h))
        /\ Cardinality(SeenAs(h)) \in Nat /\ Cardinality(Unseen(h)) \in Nat
        /\ Cardinality(Handled(h)) \in Nat
        /\ queued[h] \in Nat /\ windows[h] \in Nat /\ arrived \in Nat
    BY CountsAreNumbers
  <2>3. /\ IsFiniteSet(Handled(h) \cup {t})
        /\ Cardinality(Handled(h) \cup {t}) = Cardinality(Handled(h)) + 1
        /\ Cardinality(Unseen(h) \cup {t}) = Cardinality(Unseen(h)) + 1
    <3> HIDE DEF Handled, Unseen
    <3> QED
      BY <2>1, <2>2, FS_AddElement
  <2>4. /\ lostAnswer[h] <= queued[h] /\ queued[h] + Cardinality(Handled(h)) <= arrived
        /\ windows[h] + Cardinality(SeenAs(h)) + Cardinality(Unseen(h)) <= arrived
    BY DEF RequestsCounted
  <2>5. /\ IsFiniteSet(Handled(h)') /\ Cardinality(Handled(h)') \in Nat
        /\ Cardinality(Handled(h)') <= Cardinality(Handled(h)) + 1
        /\ Cardinality(Unseen(h)') \in Nat
        /\ Cardinality(Unseen(h)') <= Cardinality(Unseen(h)) + 1
    <3>1. \/ Cardinality(Handled(h)') = Cardinality(Handled(h))
          \/ Cardinality(Handled(h)') = Cardinality(Handled(h)) + 1
      BY <2>1, <2>3
    <3>2. \/ Cardinality(Unseen(h)') = Cardinality(Unseen(h))
          \/ Cardinality(Unseen(h)') = Cardinality(Unseen(h)) + 1
      BY <2>1, <2>3
    <3>3. IsFiniteSet(Handled(h)')
      BY <2>1, <2>2, <2>3
    <3> QED
      BY <2>2, <3>1, <3>2, <3>3
  <2>6. Cardinality(SeenAs(h)') = Cardinality(SeenAs(h))
    BY <2>1
  <2> HIDE DEF Handled, Unseen, SeenAs
  <2> QED
    BY <1>1, <2>2, <2>4, <2>5, <2>6
<1>4. clock' <= MaxClock /\ \A u \in Threads : moment'[u] <= MaxClock
  BY <1>1 DEF RelayInv, RelayTypes, RequestsCounted
<1>5. arrived' \in 0 .. MaxDeliveries
  BY <1>1, RelayAssumption DEF RequestsCounted
<1>6. seenIds' \subseteq Hooks \X (0 .. MaxClock)
  BY <1>1 DEF RequestsCounted
<1> QED
  BY <1>3, <1>4, <1>5, <1>6 DEF RequestsCounted

\* A request is over: it was handled, and is not any more.
LEMMA HandledShrinks ==
  ASSUME RelayInv, RequestsCounted, NEW t \in Threads, hookAt[t] # "idle",
         hookAt' = [hookAt EXCEPT ![t] = "idle"], UNCHANGED hookOf
  PROVE  \A h \in Hooks :
            /\ IsFiniteSet(Handled(h)') /\ Cardinality(Handled(h)') \in Nat
            /\ Cardinality(Handled(h)') =
                  Cardinality(Handled(h)) - (IF h = hookOf[t] THEN 1 ELSE 0)
<1> TAKE h \in Hooks
<1>1. hookAt'[t] = "idle" /\ \A u \in Threads \ {t} : hookAt'[u] = hookAt[u]
  BY DEF RelayInv, RelayTypes
<1>2. IsFiniteSet(Handled(h)) /\ Cardinality(Handled(h)) \in Nat
  BY CountsAreNumbers
<1>3. CASE h = hookOf[t]
  <2>1. t \in Handled(h) /\ Handled(h)' = Handled(h) \ {t}
    BY <1>1, <1>3 DEF Handled
  <2>2. IsFiniteSet(Handled(h) \ {t}) /\ Cardinality(Handled(h) \ {t}) = Cardinality(Handled(h)) - 1
    BY <1>2, <2>1, FS_RemoveElement
  <2>3. Cardinality(Handled(h) \ {t}) \in Nat
    BY <2>2, FS_CardinalityType
  <2> QED
    BY <1>3, <2>1, <2>2, <2>3
<1>4. CASE h # hookOf[t]
  <2>1. Handled(h)' = Handled(h)
    BY <1>1, <1>4 DEF Handled
  <2> QED
    BY <1>2, <1>4, <2>1
<1> QED
  BY <1>3, <1>4

LEMMA TriggerEndsCounted ==
  ASSUME RelayInv, RequestsCounted, NEW t \in Threads,
         Triggered(t) \/ Refused(t) \/ TriggeredUnheard(t)
  PROVE  RequestsCounted'
<1>1. /\ hookAt[t] = "trigger" /\ hookAt' = [hookAt EXCEPT ![t] = "idle"]
      /\ UNCHANGED <<clock, hookOf, moment, arrived, windows>>
      /\ seenIds' \subseteq seenIds /\ queued' \in {queued, BumpOf(queued, hookOf[t])}
      /\ \/ lostAnswer' = lostAnswer
         \/ lostAnswer' = BumpOf(lostAnswer, hookOf[t]) /\ queued' = BumpOf(queued, hookOf[t])
  <2>1. CASE Triggered(t)
    BY <2>1 DEF Triggered, HookGoes
  <2>2. CASE Refused(t)
    BY <2>2 DEF Refused, HookGoes, Forgets
  <2>3. CASE TriggeredUnheard(t)
    BY <2>3 DEF TriggeredUnheard, HookGoes, Forgets
  <2> QED
    BY <2>1, <2>2, <2>3
<1>2. ASSUME NEW h \in Hooks
      PROVE  /\ IsFiniteSet(Handled(h)') /\ lostAnswer'[h] <= queued'[h]
             /\ queued'[h] + Cardinality(Handled(h)') <= arrived'
             /\ windows'[h] + Cardinality(SeenAs(h)') + Cardinality(Unseen(h)') <= arrived'
  <2>1. /\ IsFiniteSet(SeenAs(h)) /\ IsFiniteSet(Unseen(h))
        /\ Cardinality(SeenAs(h)) \in Nat /\ Cardinality(Unseen(h)) \in Nat
        /\ Cardinality(Handled(h)) \in Nat /\ lostAnswer[h] \in Nat
        /\ queued[h] \in Nat /\ windows[h] \in Nat /\ arrived \in Nat
    BY CountsAreNumbers
  <2>2. /\ lostAnswer[h] <= queued[h] /\ queued[h] + Cardinality(Handled(h)) <= arrived
        /\ windows[h] + Cardinality(SeenAs(h)) + Cardinality(Unseen(h)) <= arrived
    BY DEF RequestsCounted
  <2>3. /\ IsFiniteSet(Handled(h)') /\ Cardinality(Handled(h)') \in Nat
        /\ Cardinality(Handled(h)') =
              Cardinality(Handled(h)) - (IF h = hookOf[t] THEN 1 ELSE 0)
    BY <1>1, HandledShrinks
  <2>4. /\ BumpOf(queued, hookOf[t])[h] = queued[h] + (IF h = hookOf[t] THEN 1 ELSE 0)
        /\ BumpOf(lostAnswer, hookOf[t])[h] = lostAnswer[h] + (IF h = hookOf[t] THEN 1 ELSE 0)
    BY DEF BumpOf, RelayInv, RelayTypes
  <2>5. SeenAs(h)' \subseteq SeenAs(h) /\ Unseen(h)' = Unseen(h)
    <3>1. \A u \in Threads : hookAt'[u] = "checked" <=> hookAt[u] = "checked"
      BY <1>1 DEF RelayInv, RelayTypes
    <3> QED
      BY <1>1, <3>1 DEF SeenAs, Unseen
  <2>6. Cardinality(SeenAs(h)') \in Nat /\ Cardinality(SeenAs(h)') <= Cardinality(SeenAs(h))
    BY <2>1, <2>5, FS_Subset, FS_CardinalityType
  <2>7. Cardinality(Unseen(h)') = Cardinality(Unseen(h))
    BY <2>5
  <2>8. /\ queued'[h] \in {queued[h], queued[h] + (IF h = hookOf[t] THEN 1 ELSE 0)}
        /\ lostAnswer'[h] <= queued'[h]
    BY <1>1, <2>1, <2>2, <2>4
  <2>9. queued'[h] + Cardinality(Handled(h)') <= arrived
    BY <2>1, <2>2, <2>3, <2>8
  <2>10. windows[h] + Cardinality(SeenAs(h)') + Cardinality(Unseen(h)') <= arrived
    BY <2>1, <2>2, <2>6, <2>7
  <2> QED
    BY <1>1, <2>3, <2>8, <2>9, <2>10
<1>3. seenIds' \subseteq Hooks \X (0 .. MaxClock)
  BY <1>1 DEF RequestsCounted
<1>4. clock' <= MaxClock /\ arrived' \in 0 .. MaxDeliveries /\ \A u \in Threads : moment'[u] <= MaxClock
  BY <1>1 DEF RequestsCounted
<1> QED
  BY <1>2, <1>3, <1>4 DEF RequestsCounted

LEMMA LookUpCounted ==
  ASSUME RelayInv, RequestsCounted, NEW t \in Threads, LookUp(t)
  PROVE  RequestsCounted'
<1> DEFINE known == \E s \in seenIds \ Old(t) : s[1] = hookOf[t]
           mine  == <<hookOf[t], moment[t]>>
<1>1. /\ hookAt[t] = "checked" /\ hookOf[t] \in Hooks /\ moment[t] \in Nat
      /\ known => hookAt' = [hookAt EXCEPT ![t] = "idle"]
      /\ ~known => hookAt' = [hookAt EXCEPT ![t] = "trigger"]
      /\ seenIds' \subseteq (seenIds \ Old(t)) \cup {mine}
      /\ windows' = [h \in Hooks |-> windows[h] + Cardinality({s \in Old(t) : s[1] = h})]
      /\ known => seenIds' = seenIds \ Old(t)
      /\ UNCHANGED <<clock, hookOf, moment, arrived, queued, lostAnswer, relayRestarted>>
  BY DEF LookUp, HookGoes, Old, RelayInv, RelayTypes
<1>2. /\ hookAt'[t] \in {"idle", "trigger"}
      /\ \A u \in Threads \ {t} : hookAt'[u] = hookAt[u]
  BY <1>1 DEF RelayInv, RelayTypes
<1> HIDE DEF known
<1>3. ASSUME NEW h \in Hooks
      PROVE  /\ IsFiniteSet(Handled(h)') /\ lostAnswer'[h] <= queued'[h]
             /\ queued'[h] + Cardinality(Handled(h)') <= arrived'
             /\ windows'[h] + Cardinality(SeenAs(h)') + Cardinality(Unseen(h)') <= arrived'
  <2> DEFINE gone == {s \in Old(t) : s[1] = h}
             rest == SeenAs(h) \ gone
  <2>1. /\ IsFiniteSet(SeenAs(h)) /\ IsFiniteSet(Unseen(h)) /\ IsFiniteSet(Handled(h))
        /\ Cardinality(SeenAs(h)) \in Nat /\ Cardinality(Unseen(h)) \in Nat
        /\ Cardinality(Handled(h)) \in Nat
        /\ queued[h] \in Nat /\ windows[h] \in Nat /\ arrived \in Nat
    BY CountsAreNumbers
  <2>2. /\ lostAnswer[h] <= queued[h] /\ queued[h] + Cardinality(Handled(h)) <= arrived
        /\ windows[h] + Cardinality(SeenAs(h)) + Cardinality(Unseen(h)) <= arrived
    BY DEF RequestsCounted
  <2>3. Handled(h)' \subseteq Handled(h)
    BY <1>1, <1>2 DEF Handled
  <2>4. /\ IsFiniteSet(Handled(h)') /\ Cardinality(Handled(h)') <= Cardinality(Handled(h))
        /\ Cardinality(Handled(h)') \in Nat
    BY <2>1, <2>3, FS_Subset, FS_CardinalityType
  <2>5. gone \subseteq SeenAs(h)
    BY DEF Old, SeenAs
  <2>6. /\ IsFiniteSet(gone) /\ IsFiniteSet(rest) /\ Cardinality(gone) \in Nat
        /\ Cardinality(rest) \in Nat
        /\ Cardinality(rest) + Cardinality(gone) = Cardinality(SeenAs(h))
    <3> HIDE DEF gone
    <3>1. IsFiniteSet(gone) /\ SeenAs(h) \cap gone = gone
      BY <2>1, <2>5, FS_Subset
    <3>2. /\ IsFiniteSet(rest)
          /\ Cardinality(rest) = Cardinality(SeenAs(h)) - Cardinality(SeenAs(h) \cap gone)
      BY <2>1, FS_Difference
    <3>3. Cardinality(gone) \in Nat /\ Cardinality(rest) \in Nat
      BY <3>1, <3>2, FS_CardinalityType
    <3> QED
      BY <2>1, <3>1, <3>2, <3>3
  <2>7. windows'[h] = windows[h] + Cardinality(gone)
    BY <1>1
  <2>8. /\ Cardinality(SeenAs(h)') + Cardinality(Unseen(h)') <= Cardinality(rest) + Cardinality(Unseen(h))
        /\ Cardinality(SeenAs(h)') \in Nat /\ Cardinality(Unseen(h)') \in Nat
    <3>1. CASE h = hookOf[t]
      <4>1. t \in Unseen(h) /\ Unseen(h)' = Unseen(h) \ {t}
        BY <1>1, <1>2, <3>1 DEF Unseen
      <4>2. /\ IsFiniteSet(Unseen(h) \ {t})
            /\ Cardinality(Unseen(h) \ {t}) = Cardinality(Unseen(h)) - 1
        BY <2>1, <4>1, FS_RemoveElement
      <4>3. SeenAs(h)' \subseteq rest \cup {mine}
        BY <1>1, <2>5 DEF SeenAs
      <4>4. /\ IsFiniteSet(rest \cup {mine})
            /\ Cardinality(rest \cup {mine}) <= Cardinality(rest) + 1
        <5> HIDE DEF rest, mine
        <5>1. /\ IsFiniteSet(rest \cup {mine})
              /\ Cardinality(rest \cup {mine}) =
                    IF mine \in rest THEN Cardinality(rest) ELSE Cardinality(rest) + 1
          BY <2>6, FS_AddElement
        <5> QED
          BY <2>6, <5>1
      <4>5. /\ Cardinality(SeenAs(h)') <= Cardinality(rest \cup {mine})
            /\ Cardinality(SeenAs(h)') \in Nat /\ Cardinality(rest \cup {mine}) \in Nat
        <5> HIDE DEF rest, mine
        <5> QED
          BY <4>3, <4>4, FS_Subset, FS_CardinalityType
      <4>6. Cardinality(Unseen(h)') = Cardinality(Unseen(h)) - 1 /\ Cardinality(Unseen(h)') \in Nat
        BY <4>1, <4>2, FS_CardinalityType
      <4> HIDE DEF rest, mine
      <4> QED
        BY <2>1, <2>6, <4>4, <4>5, <4>6
    <3>2. CASE h # hookOf[t]
      <4>1. Unseen(h)' = Unseen(h)
        BY <1>1, <1>2, <3>2 DEF Unseen
      <4>2. SeenAs(h)' \subseteq rest
        BY <1>1, <3>2 DEF SeenAs
      <4>3. Cardinality(SeenAs(h)') <= Cardinality(rest) /\ Cardinality(SeenAs(h)') \in Nat
        BY <2>6, <4>2, FS_Subset, FS_CardinalityType
      <4>4. Cardinality(Unseen(h)') = Cardinality(Unseen(h))
        BY <4>1
      <4> HIDE DEF rest
      <4> QED
        BY <2>1, <2>6, <4>3, <4>4
    <3> QED
      BY <3>1, <3>2
  <2>9. queued[h] + Cardinality(Handled(h)') <= arrived
    BY <2>1, <2>2, <2>4
  <2> HIDE DEF rest, gone
  <2>10. windows'[h] + Cardinality(SeenAs(h)') + Cardinality(Unseen(h)') <= arrived
    BY <2>1, <2>2, <2>6, <2>7, <2>8
  <2> QED
    BY <1>1, <2>2, <2>4, <2>9, <2>10
<1>4. mine \in Hooks \X (0 .. MaxClock)
  <2>1. moment[t] \in 0 .. MaxClock
    BY <1>1, RelayAssumption DEF RequestsCounted
  <2> QED
    BY <1>1, <2>1
<1>5. seenIds' \subseteq Hooks \X (0 .. MaxClock)
  BY <1>1, <1>4 DEF RequestsCounted
<1>6. clock' <= MaxClock /\ arrived' \in 0 .. MaxDeliveries /\ \A u \in Threads : moment'[u] <= MaxClock
  BY <1>1 DEF RequestsCounted
<1> QED
  BY <1>3, <1>5, <1>6 DEF RequestsCounted

LEMMA RelayRestartsCounted ==
  ASSUME RelayInv, RequestsCounted, RelayRestarts
  PROVE  RequestsCounted'
<1>1. IsFiniteSet({}) /\ Cardinality({}) = 0
  BY FS_EmptySet
<1>2. /\ seenIds' = {} /\ \A t \in Threads : hookAt'[t] = "idle"
      /\ UNCHANGED <<clock, hookOf, moment, arrived, queued, lostAnswer, windows>>
  BY DEF RelayRestarts
<1>3. ASSUME NEW h \in Hooks
      PROVE  /\ IsFiniteSet(Handled(h)') /\ lostAnswer'[h] <= queued'[h]
             /\ queued'[h] + Cardinality(Handled(h)') <= arrived'
             /\ windows'[h] + Cardinality(SeenAs(h)') + Cardinality(Unseen(h)') <= arrived'
  <2>1. Handled(h)' = {} /\ SeenAs(h)' = {} /\ Unseen(h)' = {}
    BY <1>2 DEF Handled, SeenAs, Unseen
  <2>2. /\ Cardinality(SeenAs(h)) \in Nat /\ Cardinality(Unseen(h)) \in Nat
        /\ Cardinality(Handled(h)) \in Nat
        /\ queued[h] \in Nat /\ windows[h] \in Nat /\ arrived \in Nat
    BY CountsAreNumbers
  <2>3. /\ lostAnswer[h] <= queued[h] /\ queued[h] + Cardinality(Handled(h)) <= arrived
        /\ windows[h] + Cardinality(SeenAs(h)) + Cardinality(Unseen(h)) <= arrived
    BY DEF RequestsCounted
  <2> QED
    BY <1>1, <1>2, <2>1, <2>2, <2>3
<1> QED
  BY <1>2, <1>3 DEF RequestsCounted

LEMMA CountedStays ==
  ASSUME RelayInv, RequestsCounted, [RelayNext]_relayVars
  PROVE  RequestsCounted'
<1>1. CASE UNCHANGED relayVars
  BY <1>1 DEF relayVars, RequestsCounted, Handled, SeenAs, Unseen
<1>2. CASE TimePasses
  <2>1. clock' = clock + 1 /\ clock < MaxClock /\ clock \in Nat /\ MaxClock \in Nat
    BY <1>2, RelayAssumption DEF TimePasses, RelayInv, RelayTypes
  <2>2. UNCHANGED <<seenIds, hookAt, hookOf, moment, arrived, queued, lostAnswer, windows>>
    BY <1>2 DEF TimePasses
  <2>3. \A h \in Hooks : Handled(h)' = Handled(h) /\ SeenAs(h)' = SeenAs(h) /\ Unseen(h)' = Unseen(h)
    BY <2>2 DEF Handled, SeenAs, Unseen
  <2>4. clock' <= MaxClock
    BY <2>1
  <2>5. \A h \in Hooks :
           /\ IsFiniteSet(Handled(h)') /\ lostAnswer'[h] <= queued'[h]
           /\ queued'[h] + Cardinality(Handled(h)') <= arrived'
           /\ windows'[h] + Cardinality(SeenAs(h)') + Cardinality(Unseen(h)') <= arrived'
    BY <2>2, <2>3 DEF RequestsCounted
  <2>6. /\ arrived' \in 0 .. MaxDeliveries /\ seenIds' \subseteq Hooks \X (0 .. MaxClock)
        /\ \A t \in Threads : moment'[t] <= MaxClock
    BY <2>2 DEF RequestsCounted
  <2> QED
    BY <2>4, <2>5, <2>6 DEF RequestsCounted
<1> QED
  BY <1>1, <1>2, ArrivesCounted, LookUpCounted, TriggerEndsCounted, RelayRestartsCounted
     DEF RelayNext

LEMMA RelayTyped ==
  ASSUME RelayInv, RequestsCounted
  PROVE  RelayTypeOK
<1>1. ASSUME NEW h \in Hooks
      PROVE  /\ queued[h] \in 0 .. MaxDeliveries /\ lostAnswer[h] \in 0 .. MaxDeliveries
             /\ windows[h] \in 0 .. MaxDeliveries
  <2>1. /\ Cardinality(SeenAs(h)) \in Nat /\ Cardinality(Unseen(h)) \in Nat
        /\ Cardinality(Handled(h)) \in Nat
        /\ queued[h] \in Nat /\ lostAnswer[h] \in Nat /\ windows[h] \in Nat
    BY CountsAreNumbers
  <2>2. /\ lostAnswer[h] <= queued[h] /\ queued[h] + Cardinality(Handled(h)) <= arrived
        /\ windows[h] + Cardinality(SeenAs(h)) + Cardinality(Unseen(h)) <= arrived
        /\ arrived \in Nat /\ arrived <= MaxDeliveries /\ MaxDeliveries \in Nat
    BY RelayAssumption DEF RequestsCounted
  <2> QED
    BY <2>1, <2>2
<1>2. /\ queued \in [Hooks -> 0 .. MaxDeliveries] /\ lostAnswer \in [Hooks -> 0 .. MaxDeliveries]
      /\ windows \in [Hooks -> 0 .. MaxDeliveries]
  BY <1>1 DEF RelayInv, RelayTypes
<1>3. clock \in 0 .. MaxClock /\ moment \in [Threads -> 0 .. MaxClock]
  BY RelayAssumption DEF RelayInv, RelayTypes, RequestsCounted
<1> QED
  BY <1>2, <1>3 DEF RelayInv, RelayTypes, RequestsCounted, RelayTypeOK

----------------------------------------------------------------------------
(* Together.                                                                *)

\* A step of all is a step, or none, of each.
LEMMA ServicesStep ==
  ASSUME [Next]_vars
  PROVE  [EventsNext]_eventsVars /\ [ReadsNext]_readsVars /\ [RelayNext]_relayVars
BY DEF Next, Events, Reads, Relay, vars

ServicesInv ==
    /\ EventsTypeOK /\ ReadsInv /\ ReadsTypeOK /\ HandoffHasRoom
    /\ RelayInv /\ RequestsCounted

LEMMA ServicesKeep == Init => ServicesInv
BY EventsTypesInit, ReadsInitInv, ReadsTypesInit, RelayInitInv, CountedInit DEF Init, ServicesInv

LEMMA ServicesStay == ServicesInv /\ [Next]_vars => ServicesInv'
BY ServicesStep, EventsTyped, ReadsStepKeeps, ReadsTyped, RoomStays, RelayStepKeeps, CountedStays
   DEF ServicesInv

\* Each part of a page was the content of its file at some moment of the
\* request, or the page says that it is stale (DashboardStore._read_json and
\* snapshot of read_model.py), however often the files change while it is read.
THEOREM PageIsFreshOrFlagged == Spec => []PageFreshOrFlagged
<1>1. ServicesInv => PageFreshOrFlagged
  BY DEF ServicesInv, ReadsInv, ReadIsFresh, Fresh, PageFreshOrFlagged, Parts
<1> QED
  BY <1>1, ServicesKeep, ServicesStay, PTL DEF Spec

\* A delivery starts one build, however many times and by however many threads
\* it arrives, plus one per lost answer and one per window that has passed
\* (Relay.handle and _Replay of hmac_relay.py), for any deliveries and times.
THEOREM DeliveryStartsOneBuild == Spec => []DeliveryBuildsOnce
<1>1. ServicesInv => DeliveryBuildsOnce
  BY DEF ServicesInv, RelayInv, BuildsCounted, DeliveryBuildsOnce
<1> QED
  BY <1>1, ServicesKeep, ServicesStay, PTL DEF Spec

\* At no time do two threads trigger the build of one delivery: what
\* _Replay's lock and its window are for.
THEOREM OneThreadTriggers == Spec => []OneTrigger
<1>1. ServicesInv => OneTrigger
  BY DEF ServicesInv, RelayInv
<1> QED
  BY <1>1, ServicesKeep, ServicesStay, PTL DEF Spec

\* No delivery has started more builds, lost more answers or passed more
\* windows than it has had requests: each request that Relay.handle lets pass
\* is looked up once, and triggers once at most.
THEOREM RequestsAreCounted ==
    Spec => []\A h \in Hooks : queued[h] <= arrived /\ lostAnswer[h] <= queued[h] /\ windows[h] <= arrived
<1>1. ASSUME ServicesInv, NEW h \in Hooks
      PROVE  queued[h] <= arrived /\ lostAnswer[h] <= queued[h] /\ windows[h] <= arrived
  <2>1. /\ Cardinality(SeenAs(h)) \in Nat /\ Cardinality(Unseen(h)) \in Nat
        /\ Cardinality(Handled(h)) \in Nat
        /\ queued[h] \in Nat /\ lostAnswer[h] \in Nat /\ windows[h] \in Nat /\ arrived \in Nat
    BY <1>1, CountsAreNumbers DEF ServicesInv
  <2>2. /\ lostAnswer[h] <= queued[h] /\ queued[h] + Cardinality(Handled(h)) <= arrived
        /\ windows[h] + Cardinality(SeenAs(h)) + Cardinality(Unseen(h)) <= arrived
    BY <1>1 DEF ServicesInv, RequestsCounted
  <2> QED
    BY <2>1, <2>2
<1>2. ServicesInv => \A h \in Hooks : queued[h] <= arrived /\ lostAnswer[h] <= queued[h] /\ windows[h] <= arrived
  BY <1>1
<1> QED
  BY <1>2, ServicesKeep, ServicesStay, PTL DEF Spec

\* Every variable of the three services has its type, the counts of the relay
\* within what its requests allow (watcher.py, broadcaster.py, actions.py,
\* read_model.py, hmac_relay.py).
THEOREM ServicesTypes == Spec => []TypeOK
<1>1. ServicesInv => TypeOK
  BY RelayTyped DEF ServicesInv, TypeOK
<1> QED
  BY <1>1, ServicesKeep, ServicesStay, PTL DEF Spec

=============================================================================
