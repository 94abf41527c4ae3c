--------------------------- MODULE DashboardReads ---------------------------
(***************************************************************************)
(* How the dashboard reads the files that other processes write            *)
(* (memory/dashboard/read_model.py).  last_handoff.json is written in      *)
(* place, so a read may find it torn.  _read_json then reads again, three  *)
(* times when it has no earlier content and not at all when it has one; it *)
(* falls back to that content, or to the default, and marks the file as    *)
(* stale.  A snapshot reads the state, then the handoff, and then asks     *)
(* whether one of them is marked.                                          *)
(***************************************************************************)
EXTENDS Naturals

CONSTANTS
    MaxContent,   \* bound: the contents a file takes one after the other
    TornRetries   \* TORN_RETRIES

ASSUME ReadsAssumption == MaxContent \in Nat /\ TornRetries \in Nat

Parts == {"state", "handoff"}

VARIABLES
    content,    \* the content of each file; 0 while there is none
    lastContent,\* the newest content there was
    tornNow,    \* the file is being written in place
    cached,     \* DashboardStore._cache; 0 for none
    marked,     \* DashboardStore._stale
    reading,    \* the part that is being read, "respond" or "none"
    seenFile,   \* is_file said that it exists
    tries,      \* the attempts left
    page,       \* the content of each part as it will be shown; 0 for default
    pageStale,  \* what the page says of itself
    held        \* history: the contents each file had since the request began

readsVars == <<content, lastContent, tornNow, cached, marked, reading, seenFile,
               tries, page, pageStale, held>>
files  == <<content, lastContent, tornNow, held>>

Contents == 0 .. MaxContent

ReadsTypeOK ==
    /\ content \in [Parts -> Contents] /\ lastContent \in [Parts -> Contents]
    /\ tornNow \subseteq Parts /\ cached \in [Parts -> Contents]
    /\ marked \subseteq Parts /\ reading \in Parts \cup {"respond", "none"}
    /\ seenFile \in BOOLEAN /\ tries \in 0 .. TornRetries + 1
    /\ page \in [Parts -> Contents] /\ pageStale \in BOOLEAN
    /\ held \in [Parts -> SUBSET Contents]

ReadsInit ==
    /\ content = [p \in Parts |-> 0] /\ lastContent = content
    /\ tornNow = {} /\ cached = [p \in Parts |-> 0] /\ marked = {}
    /\ reading = "none" /\ seenFile = FALSE /\ tries = 0
    /\ page = [p \in Parts |-> 0] /\ pageStale = FALSE
    /\ held = [p \in Parts |-> {0}]

Holds(p, v) == /\ content' = [content EXCEPT ![p] = v]
               /\ held' = [held EXCEPT ![p] = @ \cup {v}]
serverVars == <<cached, marked, reading, seenFile, tries, page, pageStale>>

\* The state by a rename.
StateReplaced ==
    /\ lastContent["state"] < MaxContent
    /\ Holds("state", lastContent["state"] + 1)
    /\ lastContent' = [lastContent EXCEPT !["state"] = @ + 1]
    /\ UNCHANGED <<tornNow, serverVars>>

\* The handoff in place.
HandoffOpened ==
    /\ lastContent["handoff"] < MaxContent /\ "handoff" \notin tornNow
    /\ tornNow' = tornNow \cup {"handoff"}
    /\ UNCHANGED <<content, lastContent, held, serverVars>>

HandoffWritten ==
    /\ "handoff" \in tornNow /\ tornNow' = tornNow \ {"handoff"}
    /\ Holds("handoff", lastContent["handoff"] + 1)
    /\ lastContent' = [lastContent EXCEPT !["handoff"] = @ + 1]
    /\ UNCHANGED serverVars

FileRemoved(p) ==
    /\ content[p] # 0 /\ p \notin tornNow /\ Holds(p, 0)
    /\ UNCHANGED <<lastContent, tornNow, serverVars>>

RequestBegins ==
    /\ reading = "none" /\ reading' = "state"
    /\ seenFile' = FALSE /\ held' = [p \in Parts |-> {content[p]}]
    /\ UNCHANGED <<content, lastContent, tornNow, cached, marked, tries, page, pageStale>>

GoesOn(p) == reading' = IF p = "state" THEN "handoff" ELSE "respond"

\* One attempt too many.
LookForFileBroken(p) ==
    /\ reading = p /\ ~seenFile
    /\ content[p] # 0 \/ p \in tornNow
    /\ seenFile' = TRUE /\ tries' = TornRetries + 2
    /\ UNCHANGED <<marked, page, reading, files, cached, pageStale>>

\* is_file.  A file that is being written for the first time exists.
LookForFile(p) ==
    /\ reading = p /\ ~seenFile
    /\ IF content[p] # 0 \/ p \in tornNow
       THEN /\ seenFile' = TRUE
            /\ tries' = IF cached[p] # 0 THEN 1 ELSE TornRetries + 1
            /\ UNCHANGED <<marked, page, reading>>
       ELSE /\ marked' = marked \ {p} /\ page' = [page EXCEPT ![p] = 0]
            /\ GoesOn(p) /\ UNCHANGED <<seenFile, tries>>
    /\ UNCHANGED <<files, cached, pageStale>>

ReadGood(p) ==
    /\ reading = p /\ seenFile /\ tries > 0
    /\ p \notin tornNow /\ content[p] # 0
    /\ cached' = [cached EXCEPT ![p] = content[p]] /\ marked' = marked \ {p}
    /\ page' = [page EXCEPT ![p] = content[p]]
    /\ GoesOn(p) /\ seenFile' = FALSE /\ tries' = 0
    /\ UNCHANGED <<files, pageStale>>

\* Torn, or gone since is_file.
ReadBad(p) ==
    /\ reading = p /\ seenFile /\ tries > 0
    /\ p \in tornNow \/ content[p] = 0
    /\ tries' = tries - 1
    /\ UNCHANGED <<files, cached, marked, reading, seenFile, page, pageStale>>

\* The default is returned without the mark.
ReadGivesUpBroken(p) ==
    /\ reading = p /\ seenFile /\ tries = 0
    /\ marked' = IF cached[p] # 0 THEN marked \cup {p} ELSE marked
    /\ page' = [page EXCEPT ![p] = cached[p]]
    /\ GoesOn(p) /\ seenFile' = FALSE
    /\ UNCHANGED <<files, cached, tries, pageStale>>

ReadGivesUp(p) ==
    /\ reading = p /\ seenFile /\ tries = 0
    /\ marked' = marked \cup {p} /\ page' = [page EXCEPT ![p] = cached[p]]
    /\ GoesOn(p) /\ seenFile' = FALSE
    /\ UNCHANGED <<files, cached, tries, pageStale>>

\* snapshot: the flag of the page.
SnapshotEnds ==
    /\ reading = "respond" /\ reading' = "none" /\ pageStale' = (marked # {})
    /\ UNCHANGED <<files, cached, marked, seenFile, tries, page>>

ReadsNext ==
    \/ StateReplaced \/ HandoffOpened \/ HandoffWritten \/ RequestBegins \/ SnapshotEnds
    \/ \E p \in Parts : \/ FileRemoved(p) \/ LookForFile(p) \/ ReadGood(p)
                        \/ ReadBad(p) \/ ReadGivesUp(p)

----------------------------------------------------------------------------
(* Each part of a page was the content of its file at some moment of the    *)
(* request, or the page says that it is stale; it does not show what was    *)
(* there before, however the writers and the removals fall between the      *)
(* attempts (DashboardStore._read_json, snapshot).                          *)
PageFreshOrFlagged ==
    reading = "respond" =>
        \A p \in Parts : page[p] \in held[p] \/ p \in marked
=============================================================================
