------------------------------ MODULE Knowledge ------------------------------
(***************************************************************************)
(* memory/knowledge.py: the SQLite store that the Markdown documents are   *)
(* ingested into.  A row is found by <<document, heading>>; every upsert   *)
(* is a transaction of its own, and so is the compaction that ends a run:  *)
(* per category the MaxPerCategory highest ids stay.  An update keeps the  *)
(* id of its row, an insertion takes the highest plus one (no              *)
(* AUTOINCREMENT); only their order tells, so Compacted numbers the rows   *)
(* that are left anew.  No lock is held over a run: ingesters interleave,  *)
(* and documents change under them.  The search index follows the rows by  *)
(* triggers inside the same transaction, and is not kept apart here.       *)
(***************************************************************************)
EXTENDS Integers, FiniteSetsExt

CONSTANTS
    Ingesters,      \* the processes that ingest
    Docs,           \* the documents 1 .. n, in the order of their paths
    MaxPerCategory, \* the rows of a category that compaction leaves
    MaxEdits,       \* bound: the changes to the documents, and the rows
                    \* upserted by hand that are theirs or of their category
    MaxNotes        \* bound: the keys of rows upserted by hand that are no
                    \* document's

ASSUME KnowledgeAssumption ==
    /\ Docs \subseteq Nat \ {0} /\ IsFiniteSet(Docs)
    /\ MaxPerCategory \in Nat \ {0} /\ {MaxEdits, MaxNotes} \subseteq Nat

VARIABLES
    doc,      \* each document on disk: heading, body (0: empty or too large)
    knowledge,\* the rows, by key
    ingestAt, \* where each ingester is
    todo,     \* the documents it has still to visit
    read,     \* the document it has read
    edits,    \* bound
    alone,    \* history: no one else wrote and nothing changed since it began
    filled,   \* history: a run of ingest_docs has ended
    stirred,  \* history: an edit, a death, a dropped row or a document's row
              \* upserted by hand since a run that was alone and dropped nothing
    rerun     \* history: what the last run did to the rows that a run before
              \* it had left, with no edit and no one else in between

knowVars == <<doc, knowledge, ingestAt, todo, read, edits, alone, filled, stirred, rerun>>

Headings == {1, 2}
Bodies   == 0 .. 2
Notes    == {<<0, n>> : n \in 1 .. MaxNotes}
Cats     == {"doc", "note"}
ByHand   == 0    \* the body of a row upserted by hand: no document's text
Keys     == (Docs \X Headings) \cup Notes
Page     == [key : Keys, body : Bodies]
Row      == [id : Nat, cat : Cats, body : Bodies]
Contents(t) == {<<k, t[k].body>> : k \in DOMAIN t \ Notes}

KnowTypeOK ==
    /\ doc \in [Docs -> [heading : Headings, body : Bodies]]
    /\ DOMAIN knowledge \subseteq Keys /\ \A k \in DOMAIN knowledge : knowledge[k] \in Row
    /\ ingestAt \in [Ingesters -> {"idle", "walk", "write", "compact"}]
    /\ todo \in [Ingesters -> SUBSET Docs]
    /\ \A i \in Ingesters : read[i] \subseteq Page
    /\ edits \in 0 .. MaxEdits /\ alone \in [Ingesters -> BOOLEAN]
    /\ {filled, stirred} \subseteq BOOLEAN
    /\ DOMAIN rerun = {"left", "same"} /\ rerun.same \in BOOLEAN

KnowInit ==
    /\ doc = [d \in Docs |-> [heading |-> 1, body |-> 1]]
    /\ knowledge = [k \in {} |-> 0] /\ ingestAt = [i \in Ingesters |-> "idle"]
    /\ todo = [i \in Ingesters |-> {}] /\ read = [i \in Ingesters |-> {}]
    /\ edits = 0 /\ alone = [i \in Ingesters |-> FALSE]
    /\ filled = FALSE /\ stirred = FALSE
    /\ rerun = [left |-> {}, same |-> TRUE]

IngestGoes(i, from, to) == ingestAt[i] = from /\ ingestAt' = [ingestAt EXCEPT ![i] = to]
Busy == {i \in Ingesters : ingestAt[i] # "idle"}
\* What a run left behind says nothing about the next once this happens.
Forgotten == rerun' = [rerun EXCEPT !.left = {}]

\* An existing row keeps what it has.
UpsertBroken(t, page, cat) ==
    LET top == Max({0} \cup {t[k].id : k \in DOMAIN t}) IN
    [k \in DOMAIN t \cup {page.key} |-> IF k \in DOMAIN t THEN t[k]
       ELSE [id |-> top + 1, cat |-> cat, body |-> page.body]]

Upsert(t, page, cat) ==
    LET top == Max({0} \cup {t[k].id : k \in DOMAIN t}) IN
    [k \in DOMAIN t \cup {page.key} |-> IF k # page.key THEN t[k]
       ELSE [id |-> IF k \in DOMAIN t THEN t[k].id ELSE top + 1,
             cat |-> cat, body |-> page.body]]

\* compact: rows with at least MaxPerCategory newer ones of their category go.
Newer(t, k) == {m \in DOMAIN t : t[m].cat = t[k].cat /\ t[m].id > t[k].id}
Compacted(t) ==
    LET kept == {m \in DOMAIN t : Cardinality(Newer(t, m)) < MaxPerCategory}
        Rank(k) == Cardinality({m \in kept : t[m].id <= t[k].id})
    IN  [k \in kept |-> [t[k] EXCEPT !.id = Rank(k)]]

\* ingest_docs; ingest_if_empty does nothing when it counts any row.
IngestBegins(i, ifEmpty) ==
    /\ IngestGoes(i, "idle", "walk") /\ (ifEmpty => DOMAIN knowledge = {})
    /\ todo' = [todo EXCEPT ![i] = Docs]
    /\ alone' = [j \in Ingesters |-> j = i /\ Busy = {}]
    /\ UNCHANGED <<doc, knowledge, read, edits, filled, stirred, rerun>>

\* Documents in order; one that is empty, too large or gone is skipped.
ReadDoc(i) ==
    /\ ingestAt[i] = "walk" /\ todo[i] # {}
    /\ LET d == Min(todo[i]) IN
         /\ todo' = [todo EXCEPT ![i] = @ \ {d}]
         /\ read' = [read EXCEPT ![i] = IF doc[d].body = 0 THEN {}
              ELSE {[key |-> <<d, doc[d].heading>>, body |-> doc[d].body]}]
    /\ ingestAt' = [ingestAt EXCEPT ![i] = IF read'[i] = {} THEN "walk" ELSE "write"]
    /\ UNCHANGED <<doc, knowledge, edits, alone, filled, stirred, rerun>>

WriteRow(i) ==
    /\ IngestGoes(i, "write", "walk")
    /\ \E page \in read[i] : knowledge' = Upsert(knowledge, page, "doc")
    /\ read' = [read EXCEPT ![i] = {}]
    /\ UNCHANGED <<doc, todo, edits, alone, filled, stirred, rerun>>

\* The end of a run, compaction included.
Compact(i) ==
    /\ ingestAt[i] = "walk" /\ todo[i] = {}
    /\ ingestAt' = [ingestAt EXCEPT ![i] = "idle"]
    /\ knowledge' = Compacted(knowledge) /\ filled' = TRUE
    /\ alone' = [alone EXCEPT ![i] = FALSE]
    /\ stirred' = IF DOMAIN knowledge' # DOMAIN knowledge THEN TRUE ELSE stirred /\ ~alone[i]
    /\ rerun' = IF ~alone[i] THEN [rerun EXCEPT !.left = {}]
                ELSE [left |-> Contents(knowledge'), same |-> rerun.left \in {{}, Contents(knowledge')}]
    /\ UNCHANGED <<doc, todo, read, edits>>

\* "knowledge upsert" by hand: the category is the documents' own unless one
\* is given, and source and title may be those of a document.
UpsertNote(key, cat) ==
    /\ knowledge' = Upsert(knowledge, [key |-> key, body |-> ByHand], cat)
    /\ IF key \in Notes /\ cat = "note" THEN UNCHANGED <<edits, alone, stirred, rerun>>
       ELSE /\ edits < MaxEdits /\ edits' = edits + 1
            /\ alone' = [i \in Ingesters |-> FALSE] /\ Forgotten
            /\ stirred' = (stirred \/ key \notin Notes)
    /\ UNCHANGED <<doc, ingestAt, todo, read, filled>>

EditDoc(d) ==
    /\ edits < MaxEdits /\ edits' = edits + 1
    /\ \E h \in Headings, b \in Bodies : doc' = [doc EXCEPT ![d] = [heading |-> h, body |-> b]]
    /\ alone' = [i \in Ingesters |-> FALSE] /\ stirred' = TRUE /\ Forgotten
    /\ UNCHANGED <<knowledge, ingestAt, todo, read, filled>>

IngesterDies(i) ==
    /\ ingestAt[i] # "idle" /\ ingestAt' = [ingestAt EXCEPT ![i] = "idle"]
    /\ todo' = [todo EXCEPT ![i] = {}] /\ read' = [read EXCEPT ![i] = {}]
    /\ alone' = [alone EXCEPT ![i] = FALSE] /\ stirred' = TRUE /\ Forgotten
    /\ UNCHANGED <<doc, knowledge, edits, filled>>

KnowNext ==
    \/ \E i \in Ingesters : \/ \E ifEmpty \in BOOLEAN : IngestBegins(i, ifEmpty)
                            \/ ReadDoc(i) \/ WriteRow(i) \/ Compact(i) \/ IngesterDies(i)
    \/ \E key \in Keys, cat \in Cats : UpsertNote(key, cat)
    \/ \E d \in Docs : EditDoc(d)

KnowSpec == KnowInit /\ [][KnowNext]_knowVars

----------------------------------------------------------------------------
(* While no one ingests, every document that has a text is found under its  *)
(* heading with that text, once a run has ended and nothing that excuses it *)
(* happened since a run that was alone: an edit, a death, a row dropped by  *)
(* compaction, an upsert by hand over a document's row.  That covers two    *)
(* first runs that both saw an empty store (ingest_if_empty, ingest_docs).  *)
DocsAreFound ==
    Busy = {} /\ filled /\ ~stirred =>
        \A d \in Docs : doc[d].body # 0 =>
            /\ <<d, doc[d].heading>> \in DOMAIN knowledge
            /\ knowledge[<<d, doc[d].heading>>].body = doc[d].body

(* What ingest_docs says of itself: "Повторный прогон идемпотентен", a run   *)
(* over unchanged documents leaves the rows of the run before it.           *)
IngestIdempotent == rerun.same
=============================================================================
