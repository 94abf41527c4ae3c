------------------------------ MODULE Playbooks ------------------------------
(***************************************************************************)
(* memory/playbooks.py: lessons ("bullets") grouped in playbooks, kept in  *)
(* .agent/PLAYBOOKS.json.  Curation after a cycle and the initial seeding  *)
(* read, change and rewrite the index inside the "playbooks" lock, then    *)
(* render the Markdown views; a reader takes the lock to load the index,   *)
(* because an index that does not parse is renamed to .bak by whoever      *)
(* loads it first.  A bullet is its lesson and its effectiveness, in       *)
(* twentieths; what of a lesson makes two of them similar is left out.     *)
(***************************************************************************)
EXTENDS Naturals, SequencesExt

CONSTANTS
    Curators,    \* the sessions that curate, seed, select and export
    NoCurator,   \* "no one holds the lock", not a curator
    Lessons,     \* the lessons of the reflections
    SeedLesson,  \* what the seeded playbook teaches, in no reflection
    MaxBullets,  \* max_bullets_per_playbook of project_config.json
    KeptBullets, \* the 50 that a playbook over it is cut to
    MaxCurations \* bound: how often the index is curated

ASSUME PlaybooksAssumption ==
    /\ NoCurator \notin Curators /\ SeedLesson \notin Lessons
    /\ {MaxBullets, KeptBullets, MaxCurations} \subseteq Nat

VARIABLES
    pbLock,    \* who holds the lock
    curatorAt, \* where each curator is
    draft,     \* the index each has loaded
    books,     \* PLAYBOOKS.json: the bullets of each playbook it has
    tornBooks, \* it does not parse
    views,     \* the index that PLAYBOOKS/*.md were rendered from
    hubWhole,  \* HUB_INDEX.json: its list and its bodies are of one index
    curations, \* bound
    taught,    \* history: <<playbook, lesson>> added and not dropped since
    staleViews      \* history: the views missed a save, or the index tore

pbVars == <<pbLock, curatorAt, draft, books, tornBooks, views, hubWhole,
            curations, taught, staleViews>>

Names   == {"auto", "seeded"}
Bullet  == [lesson : Lessons \cup {SeedLesson}, effect : 2 .. 20]
IsIndex(b) == DOMAIN b \subseteq Names /\ \A n \in DOMAIN b : b[n] \in Seq(Bullet)
Empty   == [n \in {} |-> <<>>]
Held(b) == UNION {{<<n, b[n][i].lesson>> : i \in DOMAIN b[n]} : n \in DOMAIN b}
Book(b, n) == IF n \in DOMAIN b THEN b[n] ELSE <<>>
Shelve(b, n, bullets) ==
    [m \in DOMAIN b \cup {n} |-> IF m = n THEN bullets ELSE b[m]]

PbTypeOK ==
    /\ pbLock \in Curators \cup {NoCurator}
    /\ curatorAt \in [Curators -> {"idle", "curate", "views", "items", "hub",
                                   "mixed hub"}]
    /\ IsIndex(books) /\ IsIndex(views) /\ \A c \in Curators : IsIndex(draft[c])
    /\ {tornBooks, hubWhole, staleViews} \subseteq BOOLEAN
    /\ curations \in 0 .. MaxCurations
    /\ taught \subseteq Names \X (Lessons \cup {SeedLesson})

PbInit ==
    /\ pbLock = NoCurator /\ curatorAt = [c \in Curators |-> "idle"]
    /\ draft = [c \in Curators |-> Empty]
    /\ books = Empty /\ tornBooks = FALSE /\ views = Empty /\ hubWhole = TRUE
    /\ curations = 0 /\ taught = {} /\ staleViews = FALSE

CuratorGoes(c, from, to) ==
    curatorAt[c] = from /\ curatorAt' = [curatorAt EXCEPT ![c] = to]
Unlock(c) == pbLock' = IF pbLock = c THEN NoCurator ELSE pbLock

DropDraft(c) == draft' = [draft EXCEPT ![c] = Empty]

\* A torn index is set aside, and counts as an empty one.
SetAside ==
    /\ books' = (IF tornBooks THEN Empty ELSE books) /\ tornBooks' = FALSE
    /\ taught' = IF tornBooks THEN {} ELSE taught
LoadIndex(c) == SetAside /\ draft' = [draft EXCEPT ![c] = books']

\* The index is loaded before the lock is had.
ChangeBeginsBroken(c) ==
    /\ CuratorGoes(c, "idle", "curate") /\ LoadIndex(c)
    /\ UNCHANGED <<pbLock, views, hubWhole, curations, staleViews>>

ChangeBegins(c) ==
    /\ CuratorGoes(c, "idle", "curate") /\ pbLock = NoCurator /\ pbLock' = c
    /\ LoadIndex(c)
    /\ UNCHANGED <<views, hubWhole, curations, staleViews>>

\* _write_index_unlocked: an index that says the same is not written, and its
\* views only if there are none.
WriteBooks(c, index) ==
    /\ books' = index /\ tornBooks' = FALSE
    /\ IF books = index /\ views # Empty
       THEN CuratorGoes(c, "curate", "idle") /\ Unlock(c) /\ DropDraft(c)
       ELSE /\ CuratorGoes(c, "curate", "views") /\ UNCHANGED pbLock
            /\ draft' = [draft EXCEPT ![c] = index]

RenderViews(c) ==
    /\ CuratorGoes(c, "views", "idle") /\ Unlock(c)
    /\ views' = draft[c] /\ staleViews' = FALSE /\ DropDraft(c)
    /\ UNCHANGED <<books, tornBooks, hubWhole, curations, taught>>

\* A lesson that is known is worth more, a new one is added at 0.65.
Learn(bullets, lesson) ==
    IF \E b \in ToSet(bullets) : b.lesson = lesson
    THEN [i \in DOMAIN bullets |-> IF bullets[i].lesson = lesson
            THEN [bullets[i] EXCEPT !.effect = IF @ >= 18 THEN 20 ELSE @ + 2]
            ELSE bullets[i]]
    ELSE Append(bullets, [lesson |-> lesson, effect |-> 13])
Demote(bullets, bad) ==
    [i \in DOMAIN bullets |-> IF bullets[i].lesson \in bad
       THEN [bullets[i] EXCEPT !.effect = IF @ <= 5 THEN 2 ELSE @ - 3]
       ELSE bullets[i]]

\* More than the limit: the best are kept, the older first among equals.
Better(bullets, i, j) ==
    \/ bullets[i].effect > bullets[j].effect
    \/ bullets[i].effect = bullets[j].effect /\ i < j
Ranked(bullets) ==
    LET At(i) == CHOOSE j \in DOMAIN bullets :
                     Cardinality({k \in DOMAIN bullets : Better(bullets, k, j)}) = i - 1
    IN  [i \in DOMAIN bullets |-> bullets[At(i)]]
Limit(bullets) ==
    IF Len(bullets) <= MaxBullets THEN bullets
    ELSE SubSeq(Ranked(bullets), 1, IF Len(bullets) < KeptBullets THEN Len(bullets)
                                    ELSE KeptBullets)

\* curate_from_reflection: one lesson (or none that is long enough) and the
\* issues that speak against bullets.  The time of curation is part of the
\* index, which is never what it was.
Curate(c, n, learnt, bad) ==
    /\ curatorAt[c] = "curate" /\ curations < MaxCurations
    /\ LET grown == IF learnt = {} THEN Book(draft[c], n)
                    ELSE Learn(Book(draft[c], n), CHOOSE l \in learnt : TRUE)
           after == Limit(Demote(grown, bad))
           index == Shelve(draft[c], n, after) IN
         /\ books' = index /\ draft' = [draft EXCEPT ![c] = index]
         /\ taught' = (taught \cup ({n} \X learnt))
                      \ (Held(Shelve(Empty, n, grown)) \ Held(Shelve(Empty, n, after)))
    /\ tornBooks' = FALSE /\ CuratorGoes(c, "curate", "views")
    /\ curations' = curations + 1
    /\ UNCHANGED <<pbLock, views, hubWhole, staleViews>>

\* seed_initial_playbooks adds the playbooks that are not there.
Seed(c) ==
    /\ curatorAt[c] = "curate"
    /\ WriteBooks(c, IF "seeded" \in DOMAIN draft[c] THEN draft[c]
         ELSE Shelve(draft[c], "seeded", <<[lesson |-> SeedLesson, effect |-> 18]>>))
    /\ taught' = IF "seeded" \in DOMAIN draft[c] THEN taught
                 ELSE taught \cup {<<"seeded", SeedLesson>>}
    /\ UNCHANGED <<views, hubWhole, curations, staleViews>>

\* _load_index: under the lock, for select_bullets, discover_items, a list.
\* The rest of them reads the copy and changes nothing.
Select(c) ==
    /\ curatorAt[c] = "idle" /\ pbLock = NoCurator /\ SetAside
    /\ UNCHANGED <<pbLock, curatorAt, draft, views, hubWhole, curations, staleViews>>

\* export_hub_index locks three times: for the bodies, for the list of items,
\* and to write the two.
ExportBodies(c) ==
    /\ CuratorGoes(c, "idle", "items") /\ pbLock = NoCurator /\ LoadIndex(c)
    /\ UNCHANGED <<pbLock, views, hubWhole, curations, staleViews>>
ExportItems(c) ==
    /\ pbLock = NoCurator /\ SetAside /\ DropDraft(c)
    /\ CuratorGoes(c, "items", IF books' = draft[c] THEN "hub" ELSE "mixed hub")
    /\ UNCHANGED <<pbLock, views, hubWhole, curations, staleViews>>
ExportHub(c) ==
    /\ pbLock = NoCurator /\ hubWhole' = (curatorAt[c] = "hub")
    /\ CuratorGoes(c, IF hubWhole' THEN "hub" ELSE "mixed hub", "idle")
    /\ DropDraft(c)
    /\ UNCHANGED <<pbLock, books, tornBooks, views, curations, taught, staleViews>>

CuratorDies(c) ==
    /\ curatorAt[c] # "idle" /\ curatorAt' = [curatorAt EXCEPT ![c] = "idle"]
    /\ Unlock(c) /\ DropDraft(c) /\ staleViews' = (staleViews \/ curatorAt[c] = "views")
    /\ UNCHANGED <<books, tornBooks, views, hubWhole, curations, taught>>

\* A merge, an editor: the index does not parse.
BooksTorn ==
    /\ pbLock = NoCurator /\ books # Empty /\ ~tornBooks /\ tornBooks' = TRUE
    /\ staleViews' = TRUE
    /\ UNCHANGED <<pbLock, curatorAt, draft, books, views, hubWhole, curations, taught>>

PbNext == BooksTorn \/ \E c \in Curators :
    \/ ChangeBegins(c) \/ RenderViews(c) \/ Seed(c) \/ Select(c)
    \/ \E n \in Names, learnt \in {{}} \cup {{l} : l \in Lessons}, bad \in SUBSET Lessons :
         Curate(c, n, learnt, bad)
    \/ ExportBodies(c) \/ ExportItems(c) \/ ExportHub(c) \/ CuratorDies(c)

----------------------------------------------------------------------------
(* However many sessions curate at once, no lesson gets lost but by the     *)
(* limit or with a torn index, and the views show the index whenever no one *)
(* writes, but after a death between the two, until the index changes       *)
(* (curate_from_reflection, _write_index_unlocked).                         *)
LessonsKept ==
    /\ Held(books) = taught
    /\ pbLock = NoCurator /\ ~staleViews => views = books
=============================================================================
