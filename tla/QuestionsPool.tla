--------------------------- MODULE QuestionsPool ---------------------------
(***************************************************************************)
(* The pool of clarification questions (memory/questions_collector.py).    *)
(* Several processes append to it, resolve from it and list it: the loop,  *)
(* the dashboard, a person at the command line.  A change is one           *)
(* read-modify-write under the questions lock and one rename; a listing    *)
(* takes no lock.  The file is also edited by hand, in place, so a reader  *)
(* may find it torn; it looks again for 60 ms and then takes the pool for  *)
(* empty.  The lock is taken to exclude (AgentLock says when it does).     *)
(***************************************************************************)
EXTENDS Naturals, FiniteSets, FiniteSetsExt

CONSTANTS
    Clerks,     \* the processes that use the pool
    NoClerk,    \* "the questions lock is free", not a process
    Texts,      \* the questions that are asked
    MaxQuestions \* bound: how many ids are given out

ASSUME QuestionsAssumption ==
    NoClerk \notin Clerks /\ MaxQuestions \in Nat

VARIABLES
    pool,       \* QUESTIONS_POOL.json: a set of questions
    poolTorn,   \* an edit in place is under way, or was left unfinished
    poolLock,   \* who holds .agent/questions.lock
    copy,       \* the pool each process has loaded, while it needs it
    toAsk,      \* the texts each process still has to append
    listed,     \* what a listing showed to each process, at most one question
    job,        \* what each process does
    given,      \* history: the ids given out, with their text
    emptied     \* history: an append took a torn pool for an empty one

poolVars == <<pool, poolTorn, poolLock, copy, toAsk, listed, job, given,
              emptied>>

QuestionIds == 1 .. MaxQuestions
Questions   == [id : QuestionIds, text : Texts, open : BOOLEAN]
Listing     == {q \in pool : q.open}

PoolTypeOK ==
    /\ pool \subseteq Questions /\ poolTorn \in BOOLEAN
    /\ poolLock \in Clerks \cup {NoClerk}
    /\ copy \in [Clerks -> SUBSET Questions]
    /\ toAsk \in [Clerks -> SUBSET Texts]
    /\ listed \in [Clerks -> SUBSET (QuestionIds \X Texts)]
    /\ job \in [Clerks -> {"idle", "append", "appending", "resolving"}]
    /\ given \subseteq QuestionIds \X Texts /\ emptied \in BOOLEAN

PoolInit ==
    /\ pool = {} /\ poolTorn = FALSE /\ poolLock = NoClerk
    /\ copy = [c \in Clerks |-> {}] /\ toAsk = [c \in Clerks |-> {}]
    /\ listed = [c \in Clerks |-> {}] /\ job = [c \in Clerks |-> "idle"]
    /\ given = {} /\ emptied = FALSE

\* _load_pool_raw: a file that stays torn reads as an empty pool.
Loaded == IF poolTorn THEN {} ELSE pool

JobGoes(c, from, to) == job[c] = from /\ job' = [job EXCEPT ![c] = to]

\* sync_from_handoff asks several, append_question one.
AskAll(c, S) ==
    /\ JobGoes(c, "idle", "append") /\ toAsk' = [toAsk EXCEPT ![c] = S]
    /\ UNCHANGED <<pool, poolTorn, poolLock, copy, listed, given, emptied>>

\* The pool is loaded before the lock is waited for.
AppendBeginsBroken(c) ==
    /\ JobGoes(c, "append", "appending") /\ toAsk[c] # {}
    /\ copy' = [copy EXCEPT ![c] = Loaded]
    /\ UNCHANGED <<pool, poolTorn, poolLock, toAsk, listed, given, emptied>>

\* The lock, and the pool as it is under the lock.
AppendBegins(c) ==
    /\ JobGoes(c, "append", "appending") /\ toAsk[c] # {}
    /\ poolLock = NoClerk /\ poolLock' = c
    /\ copy' = [copy EXCEPT ![c] = Loaded]
    /\ UNCHANGED <<pool, poolTorn, toAsk, listed, given, emptied>>

NextQuestionId(qs) == IF qs = {} THEN 1 ELSE Max({q.id : q \in qs}) + 1

\* An open question of the same text is not asked twice.
AppendEnds(c) ==
    \E t \in toAsk[c] :
       LET qid   == NextQuestionId(copy[c])
           known == \E q \in copy[c] : q.open /\ q.text = t
       IN  /\ JobGoes(c, "appending", "append")
           /\ poolLock' = NoClerk
           /\ toAsk' = [toAsk EXCEPT ![c] = @ \ {t}]
           /\ \/ known /\ UNCHANGED <<pool, poolTorn, given, emptied>>
              \/ /\ ~known /\ qid \in QuestionIds
                 /\ pool' = copy[c] \cup {[id |-> qid, text |-> t, open |-> TRUE]}
                 /\ given' = given \cup {<<qid, t>>}
                 /\ emptied' = (emptied \/ (copy[c] = {} /\ pool # {}))
                 /\ poolTorn' = FALSE
           /\ copy' = [copy EXCEPT ![c] = {}]
           /\ UNCHANGED listed

AllAsked(c) ==
    /\ JobGoes(c, "append", "idle") /\ toAsk[c] = {}
    /\ UNCHANGED <<pool, poolTorn, poolLock, copy, toAsk, listed, given, emptied>>

\* get_open_questions, or the page that shows it: no lock.
ListOpen(c) ==
    /\ job[c] = "idle" /\ ~poolTorn
    /\ \E q \in Listing : listed' = [listed EXCEPT ![c] = {<<q.id, q.text>>}]
    /\ UNCHANGED <<pool, poolTorn, poolLock, copy, toAsk, job, given, emptied>>

\* mark_reviewed, with the id of the question that was listed.
ResolveBegins(c) ==
    /\ JobGoes(c, "idle", "resolving") /\ listed[c] # {}
    /\ poolLock = NoClerk /\ poolLock' = c
    /\ copy' = [copy EXCEPT ![c] = Loaded]
    /\ UNCHANGED <<pool, poolTorn, toAsk, listed, given, emptied>>

Resolved(c) == {q \in copy[c] : q.open /\ \E l \in listed[c] : l[1] = q.id}

\* Nothing is written when nothing was resolved.
ResolveEnds(c) ==
    /\ JobGoes(c, "resolving", "idle") /\ poolLock' = NoClerk
    /\ \/ Resolved(c) = {} /\ UNCHANGED <<pool, poolTorn>>
       \/ /\ Resolved(c) # {} /\ poolTorn' = FALSE
          /\ pool' = (copy[c] \ Resolved(c))
                       \cup {[q EXCEPT !.open = FALSE] : q \in Resolved(c)}
    /\ listed' = [listed EXCEPT ![c] = {}] /\ copy' = [copy EXCEPT ![c] = {}]
    /\ UNCHANGED <<toAsk, given, emptied>>

\* A process dies; its lock is reclaimed by the next one.
ClerkDies(c) ==
    /\ job[c] # "idle" /\ job' = [job EXCEPT ![c] = "idle"]
    /\ poolLock' = IF poolLock = c THEN NoClerk ELSE poolLock
    /\ toAsk' = [toAsk EXCEPT ![c] = {}] /\ copy' = [copy EXCEPT ![c] = {}]
    /\ UNCHANGED <<pool, poolTorn, listed, given, emptied>>

\* A person edits the file in place, while nobody holds the lock, and changes
\* nothing the model tells apart.
EditTears ==
    /\ ~poolTorn /\ pool # {} /\ poolLock = NoClerk /\ poolTorn' = TRUE
    /\ UNCHANGED <<pool, poolLock, copy, toAsk, listed, job, given, emptied>>

EditEnds ==
    /\ poolTorn /\ poolLock = NoClerk /\ poolTorn' = FALSE
    /\ UNCHANGED <<pool, poolLock, copy, toAsk, listed, job, given, emptied>>

PoolNext ==
    \/ \E c \in Clerks :
         \/ \E S \in SUBSET Texts \ {{}} : AskAll(c, S)
         \/ AppendBegins(c) \/ AppendEnds(c) \/ AllAsked(c) \/ ListOpen(c)
         \/ ResolveBegins(c) \/ ResolveEnds(c) \/ ClerkDies(c)
    \/ EditTears \/ EditEnds

PoolSpec == PoolInit /\ [][PoolNext]_poolVars

----------------------------------------------------------------------------
(* An id stays with its question: what a person resolves by the id a page   *)
(* showed is the question the page showed, whatever others append, resolve  *)
(* or leave half done in between.  Only an append that met a torn file      *)
(* begins the numbering again (_next_id, append_question, mark_reviewed).   *)
IdsKeepTheirQuestion ==
    ~emptied =>
        /\ \A g, h \in given : g[1] = h[1] => g = h
        /\ \A c \in Clerks : \A l \in listed[c], q \in pool :
             q.id = l[1] => q.text = l[2]

(* What _load_pool_raw says of a torn pool: it is not overwritten.  Fails   *)
(* for append_question, which saves the new question as the whole pool.     *)
PoolIsKept == \A g \in given : \E q \in pool : <<q.id, q.text>> = g
=============================================================================
