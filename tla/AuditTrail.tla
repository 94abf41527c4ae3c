----------------------------- MODULE AuditTrail -----------------------------
(***************************************************************************)
(* The audit log of a project (memory/audit_log.py) as the dashboard, the  *)
(* local pipeline and the relay write it: read the journal under the audit *)
(* lock, append one entry, rename the new journal into place, rewrite the  *)
(* markdown of its last entries.  A journal that cannot be parsed is left  *)
(* alone, and the caller is given an entry with a null id.                 *)
(***************************************************************************)
EXTENDS Naturals, Sequences, SequencesExt

CONSTANTS
    Auditors,    \* the processes that append
    NoAuditor,   \* "the audit lock is free"
    MaxEntries,  \* bound: the entries of the journal
    MdTail       \* 20, the entries the markdown shows

ASSUME AuditAssumption ==
    /\ NoAuditor \notin Auditors /\ MaxEntries \in Nat /\ MdTail \in Nat \ {0}

VARIABLES
    journal,      \* AUDIT_LOG.json: who wrote each entry
    journalTorn,  \* it cannot be parsed
    markdown,     \* AUDIT_LOG.md: the entries it shows
    auditLock,    \* who holds .agent/audit.lock
    auditAt,      \* where each process is
    seenJournal,  \* the journal each process has loaded
    entryId       \* the id append_entry gave each process, 0 for A-0000

auditVars == <<journal, journalTorn, markdown, auditLock, auditAt,
               seenJournal, entryId>>

Journals == BoundedSeq(Auditors, MaxEntries)

AuditTypeOK ==
    /\ journal \in Journals /\ markdown \in Journals
    /\ journalTorn \in BOOLEAN
    /\ auditLock \in Auditors \cup {NoAuditor}
    /\ auditAt \in [Auditors -> {"idle", "save", "md", "returned"}]
    /\ seenJournal \in [Auditors -> Journals]
    /\ entryId \in [Auditors -> 0 .. MaxEntries]

AuditInit ==
    /\ journal = <<>> /\ journalTorn = FALSE /\ markdown = <<>>
    /\ auditLock = NoAuditor /\ auditAt = [a \in Auditors |-> "idle"]
    /\ seenJournal = [a \in Auditors |-> <<>>]
    /\ entryId = [a \in Auditors |-> 0]

AuditGoes(a, from, to) ==
    auditAt[a] = from /\ auditAt' = [auditAt EXCEPT ![a] = to]

\* The journal is loaded before the lock is held.
LoadJournalBroken(a) ==
    /\ AuditGoes(a, "idle", "save") /\ ~journalTorn
    /\ seenJournal' = [seenJournal EXCEPT ![a] = journal]
    /\ UNCHANGED <<journal, journalTorn, markdown, auditLock, entryId>>

LoadJournal(a) ==
    /\ AuditGoes(a, "idle", "save") /\ ~journalTorn
    /\ auditLock = NoAuditor /\ auditLock' = a
    /\ seenJournal' = [seenJournal EXCEPT ![a] = journal]
    /\ UNCHANGED <<journal, journalTorn, markdown, entryId>>

\* Torn for the whole retry: nothing is written, and the caller is not told.
LoadTorn(a) ==
    /\ AuditGoes(a, "idle", "returned") /\ journalTorn
    /\ auditLock = NoAuditor
    /\ entryId' = [entryId EXCEPT ![a] = 0]
    /\ UNCHANGED <<journal, journalTorn, markdown, auditLock, seenJournal>>

ReplaceJournal(a) ==
    LET grown == Append(seenJournal[a], a)
    IN  /\ AuditGoes(a, "save", "md") /\ Len(grown) <= MaxEntries
        /\ journal' = grown /\ journalTorn' = FALSE
        /\ entryId' = [entryId EXCEPT ![a] = Len(grown)]
        /\ UNCHANGED <<markdown, auditLock, seenJournal>>

WriteMarkdown(a) ==
    LET n == Len(journal)
    IN  /\ AuditGoes(a, "md", "returned")
        /\ markdown' = SubSeq(journal, IF n > MdTail THEN n - MdTail + 1 ELSE 1, n)
        /\ auditLock' = NoAuditor
        /\ UNCHANGED <<journal, journalTorn, seenJournal, entryId>>

\* The caller goes on with its entry.
AuditAgain(a) ==
    /\ AuditGoes(a, "returned", "idle")
    /\ entryId' = [entryId EXCEPT ![a] = 0]
    /\ UNCHANGED <<journal, journalTorn, markdown, auditLock, seenJournal>>

\* A process dies between two writes; its lock is reclaimed.
AuditorDies(a) ==
    /\ auditAt[a] \in {"save", "md"}
    /\ auditAt' = [auditAt EXCEPT ![a] = "idle"]
    /\ auditLock' = IF auditLock = a THEN NoAuditor ELSE auditLock
    /\ entryId' = [entryId EXCEPT ![a] = 0]
    /\ UNCHANGED <<journal, journalTorn, markdown, seenJournal>>

\* Somebody else's write in place.
JournalTears ==
    /\ auditLock = NoAuditor /\ journalTorn' = ~journalTorn
    /\ UNCHANGED <<journal, markdown, auditLock, auditAt, seenJournal, entryId>>

AuditNext ==
    \/ \E a \in Auditors :
         \/ LoadJournal(a) \/ LoadTorn(a) \/ ReplaceJournal(a)
         \/ WriteMarkdown(a) \/ AuditAgain(a) \/ AuditorDies(a)
    \/ JournalTears

----------------------------------------------------------------------------
(* An entry whose id was given to a caller is in the journal under that id, *)
(* whoever wrote, died or found the journal torn since; a null id is the    *)
(* only sign of an entry that was not saved (append_entry).                 *)
EntriesStay ==
    \A a \in Auditors : entryId[a] # 0 =>
        entryId[a] <= Len(journal) /\ journal[entryId[a]] = a
=============================================================================
