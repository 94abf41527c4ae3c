----------------------------- MODULE MCStores ------------------------------
(* What several processes keep in one directory, for TLC: the question      *)
(* pool, the audit log, the memory file, the loop state, the answer cache   *)
(* of the LLM gateway, the index of the meta-optimizer, the performance     *)
(* ledger, the playbooks and the knowledge store.  "part" picks one of them *)
(* in the initial state and leaves the others alone, so that one run        *)
(* explores their sum and not their product.  Their processes are named     *)
(* alike, so that one symmetry serves them all.                             *)
EXTENDS QuestionsPool, AuditTrail, MemoryFile, LoopStateFile, ProxyGateway,
        MetaIndex, CycleLedger, Playbooks, Knowledge, TLC

VARIABLE part

vars == <<part, poolVars, auditVars, memVars, loopStateVars, gwVars,
          metaVars, ledgerVars, pbVars, knowVars>>

Init ==
    /\ part \in {"pool", "audit", "memory", "state", "gateway", "meta",
                 "ledger", "playbooks", "knowledge"}
    /\ PoolInit /\ AuditInit /\ MemInit /\ LoopStateInit /\ GatewayInit
    /\ MetaInit /\ LedgerInit /\ PbInit /\ KnowInit

\* Only the part that was picked moves.
Still ==
    /\ part' = part
    /\ part # "pool" => UNCHANGED poolVars
    /\ part # "audit" => UNCHANGED auditVars
    /\ part # "memory" => UNCHANGED memVars
    /\ part # "state" => UNCHANGED loopStateVars
    /\ part # "gateway" => UNCHANGED gwVars
    /\ part # "meta" => UNCHANGED metaVars
    /\ part # "ledger" => UNCHANGED ledgerVars
    /\ part # "playbooks" => UNCHANGED pbVars
    /\ part # "knowledge" => UNCHANGED knowVars

Pool          == part = "pool" /\ PoolNext /\ Still
Audit         == part = "audit" /\ AuditNext /\ Still
Memory        == part = "memory" /\ MemNext /\ Still
LoopState     == part = "state" /\ LoopStateNext /\ Still
Gateway       == part = "gateway" /\ GatewayNext /\ Still
Meta          == part = "meta" /\ MetaNext /\ Still
Ledger        == part = "ledger" /\ LedgerNext /\ Still
Books         == part = "playbooks" /\ PbNext /\ Still
KnowledgeBase == part = "knowledge" /\ KnowNext /\ Still

Next == Pool \/ Audit \/ Memory \/ LoopState \/ Gateway \/ Meta \/
        Ledger \/ Books \/ KnowledgeBase

Spec == Init /\ [][Next]_vars

TypeOK ==
    /\ PoolTypeOK /\ AuditTypeOK /\ MemTypeOK /\ LoopStateTypeOK
    /\ GatewayTypeOK /\ MetaTypeOK /\ LedgerTypeOK /\ PbTypeOK
    /\ KnowTypeOK

(* What is appended under a lock stays, whoever appends at the same time and *)
(* whoever dies: the entries of the audit log, the cycles of the ledger, the *)
(* lessons of the playbooks (append_entry, append_cycle,                    *)
(* curate_from_reflection).                                                 *)
RecordsKept == EntriesStay /\ LedgerIsTail /\ LessonsKept

(* The merges of the memory file are not lost, unless a process went on     *)
(* without the lock or could not read the file; nor are the updates of the  *)
(* loop state, unless a process overwrote it with one it had read before,   *)
(* or a cap left them out (update_memory, update_state, append_delta).      *)
UpdatesKept == MergesKept /\ StateKept

(* An id means one thing to all who know it: a question, the cycle a        *)
(* trajectory was harvested from, the proposal of a block in the guide; of  *)
(* the last, until an index that cannot be parsed is set aside, and but for *)
(* the block that an operation broken off leaves (append_question,          *)
(* harvest_from_handoff, apply_safe_proposals).                             *)
IdsMeanOneThing == IdsKeepTheirQuestion /\ HarvestedOnce /\ AppliedIsInGuide

(* What is looked up is right: a cache hit was an answer to what is asked,  *)
(* though maybe a part of one; a document is found with the text it has,    *)
(* once a run that was left alone dropped nothing (lookup, ingest_docs).    *)
LookUpsAreRight == HitsAreAnswers /\ DocsAreFound

Symmetry ==
    Permutations(Clerks) \cup Permutations(Texts) \cup Permutations(Endpoints)
=============================================================================
