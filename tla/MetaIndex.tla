----------------------------- MODULE MetaIndex -----------------------------
(***************************************************************************)
(* The meta-optimizer (memory/meta): trajectories harvested from handoffs, *)
(* proposals derived from them, and the safe ones applied to               *)
(* PROMPT_COMPRESSION_GUIDE.md.  Sessions share .agent/TRAJECTORIES.json;  *)
(* each operation reads and rewrites it inside the "trajectories" lock.    *)
(* The guide is no part of that file: its blocks are inserted one by one,  *)
(* and the index that calls them applied is written after the last.        *)
(*                                                                         *)
(* An operation may be broken off at any step, and agent_lock gives its    *)
(* lock to the next.  An index that cannot be parsed is set aside, and a   *)
(* new one begins with no entry and the first ids: what the guide and the  *)
(* performance ledger say of P-001 is then about another proposal.  The    *)
(* readers (export_sft, get_recent_trajectories) change nothing else.      *)
(***************************************************************************)
EXTENDS Naturals, FiniteSets

CONSTANTS
    Sessions,      \* those that harvest, analyse and apply
    NoSession,     \* "no one is in the section", not a session
    Cycles,        \* the cycles whose handoffs are harvested
    MaxProposals,  \* bound: the proposals of an index
    MaxLosses      \* bound: how often an operation is broken off

ASSUME MetaAssumption ==
    NoSession \notin Sessions /\ {MaxProposals, MaxLosses} \subseteq Nat

VARIABLES
    section,   \* who holds the trajectories lock
    metaAt,    \* where each session is
    metaIndex, \* the index: its entries (see Index)
    indexIs,   \* whole, or torn: edited into what cannot be parsed
    ownIndex,  \* what a session loaded, with its changes
    untold,    \* the proposals it applied and has not told the ledger of
    guide,     \* how often the block of each proposal is in the guide
    marker,    \* the guide is there and has its marker
    guideCut,  \* history: a write of the guide was cut short
    ledgered,  \* the proposals with a line in LOOP_PERFORMANCE.md
    restarted, \* history: a torn index was set aside
    lossesMeta \* how often an operation was broken off

metaVars == <<section, metaAt, metaIndex, indexIs, ownIndex, untold, guide,
              marker, guideCut, ledgered, restarted, lossesMeta>>
indexVars == <<metaIndex, indexIs, restarted>>
guideVars == <<guide, marker, guideCut>>

ProposalIds == 1 .. MaxProposals
Statuses    == {"none", "pending", "applied", "failed"}
\* harvested, examples: how many entries of each cycle, and T-EXAMPLE.
Index       == [harvested : [Cycles -> 0 .. 2], examples : 0 .. 2,
                props : [ProposalIds -> Statuses]]
InSection   == {"loaded", "applying"}

MetaTypeOK ==
    /\ section \in Sessions \cup {NoSession}
    /\ metaAt \in [Sessions -> InSection \cup {"idle", "ledger"}]
    /\ metaIndex \in Index /\ indexIs \in {"whole", "torn"}
    /\ ownIndex \in [Sessions -> Index]
    /\ untold \in [Sessions -> SUBSET ProposalIds]
    /\ guide \in [ProposalIds -> Nat]
    /\ marker \in BOOLEAN /\ guideCut \in BOOLEAN /\ restarted \in BOOLEAN
    /\ ledgered \subseteq ProposalIds
    /\ lossesMeta \in 0 .. MaxLosses

Blank   == [harvested |-> [c \in Cycles |-> 0], examples |-> 0,
            props |-> [p \in ProposalIds |-> "none"]]
NoBlock == [p \in ProposalIds |-> 0]

MetaInit ==
    /\ section = NoSession /\ metaAt = [s \in Sessions |-> "idle"]
    /\ metaIndex = Blank /\ indexIs = "whole"
    /\ ownIndex = [s \in Sessions |-> Blank] /\ untold = [s \in Sessions |-> {}]
    /\ guide = NoBlock /\ marker \in BOOLEAN /\ guideCut = FALSE
    /\ ledgered = {} /\ restarted = FALSE /\ lossesMeta = 0

MetaGoes(s, to) == metaAt' = [metaAt EXCEPT ![s] = to]
Forget(s) == /\ ownIndex' = [ownIndex EXCEPT ![s] = Blank]
             /\ untold' = [untold EXCEPT ![s] = {}]

\* _load_index_unlocked: an index that cannot be parsed is renamed.  A block
\* of it in the guide is then the block of no proposal.
ReadIndex(s) ==
    \/ /\ indexIs = "whole" /\ ownIndex' = [ownIndex EXCEPT ![s] = metaIndex]
       /\ UNCHANGED <<indexVars, guide>>
    \/ /\ indexIs = "torn" /\ ownIndex' = [ownIndex EXCEPT ![s] = Blank]
       /\ metaIndex' = Blank /\ indexIs' = "whole" /\ restarted' = TRUE
       /\ guide' = NoBlock

\* The index is loaded before the section is entered.
EnterBroken(s) ==
    /\ metaAt[s] = "idle" /\ MetaGoes(s, "loaded") /\ UNCHANGED section
    /\ ReadIndex(s)
    /\ UNCHANGED <<untold, marker, guideCut, ledgered, lossesMeta>>

\* Each operation begins so: the lock, and the index as it is then.
Enter(s) ==
    /\ metaAt[s] = "idle" /\ section = NoSession
    /\ section' = s /\ MetaGoes(s, "loaded") /\ ReadIndex(s)
    /\ UNCHANGED <<untold, marker, guideCut, ledgered, lossesMeta>>

Leave(s, to) ==
    /\ section' = (IF section = s THEN NoSession ELSE section) /\ MetaGoes(s, to)

\* _write_index_unlocked: the index is replaced as a whole.
WriteIndex(new) == metaIndex' = new /\ indexIs' = "whole" /\ UNCHANGED restarted

\* harvest_from_handoff: a handoff below the thresholds does not come here.
\* A cycle with a trajectory that is done gets no second one; the example is
\* one of cycle 1.
ExampleCycle == 1
Harvested(own, c) == own.harvested[c] > 0 \/ (c = ExampleCycle /\ own.examples > 0)
Harvest(s, c) ==
    /\ metaAt[s] = "loaded" /\ Leave(s, "idle") /\ Forget(s)
    /\ IF Harvested(ownIndex[s], c) THEN UNCHANGED indexVars
       ELSE WriteIndex([ownIndex[s] EXCEPT !.harvested[c] = @ + 1])
    /\ UNCHANGED <<guideVars, ledgered, lossesMeta>>

\* seed_example_trajectory looks for the example only.
SeedExample(s) ==
    /\ metaAt[s] = "loaded" /\ Leave(s, "idle") /\ Forget(s)
    /\ IF ownIndex[s].examples > 0 THEN UNCHANGED indexVars
       ELSE WriteIndex([ownIndex[s] EXCEPT !.examples = @ + 1])
    /\ UNCHANGED <<guideVars, ledgered, lossesMeta>>

\* analyze_for_proposals: nothing to go by, or new pending proposals, as many
\* as heuristics fire; it does not look whether there are some like them.
Unanalyzed(own) == own.examples = 0 /\ \A c \in Cycles : own.harvested[c] = 0
Analyze(s) ==
    /\ metaAt[s] = "loaded" /\ Leave(s, "idle") /\ Forget(s)
    /\ \/ UNCHANGED indexVars    \* no trajectory, or none that is sure enough
       \/ /\ ~Unanalyzed(ownIndex[s])
          /\ \E last \in 0 .. MaxProposals :
               WriteIndex([ownIndex[s] EXCEPT !.props =
                 [p \in ProposalIds |-> IF @[p] = "none" /\ p <= last
                                        THEN "pending" ELSE @[p]]])
    /\ UNCHANGED <<guideVars, ledgered, lossesMeta>>

\* apply_safe_proposals.  The guide is rewritten in place, and what is left of
\* a write that is cut short has some of its blocks, and maybe the marker.
CutGuide(p) ==
    /\ marker /\ guideCut' = TRUE /\ marker' \in BOOLEAN
    /\ \E left \in SUBSET ProposalIds :
         guide' = [q \in ProposalIds |-> IF q \notin left THEN 0
                     ELSE IF q = p THEN guide[q] + 1 ELSE guide[q]]

\* A block is inserted; or there is no guide, no marker, or reading or writing
\* it fails, and the proposal has failed.
Pending(s) == {p \in ProposalIds : ownIndex[s].props[p] = "pending"}
ApplyOne(s, p) ==
    /\ metaAt[s] \in InSection /\ p \in Pending(s)
    /\ MetaGoes(s, "applying")
    /\ \/ /\ marker /\ guide' = [guide EXCEPT ![p] = @ + 1]
          /\ ownIndex' = [ownIndex EXCEPT ![s].props[p] = "applied"]
          /\ untold' = [untold EXCEPT ![s] = @ \cup {p}]
          /\ UNCHANGED <<marker, guideCut>>
       \/ /\ ownIndex' = [ownIndex EXCEPT ![s].props[p] = "failed"]
          /\ CutGuide(p) \/ UNCHANGED guideVars
          /\ UNCHANGED untold
    /\ UNCHANGED <<section, indexVars, ledgered, lossesMeta>>

\* The safe ones, or those that were asked for, are done.  The index is written
\* only if one was touched; then META_PROPOSALS.md.
SaveApplied(s) ==
    /\ \/ /\ metaAt[s] = "loaded" /\ Leave(s, "idle") /\ Forget(s)
          /\ UNCHANGED indexVars
       \/ /\ metaAt[s] = "applying" /\ Leave(s, "ledger")
          /\ WriteIndex(ownIndex[s]) /\ UNCHANGED <<ownIndex, untold>>
    /\ UNCHANGED <<guideVars, ledgered, lossesMeta>>

\* update_performance_ledger for each of them, outside the section; that it
\* fails is not fatal.
TellLedger(s) ==
    /\ metaAt[s] = "ledger" /\ MetaGoes(s, "idle") /\ Forget(s)
    /\ \E told \in SUBSET untold[s] : ledgered' = ledgered \cup told
    /\ UNCHANGED <<section, indexVars, guideVars, lossesMeta>>

\* A session dies, also in a write of the guide, or a write of the index or of
\* META_PROPOSALS.md raises.
BreaksOff(s) ==
    /\ metaAt[s] # "idle" /\ lossesMeta < MaxLosses /\ lossesMeta' = lossesMeta + 1
    /\ Leave(s, "idle") /\ Forget(s)
    /\ \/ UNCHANGED guideVars
       \/ metaAt[s] \in InSection /\ \E p \in Pending(s) : CutGuide(p)
    /\ UNCHANGED <<indexVars, ledgered>>

\* By hand, or by a merge that left its marks in it (bound: until one has been
\* set aside).
IndexEdited ==
    /\ indexIs = "whole" /\ ~restarted /\ indexIs' = "torn"
    /\ UNCHANGED <<section, metaAt, metaIndex, ownIndex, untold, guideVars,
                   ledgered, restarted, lossesMeta>>

MetaNext ==
    \/ \E s \in Sessions :
         \/ Enter(s) \/ \E c \in Cycles : Harvest(s, c)
         \/ SeedExample(s) \/ Analyze(s) \/ SaveApplied(s) \/ TellLedger(s)
         \/ BreaksOff(s)
         \/ \E p \in ProposalIds : ApplyOne(s, p)
    \/ IndexEdited

----------------------------------------------------------------------------
(* However many sessions see the same handoff, an index has at most one     *)
(* trajectory that was harvested of a cycle, and one example                *)
(* (harvest_from_handoff, seed_example_trajectory).                         *)
HarvestedOnce ==
    metaIndex.examples <= 1 /\ \A c \in Cycles : metaIndex.harvested[c] <= 1

(* A proposal that the index calls applied is in the guide, until a write   *)
(* of the guide is cut short; its block is there twice only if an operation *)
(* was broken off between the guide and the index; and what a line of the   *)
(* ledger is about, the index calls applied, until an index is set aside    *)
(* (apply_safe_proposals).                                                  *)
AppliedIsInGuide ==
    /\ \A p \in ProposalIds :
         /\ metaIndex.props[p] = "applied" /\ ~guideCut => guide[p] >= 1
         /\ guide[p] <= 1 + lossesMeta
    /\ ~restarted => \A p \in ledgered : metaIndex.props[p] = "applied"
=============================================================================
