---------------------------- MODULE CycleLedger ----------------------------
(***************************************************************************)
(* memory/performance_ledger.py: the record of every cycle, appended by    *)
(* the sessions that share one .agent under its "ledger" lock, the last    *)
(* Window (MAX_CYCLES) kept.  PERFORMANCE_LEDGER.md is rendered after the  *)
(* JSON, and LOOP_PERFORMANCE.md gets a line for each applied proposal.    *)
(* All three are written to a temporary file and renamed.  A ledger that   *)
(* cannot be parsed counts as an empty one, and is overwritten.            *)
(***************************************************************************)
EXTENDS Naturals, Sequences

CONSTANTS
    Keepers,    \* those that append
    NoKeeper,   \* "no one holds the ledger lock", not a keeper
    Window,     \* MAX_CYCLES: the records, and the lines, that are kept
    MaxCycles   \* bound: the records that are ever appended

ASSUME LedgerAssumption ==
    NoKeeper \notin Keepers /\ {Window, MaxCycles} \subseteq Nat \ {0}

VARIABLES
    ledgerLock, \* who holds it
    keeperAt,   \* where each of them is
    loaded,     \* the records each has loaded
    cycles,     \* performance_ledger.json; a record is its number
    view,       \* the records the Markdown was rendered from
    lines,      \* LOOP_PERFORMANCE.md: how many lines
    tornLedger, \* the JSON does not parse
    saved,      \* history: all records since it last did not
    crashed     \* history: one died between the JSON and its view

ledgerVars == <<ledgerLock, keeperAt, loaded, cycles, view, lines, tornLedger,
                saved, crashed>>

Records == 1 .. MaxCycles
LastOnes(q) == SubSeq(q, Len(q) - (IF Len(q) < Window THEN Len(q) ELSE Window) + 1, Len(q))

LedgerTypeOK ==
    /\ ledgerLock \in Keepers \cup {NoKeeper}
    /\ keeperAt \in [Keepers -> {"idle", "append", "view", "line"}]
    /\ loaded \in [Keepers -> Seq(Records)]
    /\ {cycles, view} \subseteq Seq(Records) /\ Len(cycles) <= Window
    /\ lines \in 0 .. Window /\ tornLedger \in BOOLEAN
    /\ saved \in Seq(Records) /\ crashed \in BOOLEAN

LedgerInit ==
    /\ ledgerLock = NoKeeper /\ keeperAt = [k \in Keepers |-> "idle"]
    /\ loaded = [k \in Keepers |-> <<>>]
    /\ cycles = <<>> /\ view = <<>> /\ lines = 0
    /\ tornLedger = FALSE /\ saved = <<>> /\ crashed = FALSE

KeeperGoes(k, from, to) == keeperAt[k] = from /\ keeperAt' = [keeperAt EXCEPT ![k] = to]
LoadLedger(k) == loaded' = [loaded EXCEPT ![k] = IF tornLedger THEN <<>> ELSE cycles]
GivesBack(k) == ledgerLock' = IF ledgerLock = k THEN NoKeeper ELSE ledgerLock

\* Loaded before the lock is had.
LedgerBeginsBroken(k) ==
    /\ KeeperGoes(k, "idle", "append") /\ LoadLedger(k)
    /\ UNCHANGED <<ledgerLock, cycles, view, lines, tornLedger, saved, crashed>>

LedgerBegins(k) ==
    /\ KeeperGoes(k, "idle", "append") /\ ledgerLock = NoKeeper /\ ledgerLock' = k
    /\ LoadLedger(k)
    /\ UNCHANGED <<cycles, view, lines, tornLedger, saved, crashed>>

\* The window is not cut.
SaveLedgerUncut(k) ==
    /\ KeeperGoes(k, "append", "view") /\ (saved # <<>> => saved[Len(saved)] < MaxCycles)
    /\ LET record == (IF saved = <<>> THEN 1 ELSE saved[Len(saved)] + 1) IN
         /\ cycles' = Append(loaded[k], record)
         /\ saved' = IF tornLedger THEN <<record>> ELSE Append(saved, record)
    /\ tornLedger' = FALSE
    /\ UNCHANGED <<ledgerLock, loaded, view, lines, crashed>>

\* append_cycle with persist_cycle: the window is cut before it is saved.
SaveLedger(k) ==
    /\ KeeperGoes(k, "append", "view") /\ (saved # <<>> => saved[Len(saved)] < MaxCycles)
    /\ LET record == (IF saved = <<>> THEN 1 ELSE saved[Len(saved)] + 1) IN
         /\ cycles' = LastOnes(Append(loaded[k], record))
         /\ saved' = IF tornLedger THEN <<record>> ELSE Append(saved, record)
    /\ tornLedger' = FALSE
    /\ UNCHANGED <<ledgerLock, loaded, view, lines, crashed>>

\* persist_cycle = False: only the line of a proposal.
SkipLedger(k) ==
    /\ KeeperGoes(k, "append", "line")
    /\ UNCHANGED <<ledgerLock, loaded, cycles, view, lines, tornLedger, saved, crashed>>

RenderView(k) ==
    /\ KeeperGoes(k, "view", "line") /\ view' = cycles
    /\ UNCHANGED <<ledgerLock, loaded, cycles, lines, tornLedger, saved, crashed>>

\* With a proposal, one line more of the last Window; then the lock is free.
ProposalLine(k) ==
    /\ KeeperGoes(k, "line", "idle") /\ GivesBack(k)
    /\ lines' \in {lines, IF lines < Window THEN lines + 1 ELSE lines}
    /\ UNCHANGED <<loaded, cycles, view, tornLedger, saved, crashed>>

KeeperDies(k) ==
    /\ keeperAt[k] # "idle" /\ keeperAt' = [keeperAt EXCEPT ![k] = "idle"]
    /\ GivesBack(k) /\ crashed' = (crashed \/ keeperAt[k] = "view")
    /\ UNCHANGED <<loaded, cycles, view, lines, tornLedger, saved>>

\* A merge, an editor: the JSON does not parse until it is next saved.
LedgerTorn ==
    /\ ledgerLock = NoKeeper /\ ~tornLedger /\ cycles # <<>> /\ tornLedger' = TRUE
    /\ UNCHANGED <<ledgerLock, keeperAt, loaded, cycles, view, lines, saved, crashed>>

LedgerNext == LedgerTorn \/ \E k \in Keepers :
    \/ LedgerBegins(k) \/ SaveLedger(k) \/ SkipLedger(k) \/ RenderView(k)
    \/ ProposalLine(k) \/ KeeperDies(k)

----------------------------------------------------------------------------
(* The ledger is the end of what was appended, no record of a concurrent    *)
(* session is missing from it, and while no one writes the view shows it,   *)
(* unless a session died in between (append_cycle, _save_ledger).           *)
LedgerIsTail ==
    /\ cycles = LastOnes(saved)
    /\ ledgerLock = NoKeeper /\ ~crashed => view = cycles
=============================================================================
