--------------------------- MODULE LoopStateFile ---------------------------
(***************************************************************************)
(* LOOP_STATE.json of a worktree (memory/state.py).  update_state and      *)
(* append_delta read, change and write under the state lock; compact, the  *)
(* command line's "set" and the loop save a whole state they read earlier, *)
(* outside of it.  Deltas above the cap move to the history, a file of     *)
(* lines that only grows.  A state that cannot be parsed reads as the      *)
(* default.  The lock is taken to exclude (AgentLock says when it does).   *)
(*                                                                         *)
(* A state is written under caps: twenty open_invest, and, above a number  *)
(* of bytes, three commands and no notes.  How full it is, is not kept:    *)
(* any write may leave some updates out.                                   *)
(***************************************************************************)
EXTENDS Naturals, Sequences, SequencesExt

CONSTANTS
    Writers,    \* the processes that write the state; each has one delta
    NoWriter,   \* "the state lock is free"
    MaxDeltas   \* MAX_DELTAS

ASSUME LoopStateAssumption == NoWriter \notin Writers /\ MaxDeltas \in Nat \ {0}

VARIABLES
    stateIs,    \* the file: missing, whole or torn
    stateFile,  \* its content: whose updates it shows, and the recent deltas
    stateLock,  \* who holds .agent/state.lock
    stateAt,    \* where each process is
    stateCopy,  \* the state each process is about to write, while it is
    history,    \* the deltas that have a line in the history
    shown,      \* history: the updates and deltas that reached the file
    trimmed,    \* history: the updates that the caps left out, and none again
    overwritten \* history: a state was written that was not read under the
                \* lock, or that took a torn file for the default

loopStateVars == <<stateIs, stateFile, stateLock, stateAt, stateCopy, history,
                   shown, trimmed, overwritten>>

DefaultState == [updates |-> {}, deltas |-> <<>>]
LoopStates   == [updates : SUBSET Writers, deltas : BoundedSeq(Writers, MaxDeltas + 1)]
StateSteps   == {"idle", "create", "save", "update", "wantDelta", "delta",
                 "projected", "unlocked"}

LoopStateTypeOK ==
    /\ stateIs \in {"missing", "whole", "torn"} /\ stateFile \in LoopStates
    /\ stateLock \in Writers \cup {NoWriter}
    /\ stateAt \in [Writers -> StateSteps \X StateSteps]
    /\ stateCopy \in [Writers -> LoopStates]
    /\ history \subseteq Writers /\ shown \in [{"updates", "deltas"} -> SUBSET Writers]
    /\ trimmed \subseteq Writers /\ overwritten \in BOOLEAN

LoopStateInit ==
    /\ stateIs = "missing" /\ stateFile = DefaultState /\ stateLock = NoWriter
    /\ stateAt = [w \in Writers |-> <<"idle", "idle">>]
    /\ stateCopy = [w \in Writers |-> DefaultState]
    /\ history = {} /\ shown = [k \in {"updates", "deltas"} |-> {}]
    /\ trimmed = {} /\ overwritten = FALSE

\* _read_state_readonly, and load_state when there is a file.
ReadState == IF stateIs = "whole" THEN stateFile ELSE DefaultState

\* A step and what follows it once the state is saved.
StateGoes(w, step, then) == stateAt' = [stateAt EXCEPT ![w] = <<step, then>>]
StateStep(w) == stateAt[w][1]
StateThen(w) == stateAt[w][2]

ForgetCopy(w) == stateCopy' = [stateCopy EXCEPT ![w] = DefaultState]

TakeStateLock(w) ==
    /\ stateLock = NoWriter /\ stateLock' = w
    /\ overwritten' = (overwritten \/ stateIs = "torn")

\* What _save_state_unlocked writes of a copy: not what is above the caps.
WriteTrimmed(w) ==
    \E cut \in SUBSET stateCopy[w].updates :
        /\ stateIs' = "whole"
        /\ stateFile' = [stateCopy[w] EXCEPT !.updates = @ \ cut]
        /\ trimmed' = (trimmed \ stateCopy[w].updates) \cup cut

\* update_state
UpdateBegins(w) ==
    /\ StateStep(w) = "idle" /\ StateGoes(w, "update", "idle")
    /\ TakeStateLock(w)
    /\ stateCopy' = [stateCopy EXCEPT ![w] =
                       [ReadState EXCEPT !.updates = @ \cup {w}]]
    /\ UNCHANGED <<stateIs, stateFile, history, shown, trimmed>>

\* The state is read before the lock is held.
DeltaLockedBroken(w) ==
    /\ StateStep(w) = "wantDelta" /\ StateGoes(w, "delta", "unlocked")
    /\ stateCopy' = [stateCopy EXCEPT ![w] =
                       [ReadState EXCEPT !.deltas = Append(@, w)]]
    /\ UNCHANGED <<stateIs, stateFile, stateLock, history, shown, trimmed, overwritten>>

\* append_delta: a missing state is made first, by load_state.
DeltaBegins(w) ==
    /\ StateStep(w) = "idle" /\ w \notin shown["deltas"]
    /\ \/ stateIs = "missing" /\ StateGoes(w, "create", "wantDelta")
       \/ stateIs # "missing" /\ StateGoes(w, "wantDelta", "wantDelta")
    /\ UNCHANGED <<stateIs, stateFile, stateLock, stateCopy, history, shown, trimmed, overwritten>>

DeltaLocked(w) ==
    /\ StateStep(w) = "wantDelta" /\ StateGoes(w, "delta", "unlocked")
    /\ TakeStateLock(w)
    /\ stateCopy' = [stateCopy EXCEPT ![w] =
                       [ReadState EXCEPT !.deltas = Append(@, w)]]
    /\ UNCHANGED <<stateIs, stateFile, history, shown, trimmed>>

\* compact, "set" and the loop: load_state, with no lock.  It finds no file
\* and makes one, or reads the one that is there.
LoadWhole(w) ==
    /\ StateStep(w) = "idle"
    /\ StateGoes(w, IF stateIs = "missing" THEN "create" ELSE "save", "save")
    /\ stateCopy' = [stateCopy EXCEPT ![w] = ReadState]
    /\ UNCHANGED <<stateIs, stateFile, stateLock, history, shown, trimmed, overwritten>>

\* save_state of that copy; it undoes what was written since.
SaveWhole(w) ==
    LET stale == stateIs # "missing" /\ (stateIs = "torn" \/ stateCopy[w] # stateFile)
    IN  /\ StateStep(w) \in {"create", "save"} /\ stateLock = NoWriter
        /\ StateGoes(w, IF StateStep(w) = "create" THEN StateThen(w) ELSE "idle", "idle")
        /\ WriteTrimmed(w) /\ overwritten' = (overwritten \/ stale) /\ ForgetCopy(w)
        /\ UNCHANGED <<stateLock, history, shown>>

\* _save_state_unlocked: the overflow goes to the history first.
ArchiveOverflow(w) ==
    LET ds == stateCopy[w].deltas
    IN  /\ StateStep(w) \in {"update", "delta"} /\ Len(ds) > MaxDeltas
        /\ history' = history \cup {ds[i] : i \in 1 .. (Len(ds) - MaxDeltas)}
        /\ stateCopy' = [stateCopy EXCEPT ![w].deltas =
                           SubSeq(ds, Len(ds) - MaxDeltas + 1, Len(ds))]
        /\ UNCHANGED <<stateIs, stateFile, stateLock, stateAt, shown, trimmed, overwritten>>

ReplaceState(w) ==
    /\ StateStep(w) \in {"update", "delta"} /\ Len(stateCopy[w].deltas) <= MaxDeltas
    /\ StateGoes(w, "projected", StateThen(w))
    /\ WriteTrimmed(w)
    /\ shown' = IF StateStep(w) = "update"
                THEN [shown EXCEPT !["updates"] = @ \cup {w}]
                ELSE [shown EXCEPT !["deltas"] = @ \cup {w}]
    /\ ForgetCopy(w)
    /\ UNCHANGED <<stateLock, history, overwritten>>

\* _write_md_projection, and the end of the lock.
ReleaseState(w) ==
    /\ StateStep(w) = "projected" /\ StateGoes(w, StateThen(w), "idle")
    /\ stateLock' = IF stateLock = w THEN NoWriter ELSE stateLock
    /\ UNCHANGED <<stateIs, stateFile, stateCopy, history, shown, trimmed, overwritten>>

\* append_delta's own line, after the lock.
AppendHistory(w) ==
    /\ StateStep(w) = "unlocked" /\ StateGoes(w, "idle", "idle")
    /\ history' = history \cup {w}
    /\ UNCHANGED <<stateIs, stateFile, stateLock, stateCopy, shown, trimmed, overwritten>>

\* A process dies at any step; its lock is reclaimed.
WriterDies(w) ==
    /\ StateStep(w) # "idle" /\ StateGoes(w, "idle", "idle")
    /\ stateLock' = IF stateLock = w THEN NoWriter ELSE stateLock
    /\ ForgetCopy(w)
    /\ UNCHANGED <<stateIs, stateFile, history, shown, trimmed, overwritten>>

\* The file is edited in place, with no lock.
StateEdited ==
    /\ \/ stateIs = "whole" /\ stateIs' = "torn"
       \/ stateIs = "torn" /\ stateIs' = "whole"
    /\ UNCHANGED <<stateFile, stateLock, stateAt, stateCopy, history, shown, trimmed, overwritten>>

LoopStateNext ==
    \/ \E w \in Writers :
         \/ UpdateBegins(w) \/ DeltaBegins(w) \/ DeltaLocked(w) \/ LoadWhole(w)
         \/ SaveWhole(w) \/ ArchiveOverflow(w) \/ ReplaceState(w)
         \/ ReleaseState(w) \/ AppendHistory(w) \/ WriterDies(w)
    \/ StateEdited

----------------------------------------------------------------------------
(* Until somebody saves a state that was not read under the lock, or one    *)
(* that took a torn file for the default, every update is in the file but   *)
(* what a cap left out, and every delta is in the file or in the history,   *)
(* wherever a process died (update_state, append_delta,                     *)
(* _save_state_unlocked).                                                   *)
StateKept ==
    ~overwritten =>
        /\ shown["updates"] \subseteq stateFile.updates \cup trimmed
        /\ shown["deltas"] \subseteq history \cup ToSet(stateFile.deltas)
=============================================================================
