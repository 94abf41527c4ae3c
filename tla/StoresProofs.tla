---------------------------- MODULE StoresProofs ----------------------------
(***************************************************************************)
(* That what several processes keep in one directory stays as they left    *)
(* it, for any number of processes and any caps.                           *)
(*                                                                         *)
(* Nine stores, each with an invariant of its own (XInv) that its steps    *)
(* keep (XStepKeeps), and a step of MCStores is a step or a stutter of each *)
(* of them.  Most arguments are the same three parts: whoever is inside of *)
(* the critical section has the lock, so it is alone; so what it read is   *)
(* still what the file has when it writes its own; so the file it leaves   *)
(* has all there was.  What each store adds to that is said where it is    *)
(* proved.                                                                 *)
(***************************************************************************)
EXTENDS MCStores, FiniteSetTheorems, SequenceTheorems, WellFoundedInduction, TLAPS

----------------------------------------------------------------------------
(* Numbers and sequences.                                                    *)

\* A set of natural numbers has a least one.
LEMMA LeastOne ==
  ASSUME NEW S, S \subseteq Nat, S # {}
  PROVE  \E x \in S : \A y \in S : x <= y
<1>1. IsWellFoundedOn(OpToRel(<, Nat), Nat)
  BY NatLessThanWellFounded
<1>2. PICK x \in S : \A y \in S : ~(<<y, x>> \in OpToRel(<, Nat))
  BY <1>1, WFMin
<1>3. \A y \in S : x \in Nat /\ y \in Nat /\ ~(y < x)
  BY <1>2 DEF OpToRel
<1> QED
  BY <1>3

\* If it is bounded and not empty, it has a greatest one.
LEMMA GreatestOne ==
  ASSUME NEW S, S \subseteq Nat, S # {}, NEW n \in Nat, \A y \in S : y <= n
  PROVE  Max(S) \in S /\ \A y \in S : y <= Max(S)
<1> DEFINE bounds == {m \in Nat : \A y \in S : y <= m}
<1>1. PICK m \in bounds : \A k \in bounds : m <= k
  BY LeastOne
<1>2. m \in S
  <2> SUFFICES ASSUME m \notin S PROVE FALSE
    OBVIOUS
  <2>1. m \in Nat /\ \A y \in S : y \in Nat /\ y < m
    BY <1>1
  <2>3. m # 0
    <3>1. PICK y \in S : TRUE
      OBVIOUS
    <3> QED
      BY <2>1, <3>1
  <2>2. m - 1 \in bounds
    BY <2>1, <2>3
  <2> QED
    <3> HIDE DEF bounds
    <3>1. m <= m - 1
      BY <1>1, <2>2
    <3> QED
      BY <2>1, <3>1
<1>3. \E x \in S : \A y \in S : x >= y
  BY <1>1, <1>2
<1>4. Max(S) \in S /\ \A y \in S : Max(S) >= y
  BY <1>3 DEF Max
<1> QED
  BY <1>4

\* What a function gives to finitely many is bounded.
LEMMA FinitelyManyAreBounded ==
  ASSUME NEW D, IsFiniteSet(D), NEW f \in [D -> Nat]
  PROVE  \E n \in Nat : \A k \in D : f[k] <= n
<1>1. CASE D = {}
  BY <1>1
<1>2. CASE D # {}
  <2> DEFINE Above(k) == {m \in D : f[m] > f[k]}
             sizes == {Cardinality(Above(k)) : k \in D}
  <2>1. \A k \in D : IsFiniteSet(Above(k)) /\ Cardinality(Above(k)) \in Nat
    BY FS_Subset, FS_CardinalityType
  <2>2. sizes \subseteq Nat /\ sizes # {}
    BY <1>2, <2>1
  <2>3. PICK c \in sizes : \A d \in sizes : c <= d
    BY <2>2, LeastOne
  <2>4. PICK k \in D : c = Cardinality(Above(k))
    OBVIOUS
  <2>5. ASSUME NEW m \in D PROVE f[m] <= f[k]
    <3> SUFFICES ASSUME m \in Above(k) PROVE FALSE
      BY <2>4
    <3>1. Above(m) \subseteq Above(k) /\ m \notin Above(m) /\ f[m] \in Nat /\ f[k] \in Nat
      BY <2>4
    <3>2. /\ Cardinality(Above(m)) <= Cardinality(Above(k))
          /\ Cardinality(Above(k)) = Cardinality(Above(m)) => Above(k) = Above(m)
      BY <2>1, <2>4, <3>1, FS_Subset
    <3>3. Cardinality(Above(m)) \in sizes
      OBVIOUS
    <3>4. Cardinality(Above(k)) <= Cardinality(Above(m))
      BY <2>3, <2>4, <3>3
    <3>5. Above(k) # Above(m)
      BY <3>1
    <3> HIDE DEF Above
    <3> QED
      BY <2>1, <2>4, <3>2, <3>4, <3>5
  <2>6. f[k] \in Nat
    BY <2>4
  <2> QED
    BY <2>5, <2>6
<1> QED
  BY <1>1, <1>2

----------------------------------------------------------------------------
(* The memory file.                                                         *)

PastLock(u) == memAt[u] \in Opened \cup {"read", "open", "replace", "unlink"}

MemOne ==
    \A u \in Updaters : PastLock(u) => memLock = u

MemCopies ==
    \A u \in Updaters :
        /\ memAt[u] \in {"open", "write", "replace"} =>
               u \in memRead[u] /\ memFile \subseteq memRead[u] \cup unread
        /\ memAt[u] = "replace" => memTmp = "whole" /\ memTmpHas = memRead[u]
        /\ memAt[u] \notin {"overwrite", "astray"}

\* But for the patterns that a failed read took for nothing, the one process
\* past the lock has in its copy what is in the file.
MemInv ==
    /\ memAt \in [Updaters -> MemSteps] /\ memRead \in [Updaters -> SUBSET Updaters]
    /\ memFile \subseteq Updaters /\ memTmpHas \subseteq Updaters
    /\ ~unlocked => MemOne /\ MemCopies
    /\ MergesKept

LEMMA MemInitInv == MemInit => MemInv
BY DEF MemInit, MemInv, MemSteps, Opened, MemOne, PastLock, MemCopies, MergesKept

LEMMA RenamedIsStep == \A step \in MemSteps : Renamed(step) \in MemSteps
BY DEF Renamed, MemSteps, Opened

LEMMA MemNextKeeps ==
  ASSUME MemInv, MemNext
  PROVE  MemInv'
<1> SUFFICES ASSUME NEW u \in Updaters, MemUpdaterNext(u) \/ UpdaterDies(u)
             PROVE  MemInv'
  BY DEF MemNext
<1> USE MemoryAssumption DEF MemInv, MemSteps, Opened, MemOne, PastLock, MemCopies, MergesKept, MemGoes, tmpVars, fileVars
<1>1. CASE MakeLock(u)
  BY <1>1 DEF MakeLock
<1>2. CASE GoUnlocked(u)
  BY <1>2 DEF GoUnlocked
<1>3. CASE ReadAndMerge(u)
  BY <1>3 DEF ReadAndMerge
<1>4. CASE OpenTmp(u)
  BY <1>4 DEF OpenTmp
<1>5. CASE FillTmp(u)
  BY <1>5 DEF FillTmp
<1>6. CASE ReplaceMemory(u)
  <2>1. /\ memAt[u] = "replace" /\ unlocked' = unlocked /\ memRead' = memRead
        /\ memAt' \in [Updaters -> MemSteps] /\ memFile' \in {memFile, memTmpHas}
        /\ memTmpHas' = memTmpHas
        /\ \A w \in Updaters \ {u} : memAt'[w] = Renamed(memAt[w])
    BY <1>6, RenamedIsStep DEF ReplaceMemory
  <2>2. CASE unlocked
    BY <2>1, <2>2
  <2>3. CASE ~unlocked
    <3>1. /\ memLock = u /\ memTmp = "whole" /\ memTmpHas = memRead[u]
          /\ u \in memRead[u] /\ memFile \subseteq memRead[u] \cup unread
          /\ \A w \in Updaters \ {u} : ~PastLock(w)
      BY <2>1, <2>3
    <3>2. /\ memAt'[u] = "unlink" /\ memFile' = memRead[u] /\ ~memTorn'
          /\ memLock' = memLock /\ unread' = unread
      BY <1>6, <3>1 DEF ReplaceMemory
    <3>3. \A w \in Updaters \ {u} : memAt'[w] = memAt[w]
      BY <2>1, <3>1 DEF Renamed
    <3> QED
      BY <2>1, <2>3, <3>1, <3>2, <3>3
  <2> QED
    BY <2>2, <2>3
<1>7. CASE RemoveLock(u)
  BY <1>7 DEF RemoveLock, LockEnds
<1>9. CASE UpdateRaises(u)
  BY <1>9 DEF UpdateRaises, LockEnds
<1>8. CASE UpdaterDies(u)
  BY <1>8 DEF UpdaterDies
<1> QED
  BY <1>1, <1>2, <1>3, <1>4, <1>5, <1>6, <1>7, <1>8, <1>9 DEF MemUpdaterNext

LEMMA MemStepKeeps ==
  ASSUME MemInv, [MemNext]_memVars
  PROVE  MemInv'
<1>1. CASE MemNext
  BY <1>1, MemNextKeeps
<1>2. CASE UNCHANGED memVars
  BY <1>2 DEF memVars, MemInv, MemSteps, Opened, MemOne, PastLock, MemCopies, MergesKept
<1> QED
  BY <1>1, <1>2

LEMMA MemTypes ==
  ASSUME MemTypeOK, [MemNext]_memVars
  PROVE  MemTypeOK'
<1>1. CASE UNCHANGED memVars
  BY <1>1 DEF memVars, MemTypeOK
<1>2. ASSUME NEW u \in Updaters, MemUpdaterNext(u) \/ UpdaterDies(u)
      PROVE  MemTypeOK'
  <2>1. memTorn' \in BOOLEAN
    BY <1>2 DEF MemTypeOK, MemUpdaterNext, UpdaterDies, MakeLock, GoUnlocked, ReadAndMerge, OpenTmp,
                FillTmp, ReplaceMemory, RemoveLock,
                UpdateRaises, LockEnds, tmpVars, fileVars
  <2>2. unlocked' \in BOOLEAN
    BY <1>2 DEF MemTypeOK, MemUpdaterNext, UpdaterDies, MakeLock, GoUnlocked, ReadAndMerge, OpenTmp,
                FillTmp, ReplaceMemory, RemoveLock,
                UpdateRaises, LockEnds, tmpVars, fileVars
  <2>3. memAt' \in [Updaters -> MemSteps]
    <3>1. CASE ReplaceMemory(u)
      BY <3>1, RenamedIsStep DEF ReplaceMemory, MemTypeOK, MemSteps
    <3>2. CASE ~ReplaceMemory(u)
      <4>1. PICK to \in MemSteps : memAt' = [memAt EXCEPT ![u] = to]
        BY <1>2, <3>2 DEF MemUpdaterNext, UpdaterDies, MakeLock, GoUnlocked, ReadAndMerge,
           OpenTmp, FillTmp, RemoveLock, UpdateRaises, MemGoes, MemSteps, Opened
      <4> QED
        BY <4>1 DEF MemTypeOK
    <3> QED
      BY <3>1, <3>2
  <2>4. memRead' \in [Updaters -> SUBSET Updaters]
    <3>1. \/ memRead' = memRead
          \/ \E found \in SUBSET memFile : memRead' = [memRead EXCEPT ![u] = found \cup {u}]
      BY <1>2 DEF MemUpdaterNext, UpdaterDies, MakeLock, GoUnlocked, ReadAndMerge, OpenTmp,
                  FillTmp, ReplaceMemory, RemoveLock,
                UpdateRaises, LockEnds, tmpVars, fileVars
    <3> QED
      BY <3>1 DEF MemTypeOK
  <2>5. memTmpHas' \in {memTmpHas, memRead[u]} /\ memFile' \in {memFile, memTmpHas, memRead[u]}
    BY <1>2 DEF MemUpdaterNext, UpdaterDies, MakeLock, GoUnlocked, ReadAndMerge, OpenTmp,
                FillTmp, ReplaceMemory, RemoveLock,
                UpdateRaises, LockEnds, tmpVars, fileVars
  <2>7. unread' = unread \/ \E found \in SUBSET memFile : unread' = unread \cup (memFile \ found)
    BY <1>2 DEF MemTypeOK, MemUpdaterNext, UpdaterDies, MakeLock, GoUnlocked, ReadAndMerge, OpenTmp,
                FillTmp, ReplaceMemory, RemoveLock, UpdateRaises, tmpVars, fileVars
  <2>6. memLock' \in {memLock, u, NoUpdater} /\ memTmp' \in {memTmp, "none", "partial", "whole"}
    BY <1>2 DEF MemUpdaterNext, UpdaterDies, MakeLock, GoUnlocked, ReadAndMerge, OpenTmp,
                FillTmp, ReplaceMemory, RemoveLock,
                UpdateRaises, LockEnds, tmpVars, fileVars
  <2> QED
    BY <2>1, <2>2, <2>3, <2>4, <2>5, <2>6, <2>7 DEF MemTypeOK
<1> QED
  BY <1>1, <1>2 DEF MemNext

LEMMA MemTypedInit == MemInit => MemTypeOK
<1> SUFFICES ASSUME MemInit PROVE MemTypeOK
  OBVIOUS
<1>1. memTorn \in BOOLEAN /\ unlocked \in BOOLEAN
  BY DEF MemInit
<1> QED
  BY <1>1 DEF MemInit, MemTypeOK, MemSteps, Opened

----------------------------------------------------------------------------
(* The loop state.                                                          *)

\* What a copy shows, together with the history and what was trimmed, is all
\* that was shown.
ShowsAll(st) ==
    /\ shown["updates"] \subseteq st.updates \cup trimmed
    /\ shown["deltas"] \subseteq history \cup ToSet(st.deltas)

LoopStateTypes ==
    /\ stateIs \in {"missing", "whole", "torn"}
    /\ stateFile \in [updates : SUBSET Writers, deltas : Seq(Writers)]
    /\ stateCopy \in [Writers -> [updates : SUBSET Writers, deltas : Seq(Writers)]]
    /\ stateAt \in [Writers -> StateSteps \X StateSteps]
    /\ shown \in [{"updates", "deltas"} -> SUBSET Writers]
    /\ history \subseteq Writers /\ trimmed \subseteq Writers

\* Whoever writes under the lock holds it; nobody comes back to such a step.
StateOne ==
    \A w \in Writers :
        /\ StateStep(w) \in {"update", "delta", "projected"} => stateLock = w
        /\ StateThen(w) \notin {"update", "delta", "projected"}

\* The copy that is about to be written shows all, and its own update.
CopiesShowAll ==
    \A w \in Writers :
        /\ StateStep(w) \in {"update", "delta"} => ShowsAll(stateCopy[w])
        /\ StateStep(w) = "update" => w \in stateCopy[w].updates
        /\ StateStep(w) = "delta" => w \in history \cup ToSet(stateCopy[w].deltas)

\* A file that was never made has shown nothing.
NothingYet ==
    stateIs = "missing" => shown["updates"] = {} /\ shown["deltas"] = {}

LoopStateInv ==
    /\ LoopStateTypes /\ StateOne /\ NothingYet
    /\ ~overwritten => CopiesShowAll /\ ShowsAll(stateFile)

LEMMA LoopStateInitInv == LoopStateInit => LoopStateInv
BY DEF LoopStateInit, LoopStateInv, LoopStateTypes, StateSteps, StateOne, StateStep,
       StateThen, CopiesShowAll, NothingYet, ShowsAll, DefaultState

\* A lemma about sequences: what is cut off and what stays are the whole.
LEMMA CutKeepsAll ==
  ASSUME NEW S, NEW s \in Seq(S), NEW n \in Nat, n < Len(s)
  PROVE  /\ SubSeq(s, Len(s) - n + 1, Len(s)) \in Seq(S)
         /\ ToSet(s) = {s[i] : i \in 1 .. (Len(s) - n)}
                         \cup ToSet(SubSeq(s, Len(s) - n + 1, Len(s)))
<1> DEFINE k == Len(s) - n
           r == SubSeq(s, k + 1, Len(s))
<1>1. /\ k \in Nat /\ k + 1 \in Int /\ k <= Len(s) /\ Len(s) \in Nat
      /\ Len(s) - k = n /\ \A i \in 1 .. Len(s) : s[i] \in S
  OBVIOUS
<1>2. /\ r \in Seq(S) /\ Len(r) = n
      /\ \A i \in 1 .. n : r[i] = s[k + i]
  <2> HIDE DEF k
  <2>1. \A i \in (k + 1) .. Len(s) : s[i] \in S
    BY <1>1
  <2>2. /\ r \in Seq(S)
        /\ Len(r) = IF k + 1 <= Len(s) THEN Len(s) - (k + 1) + 1 ELSE 0
        /\ \A i \in 1 .. Len(s) - (k + 1) + 1 : r[i] = s[(k + 1) + i - 1]
    BY <1>1, <2>1, SubSeqProperties
  <2> HIDE DEF r
  <2>3. /\ Len(s) - (k + 1) + 1 = n /\ \A i \in 1 .. n : (k + 1) + i - 1 = k + i
        /\ k + 1 <= Len(s) \/ n = 0
    BY <1>1
  <2> QED
    BY <2>2, <2>3
<1> HIDE DEF r, k
<1>3. ASSUME NEW j \in 1 .. Len(s), j > k PROVE s[j] \in ToSet(r)
  <2>1. j - k \in 1 .. n /\ k + (j - k) = j
    BY <1>1, <1>3
  <2>2. j - k \in DOMAIN r /\ r[j - k] = s[j]
    BY <1>2, <2>1
  <2> QED
    BY <2>2 DEF ToSet
<1>4. ASSUME NEW j \in 1 .. n PROVE r[j] \in ToSet(s)
  <2>1. k + j \in 1 .. Len(s)
    BY <1>1, <1>4
  <2>2. k + j \in DOMAIN s /\ r[j] = s[k + j]
    BY <1>2, <1>4, <2>1
  <2> QED
    BY <2>2 DEF ToSet
<1>5. ToSet(s) \subseteq {s[i] : i \in 1 .. k} \cup ToSet(r)
  <2>1. ASSUME NEW j \in 1 .. Len(s) PROVE s[j] \in {s[i] : i \in 1 .. k} \cup ToSet(r)
    <3>1. CASE j > k
      BY <1>3, <3>1
    <3>2. CASE j <= k
      <4>1. j \in 1 .. k
        BY <1>1, <3>2
      <4> QED
        BY <4>1
    <3> QED
      BY <1>1, <3>1, <3>2
  <2> QED
    BY <2>1 DEF ToSet
<1>6. ToSet(r) \subseteq ToSet(s)
  BY <1>2, <1>4 DEF ToSet
<1>7. {s[i] : i \in 1 .. k} \subseteq ToSet(s)
  BY <1>1 DEF ToSet
<1> QED
  BY <1>2, <1>5, <1>6, <1>7 DEF r, k

\* What the lock is taken with: a state that shows all, unless the file was torn.
LEMMA LockedReadShowsAll ==
  ASSUME LoopStateInv, ~overwritten, stateIs \in {"missing", "whole"}
  PROVE  ShowsAll(ReadState)
BY DEF LoopStateInv, NothingYet, ShowsAll, ReadState, DefaultState

\* A process that is in its next step; the others are where they were.
LEMMA StateMoves ==
  ASSUME LoopStateTypes, NEW w \in Writers, NEW a \in StateSteps, NEW b \in StateSteps,
         StateGoes(w, a, b)
  PROVE  /\ stateAt' \in [Writers -> StateSteps \X StateSteps]
         /\ StateStep(w)' = a /\ StateThen(w)' = b
         /\ \A v \in Writers \ {w} :
               StateStep(v)' = StateStep(v) /\ StateThen(v)' = StateThen(v)
BY DEF LoopStateTypes, StateGoes, StateStep, StateThen

\* A step outside of the lock that writes nothing, to a step outside of it.
LEMMA OutsideKeeps ==
  ASSUME LoopStateInv, NEW w \in Writers, StateStep(w) \notin {"update", "delta", "projected"},
         NEW a \in StateSteps \ {"update", "delta", "projected"},
         NEW b \in StateSteps \ {"update", "delta", "projected"}, StateGoes(w, a, b),
         NEW st \in [updates : SUBSET Writers, deltas : Seq(Writers)],
         stateCopy' = [stateCopy EXCEPT ![w] = st] \/ UNCHANGED stateCopy,
         UNCHANGED <<stateIs, stateFile, stateLock, shown, trimmed, overwritten>>,
         history' \in {history, history \cup {w}}
  PROVE  LoopStateInv'
<1>1. /\ stateAt' \in [Writers -> StateSteps \X StateSteps]
      /\ StateStep(w)' = a /\ StateThen(w)' = b
      /\ \A v \in Writers \ {w} :
            StateStep(v)' = StateStep(v) /\ StateThen(v)' = StateThen(v)
  BY StateMoves DEF LoopStateInv
<1>2. /\ stateCopy' \in [Writers -> [updates : SUBSET Writers, deltas : Seq(Writers)]]
      /\ \A v \in Writers \ {w} : stateCopy'[v] = stateCopy[v]
  <2>1. CASE stateCopy' = [stateCopy EXCEPT ![w] = st]
    BY <2>1 DEF LoopStateInv, LoopStateTypes
  <2>2. CASE UNCHANGED stateCopy
    BY <2>2 DEF LoopStateInv, LoopStateTypes
  <2> QED
    BY <2>1, <2>2
<1>3. LoopStateTypes' /\ NothingYet'
  <2>1. history' \subseteq Writers
    BY DEF LoopStateInv, LoopStateTypes
  <2> QED
    BY <1>1, <1>2, <2>1 DEF LoopStateInv, LoopStateTypes, NothingYet
<1>4. StateOne'
  BY <1>1 DEF LoopStateInv, StateOne
<1>5. ASSUME ~overwritten PROVE CopiesShowAll' /\ ShowsAll(stateFile)'
  <2>1. \A v \in Writers : v # w => stateCopy'[v] = stateCopy[v]
    BY <1>2
  <2> QED
    BY <1>1, <1>5, <2>1 DEF LoopStateInv, CopiesShowAll, ShowsAll
<1> QED
  BY <1>3, <1>4, <1>5 DEF LoopStateInv

\* The lock is taken with a copy that shows what was read and the own update.
LEMMA LockedKeeps ==
  ASSUME LoopStateInv, NEW w \in Writers, NEW a \in {"update", "delta"},
         NEW b \in {"idle", "unlocked"}, StateGoes(w, a, b), TakeStateLock(w),
         NEW st \in [updates : SUBSET Writers, deltas : Seq(Writers)],
         stateCopy' = [stateCopy EXCEPT ![w] = st],
         ReadState.updates \subseteq st.updates,
         ToSet(ReadState.deltas) \subseteq ToSet(st.deltas),
         a = "update" => w \in st.updates, a = "delta" => w \in ToSet(st.deltas),
         UNCHANGED <<stateIs, stateFile, history, shown, trimmed>>
  PROVE  LoopStateInv'
<1>1. /\ stateAt' \in [Writers -> StateSteps \X StateSteps]
      /\ StateStep(w)' = a /\ StateThen(w)' = b
      /\ \A v \in Writers \ {w} :
            StateStep(v)' = StateStep(v) /\ StateThen(v)' = StateThen(v)
  BY StateMoves DEF LoopStateInv, StateSteps
<1>2. /\ stateCopy' \in [Writers -> [updates : SUBSET Writers, deltas : Seq(Writers)]]
      /\ stateCopy'[w] = st /\ \A v \in Writers \ {w} : stateCopy'[v] = stateCopy[v]
  BY DEF LoopStateInv, LoopStateTypes
<1>3. LoopStateTypes' /\ NothingYet'
  BY <1>1, <1>2 DEF LoopStateInv, LoopStateTypes, NothingYet
<1>4. \A v \in Writers : StateStep(v) \notin {"update", "delta", "projected"}
  BY LoopStateAssumption DEF LoopStateInv, StateOne, TakeStateLock
<1>5. StateOne'
  BY <1>1, <1>4 DEF LoopStateInv, StateOne, TakeStateLock
<1>6. ASSUME ~overwritten' PROVE CopiesShowAll' /\ ShowsAll(stateFile)'
  <2>1. ~overwritten /\ stateIs \in {"missing", "whole"}
    BY <1>6 DEF TakeStateLock, LoopStateInv, LoopStateTypes
  <2>2. ShowsAll(ReadState)
    BY <2>1, LockedReadShowsAll
  <2>3. ShowsAll(st)
    BY <2>2 DEF ShowsAll
  <2>4. ShowsAll(stateFile)'
    BY <2>1 DEF LoopStateInv, ShowsAll
  <2>5. CopiesShowAll'
    BY <1>1, <1>2, <1>4, <2>3 DEF CopiesShowAll, ShowsAll
  <2> QED
    BY <2>4, <2>5
<1> QED
  BY <1>3, <1>5, <1>6 DEF LoopStateInv

LEMMA ReadStateType ==
  ASSUME LoopStateInv
  PROVE  ReadState \in [updates : SUBSET Writers, deltas : Seq(Writers)]
<1>1. <<>> \in Seq(Writers)
  OBVIOUS
<1> QED
  BY <1>1 DEF LoopStateInv, LoopStateTypes, ReadState, DefaultState

LEMMA AppendShows ==
  ASSUME NEW S, NEW s \in Seq(S), NEW e \in S
  PROVE  /\ Append(s, e) \in Seq(S)
         /\ ToSet(s) \subseteq ToSet(Append(s, e)) /\ e \in ToSet(Append(s, e))
<1>1. /\ Append(s, e) \in Seq(S) /\ DOMAIN Append(s, e) = 1 .. (Len(s) + 1)
      /\ \A i \in 1 .. Len(s) : Append(s, e)[i] = s[i]
      /\ Append(s, e)[Len(s) + 1] = e /\ Len(s) \in Nat /\ DOMAIN s = 1 .. Len(s)
  OBVIOUS
<1>2. 1 .. Len(s) \subseteq 1 .. (Len(s) + 1) /\ Len(s) + 1 \in 1 .. (Len(s) + 1)
  BY <1>1
<1> QED
  BY <1>1, <1>2 DEF ToSet

LEMMA OutsideStepsKeep ==
  ASSUME LoopStateInv, NEW w \in Writers,
         DeltaBegins(w) \/ LoadWhole(w) \/ AppendHistory(w)
  PROVE  LoopStateInv'
<1>1. CASE DeltaBegins(w)
  <2>1. stateCopy[w] \in [updates : SUBSET Writers, deltas : Seq(Writers)]
    BY DEF LoopStateInv, LoopStateTypes
  <2> QED
    BY <1>1, <2>1, OutsideKeeps DEF DeltaBegins, StateSteps
<1>2. CASE LoadWhole(w)
  <2>1. ReadState \in [updates : SUBSET Writers, deltas : Seq(Writers)]
    BY ReadStateType
  <2>2. (IF stateIs = "missing" THEN "create" ELSE "save") \in {"create", "save"}
    OBVIOUS
  <2> QED
    BY <1>2, <2>1, <2>2, OutsideKeeps DEF LoadWhole, StateSteps
<1>3. CASE AppendHistory(w)
  <2>1. stateCopy[w] \in [updates : SUBSET Writers, deltas : Seq(Writers)]
    BY DEF LoopStateInv, LoopStateTypes
  <2> QED
    BY <1>3, <2>1, OutsideKeeps DEF AppendHistory, StateSteps
<1> QED
  BY <1>1, <1>2, <1>3

LEMMA LockedStepsKeep ==
  ASSUME LoopStateInv, NEW w \in Writers, UpdateBegins(w) \/ DeltaLocked(w)
  PROVE  LoopStateInv'
<1>1. /\ ReadState \in [updates : SUBSET Writers, deltas : Seq(Writers)]
      /\ ReadState.updates \subseteq Writers /\ ReadState.deltas \in Seq(Writers)
  BY ReadStateType
<1>2. CASE UpdateBegins(w)
  <2> DEFINE st == [ReadState EXCEPT !.updates = @ \cup {w}]
  <2>1. /\ st \in [updates : SUBSET Writers, deltas : Seq(Writers)]
        /\ st.updates = ReadState.updates \cup {w} /\ st.deltas = ReadState.deltas
    BY <1>1
  <2>2. /\ StateGoes(w, "update", "idle") /\ TakeStateLock(w)
        /\ stateCopy' = [stateCopy EXCEPT ![w] = st]
        /\ UNCHANGED <<stateIs, stateFile, history, shown, trimmed>>
    BY <1>2 DEF UpdateBegins
  <2> QED
    BY <2>1, <2>2, LockedKeeps
<1>3. CASE DeltaLocked(w)
  <2> DEFINE st == [ReadState EXCEPT !.deltas = Append(@, w)]
  <2>1. /\ Append(ReadState.deltas, w) \in Seq(Writers)
        /\ ToSet(ReadState.deltas) \subseteq ToSet(Append(ReadState.deltas, w))
        /\ w \in ToSet(Append(ReadState.deltas, w))
    BY <1>1, AppendShows
  <2>2. /\ st \in [updates : SUBSET Writers, deltas : Seq(Writers)]
        /\ st.updates = ReadState.updates /\ st.deltas = Append(ReadState.deltas, w)
    BY <1>1, <2>1
  <2>3. /\ StateGoes(w, "delta", "unlocked") /\ TakeStateLock(w)
        /\ stateCopy' = [stateCopy EXCEPT ![w] = st]
        /\ UNCHANGED <<stateIs, stateFile, history, shown, trimmed>>
    BY <1>3 DEF DeltaLocked
  <2> QED
    BY <2>1, <2>2, <2>3, LockedKeeps
<1> QED
  BY <1>2, <1>3

\* What a write leaves out of a copy is trimmed, so both show what the copy does.
LEMMA TrimmedShows ==
  ASSUME LoopStateInv, NEW w \in Writers, WriteTrimmed(w)
  PROVE  /\ stateIs' = "whole" /\ trimmed' \subseteq Writers
         /\ stateFile' \in [updates : SUBSET Writers, deltas : Seq(Writers)]
         /\ stateFile'.deltas = stateCopy[w].deltas
         /\ stateCopy[w].updates \cup trimmed \subseteq stateFile'.updates \cup trimmed'
<1>1. /\ stateCopy[w] \in [updates : SUBSET Writers, deltas : Seq(Writers)]
      /\ trimmed \subseteq Writers
  BY DEF LoopStateInv, LoopStateTypes
<1>2. PICK cut \in SUBSET stateCopy[w].updates :
        /\ stateIs' = "whole" /\ trimmed' = (trimmed \ stateCopy[w].updates) \cup cut
        /\ stateFile' = [stateCopy[w] EXCEPT !.updates = @ \ cut]
  BY DEF WriteTrimmed
<1>3. /\ stateFile'.updates = stateCopy[w].updates \ cut
      /\ stateFile'.deltas = stateCopy[w].deltas
      /\ stateFile' \in [updates : SUBSET Writers, deltas : Seq(Writers)]
  BY <1>1, <1>2
<1> QED
  BY <1>1, <1>2, <1>3

\* A whole state that was read before is written only while nobody has the
\* lock; it is what the file has, or the file has nothing yet.
LEMMA SaveWholeKeeps ==
  ASSUME LoopStateInv, NEW w \in Writers, SaveWhole(w)
  PROVE  LoopStateInv'
<1> DEFINE a == IF StateStep(w) = "create" THEN StateThen(w) ELSE "idle"
<1>1. /\ a \in StateSteps \ {"update", "delta", "projected"}
      /\ StateStep(w) \notin {"update", "delta", "projected"}
  BY DEF SaveWhole, LoopStateInv, LoopStateTypes, StateOne, StateThen, StateSteps
<1>2. /\ stateLock = NoWriter /\ StateGoes(w, a, "idle") /\ WriteTrimmed(w)
      /\ ForgetCopy(w) /\ UNCHANGED <<stateLock, history, shown>>
  BY DEF SaveWhole
<1>10. /\ stateIs' = "whole" /\ trimmed' \subseteq Writers
      /\ stateFile' \in [updates : SUBSET Writers, deltas : Seq(Writers)]
      /\ stateFile'.deltas = stateCopy[w].deltas
      /\ stateCopy[w].updates \cup trimmed \subseteq stateFile'.updates \cup trimmed'
  BY <1>2, TrimmedShows
<1>3. /\ stateAt' \in [Writers -> StateSteps \X StateSteps]
      /\ StateStep(w)' = a /\ StateThen(w)' = "idle"
      /\ \A v \in Writers \ {w} :
            StateStep(v)' = StateStep(v) /\ StateThen(v)' = StateThen(v)
  BY <1>1, <1>2, StateMoves DEF LoopStateInv, StateSteps
<1>4. stateCopy' \in [Writers -> [updates : SUBSET Writers, deltas : Seq(Writers)]]
  <2>1. DefaultState \in [updates : SUBSET Writers, deltas : Seq(Writers)]
    BY DEF DefaultState
  <2> QED
    BY <1>2, <2>1 DEF ForgetCopy, LoopStateInv, LoopStateTypes
<1>5. LoopStateTypes'
  BY <1>2, <1>10, <1>3, <1>4 DEF LoopStateInv, LoopStateTypes
<1>6. NothingYet'
  BY <1>10 DEF NothingYet
<1>7. \A v \in Writers : StateStep(v) \notin {"update", "delta", "projected"}
  BY <1>2, LoopStateAssumption DEF LoopStateInv, StateOne
<1>8. StateOne'
  BY <1>1, <1>3, <1>7 DEF LoopStateInv, StateOne
<1>9. ASSUME ~overwritten' PROVE CopiesShowAll' /\ ShowsAll(stateFile)'
  <2>1. ~overwritten /\ (stateIs = "missing" \/ stateCopy[w] = stateFile)
    BY <1>9 DEF SaveWhole
  <2>2. ShowsAll(stateCopy[w])
    BY <2>1 DEF LoopStateInv, NothingYet, ShowsAll
  <2>3. ShowsAll(stateFile)'
    BY <1>2, <1>10, <2>2 DEF ShowsAll
  <2>4. CopiesShowAll'
    BY <1>1, <1>3, <1>7 DEF CopiesShowAll
  <2> QED
    BY <2>3, <2>4
<1> QED
  BY <1>5, <1>6, <1>8, <1>9 DEF LoopStateInv

\* What moves to the history leaves the copy, and nothing else does.
LEMMA ArchiveOverflowKeeps ==
  ASSUME LoopStateInv, NEW w \in Writers, ArchiveOverflow(w)
  PROVE  LoopStateInv'
<1> DEFINE ds == stateCopy[w].deltas
           cut == SubSeq(ds, Len(ds) - MaxDeltas + 1, Len(ds))
           gone == {ds[i] : i \in 1 .. (Len(ds) - MaxDeltas)}
<1>1. ds \in Seq(Writers) /\ MaxDeltas \in Nat /\ MaxDeltas < Len(ds) /\ Len(ds) \in Nat
  BY LoopStateAssumption DEF ArchiveOverflow, LoopStateInv, LoopStateTypes
<1>2. cut \in Seq(Writers) /\ ToSet(ds) = gone \cup ToSet(cut)
  BY <1>1, CutKeepsAll
<1>3. /\ history' = history \cup gone
      /\ stateCopy' = [stateCopy EXCEPT ![w].deltas = cut]
      /\ UNCHANGED <<stateIs, stateFile, stateLock, stateAt, shown, trimmed, overwritten>>
  BY DEF ArchiveOverflow
<1>4. /\ stateCopy' \in [Writers -> [updates : SUBSET Writers, deltas : Seq(Writers)]]
      /\ stateCopy'[w].deltas = cut /\ stateCopy'[w].updates = stateCopy[w].updates
      /\ \A v \in Writers \ {w} : stateCopy'[v] = stateCopy[v]
  BY <1>2, <1>3 DEF LoopStateInv, LoopStateTypes
<1>5. gone \subseteq Writers
  <2>1. \A i \in 1 .. Len(ds) : ds[i] \in Writers
    BY <1>1
  <2> QED
    BY <1>1, <2>1
<1>6. LoopStateTypes' /\ NothingYet' /\ StateOne'
  BY <1>3, <1>4, <1>5 DEF LoopStateInv, LoopStateTypes, NothingYet, StateOne, StateStep, StateThen
<1>7. ASSUME ~overwritten PROVE CopiesShowAll' /\ ShowsAll(stateFile)'
  <2>1. CopiesShowAll /\ ShowsAll(stateFile)
    BY <1>7 DEF LoopStateInv
  <2>2. ShowsAll(stateFile)'
    BY <1>3, <2>1 DEF ShowsAll
  <2>3. \A v \in Writers :
           history \cup ToSet(stateCopy[v].deltas) \subseteq history' \cup ToSet(stateCopy'[v].deltas)
    BY <1>2, <1>3, <1>4
  <2>4. \A v \in Writers : stateCopy'[v].updates = stateCopy[v].updates /\ stateAt'[v] = stateAt[v]
    BY <1>3, <1>4
  <2>5. shown' = shown /\ trimmed' = trimmed
    BY <1>3
  <2> QED
    BY <2>1, <2>2, <2>3, <2>4, <2>5 DEF CopiesShowAll, ShowsAll, StateStep
<1> QED
  BY <1>3, <1>6, <1>7 DEF LoopStateInv

\* The file takes what the copy shows, and with it the own update.
LEMMA ReplaceStateKeeps ==
  ASSUME LoopStateInv, NEW w \in Writers, ReplaceState(w)
  PROVE  LoopStateInv'
<1>1. /\ StateStep(w) \in {"update", "delta"} /\ StateGoes(w, "projected", StateThen(w))
      /\ WriteTrimmed(w) /\ ForgetCopy(w) /\ UNCHANGED <<stateLock, history, overwritten>>
  BY DEF ReplaceState
<1>10. /\ stateIs' = "whole" /\ trimmed' \subseteq Writers
      /\ stateFile' \in [updates : SUBSET Writers, deltas : Seq(Writers)]
      /\ stateFile'.deltas = stateCopy[w].deltas
      /\ stateCopy[w].updates \cup trimmed \subseteq stateFile'.updates \cup trimmed'
  BY <1>1, TrimmedShows
<1>2. StateThen(w) \in StateSteps \ {"update", "delta", "projected"}
  BY DEF LoopStateInv, LoopStateTypes, StateOne, StateThen
<1>3. /\ stateAt' \in [Writers -> StateSteps \X StateSteps]
      /\ StateStep(w)' = "projected" /\ StateThen(w)' = StateThen(w)
      /\ \A v \in Writers \ {w} :
            StateStep(v)' = StateStep(v) /\ StateThen(v)' = StateThen(v)
  BY <1>1, <1>2, StateMoves DEF LoopStateInv, StateSteps
<1>4. stateCopy' \in [Writers -> [updates : SUBSET Writers, deltas : Seq(Writers)]]
  <2>1. DefaultState \in [updates : SUBSET Writers, deltas : Seq(Writers)]
    BY DEF DefaultState
  <2> QED
    BY <1>1, <2>1 DEF ForgetCopy, LoopStateInv, LoopStateTypes
<1>5. /\ shown' \in [{"updates", "deltas"} -> SUBSET Writers]
      /\ StateStep(w) = "update" => /\ shown'["updates"] = shown["updates"] \cup {w}
                                    /\ shown'["deltas"] = shown["deltas"]
      /\ StateStep(w) = "delta" => /\ shown'["updates"] = shown["updates"]
                                   /\ shown'["deltas"] = shown["deltas"] \cup {w}
  BY <1>1 DEF ReplaceState, LoopStateInv, LoopStateTypes
<1>6. LoopStateTypes' /\ NothingYet'
  BY <1>1, <1>10, <1>3, <1>4, <1>5 DEF LoopStateInv, LoopStateTypes, NothingYet
<1>7. \A v \in Writers \ {w} : StateStep(v) \notin {"update", "delta", "projected"}
  BY <1>1 DEF LoopStateInv, StateOne
<1>8. StateOne'
  BY <1>1, <1>2, <1>3 DEF LoopStateInv, StateOne
<1>9. ASSUME ~overwritten PROVE CopiesShowAll' /\ ShowsAll(stateFile)'
  <2>1. CopiesShowAll
    BY <1>9 DEF LoopStateInv
  <2>2. ShowsAll(stateFile)'
    BY <1>1, <1>10, <1>5, <2>1 DEF CopiesShowAll, ShowsAll
  <2>3. CopiesShowAll'
    BY <1>3, <1>7 DEF CopiesShowAll
  <2> QED
    BY <2>2, <2>3
<1> QED
  BY <1>1, <1>6, <1>8, <1>9 DEF LoopStateInv

\* The lock is let go by whoever is past its write, or dead.
LEMMA LetGoKeeps ==
  ASSUME LoopStateInv, NEW w \in Writers, ReleaseState(w) \/ WriterDies(w)
  PROVE  LoopStateInv'
<1>1. PICK b \in {StateThen(w), "idle"} : StateGoes(w, b, "idle")
  BY DEF ReleaseState, WriterDies
<1>2. /\ b \in StateSteps \ {"update", "delta", "projected"}
      /\ stateLock' = (IF stateLock = w THEN NoWriter ELSE stateLock)
      /\ UNCHANGED <<stateIs, stateFile, history, shown, trimmed, overwritten>>
      /\ ForgetCopy(w) \/ UNCHANGED stateCopy
  BY <1>1 DEF ReleaseState, WriterDies, LoopStateInv, LoopStateTypes, StateOne, StateThen, StateSteps
<1>3. /\ stateAt' \in [Writers -> StateSteps \X StateSteps]
      /\ StateStep(w)' = b /\ StateThen(w)' = "idle"
      /\ \A v \in Writers \ {w} :
            StateStep(v)' = StateStep(v) /\ StateThen(v)' = StateThen(v)
  BY <1>1, <1>2, StateMoves DEF LoopStateInv, StateSteps
<1>4. /\ stateCopy' \in [Writers -> [updates : SUBSET Writers, deltas : Seq(Writers)]]
      /\ \A v \in Writers \ {w} : stateCopy'[v] = stateCopy[v]
  <2>1. DefaultState \in [updates : SUBSET Writers, deltas : Seq(Writers)]
    BY DEF DefaultState
  <2>2. CASE ForgetCopy(w)
    BY <2>1, <2>2 DEF ForgetCopy, LoopStateInv, LoopStateTypes
  <2>3. CASE UNCHANGED stateCopy
    BY <2>3 DEF LoopStateInv, LoopStateTypes
  <2> QED
    BY <1>2, <2>2, <2>3
<1>5. LoopStateTypes' /\ NothingYet'
  BY <1>2, <1>3, <1>4 DEF LoopStateInv, LoopStateTypes, NothingYet
<1>6. StateOne'
  BY <1>2, <1>3 DEF LoopStateInv, StateOne
<1>7. ASSUME ~overwritten PROVE CopiesShowAll' /\ ShowsAll(stateFile)'
  BY <1>2, <1>3, <1>4, <1>7 DEF LoopStateInv, CopiesShowAll, ShowsAll
<1> QED
  BY <1>2, <1>5, <1>6, <1>7 DEF LoopStateInv

LEMMA LoopStateStepKeeps ==
  ASSUME LoopStateInv, [LoopStateNext]_loopStateVars
  PROVE  LoopStateInv'
<1>1. CASE UNCHANGED loopStateVars
  BY <1>1 DEF loopStateVars, LoopStateInv, LoopStateTypes, StateOne, StateStep, StateThen,
              CopiesShowAll, NothingYet, ShowsAll
<1>2. CASE StateEdited
  BY <1>2 DEF StateEdited, LoopStateInv, LoopStateTypes, StateOne, StateStep, StateThen,
              CopiesShowAll, NothingYet, ShowsAll
<1>3. CASE LoopStateNext /\ ~StateEdited
  BY <1>3, OutsideStepsKeep, LockedStepsKeep, SaveWholeKeeps, ArchiveOverflowKeeps,
     ReplaceStateKeeps, LetGoKeeps DEF LoopStateNext
<1> QED
  BY <1>1, <1>2, <1>3

\* Only the copy of whoever appends a delta has one more than the cap.
FewDeltas ==
    /\ stateLock \in Writers \cup {NoWriter} /\ overwritten \in BOOLEAN
    /\ Len(stateFile.deltas) <= MaxDeltas
    /\ \A w \in Writers :
          \/ Len(stateCopy[w].deltas) <= MaxDeltas
          \/ StateStep(w) = "delta" /\ Len(stateCopy[w].deltas) <= MaxDeltas + 1

LEMMA FewDeltasInit == LoopStateInit => FewDeltas
<1> SUFFICES ASSUME LoopStateInit PROVE FewDeltas
  OBVIOUS
<1>1. overwritten \in BOOLEAN /\ stateLock \in Writers \cup {NoWriter}
  BY DEF LoopStateInit
<1>2. Len(DefaultState.deltas) <= MaxDeltas
  BY LoopStateAssumption DEF DefaultState
<1> QED
  BY <1>1, <1>2 DEF LoopStateInit, FewDeltas

LEMMA FewDeltasStay ==
  ASSUME LoopStateInv, FewDeltas, [LoopStateNext]_loopStateVars
  PROVE  FewDeltas'
<1>1. overwritten' \in BOOLEAN
  <2>1. CASE UNCHANGED overwritten
    BY <2>1 DEF FewDeltas
  <2>2. CASE ~ UNCHANGED overwritten
    <3>1. PICK w \in Writers : UpdateBegins(w) \/ DeltaLocked(w) \/ SaveWhole(w)
      BY <2>2 DEF LoopStateNext, loopStateVars, DeltaBegins, LoadWhole, ArchiveOverflow,
                  ReplaceState, ReleaseState, AppendHistory, WriterDies, StateEdited
    <3> QED
      BY <3>1 DEF UpdateBegins, DeltaLocked, SaveWhole, TakeStateLock
  <2> QED
    BY <2>1, <2>2
<1>2. CASE UNCHANGED <<stateFile, stateLock, stateAt, stateCopy>>
  BY <1>1, <1>2 DEF FewDeltas, StateStep
<1>3. ASSUME NEW w \in Writers, stateLock' \in Writers \cup {NoWriter},
             Len(stateFile'.deltas) <= MaxDeltas,
             \/ Len(stateCopy'[w].deltas) <= MaxDeltas
             \/ StateStep(w)' = "delta" /\ Len(stateCopy'[w].deltas) <= MaxDeltas + 1,
             \A v \in Writers \ {w} : stateCopy'[v] = stateCopy[v] /\ StateStep(v)' = StateStep(v)
      PROVE  FewDeltas'
  BY <1>1, <1>3 DEF FewDeltas
<1>4. /\ ReadState \in [updates : SUBSET Writers, deltas : Seq(Writers)]
      /\ Len(ReadState.deltas) <= MaxDeltas /\ Len(DefaultState.deltas) <= MaxDeltas
  <2>1. Len(DefaultState.deltas) = 0
    BY DEF DefaultState
  <2>2. Len(DefaultState.deltas) <= MaxDeltas /\ Len(stateFile.deltas) <= MaxDeltas
    BY <2>1, LoopStateAssumption DEF FewDeltas
  <2>3. ReadState = stateFile \/ ReadState = DefaultState
    BY DEF ReadState
  <2> QED
    BY <2>2, <2>3, ReadStateType
<1>5. ASSUME NEW w \in Writers
      PROVE  StateStep(w) # "delta" => Len(stateCopy[w].deltas) <= MaxDeltas
  BY DEF FewDeltas
<1>6. stateLock \in Writers \cup {NoWriter} /\ Len(stateFile.deltas) <= MaxDeltas
  BY DEF FewDeltas
<1>7. ASSUME NEW w \in Writers, NEW st, NEW a, NEW b,
             stateCopy' = [stateCopy EXCEPT ![w] = st], StateGoes(w, a, b)
      PROVE  /\ stateCopy'[w] = st /\ StateStep(w)' = a
             /\ \A v \in Writers \ {w} :
                   stateCopy'[v] = stateCopy[v] /\ StateStep(v)' = StateStep(v)
  BY <1>7 DEF LoopStateInv, LoopStateTypes, StateGoes, StateStep
<1>8. ASSUME NEW w \in Writers, NEW a, NEW b, stateCopy' = stateCopy, StateGoes(w, a, b)
      PROVE  /\ stateCopy'[w] = stateCopy[w]
             /\ \A v \in Writers \ {w} :
                   stateCopy'[v] = stateCopy[v] /\ StateStep(v)' = StateStep(v)
  BY <1>8 DEF LoopStateInv, LoopStateTypes, StateGoes, StateStep
<1>9. ASSUME NEW w \in Writers, UpdateBegins(w) PROVE FewDeltas'
  <2> DEFINE st == [ReadState EXCEPT !.updates = @ \cup {w}]
  <2>1. Len(st.deltas) <= MaxDeltas
    BY <1>4
  <2> HIDE DEF st
  <2>2. stateCopy' = [stateCopy EXCEPT ![w] = st] /\ StateGoes(w, "update", "idle")
    BY <1>9 DEF UpdateBegins, st
  <2>3. stateLock' = w /\ stateFile' = stateFile
    BY <1>9 DEF UpdateBegins, TakeStateLock
  <2>4. /\ stateCopy'[w] = st
        /\ \A v \in Writers \ {w} : stateCopy'[v] = stateCopy[v] /\ StateStep(v)' = StateStep(v)
    BY <1>7, <2>2
  <2> QED
    BY <1>3, <1>6, <2>1, <2>3, <2>4
<1>10. ASSUME NEW w \in Writers, DeltaLocked(w) PROVE FewDeltas'
  <2> DEFINE st == [ReadState EXCEPT !.deltas = Append(@, w)]
  <2>1. Len(st.deltas) <= MaxDeltas + 1
    BY <1>4, LoopStateAssumption
  <2> HIDE DEF st
  <2>2. stateCopy' = [stateCopy EXCEPT ![w] = st] /\ StateGoes(w, "delta", "unlocked")
    BY <1>10 DEF DeltaLocked, st
  <2>3. stateLock' = w /\ stateFile' = stateFile
    BY <1>10 DEF DeltaLocked, TakeStateLock
  <2>4. /\ stateCopy'[w] = st /\ StateStep(w)' = "delta"
        /\ \A v \in Writers \ {w} : stateCopy'[v] = stateCopy[v] /\ StateStep(v)' = StateStep(v)
    BY <1>7, <2>2
  <2> QED
    BY <1>3, <1>6, <2>1, <2>3, <2>4
<1>11. ASSUME NEW w \in Writers, DeltaBegins(w) \/ ReleaseState(w) \/ AppendHistory(w)
       PROVE FewDeltas'
  <2>1. PICK a \in {"create", "wantDelta", "idle", StateThen(w)}, b \in {"wantDelta", "idle"} :
           StateGoes(w, a, b)
    BY <1>11 DEF DeltaBegins, ReleaseState, AppendHistory
  <2>2. stateCopy' = stateCopy /\ stateFile' = stateFile /\ StateStep(w) # "delta"
    BY <1>11 DEF DeltaBegins, ReleaseState, AppendHistory
  <2>3. stateLock' \in Writers \cup {NoWriter}
    BY <1>6, <1>11 DEF DeltaBegins, ReleaseState, AppendHistory
  <2>4. /\ stateCopy'[w] = stateCopy[w]
        /\ \A v \in Writers \ {w} : stateCopy'[v] = stateCopy[v] /\ StateStep(v)' = StateStep(v)
    BY <1>8, <2>1, <2>2
  <2> QED
    BY <1>3, <1>5, <1>6, <2>2, <2>3, <2>4
<1>12. ASSUME NEW w \in Writers, LoadWhole(w) PROVE FewDeltas'
  <2>1. PICK a \in {"create", "save"} : StateGoes(w, a, "save")
    BY <1>12 DEF LoadWhole
  <2>2. stateCopy' = [stateCopy EXCEPT ![w] = ReadState]
    BY <1>12 DEF LoadWhole
  <2>3. stateLock' = stateLock /\ stateFile' = stateFile
    BY <1>12 DEF LoadWhole
  <2>4. /\ stateCopy'[w] = ReadState
        /\ \A v \in Writers \ {w} : stateCopy'[v] = stateCopy[v] /\ StateStep(v)' = StateStep(v)
    BY <1>7, <2>1, <2>2
  <2> QED
    BY <1>3, <1>4, <1>6, <2>3, <2>4
<1>13. ASSUME NEW w \in Writers, SaveWhole(w) \/ ReplaceState(w) \/ WriterDies(w)
       PROVE FewDeltas'
  <2>1. PICK a \in {StateThen(w), "idle", "projected"}, b \in {StateThen(w), "idle"} :
           StateGoes(w, a, b)
    BY <1>13 DEF SaveWhole, ReplaceState, WriterDies
  <2>2. stateCopy' = [stateCopy EXCEPT ![w] = DefaultState]
    BY <1>13 DEF SaveWhole, ReplaceState, WriterDies, ForgetCopy
  <2>3. stateLock' \in Writers \cup {NoWriter}
    BY <1>6, <1>13 DEF SaveWhole, ReplaceState, WriterDies
  <2>4. /\ stateCopy'[w] = DefaultState
        /\ \A v \in Writers \ {w} : stateCopy'[v] = stateCopy[v] /\ StateStep(v)' = StateStep(v)
    BY <1>7, <2>1, <2>2
  <2>5. Len(stateFile'.deltas) <= MaxDeltas
    <3>1. CASE SaveWhole(w)
      BY <1>5, <3>1, TrimmedShows DEF SaveWhole
    <3>2. CASE ReplaceState(w)
      BY <3>2, TrimmedShows DEF ReplaceState
    <3>3. CASE WriterDies(w)
      BY <1>6, <3>3 DEF WriterDies
    <3> QED
      BY <1>13, <3>1, <3>2, <3>3
  <2> QED
    BY <1>3, <1>4, <2>3, <2>4, <2>5
<1>14. ASSUME NEW w \in Writers, ArchiveOverflow(w) PROVE FewDeltas'
  <2> DEFINE ds == stateCopy[w].deltas
             cut == SubSeq(ds, Len(ds) - MaxDeltas + 1, Len(ds))
  <2>1. ds \in Seq(Writers) /\ MaxDeltas \in Nat /\ MaxDeltas < Len(ds) /\ Len(ds) \in Nat
    BY <1>14, LoopStateAssumption DEF ArchiveOverflow, LoopStateInv, LoopStateTypes
  <2>2. Len(cut) = MaxDeltas
    BY <2>1
  <2>3. /\ stateCopy' = [stateCopy EXCEPT ![w].deltas = cut]
        /\ UNCHANGED <<stateFile, stateLock, stateAt>>
    BY <1>14 DEF ArchiveOverflow
  <2> HIDE DEF cut
  <2>4. /\ stateCopy'[w].deltas = cut /\ \A v \in Writers \ {w} : stateCopy'[v] = stateCopy[v]
    BY <2>3 DEF LoopStateInv, LoopStateTypes
  <2>5. Len(stateCopy'[w].deltas) <= MaxDeltas
    BY <2>1, <2>2, <2>4
  <2> QED
    BY <1>3, <1>6, <2>3, <2>4, <2>5 DEF StateStep
<1>15. StateEdited => UNCHANGED <<stateFile, stateLock, stateAt, stateCopy>>
  BY DEF StateEdited
<1>16. CASE UNCHANGED loopStateVars
  BY <1>2, <1>16 DEF loopStateVars
<1>17. CASE LoopStateNext
  BY <1>2, <1>9, <1>10, <1>11, <1>12, <1>13, <1>14, <1>15, <1>17 DEF LoopStateNext
<1> QED
  BY <1>16, <1>17

\* A list that is no longer than the cap is one of those that TLC counts.
LEMMA ShortListsAreBounded ==
  ASSUME NEW s \in Seq(Writers), Len(s) <= MaxDeltas + 1
  PROVE  s \in BoundedSeq(Writers, MaxDeltas + 1)
<1>1. Len(s) \in 0 .. MaxDeltas + 1 /\ s \in [1 .. Len(s) -> Writers]
  BY LoopStateAssumption
<1> QED
  BY <1>1 DEF BoundedSeq, SeqOf

LEMMA LoopStateTyped == LoopStateInv /\ FewDeltas => LoopStateTypeOK
<1> SUFFICES ASSUME LoopStateInv, FewDeltas PROVE LoopStateTypeOK
  OBVIOUS
<1>1. ASSUME NEW st \in [updates : SUBSET Writers, deltas : Seq(Writers)],
             Len(st.deltas) <= MaxDeltas + 1
      PROVE  st \in LoopStates
  BY <1>1, ShortListsAreBounded DEF LoopStates
<1>2. MaxDeltas \in Nat
  BY LoopStateAssumption
<1>3. stateFile \in LoopStates
  <2>1. stateFile \in [updates : SUBSET Writers, deltas : Seq(Writers)]
    BY DEF LoopStateInv, LoopStateTypes
  <2>2. Len(stateFile.deltas) \in Nat /\ Len(stateFile.deltas) <= MaxDeltas
    BY <2>1 DEF FewDeltas
  <2> QED
    BY <1>1, <1>2, <2>1, <2>2
<1>4. ASSUME NEW w \in Writers PROVE stateCopy[w] \in LoopStates
  <2>1. stateCopy[w] \in [updates : SUBSET Writers, deltas : Seq(Writers)]
    BY DEF LoopStateInv, LoopStateTypes
  <2>2. Len(stateCopy[w].deltas) \in Nat
    BY <2>1
  <2>3. Len(stateCopy[w].deltas) <= MaxDeltas + 1
    BY <1>2, <2>2 DEF FewDeltas
  <2> QED
    BY <1>1, <2>1, <2>3
<1>5. stateCopy \in [Writers -> LoopStates]
  BY <1>4 DEF LoopStateInv, LoopStateTypes
<1> QED
  BY <1>3, <1>5 DEF LoopStateInv, LoopStateTypes, FewDeltas, LoopStateTypeOK

----------------------------------------------------------------------------
(* The audit log.                                                           *)

AuditTypes ==
    /\ journal \in Seq(Auditors) /\ Len(journal) <= MaxEntries
    /\ markdown \in Seq(Auditors) /\ Len(markdown) <= MaxEntries
    /\ journalTorn \in BOOLEAN
    /\ auditLock \in Auditors \cup {NoAuditor}
    /\ auditAt \in [Auditors -> {"idle", "save", "md", "returned"}]
    /\ seenJournal \in [Auditors -> Seq(Auditors)]
    /\ \A a \in Auditors : Len(seenJournal[a]) <= MaxEntries
    /\ entryId \in [Auditors -> 0 .. MaxEntries]

\* Whoever is between its load and its markdown has the lock, and what it
\* loaded is the journal.
AuditOne ==
    \A a \in Auditors :
        /\ auditAt[a] \in {"save", "md"} => auditLock = a
        /\ auditAt[a] = "save" => seenJournal[a] = journal

AuditInv == AuditTypes /\ AuditOne /\ EntriesStay

LEMMA AuditInitInv == AuditInit => AuditInv
<1>1. <<>> \in Seq(Auditors) /\ Len(<<>>) = 0
  OBVIOUS
<1> SUFFICES ASSUME AuditInit PROVE AuditInv
  OBVIOUS
<1>2. journalTorn \in BOOLEAN
  BY DEF AuditInit
<1>3. journal = <<>> /\ markdown = <<>> /\ \A a \in Auditors : seenJournal[a] = <<>>
  BY DEF AuditInit
<1>4. AuditTypes
  BY <1>1, <1>2, <1>3, AuditAssumption DEF AuditInit, AuditTypes
<1> QED
  BY <1>4 DEF AuditInit, AuditInv, AuditOne, EntriesStay

\* A sequence that grows keeps what it has.
LEMMA AppendKeeps ==
  ASSUME NEW S, NEW s \in Seq(S), NEW e \in S
  PROVE  /\ Append(s, e) \in Seq(S) /\ Len(Append(s, e)) = Len(s) + 1 /\ Len(s) \in Nat
         /\ \A i \in 1 .. Len(s) : Append(s, e)[i] = s[i]
         /\ Append(s, e)[Len(s) + 1] = e
OBVIOUS

LEMMA ReplaceJournalKeeps ==
  ASSUME AuditInv, NEW a \in Auditors, ReplaceJournal(a)
  PROVE  AuditInv'
<1>1. /\ auditAt[a] = "save" /\ seenJournal[a] = journal /\ auditLock = a
      /\ journal' = Append(journal, a) /\ Len(journal') <= MaxEntries
      /\ entryId' = [entryId EXCEPT ![a] = Len(journal')]
      /\ auditAt' = [auditAt EXCEPT ![a] = "md"]
      /\ UNCHANGED <<markdown, auditLock, seenJournal>>
  BY DEF ReplaceJournal, AuditGoes, AuditInv, AuditOne
<1>2. /\ journal' \in Seq(Auditors) /\ Len(journal') = Len(journal) + 1 /\ Len(journal) \in Nat
      /\ \A i \in 1 .. Len(journal) : journal'[i] = journal[i]
      /\ journal'[Len(journal) + 1] = a
  BY <1>1, AppendKeeps DEF AuditInv, AuditTypes
<1>3. journalTorn' \in BOOLEAN
  BY DEF ReplaceJournal
<1>4. /\ entryId' \in [Auditors -> 0 .. MaxEntries]
      /\ auditAt' \in [Auditors -> {"idle", "save", "md", "returned"}]
  BY <1>1, <1>2, AuditAssumption DEF AuditInv, AuditTypes
<1>5. AuditTypes'
  BY <1>1, <1>2, <1>3, <1>4 DEF AuditInv, AuditTypes
<1>6. AuditOne'
  <2>1. \A b \in Auditors \ {a} : auditAt[b] \notin {"save", "md"}
    BY <1>1 DEF AuditInv, AuditOne
  <2> QED
    BY <1>1, <2>1 DEF AuditInv, AuditTypes, AuditOne
<1>7. EntriesStay'
  <2> SUFFICES ASSUME NEW b \in Auditors, entryId'[b] # 0
               PROVE  entryId'[b] <= Len(journal') /\ journal'[entryId'[b]] = b
    BY DEF EntriesStay
  <2>1. CASE b = a
    BY <1>1, <1>2, <2>1 DEF AuditInv, AuditTypes
  <2>2. CASE b # a
    <3>1. entryId'[b] = entryId[b] /\ entryId[b] \in Nat
      BY <1>1, <2>2, AuditAssumption DEF AuditInv, AuditTypes
    <3>2. entryId[b] <= Len(journal) /\ journal[entryId[b]] = b
      BY <3>1 DEF AuditInv, EntriesStay
    <3> QED
      BY <1>2, <3>1, <3>2
  <2> QED
    BY <2>1, <2>2
<1> QED
  BY <1>5, <1>6, <1>7 DEF AuditInv

LEMMA WriteMarkdownKeeps ==
  ASSUME AuditInv, NEW a \in Auditors, WriteMarkdown(a)
  PROVE  AuditInv'
<1> DEFINE n == Len(journal)
           m == IF n > MdTail THEN n - MdTail + 1 ELSE 1
<1>1. /\ n \in Nat /\ m \in 1 .. n + 1 /\ n <= MaxEntries /\ journal \in Seq(Auditors)
  BY AuditAssumption DEF AuditInv, AuditTypes
<1>2. SubSeq(journal, m, n) \in Seq(Auditors) /\ Len(SubSeq(journal, m, n)) <= MaxEntries
  <2>1. /\ \A i \in m .. n : journal[i] \in Auditors
        /\ Len(SubSeq(journal, m, n)) = (IF m <= n THEN n - m + 1 ELSE 0)
    BY <1>1
  <2> HIDE DEF m
  <2> QED
    BY <1>1, <2>1, AuditAssumption
<1>3. markdown' = SubSeq(journal, m, n)
  BY DEF WriteMarkdown
<1> HIDE DEF m, n
<1>4. /\ auditLock' = NoAuditor /\ auditAt' = [auditAt EXCEPT ![a] = "returned"]
      /\ auditAt[a] = "md"
      /\ UNCHANGED <<journal, journalTorn, seenJournal, entryId>>
  BY DEF WriteMarkdown, AuditGoes
<1> QED
  BY <1>2, <1>3, <1>4 DEF AuditInv, AuditTypes, AuditOne, EntriesStay

LEMMA AuditNextKeeps ==
  ASSUME AuditInv, AuditNext
  PROVE  AuditInv'
<1> USE AuditAssumption DEF AuditInv, AuditTypes, AuditOne, EntriesStay, AuditGoes
<1>1. ASSUME NEW a \in Auditors, LoadJournal(a) PROVE AuditInv'
  BY <1>1 DEF LoadJournal
<1>2. ASSUME NEW a \in Auditors, LoadTorn(a) PROVE AuditInv'
  BY <1>2 DEF LoadTorn
<1>3. ASSUME NEW a \in Auditors, AuditAgain(a) PROVE AuditInv'
  BY <1>3 DEF AuditAgain
<1>4. ASSUME NEW a \in Auditors, AuditorDies(a) PROVE AuditInv'
  BY <1>4 DEF AuditorDies
<1>5. CASE JournalTears
  <2>1. journalTorn' \in BOOLEAN
    BY <1>5 DEF JournalTears
  <2> QED
    BY <1>5, <2>1 DEF JournalTears
<1> QED
  BY <1>1, <1>2, <1>3, <1>4, <1>5, ReplaceJournalKeeps, WriteMarkdownKeeps DEF AuditNext

LEMMA AuditStepKeeps ==
  ASSUME AuditInv, [AuditNext]_auditVars
  PROVE  AuditInv'
<1>1. CASE AuditNext
  BY <1>1, AuditNextKeeps
<1>2. CASE UNCHANGED auditVars
  BY <1>2 DEF auditVars, AuditInv, AuditTypes, AuditOne, EntriesStay
<1> QED
  BY <1>1, <1>2

\* A short sequence is one of those BoundedSeq counts.
LEMMA ShortOnesAreBounded ==
  ASSUME NEW S, NEW n \in Nat, NEW s \in Seq(S), Len(s) <= n
  PROVE  s \in BoundedSeq(S, n)
<1>1. Len(s) \in 0 .. n /\ s \in [1 .. Len(s) -> S]
  OBVIOUS
<1>2. [1 .. Len(s) -> S] \in {[1 .. m -> S] : m \in 0 .. n}
  BY <1>1
<1> QED
  BY <1>1, <1>2 DEF BoundedSeq, SeqOf

LEMMA AuditTyped == AuditInv => AuditTypeOK
BY ShortOnesAreBounded, AuditAssumption DEF AuditInv, AuditTypes, AuditTypeOK, Journals

----------------------------------------------------------------------------
(* The performance ledger.                                                  *)

LedgerTypes ==
    /\ ledgerLock \in Keepers \cup {NoKeeper}
    /\ keeperAt \in [Keepers -> {"idle", "append", "view", "line"}]
    /\ loaded \in [Keepers -> Seq(Records)]
    /\ cycles \in Seq(Records) /\ view \in Seq(Records) /\ saved \in Seq(Records)
    /\ lines \in 0 .. Window
    /\ tornLedger \in BOOLEAN /\ crashed \in BOOLEAN

\* Whoever is past its load has the lock, and what it loaded is the ledger;
\* one that does not parse is nobody's while it is being rendered.
LedgerOne ==
    \A k \in Keepers :
        /\ keeperAt[k] # "idle" => ledgerLock = k
        /\ keeperAt[k] = "append" =>
              loaded[k] = (IF tornLedger THEN <<>> ELSE cycles)

\* The view lags only while somebody is between the ledger and its view.
ViewIsCurrent ==
    ~crashed => view = cycles \/ \E k \in Keepers : keeperAt[k] = "view"

LedgerInv ==
    /\ LedgerTypes /\ LedgerOne /\ ViewIsCurrent
    /\ cycles = LastOnes(saved)

\* The last n of a sequence.
LEMMA TailOf ==
  ASSUME NEW S, NEW s \in Seq(S), NEW n \in 0 .. Len(s)
  PROVE  /\ SubSeq(s, Len(s) - n + 1, Len(s)) \in Seq(S)
         /\ Len(SubSeq(s, Len(s) - n + 1, Len(s))) = n
         /\ \A i \in 1 .. n : SubSeq(s, Len(s) - n + 1, Len(s))[i] = s[Len(s) - n + i]
<1> DEFINE m == Len(s) - n + 1
<1>1. Len(s) \in Nat /\ n \in Nat /\ n <= Len(s) /\ m \in 1 .. Len(s) + 1
  OBVIOUS
<1>2. \A i \in m .. Len(s) : s[i] \in S
  BY <1>1
<1>3. /\ SubSeq(s, m, Len(s)) \in Seq(S)
      /\ Len(SubSeq(s, m, Len(s))) = (IF m <= Len(s) THEN Len(s) - m + 1 ELSE 0)
      /\ \A i \in 1 .. Len(s) - m + 1 : SubSeq(s, m, Len(s))[i] = s[m + i - 1]
  <2> HIDE DEF m
  <2> QED
    BY <1>1, <1>2, SubSeqProperties
<1>4. \A i \in 1 .. n : m + i - 1 = Len(s) - n + i
  BY <1>1
<1>5. Len(s) - m + 1 = n /\ (m <= Len(s) <=> n # 0)
  BY <1>1
<1> HIDE DEF m
<1>6. /\ SubSeq(s, m, Len(s)) \in Seq(S) /\ Len(SubSeq(s, m, Len(s))) = n
      /\ \A i \in 1 .. n : SubSeq(s, m, Len(s))[i] = s[Len(s) - n + i]
  BY <1>1, <1>3, <1>4, <1>5
<1> QED
  BY <1>6 DEF m

\* What is cut is the end of the sequence, never longer than the window.
LEMMA LastOnesAre ==
  ASSUME NEW S, NEW s \in Seq(S)
  PROVE  /\ LastOnes(s) \in Seq(S) /\ Len(LastOnes(s)) <= Window
         /\ Len(LastOnes(s)) = IF Len(s) < Window THEN Len(s) ELSE Window
         /\ \A i \in 1 .. Len(LastOnes(s)) :
               LastOnes(s)[i] = s[Len(s) - Len(LastOnes(s)) + i]
<1>0. Len(s) \in Nat /\ Window \in Nat
  BY LedgerAssumption
<1> DEFINE n == IF Len(s) < Window THEN Len(s) ELSE Window
<1>1. n \in 0 .. Len(s) /\ n <= Window
  BY <1>0
<1>2. LastOnes(s) = SubSeq(s, Len(s) - n + 1, Len(s))
  BY DEF LastOnes
<1>3. n = IF Len(s) < Window THEN Len(s) ELSE Window
  OBVIOUS
<1> HIDE DEF n
<1>4. /\ LastOnes(s) \in Seq(S) /\ Len(LastOnes(s)) = n
      /\ \A i \in 1 .. n : LastOnes(s)[i] = s[Len(s) - n + i]
  BY <1>1, <1>2, TailOf
<1>5. /\ Len(LastOnes(s)) <= Window
      /\ Len(LastOnes(s)) = IF Len(s) < Window THEN Len(s) ELSE Window
  BY <1>1, <1>3, <1>4
<1>6. \A i \in 1 .. Len(LastOnes(s)) : LastOnes(s)[i] = s[Len(s) - Len(LastOnes(s)) + i]
  BY <1>4
<1> QED
  BY <1>4, <1>5, <1>6

\* Cutting before the next is appended loses nothing.
LEMMA LastOnesAppend ==
  ASSUME NEW S, NEW s \in Seq(S), NEW e \in S
  PROVE  LastOnes(Append(LastOnes(s), e)) = LastOnes(Append(s, e))
<1> DEFINE p  == LastOnes(s)
           ps == Append(p, e)
           ss == Append(s, e)
           a  == LastOnes(ps)
           b  == LastOnes(ss)
<1>1. /\ p \in Seq(S) /\ Len(p) = IF Len(s) < Window THEN Len(s) ELSE Window
      /\ \A i \in 1 .. Len(p) : p[i] = s[Len(s) - Len(p) + i]
  BY LastOnesAre
<1> HIDE DEF p
<1>w. /\ Len(p) \in Nat /\ Len(s) \in Nat /\ Window \in Nat \ {0}
  BY <1>1, LedgerAssumption
<1>2. /\ ps \in Seq(S) /\ Len(ps) = Len(p) + 1
      /\ \A i \in 1 .. Len(p) : ps[i] = p[i]
      /\ ps[Len(p) + 1] = e
  BY <1>1
<1>3. /\ ss \in Seq(S) /\ Len(ss) = Len(s) + 1
      /\ \A i \in 1 .. Len(s) : ss[i] = s[i]
      /\ ss[Len(s) + 1] = e
  OBVIOUS
<1>h. LastOnes(Append(LastOnes(s), e)) = a /\ LastOnes(Append(s, e)) = b
  BY DEF p
<1> HIDE DEF ps, ss
<1>4. /\ a \in Seq(S) /\ Len(a) = IF Len(ps) < Window THEN Len(ps) ELSE Window
      /\ \A i \in 1 .. Len(a) : a[i] = ps[Len(ps) - Len(a) + i]
  BY <1>2, LastOnesAre
<1>5. /\ b \in Seq(S) /\ Len(b) = IF Len(ss) < Window THEN Len(ss) ELSE Window
      /\ \A i \in 1 .. Len(b) : b[i] = ss[Len(ss) - Len(b) + i]
  BY <1>3, LastOnesAre
<1> HIDE DEF a, b
<1>a. Len(p) <= Window /\ (Len(p) < Window => Len(p) = Len(s)) /\ Len(p) <= Len(s)
  BY <1>1, <1>w
<1>6. Len(a) = Len(b) /\ Len(a) \in Nat /\ Len(a) <= Len(p) + 1 /\ Len(b) <= Len(s) + 1
  BY <1>2, <1>3, <1>4, <1>5, <1>a, <1>w
<1>7. ASSUME NEW i \in 1 .. Len(a) PROVE a[i] = b[i]
  <2> DEFINE j == Len(p) + 1 - Len(a) + i
             k == Len(s) + 1 - Len(a) + i
  <2>1. /\ j \in 1 .. Len(p) + 1 /\ k \in 1 .. Len(s) + 1
        /\ k = Len(s) - Len(p) + j /\ (j = Len(p) + 1 <=> k = Len(s) + 1)
    <3>1. i \in Nat /\ 1 <= i /\ i <= Len(a)
      BY <1>6, <1>7
    <3> QED
      BY <1>6, <1>w, <1>a, <3>1
  <2>2. a[i] = ps[j] /\ b[i] = ss[k]
    <3>1. /\ Len(ps) - Len(a) + i = j /\ Len(ss) - Len(b) + i = k
          /\ i \in 1 .. Len(b)
      BY <1>2, <1>3, <1>6, <1>7
    <3> QED
      BY <1>4, <1>5, <1>7, <3>1
  <2> HIDE DEF j, k
  <2>3. CASE j = Len(p) + 1
    BY <1>2, <1>3, <2>1, <2>2, <2>3
  <2>4. CASE j # Len(p) + 1
    <3>1. j \in 1 .. Len(p) /\ k \in 1 .. Len(s)
      BY <1>w, <2>1, <2>4
    <3>2. p[j] = s[k]
      BY <1>1, <2>1, <3>1
    <3> QED
      BY <3>2, <1>2, <1>3, <2>2, <3>1
  <2> QED
    BY <2>3, <2>4
<1>8. a = b
  BY <1>4, <1>5, <1>6, <1>7, SeqEqual
<1> QED
  BY <1>8, <1>h

LEMMA LedgerInitInv == LedgerInit => LedgerInv
<1> SUFFICES ASSUME LedgerInit PROVE LedgerInv
  OBVIOUS
<1>1. tornLedger \in BOOLEAN /\ crashed \in BOOLEAN
  BY DEF LedgerInit
<1>2. <<>> \in Seq(Records) /\ LastOnes(<<>>) = <<>>
  BY LedgerAssumption DEF LastOnes
<1>3. LedgerTypes
  BY <1>1, <1>2, LedgerAssumption DEF LedgerInit, LedgerTypes
<1>4. cycles = LastOnes(saved) /\ view = cycles
  BY <1>2 DEF LedgerInit
<1> QED
  BY <1>3, <1>4 DEF LedgerInit, LedgerInv, LedgerOne, ViewIsCurrent

LEMMA SaveLedgerKeeps ==
  ASSUME LedgerInv, NEW k \in Keepers, SaveLedger(k)
  PROVE  LedgerInv'
<1> DEFINE record == IF saved = <<>> THEN 1 ELSE saved[Len(saved)] + 1
<1>1. /\ keeperAt[k] = "append" /\ keeperAt' = [keeperAt EXCEPT ![k] = "view"]
      /\ saved # <<>> => saved[Len(saved)] < MaxCycles
      /\ cycles' = LastOnes(Append(loaded[k], record))
      /\ saved' = IF tornLedger THEN <<record>> ELSE Append(saved, record)
      /\ UNCHANGED <<ledgerLock, loaded, view, lines, crashed>>
  BY DEF SaveLedger, KeeperGoes
<1>a. tornLedger' \in BOOLEAN
  BY DEF SaveLedger
<1>2. ledgerLock = k /\ loaded[k] = (IF tornLedger THEN <<>> ELSE LastOnes(saved))
  BY <1>1 DEF LedgerInv, LedgerOne
<1>3. record \in Records
  <2>1. CASE saved = <<>>
    BY <2>1, LedgerAssumption DEF Records
  <2>2. CASE saved # <<>>
    <3>1. saved \in Seq(1 .. MaxCycles)
      BY DEF LedgerInv, LedgerTypes, Records
    <3>5. \A q \in Seq(1 .. MaxCycles) : q # <<>> => Len(q) \in Nat \ {0}
      BY EmptySeq
    <3>2. Len(saved) \in 1 .. Len(saved)
      BY <2>2, <3>1, <3>5
    <3>3. saved[Len(saved)] \in 1 .. MaxCycles
      BY <3>1, <3>2, ElementOfSeq
    <3>4. saved[Len(saved)] < MaxCycles /\ record = saved[Len(saved)] + 1
      BY <1>1, <2>2
    <3> HIDE DEF record
    <3> QED
      BY <3>3, <3>4, LedgerAssumption DEF Records
  <2> QED
    BY <2>1, <2>2
<1>4. /\ saved' \in Seq(Records) /\ cycles' = LastOnes(saved')
      /\ cycles' \in Seq(Records)
  <2>1. saved \in Seq(Records) /\ Append(saved, record) \in Seq(Records)
    BY <1>3 DEF LedgerInv, LedgerTypes
  <2>2. Append(<<>>, record) = <<record>> /\ <<record>> \in Seq(Records)
    BY <1>3
  <2> HIDE DEF record
  <2>3. CASE tornLedger
    BY <1>1, <1>2, <2>2, <2>3, LastOnesAre
  <2>4. CASE ~tornLedger
    <3>1. cycles' = LastOnes(Append(LastOnes(saved), record)) /\ saved' = Append(saved, record)
      BY <1>1, <1>2, <2>4
    <3>2. LastOnes(Append(LastOnes(saved), record)) = LastOnes(Append(saved, record))
      BY <2>1, <1>3, LastOnesAppend
    <3>3. LastOnes(Append(saved, record)) \in Seq(Records)
      BY <2>1, LastOnesAre
    <3> QED
      BY <2>1, <3>1, <3>2, <3>3
  <2> QED
    BY <2>3, <2>4
<1> HIDE DEF record
<1>5. keeperAt' \in [Keepers -> {"idle", "append", "view", "line"}] /\ keeperAt'[k] = "view"
  BY <1>1 DEF LedgerInv, LedgerTypes
<1>6. LedgerTypes'
  BY <1>1, <1>a, <1>4, <1>5 DEF LedgerInv, LedgerTypes
<1>7. LedgerOne'
  <2>1. \A j \in Keepers \ {k} : keeperAt[j] = "idle"
    BY <1>2, LedgerAssumption DEF LedgerInv, LedgerOne
  <2> QED
    BY <1>1, <1>2, <1>5, <2>1 DEF LedgerInv, LedgerTypes, LedgerOne
<1> QED
  BY <1>4, <1>5, <1>6, <1>7 DEF LedgerInv, ViewIsCurrent

LEMMA LedgerNextKeeps ==
  ASSUME LedgerInv, LedgerNext
  PROVE  LedgerInv'
<1> USE LedgerAssumption DEF LedgerInv, LedgerOne, ViewIsCurrent, KeeperGoes
<1>1. ASSUME NEW k \in Keepers, LedgerBegins(k) PROVE LedgerInv'
  <2>1. \A j \in Keepers : keeperAt[j] = "idle"
    BY <1>1 DEF LedgerBegins
  <2>2. <<>> \in Seq(Records)
    OBVIOUS
  <2>3. LedgerTypes'
    BY <1>1, <2>2 DEF LedgerBegins, LoadLedger, LedgerTypes
  <2>4. LedgerOne'
    BY <1>1, <2>1 DEF LedgerBegins, LoadLedger, LedgerTypes
  <2> QED
    BY <1>1, <2>1, <2>3, <2>4 DEF LedgerBegins
<1>2. ASSUME NEW k \in Keepers, SkipLedger(k) PROVE LedgerInv'
  BY <1>2 DEF SkipLedger, LedgerTypes
<1>3. ASSUME NEW k \in Keepers, RenderView(k) PROVE LedgerInv'
  BY <1>3 DEF RenderView, LedgerTypes
<1>4. ASSUME NEW k \in Keepers, ProposalLine(k) PROVE LedgerInv'
  BY <1>4 DEF ProposalLine, LedgerTypes, GivesBack
<1>5. ASSUME NEW k \in Keepers, KeeperDies(k) PROVE LedgerInv'
  <2>1. crashed' \in BOOLEAN /\ (~crashed' => ~crashed /\ keeperAt[k] # "view")
    BY <1>5 DEF KeeperDies, LedgerTypes
  <2>2. /\ keeperAt' = [keeperAt EXCEPT ![k] = "idle"] /\ GivesBack(k)
        /\ UNCHANGED <<loaded, cycles, view, lines, tornLedger, saved>>
    BY <1>5 DEF KeeperDies
  <2>3. LedgerTypes'
    BY <2>1, <2>2 DEF LedgerTypes, GivesBack
  <2>4. LedgerOne'
    BY <2>2 DEF LedgerTypes, GivesBack
  <2>5. ViewIsCurrent'
    BY <2>1, <2>2 DEF LedgerTypes
  <2> QED
    BY <2>2, <2>3, <2>4, <2>5
<1>6. CASE LedgerTorn
  <2>1. tornLedger' \in BOOLEAN /\ \A j \in Keepers : keeperAt[j] = "idle"
    BY <1>6 DEF LedgerTorn
  <2> QED
    BY <1>6, <2>1 DEF LedgerTorn, LedgerTypes
<1> QED
  BY <1>1, <1>2, <1>3, <1>4, <1>5, <1>6, SaveLedgerKeeps DEF LedgerNext

LEMMA LedgerStepKeeps ==
  ASSUME LedgerInv, [LedgerNext]_ledgerVars
  PROVE  LedgerInv'
<1>1. CASE LedgerNext
  BY <1>1, LedgerNextKeeps
<1>2. CASE UNCHANGED ledgerVars
  BY <1>2 DEF ledgerVars, LedgerInv, LedgerTypes, LedgerOne, ViewIsCurrent
<1> QED
  BY <1>1, <1>2

LEMMA LedgerShows == LedgerInv => LedgerIsTail /\ LedgerTypeOK
<1> SUFFICES ASSUME LedgerInv PROVE LedgerIsTail /\ LedgerTypeOK
  OBVIOUS
<1>1. ledgerLock = NoKeeper => \A k \in Keepers : keeperAt[k] = "idle"
  BY LedgerAssumption DEF LedgerInv, LedgerOne
<1>2. LedgerIsTail
  BY <1>1 DEF LedgerInv, LedgerIsTail, ViewIsCurrent
<1>3. Len(cycles) <= Window
  BY LastOnesAre DEF LedgerInv, LedgerTypes
<1> QED
  BY <1>2, <1>3 DEF LedgerInv, LedgerTypes, LedgerTypeOK

----------------------------------------------------------------------------
(* The playbooks.                                                           *)

\* What a list of bullets teaches.
Teaches(bullets) == {bullets[i].lesson : i \in DOMAIN bullets}

LEMMA LearnTeaches ==
  ASSUME NEW bullets \in Seq(Bullet), NEW lesson \in Lessons
  PROVE  /\ Learn(bullets, lesson) \in Seq(Bullet)
         /\ Teaches(Learn(bullets, lesson)) = Teaches(bullets) \cup {lesson}
<1>1. CASE \E b \in ToSet(bullets) : b.lesson = lesson
  <2> DEFINE raised(i) == [bullets[i] EXCEPT !.effect = IF @ >= 18 THEN 20 ELSE @ + 2]
             more == [i \in DOMAIN bullets |-> IF bullets[i].lesson = lesson
                        THEN raised(i) ELSE bullets[i]]
  <2>1. Learn(bullets, lesson) = more
    BY <1>1 DEF Learn
  <2>2. ASSUME NEW i \in DOMAIN bullets
        PROVE  raised(i) \in Bullet /\ raised(i).lesson = bullets[i].lesson /\ bullets[i] \in Bullet
    <3>1. bullets[i] \in Bullet
      BY <2>2
    <3>2. /\ bullets[i].effect \in 2 .. 20
          /\ (IF bullets[i].effect >= 18 THEN 20 ELSE bullets[i].effect + 2) \in 2 .. 20
      BY <3>1 DEF Bullet
    <3> QED
      BY <3>1, <3>2 DEF Bullet
  <2> HIDE DEF raised
  <2>3. /\ DOMAIN bullets = 1 .. Len(bullets) /\ Len(bullets) \in Nat
        /\ \A i \in DOMAIN bullets : more[i] \in Bullet /\ more[i].lesson = bullets[i].lesson
    BY <2>2
  <2>4. more \in [1 .. Len(bullets) -> Bullet] /\ DOMAIN more = DOMAIN bullets
    BY <2>3
  <2> HIDE DEF more
  <2>5. more \in Seq(Bullet)
    BY <2>3, <2>4
  <2>6. Teaches(more) = Teaches(bullets)
    BY <2>3, <2>4 DEF Teaches
  <2>7. lesson \in Teaches(bullets)
    BY <1>1 DEF Teaches, ToSet
  <2> QED
    BY <2>1, <2>5, <2>6, <2>7
<1>2. CASE ~ \E b \in ToSet(bullets) : b.lesson = lesson
  <2> DEFINE new == [lesson |-> lesson, effect |-> 13]
  <2>1. new \in Bullet /\ new.lesson = lesson
    BY DEF Bullet
  <2>2. Learn(bullets, lesson) = Append(bullets, new)
    BY <1>2 DEF Learn
  <2> HIDE DEF new
  <2>3. /\ Append(bullets, new) \in Seq(Bullet) /\ DOMAIN bullets = 1 .. Len(bullets)
        /\ DOMAIN Append(bullets, new) = 1 .. Len(bullets) + 1 /\ Len(bullets) \in Nat
        /\ \A i \in 1 .. Len(bullets) : Append(bullets, new)[i] = bullets[i]
        /\ Append(bullets, new)[Len(bullets) + 1] = new
    BY <2>1
  <2>4. 1 .. Len(bullets) + 1 = 1 .. Len(bullets) \cup {Len(bullets) + 1}
    BY <2>3
  <2> QED
    BY <2>1, <2>2, <2>3, <2>4 DEF Teaches
<1> QED
  BY <1>1, <1>2

LEMMA DemoteTeaches ==
  ASSUME NEW bullets \in Seq(Bullet), NEW bad
  PROVE  Demote(bullets, bad) \in Seq(Bullet) /\ Teaches(Demote(bullets, bad)) = Teaches(bullets)
<1> DEFINE lowered(i) == [bullets[i] EXCEPT !.effect = IF @ <= 5 THEN 2 ELSE @ - 3]
           less == [i \in DOMAIN bullets |-> IF bullets[i].lesson \in bad
                      THEN lowered(i) ELSE bullets[i]]
<1>1. Demote(bullets, bad) = less
  BY DEF Demote
<1>2. ASSUME NEW i \in DOMAIN bullets
      PROVE  lowered(i) \in Bullet /\ lowered(i).lesson = bullets[i].lesson /\ bullets[i] \in Bullet
  <2>1. bullets[i] \in Bullet
    BY <1>2
  <2>2. /\ bullets[i].effect \in 2 .. 20
        /\ (IF bullets[i].effect <= 5 THEN 2 ELSE bullets[i].effect - 3) \in 2 .. 20
    BY <2>1 DEF Bullet
  <2> QED
    BY <2>1, <2>2 DEF Bullet
<1> HIDE DEF lowered
<1>3. /\ DOMAIN bullets = 1 .. Len(bullets) /\ Len(bullets) \in Nat
      /\ \A i \in DOMAIN bullets : less[i] \in Bullet /\ less[i].lesson = bullets[i].lesson
  BY <1>2
<1>4. less \in [1 .. Len(bullets) -> Bullet] /\ DOMAIN less = DOMAIN bullets
  BY <1>3
<1> HIDE DEF less
<1>5. less \in Seq(Bullet)
  BY <1>3, <1>4
<1>6. Teaches(less) = Teaches(bullets)
  BY <1>3, <1>4 DEF Teaches
<1> QED
  BY <1>1, <1>5, <1>6

\* Every place has its bullet: as many are better than it as come before it.
LEMMA PlacesAreTaken ==
  ASSUME NEW bullets \in Seq(Bullet), NEW i \in DOMAIN bullets
  PROVE  \E j \in DOMAIN bullets :
            Cardinality({k \in DOMAIN bullets : Better(bullets, k, j)}) = i - 1
<1> DEFINE D == DOMAIN bullets
           n == Len(bullets)
           Above(j) == {k \in D : Better(bullets, k, j)}
           place == [j \in D |-> Cardinality(Above(j))]
<1>1. D = 1 .. n /\ n \in Nat /\ i \in 1 .. n /\ \A j \in D : bullets[j].effect \in Int
  <2>1. D = 1 .. n /\ n \in Nat /\ \A j \in D : bullets[j] \in Bullet
    OBVIOUS
  <2>2. \A b \in Bullet : b.effect \in Int
    BY DEF Bullet
  <2> QED
    BY <2>1, <2>2
<1>2. IsFiniteSet(D) /\ Cardinality(D) = n
  <2>1. 1 \in Int /\ n \in Int /\ (IF 1 > n THEN 0 ELSE n - 1 + 1) = n
    BY <1>1
  <2> HIDE DEF n
  <2>2. IsFiniteSet(1 .. n) /\ Cardinality(1 .. n) = IF 1 > n THEN 0 ELSE n - 1 + 1
    BY <2>1, FS_Interval
  <2> QED
    BY <1>1, <2>1, <2>2
<1>3. IsFiniteSet(0 .. n - 1) /\ Cardinality(0 .. n - 1) = n
  <2> DEFINE m == n - 1
  <2>1. 0 \in Int /\ m \in Int /\ (IF 0 > m THEN 0 ELSE m - 0 + 1) = n
    BY <1>1
  <2> HIDE DEF m
  <2>2. IsFiniteSet(0 .. m) /\ Cardinality(0 .. m) = IF 0 > m THEN 0 ELSE m - 0 + 1
    BY <2>1, FS_Interval
  <2> QED
    BY <2>1, <2>2 DEF m
<1>4. ASSUME NEW j \in D PROVE IsFiniteSet(Above(j)) /\ Cardinality(Above(j)) \in 0 .. n - 1
  <2>1. Above(j) \subseteq D \ {j}
    BY <1>1 DEF Better
  <2>2. IsFiniteSet(D \ {j}) /\ Cardinality(D \ {j}) = n - 1
    BY <1>2, FS_RemoveElement
  <2>3. /\ IsFiniteSet(Above(j)) /\ Cardinality(Above(j)) <= Cardinality(D \ {j})
        /\ Cardinality(Above(j)) \in Nat
    <3> HIDE DEF Above
    <3> QED
      BY <2>1, <2>2, FS_Subset, FS_CardinalityType
  <2> QED
    BY <1>1, <2>2, <2>3
<1>5. ASSUME NEW j \in D, NEW m \in D, Better(bullets, j, m)
      PROVE  Cardinality(Above(j)) # Cardinality(Above(m))
  <2>1. Above(j) \subseteq Above(m)
    BY <1>1, <1>5 DEF Better
  <2>2. j \in Above(m) /\ j \notin Above(j)
    BY <1>1, <1>5 DEF Better
  <2> HIDE DEF Above
  <2>3. Above(m) # Above(j)
    BY <2>2
  <2>4. Cardinality(Above(m)) = Cardinality(Above(j)) => Above(m) = Above(j)
    BY <1>4, <2>1, FS_Subset
  <2> QED
    BY <2>3, <2>4
<1>6. ASSUME NEW j \in D, NEW m \in D, j # m
      PROVE  Better(bullets, j, m) \/ Better(bullets, m, j)
  BY <1>1, <1>6 DEF Better
<1>7. place \in Injection(D, 0 .. n - 1)
  <2>1. place \in [D -> 0 .. n - 1]
    BY <1>4
  <2>2. ASSUME NEW j \in D, NEW m \in D, j # m PROVE place[j] # place[m]
    BY <1>5, <1>6, <2>2
  <2> QED
    BY <2>1, <2>2 DEF Injection, IsInjective
<1>8. place \in Surjection(D, 0 .. n - 1)
  <2> HIDE DEF place
  <2> QED
    BY <1>2, <1>3, <1>7, FS_Injection
<1>9. i - 1 \in 0 .. n - 1
  BY <1>1
<1>10. PICK j \in D : place[j] = i - 1
  BY <1>8, <1>9 DEF Surjection
<1> QED
  BY <1>10

LEMMA LimitTeaches ==
  ASSUME NEW bullets \in Seq(Bullet)
  PROVE  Limit(bullets) \in Seq(Bullet) /\ Teaches(Limit(bullets)) \subseteq Teaches(bullets)
<1> DEFINE ranked == Ranked(bullets)
           n == IF Len(bullets) < KeptBullets THEN Len(bullets) ELSE KeptBullets
<1>1. /\ DOMAIN bullets = 1 .. Len(bullets) /\ Len(bullets) \in Nat
      /\ \A i \in 1 .. Len(bullets) : bullets[i] \in Bullet
  OBVIOUS
<1>2. ASSUME NEW i \in DOMAIN bullets
      PROVE  \E j \in DOMAIN bullets : ranked[i] = bullets[j]
  <2> DEFINE At == CHOOSE j \in DOMAIN bullets :
                     Cardinality({k \in DOMAIN bullets : Better(bullets, k, j)}) = i - 1
  <2>1. At \in DOMAIN bullets
    BY PlacesAreTaken
  <2>2. ranked[i] = bullets[At]
    BY DEF Ranked
  <2> QED
    BY <2>1, <2>2
<1>3. DOMAIN ranked = DOMAIN bullets /\ ranked = [i \in DOMAIN bullets |-> ranked[i]]
  BY DEF Ranked
<1> HIDE DEF ranked
<1>4. ranked \in Seq(Bullet) /\ Len(ranked) = Len(bullets)
  <2>1. ranked \in [1 .. Len(bullets) -> Bullet]
    BY <1>1, <1>2, <1>3
  <2> QED
    BY <1>1, <2>1
<1>5. n \in 0 .. Len(bullets)
  BY <1>1, PlaybooksAssumption
<1> HIDE DEF n
<1>6. /\ SubSeq(ranked, 1, n) \in Seq(Bullet) /\ Len(SubSeq(ranked, 1, n)) = n
      /\ \A i \in 1 .. n : SubSeq(ranked, 1, n)[i] = ranked[i]
  <2>1. \A i \in 1 .. n : ranked[i] \in Bullet
    BY <1>1, <1>4, <1>5
  <2> QED
    BY <1>1, <1>5, <2>1, SubSeqProperties
<1>7. Teaches(SubSeq(ranked, 1, n)) \subseteq Teaches(bullets)
  <2>1. DOMAIN SubSeq(ranked, 1, n) = 1 .. n
    BY <1>6
  <2>2. ASSUME NEW i \in 1 .. n PROVE SubSeq(ranked, 1, n)[i].lesson \in Teaches(bullets)
    <3>1. i \in DOMAIN bullets
      BY <1>1, <1>5
    <3> QED
      BY <1>2, <1>6, <3>1 DEF Teaches
  <2> QED
    BY <2>1, <2>2 DEF Teaches
<1> QED
  BY <1>6, <1>7 DEF Limit, ranked, n

\* An index: a list of bullets for each of some names.
Indexes == UNION {[S -> Seq(Bullet)] : S \in SUBSET Names}

PbTypes ==
    /\ pbLock \in Curators \cup {NoCurator}
    /\ curatorAt \in [Curators -> {"idle", "curate", "views", "items", "hub", "mixed hub"}]
    /\ books \in Indexes /\ views \in Indexes /\ draft \in [Curators -> Indexes]
    /\ tornBooks \in BOOLEAN /\ hubWhole \in BOOLEAN /\ staleViews \in BOOLEAN
    /\ curations \in 0 .. MaxCurations
    /\ taught \subseteq Names \X (Lessons \cup {SeedLesson})

\* Whoever changes the index has the lock, and its draft is the index.
PbOne ==
    \A c \in Curators : curatorAt[c] \in {"curate", "views"} =>
        pbLock = c /\ draft[c] = books /\ ~tornBooks

\* The views lag while somebody renders them.
ViewsLag ==
    /\ tornBooks => staleViews
    /\ ~staleViews => views = books \/ \E c \in Curators : curatorAt[c] = "views"

PbInv == PbTypes /\ PbOne /\ ViewsLag /\ Held(books) = taught

\* What an index holds, name by name.
LEMMA HeldByName ==
  ASSUME NEW b \in Indexes
  PROVE  /\ Held(b) = UNION {{m} \X Teaches(b[m]) : m \in DOMAIN b}
         /\ Held(b) \subseteq Names \X (Lessons \cup {SeedLesson})
         /\ DOMAIN b \subseteq Names /\ \A m \in DOMAIN b : b[m] \in Seq(Bullet)
<1>1. PICK S \in SUBSET Names : b \in [S -> Seq(Bullet)]
  BY DEF Indexes
<1>2. DOMAIN b \subseteq Names /\ \A m \in DOMAIN b : b[m] \in Seq(Bullet)
  BY <1>1
<1>3. Held(b) = UNION {{m} \X Teaches(b[m]) : m \in DOMAIN b}
  BY DEF Held, Teaches
<1>4. \A m \in DOMAIN b : Teaches(b[m]) \subseteq Lessons \cup {SeedLesson}
  <2> SUFFICES ASSUME NEW m \in DOMAIN b, NEW i \in DOMAIN b[m]
               PROVE  b[m][i].lesson \in Lessons \cup {SeedLesson}
    BY DEF Teaches
  <2>1. b[m] \in Seq(Bullet)
    BY <1>2
  <2>2. b[m][i] \in Bullet
    BY <2>1
  <2> QED
    BY <2>2 DEF Bullet
<1> QED
  BY <1>2, <1>3, <1>4

\* To put another list under a name changes what is held under it.
LEMMA ShelveHolds ==
  ASSUME NEW b \in Indexes, NEW n \in Names, NEW bullets \in Seq(Bullet)
  PROVE  /\ Shelve(b, n, bullets) \in Indexes
         /\ Held(Shelve(b, n, bullets)) =
              {x \in Held(b) : x[1] # n} \cup ({n} \X Teaches(bullets))
<1> DEFINE s == Shelve(b, n, bullets)
<1>1. DOMAIN b \subseteq Names /\ \A m \in DOMAIN b : b[m] \in Seq(Bullet)
  BY HeldByName
<1>2. /\ DOMAIN s = DOMAIN b \cup {n} /\ s[n] = bullets
      /\ \A m \in DOMAIN b \ {n} : s[m] = b[m]
  BY DEF Shelve
<1>3. s \in [DOMAIN b \cup {n} -> Seq(Bullet)]
  BY <1>1 DEF Shelve
<1>4. s \in Indexes
  BY <1>1, <1>3 DEF Indexes
<1> HIDE DEF s
<1>5. Held(s) = UNION {{m} \X Teaches(s[m]) : m \in DOMAIN s}
  BY <1>4, HeldByName
<1>6. Held(b) = UNION {{m} \X Teaches(b[m]) : m \in DOMAIN b}
  BY HeldByName
<1>7. ASSUME NEW x \in Held(s)
      PROVE  x \in {y \in Held(b) : y[1] # n} \cup ({n} \X Teaches(bullets))
  <2>1. PICK m \in DOMAIN s : x \in {m} \X Teaches(s[m])
    BY <1>5
  <2>2. CASE m = n
    BY <1>2, <2>1, <2>2
  <2>3. CASE m # n
    <3>1. m \in DOMAIN b /\ s[m] = b[m] /\ x[1] = m
      BY <1>2, <2>1, <2>3
    <3> QED
      BY <1>6, <2>1, <2>3, <3>1
  <2> QED
    BY <2>2, <2>3
<1>8. ASSUME NEW x \in Held(b), x[1] # n PROVE x \in Held(s)
  <2>1. PICK m \in DOMAIN b : x \in {m} \X Teaches(b[m])
    BY <1>6
  <2>2. m # n /\ m \in DOMAIN s /\ s[m] = b[m]
    BY <1>2, <1>8, <2>1
  <2> QED
    BY <1>5, <2>1, <2>2
<1>9. {n} \X Teaches(bullets) \subseteq Held(s)
  <2>1. n \in DOMAIN s /\ s[n] = bullets
    BY <1>2
  <2> QED
    BY <1>5, <2>1
<1>10. Held(s) = {x \in Held(b) : x[1] # n} \cup ({n} \X Teaches(bullets))
  BY <1>7, <1>8, <1>9
<1> QED
  BY <1>4, <1>10 DEF s

LEMMA NothingHeld == Empty \in Indexes /\ Held(Empty) = {} /\ DOMAIN Empty = {}
<1>1. Empty \in [{} -> Seq(Bullet)] /\ DOMAIN Empty = {}
  BY DEF Empty
<1>2. Empty \in Indexes
  BY <1>1 DEF Indexes
<1> QED
  BY <1>1, <1>2 DEF Held

\* What is under a name is what the index holds there.
LEMMA BookTeaches ==
  ASSUME NEW b \in Indexes, NEW n \in Names
  PROVE  /\ Book(b, n) \in Seq(Bullet)
         /\ \A l : <<n, l>> \in Held(b) <=> l \in Teaches(Book(b, n))
<1>1. /\ Held(b) = UNION {{m} \X Teaches(b[m]) : m \in DOMAIN b}
      /\ \A m \in DOMAIN b : b[m] \in Seq(Bullet)
  BY HeldByName
<1>2. CASE n \in DOMAIN b
  BY <1>1, <1>2 DEF Book
<1>3. CASE n \notin DOMAIN b
  <2>1. Book(b, n) = <<>> /\ <<>> \in Seq(Bullet) /\ Teaches(<<>>) = {}
    BY <1>3 DEF Book, Teaches
  <2>2. \A l : <<n, l>> \notin Held(b)
    BY <1>1, <1>3
  <2> QED
    BY <2>1, <2>2
<1> QED
  BY <1>2, <1>3

LEMMA PbInitInv == PbInit => PbInv
<1> SUFFICES ASSUME PbInit PROVE PbInv
  OBVIOUS
<1>1. tornBooks \in BOOLEAN /\ hubWhole \in BOOLEAN /\ staleViews \in BOOLEAN /\ ~tornBooks
  BY DEF PbInit
<1>2. books = Empty /\ views = Empty /\ taught = {} /\ \A c \in Curators : draft[c] = Empty
  BY DEF PbInit
<1>3. draft \in [Curators -> Indexes]
  BY NothingHeld DEF PbInit
<1>4. PbTypes
  BY <1>1, <1>2, <1>3, NothingHeld, PlaybooksAssumption DEF PbInit, PbTypes
<1>5. PbOne /\ ViewsLag /\ Held(books) = taught
  BY <1>1, <1>2, NothingHeld DEF PbInit, PbOne, ViewsLag
<1> QED
  BY <1>4, <1>5 DEF PbInv

\* A curation: the index holds what was taught, but for what the limit dropped.
LEMMA CurateKeeps ==
  ASSUME PbInv, NEW c \in Curators, NEW n \in Names, NEW learnt \in {{}} \cup {{l} : l \in Lessons},
         NEW bad \in SUBSET Lessons, Curate(c, n, learnt, bad)
  PROVE  PbInv'
<1> DEFINE old == Book(draft[c], n)
           grown == IF learnt = {} THEN old ELSE Learn(old, CHOOSE l \in learnt : TRUE)
           demoted == Demote(grown, bad)
           after == Limit(demoted)
           index == Shelve(draft[c], n, after)
<1>1. /\ curatorAt[c] = "curate" /\ curatorAt' = [curatorAt EXCEPT ![c] = "views"]
      /\ books' = index /\ draft' = [draft EXCEPT ![c] = index]
      /\ taught' = (taught \cup ({n} \X learnt))
                     \ (Held(Shelve(Empty, n, grown)) \ Held(Shelve(Empty, n, after)))
      /\ curations < MaxCurations /\ curations' = curations + 1
      /\ UNCHANGED <<pbLock, views, hubWhole, staleViews>>
  BY DEF Curate, CuratorGoes
<1>2. tornBooks' \in BOOLEAN /\ ~tornBooks'
  BY DEF Curate
<1>3. pbLock = c /\ draft[c] = books /\ books \in Indexes /\ draft[c] \in Indexes
  BY <1>1 DEF PbInv, PbOne, PbTypes
<1>4. old \in Seq(Bullet) /\ \A l : <<n, l>> \in Held(books) <=> l \in Teaches(old)
  BY <1>3, BookTeaches
<1> HIDE DEF old
<1>5. grown \in Seq(Bullet) /\ Teaches(grown) = Teaches(old) \cup learnt
  <2>1. CASE learnt = {}
    BY <1>4, <2>1
  <2>2. CASE learnt # {}
    <3>1. PICK l \in Lessons : learnt = {l}
      BY <2>2
    <3>2. (CHOOSE k \in learnt : TRUE) = l
      BY <3>1
    <3> QED
      BY <1>4, <2>2, <3>1, <3>2, LearnTeaches
  <2> QED
    BY <2>1, <2>2
<1> HIDE DEF grown
<1>6. demoted \in Seq(Bullet) /\ Teaches(demoted) = Teaches(grown)
  BY <1>5, DemoteTeaches
<1> HIDE DEF demoted
<1>7. after \in Seq(Bullet) /\ Teaches(after) \subseteq Teaches(grown)
  BY <1>6, LimitTeaches
<1> HIDE DEF after
<1>8. /\ index \in Indexes
      /\ Held(index) = {x \in Held(books) : x[1] # n} \cup ({n} \X Teaches(after))
  BY <1>3, <1>7, ShelveHolds
<1> HIDE DEF index
<1>9. /\ Held(Shelve(Empty, n, grown)) = {n} \X Teaches(grown)
      /\ Held(Shelve(Empty, n, after)) = {n} \X Teaches(after)
  <2>1. {x \in Held(Empty) : x[1] # n} = {}
    BY NothingHeld
  <2> QED
    BY <1>5, <1>7, <2>1, NothingHeld, ShelveHolds
<1>10. taught = Held(books) /\ Held(books) \subseteq Names \X (Lessons \cup {SeedLesson})
  BY <1>3, HeldByName DEF PbInv
<1>11. taught' = Held(index)
  <2>1. ASSUME NEW x \in Held(index) PROVE x \in taught'
    <3>1. CASE x \in Held(books) /\ x[1] # n
      BY <1>1, <1>9, <1>10, <3>1
    <3>2. CASE x \in {n} \X Teaches(after)
      <4>1. PICK l \in Teaches(after) : x = <<n, l>>
        BY <3>2
      <4>2. l \in Teaches(old) \/ l \in learnt
        BY <1>5, <1>7
      <4>3. x \in taught \cup ({n} \X learnt)
        BY <1>4, <1>10, <4>1, <4>2
      <4> QED
        BY <1>1, <1>9, <3>2, <4>3
    <3> QED
      BY <1>8, <3>1, <3>2
  <2>2. ASSUME NEW x \in taught' PROVE x \in Held(index)
    <3>1. x \in taught \cup ({n} \X learnt)
      BY <1>1
    <3>2. x \notin ({n} \X Teaches(grown)) \ ({n} \X Teaches(after))
      BY <1>1, <1>9
    <3>3. CASE x \in taught /\ x[1] # n
      BY <1>8, <1>10, <3>3
    <3>4. CASE x \in taught /\ x[1] = n
      <4>1. x = <<n, x[2]>>
        BY <1>10, <3>4
      <4>2. x[2] \in Teaches(old)
        BY <1>4, <1>10, <3>4, <4>1
      <4>3. x \in {n} \X Teaches(grown)
        BY <1>5, <4>1, <4>2
      <4> QED
        BY <1>8, <3>2, <4>3
    <3>5. CASE x \in {n} \X learnt
      <4>1. x \in {n} \X Teaches(grown)
        BY <1>5, <3>5
      <4> QED
        BY <1>8, <3>2, <4>1
    <3> QED
      BY <3>1, <3>3, <3>4, <3>5
  <2> QED
    BY <2>1, <2>2
<1>12. taught' \subseteq Names \X (Lessons \cup {SeedLesson})
  BY <1>8, <1>11, HeldByName
<1>13. /\ curatorAt'[c] = "views" /\ draft'[c] = index
       /\ \A d \in Curators \ {c} : curatorAt'[d] = curatorAt[d] /\ draft'[d] = draft[d]
       /\ draft' \in [Curators -> Indexes]
       /\ curatorAt' \in [Curators -> {"idle", "curate", "views", "items", "hub", "mixed hub"}]
  BY <1>1, <1>8 DEF PbInv, PbTypes
<1>14. curations' \in 0 .. MaxCurations
  <2>1. curations \in 0 .. MaxCurations /\ MaxCurations \in Nat
    BY PlaybooksAssumption DEF PbInv, PbTypes
  <2>2. curations < MaxCurations /\ curations' = curations + 1
    BY <1>1
  <2> QED
    BY <2>1, <2>2
<1>15. PbTypes'
  BY <1>1, <1>2, <1>8, <1>12, <1>13, <1>14 DEF PbInv, PbTypes
<1>16. PbOne'
  BY <1>1, <1>2, <1>3, <1>13 DEF PbInv, PbOne
<1>17. ViewsLag'
  BY <1>2, <1>13 DEF ViewsLag
<1> QED
  BY <1>1, <1>11, <1>15, <1>16, <1>17 DEF PbInv

LEMMA SeedKeeps ==
  ASSUME PbInv, NEW c \in Curators, Seed(c)
  PROVE  PbInv'
<1> DEFINE new == <<[lesson |-> SeedLesson, effect |-> 18]>>
           has == "seeded" \in DOMAIN draft[c]
           index == IF has THEN draft[c] ELSE Shelve(draft[c], "seeded", new)
<1>1. /\ curatorAt[c] = "curate" /\ WriteBooks(c, index)
      /\ taught' = IF has THEN taught ELSE taught \cup {<<"seeded", SeedLesson>>}
      /\ UNCHANGED <<views, hubWhole, curations, staleViews>>
  BY DEF Seed
<1>2. pbLock = c /\ draft[c] = books /\ ~tornBooks /\ books \in Indexes
  BY <1>1 DEF PbInv, PbOne, PbTypes
<1>3. new \in Seq(Bullet) /\ Teaches(new) = {SeedLesson}
  <2> DEFINE b == [lesson |-> SeedLesson, effect |-> 18]
  <2>1. b \in Bullet /\ b.lesson = SeedLesson
    BY DEF Bullet
  <2> HIDE DEF b
  <2>2. <<b>> \in Seq(Bullet) /\ DOMAIN <<b>> = {1} /\ <<b>>[1] = b
    BY <2>1
  <2>3. Teaches(<<b>>) = {SeedLesson}
    BY <2>1, <2>2 DEF Teaches
  <2> QED
    BY <2>2, <2>3 DEF b
<1> HIDE DEF new
<1>4. index \in Indexes /\ Held(index) = taught'
  <2>1. CASE has
    BY <1>1, <1>2, <2>1 DEF PbInv
  <2>2. CASE ~has
    <3>1. /\ index \in Indexes
          /\ Held(index) = {x \in Held(books) : x[1] # "seeded"} \cup ({"seeded"} \X Teaches(new))
      BY <1>2, <1>3, <2>2, ShelveHolds DEF Names
    <3>2. \A x \in Held(books) : x[1] # "seeded"
      <4>1. Held(books) = UNION {{m} \X Teaches(books[m]) : m \in DOMAIN books}
        BY <1>2, HeldByName
      <4> QED
        BY <1>2, <2>2, <4>1
    <3>3. Held(index) = Held(books) \cup {<<"seeded", SeedLesson>>}
      BY <1>3, <3>1, <3>2
    <3> QED
      BY <1>1, <2>2, <3>1, <3>3 DEF PbInv
  <2> QED
    BY <2>1, <2>2
<1> HIDE DEF index, has
<1>5. books' = index
  BY <1>1 DEF WriteBooks
<1>6. tornBooks' \in BOOLEAN /\ ~tornBooks'
  BY <1>1 DEF WriteBooks
<1>7. taught' \subseteq Names \X (Lessons \cup {SeedLesson})
  BY <1>4, HeldByName
<1>8. CASE books = index /\ views # Empty
  <2>1. /\ curatorAt' = [curatorAt EXCEPT ![c] = "idle"] /\ pbLock' = NoCurator
        /\ draft' = [draft EXCEPT ![c] = Empty] /\ books' = books
    BY <1>1, <1>2, <1>5, <1>8 DEF WriteBooks, CuratorGoes, Unlock, DropDraft
  <2>2. PbTypes'
    BY <1>1, <1>4, <1>5, <1>6, <1>7, <2>1, NothingHeld DEF PbInv, PbTypes
  <2>3. \A d \in Curators : curatorAt'[d] \in {"curate", "views"} => d # c /\ curatorAt[d] = curatorAt'[d]
    BY <2>1 DEF PbInv, PbTypes
  <2>4. PbOne'
    BY <1>2, <2>3 DEF PbInv, PbOne
  <2>5. \A d \in Curators \ {c} : curatorAt'[d] = curatorAt[d]
    BY <2>1 DEF PbInv, PbTypes
  <2>6. ViewsLag'
    BY <1>1, <1>6, <2>1, <2>5 DEF PbInv, ViewsLag
  <2> QED
    BY <1>4, <1>5, <2>2, <2>4, <2>6 DEF PbInv
<1>9. CASE ~(books = index /\ views # Empty)
  <2>1. /\ curatorAt' = [curatorAt EXCEPT ![c] = "views"] /\ pbLock' = pbLock
        /\ draft' = [draft EXCEPT ![c] = index]
    BY <1>1, <1>9 DEF WriteBooks, CuratorGoes
  <2>2. PbTypes'
    BY <1>1, <1>4, <1>5, <1>6, <1>7, <2>1 DEF PbInv, PbTypes
  <2>3. /\ curatorAt'[c] = "views" /\ draft'[c] = index
        /\ \A d \in Curators \ {c} : curatorAt'[d] = curatorAt[d]
    BY <2>1 DEF PbInv, PbTypes
  <2>4. PbOne'
    BY <1>2, <1>5, <1>6, <2>1, <2>3 DEF PbInv, PbOne
  <2>5. ViewsLag'
    BY <1>6, <2>3 DEF ViewsLag
  <2> QED
    BY <1>4, <1>5, <2>2, <2>4, <2>5 DEF PbInv
<1> QED
  BY <1>8, <1>9

\* While nobody has the lock: a torn index is set aside.
LEMMA SetAsideKeeps ==
  ASSUME PbInv, pbLock = NoCurator, SetAside
  PROVE  /\ books' \in Indexes /\ ~tornBooks' /\ tornBooks' \in BOOLEAN /\ Held(books') = taught'
         /\ taught' \subseteq Names \X (Lessons \cup {SeedLesson})
         /\ ~staleViews => views = books'
         /\ \A c \in Curators : curatorAt[c] \notin {"curate", "views"}
<1>1. \A c \in Curators : curatorAt[c] \notin {"curate", "views"}
  BY PlaybooksAssumption DEF PbInv, PbOne
<1>2. tornBooks' \in BOOLEAN /\ ~tornBooks'
  BY DEF SetAside
<1>3. CASE tornBooks
  BY <1>1, <1>2, <1>3, NothingHeld DEF SetAside, PbInv, ViewsLag
<1>4. CASE ~tornBooks
  BY <1>1, <1>2, <1>4 DEF SetAside, PbInv, PbTypes, ViewsLag
<1> QED
  BY <1>3, <1>4

LEMMA UnlockedStepsKeep ==
  ASSUME PbInv, NEW c \in Curators,
         ChangeBegins(c) \/ Select(c) \/ ExportBodies(c) \/ ExportItems(c)
  PROVE  PbInv'
<1>1. pbLock = NoCurator /\ SetAside /\ UNCHANGED <<views, hubWhole, curations, staleViews>>
  BY DEF ChangeBegins, Select, ExportBodies, ExportItems, LoadIndex
<1>2. /\ books' \in Indexes /\ ~tornBooks' /\ tornBooks' \in BOOLEAN /\ Held(books') = taught'
      /\ taught' \subseteq Names \X (Lessons \cup {SeedLesson})
      /\ ~staleViews => views = books'
      /\ \A d \in Curators : curatorAt[d] \notin {"curate", "views"}
  BY <1>1, SetAsideKeeps
<1>3. /\ draft' \in [Curators -> Indexes]
      /\ curatorAt' \in [Curators -> {"idle", "curate", "views", "items", "hub", "mixed hub"}]
      /\ pbLock' \in Curators \cup {NoCurator}
      /\ \A d \in Curators : curatorAt'[d] \in {"curate", "views"} =>
            pbLock' = d /\ draft'[d] = books'
  <2>1. CASE ChangeBegins(c)
    BY <1>2, <2>1 DEF ChangeBegins, CuratorGoes, LoadIndex, PbInv, PbTypes
  <2>2. CASE Select(c)
    BY <1>2, <2>2 DEF Select, PbInv, PbTypes
  <2>3. CASE ExportBodies(c)
    BY <1>2, <2>3 DEF ExportBodies, CuratorGoes, LoadIndex, PbInv, PbTypes
  <2>4. CASE ExportItems(c)
    <3>1. PICK to \in {"hub", "mixed hub"} : CuratorGoes(c, "items", to)
      BY <2>4 DEF ExportItems
    <3> QED
      BY <1>2, <2>4, <3>1, NothingHeld DEF ExportItems, CuratorGoes, DropDraft, PbInv, PbTypes
  <2> QED
    BY <2>1, <2>2, <2>3, <2>4
<1>4. PbTypes'
  BY <1>1, <1>2, <1>3 DEF PbInv, PbTypes
<1>5. PbOne' /\ ViewsLag'
  BY <1>1, <1>2, <1>3 DEF PbOne, ViewsLag
<1> QED
  BY <1>2, <1>4, <1>5 DEF PbInv

LEMMA OtherStepsKeep ==
  ASSUME PbInv, NEW c \in Curators, RenderViews(c) \/ ExportHub(c) \/ CuratorDies(c)
  PROVE  PbInv'
<1>1. /\ curatorAt' = [curatorAt EXCEPT ![c] = "idle"] /\ draft' = [draft EXCEPT ![c] = Empty]
      /\ UNCHANGED <<books, tornBooks, curations, taught>>
  BY DEF RenderViews, ExportHub, CuratorDies, CuratorGoes, DropDraft
<1>2. /\ curatorAt'[c] = "idle" /\ draft' \in [Curators -> Indexes]
      /\ \A d \in Curators \ {c} : curatorAt'[d] = curatorAt[d] /\ draft'[d] = draft[d]
      /\ curatorAt' \in [Curators -> {"idle", "curate", "views", "items", "hub", "mixed hub"}]
  BY <1>1, NothingHeld DEF PbInv, PbTypes
<1>3. hubWhole' \in BOOLEAN
  BY DEF RenderViews, ExportHub, CuratorDies, PbInv, PbTypes
<1>4. staleViews' \in BOOLEAN
  BY DEF RenderViews, ExportHub, CuratorDies, PbInv, PbTypes
<1>5. /\ views' \in {views, draft[c]}
      /\ pbLock' \in {pbLock, IF pbLock = c THEN NoCurator ELSE pbLock}
  BY DEF RenderViews, ExportHub, CuratorDies, Unlock
<1>6. PbTypes'
  <2>1. views' \in Indexes /\ pbLock' \in Curators \cup {NoCurator}
    BY <1>5 DEF PbInv, PbTypes
  <2>2. /\ books' \in Indexes /\ tornBooks' \in BOOLEAN /\ curations' \in 0 .. MaxCurations
        /\ taught' \subseteq Names \X (Lessons \cup {SeedLesson})
    BY <1>1 DEF PbInv, PbTypes
  <2> QED
    BY <1>2, <1>3, <1>4, <2>1, <2>2 DEF PbTypes
<1>7. PbOne'
  BY <1>1, <1>2, <1>5 DEF PbInv, PbOne
<1>8. ViewsLag'
  <2>1. CASE RenderViews(c)
    <3>1. curatorAt[c] = "views" /\ views' = draft[c] /\ books' = books /\ tornBooks' = tornBooks
      BY <1>1, <2>1 DEF RenderViews, CuratorGoes
    <3>2. draft[c] = books /\ ~tornBooks
      BY <3>1 DEF PbInv, PbOne
    <3> QED
      BY <3>1, <3>2 DEF ViewsLag
  <2>2. CASE ExportHub(c)
    <3>1. views' = views /\ staleViews' = staleViews /\ curatorAt[c] # "views"
      BY <2>2 DEF ExportHub, CuratorGoes
    <3> QED
      BY <1>1, <1>2, <3>1 DEF PbInv, ViewsLag
  <2>3. CASE CuratorDies(c)
    <3>1. views' = views /\ (~staleViews' => ~staleViews /\ curatorAt[c] # "views")
      BY <2>3 DEF CuratorDies
    <3> QED
      BY <1>1, <1>2, <3>1 DEF PbInv, ViewsLag
  <2> QED
    BY <2>1, <2>2, <2>3
<1> QED
  BY <1>1, <1>6, <1>7, <1>8 DEF PbInv

LEMMA PbNextKeeps ==
  ASSUME PbInv, PbNext
  PROVE  PbInv'
<1>1. CASE BooksTorn
  <2>1. tornBooks' \in BOOLEAN /\ staleViews' \in BOOLEAN /\ staleViews'
    BY <1>1 DEF BooksTorn
  <2>2. /\ pbLock = NoCurator
        /\ UNCHANGED <<pbLock, curatorAt, draft, books, views, hubWhole, curations, taught>>
    BY <1>1 DEF BooksTorn
  <2>3. PbTypes'
    BY <2>1, <2>2 DEF PbInv, PbTypes
  <2>4. PbOne' /\ ViewsLag'
    BY <2>1, <2>2, PlaybooksAssumption DEF PbInv, PbOne, ViewsLag
  <2> QED
    BY <2>2, <2>3, <2>4 DEF PbInv
<1> QED
  BY <1>1, CurateKeeps, SeedKeeps, UnlockedStepsKeep, OtherStepsKeep DEF PbNext

LEMMA PbStepKeeps ==
  ASSUME PbInv, [PbNext]_pbVars
  PROVE  PbInv'
<1>1. CASE PbNext
  BY <1>1, PbNextKeeps
<1>2. CASE UNCHANGED pbVars
  BY <1>2 DEF pbVars, PbInv, PbTypes, PbOne, ViewsLag
<1> QED
  BY <1>1, <1>2

LEMMA PbShows == PbInv => LessonsKept /\ PbTypeOK
<1> SUFFICES ASSUME PbInv PROVE LessonsKept /\ PbTypeOK
  OBVIOUS
<1>1. pbLock = NoCurator => \A c \in Curators : curatorAt[c] # "views"
  BY PlaybooksAssumption DEF PbInv, PbOne
<1>2. LessonsKept
  BY <1>1 DEF PbInv, ViewsLag, LessonsKept
<1>3. IsIndex(books) /\ IsIndex(views) /\ \A c \in Curators : IsIndex(draft[c])
  BY HeldByName DEF PbInv, PbTypes, IsIndex
<1> QED
  BY <1>2, <1>3 DEF PbInv, PbTypes, PbTypeOK

----------------------------------------------------------------------------
(* The pool of questions.                                                   *)

Named(qs) == {<<q.id, q.text>> : q \in qs}

\* Whoever reads to write has the lock, and read what is there.
PoolOne ==
    \A c \in Clerks : job[c] \in {"appending", "resolving"} =>
        poolLock = c /\ copy[c] = Loaded

\* The pool has every question an id was given to, and listings show such.
PoolIds ==
    /\ Named(pool) = given
    /\ \A g, h \in given : g[1] = h[1] => g = h
    /\ \A c \in Clerks : listed[c] \subseteq given

PoolInv == PoolTypeOK /\ PoolOne /\ (~emptied => PoolIds)

LEMMA PoolInitInv == PoolInit => PoolInv
<1> SUFFICES ASSUME PoolInit PROVE PoolInv
  OBVIOUS
<1>1. poolTorn \in BOOLEAN /\ emptied \in BOOLEAN
  BY DEF PoolInit
<1>2. PoolTypeOK
  BY <1>1 DEF PoolInit, PoolTypeOK
<1> QED
  BY <1>2 DEF PoolInit, PoolInv, PoolOne, PoolIds, Named

\* The next id is one that no question has.
LEMMA NextIdIsNew ==
  ASSUME NEW qs \in SUBSET Questions
  PROVE  NextQuestionId(qs) \in Nat /\ \A q \in qs : q.id # NextQuestionId(qs)
<1> DEFINE ids == {q.id : q \in qs}
<1>1. CASE qs = {}
  BY <1>1 DEF NextQuestionId
<1>2. CASE qs # {}
  <2>1. ids \subseteq Nat /\ ids # {} /\ \A y \in ids : y <= MaxQuestions
    BY <1>2, QuestionsAssumption DEF Questions, QuestionIds
  <2>2. Max(ids) \in ids /\ \A y \in ids : y <= Max(ids)
    BY <2>1, GreatestOne, QuestionsAssumption
  <2>3. NextQuestionId(qs) = Max(ids) + 1
    BY <1>2 DEF NextQuestionId
  <2>4. \A q \in qs : q.id \in ids
    OBVIOUS
  <2> HIDE DEF ids
  <2>9. Max(ids) \in Nat
    BY <2>1, <2>2
  <2>5. ASSUME NEW y \in ids PROVE y # Max(ids) + 1
    <3>1. y \in Nat /\ y <= Max(ids)
      BY <2>1, <2>2
    <3> QED
      BY <2>9, <3>1
  <2>6. Max(ids) + 1 \in Nat /\ \A q \in qs : q.id # Max(ids) + 1
    BY <2>4, <2>5, <2>9
  <2> QED
    BY <2>3, <2>6
<1> QED
  BY <1>1, <1>2

\* A step that changes neither the pool nor what the ids stand for.
LEMMA QuietKeeps ==
  ASSUME PoolInv, PoolTypeOK', UNCHANGED <<pool, given, emptied>>, PoolOne',
         \A c \in Clerks : listed'[c] \subseteq listed[c] \cup Named(pool)
  PROVE  PoolInv'
BY DEF PoolInv, PoolIds

LEMMA AppendEndsKeeps ==
  ASSUME PoolInv, NEW c \in Clerks, AppendEnds(c)
  PROVE  PoolInv'
<1>1. /\ job[c] = "appending" /\ job' = [job EXCEPT ![c] = "append"]
      /\ poolLock' = NoClerk /\ copy' = [copy EXCEPT ![c] = {}] /\ UNCHANGED listed
  BY DEF AppendEnds, JobGoes
<1>2. PICK t \in toAsk[c] :
        /\ toAsk' = [toAsk EXCEPT ![c] = @ \ {t}]
        /\ \/ UNCHANGED <<pool, poolTorn, given, emptied>>
           \/ /\ NextQuestionId(copy[c]) \in QuestionIds
              /\ pool' = copy[c] \cup {[id |-> NextQuestionId(copy[c]), text |-> t, open |-> TRUE]}
              /\ given' = given \cup {<<NextQuestionId(copy[c]), t>>}
              /\ emptied' = (emptied \/ (copy[c] = {} /\ pool # {}))
              /\ poolTorn' = FALSE
  BY DEF AppendEnds
<1>3. poolLock = c /\ copy[c] = Loaded /\ \A d \in Clerks \ {c} : job[d] \notin {"appending", "resolving"}
  BY <1>1 DEF PoolInv, PoolOne
<1>4. PoolOne'
  BY <1>1, <1>3 DEF PoolOne, PoolInv, PoolTypeOK
<1>5. copy[c] \subseteq Questions /\ t \in Texts
  BY <1>2 DEF PoolInv, PoolTypeOK
<1>6. CASE UNCHANGED <<pool, poolTorn, given, emptied>>
  <2>1. PoolTypeOK'
    BY <1>1, <1>2, <1>6 DEF PoolInv, PoolTypeOK
  <2> QED
    BY <1>1, <1>4, <1>6, <2>1, QuietKeeps
<1>7. CASE /\ NextQuestionId(copy[c]) \in QuestionIds
           /\ pool' = copy[c] \cup {[id |-> NextQuestionId(copy[c]), text |-> t, open |-> TRUE]}
           /\ given' = given \cup {<<NextQuestionId(copy[c]), t>>}
           /\ emptied' = (emptied \/ (copy[c] = {} /\ pool # {}))
           /\ poolTorn' = FALSE
  <2> DEFINE qid == NextQuestionId(copy[c])
             new == [id |-> qid, text |-> t, open |-> TRUE]
  <2>1. \A q \in copy[c] : q.id # qid
    BY <1>5, NextIdIsNew
  <2>2. new \in Questions /\ new.id = qid /\ new.text = t
    BY <1>5, <1>7 DEF Questions
  <2>3. poolTorn' \in BOOLEAN /\ emptied' \in BOOLEAN
    BY <1>7 DEF PoolInv, PoolTypeOK
  <2>4. /\ qid \in QuestionIds /\ pool' = copy[c] \cup {new} /\ given' = given \cup {<<qid, t>>}
        /\ ~emptied' => ~emptied /\ (copy[c] = {} => pool = {})
    BY <1>7
  <2> HIDE DEF qid, new
  <2>5. PoolTypeOK'
    BY <1>1, <1>2, <1>5, <2>2, <2>3, <2>4 DEF PoolInv, PoolTypeOK
  <2>6. ASSUME ~emptied' PROVE PoolIds'
    <3>1. copy[c] = pool /\ PoolIds
      BY <1>3, <2>4, <2>6 DEF Loaded, PoolInv
    <3>2. Named(pool') = given'
      BY <2>2, <2>4, <3>1 DEF Named, PoolIds
    <3>3. \A g \in given : g[1] # qid
      BY <2>1, <3>1 DEF PoolIds, Named
    <3>4. \A g, h \in given' : g[1] = h[1] => g = h
      BY <2>4, <3>1, <3>3 DEF PoolIds
    <3> QED
      BY <1>1, <2>4, <3>1, <3>2, <3>4 DEF PoolIds
  <2> QED
    BY <1>4, <2>5, <2>6 DEF PoolInv
<1> QED
  BY <1>2, <1>6, <1>7

LEMMA ResolveEndsKeeps ==
  ASSUME PoolInv, NEW c \in Clerks, ResolveEnds(c)
  PROVE  PoolInv'
<1> DEFINE done == {[q EXCEPT !.open = FALSE] : q \in Resolved(c)}
<1>1. /\ job[c] = "resolving" /\ job' = [job EXCEPT ![c] = "idle"] /\ poolLock' = NoClerk
      /\ listed' = [listed EXCEPT ![c] = {}] /\ copy' = [copy EXCEPT ![c] = {}]
      /\ UNCHANGED <<toAsk, given, emptied>>
  BY DEF ResolveEnds, JobGoes
<1>2. /\ poolLock = c /\ copy[c] = Loaded
      /\ \A d \in Clerks \ {c} : job[d] \notin {"appending", "resolving"}
  BY <1>1 DEF PoolInv, PoolOne
<1>3. PoolOne'
  BY <1>1, <1>2 DEF PoolOne, PoolInv, PoolTypeOK
<1>4. poolTorn' \in BOOLEAN
  BY DEF ResolveEnds, PoolInv, PoolTypeOK
<1>5. pool' = pool \/ (Resolved(c) # {} /\ pool' = (copy[c] \ Resolved(c)) \cup done)
  BY DEF ResolveEnds
<1>6. Resolved(c) \subseteq copy[c] /\ copy[c] \subseteq Questions
  BY DEF Resolved, PoolInv, PoolTypeOK
<1>7. done \subseteq Questions /\ Named(done) = Named(Resolved(c))
  <2>1. \A q \in Resolved(c) : /\ [q EXCEPT !.open = FALSE] \in Questions
                               /\ [q EXCEPT !.open = FALSE].id = q.id
                               /\ [q EXCEPT !.open = FALSE].text = q.text
    BY <1>6 DEF Questions
  <2> QED
    BY <2>1 DEF Named
<1> HIDE DEF done
<1>8. PoolTypeOK'
  BY <1>1, <1>4, <1>5, <1>6, <1>7 DEF PoolInv, PoolTypeOK
<1>9. Named(pool') = Named(pool)
  <2>1. CASE Resolved(c) # {} /\ pool' = (copy[c] \ Resolved(c)) \cup done
    <3>1. copy[c] = pool
      BY <1>2, <1>6, <2>1 DEF Loaded
    <3>2. Named(pool') = Named(copy[c] \ Resolved(c)) \cup Named(done)
      BY <2>1 DEF Named
    <3> QED
      BY <1>6, <1>7, <3>1, <3>2 DEF Named
  <2> QED
    BY <1>5, <2>1
<1>10. ASSUME ~emptied' PROVE PoolIds'
  BY <1>1, <1>9, <1>10 DEF PoolInv, PoolIds, PoolTypeOK
<1> QED
  BY <1>3, <1>8, <1>10 DEF PoolInv

LEMMA PoolNextKeeps ==
  ASSUME PoolInv, PoolNext
  PROVE  PoolInv'
<1> USE QuestionsAssumption DEF JobGoes
<1>1. ASSUME NEW c \in Clerks, NEW S \in SUBSET Texts \ {{}}, AskAll(c, S) PROVE PoolInv'
  <2>1. PoolTypeOK' /\ PoolOne'
    BY <1>1 DEF AskAll, PoolInv, PoolTypeOK, PoolOne, Loaded
  <2> QED
    BY <1>1, <2>1, QuietKeeps DEF AskAll
<1>2. ASSUME NEW c \in Clerks, AppendBegins(c) \/ ResolveBegins(c) PROVE PoolInv'
  <2>1. /\ poolLock = NoClerk /\ poolLock' = c /\ copy' = [copy EXCEPT ![c] = Loaded]
        /\ job' \in {[job EXCEPT ![c] = "appending"], [job EXCEPT ![c] = "resolving"]}
        /\ UNCHANGED <<pool, poolTorn, toAsk, listed, given, emptied>>
    BY <1>2 DEF AppendBegins, ResolveBegins
  <2>2. \A d \in Clerks : job[d] \notin {"appending", "resolving"}
    BY <2>1 DEF PoolInv, PoolOne
  <2>3. Loaded \subseteq Questions
    BY DEF Loaded, PoolInv, PoolTypeOK
  <2>4. PoolTypeOK'
    BY <2>1, <2>3 DEF PoolInv, PoolTypeOK
  <2>5. PoolOne'
    BY <2>1, <2>2 DEF PoolInv, PoolTypeOK, PoolOne, Loaded
  <2> QED
    BY <2>1, <2>4, <2>5, QuietKeeps
<1>3. ASSUME NEW c \in Clerks, AllAsked(c) PROVE PoolInv'
  <2>1. PoolTypeOK' /\ PoolOne'
    BY <1>3 DEF AllAsked, PoolInv, PoolTypeOK, PoolOne, Loaded
  <2> QED
    BY <1>3, <2>1, QuietKeeps DEF AllAsked
<1>4. ASSUME NEW c \in Clerks, ListOpen(c) PROVE PoolInv'
  <2>1. PICK q \in Listing : listed' = [listed EXCEPT ![c] = {<<q.id, q.text>>}]
    BY <1>4 DEF ListOpen
  <2>2. q \in pool /\ q \in Questions /\ <<q.id, q.text>> \in QuestionIds \X Texts
    BY DEF Listing, PoolInv, PoolTypeOK, Questions
  <2>3. PoolTypeOK' /\ PoolOne'
    BY <1>4, <2>1, <2>2 DEF ListOpen, PoolInv, PoolTypeOK, PoolOne, Loaded
  <2>4. \A d \in Clerks : listed'[d] \subseteq listed[d] \cup Named(pool)
    BY <2>1, <2>2 DEF Named, PoolInv, PoolTypeOK
  <2> QED
    BY <1>4, <2>3, <2>4, QuietKeeps DEF ListOpen
<1>5. ASSUME NEW c \in Clerks, ClerkDies(c) PROVE PoolInv'
  <2>1. PoolTypeOK' /\ PoolOne'
    BY <1>5 DEF ClerkDies, PoolInv, PoolTypeOK, PoolOne, Loaded
  <2> QED
    BY <1>5, <2>1, QuietKeeps DEF ClerkDies
<1>6. CASE EditTears \/ EditEnds
  <2>1. poolTorn' \in BOOLEAN /\ poolLock = NoClerk
        /\ UNCHANGED <<pool, poolLock, copy, toAsk, listed, job, given, emptied>>
    BY <1>6 DEF EditTears, EditEnds
  <2>2. PoolTypeOK' /\ PoolOne'
    BY <2>1 DEF PoolInv, PoolTypeOK, PoolOne
  <2> QED
    BY <2>1, <2>2, QuietKeeps
<1> QED
  BY <1>1, <1>2, <1>3, <1>4, <1>5, <1>6, AppendEndsKeeps, ResolveEndsKeeps DEF PoolNext

LEMMA PoolStepKeeps ==
  ASSUME PoolInv, [PoolNext]_poolVars
  PROVE  PoolInv'
<1>1. CASE PoolNext
  BY <1>1, PoolNextKeeps
<1>2. CASE UNCHANGED poolVars
  BY <1>2 DEF poolVars, PoolInv, PoolTypeOK, PoolOne, Loaded, PoolIds, Named
<1> QED
  BY <1>1, <1>2

LEMMA PoolShows == PoolInv => IdsKeepTheirQuestion /\ PoolTypeOK
<1> SUFFICES ASSUME PoolInv, ~emptied
             PROVE  /\ \A g, h \in given : g[1] = h[1] => g = h
                    /\ \A c \in Clerks : \A l \in listed[c], q \in pool :
                         q.id = l[1] => q.text = l[2]
  BY DEF PoolInv, IdsKeepTheirQuestion
<1>1. ASSUME NEW c \in Clerks, NEW l \in listed[c], NEW q \in pool, q.id = l[1]
      PROVE  q.text = l[2]
  <2>1. <<q.id, q.text>> \in given /\ l \in given
    BY DEF PoolInv, PoolIds, Named
  <2>2. <<q.id, q.text>> = l
    BY <1>1, <2>1 DEF PoolInv, PoolIds
  <2> QED
    BY <2>2
<1> QED
  BY <1>1 DEF PoolInv, PoolIds

----------------------------------------------------------------------------
(* The index of the meta-optimizer.                                         *)

InSec(s) == metaAt[s] \in InSection

\* Whoever is in the section holds its lock.
MetaOne == \A s \in Sessions : InSec(s) => section = s

\* What it has loaded is the index, but for what it has applied itself.
OwnIsIndex ==
    \A s \in Sessions : InSec(s) =>
        /\ ownIndex[s].harvested = metaIndex.harvested
        /\ ownIndex[s].examples = metaIndex.examples
        /\ \A p \in ProposalIds :
              \/ ownIndex[s].props[p] = metaIndex.props[p]
              \/ /\ metaAt[s] = "applying" /\ metaIndex.props[p] = "pending"
                 /\ ownIndex[s].props[p] \in {"applied", "failed"}

\* Who has a proposal behind it and has not written so yet.
Spent(p, st) == \E s \in Sessions : metaAt[s] = "applying" /\ ownIndex[s].props[p] = st

\* A block more than the losses is one that the index or its writer is done with.
GuideInv ==
    /\ \A p \in ProposalIds :
          ~guideCut /\ (metaIndex.props[p] = "applied" \/ Spent(p, "applied")) => guide[p] >= 1
    /\ \A p \in ProposalIds : guide[p] <= 1 + lossesMeta
    /\ \A p \in ProposalIds :
          \/ guide[p] <= lossesMeta \/ metaIndex.props[p] \in {"applied", "failed"}
          \/ Spent(p, "applied") \/ Spent(p, "failed")

\* What is to be told is applied, to whoever tells it and then in the index.
UntoldInv ==
    /\ \A s \in Sessions :
          /\ metaAt[s] = "idle" => untold[s] = {}
          /\ InSec(s) => \A p \in untold[s] : ownIndex[s].props[p] = "applied"
          /\ metaAt[s] = "ledger" /\ ~restarted =>
                \A p \in untold[s] : metaIndex.props[p] = "applied"
    /\ ~restarted => \A p \in ledgered : metaIndex.props[p] = "applied"

MetaInv == MetaTypeOK /\ MetaOne /\ OwnIsIndex /\ HarvestedOnce /\ GuideInv /\ UntoldInv

LEMMA BlankIsIndex ==
  /\ Blank \in Index /\ Blank.examples = 0 /\ \A c \in Cycles : Blank.harvested[c] = 0
  /\ \A p \in ProposalIds : Blank.props[p] = "none"
BY DEF Blank, Index, Statuses

LEMMA MetaInitInv == MetaInit => MetaInv
<1> SUFFICES ASSUME MetaInit PROVE MetaInv
  OBVIOUS
<1>1. /\ metaIndex = Blank /\ marker \in BOOLEAN /\ guideCut = FALSE /\ restarted = FALSE
      /\ lossesMeta = 0 /\ lossesMeta \in 0 .. MaxLosses /\ ledgered = {}
  BY MetaAssumption DEF MetaInit
<1>2. /\ \A s \in Sessions : metaAt[s] = "idle" /\ untold[s] = {}
      /\ \A p \in ProposalIds : guide[p] = 0
  BY DEF MetaInit, NoBlock
<1>3. MetaTypeOK
  BY <1>1, BlankIsIndex DEF MetaInit, MetaTypeOK, NoBlock
<1>4. MetaOne /\ OwnIsIndex /\ \A p \in ProposalIds : ~Spent(p, "applied")
  BY <1>2 DEF MetaOne, InSec, InSection, OwnIsIndex, Spent
<1>5. HarvestedOnce /\ UntoldInv
  BY <1>1, <1>2, BlankIsIndex DEF HarvestedOnce, UntoldInv, InSec, InSection
<1>6. GuideInv
  BY <1>1, <1>2, <1>4, BlankIsIndex DEF GuideInv
<1> QED
  BY <1>3, <1>4, <1>5, <1>6 DEF MetaInv

\* A session enters: it is alone, and has loaded the index, or a new one.
LEMMA EnterKeeps ==
  ASSUME MetaInv, NEW s \in Sessions, Enter(s)
  PROVE  MetaInv'
<1>1. /\ metaAt[s] = "idle" /\ metaAt' = [metaAt EXCEPT ![s] = "loaded"] /\ section' = s
      /\ UNCHANGED <<untold, marker, guideCut, ledgered, lossesMeta>>
  BY DEF Enter, MetaGoes
<1>2. \A r \in Sessions : ~InSec(r)
  BY MetaAssumption DEF MetaInv, MetaOne, Enter
<1>3. /\ metaIndex' \in Index /\ ownIndex' = [ownIndex EXCEPT ![s] = metaIndex']
      /\ indexIs' \in {"whole", "torn"} /\ restarted' \in BOOLEAN
      /\ guide' \in [ProposalIds -> Nat]
      /\ \/ metaIndex' = metaIndex /\ guide' = guide /\ restarted' = restarted
         \/ metaIndex' = Blank /\ guide' = NoBlock /\ restarted'
  <2>1. metaIndex \in Index /\ restarted \in BOOLEAN /\ guide \in [ProposalIds -> Nat]
    BY DEF MetaInv, MetaTypeOK
  <2>2. NoBlock \in [ProposalIds -> Nat]
    BY DEF NoBlock
  <2>3. CASE indexIs = "whole" /\ ownIndex' = [ownIndex EXCEPT ![s] = metaIndex]
             /\ UNCHANGED <<metaIndex, indexIs, restarted, guide>>
    <3>1. indexIs \in {"whole", "torn"}
      BY DEF MetaInv, MetaTypeOK
    <3> QED
      BY <2>1, <2>3, <3>1
  <2>4. CASE /\ ownIndex' = [ownIndex EXCEPT ![s] = Blank] /\ metaIndex' = Blank
             /\ indexIs' = "whole" /\ restarted' = TRUE /\ guide' = NoBlock
    BY <2>2, <2>4, BlankIsIndex
  <2>5. \/ /\ indexIs = "whole" /\ ownIndex' = [ownIndex EXCEPT ![s] = metaIndex]
           /\ UNCHANGED <<metaIndex, indexIs, restarted, guide>>
        \/ /\ ownIndex' = [ownIndex EXCEPT ![s] = Blank] /\ metaIndex' = Blank
           /\ indexIs' = "whole" /\ restarted' = TRUE /\ guide' = NoBlock
    <3>1. ReadIndex(s)
      BY DEF Enter
    <3> QED
      BY <3>1 DEF ReadIndex, indexVars
  <2> QED
    BY <2>3, <2>4, <2>5
<1>4. /\ metaAt'[s] = "loaded" /\ ownIndex'[s] = metaIndex'
      /\ \A r \in Sessions \ {s} : metaAt'[r] = metaAt[r]
  BY <1>1, <1>3 DEF MetaInv, MetaTypeOK
<1>5. MetaTypeOK'
  BY <1>1, <1>3 DEF MetaInv, MetaTypeOK, InSection
<1>6. MetaOne' /\ OwnIsIndex'
  BY <1>1, <1>2, <1>4 DEF MetaOne, InSec, OwnIsIndex
<1>7. \A p \in ProposalIds : /\ ~Spent(p, "applied") /\ ~Spent(p, "failed")
                             /\ ~Spent(p, "applied")' /\ ~Spent(p, "failed")'
  BY <1>2, <1>4 DEF Spent, InSec, InSection
<1>8. HarvestedOnce'
  BY <1>3, BlankIsIndex DEF MetaInv, HarvestedOnce
<1>9. GuideInv'
  <2>1. CASE metaIndex' = metaIndex /\ guide' = guide
    BY <1>1, <1>7, <2>1 DEF MetaInv, GuideInv
  <2>2. CASE metaIndex' = Blank /\ guide' = NoBlock
    <3>1. lossesMeta' \in Nat /\ \A p \in ProposalIds : guide'[p] = 0
      BY <1>1, <2>2, MetaAssumption DEF MetaInv, MetaTypeOK, NoBlock
    <3> QED
      BY <1>7, <2>2, <3>1, BlankIsIndex DEF GuideInv
  <2> QED
    BY <1>3, <2>1, <2>2
<1>10. UntoldInv'
  <2>1. untold'[s] = {}
    BY <1>1 DEF MetaInv, UntoldInv
  <2> QED
    BY <1>1, <1>2, <1>3, <1>4, <2>1 DEF MetaInv, UntoldInv, InSec
<1> QED
  BY <1>5, <1>6, <1>8, <1>9, <1>10 DEF MetaInv

\* A session leaves the section: what was applied and what failed, by the index
\* or by itself, is so in the index that it leaves.
LEMMA LeaveKeeps ==
  ASSUME MetaInv, NEW s \in Sessions, InSec(s), NEW to \in {"idle", "ledger"}, Leave(s, to),
         metaIndex' \in Index, indexIs' \in {"whole", "torn"}, HarvestedOnce',
         UNCHANGED <<restarted, guide, marker, guideCut, ledgered, lossesMeta>>,
         \/ Forget(s) /\ to = "idle"
         \/ to = "ledger" /\ UNCHANGED <<ownIndex, untold>> /\ metaIndex' = ownIndex[s],
         \A p \in ProposalIds : /\ metaIndex'.props[p] = "applied" <=>
                                      metaIndex.props[p] = "applied" \/ Spent(p, "applied")
                                /\ metaIndex.props[p] = "failed" \/ Spent(p, "failed") =>
                                      metaIndex'.props[p] = "failed"
  PROVE  MetaInv'
<1>1. /\ metaAt' = [metaAt EXCEPT ![s] = to]
      /\ section' = IF section = s THEN NoSession ELSE section
  BY DEF Leave, MetaGoes
<1>2. section = s /\ \A r \in Sessions \ {s} : ~InSec(r)
  BY DEF MetaInv, MetaOne
<1>3. /\ metaAt'[s] = to /\ \A r \in Sessions \ {s} : metaAt'[r] = metaAt[r]
      /\ ownIndex' \in [Sessions -> Index] /\ untold' \in [Sessions -> SUBSET ProposalIds]
      /\ to = "idle" => untold'[s] = {}
      /\ to = "ledger" => untold'[s] = untold[s]
      /\ \A r \in Sessions \ {s} : untold'[r] = untold[r]
  BY <1>1, BlankIsIndex DEF MetaInv, MetaTypeOK, Forget
<1>4. MetaTypeOK'
  BY <1>1, <1>3 DEF MetaInv, MetaTypeOK
<1>5. \A r \in Sessions : ~InSec(r)'
  BY <1>2, <1>3 DEF InSec, InSection
<1>6. /\ MetaOne' /\ OwnIsIndex'
      /\ \A p \in ProposalIds : ~Spent(p, "applied")' /\ ~Spent(p, "failed")'
  BY <1>5 DEF MetaOne, OwnIsIndex, Spent, InSec, InSection
<1>7. GuideInv'
  BY <1>6 DEF MetaInv, GuideInv
<1>8. UntoldInv'
  <2>1. /\ untold[s] \subseteq ProposalIds /\ ledgered \subseteq ProposalIds
        /\ \A r \in Sessions : untold[r] \subseteq ProposalIds
    BY DEF MetaInv, MetaTypeOK
  <2>2. to = "ledger" => \A p \in untold[s] : metaIndex'.props[p] = "applied"
    BY DEF MetaInv, UntoldInv
  <2>3. \A p \in ProposalIds : metaIndex.props[p] = "applied" => metaIndex'.props[p] = "applied"
    OBVIOUS
  <2>4. ASSUME NEW r \in Sessions \ {s}
        PROVE  /\ metaAt'[r] = "idle" => untold'[r] = {}
               /\ metaAt'[r] = "ledger" /\ ~restarted =>
                     \A p \in untold'[r] : metaIndex'.props[p] = "applied"
    BY <1>3, <2>1, <2>3 DEF MetaInv, UntoldInv
  <2>5. /\ metaAt'[s] = "idle" => untold'[s] = {}
        /\ metaAt'[s] = "ledger" => \A p \in untold'[s] : metaIndex'.props[p] = "applied"
    BY <1>3, <2>2
  <2>6. ~restarted => \A p \in ledgered : metaIndex'.props[p] = "applied"
    BY <2>1, <2>3 DEF MetaInv, UntoldInv
  <2> QED
    BY <1>5, <2>4, <2>5, <2>6 DEF UntoldInv
<1> QED
  BY <1>4, <1>6, <1>7, <1>8 DEF MetaInv

\* As long as it has applied nothing, its own index is the index, whole or not.
LEMMA LoadedIsIndex ==
  ASSUME MetaInv, NEW s \in Sessions, metaAt[s] = "loaded"
  PROVE  /\ InSec(s) /\ ownIndex[s] \in Index /\ metaIndex \in Index
         /\ ownIndex[s].harvested = metaIndex.harvested
         /\ ownIndex[s].examples = metaIndex.examples
         /\ \A p \in ProposalIds : /\ ownIndex[s].props[p] = metaIndex.props[p]
                                   /\ ~Spent(p, "applied") /\ ~Spent(p, "failed")
<1>1. InSec(s) /\ \A r \in Sessions \ {s} : ~InSec(r)
  BY DEF MetaInv, MetaOne, InSec, InSection
<1> QED
  BY <1>1 DEF MetaInv, MetaTypeOK, OwnIsIndex, Spent, InSec, InSection

\* The operations that leave the guide alone.
LEMMA SimpleStepsKeep ==
  ASSUME MetaInv, NEW s \in Sessions,
         \/ \E c \in Cycles : Harvest(s, c)
         \/ SeedExample(s) \/ Analyze(s)
         \/ SaveApplied(s) /\ metaAt[s] = "loaded"
  PROVE  MetaInv'
<1>1. /\ metaAt[s] = "loaded" /\ Leave(s, "idle") /\ Forget(s)
      /\ UNCHANGED <<guide, marker, guideCut, ledgered, lossesMeta>>
  BY DEF Harvest, SeedExample, Analyze, SaveApplied, guideVars
<1>2. /\ InSec(s) /\ ownIndex[s] \in Index /\ metaIndex \in Index
      /\ ownIndex[s].harvested = metaIndex.harvested
      /\ ownIndex[s].examples = metaIndex.examples
      /\ \A p \in ProposalIds : /\ ownIndex[s].props[p] = metaIndex.props[p]
                                /\ ~Spent(p, "applied") /\ ~Spent(p, "failed")
  BY <1>1, LoadedIsIndex
<1>3. indexIs \in {"whole", "torn"} /\ HarvestedOnce
  BY DEF MetaInv, MetaTypeOK
<1>4. CASE UNCHANGED indexVars
  <2>1. UNCHANGED <<metaIndex, indexIs, restarted>>
    BY <1>4 DEF indexVars
  <2>2. HarvestedOnce'
    BY <1>3, <2>1 DEF HarvestedOnce
  <2> QED
    BY <1>1, <1>2, <1>3, <2>1, <2>2, LeaveKeeps
<1>5. ASSUME NEW new \in Index, WriteIndex(new), new.examples <= 1,
             \A c \in Cycles : new.harvested[c] <= 1,
             \A p \in ProposalIds : \/ new.props[p] = metaIndex.props[p]
                                    \/ metaIndex.props[p] = "none" /\ new.props[p] = "pending"
      PROVE  MetaInv'
  <2>1. metaIndex' = new /\ indexIs' = "whole" /\ UNCHANGED restarted
    BY <1>5 DEF WriteIndex
  <2>2. HarvestedOnce'
    BY <1>5, <2>1 DEF HarvestedOnce
  <2> QED
    BY <1>1, <1>2, <1>5, <2>1, <2>2, LeaveKeeps
<1>6. ASSUME NEW c \in Cycles, Harvest(s, c), ~UNCHANGED indexVars PROVE MetaInv'
  <2> DEFINE own == ownIndex[s]
             new == [own EXCEPT !.harvested[c] = @ + 1]
  <2>1. WriteIndex(new) /\ ~(own.harvested[c] > 0)
    BY <1>6 DEF Harvest, Harvested
  <2>2. own.harvested \in [Cycles -> 0 .. 2] /\ own.harvested[c] = 0
    BY <1>2, <2>1 DEF Index
  <2>3. /\ new \in Index /\ new.examples = own.examples /\ new.props = own.props
        /\ new.harvested[c] = 1 /\ \A d \in Cycles \ {c} : new.harvested[d] = own.harvested[d]
    BY <1>2, <2>2 DEF Index
  <2> HIDE DEF new
  <2> QED
    BY <1>2, <1>3, <1>5, <2>1, <2>3 DEF HarvestedOnce
<1>7. ASSUME SeedExample(s), ~UNCHANGED indexVars PROVE MetaInv'
  <2> DEFINE own == ownIndex[s]
             new == [own EXCEPT !.examples = @ + 1]
  <2>1. WriteIndex(new) /\ ~(own.examples > 0)
    BY <1>7 DEF SeedExample
  <2>2. /\ new \in Index /\ new.examples = 1 /\ new.props = own.props
        /\ new.harvested = own.harvested
    BY <1>2, <2>1 DEF Index
  <2> HIDE DEF new
  <2> QED
    BY <1>2, <1>3, <1>5, <2>1, <2>2 DEF HarvestedOnce
<1>8. ASSUME Analyze(s), ~UNCHANGED indexVars PROVE MetaInv'
  <2> DEFINE own == ownIndex[s]
  <2>1. PICK last \in 0 .. MaxProposals :
               WriteIndex([own EXCEPT !.props =
                 [p \in ProposalIds |-> IF @[p] = "none" /\ p <= last
                                        THEN "pending" ELSE @[p]]])
    BY <1>8 DEF Analyze
  <2> DEFINE ps  == [p \in ProposalIds |-> IF own.props[p] = "none" /\ p <= last
                                           THEN "pending" ELSE own.props[p]]
             new == [own EXCEPT !.props = ps]
  <2>2. own.props \in [ProposalIds -> Statuses]
    BY <1>2 DEF Index
  <2>3. /\ ps \in [ProposalIds -> Statuses]
        /\ \A p \in ProposalIds : \/ ps[p] = own.props[p]
                                  \/ own.props[p] = "none" /\ ps[p] = "pending"
    BY <2>2 DEF Statuses
  <2>4. WriteIndex(new)
    BY <2>1
  <2> HIDE DEF ps
  <2>5. /\ new \in Index /\ new.examples = own.examples /\ new.props = ps
        /\ new.harvested = own.harvested
    BY <1>2, <2>3 DEF Index
  <2> HIDE DEF new
  <2> QED
    BY <1>2, <1>3, <1>5, <2>3, <2>4, <2>5 DEF HarvestedOnce
<1>9. SaveApplied(s) /\ metaAt[s] = "loaded" => UNCHANGED indexVars
  BY DEF SaveApplied
<1> QED
  BY <1>4, <1>6, <1>7, <1>8, <1>9

\* What it still has to apply, the index calls pending; its block is not in the
\* guide but for the losses.
LEMMA PendingIsPending ==
  ASSUME MetaInv, NEW s \in Sessions, InSec(s), NEW p \in Pending(s)
  PROVE  /\ p \in ProposalIds /\ metaIndex.props[p] = "pending" /\ section = s
         /\ \A r \in Sessions \ {s} : ~InSec(r)
         /\ ~Spent(p, "applied") /\ ~Spent(p, "failed")
         /\ guide[p] <= lossesMeta /\ guide \in [ProposalIds -> Nat] /\ lossesMeta \in Nat
<1>1. /\ p \in ProposalIds /\ ownIndex[s].props[p] = "pending" /\ section = s
      /\ \A r \in Sessions \ {s} : ~InSec(r)
  BY DEF Pending, MetaInv, MetaOne
<1>2. metaIndex.props[p] = "pending"
  BY <1>1 DEF MetaInv, OwnIsIndex
<1>3. ~Spent(p, "applied") /\ ~Spent(p, "failed")
  BY <1>1 DEF Spent, InSec, InSection
<1>4. guide[p] <= lossesMeta
  BY <1>1, <1>2, <1>3 DEF MetaInv, GuideInv
<1> QED
  BY <1>1, <1>2, <1>3, <1>4, MetaAssumption DEF MetaInv, MetaTypeOK

\* A write of the guide that is cut short leaves no block twice that was there once.
LEMMA CutGuideLeaves ==
  ASSUME NEW p \in ProposalIds, guide \in [ProposalIds -> Nat], CutGuide(p)
  PROVE  /\ guide' \in [ProposalIds -> Nat] /\ marker' \in BOOLEAN /\ guideCut'
         /\ guide'[p] <= guide[p] + 1
         /\ \A q \in ProposalIds \ {p} : guide'[q] <= guide[q]
<1>1. PICK left \in SUBSET ProposalIds :
         guide' = [q \in ProposalIds |-> IF q \notin left THEN 0
                     ELSE IF q = p THEN guide[q] + 1 ELSE guide[q]]
  BY DEF CutGuide
<1>2. \A q \in ProposalIds : guide[q] \in Nat
  OBVIOUS
<1> QED
  BY <1>1, <1>2 DEF CutGuide

LEMMA ApplyOneKeeps ==
  ASSUME MetaInv, NEW s \in Sessions, NEW p \in ProposalIds, ApplyOne(s, p)
  PROVE  MetaInv'
<1>1. /\ InSec(s) /\ p \in Pending(s) /\ metaAt' = [metaAt EXCEPT ![s] = "applying"]
      /\ UNCHANGED <<section, metaIndex, indexIs, restarted, ledgered, lossesMeta>>
  BY DEF ApplyOne, MetaGoes, InSec, indexVars
<1>2. /\ metaIndex.props[p] = "pending" /\ section = s
      /\ \A r \in Sessions \ {s} : ~InSec(r)
      /\ ~Spent(p, "applied") /\ ~Spent(p, "failed")
      /\ guide[p] <= lossesMeta /\ guide \in [ProposalIds -> Nat] /\ lossesMeta \in Nat
  BY <1>1, PendingIsPending
<1>3. PICK st \in {"applied", "failed"} :
        /\ ownIndex' = [ownIndex EXCEPT ![s].props[p] = st]
        /\ st = "applied" => /\ guide' = [guide EXCEPT ![p] = @ + 1]
                             /\ untold' = [untold EXCEPT ![s] = @ \cup {p}]
                             /\ UNCHANGED <<marker, guideCut>>
        /\ st = "failed" => (CutGuide(p) \/ UNCHANGED guideVars) /\ UNCHANGED untold
  BY DEF ApplyOne
<1>4. /\ ownIndex'[s].props[p] = st /\ ownIndex' \in [Sessions -> Index]
      /\ ownIndex'[s].harvested = ownIndex[s].harvested
      /\ ownIndex'[s].examples = ownIndex[s].examples
      /\ \A q \in ProposalIds \ {p} : ownIndex'[s].props[q] = ownIndex[s].props[q]
      /\ \A r \in Sessions \ {s} : ownIndex'[r] = ownIndex[r]
  BY <1>3 DEF MetaInv, MetaTypeOK, Index, Statuses
<1>5. /\ metaAt'[s] = "applying" /\ \A r \in Sessions \ {s} : metaAt'[r] = metaAt[r]
      /\ metaAt' \in [Sessions -> InSection \cup {"idle", "ledger"}]
  BY <1>1 DEF MetaInv, MetaTypeOK, InSection
<1>6. /\ guide' \in [ProposalIds -> Nat] /\ guide'[p] <= guide[p] + 1
      /\ \A q \in ProposalIds \ {p} : guide'[q] <= guide[q]
      /\ marker' \in BOOLEAN /\ guideCut' \in BOOLEAN
      /\ ~guideCut' => /\ ~guideCut /\ \A q \in ProposalIds \ {p} : guide'[q] = guide[q]
                       /\ st = "applied" => guide'[p] >= 1
  <2>1. marker \in BOOLEAN /\ guideCut \in BOOLEAN /\ \A q \in ProposalIds : guide[q] \in Nat
    BY <1>2 DEF MetaInv, MetaTypeOK
  <2>2. CASE st = "applied"
    BY <1>2, <1>3, <2>1, <2>2
  <2>3. CASE st = "failed" /\ CutGuide(p)
    BY <1>2, <2>3, CutGuideLeaves
  <2>4. CASE st = "failed" /\ UNCHANGED guideVars
    BY <1>2, <2>1, <2>4 DEF guideVars
  <2> QED
    BY <1>3, <2>2, <2>3, <2>4
<1>7. /\ untold' \in [Sessions -> SUBSET ProposalIds]
      /\ \A r \in Sessions \ {s} : untold'[r] = untold[r]
      /\ untold'[s] \subseteq untold[s] \cup {p} /\ (p \in untold'[s] => st = "applied" \/ p \in untold[s])
  <2>1. untold \in [Sessions -> SUBSET ProposalIds]
    BY DEF MetaInv, MetaTypeOK
  <2>2. CASE st = "applied"
    BY <1>3, <2>1, <2>2
  <2>3. CASE st = "failed"
    BY <1>3, <2>1, <2>3
  <2> QED
    BY <2>2, <2>3
<1>8. MetaTypeOK'
  BY <1>1, <1>4, <1>5, <1>6, <1>7 DEF MetaInv, MetaTypeOK
<1>9. MetaOne'
  BY <1>1, <1>2, <1>5 DEF MetaOne, InSec
<1>10. OwnIsIndex'
  <2>1. \A r \in Sessions \ {s} : ~InSec(r)'
    BY <1>2, <1>5 DEF InSec
  <2>2. /\ ownIndex[s].harvested = metaIndex.harvested /\ ownIndex[s].examples = metaIndex.examples
        /\ \A q \in ProposalIds :
              \/ ownIndex[s].props[q] = metaIndex.props[q]
              \/ metaIndex.props[q] = "pending" /\ ownIndex[s].props[q] \in {"applied", "failed"}
    BY <1>1 DEF MetaInv, OwnIsIndex
  <2>3. \A q \in ProposalIds :
              \/ ownIndex'[s].props[q] = metaIndex'.props[q]
              \/ metaIndex'.props[q] = "pending" /\ ownIndex'[s].props[q] \in {"applied", "failed"}
    BY <1>1, <1>2, <1>4, <2>2
  <2> QED
    BY <1>1, <1>4, <1>5, <2>1, <2>2, <2>3 DEF OwnIsIndex
<1>11. /\ \A q \in ProposalIds \ {p} :
             /\ Spent(q, "applied")' => Spent(q, "applied") \/ metaIndex.props[q] = "applied"
             /\ Spent(q, "applied") => Spent(q, "applied")'
             /\ Spent(q, "failed") => Spent(q, "failed")'
       /\ Spent(p, st)' /\ (Spent(p, "applied")' => st = "applied")
  <2>1. \A r \in Sessions \ {s} : metaAt[r] # "applying" /\ metaAt'[r] # "applying"
    BY <1>2, <1>5 DEF InSec, InSection
  <2>2. ASSUME NEW q \in ProposalIds \ {p}, metaAt[s] # "applying"
        PROVE  ownIndex[s].props[q] = metaIndex.props[q]
    BY <1>1, <2>2 DEF MetaInv, OwnIsIndex
  <2>3. \A r \in Sessions \ {s} : ownIndex'[r] = ownIndex[r]
    BY <1>4
  <2>4. \A q \in ProposalIds, x \in {"applied", "failed"} :
           Spent(q, x)' <=> ownIndex'[s].props[q] = x
    BY <1>5, <2>1 DEF Spent
  <2>5. Spent(p, st)' /\ (Spent(p, "applied")' => st = "applied")
    BY <1>3, <1>4, <2>4
  <2>6. ASSUME NEW q \in ProposalIds \ {p}, NEW x \in {"applied", "failed"}
        PROVE  /\ Spent(q, x)' => Spent(q, x) \/ metaIndex.props[q] = x
               /\ Spent(q, x) => Spent(q, x)'
    <3>1. Spent(q, x)' <=> ownIndex[s].props[q] = x
      BY <1>4, <2>4
    <3>2. Spent(q, x) <=> metaAt[s] = "applying" /\ ownIndex[s].props[q] = x
      BY <2>1 DEF Spent
    <3> QED
      BY <2>2, <3>1, <3>2
  <2> QED
    BY <2>5, <2>6
<1>12. GuideInv'
  BY <1>1, <1>2, <1>6, <1>11 DEF MetaInv, GuideInv, MetaTypeOK
<1>13. HarvestedOnce'
  BY <1>1 DEF MetaInv, HarvestedOnce
<1>14. UntoldInv'
  <2>1. \A r \in Sessions \ {s} : ~InSec(r)'
    BY <1>2, <1>5 DEF InSec
  <2>2. \A q \in untold'[s] : ownIndex'[s].props[q] = "applied"
    <3>1. /\ \A q \in untold[s] : ownIndex[s].props[q] = "applied"
          /\ untold[s] \subseteq ProposalIds
      BY <1>1 DEF MetaInv, UntoldInv, MetaTypeOK
    <3>2. p \notin untold[s]
      BY <1>1, <3>1 DEF Pending
    <3> QED
      BY <1>4, <1>7, <3>1, <3>2
  <2> QED
    BY <1>1, <1>5, <1>7, <2>1, <2>2 DEF MetaInv, UntoldInv
<1> QED
  BY <1>8, <1>9, <1>10, <1>12, <1>13, <1>14 DEF MetaInv

\* The index that is written calls applied and failed what its writer does.
LEMMA SaveAppliedKeeps ==
  ASSUME MetaInv, NEW s \in Sessions, SaveApplied(s), metaAt[s] # "loaded"
  PROVE  MetaInv'
<1>1. /\ metaAt[s] = "applying" /\ Leave(s, "ledger") /\ WriteIndex(ownIndex[s])
      /\ UNCHANGED <<ownIndex, untold, guide, marker, guideCut, ledgered, lossesMeta>>
  BY DEF SaveApplied, guideVars
<1>2. /\ InSec(s) /\ ownIndex[s] \in Index /\ metaIndex' = ownIndex[s]
      /\ indexIs' = "whole" /\ restarted' = restarted
  BY <1>1 DEF InSec, InSection, WriteIndex, MetaInv, MetaTypeOK
<1>3. \A r \in Sessions \ {s} : metaAt[r] # "applying"
  BY <1>2 DEF MetaInv, MetaOne, InSec, InSection
<1>4. /\ ownIndex[s].harvested = metaIndex.harvested /\ ownIndex[s].examples = metaIndex.examples
      /\ \A p \in ProposalIds :
            \/ ownIndex[s].props[p] = metaIndex.props[p]
            \/ metaIndex.props[p] = "pending" /\ ownIndex[s].props[p] \in {"applied", "failed"}
  BY <1>2 DEF MetaInv, OwnIsIndex
<1>5. HarvestedOnce'
  BY <1>2, <1>4 DEF MetaInv, HarvestedOnce
<1>6. \A p \in ProposalIds : /\ Spent(p, "applied") <=> ownIndex[s].props[p] = "applied"
                             /\ Spent(p, "failed") <=> ownIndex[s].props[p] = "failed"
  BY <1>1, <1>3 DEF Spent
<1>7. \A p \in ProposalIds : /\ metaIndex'.props[p] = "applied" <=>
                                   metaIndex.props[p] = "applied" \/ Spent(p, "applied")
                             /\ metaIndex.props[p] = "failed" \/ Spent(p, "failed") =>
                                   metaIndex'.props[p] = "failed"
  BY <1>2, <1>4, <1>6
<1> QED
  BY <1>1, <1>2, <1>5, <1>7, LeaveKeeps

\* Its lines are told outside of the section, of what the index calls applied.
LEMMA TellLedgerKeeps ==
  ASSUME MetaInv, NEW s \in Sessions, TellLedger(s)
  PROVE  MetaInv'
<1>1. /\ metaAt[s] = "ledger" /\ metaAt' = [metaAt EXCEPT ![s] = "idle"] /\ Forget(s)
      /\ UNCHANGED <<section, metaIndex, indexIs, restarted, guide, marker, guideCut, lossesMeta>>
  BY DEF TellLedger, MetaGoes, indexVars, guideVars
<1>2. PICK told \in SUBSET untold[s] : ledgered' = ledgered \cup told
  BY DEF TellLedger
<1>3. /\ metaAt'[s] = "idle" /\ untold'[s] = {}
      /\ \A r \in Sessions \ {s} : /\ metaAt'[r] = metaAt[r] /\ ownIndex'[r] = ownIndex[r]
                                   /\ untold'[r] = untold[r]
      /\ ownIndex' \in [Sessions -> Index] /\ untold' \in [Sessions -> SUBSET ProposalIds]
  BY <1>1, BlankIsIndex DEF Forget, MetaInv, MetaTypeOK
<1>4. MetaTypeOK'
  BY <1>1, <1>2, <1>3 DEF MetaInv, MetaTypeOK
<1>5. MetaOne' /\ OwnIsIndex' /\ HarvestedOnce'
  BY <1>1, <1>3 DEF MetaInv, MetaOne, OwnIsIndex, HarvestedOnce, InSec, InSection
<1>6. \A p \in ProposalIds : /\ Spent(p, "applied")' <=> Spent(p, "applied")
                             /\ Spent(p, "failed")' <=> Spent(p, "failed")
  BY <1>1, <1>3 DEF Spent
<1>7. GuideInv'
  BY <1>1, <1>6 DEF MetaInv, GuideInv
<1>8. UntoldInv'
  BY <1>1, <1>2, <1>3 DEF MetaInv, UntoldInv, InSec, InSection
<1> QED
  BY <1>4, <1>5, <1>7, <1>8 DEF MetaInv

LEMMA BreaksOffKeeps ==
  ASSUME MetaInv, NEW s \in Sessions, BreaksOff(s)
  PROVE  MetaInv'
<1>1. /\ metaAt' = [metaAt EXCEPT ![s] = "idle"] /\ Forget(s)
      /\ section' = IF section = s THEN NoSession ELSE section
      /\ lossesMeta < MaxLosses /\ lossesMeta' = lossesMeta + 1
      /\ UNCHANGED <<metaIndex, indexIs, restarted, ledgered>>
  BY DEF BreaksOff, Leave, MetaGoes, indexVars
<1>2. /\ metaAt'[s] = "idle" /\ untold'[s] = {}
      /\ \A r \in Sessions \ {s} : /\ metaAt'[r] = metaAt[r] /\ ownIndex'[r] = ownIndex[r]
                                   /\ untold'[r] = untold[r]
      /\ ownIndex' \in [Sessions -> Index] /\ untold' \in [Sessions -> SUBSET ProposalIds]
  BY <1>1, BlankIsIndex DEF Forget, MetaInv, MetaTypeOK
<1>3. lossesMeta' \in 0 .. MaxLosses /\ lossesMeta \in Nat /\ guide \in [ProposalIds -> Nat]
  BY <1>1, MetaAssumption DEF MetaInv, MetaTypeOK
<1>4. /\ guide' \in [ProposalIds -> Nat] /\ marker' \in BOOLEAN /\ guideCut' \in BOOLEAN
      /\ \A q \in ProposalIds : guide'[q] <= lossesMeta'
      /\ ~guideCut' => ~guideCut /\ guide' = guide
  <2>1. \A q \in ProposalIds : guide[q] <= lossesMeta' /\ guide[q] \in Nat
    BY <1>1, <1>3 DEF MetaInv, GuideInv
  <2>2. CASE UNCHANGED guideVars
    BY <2>1, <2>2 DEF guideVars, MetaInv, MetaTypeOK
  <2>3. ASSUME InSec(s), NEW p \in Pending(s), CutGuide(p)
        PROVE  /\ guide' \in [ProposalIds -> Nat] /\ marker' \in BOOLEAN /\ guideCut'
               /\ \A q \in ProposalIds : guide'[q] <= lossesMeta'
    <3>1. p \in ProposalIds /\ guide[p] <= lossesMeta
      BY <2>3, PendingIsPending
    <3>2. /\ guide' \in [ProposalIds -> Nat] /\ marker' \in BOOLEAN /\ guideCut'
          /\ guide'[p] <= guide[p] + 1
          /\ \A q \in ProposalIds \ {p} : guide'[q] <= guide[q]
      BY <1>3, <2>3, <3>1, CutGuideLeaves
    <3> QED
      BY <1>1, <1>3, <2>1, <3>1, <3>2
  <2> QED
    BY <2>2, <2>3 DEF BreaksOff, InSec
<1>5. MetaTypeOK'
  BY <1>1, <1>2, <1>3, <1>4 DEF MetaInv, MetaTypeOK
<1>6. MetaOne' /\ OwnIsIndex' /\ HarvestedOnce'
  BY <1>1, <1>2 DEF MetaInv, MetaOne, OwnIsIndex, HarvestedOnce, InSec, InSection
<1>7. \A p \in ProposalIds : Spent(p, "applied")' => Spent(p, "applied")
  BY <1>2 DEF Spent
<1>8. GuideInv'
  <2>1. \A q \in ProposalIds : guide'[q] <= lossesMeta' /\ guide'[q] <= 1 + lossesMeta'
    BY <1>3, <1>4
  <2> QED
    BY <1>1, <1>4, <1>7, <2>1 DEF MetaInv, GuideInv
<1>9. UntoldInv'
  BY <1>1, <1>2 DEF MetaInv, UntoldInv, InSec, InSection
<1> QED
  BY <1>5, <1>6, <1>8, <1>9 DEF MetaInv

LEMMA MetaStepKeeps ==
  ASSUME MetaInv, [MetaNext]_metaVars
  PROVE  MetaInv'
<1>1. CASE UNCHANGED metaVars
  BY <1>1 DEF metaVars, MetaInv, MetaTypeOK, MetaOne, InSec, OwnIsIndex, HarvestedOnce,
              GuideInv, Spent, UntoldInv
<1>2. CASE IndexEdited
  <2>1. /\ indexIs' = "torn"
        /\ UNCHANGED <<section, metaAt, metaIndex, ownIndex, untold, guide, marker, guideCut,
                       ledgered, restarted, lossesMeta>>
    BY <1>2 DEF IndexEdited, guideVars
  <2> QED
    BY <2>1 DEF MetaInv, MetaTypeOK, MetaOne, InSec, OwnIsIndex, HarvestedOnce,
                GuideInv, Spent, UntoldInv
<1>3. CASE MetaNext /\ ~IndexEdited
  BY <1>3, EnterKeeps, SimpleStepsKeep, ApplyOneKeeps, SaveAppliedKeeps, TellLedgerKeeps,
     BreaksOffKeeps DEF MetaNext
<1> QED
  BY <1>1, <1>2, <1>3

LEMMA MetaShows == MetaInv => HarvestedOnce /\ AppliedIsInGuide /\ MetaTypeOK
BY DEF MetaInv, GuideInv, UntoldInv, AppliedIsInGuide

----------------------------------------------------------------------------
(* The answer cache.                                                        *)

\* What is kept for the cache is no error; a row is a plain request and what
\* came of its answer, one for a key, and there are no more than the cap.
CacheInv ==
    /\ \A t \in GwThreads : answerOf[t].kept => answerOf[t].good
    /\ \A row \in rows : row.good /\ row.plain
    /\ IsFiniteSet(rows) /\ HitsAreAnswers

GatewayInv == GatewayTypeOK /\ CacheInv

LEMMA GatewayInitInv == GatewayInit => GatewayInv
<1> SUFFICES ASSUME GatewayInit PROVE GatewayInv
  OBVIOUS
<1>1. IsFiniteSet({}) /\ Cardinality({}) = 0
  BY FS_EmptySet
<1>2. (CHOOSE q \in GwRequests : TRUE) \in GwRequests
  <2>1. PICK a \in Asks, e \in Endpoints : TRUE
    BY GatewayAssumption
  <2>2. [ask |-> a, path |-> e, plain |-> TRUE] \in GwRequests
    BY DEF GwRequests
  <2> QED
    BY <2>2
<1>3. gwReq \in [GwThreads -> GwRequests]
  <2> DEFINE q == CHOOSE r \in GwRequests : TRUE
  <2>1. gwReq = [t \in GwThreads |-> q]
    BY DEF GatewayInit
  <2>2. q \in GwRequests
    BY <1>2
  <2> HIDE DEF q
  <2> QED
    BY <2>1, <2>2
<1>4. NoAnswer \in Answers /\ ~NoAnswer.kept
  BY DEF NoAnswer, Answers
<1>5. \A t \in GwThreads : answerOf[t] = NoAnswer
  BY DEF GatewayInit
<1>6. GatewayTypeOK
  BY <1>1, <1>3, <1>4, GatewayAssumption DEF GatewayInit, GatewayTypeOK, GwSteps
<1>7. CacheInv
  <2>1. \A t \in GwThreads : answerOf[t].kept => answerOf[t].good
    BY <1>4, <1>5
  <2>2. rows = {} /\ lastHit = {}
    BY DEF GatewayInit
  <2> QED
    BY <1>1, <2>1, <2>2, GatewayAssumption DEF CacheInv, HitsAreAnswers
<1> QED
  BY <1>6, <1>7 DEF GatewayInv

\* A step that touches neither the table nor the last hit.
LEMMA TableKeeps ==
  ASSUME GatewayInv, GatewayTypeOK', UNCHANGED <<rows, lastHit>>,
         \A t \in GwThreads : answerOf'[t].kept => answerOf'[t].good
  PROVE  GatewayInv'
BY DEF GatewayInv, CacheInv, HitsAreAnswers

LEMMA LookUpKeeps ==
  ASSUME GatewayInv, NEW t \in GwThreads, LookUpCache(t)
  PROVE  GatewayInv'
<1> DEFINE mine == {row \in rows : row.ask = gwReq[t].ask /\ gwReq[t].plain}
<1>1. CASE \E row \in mine :
             /\ ~Expired(row) /\ GwGoes(t, "lookup", "idle")
             /\ lastHit' = {[row |-> row, ask |-> gwReq[t].ask,
                             path |-> gwReq[t].path, at |-> gwClock]}
             /\ UNCHANGED <<gwClock, rows, gwReq, answerOf, asked>>
  <2>1. PICK row \in mine :
             /\ ~Expired(row) /\ GwGoes(t, "lookup", "idle")
             /\ lastHit' = {[row |-> row, ask |-> gwReq[t].ask,
                             path |-> gwReq[t].path, at |-> gwClock]}
             /\ UNCHANGED <<gwClock, rows, gwReq, answerOf, asked>>
    BY <1>1
  <2> DEFINE h == [row |-> row, ask |-> gwReq[t].ask, path |-> gwReq[t].path, at |-> gwClock]
  <2>2. /\ row \in rows /\ row \in Rows /\ row.ask = gwReq[t].ask /\ gwReq[t] \in GwRequests
        /\ gwClock \in 0 .. MaxGwClock
    BY DEF GatewayInv, GatewayTypeOK
  <2>3. h \in Hits /\ h.row = row /\ h.ask = gwReq[t].ask /\ h.at = gwClock
    BY <2>2 DEF Hits, GwRequests
  <2>4. lastHit' = {h}
    BY <2>1
  <2> HIDE DEF h
  <2>5. Cardinality(lastHit') = 1 /\ lastHit' \subseteq Hits
    BY <2>3, <2>4, FS_Singleton
  <2>6. GatewayTypeOK'
    BY <2>1, <2>5 DEF GatewayInv, GatewayTypeOK, GwGoes, GwSteps
  <2>7. gwClock - row.at <= CacheTtl
    BY <2>1, <2>2, GatewayAssumption DEF Expired, Rows
  <2>8. row.good /\ row.plain
    BY <2>2 DEF GatewayInv, CacheInv
  <2> QED
    BY <2>1, <2>2, <2>3, <2>4, <2>6, <2>7, <2>8 DEF GatewayInv, CacheInv, HitsAreAnswers
<1>2. CASE /\ \A row \in mine : Expired(row)
           /\ GwGoes(t, "lookup", "connect") /\ rows' = rows \ mine
           /\ UNCHANGED <<gwClock, gwReq, answerOf, asked, lastHit>>
  <2>1. rows' \subseteq rows
    BY <1>2
  <2>2. GatewayTypeOK'
    BY <1>2, <2>1 DEF GatewayInv, GatewayTypeOK, GwGoes, GwSteps
  <2>3. /\ IsFiniteSet(rows') /\ Cardinality(rows') <= Cardinality(rows)
        /\ Cardinality(rows') \in Nat /\ Cardinality(rows) \in Nat
    BY <2>1, FS_Subset, FS_CardinalityType DEF GatewayInv, CacheInv
  <2>4. Cardinality(rows') <= MaxRows
    BY <2>3, GatewayAssumption DEF GatewayInv, CacheInv, HitsAreAnswers
  <2> QED
    BY <1>2, <2>1, <2>2, <2>3, <2>4 DEF GatewayInv, CacheInv, HitsAreAnswers
<1> QED
  BY <1>1, <1>2 DEF LookUpCache

LEMMA StoreKeeps ==
  ASSUME GatewayInv, NEW t \in GwThreads, MaybeStore(t)
  PROVE  GatewayInv'
<1>1. /\ gwAt' = [gwAt EXCEPT ![t] = "idle"] /\ answerOf' = [answerOf EXCEPT ![t] = NoAnswer]
      /\ UNCHANGED <<gwClock, gwReq, asked, lastHit>>
  BY DEF MaybeStore, GwDone, GwGoes
<1>2. NoAnswer \in Answers /\ ~NoAnswer.kept
  BY DEF NoAnswer, Answers
<1>3. \A u \in GwThreads : answerOf'[u].kept => answerOf'[u].good
  <2>1. \A u \in GwThreads : answerOf'[u] = IF u = t THEN NoAnswer ELSE answerOf[u]
    BY <1>1 DEF GatewayInv, GatewayTypeOK
  <2> QED
    BY <1>2, <2>1 DEF GatewayInv, CacheInv
<1>4. /\ gwAt' \in [GwThreads -> GwSteps] /\ answerOf' \in [GwThreads -> Answers]
      /\ gwClock' \in 0 .. MaxGwClock /\ gwReq' \in [GwThreads -> GwRequests]
      /\ asked' \in 0 .. MaxRequests /\ lastHit' \subseteq Hits /\ Cardinality(lastHit') <= 1
  BY <1>1, <1>2 DEF GatewayInv, GatewayTypeOK, GwSteps
<1>5. CASE UNCHANGED rows
  BY <1>1, <1>3, <1>4, <1>5, TableKeeps DEF GatewayInv, GatewayTypeOK
<1>6. CASE gwReq[t].plain /\ answerOf[t].kept /\
           rows' \in Evicted({row \in rows : row.ask # gwReq[t].ask} \cup {RowOf(t)})
  <2> DEFINE others == {row \in rows : row.ask # gwReq[t].ask}
             table  == others \cup {RowOf(t)}
  <2>1. /\ gwReq[t] \in GwRequests /\ answerOf[t] \in Answers /\ gwClock \in 0 .. MaxGwClock
    BY DEF GatewayInv, GatewayTypeOK
  <2>2. answerOf[t].good
    BY <1>6 DEF GatewayInv, CacheInv
  <2>3. RowOf(t) \in Rows
    BY <2>1 DEF RowOf, Rows, GwRequests, Answers
  <2>4. RowOf(t).ask = gwReq[t].ask /\ RowOf(t).good /\ RowOf(t).plain
    BY <1>6, <2>2 DEF RowOf
  <2>5. IsFiniteSet(others)
    BY FS_Subset DEF GatewayInv, CacheInv
  <2>6. /\ \A r, s \in table : r.ask = s.ask => r = s
        /\ \A r \in table : r.good /\ r.plain
    BY <2>4 DEF GatewayInv, CacheInv, HitsAreAnswers
  <2>7. table \subseteq Rows
    BY <2>3 DEF GatewayInv, GatewayTypeOK
  <2>8. rows' \in Evicted(table)
    BY <1>6
  <2>9. IsFiniteSet(table)
    BY <2>5, FS_AddElement
  <2> HIDE DEF table
  <2>10. /\ rows' \subseteq table
         /\ Cardinality(rows') = IF Cardinality(table) > MaxRows THEN MaxRows
                                 ELSE Cardinality(table)
    BY <2>8 DEF Evicted
  <2>11. IsFiniteSet(rows') /\ Cardinality(table) \in Nat
    BY <2>9, <2>10, FS_Subset, FS_CardinalityType
  <2>12. Cardinality(rows') <= MaxRows
    BY <2>10, <2>11, GatewayAssumption
  <2>13. GatewayTypeOK'
    BY <1>4, <2>7, <2>10 DEF GatewayTypeOK
  <2>14. HitsAreAnswers'
    BY <1>1, <2>6, <2>10, <2>12 DEF GatewayInv, CacheInv, HitsAreAnswers
  <2> QED
    BY <1>3, <2>6, <2>10, <2>11, <2>13, <2>14 DEF GatewayInv, CacheInv
<1> QED
  BY <1>5, <1>6 DEF MaybeStore

LEMMA GatewayNextKeeps ==
  ASSUME GatewayInv, GatewayNext
  PROVE  GatewayInv'
<1> USE DEF GwGoes, GwSteps
<1>1. ASSUME NEW t \in GwThreads, NEW q \in GwRequests, Asked(t, q) PROVE GatewayInv'
  <2>1. GatewayTypeOK'
    BY <1>1, GatewayAssumption DEF Asked, GatewayInv, GatewayTypeOK
  <2> QED
    BY <1>1, <2>1, TableKeeps DEF Asked, GatewayInv, CacheInv
<1>2. ASSUME NEW t \in GwThreads, Connect(t) PROVE GatewayInv'
  <2>1. GatewayTypeOK'
    BY <1>2 DEF Connect, GatewayInv, GatewayTypeOK
  <2> QED
    BY <1>2, <2>1, TableKeeps DEF Connect, GatewayInv, CacheInv
<1>3. ASSUME NEW t \in GwThreads, HeadComes(t) PROVE GatewayInv'
  <2>1. PICK good \in BOOLEAN :
          answerOf' = [answerOf EXCEPT ![t] = [good |-> good, kept |-> good]]
    BY <1>3 DEF HeadComes
  <2> DEFINE a == [good |-> good, kept |-> good]
  <2>2. a \in Answers /\ (a.kept => a.good)
    BY DEF Answers
  <2>3. answerOf' = [answerOf EXCEPT ![t] = a]
    BY <2>1
  <2> HIDE DEF a
  <2>4. GatewayTypeOK'
    BY <1>3, <2>2, <2>3 DEF HeadComes, GatewayInv, GatewayTypeOK
  <2>5. \A u \in GwThreads : answerOf'[u] = IF u = t THEN a ELSE answerOf[u]
    BY <2>3 DEF GatewayInv, GatewayTypeOK
  <2>6. \A u \in GwThreads : answerOf'[u].kept => answerOf'[u].good
    BY <2>2, <2>5 DEF GatewayInv, CacheInv
  <2> QED
    BY <1>3, <2>4, <2>6, TableKeeps DEF HeadComes
<1>4. ASSUME NEW t \in GwThreads, BodyEnds(t) PROVE GatewayInv'
  <2>1. PICK small \in BOOLEAN : answerOf' = [answerOf EXCEPT ![t].kept = @ /\ small]
    BY <1>4 DEF BodyEnds
  <2> DEFINE a == [answerOf[t] EXCEPT !.kept = @ /\ small]
  <2>2. answerOf[t] \in Answers /\ (answerOf[t].kept => answerOf[t].good)
    BY DEF GatewayInv, GatewayTypeOK, CacheInv
  <2>3. a \in Answers /\ (a.kept => a.good)
    BY <2>2 DEF Answers
  <2>4. answerOf' = [answerOf EXCEPT ![t] = a]
    BY <2>1 DEF GatewayInv, GatewayTypeOK
  <2> HIDE DEF a
  <2>5. GatewayTypeOK'
    BY <1>4, <2>3, <2>4 DEF BodyEnds, GatewayInv, GatewayTypeOK
  <2>6. \A u \in GwThreads : answerOf'[u] = IF u = t THEN a ELSE answerOf[u]
    BY <2>4 DEF GatewayInv, GatewayTypeOK
  <2>7. \A u \in GwThreads : answerOf'[u].kept => answerOf'[u].good
    BY <2>3, <2>6 DEF GatewayInv, CacheInv
  <2> QED
    BY <1>4, <2>5, <2>7, TableKeeps DEF BodyEnds
<1>5. ASSUME NEW t \in GwThreads, ForwardRaises(t) PROVE GatewayInv'
  <2>1. NoAnswer \in Answers /\ ~NoAnswer.kept
    BY DEF NoAnswer, Answers
  <2>2. /\ gwAt' = [gwAt EXCEPT ![t] = "idle"] /\ answerOf' = [answerOf EXCEPT ![t] = NoAnswer]
        /\ UNCHANGED <<gwClock, rows, gwReq, asked, lastHit>>
    BY <1>5 DEF ForwardRaises, GwDone
  <2>3. GatewayTypeOK'
    BY <2>1, <2>2 DEF GatewayInv, GatewayTypeOK
  <2>4. \A u \in GwThreads : answerOf'[u] = IF u = t THEN NoAnswer ELSE answerOf[u]
    BY <2>2 DEF GatewayInv, GatewayTypeOK
  <2>5. \A u \in GwThreads : answerOf'[u].kept => answerOf'[u].good
    BY <2>1, <2>4 DEF GatewayInv, CacheInv
  <2> QED
    BY <2>2, <2>3, <2>5, TableKeeps
<1>6. CASE GwTick
  <2>1. GatewayTypeOK'
    BY <1>6, GatewayAssumption DEF GwTick, GatewayInv, GatewayTypeOK
  <2> QED
    BY <1>6, <2>1, TableKeeps DEF GwTick, GatewayInv, CacheInv
<1> QED
  BY <1>1, <1>2, <1>3, <1>4, <1>5, <1>6, LookUpKeeps, StoreKeeps DEF GatewayNext

LEMMA GatewayStepKeeps ==
  ASSUME GatewayInv, [GatewayNext]_gwVars
  PROVE  GatewayInv'
<1>1. CASE GatewayNext
  BY <1>1, GatewayNextKeeps
<1>2. CASE UNCHANGED gwVars
  <2>1. GatewayTypeOK'
    BY <1>2 DEF gwVars, GatewayInv, GatewayTypeOK
  <2> QED
    BY <1>2, <2>1, TableKeeps DEF gwVars, GatewayInv, CacheInv
<1> QED
  BY <1>1, <1>2

----------------------------------------------------------------------------
(* The knowledge store.                                                     *)

KnowTypes ==
    /\ doc \in [Docs -> [heading : Headings, body : Bodies]]
    /\ DOMAIN knowledge \subseteq Keys /\ IsFiniteSet(DOMAIN knowledge)
    /\ \A k \in DOMAIN knowledge : knowledge[k] \in Row
    /\ ingestAt \in [Ingesters -> {"idle", "walk", "write", "compact"}]
    /\ todo \in [Ingesters -> SUBSET Docs]
    /\ read \in [Ingesters -> SUBSET Page]
    /\ edits \in 0 .. MaxEdits /\ alone \in [Ingesters -> BOOLEAN]
    /\ filled \in BOOLEAN /\ stirred \in BOOLEAN
    /\ DOMAIN rerun = {"left", "same"} /\ rerun.same \in BOOLEAN

\* The row a document is found under, and whether it has its text.
KeyOf(d) == <<d, doc[d].heading>>
Found(d) == KeyOf(d) \in DOMAIN knowledge /\ knowledge[KeyOf(d)].body = doc[d].body

\* Nothing came in between a run and the documents it has read.
Clean(i) == alone[i] \/ ~stirred

Runs ==
    \A i \in Ingesters :
        /\ alone[i] => Busy = {i}
        /\ ingestAt[i] # "write" => read[i] = {}
        /\ ingestAt[i] = "write" => \E page \in Page : read[i] = {page}

\* What it has read is what the document still says.
ReadsAreFresh ==
    \A i \in Ingesters : Clean(i) =>
        \A page \in read[i] : \E d \in Docs :
            page.key = KeyOf(d) /\ page.body = doc[d].body

\* What it has visited is found, but for the row it is about to write.
VisitedAreFound ==
    \A i \in Busy : Clean(i) =>
        \A d \in Docs \ todo[i] :
            \/ doc[d].body = 0 \/ Found(d)
            \/ \E page \in read[i] : page.key = KeyOf(d)

AllFound == \A d \in Docs : doc[d].body # 0 => Found(d)

KnowInv ==
    /\ KnowTypes /\ Runs /\ ReadsAreFresh /\ VisitedAreFound
    /\ filled /\ ~stirred => AllFound

LEMMA KnowInitInv == KnowInit => KnowInv
<1> SUFFICES ASSUME KnowInit PROVE KnowInv
  OBVIOUS
<1>1. filled \in BOOLEAN /\ stirred \in BOOLEAN /\ ~filled
  BY DEF KnowInit
<1>2. DOMAIN knowledge = {} /\ IsFiniteSet({})
  BY FS_EmptySet DEF KnowInit
<1>3. DOMAIN rerun = {"left", "same"} /\ rerun.same \in BOOLEAN
  BY DEF KnowInit
<1>4. doc \in [Docs -> [heading : Headings, body : Bodies]]
  BY DEF KnowInit, Headings, Bodies
<1>5. KnowTypes
  BY <1>1, <1>2, <1>3, <1>4, KnowledgeAssumption DEF KnowInit, KnowTypes
<1>6. \A i \in Ingesters : ingestAt[i] = "idle" /\ ~alone[i] /\ read[i] = {}
  BY DEF KnowInit
<1>7. Runs /\ ReadsAreFresh /\ VisitedAreFound
  BY <1>6 DEF Runs, Busy, ReadsAreFresh, VisitedAreFound
<1> QED
  BY <1>1, <1>5, <1>7 DEF KnowInv

\* An upsert adds its row and leaves the others.
LEMMA UpsertAdds ==
  ASSUME KnowTypes, NEW page \in Page, NEW cat \in Cats,
         knowledge' = Upsert(knowledge, page, cat)
  PROVE  /\ DOMAIN knowledge' = DOMAIN knowledge \cup {page.key}
         /\ DOMAIN knowledge' \subseteq Keys /\ IsFiniteSet(DOMAIN knowledge')
         /\ \A k \in DOMAIN knowledge' : knowledge'[k] \in Row
         /\ \A k \in DOMAIN knowledge \ {page.key} : knowledge'[k] = knowledge[k]
         /\ knowledge'[page.key].body = page.body
<1> DEFINE D == DOMAIN knowledge
           ids == {knowledge[k].id : k \in D}
           S == {0} \cup ids
           top == Max(S)
<1>1. top \in Nat
  <2> DEFINE f == [k \in D |-> knowledge[k].id]
  <2>1. f \in [D -> Nat] /\ IsFiniteSet(D)
    BY DEF KnowTypes, Row
  <2>2. PICK n \in Nat : \A k \in D : f[k] <= n
    BY <2>1, FinitelyManyAreBounded
  <2>3. S \subseteq Nat /\ S # {}
    BY DEF KnowTypes, Row
  <2>4. \A y \in S : y <= n
    BY <2>2
  <2> HIDE DEF S
  <2> QED
    BY <2>3, <2>4, GreatestOne
<1> HIDE DEF top
<1>2. knowledge' =
        [k \in D \cup {page.key} |-> IF k # page.key THEN knowledge[k]
           ELSE [id |-> IF k \in D THEN knowledge[k].id ELSE top + 1,
                 cat |-> cat, body |-> page.body]]
  BY DEF Upsert, top
<1>3. page.key \in Keys /\ page.body \in Bodies
  BY DEF Page
<1>4. knowledge'[page.key] =
        [id |-> IF page.key \in D THEN knowledge[page.key].id ELSE top + 1,
         cat |-> cat, body |-> page.body]
  BY <1>2
<1>5. (IF page.key \in D THEN knowledge[page.key].id ELSE top + 1) \in Nat
  BY <1>1 DEF KnowTypes, Row
<1>6. knowledge'[page.key] \in Row /\ knowledge'[page.key].body = page.body
  BY <1>3, <1>4, <1>5 DEF Row
<1>7. /\ DOMAIN knowledge' = D \cup {page.key}
      /\ \A k \in D \ {page.key} : knowledge'[k] = knowledge[k]
  BY <1>2
<1>8. IsFiniteSet(DOMAIN knowledge')
  <2>1. IsFiniteSet(D) /\ IsFiniteSet(D \cup {page.key})
    BY FS_AddElement DEF KnowTypes
  <2> QED
    BY <1>7, <2>1
<1> QED
  BY <1>3, <1>6, <1>7, <1>8 DEF KnowTypes

\* A run begins: it has visited nothing.
LEMMA IngestBeginsKeeps ==
  ASSUME KnowInv, NEW i \in Ingesters, NEW ifEmpty \in BOOLEAN, IngestBegins(i, ifEmpty)
  PROVE  KnowInv'
<1>1. /\ ingestAt[i] = "idle" /\ ingestAt' = [ingestAt EXCEPT ![i] = "walk"]
      /\ todo' = [todo EXCEPT ![i] = Docs]
      /\ alone' = [j \in Ingesters |-> j = i /\ Busy = {}]
      /\ UNCHANGED <<doc, knowledge, read, edits, filled, stirred, rerun>>
  BY DEF IngestBegins, IngestGoes
<1>2. alone' \in [Ingesters -> BOOLEAN]
  BY <1>1
<1>3. KnowTypes'
  BY <1>1, <1>2 DEF KnowInv, KnowTypes
<1>4. Busy' = Busy \cup {i} /\ \A j \in Ingesters : alone'[j] => j = i /\ Busy = {}
  BY <1>1 DEF KnowInv, KnowTypes, Busy
<1>5. Runs'
  BY <1>1, <1>4 DEF KnowInv, KnowTypes, Runs
<1>6. ReadsAreFresh'
  BY <1>1, <1>4 DEF KnowInv, Runs, ReadsAreFresh, Clean, KeyOf
<1>7. VisitedAreFound'
  <2> SUFFICES ASSUME NEW j \in Busy', Clean(j)', NEW d \in Docs \ todo'[j]
               PROVE  \/ doc'[d].body = 0 \/ Found(d)'
                      \/ \E page \in read'[j] : page.key = KeyOf(d)'
    BY DEF VisitedAreFound
  <2>1. j # i /\ j \in Busy /\ Clean(j) /\ d \in Docs \ todo[j]
    BY <1>1, <1>4 DEF Clean, KnowInv, KnowTypes, Busy
  <2> QED
    BY <1>1, <2>1 DEF KnowInv, VisitedAreFound, Found, KeyOf
<1>8. filled' /\ ~stirred' => AllFound'
  BY <1>1 DEF KnowInv, AllFound, Found, KeyOf
<1> QED
  BY <1>3, <1>5, <1>6, <1>7, <1>8 DEF KnowInv

LEMMA ReadDocKeeps ==
  ASSUME KnowInv, NEW i \in Ingesters, ReadDoc(i)
  PROVE  KnowInv'
<1> DEFINE d == Min(todo[i])
           page == [key |-> <<d, doc[d].heading>>, body |-> doc[d].body]
           new == IF doc[d].body = 0 THEN {} ELSE {page}
<1>1. /\ ingestAt[i] = "walk" /\ todo[i] # {} /\ todo' = [todo EXCEPT ![i] = @ \ {d}]
      /\ read' = [read EXCEPT ![i] = new]
      /\ UNCHANGED <<doc, knowledge, edits, alone, filled, stirred, rerun>>
  BY DEF ReadDoc
<1>2. d \in todo[i] /\ d \in Docs
  <2>1. todo[i] \subseteq Nat /\ todo[i] \subseteq Docs
    BY KnowledgeAssumption DEF KnowInv, KnowTypes
  <2>2. \E x \in todo[i] : \A y \in todo[i] : x <= y
    BY <1>1, <2>1, LeastOne
  <2> QED
    BY <2>1, <2>2 DEF Min
<1> HIDE DEF d
<1>3. page \in Page /\ page.key = KeyOf(d) /\ page.body = doc[d].body
  BY <1>2 DEF KnowInv, KnowTypes, Page, Keys, KeyOf
<1>4. (doc[d].body = 0 /\ new = {}) \/ new = {page}
  OBVIOUS
<1>5. /\ read'[i] = new /\ todo'[i] = todo[i] \ {d}
      /\ \A j \in Ingesters \ {i} : read'[j] = read[j] /\ todo'[j] = todo[j]
  BY <1>1 DEF KnowInv, KnowTypes
<1>6. ingestAt' = [ingestAt EXCEPT ![i] = IF new = {} THEN "walk" ELSE "write"]
  BY <1>5 DEF ReadDoc
<1> HIDE DEF page, new
<1>7. /\ ingestAt'[i] = IF new = {} THEN "walk" ELSE "write"
      /\ \A j \in Ingesters \ {i} : ingestAt'[j] = ingestAt[j]
      /\ ingestAt' \in [Ingesters -> {"idle", "walk", "write", "compact"}]
  BY <1>6 DEF KnowInv, KnowTypes
<1>8. KnowTypes'
  BY <1>1, <1>3, <1>4, <1>7 DEF KnowInv, KnowTypes
<1>9. Busy' = Busy /\ i \in Busy
  BY <1>1, <1>7 DEF Busy
<1>10. Runs'
  BY <1>1, <1>3, <1>4, <1>5, <1>7, <1>9 DEF KnowInv, Runs
<1>11. ReadsAreFresh'
  BY <1>1, <1>2, <1>3, <1>4, <1>5 DEF KnowInv, ReadsAreFresh, Clean, KeyOf
<1>12. VisitedAreFound'
  <2> SUFFICES ASSUME NEW j \in Busy, Clean(j), NEW e \in Docs \ todo'[j]
               PROVE  \/ doc[e].body = 0 \/ Found(e)
                      \/ \E pg \in read'[j] : pg.key = KeyOf(e)
    <3>1. \A j \in Ingesters : Clean(j)' <=> Clean(j)
      BY <1>1 DEF Clean
    <3>2. /\ \A e \in Docs : KeyOf(e)' = KeyOf(e) /\ doc'[e] = doc[e]
          /\ \A e \in Docs : Found(e)' <=> Found(e)
      BY <1>1 DEF KeyOf, Found
    <3> QED
      BY <1>9, <3>1, <3>2 DEF VisitedAreFound, Busy
  <2>1. CASE j = i /\ e = d
    BY <1>3, <1>4, <1>5, <2>1
  <2>2. CASE j = i /\ e # d
    <3>1. read[i] = {} /\ e \in Docs \ todo[i]
      BY <1>1, <1>5, <2>2 DEF KnowInv, Runs
    <3> QED
      BY <2>2, <3>1 DEF KnowInv, VisitedAreFound
  <2>3. CASE j # i
    <3>1. j \in Ingesters \ {i}
      BY <2>3 DEF Busy
    <3> QED
      BY <1>5, <3>1 DEF KnowInv, VisitedAreFound
  <2> QED
    BY <2>1, <2>2, <2>3
<1>13. filled' /\ ~stirred' => AllFound'
  BY <1>1 DEF KnowInv, AllFound, Found, KeyOf
<1> QED
  BY <1>8, <1>10, <1>11, <1>12, <1>13 DEF KnowInv

LEMMA WriteRowKeeps ==
  ASSUME KnowInv, NEW i \in Ingesters, WriteRow(i)
  PROVE  KnowInv'
<1>1. /\ ingestAt[i] = "write" /\ ingestAt' = [ingestAt EXCEPT ![i] = "walk"]
      /\ read' = [read EXCEPT ![i] = {}]
      /\ UNCHANGED <<doc, todo, edits, alone, filled, stirred, rerun>>
  BY DEF WriteRow, IngestGoes
<1>2. PICK page \in read[i] : knowledge' = Upsert(knowledge, page, "doc")
  BY DEF WriteRow
<1>3. page \in Page /\ read[i] = {page} /\ "doc" \in Cats
  BY <1>1, <1>2 DEF KnowInv, KnowTypes, Runs, Cats
<1>4. /\ DOMAIN knowledge' = DOMAIN knowledge \cup {page.key}
      /\ DOMAIN knowledge' \subseteq Keys /\ IsFiniteSet(DOMAIN knowledge')
      /\ \A k \in DOMAIN knowledge' : knowledge'[k] \in Row
      /\ \A k \in DOMAIN knowledge \ {page.key} : knowledge'[k] = knowledge[k]
      /\ knowledge'[page.key].body = page.body
  BY <1>2, <1>3, UpsertAdds DEF KnowInv
<1>5. KnowTypes'
  BY <1>1, <1>4 DEF KnowInv, KnowTypes
<1>6. /\ ingestAt'[i] = "walk" /\ read'[i] = {}
      /\ \A j \in Ingesters \ {i} : ingestAt'[j] = ingestAt[j] /\ read'[j] = read[j]
  BY <1>1 DEF KnowInv, KnowTypes
<1>7. Busy' = Busy /\ i \in Busy
  BY <1>1, <1>6 DEF Busy
<1>8. Runs'
  BY <1>1, <1>6, <1>7 DEF KnowInv, Runs
<1>9. ReadsAreFresh'
  BY <1>1, <1>6 DEF KnowInv, ReadsAreFresh, Clean, KeyOf
<1>10. \A j \in Busy : Clean(j) => Clean(i)
  BY <1>7 DEF KnowInv, Runs, Clean, Busy
<1>11. ASSUME Clean(i), NEW d \in Docs, Found(d) \/ page.key = KeyOf(d)
       PROVE  Found(d)'
  <2>1. PICK e \in Docs : page.key = KeyOf(e) /\ page.body = doc[e].body
    BY <1>3, <1>11 DEF KnowInv, ReadsAreFresh
  <2>2. CASE page.key = KeyOf(d)
    <3>1. d = e
      BY <2>1, <2>2 DEF KeyOf
    <3> QED
      BY <1>1, <1>4, <2>1, <3>1 DEF Found, KeyOf
  <2>3. CASE page.key # KeyOf(d)
    BY <1>1, <1>4, <1>11, <2>3 DEF Found, KeyOf
  <2> QED
    BY <2>2, <2>3
<1>12. VisitedAreFound'
  <2> SUFFICES ASSUME NEW j \in Busy, Clean(j), NEW d \in Docs \ todo[j]
               PROVE  \/ doc[d].body = 0 \/ Found(d)'
                      \/ \E pg \in read'[j] : pg.key = KeyOf(d)
    <3>1. \A j \in Ingesters : (Clean(j)' <=> Clean(j)) /\ todo'[j] = todo[j]
      BY <1>1 DEF Clean
    <3>2. \A d \in Docs : KeyOf(d)' = KeyOf(d) /\ doc'[d] = doc[d]
      BY <1>1 DEF KeyOf
    <3> QED
      BY <1>7, <3>1, <3>2 DEF VisitedAreFound, Busy
  <2>1. \/ doc[d].body = 0 \/ Found(d)
        \/ \E pg \in read[j] : pg.key = KeyOf(d)
    BY DEF KnowInv, VisitedAreFound
  <2>2. Clean(i)
    BY <1>10
  <2>3. CASE j = i
    BY <1>3, <1>11, <2>1, <2>2, <2>3
  <2>4. CASE j # i
    <3>1. read'[j] = read[j]
      BY <1>6, <2>4 DEF Busy
    <3> QED
      BY <1>11, <2>1, <2>2, <3>1
  <2> QED
    BY <2>3, <2>4
<1>13. filled' /\ ~stirred' => AllFound'
  <2> SUFFICES ASSUME filled, ~stirred, NEW d \in Docs, doc[d].body # 0 PROVE Found(d)'
    BY <1>1 DEF AllFound
  <2>1. Clean(i) /\ Found(d)
    BY DEF Clean, KnowInv, AllFound
  <2> QED
    BY <1>11, <2>1
<1> QED
  BY <1>5, <1>8, <1>9, <1>12, <1>13 DEF KnowInv

\* Compaction leaves some of the rows, with the text they had.
LEMMA CompactedKeeps ==
  ASSUME KnowTypes, knowledge' = Compacted(knowledge)
  PROVE  /\ DOMAIN knowledge' \subseteq DOMAIN knowledge /\ IsFiniteSet(DOMAIN knowledge')
         /\ \A k \in DOMAIN knowledge' :
               knowledge'[k] \in Row /\ knowledge'[k].body = knowledge[k].body
<1> DEFINE kept == {m \in DOMAIN knowledge : Cardinality(Newer(knowledge, m)) < MaxPerCategory}
           Rank(k) == Cardinality({m \in kept : knowledge[m].id <= knowledge[k].id})
<1>1. knowledge' = [k \in kept |-> [knowledge[k] EXCEPT !.id = Rank(k)]]
  BY DEF Compacted
<1>2. kept \subseteq DOMAIN knowledge /\ IsFiniteSet(kept)
  BY FS_Subset DEF KnowTypes
<1>3. \A k \in kept : Rank(k) \in Nat
  BY <1>2, FS_Subset, FS_CardinalityType
<1> HIDE DEF kept, Rank
<1> QED
  BY <1>1, <1>2, <1>3 DEF KnowTypes, Row

LEMMA CompactKeeps ==
  ASSUME KnowInv, NEW i \in Ingesters, Compact(i)
  PROVE  KnowInv'
<1>1. /\ ingestAt[i] = "walk" /\ todo[i] = {} /\ ingestAt' = [ingestAt EXCEPT ![i] = "idle"]
      /\ knowledge' = Compacted(knowledge) /\ alone' = [alone EXCEPT ![i] = FALSE]
      /\ UNCHANGED <<doc, todo, read, edits>>
  BY DEF Compact
<1>2. filled' \in BOOLEAN /\ stirred' \in BOOLEAN
  BY DEF Compact, KnowInv, KnowTypes
<1>3. DOMAIN rerun' = {"left", "same"} /\ rerun'.same \in BOOLEAN
  <2>1. CASE alone[i]
    BY <2>1 DEF Compact
  <2>2. CASE ~alone[i]
    BY <2>2 DEF Compact, KnowInv, KnowTypes
  <2> QED
    BY <2>1, <2>2
<1>4. /\ DOMAIN knowledge' \subseteq DOMAIN knowledge /\ IsFiniteSet(DOMAIN knowledge')
      /\ \A k \in DOMAIN knowledge' :
            knowledge'[k] \in Row /\ knowledge'[k].body = knowledge[k].body
  BY <1>1, CompactedKeeps DEF KnowInv
<1>6. KnowTypes'
  BY <1>1, <1>2, <1>3, <1>4 DEF KnowInv, KnowTypes
<1>7. /\ ingestAt'[i] = "idle" /\ ~alone'[i]
      /\ \A j \in Ingesters \ {i} : ingestAt'[j] = ingestAt[j] /\ alone'[j] = alone[j]
  BY <1>1 DEF KnowInv, KnowTypes
<1>8. Busy' = Busy \ {i} /\ i \in Busy
  BY <1>1, <1>7 DEF Busy
<1>9. \A j \in Ingesters : ~alone'[j]
  BY <1>7, <1>8 DEF KnowInv, Runs
<1>10. Runs'
  BY <1>1, <1>7, <1>9 DEF KnowInv, Runs
<1>5. ASSUME DOMAIN knowledge' = DOMAIN knowledge
      PROVE  \A d \in Docs : Found(d)' <=> Found(d)
  BY <1>1, <1>4, <1>5 DEF Found, KeyOf
<1>11. CASE DOMAIN knowledge' # DOMAIN knowledge
  <2>1. stirred'
    BY <1>11 DEF Compact
  <2> QED
    BY <1>6, <1>9, <1>10, <2>1 DEF KnowInv, ReadsAreFresh, VisitedAreFound, Clean, Busy
<1>12. CASE DOMAIN knowledge' = DOMAIN knowledge
  <2>1. ~stirred' => alone[i] \/ ~stirred
    BY <1>12 DEF Compact
  <2>2. ~stirred' => AllFound'
    <3>1. read[i] = {}
      BY <1>1 DEF KnowInv, Runs
    <3>2. Clean(i) => AllFound
      BY <1>1, <1>8, <3>1 DEF KnowInv, VisitedAreFound, AllFound
    <3> QED
      BY <1>1, <1>5, <1>12, <2>1, <3>2 DEF Clean, AllFound
  <2>3. \A j \in Ingesters : Clean(j)' => ~stirred'
    BY <1>9 DEF Clean
  <2>4. \A j \in Busy' : ~stirred' => ~stirred
    BY <1>8, <2>1 DEF KnowInv, Runs
  <2>5. ReadsAreFresh'
    <3> SUFFICES ASSUME NEW j \in Ingesters, ~stirred', NEW page \in read[j]
                 PROVE  \E d \in Docs : page.key = KeyOf(d) /\ page.body = doc[d].body
      BY <1>1, <2>3 DEF ReadsAreFresh, KeyOf
    <3>1. ingestAt[j] = "write"
      BY DEF KnowInv, Runs
    <3>2. j \in Busy'
      BY <1>1, <1>8, <3>1 DEF Busy
    <3> QED
      BY <2>4, <3>2 DEF KnowInv, ReadsAreFresh, Clean
  <2>6. VisitedAreFound'
    <3> SUFFICES ASSUME NEW j \in Busy', ~stirred', NEW d \in Docs \ todo[j]
                 PROVE  \/ doc[d].body = 0 \/ Found(d)
                        \/ \E page \in read[j] : page.key = KeyOf(d)
      BY <1>1, <1>5, <1>12, <2>3 DEF VisitedAreFound, KeyOf, Busy
    <3> QED
      BY <1>5, <1>8, <1>12, <2>4 DEF KnowInv, VisitedAreFound, Clean
  <2> QED
    BY <1>6, <1>10, <2>2, <2>5, <2>6 DEF KnowInv
<1> QED
  BY <1>11, <1>12

LEMMA StirredKeeps ==
  ASSUME KnowInv, KnowTypes', Runs', stirred', \A i \in Ingesters : ~alone'[i]
  PROVE  KnowInv'
BY DEF KnowInv, ReadsAreFresh, VisitedAreFound, Clean, Busy

\* A row of a document that is upserted by hand stirs the store; any other is
\* the row of no document.
LEMMA UpsertNoteKeeps ==
  ASSUME KnowInv, NEW key \in Keys, NEW cat \in Cats, UpsertNote(key, cat)
  PROVE  KnowInv'
<1> DEFINE page == [key |-> key, body |-> ByHand]
<1>1. knowledge' = Upsert(knowledge, page, cat) /\ UNCHANGED <<doc, ingestAt, todo, read, filled>>
  BY DEF UpsertNote
<1>2. page \in Page /\ page.key = key
  BY DEF Page, Bodies, ByHand
<1> HIDE DEF page
<1>3. /\ DOMAIN knowledge' = DOMAIN knowledge \cup {key}
      /\ DOMAIN knowledge' \subseteq Keys /\ IsFiniteSet(DOMAIN knowledge')
      /\ \A k \in DOMAIN knowledge' : knowledge'[k] \in Row
      /\ \A k \in DOMAIN knowledge \ {key} : knowledge'[k] = knowledge[k]
  BY <1>1, <1>2, UpsertAdds DEF KnowInv
<1>4. \/ UNCHANGED <<edits, alone, stirred, rerun>>
      \/ /\ edits < MaxEdits /\ edits' = edits + 1 /\ alone' = [i \in Ingesters |-> FALSE]
         /\ rerun' = [rerun EXCEPT !.left = {}] /\ stirred' = (stirred \/ key \notin Notes)
  BY DEF UpsertNote, Forgotten
<1>5. /\ edits' \in 0 .. MaxEdits /\ alone' \in [Ingesters -> BOOLEAN] /\ stirred' \in BOOLEAN
      /\ DOMAIN rerun' = {"left", "same"} /\ rerun'.same \in BOOLEAN
      /\ alone' = alone \/ \A i \in Ingesters : ~alone'[i]
      /\ stirred => stirred'
  <2>1. /\ edits \in 0 .. MaxEdits /\ MaxEdits \in Nat /\ alone \in [Ingesters -> BOOLEAN]
        /\ stirred \in BOOLEAN /\ DOMAIN rerun = {"left", "same"} /\ rerun.same \in BOOLEAN
    BY KnowledgeAssumption DEF KnowInv, KnowTypes
  <2>2. CASE UNCHANGED <<edits, alone, stirred, rerun>>
    BY <2>1, <2>2
  <2>3. CASE /\ edits < MaxEdits /\ edits' = edits + 1 /\ alone' = [i \in Ingesters |-> FALSE]
             /\ rerun' = [rerun EXCEPT !.left = {}] /\ stirred' = (stirred \/ key \notin Notes)
    <3>1. edits' \in 0 .. MaxEdits
      BY <2>1, <2>3
    <3>2. alone' \in [Ingesters -> BOOLEAN] /\ \A i \in Ingesters : ~alone'[i]
      BY <2>3
    <3>3. DOMAIN rerun' = {"left", "same"} /\ rerun'.same \in BOOLEAN
      BY <2>1, <2>3
    <3>4. stirred' \in BOOLEAN /\ (stirred => stirred')
      BY <2>1, <2>3
    <3> QED
      BY <3>1, <3>2, <3>3, <3>4
  <2> QED
    BY <1>4, <2>2, <2>3
<1>6. KnowTypes'
  BY <1>1, <1>3, <1>5 DEF KnowInv, KnowTypes
<1>7. Runs'
  BY <1>1, <1>5 DEF KnowInv, Runs, Busy
<1>8. CASE key \notin Notes
  <2>1. stirred' /\ \A i \in Ingesters : ~alone'[i]
    BY <1>4, <1>8 DEF UpsertNote
  <2> QED
    BY <1>6, <1>7, <2>1, StirredKeeps
<1>9. CASE key \in Notes
  <2>1. \A d \in Docs : KeyOf(d) # key
    BY <1>9, KnowledgeAssumption DEF KeyOf, Notes
  <2>2. \A d \in Docs : KeyOf(d)' = KeyOf(d) /\ doc'[d] = doc[d] /\ (Found(d) => Found(d)')
    BY <1>1, <1>3, <2>1 DEF Found, KeyOf
  <2>3. stirred' = stirred /\ \A i \in Ingesters : Clean(i)' => Clean(i)
    BY <1>4, <1>5, <1>9 DEF Clean, KnowInv, KnowTypes
  <2>4. ReadsAreFresh'
    BY <1>1, <2>2, <2>3 DEF KnowInv, ReadsAreFresh
  <2>5. VisitedAreFound'
    <3> SUFFICES ASSUME NEW j \in Busy, Clean(j), NEW d \in Docs \ todo[j]
                 PROVE  \/ doc[d].body = 0 \/ Found(d)'
                        \/ \E pg \in read[j] : pg.key = KeyOf(d)
      BY <1>1, <2>2, <2>3 DEF VisitedAreFound, Busy
    <3> QED
      BY <2>2 DEF KnowInv, VisitedAreFound
  <2>6. filled' /\ ~stirred' => AllFound'
    BY <1>1, <2>2, <2>3 DEF KnowInv, AllFound
  <2> QED
    BY <1>6, <1>7, <2>4, <2>5, <2>6 DEF KnowInv
<1> QED
  BY <1>8, <1>9

LEMMA KnowNextKeeps ==
  ASSUME KnowInv, KnowNext
  PROVE  KnowInv'
<1>1. ASSUME NEW d \in Docs, EditDoc(d) PROVE KnowInv'
  <2>1. PICK h \in Headings, b \in Bodies : doc' = [doc EXCEPT ![d] = [heading |-> h, body |-> b]]
    BY <1>1 DEF EditDoc
  <2>2. /\ edits < MaxEdits /\ edits' = edits + 1 /\ alone' = [i \in Ingesters |-> FALSE]
        /\ rerun' = [rerun EXCEPT !.left = {}]
        /\ UNCHANGED <<knowledge, ingestAt, todo, read, filled>>
    BY <1>1 DEF EditDoc, Forgotten
  <2>3. stirred' \in BOOLEAN /\ stirred'
    BY <1>1 DEF EditDoc
  <2>4. edits' \in 0 .. MaxEdits
    BY <2>2, KnowledgeAssumption DEF KnowInv, KnowTypes
  <2>5. alone' \in [Ingesters -> BOOLEAN] /\ \A i \in Ingesters : ~alone'[i]
    BY <2>2
  <2>6. DOMAIN rerun' = {"left", "same"} /\ rerun'.same \in BOOLEAN
    BY <2>2 DEF KnowInv, KnowTypes
  <2>7. KnowTypes'
    BY <2>1, <2>2, <2>3, <2>4, <2>5, <2>6 DEF KnowInv, KnowTypes
  <2>8. Runs'
    BY <2>2, <2>5 DEF KnowInv, Runs, Busy
  <2> QED
    BY <2>3, <2>5, <2>7, <2>8, StirredKeeps
<1>2. ASSUME NEW i \in Ingesters, IngesterDies(i) PROVE KnowInv'
  <2>1. /\ ingestAt[i] # "idle" /\ ingestAt' = [ingestAt EXCEPT ![i] = "idle"]
        /\ todo' = [todo EXCEPT ![i] = {}] /\ read' = [read EXCEPT ![i] = {}]
        /\ alone' = [alone EXCEPT ![i] = FALSE] /\ rerun' = [rerun EXCEPT !.left = {}]
        /\ UNCHANGED <<doc, knowledge, edits, filled>>
    BY <1>2 DEF IngesterDies, Forgotten
  <2>2. stirred' \in BOOLEAN /\ stirred'
    BY <1>2 DEF IngesterDies
  <2>3. DOMAIN rerun' = {"left", "same"} /\ rerun'.same \in BOOLEAN
    BY <2>1 DEF KnowInv, KnowTypes
  <2>4. KnowTypes'
    BY <2>1, <2>2, <2>3 DEF KnowInv, KnowTypes
  <2>5. i \in Busy /\ ~alone'[i] /\ \A j \in Ingesters \ {i} : alone'[j] = alone[j]
    BY <2>1 DEF KnowInv, KnowTypes, Busy
  <2>6. \A j \in Ingesters : ~alone'[j]
    BY <2>5 DEF KnowInv, Runs
  <2>7. Runs'
    BY <2>1, <2>6 DEF KnowInv, KnowTypes, Runs
  <2> QED
    BY <2>2, <2>4, <2>6, <2>7, StirredKeeps
<1> QED
  BY <1>1, <1>2, IngestBeginsKeeps, ReadDocKeeps, WriteRowKeeps, CompactKeeps,
     UpsertNoteKeeps DEF KnowNext

LEMMA KnowStepKeeps ==
  ASSUME KnowInv, [KnowNext]_knowVars
  PROVE  KnowInv'
<1>1. CASE KnowNext
  BY <1>1, KnowNextKeeps
<1>2. CASE UNCHANGED knowVars
  <2>1. KnowTypes'
    BY <1>2 DEF knowVars, KnowInv, KnowTypes
  <2>2. Runs' /\ ReadsAreFresh'
    BY <1>2 DEF knowVars, KnowInv, Runs, ReadsAreFresh, Busy, Clean, KeyOf
  <2>3. VisitedAreFound' /\ (filled' /\ ~stirred' => AllFound')
    BY <1>2 DEF knowVars, KnowInv, VisitedAreFound, AllFound, Busy, Clean, KeyOf, Found
  <2> QED
    BY <2>1, <2>2, <2>3 DEF KnowInv
<1> QED
  BY <1>1, <1>2

LEMMA KnowShows == KnowInv => DocsAreFound /\ KnowTypeOK
<1> SUFFICES ASSUME KnowInv PROVE DocsAreFound /\ KnowTypeOK
  OBVIOUS
<1>1. DocsAreFound
  BY DEF KnowInv, AllFound, Found, KeyOf, DocsAreFound
<1> QED
  BY <1>1 DEF KnowInv, KnowTypes, KnowTypeOK

----------------------------------------------------------------------------
(* Together.                                                                *)

\* A step of all is a step, or none, of each.
LEMMA StoresStep ==
  ASSUME [Next]_vars
  PROVE  /\ [PoolNext]_poolVars /\ [AuditNext]_auditVars /\ [MemNext]_memVars
         /\ [LoopStateNext]_loopStateVars /\ [GatewayNext]_gwVars /\ [MetaNext]_metaVars
         /\ [LedgerNext]_ledgerVars /\ [PbNext]_pbVars /\ [KnowNext]_knowVars
<1>1. CASE UNCHANGED vars
  BY <1>1 DEF vars
<1>2. CASE Next
  BY <1>2 DEF Next, Pool, Audit, Memory, LoopState, Gateway, Meta, Ledger, Books,
              KnowledgeBase, Still
<1> QED
  BY <1>1, <1>2

\* What all of them keep.
StoresInv ==
    /\ PoolInv /\ AuditInv /\ MemInv /\ MemTypeOK /\ LoopStateInv /\ FewDeltas
    /\ GatewayInv /\ MetaInv /\ LedgerInv /\ PbInv /\ KnowInv

LEMMA StoresKeep == Init => StoresInv
BY PoolInitInv, AuditInitInv, MemInitInv, MemTypedInit, LoopStateInitInv, FewDeltasInit,
   GatewayInitInv, MetaInitInv, LedgerInitInv, PbInitInv, KnowInitInv DEF Init, StoresInv

LEMMA StoresStay == StoresInv /\ [Next]_vars => StoresInv'
BY StoresStep, PoolStepKeeps, AuditStepKeeps, MemStepKeeps, MemTypes, LoopStateStepKeeps,
   FewDeltasStay, GatewayStepKeeps, MetaStepKeeps, LedgerStepKeeps, PbStepKeeps, KnowStepKeeps
   DEF StoresInv

\* The merges of the memory file and the updates of the loop state are kept,
\* wherever a process dies, unless somebody waited the lock out, or saved a
\* state it had read before (update_memory of store.py, update_state and
\* append_delta of state.py), for any number of processes and any cap.
THEOREM UpdatesStay == Spec => []UpdatesKept
<1>1. StoresInv => UpdatesKept
  BY DEF StoresInv, MemInv, LoopStateInv, ShowsAll, StateKept, UpdatesKept
<1> QED
  BY <1>1, StoresKeep, StoresStay, PTL DEF Spec

\* What is appended under a lock stays, whoever appends at the same time and
\* dies wherever it may: every entry of the audit log keeps its place
\* (append_entry of audit_log.py), the ledger is the last cycles that were
\* recorded (append_cycle of performance_ledger.py), and no lesson leaves the
\* playbooks but by the limit or with a torn index (curate_from_reflection of
\* playbooks.py).
THEOREM RecordsStay == Spec => []RecordsKept
<1>1. StoresInv => RecordsKept
  BY LedgerShows, PbShows DEF StoresInv, AuditInv, RecordsKept
<1> QED
  BY <1>1, StoresKeep, StoresStay, PTL DEF Spec

\* An id means one thing to all who know it: a question of the pool
\* (append_question of questions_collector.py), the cycle a trajectory was
\* harvested from, and the proposal of a block in the guide (meta/store.py).
THEOREM IdsStay == Spec => []IdsMeanOneThing
<1>1. StoresInv => IdsMeanOneThing
  BY PoolShows, MetaShows DEF StoresInv, IdsMeanOneThing
<1> QED
  BY <1>1, StoresKeep, StoresStay, PTL DEF Spec

\* What is looked up is right: a hit of the answer cache is the answer to what
\* was asked (gateway.py), and a document that an ingest left to itself has
\* visited is found with the text it had (knowledge.py).
THEOREM LookUpsStayRight == Spec => []LookUpsAreRight
<1>1. StoresInv => LookUpsAreRight
  BY KnowShows DEF StoresInv, GatewayInv, CacheInv, LookUpsAreRight
<1> QED
  BY <1>1, StoresKeep, StoresStay, PTL DEF Spec

\* Every variable of the nine stores has its type, for any number of processes
\* and any limits (questions_collector.py, audit_log.py, store.py, state.py,
\* gateway.py, meta/store.py, performance_ledger.py, playbooks.py, knowledge.py).
THEOREM StoresTypes == Spec => []TypeOK
<1>1. StoresInv => TypeOK
  BY PoolShows, AuditTyped, LoopStateTyped, MetaShows, LedgerShows, PbShows, KnowShows
     DEF StoresInv, GatewayInv, TypeOK
<1> QED
  BY <1>1, StoresKeep, StoresStay, PTL DEF Spec

=============================================================================
