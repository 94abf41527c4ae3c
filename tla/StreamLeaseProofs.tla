------------------------- MODULE StreamLeaseProofs -------------------------
(***************************************************************************)
(* What module StreamLease promises, for any number of processes, names    *)
(* and tokens, and any number of restarts.                                 *)
(*                                                                         *)
(* HeldIsRegistered is not inductive: it does not say why a held record    *)
(* reads as live.  The reason is its start time (HeldRecord), and start    *)
(* times grow, so that no later process has that of a dead one (TypeOK and *)
(* Backed).  Of a claim at work ClaimSound says what its looks are worth   *)
(* when it saves: nobody can have come to hold what was dead at the first, *)
(* and with /proc what was dead then is dead at the second.                *)
(***************************************************************************)
EXTENDS StreamLease, TLAPS

\* What a process holds is recorded with its PID and its own start time.
HeldRecord ==
    \A p \in Pids, n \in Names : held[p][n] # {} =>
        /\ Running(p)
        /\ leases[n] # NoLease
        /\ leases[n].pid = p
        /\ leases[n].owned_paths = held[p][n]
        /\ leases[n].starttime = ProcStarttime(p)

\* With /proc, a record whose start time is that of a running process is held.
Backed ==
    procfs => \A n \in Names : leases[n] # NoLease =>
        /\ leases[n].starttime # 0
        /\ start[leases[n].pid] = leases[n].starttime => held[leases[n].pid][n] # {}

\* The claim at work has looked at this record for the first time.
Checked(m) == claiming.at = "drop" \/ m \notin claiming.left

NobodyHolds(m) == \A q \in Pids : held[q][m] = {}

ClaimSound ==
    claiming # NoClaim =>
        /\ Running(claiming.pid)
        /\ claiming.at = "drop" =>
              \A q \in Pids \ {claiming.pid} : held[q][claiming.name] = {}
        /\ \A m \in claiming.dropped : NobodyHolds(m)
        /\ \A m \in Names \ {claiming.name} :
              (/\ leases[m] # NoLease
               /\ Overlap(claiming.paths, leases[m].owned_paths)
               /\ Checked(m))
              => /\ NobodyHolds(m)
                 /\ procfs => LeasePidDead(leases[m])
                 /\ (procfs /\ claiming.at = "drop" /\ m \notin claiming.left)
                      => m \in claiming.dropped

IInv == TypeOK /\ HeldRecord /\ Backed /\ RegistryDisjoint /\ ClaimSound

----------------------------------------------------------------------------
(* Facts about the operators.                                               *)

\* Overlap does not depend on the order of the two claims.
LEMMA OverlapSymmetric ==
    ASSUME NEW s, NEW t
    PROVE  Overlap(s, t) <=> Overlap(t, s)
BY DEF Overlap

\* Nothing overlaps the empty claim.
LEMMA OverlapEmpty ==
    ASSUME NEW s
    PROVE  ~Overlap(s, {}) /\ ~Overlap({}, s)
BY DEF Overlap

\* NoLease is never mistaken for a record.
LEMMA RecordIsNotNoLease ==
    ASSUME NEW p \in Pids, NEW paths \in Claims, TypeOK
    PROVE  NewRecord(p, paths) \in Lease /\ NewRecord(p, paths) # NoLease
<1>1. ProcStarttime(p) \in Nat
  BY DEF ProcStarttime, TypeOK
<1>2. NewRecord(p, paths) \in Lease
  BY <1>1 DEF NewRecord, Lease
<1> QED
  BY <1>2, LeaseAssumption

\* What is at work is a claim, and is not mistaken for none.
LEMMA ClaimIsNotNoClaim ==
    ASSUME NEW c \in Claiming
    PROVE  c # NoClaim
BY LeaseAssumption

LEMMA AtWork ==
    ASSUME TypeOK, claiming # NoClaim
    PROVE  /\ claiming \in Claiming
           /\ claiming.pid \in Pids /\ claiming.name \in Names
           /\ claiming.paths \in Claims
           /\ claiming.at \in {"check", "drop"}
           /\ claiming.left \subseteq Names /\ claiming.dropped \subseteq Names
BY DEF TypeOK, Claiming

\* A record that somebody holds reads as live, so a dead one nobody holds.
LEMMA DeadIsUnheld ==
    ASSUME IInv, NEW m \in Names, leases[m] = NoLease \/ LeasePidDead(leases[m])
    PROVE  NobodyHolds(m)
BY DEF IInv, HeldRecord, NobodyHolds, LeasePidDead, Running, ProcStarttime

\* A held record reads as live (stream_lease.py:113-124).
LEMMA HeldIsLive ==
    ASSUME IInv, NEW p \in Pids, NEW n \in Names, held[p][n] # {}
    PROVE  Live(n) /\ leases[n].pid = p /\ leases[n].owned_paths = held[p][n]
BY DEF IInv, HeldRecord, Live, LeasePidDead, Running, ProcStarttime

----------------------------------------------------------------------------
(* The invariant holds at the start and is kept by every step.              *)

LEMMA InitInvariant == Init => IInv
BY DEF Init, IInv, TypeOK, HeldRecord, Backed, RegistryDisjoint, ClaimSound

\* The steps of a claim before it is saved change nothing but the claim.
LEMMA LooksKeep ==
    ASSUME IInv, UNCHANGED <<leases, readable, procfs, start, clock, held>>,
           claiming' \in Claiming \cup {NoClaim}, ClaimSound'
    PROVE  IInv'
<1>1. TypeOK'
  BY DEF IInv, TypeOK
<1>2. HeldRecord' /\ Backed' /\ RegistryDisjoint'
  BY DEF IInv, HeldRecord, Backed, RegistryDisjoint, Abandoned, Running, ProcStarttime
<1> QED
  BY <1>1, <1>2 DEF IInv

\* claim begins: nothing has been looked at.
LEMMA BeginKeeps ==
    ASSUME IInv, NEW p \in Pids, NEW n \in Names, NEW paths \in Claims,
           ClaimBegins(p, n, paths)
    PROVE  IInv'
<1>1. claiming' \in Claiming
  BY DEF ClaimBegins, Claiming
<1>2. /\ claiming'.pid = p /\ claiming'.name = n /\ claiming'.at = "check"
      /\ claiming'.left = Names \ {n} /\ claiming'.dropped = {}
  BY DEF ClaimBegins
<1>3. ClaimSound'
  BY <1>2 DEF ClaimBegins, ClaimSound, Checked, Running
<1> QED
  BY <1>1, <1>3, LooksKeep DEF ClaimBegins

\* The first look at another record: one that overlaps and is passed is dead.
LEMMA CheckOtherKeeps ==
    ASSUME IInv, NEW n \in Names, CheckOther(n)
    PROVE  IInv'
<1>1. /\ claiming # NoClaim /\ claiming.at = "check" /\ n \in claiming.left
      /\ Live(n) => ~Overlap(claiming.paths, leases[n].owned_paths)
      /\ UNCHANGED <<leases, readable, procfs, start, clock, held>>
  BY DEF CheckOther
<1>2. claiming \in Claiming
  BY <1>1, AtWork DEF IInv
<1>3. /\ claiming' \in Claiming
      /\ claiming'.pid = claiming.pid /\ claiming'.name = claiming.name
      /\ claiming'.paths = claiming.paths /\ claiming'.at = "check"
      /\ claiming'.left = claiming.left \ {n} /\ claiming'.dropped = claiming.dropped
  BY <1>1, <1>2 DEF CheckOther, Claiming
<1>4. \A m \in Names : NobodyHolds(m)' <=> NobodyHolds(m)
  BY <1>1 DEF NobodyHolds
<1>5. \A m \in Names : LeasePidDead(leases[m])' <=> LeasePidDead(leases[m])
  BY <1>1 DEF LeasePidDead, Running, ProcStarttime
<1>6. Running(claiming.pid)' /\ \A m \in claiming'.dropped : NobodyHolds(m)'
  BY <1>1, <1>2, <1>3, <1>4 DEF IInv, ClaimSound, Running, Claiming
<1>7. ASSUME NEW m \in Names \ {claiming.name}, leases[m] # NoLease,
             Overlap(claiming.paths, leases[m].owned_paths),
             m = n \/ m \notin claiming.left
      PROVE  NobodyHolds(m) /\ (procfs => LeasePidDead(leases[m]))
  <2>1. CASE m = n
    <3>1. LeasePidDead(leases[m])
      BY <1>1, <1>7, <2>1 DEF Live
    <3> QED
      BY <3>1, DeadIsUnheld
  <2>2. CASE m \notin claiming.left
    BY <1>1, <1>7, <2>2 DEF IInv, ClaimSound, Checked
  <2> QED
    BY <1>7, <2>1, <2>2
<1>8. ClaimSound'
  BY <1>1, <1>3, <1>4, <1>5, <1>6, <1>7 DEF ClaimSound, Checked, Running
<1> QED
  BY <1>1, <1>3, <1>8, LooksKeep

\* The look at the own record: nobody else holds this name.
LEMMA CheckOwnKeeps ==
    ASSUME IInv, CheckOwn
    PROVE  IInv'
<1>1. /\ claiming # NoClaim /\ claiming.at = "check" /\ claiming.left = {}
      /\ Live(claiming.name) => leases[claiming.name].pid = claiming.pid
      /\ UNCHANGED <<leases, readable, procfs, start, clock, held>>
  BY DEF CheckOwn
<1>2. claiming \in Claiming
  BY <1>1, AtWork DEF IInv
<1>3. /\ claiming' \in Claiming
      /\ claiming'.pid = claiming.pid /\ claiming'.name = claiming.name
      /\ claiming'.paths = claiming.paths /\ claiming'.at = "drop"
      /\ claiming'.left = Names \ {claiming.name} /\ claiming'.dropped = claiming.dropped
  BY <1>1, <1>2 DEF CheckOwn, Claiming
<1>4. \A m \in Names : NobodyHolds(m)' <=> NobodyHolds(m)
  BY <1>1 DEF NobodyHolds
<1>5. \A m \in Names : LeasePidDead(leases[m])' <=> LeasePidDead(leases[m])
  BY <1>1 DEF LeasePidDead, Running, ProcStarttime
<1>6. Running(claiming.pid)' /\ \A m \in claiming'.dropped : NobodyHolds(m)'
  BY <1>1, <1>2, <1>3, <1>4 DEF IInv, ClaimSound, Running, Claiming
<1>7. \A q \in Pids \ {claiming.pid} : held[q][claiming.name] = {}
  BY <1>1, <1>2, HeldIsLive DEF Claiming
<1>8. \A m \in Names \ {claiming.name} :
        (leases[m] # NoLease /\ Overlap(claiming.paths, leases[m].owned_paths))
        => NobodyHolds(m) /\ (procfs => LeasePidDead(leases[m]))
  BY <1>1 DEF IInv, ClaimSound, Checked
<1>9. ClaimSound'
  BY <1>1, <1>3, <1>4, <1>5, <1>6, <1>7, <1>8 DEF ClaimSound, Running
<1> QED
  BY <1>1, <1>3, <1>9, LooksKeep

\* The second look: a dead record is dropped, and with /proc it is still dead.
LEMMA DropKeeps ==
    ASSUME IInv, NEW n \in Names, DropOther(n)
    PROVE  IInv'
<1> DEFINE dies == /\ leases[n] # NoLease
                   /\ LeasePidDead(leases[n])
                   /\ Overlap(claiming.paths, leases[n].owned_paths)
           drops == IF dies THEN claiming.dropped \cup {n} ELSE claiming.dropped
<1>1. /\ claiming # NoClaim /\ claiming.at = "drop" /\ n \in claiming.left
      /\ UNCHANGED <<leases, readable, procfs, start, clock, held>>
  BY DEF DropOther
<1>2. claiming \in Claiming
  BY <1>1, AtWork DEF IInv
<1>3. claiming' = [claiming EXCEPT !.left = claiming.left \ {n}, !.dropped = drops]
  BY <1>1, <1>2 DEF DropOther, Claiming
<1>4. drops \in SUBSET Names
  BY <1>2 DEF Claiming
<1>5. dies => NobodyHolds(n)
  BY DeadIsUnheld
<1>6. \A m \in drops : m \in claiming.dropped \/ (m = n /\ dies)
  OBVIOUS
<1>7. claiming.dropped \subseteq drops /\ (dies => n \in drops)
  OBVIOUS
<1>8. procfs /\ n # claiming.name /\ leases[n] # NoLease
        /\ Overlap(claiming.paths, leases[n].owned_paths) => n \in drops
  BY <1>1 DEF IInv, ClaimSound, Checked
<1> HIDE DEF drops, dies
<1>9. /\ claiming' \in Claiming
      /\ claiming'.pid = claiming.pid /\ claiming'.name = claiming.name
      /\ claiming'.paths = claiming.paths /\ claiming'.at = "drop"
      /\ claiming'.left = claiming.left \ {n} /\ claiming'.dropped = drops
  BY <1>1, <1>2, <1>3, <1>4 DEF Claiming
<1>10. \A m \in Names : NobodyHolds(m)' <=> NobodyHolds(m)
  BY <1>1 DEF NobodyHolds
<1>11. \A m \in Names : LeasePidDead(leases[m])' <=> LeasePidDead(leases[m])
  BY <1>1 DEF LeasePidDead, Running, ProcStarttime
<1>12. \A m \in drops : NobodyHolds(m)'
  BY <1>1, <1>2, <1>4, <1>5, <1>6, <1>10 DEF IInv, ClaimSound, Claiming
<1>13. Running(claiming.pid)'
  BY <1>1, <1>9 DEF IInv, ClaimSound, Running
<1>14. \A q \in Pids \ {claiming'.pid} : held'[q][claiming'.name] = {}
  BY <1>1, <1>9 DEF IInv, ClaimSound
<1>15. ASSUME NEW m \in Names \ {claiming.name}, leases[m] # NoLease,
              Overlap(claiming.paths, leases[m].owned_paths)
       PROVE  /\ NobodyHolds(m)
              /\ procfs => LeasePidDead(leases[m])
              /\ (procfs /\ m \notin claiming.left \ {n}) => m \in drops
  BY <1>1, <1>7, <1>8, <1>15 DEF IInv, ClaimSound, Checked
<1>16. ClaimSound'
  BY <1>1, <1>9, <1>10, <1>11, <1>12, <1>13, <1>14, <1>15 DEF ClaimSound
<1> QED
  BY <1>1, <1>9, <1>16, LooksKeep

\* The claim is saved: the new record overlaps no record that is left and that
\* somebody holds, and takes the place of none that is held.
LEMMA SaveKeeps ==
    ASSUME IInv, SaveClaim
    PROVE  IInv'
<1> DEFINE p == claiming.pid
           n == claiming.name
           paths == claiming.paths
           rec == NewRecord(p, paths)
<1>1. /\ claiming # NoClaim /\ claiming.at = "drop" /\ claiming.left = {}
      /\ p \in Pids /\ n \in Names /\ paths \in Claims
      /\ claiming.dropped \subseteq Names
  BY AtWork DEF SaveClaim, IInv
<1>2. rec \in Lease /\ rec # NoLease
  BY <1>1, RecordIsNotNoLease DEF IInv
<1>3. rec.pid = p /\ rec.owned_paths = paths /\ rec.starttime = ProcStarttime(p)
  BY DEF NewRecord
<1>4. /\ readable' = TRUE
      /\ UNCHANGED <<procfs, start, clock>>
      /\ claiming' = NoClaim
      /\ paths # {} /\ paths \in SUBSET Tokens
      /\ Running(p)
      /\ \A q \in Pids \ {p} : held[q][n] = {}
      /\ \A m \in claiming.dropped : NobodyHolds(m)
  BY <1>1 DEF SaveClaim, Claims, IInv, ClaimSound
<1>5. \A m \in Names \ {n} :
        (leases[m] # NoLease /\ Overlap(paths, leases[m].owned_paths))
        => NobodyHolds(m) /\ (procfs => m \in claiming.dropped)
  BY <1>1 DEF IInv, ClaimSound, Checked
<1>6. /\ leases' = [m \in Names |-> IF m = n THEN rec
                                    ELSE IF m \in claiming.dropped THEN NoLease
                                    ELSE leases[m]]
      /\ held' = [held EXCEPT ![p][n] = paths]
  BY DEF SaveClaim
<1> HIDE DEF p, n, paths, rec
<1>7. /\ leases'[n] = rec
      /\ \A m \in Names \ {n} :
            \/ leases'[m] = NoLease /\ m \in claiming.dropped
            \/ leases'[m] = leases[m] /\ m \notin claiming.dropped
  BY <1>1, <1>6
<1>8. \A q \in Pids, m \in Names :
        held'[q][m] = IF q = p /\ m = n THEN paths ELSE held[q][m]
  BY <1>1, <1>6 DEF IInv, TypeOK
<1>9. TypeOK'
  <2>1. leases' \in [Names -> Lease \cup {NoLease}]
    BY <1>2, <1>6 DEF IInv, TypeOK
  <2>2. held' \in [Pids -> [Names -> SUBSET Tokens]]
    BY <1>1, <1>4, <1>6 DEF IInv, TypeOK
  <2>3. rec.starttime < clock
    BY <1>1, <1>3 DEF IInv, TypeOK, ProcStarttime
  <2>4. \A m \in Names : leases'[m] # NoLease => leases'[m].starttime < clock
    BY <1>7, <2>3 DEF IInv, TypeOK
  <2> QED
    BY <1>4, <2>1, <2>2, <2>4 DEF IInv, TypeOK
<1>10. HeldRecord'
  <2> SUFFICES ASSUME NEW q \in Pids, NEW m \in Names, held'[q][m] # {}
               PROVE  /\ Running(q)
                      /\ leases'[m] # NoLease
                      /\ leases'[m].pid = q
                      /\ leases'[m].owned_paths = held'[q][m]
                      /\ leases'[m].starttime = ProcStarttime(q)
    BY <1>4 DEF HeldRecord, Running, ProcStarttime
  <2>1. CASE q = p /\ m = n
    BY <2>1, <1>2, <1>3, <1>4, <1>7, <1>8
  <2>2. CASE ~(q = p /\ m = n)
    <3>1. held'[q][m] = held[q][m] /\ m # n
      BY <2>2, <1>4, <1>8
    <3>2. m \notin claiming.dropped
      BY <3>1, <1>4 DEF NobodyHolds
    <3> QED
      BY <3>1, <3>2, <1>7 DEF IInv, HeldRecord
  <2> QED
    BY <2>1, <2>2
<1>11. Backed'
  <2> SUFFICES ASSUME procfs, NEW m \in Names, leases'[m] # NoLease
               PROVE  /\ leases'[m].starttime # 0
                      /\ start[leases'[m].pid] = leases'[m].starttime
                            => held'[leases'[m].pid][m] # {}
    BY <1>4 DEF Backed
  <2>1. CASE m = n
    BY <2>1, <1>1, <1>3, <1>4, <1>7, <1>8 DEF ProcStarttime, Running
  <2>2. CASE m # n
    <3>1. leases'[m] = leases[m] /\ leases[m] # NoLease
      BY <2>2, <1>7
    <3>2. leases[m].pid \in Pids
      BY <3>1 DEF IInv, TypeOK, Lease
    <3>3. held'[leases[m].pid][m] = held[leases[m].pid][m]
      BY <2>2, <3>2, <1>8
    <3> QED
      BY <3>1, <3>3 DEF IInv, Backed
  <2> QED
    BY <2>1, <2>2
<1>12. RegistryDisjoint'
  <2>1. ASSUME NEW m \in Names \ {n}, leases'[m] # NoLease
        PROVE  /\ leases'[m] = leases[m] /\ m \notin claiming.dropped
               /\ leases[m].pid \in Pids
               /\ Abandoned(m)' <=> Abandoned(m)
    <3>1. leases'[m] = leases[m] /\ m \notin claiming.dropped
      BY <1>7, <2>1
    <3>2. leases[m].pid \in Pids
      BY <2>1, <3>1 DEF IInv, TypeOK, Lease
    <3>3. held'[leases'[m].pid][m] = held[leases[m].pid][m]
      BY <1>8, <3>1, <3>2
    <3> QED
      BY <3>1, <3>2, <3>3 DEF Abandoned
  <2>2. \A m \in Names \ {n} :
          (leases'[m] # NoLease /\ Overlap(paths, leases'[m].owned_paths))
          => ~procfs /\ Abandoned(m)'
    <3> SUFFICES ASSUME NEW m \in Names \ {n}, leases'[m] # NoLease,
                        Overlap(paths, leases'[m].owned_paths)
                 PROVE  ~procfs /\ Abandoned(m)'
      OBVIOUS
    <3>1. leases'[m] = leases[m] /\ m \notin claiming.dropped /\ leases[m].pid \in Pids
      BY <2>1
    <3>2. NobodyHolds(m) /\ (procfs => m \in claiming.dropped)
      BY <3>1, <1>5
    <3>3. Abandoned(m)
      BY <3>1, <3>2 DEF NobodyHolds, Abandoned
    <3> QED
      BY <3>1, <3>2, <3>3, <2>1
  <2>3. ASSUME NEW k \in Names, NEW m \in Names, k # m,
               leases'[k] # NoLease, leases'[m] # NoLease,
               Overlap(leases'[k].owned_paths, leases'[m].owned_paths)
        PROVE  ~procfs /\ (Abandoned(k)' \/ Abandoned(m)')
    <3>1. CASE k = n
      BY <3>1, <2>3, <2>2, <1>3, <1>7
    <3>2. CASE m = n
      BY <3>2, <2>3, <2>2, <1>3, <1>7, OverlapSymmetric
    <3>3. CASE k # n /\ m # n
      BY <3>3, <2>3, <2>1 DEF IInv, RegistryDisjoint
    <3> QED
      BY <3>1, <3>2, <3>3
  <2> QED
    BY <2>3, <1>4 DEF RegistryDisjoint
<1>13. ClaimSound'
  BY <1>4 DEF ClaimSound
<1> QED
  BY <1>9, <1>10, <1>11, <1>12, <1>13 DEF IInv

\* renew and the passing of time touch only the time to live of a record.
LEMMA TtlKeeps ==
    ASSUME IInv, NEW n \in Names, leases[n] # NoLease, NEW b \in BOOLEAN,
           leases' = [leases EXCEPT ![n].expired = b],
           UNCHANGED <<readable, procfs, start, clock, held, claiming>>
    PROVE  IInv'
<1> DEFINE rec == [leases[n] EXCEPT !.expired = b]
<1>1. leases[n] \in Lease
  BY DEF IInv, TypeOK
<1>2. rec \in Lease /\ rec # NoLease
  <2>1. rec \in Lease
    BY <1>1 DEF Lease
  <2> QED
    BY <2>1, LeaseAssumption
<1>3. /\ rec.owned_paths = leases[n].owned_paths
      /\ rec.pid = leases[n].pid
      /\ rec.starttime = leases[n].starttime
  BY <1>1 DEF Lease
<1>4. leases' = [leases EXCEPT ![n] = rec]
  OBVIOUS
<1>5. leases'[n] = rec /\ \A m \in Names \ {n} : leases'[m] = leases[m]
  BY <1>4 DEF IInv, TypeOK
<1> HIDE DEF rec
<1>6. TypeOK'
  BY <1>2, <1>3, <1>4, <1>5 DEF IInv, TypeOK
<1>7. HeldRecord'
  BY <1>2, <1>3, <1>5 DEF IInv, HeldRecord, Running, ProcStarttime
<1>8. Backed'
  BY <1>2, <1>3, <1>5 DEF IInv, Backed
<1>9. RegistryDisjoint'
  BY <1>2, <1>3, <1>5 DEF IInv, RegistryDisjoint, Abandoned
<1>10. \A m \in Names :
        /\ leases'[m] # NoLease <=> leases[m] # NoLease
        /\ leases'[m].owned_paths = leases[m].owned_paths
        /\ LeasePidDead(leases[m])' <=> LeasePidDead(leases[m])
        /\ NobodyHolds(m)' <=> NobodyHolds(m)
  BY <1>2, <1>3, <1>5 DEF LeasePidDead, Running, ProcStarttime, NobodyHolds
<1>11. ClaimSound'
  <2> SUFFICES ASSUME claiming # NoClaim
               PROVE  ClaimSound'
    BY DEF ClaimSound
  <2>1. claiming.dropped \subseteq Names
    BY AtWork DEF IInv
  <2> QED
    BY <1>10, <2>1 DEF IInv, ClaimSound, Checked, Running
<1> QED
  BY <1>6, <1>7, <1>8, <1>9, <1>11 DEF IInv

\* release takes away a record that no other process holds.
LEMMA ReleaseKeeps ==
    ASSUME IInv, NEW p \in Pids, NEW n \in Names, Release(p, n)
    PROVE  IInv'
<1>1. /\ leases'[n] = NoLease
      /\ \A m \in Names \ {n} : leases'[m] = leases[m]
      /\ claiming = NoClaim
      /\ UNCHANGED <<readable, procfs, start, clock, claiming>>
  BY DEF Release, IInv, TypeOK
<1>2. \A q \in Pids, m \in Names :
        held'[q][m] = IF q = p /\ m = n THEN {} ELSE held[q][m]
  BY DEF Release, IInv, TypeOK
<1>3. \A q \in Pids : held'[q][n] = {}
  <2> SUFFICES ASSUME NEW q \in Pids, held[q][n] # {}
               PROVE  q = p
    BY <1>2
  <2> QED
    BY HeldIsLive DEF Release
<1>4. TypeOK'
  BY <1>1 DEF Release, IInv, TypeOK
<1>5. HeldRecord'
  BY <1>1, <1>2, <1>3 DEF IInv, HeldRecord, Running, ProcStarttime
<1>6. Backed'
  <2> SUFFICES ASSUME procfs, NEW m \in Names \ {n}, leases[m] # NoLease
               PROVE  /\ leases[m].starttime # 0
                      /\ start[leases[m].pid] = leases[m].starttime
                            => held'[leases[m].pid][m] # {}
    BY <1>1 DEF Backed
  <2>1. leases[m].pid \in Pids
    BY DEF IInv, TypeOK, Lease
  <2> QED
    BY <1>2, <2>1 DEF IInv, Backed
<1>7. RegistryDisjoint'
  <2>1. \A m \in Names : leases[m] # NoLease => leases[m].pid \in Pids
    BY DEF IInv, TypeOK, Lease
  <2>2. \A m \in Names \ {n} : leases[m] # NoLease => (Abandoned(m)' <=> Abandoned(m))
    BY <1>1, <1>2, <2>1 DEF Abandoned
  <2> QED
    BY <1>1, <2>2 DEF IInv, RegistryDisjoint
<1>8. ClaimSound'
  BY <1>1 DEF ClaimSound
<1> QED
  BY <1>4, <1>5, <1>6, <1>7, <1>8 DEF IInv

\* A process that exits leaves its records, which read as dead from now on.
LEMMA ExitKeeps ==
    ASSUME IInv, NEW p \in Pids, Exit(p)
    PROVE  IInv'
<1>1. /\ UNCHANGED <<leases, readable, procfs, clock>>
      /\ \A q \in Pids : start'[q] = IF q = p THEN 0 ELSE start[q]
      /\ \A q \in Pids, m \in Names :
            held'[q][m] = IF q = p THEN {} ELSE held[q][m]
      /\ claiming' = NoClaim \/ (claiming' = claiming /\ claiming.pid # p)
  BY DEF Exit, IInv, TypeOK
<1>2. TypeOK'
  BY <1>1 DEF Exit, IInv, TypeOK
<1>3. HeldRecord'
  BY <1>1 DEF IInv, HeldRecord, Running, ProcStarttime
<1>4. Backed'
  <2> SUFFICES ASSUME procfs, NEW m \in Names, leases[m] # NoLease
               PROVE  /\ leases[m].starttime # 0
                      /\ start'[leases[m].pid] = leases[m].starttime
                            => held'[leases[m].pid][m] # {}
    BY <1>1 DEF Backed
  <2>1. leases[m].pid \in Pids
    BY DEF IInv, TypeOK, Lease
  <2> QED
    BY <1>1, <2>1 DEF IInv, Backed
<1>5. RegistryDisjoint'
  <2>1. \A m \in Names : leases[m] # NoLease => leases[m].pid \in Pids
    BY DEF IInv, TypeOK, Lease
  <2>2. \A m \in Names : leases[m] # NoLease /\ Abandoned(m) => Abandoned(m)'
    BY <1>1, <2>1 DEF Abandoned
  <2> QED
    BY <1>1, <2>2 DEF IInv, RegistryDisjoint
<1>6. ASSUME claiming' # NoClaim
      PROVE  ClaimSound'
  <2>1. claiming' = claiming /\ claiming.pid # p
    BY <1>1, <1>6
  <2>2. claiming.pid \in Pids /\ claiming.name \in Names /\ claiming.dropped \subseteq Names
    BY <1>6, <2>1, AtWork DEF IInv
  <2>3. \A m \in Names : NobodyHolds(m) => NobodyHolds(m)'
    BY <1>1 DEF NobodyHolds
  <2>4. \A m \in Names : leases[m] # NoLease /\ LeasePidDead(leases[m])
                              => LeasePidDead(leases[m])'
    <3>1. \A m \in Names : leases[m] # NoLease => leases[m].pid \in Pids
      BY DEF IInv, TypeOK, Lease
    <3> QED
      BY <1>1, <3>1 DEF LeasePidDead, Running, ProcStarttime
  <2>5. Running(claiming.pid)'
    BY <1>1, <1>6, <2>1, <2>2 DEF IInv, ClaimSound, Running
  <2>6. claiming.at = "drop" => \A q \in Pids \ {claiming.pid} : held'[q][claiming.name] = {}
    BY <1>1, <1>6, <2>1, <2>2 DEF IInv, ClaimSound
  <2> QED
    BY <1>1, <1>6, <2>1, <2>2, <2>3, <2>4, <2>5, <2>6 DEF IInv, ClaimSound, Checked
<1>7. ClaimSound'
  BY <1>6 DEF ClaimSound
<1> QED
  BY <1>2, <1>3, <1>4, <1>5, <1>7 DEF IInv

\* A new process has a start time that no record has.
LEMMA StartKeeps ==
    ASSUME IInv, NEW p \in Pids, Start(p)
    PROVE  IInv'
<1>1. /\ UNCHANGED <<leases, readable, procfs, held, claiming>>
      /\ ~Running(p)
      /\ clock' = clock + 1
      /\ \A q \in Pids : start'[q] = IF q = p THEN clock ELSE start[q]
  BY DEF Start, IInv, TypeOK
<1>2. TypeOK'
  <2>1. clock' \in Nat \ {0} /\ start' \in [Pids -> Nat]
    BY DEF Start, IInv, TypeOK
  <2>2. \A q \in Pids : start'[q] < clock'
    BY <1>1 DEF IInv, TypeOK
  <2>3. \A n \in Names : leases[n] # NoLease => leases[n].starttime \in Nat
    BY DEF IInv, TypeOK, Lease
  <2>4. \A n \in Names : leases'[n] # NoLease => leases'[n].starttime < clock'
    BY <1>1, <2>3 DEF IInv, TypeOK
  <2> QED
    BY <1>1, <2>1, <2>2, <2>4 DEF IInv, TypeOK
<1>3. HeldRecord'
  BY <1>1 DEF IInv, HeldRecord, Running, ProcStarttime
<1>4. Backed'
  <2> SUFFICES ASSUME procfs, NEW m \in Names, leases[m] # NoLease
               PROVE  /\ leases[m].starttime # 0
                      /\ start'[leases[m].pid] = leases[m].starttime
                            => held[leases[m].pid][m] # {}
    BY <1>1 DEF Backed
  <2>1. leases[m].pid \in Pids /\ leases[m].starttime < clock
    BY DEF IInv, TypeOK, Lease
  <2>2. clock \in Nat /\ leases[m].starttime \in Nat
    BY DEF IInv, TypeOK, Lease
  <2> QED
    BY <1>1, <2>1, <2>2 DEF IInv, Backed
<1>5. RegistryDisjoint'
  BY <1>1 DEF IInv, RegistryDisjoint, Abandoned
<1>6. ASSUME claiming # NoClaim
      PROVE  ClaimSound'
  <2>1. claiming.pid \in Pids /\ claiming.name \in Names /\ claiming.dropped \subseteq Names
    BY <1>6, AtWork DEF IInv
  <2>2. \A m \in Names : NobodyHolds(m)' <=> NobodyHolds(m)
    BY <1>1 DEF NobodyHolds
  <2>3. \A m \in Names : (procfs /\ leases[m] # NoLease /\ LeasePidDead(leases[m]))
                              => LeasePidDead(leases[m])'
    <3> SUFFICES ASSUME NEW m \in Names, procfs, leases[m] # NoLease,
                        LeasePidDead(leases[m])
                 PROVE  LeasePidDead(leases[m])'
      OBVIOUS
    <3>1. /\ leases[m].pid \in Pids /\ leases[m].starttime < clock
          /\ leases[m].starttime \in Nat /\ leases[m].starttime # 0
          /\ clock \in Nat /\ clock # 0
      BY DEF IInv, TypeOK, Lease, Backed
    <3>2. CASE leases[m].pid = p
      BY <1>1, <3>1, <3>2 DEF LeasePidDead, Running, ProcStarttime
    <3>3. CASE leases[m].pid # p
      BY <1>1, <3>1, <3>3 DEF LeasePidDead, Running, ProcStarttime
    <3> QED
      BY <3>2, <3>3
  <2>4. Running(claiming.pid)'
    BY <1>1, <1>6, <2>1 DEF IInv, ClaimSound, Running
  <2> QED
    BY <1>1, <1>6, <2>1, <2>2, <2>3, <2>4 DEF IInv, ClaimSound, Checked
<1>7. ClaimSound'
  BY <1>1, <1>6 DEF ClaimSound
<1> QED
  BY <1>2, <1>3, <1>4, <1>5, <1>7 DEF IInv

LEMMA NextInvariant == IInv /\ [Next]_vars => IInv'
<1> SUFFICES ASSUME IInv, [Next]_vars
             PROVE  IInv'
  OBVIOUS
<1>1. ASSUME NEW p \in Pids, NEW n \in Names, NEW paths \in Claims,
             ClaimBegins(p, n, paths)
      PROVE  IInv'
  BY <1>1, BeginKeeps
<1>2. ASSUME NEW p \in Pids, NEW n \in Names, Renew(p, n)
      PROVE  IInv'
  BY <1>2, TtlKeeps DEF Renew, Live
<1>3. ASSUME NEW p \in Pids, NEW n \in Names, Release(p, n)
      PROVE  IInv'
  BY <1>3, ReleaseKeeps
<1>4. ASSUME NEW n \in Names, TtlPasses(n)
      PROVE  IInv'
  BY <1>4, TtlKeeps DEF TtlPasses
<1>5. ASSUME NEW p \in Pids, Exit(p)
      PROVE  IInv'
  BY <1>5, ExitKeeps
<1>6. ASSUME NEW p \in Pids, Start(p)
      PROVE  IInv'
  BY <1>6, StartKeeps
<1>7. ASSUME UNCHANGED <<leases, procfs, start, clock, held, claiming>>,
             readable' \in BOOLEAN
      PROVE  IInv'
  <2>1. TypeOK' /\ HeldRecord'
    BY <1>7 DEF IInv, TypeOK, HeldRecord, Running, ProcStarttime
  <2>2. Backed' /\ RegistryDisjoint'
    BY <1>7 DEF IInv, Backed, RegistryDisjoint, Abandoned
  <2>3. \A m \in Names : /\ LeasePidDead(leases[m])' <=> LeasePidDead(leases[m])
                         /\ NobodyHolds(m)' <=> NobodyHolds(m)
    BY <1>7 DEF LeasePidDead, Running, ProcStarttime, NobodyHolds
  <2>4. ClaimSound'
    <3> SUFFICES ASSUME claiming # NoClaim
                 PROVE  ClaimSound'
      BY <1>7 DEF ClaimSound
    <3>1. claiming.dropped \subseteq Names
      BY AtWork DEF IInv
    <3> QED
      BY <1>7, <2>3, <3>1 DEF IInv, ClaimSound, Checked, Running
  <2> QED
    BY <2>1, <2>2, <2>4 DEF IInv
<1>8. CASE Damage \/ UNCHANGED vars
  BY <1>7, <1>8 DEF Damage, vars, IInv, TypeOK
<1>9. ASSUME NEW n \in Names, CheckOther(n) \/ DropOther(n)
      PROVE  IInv'
  BY <1>9, CheckOtherKeeps, DropKeeps
<1>10. CASE CheckOwn
  BY <1>10, CheckOwnKeeps
<1>11. CASE SaveClaim
  BY <1>11, SaveKeeps
<1>12. CASE ClaimRaises
  BY <1>12, LooksKeep DEF ClaimRaises, ClaimSound
<1> QED
  BY <1>1, <1>2, <1>3, <1>4, <1>5, <1>6, <1>8, <1>9, <1>10, <1>11, <1>12 DEF Next

LEMMA Invariance == Spec => []IInv
BY InitInvariant, NextInvariant, PTL DEF Spec

----------------------------------------------------------------------------
(* The theorems.                                                            *)

\* The registry, the processes and their claims keep their types, and every
\* start time in the registry lies in the past.
THEOREM TypeCorrect == Spec => []TypeOK
BY Invariance, PTL DEF IInv

\* With /proc no two records overlap, whatever claims, releases, crashes and
\* reuses of PIDs came before and between the two looks of a claim (claim,
\* stream_lease.py:250-280); without it, of two that do one is nobody's.
THEOREM RegistryStaysDisjoint == Spec => []RegistryDisjoint
BY Invariance, PTL DEF IInv

\* A live PID is never stolen: what a running process claimed and did not
\* release stays in the registry, in its name.
THEOREM ClaimsStayRegistered == Spec => []HeldIsRegistered
<1>1. IInv => HeldIsRegistered
  BY HeldIsLive DEF HeldIsRegistered
<1> QED
  BY <1>1, Invariance, PTL

\* With /proc, no record outlives its claimant as a live one.
THEOREM NoGhosts == Spec => []NoGhostLease
<1>1. IInv => NoGhostLease
  BY DEF IInv, TypeOK, Backed, NoGhostLease, Live, LeasePidDead, Running, ProcStarttime,
         Lease
<1> QED
  BY <1>1, Invariance, PTL

\* An unreadable registry is left alone by claim, renew and release.
THEOREM UnreadableIsKept == Spec => FailClosed
<1>1. IInv /\ [Next]_vars => [~readable /\ claiming = NoClaim => Registry' = Registry]_vars
  <2> SUFFICES ASSUME IInv, Next, ~readable, claiming = NoClaim
               PROVE  Registry' = Registry
    OBVIOUS
  <2>1. ASSUME NEW n \in Names, TtlPasses(n)
        PROVE  Registry' = Registry
    <3>1. leases[n] \in Lease /\ [leases[n] EXCEPT !.expired = TRUE] \in Lease
      BY <2>1 DEF TtlPasses, IInv, TypeOK, Lease
    <3>2. [leases[n] EXCEPT !.expired = TRUE] # NoLease
      BY <3>1, LeaseAssumption
    <3>3. [[leases[n] EXCEPT !.expired = TRUE] EXCEPT !.expired = FALSE]
            = [leases[n] EXCEPT !.expired = FALSE]
      BY <3>1 DEF Lease
    <3>4. leases'[n] = [leases[n] EXCEPT !.expired = TRUE]
      BY <2>1 DEF TtlPasses, IInv, TypeOK
    <3>5. \A m \in Names \ {n} : leases'[m] = leases[m]
      BY <2>1 DEF TtlPasses, IInv, TypeOK
    <3>6. leases[n] # NoLease /\ leases'[n] # NoLease
      BY <2>1, <3>2, <3>4 DEF TtlPasses
    <3>7. [leases'[n] EXCEPT !.expired = FALSE] = [leases[n] EXCEPT !.expired = FALSE]
      BY <3>3, <3>4
    <3> QED
      BY <3>5, <3>6, <3>7 DEF Registry
  <2>2. CASE UNCHANGED leases
    BY <2>2 DEF Registry
  <2> QED
    BY <2>1, <2>2 DEF Next, ClaimBegins, CheckOther, CheckOwn, DropOther, SaveClaim,
       ClaimRaises, Renew, Release, Exit, Start, Damage
<1> QED
  BY <1>1, Invariance, PTL DEF Spec, FailClosed

\* The registry implements exclusive ownership of paths: every claim that
\* is saved is a grant, however stale the records it found at its looks.
THEOREM RegistryImplementsOwnership == Spec => ImplementsOwnership
<1>1. Init => Ownership!Init
  BY DEF Init, Ownership!Init
<1>2. IInv /\ [Next]_vars => [Ownership!Next]_held
  <2> SUFFICES ASSUME IInv, Next, held' # held
               PROVE  Ownership!Next
    BY DEF vars
  <2>1. CASE SaveClaim
    <3> DEFINE p == claiming.pid
               n == claiming.name
               paths == claiming.paths
    <3>1. /\ claiming # NoClaim /\ claiming.at = "drop"
          /\ p \in Pids /\ n \in Names /\ paths \in Claims
          /\ paths # {}
      BY <2>1, AtWork DEF SaveClaim, IInv, Claims
    <3>2. \A q \in Pids \ {p} : held[q][n] = {}
      BY <3>1 DEF IInv, ClaimSound
    <3>3. ASSUME NEW q \in Pids, NEW m \in Names, <<q, m>> # <<p, n>>
          PROVE  ~Overlap(paths, held[q][m])
      <4>1. CASE held[q][m] = {}
        BY <4>1, OverlapEmpty
      <4>2. CASE held[q][m] # {}
        <5>1. m # n
          BY <4>2, <3>2, <3>3
        <5>2. leases[m] # NoLease /\ leases[m].owned_paths = held[q][m]
          BY <4>2 DEF IInv, HeldRecord
        <5> QED
          BY <3>1, <4>2, <5>1, <5>2 DEF IInv, ClaimSound, Checked, NobodyHolds
      <4> QED
        BY <4>1, <4>2
    <3>4. Ownership!Grant(p, n, paths)
      BY <2>1, <3>1, <3>2, <3>3 DEF Ownership!Grant, SaveClaim
    <3>5. paths \in Ownership!Claims
      BY <3>1 DEF Claims, Ownership!Claims
    <3> QED
      BY <3>1, <3>4, <3>5 DEF Ownership!Next
  <2>2. ASSUME NEW p \in Pids, NEW n \in Names, Release(p, n)
        PROVE  Ownership!GiveUp(p, n)
    BY <2>2 DEF Release, Ownership!GiveUp
  <2>3. ASSUME NEW p \in Pids, Exit(p)
        PROVE  Ownership!Die(p)
    BY <2>3 DEF Exit, Ownership!Die
  <2> QED
    BY <2>1, <2>2, <2>3 DEF Next, Ownership!Next, ClaimBegins, CheckOther, CheckOwn,
       DropOther, ClaimRaises, Renew, TtlPasses, Start, Damage
<1> QED
  BY <1>1, <1>2, Invariance, PTL DEF Spec, ImplementsOwnership, Ownership!Spec
=============================================================================
