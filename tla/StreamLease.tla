---------------------------- MODULE StreamLease ----------------------------
(***************************************************************************)
(* The lease registry of parallel sessions (memory/stream_lease.py): the   *)
(* dictionary in .agent/stream_leases.json, changed by claim, renew and    *)
(* release, each under agent_lock("leases") (module AgentLock is about     *)
(* that lock), so that a claim at work keeps the others out.  renew and    *)
(* release look at one holder and are one step.  claim looks at every      *)
(* holder twice, and the processes it looks at do not wait for it: each    *)
(* look is a step.                                                         *)
(*                                                                         *)
(* A record names its holder by PID and, where /proc can be read, by the   *)
(* start time of the process, because a PID is used again.  Processes      *)
(* start and die at any moment; nobody tells the registry.  The worktree   *)
(* and branch of a record are left out: no rule of this file reads them.   *)
(***************************************************************************)
EXTENDS StreamPaths

CONSTANTS
    Pids,       \* operating-system process identifiers
    Names,      \* stream names
    Tokens,     \* owned_paths tokens
    NoLease,    \* "no record under this name"
    NoClaim,    \* "no claim is at work"
    MaxStarts   \* bound: processes started, as the clock of their start times

VARIABLES
    leases,     \* the registry: a record or NoLease for each name
    readable,   \* stream_leases.json parses
    procfs,     \* /proc/<pid>/stat can be read on this host
    start,      \* start time of the process that has the PID, 0 if none has
    clock,      \* start time of the next process
    held,       \* what each running process has claimed and not released
    claiming    \* the claim that has the lock, and how far it is

vars == <<leases, readable, procfs, start, clock, held, claiming>>

Claims == (SUBSET Tokens) \ {{}}

Lease == [owned_paths : Claims, pid : Pids, starttime : Nat, expired : BOOLEAN]

\* "check" looks for records to refuse for, "drop" for those to take away.
Claiming == [pid : Pids, name : Names, paths : Claims, at : {"check", "drop"},
             left : SUBSET Names, dropped : SUBSET Names]

ASSUME LeaseAssumption == NoLease \notin Lease /\ NoClaim \notin Claiming

TypeOK ==
    /\ leases \in [Names -> Lease \cup {NoLease}]
    /\ readable \in BOOLEAN
    /\ procfs \in BOOLEAN
    /\ start \in [Pids -> Nat]
    /\ clock \in Nat \ {0}
    /\ held \in [Pids -> [Names -> SUBSET Tokens]]
    /\ claiming \in Claiming \cup {NoClaim}
    /\ \A p \in Pids : start[p] < clock
    /\ \A n \in Names : leases[n] # NoLease => leases[n].starttime < clock

Init ==
    /\ leases = [n \in Names |-> NoLease]
    /\ readable = TRUE
    /\ procfs \in BOOLEAN
    /\ start = [p \in Pids |-> 0]
    /\ clock = 1
    /\ held = [p \in Pids |-> [n \in Names |-> {}]]
    /\ claiming = NoClaim

Running(p) == start[p] # 0

\* Broken variant: the wrong field of /proc/<pid>/stat.
ProcOtherField(p) == IF procfs THEN start[p] + 1 ELSE 0

\* _proc_starttime: 0 where there is no /proc.
ProcStarttime(p) == IF procfs THEN start[p] ELSE 0

\* Broken variant: the PID alone.
LeasePidFree(rec) == ~Running(rec.pid)

\* Broken variant: expires_at frees a lease.
LeaseOverdue(rec) == ~Running(rec.pid) \/ rec.expired

\* _lease_pid_dead: the PID is free, or both start times are known and differ.
LeasePidDead(rec) ==
    \/ ~Running(rec.pid)
    \/ /\ rec.starttime # 0
       /\ ProcStarttime(rec.pid) # 0
       /\ ProcStarttime(rec.pid) # rec.starttime

\* The record under n, if any, is one that nobody may take.
Live(n) == leases[n] # NoLease /\ ~LeasePidDead(leases[n])

\* _new_record; the update in place of an own record comes to the same.
NewRecord(p, paths) ==
    [owned_paths |-> paths, pid |-> p, starttime |-> ProcStarttime(p), expired |-> FALSE]

\* claim reads the registry; one that does not parse raises ValueError.
ClaimBegins(p, n, paths) ==
    /\ Running(p)
    /\ readable
    /\ claiming = NoClaim
    /\ claiming' = [pid |-> p, name |-> n, paths |-> paths, at |-> "check",
                    left |-> Names \ {n}, dropped |-> {}]
    /\ UNCHANGED <<leases, readable, procfs, start, clock, held>>

\* A live record under another name that overlaps would be refused.
CheckOther(m) ==
    /\ claiming # NoClaim
    /\ claiming.at = "check"
    /\ m \in claiming.left
    /\ Live(m) => ~Overlap(claiming.paths, leases[m].owned_paths)
    /\ claiming' = [claiming EXCEPT !.left = @ \ {m}]
    /\ UNCHANGED <<leases, readable, procfs, start, clock, held>>

\* A live record of another PID under the own name would be refused.
CheckOwn ==
    /\ claiming # NoClaim
    /\ claiming.at = "check"
    /\ claiming.left = {}
    /\ Live(claiming.name) => leases[claiming.name].pid = claiming.pid
    /\ claiming' = [claiming EXCEPT !.at = "drop", !.left = Names \ {claiming.name}]
    /\ UNCHANGED <<leases, readable, procfs, start, clock, held>>

\* Broken variant: dead records stay.
DropNone(m) ==
    /\ claiming # NoClaim
    /\ claiming.at = "drop"
    /\ m \in claiming.left
    /\ claiming' = [claiming EXCEPT !.left = @ \ {m}]
    /\ UNCHANGED <<leases, readable, procfs, start, clock, held>>

\* One record of _drop_dead_overlapping, which asks again whether it is dead.
DropOther(m) ==
    /\ claiming # NoClaim
    /\ claiming.at = "drop"
    /\ m \in claiming.left
    /\ claiming' = [claiming EXCEPT
          !.left = @ \ {m},
          !.dropped = IF /\ leases[m] # NoLease
                         /\ LeasePidDead(leases[m])
                         /\ Overlap(claiming.paths, leases[m].owned_paths)
                      THEN @ \cup {m} ELSE @]
    /\ UNCHANGED <<leases, readable, procfs, start, clock, held>>

\* _save: the file that was read is replaced, whatever became of it meanwhile.
SaveClaim ==
    /\ claiming # NoClaim
    /\ claiming.at = "drop"
    /\ claiming.left = {}
    /\ leases' = [m \in Names |->
                    IF m = claiming.name THEN NewRecord(claiming.pid, claiming.paths)
                    ELSE IF m \in claiming.dropped THEN NoLease ELSE leases[m]]
    /\ readable' = TRUE
    /\ held' = [held EXCEPT ![claiming.pid][claiming.name] = claiming.paths]
    /\ claiming' = NoClaim
    /\ UNCHANGED <<procfs, start, clock>>

\* The claim is refused, or cannot read or write a file: nothing is saved.
ClaimRaises ==
    /\ claiming # NoClaim
    /\ claiming' = NoClaim
    /\ UNCHANGED <<leases, readable, procfs, start, clock, held>>

\* renew: only the time to live of an own live record changes.
Renew(p, n) ==
    /\ Running(p)
    /\ readable
    /\ claiming = NoClaim
    /\ Live(n)
    /\ leases[n].pid = p
    /\ leases' = [leases EXCEPT ![n].expired = FALSE]
    /\ UNCHANGED <<readable, procfs, start, clock, held, claiming>>

\* Broken variant: release by name, whoever holds the record.
ReleaseAny(p, n) ==
    /\ Running(p)
    /\ readable
    /\ claiming = NoClaim
    /\ leases[n] # NoLease
    /\ leases' = [leases EXCEPT ![n] = NoLease]
    /\ held' = [held EXCEPT ![p][n] = {}]
    /\ UNCHANGED <<readable, procfs, start, clock, claiming>>

\* release of an own record or of a dead one.
Release(p, n) ==
    /\ Running(p)
    /\ readable
    /\ claiming = NoClaim
    /\ leases[n] # NoLease
    /\ Live(n) => leases[n].pid = p
    /\ leases' = [leases EXCEPT ![n] = NoLease]
    /\ held' = [held EXCEPT ![p][n] = {}]
    /\ UNCHANGED <<readable, procfs, start, clock, claiming>>

\* expires_at goes by.
TtlPasses(n) ==
    /\ leases[n] # NoLease
    /\ leases' = [leases EXCEPT ![n].expired = TRUE]
    /\ UNCHANGED <<readable, procfs, start, clock, held, claiming>>

\* A process exits, with or without having released, perhaps from its claim.
Exit(p) ==
    /\ Running(p)
    /\ start' = [start EXCEPT ![p] = 0]
    /\ held' = [held EXCEPT ![p] = [n \in Names |-> {}]]
    /\ claiming' = IF claiming # NoClaim /\ claiming.pid = p THEN NoClaim ELSE claiming
    /\ UNCHANGED <<leases, readable, procfs, clock>>

\* A process is given a free PID, perhaps one that a record names.
Start(p) ==
    /\ ~Running(p)
    /\ clock <= MaxStarts
    /\ start' = [start EXCEPT ![p] = clock]
    /\ clock' = clock + 1
    /\ UNCHANGED <<leases, readable, procfs, held, claiming>>

\* The registry file is damaged from outside, and put back from outside.
Damage ==
    /\ readable' = ~readable
    /\ UNCHANGED <<leases, procfs, start, clock, held, claiming>>

Next ==
    \/ \E p \in Pids, n \in Names :
        \/ \E paths \in Claims : ClaimBegins(p, n, paths)
        \/ Renew(p, n)
        \/ Release(p, n)
    \/ \E n \in Names : CheckOther(n) \/ DropOther(n) \/ TtlPasses(n)
    \/ CheckOwn \/ SaveClaim \/ ClaimRaises
    \/ \E p \in Pids : Exit(p) \/ Start(p)
    \/ Damage

Spec == Init /\ [][Next]_vars

----------------------------------------------------------------------------
(* Properties.                                                              *)

\* The process that claimed this record is gone, or has released it.
Abandoned(n) == held[leases[n].pid][n] = {}

\* Where /proc can be read no two records of the registry overlap, be their
\* holders alive or dead: a record is refused for at the first look
\* (stream_lease.py:253) or dropped at the second (:197), since what was dead
\* stays dead.  Without /proc a PID that is given away between the two looks
\* makes a record neither; then one of two that overlap is nobody's any more.
RegistryDisjoint ==
    \A m, n \in Names :
        (/\ m # n /\ leases[m] # NoLease /\ leases[n] # NoLease
         /\ Overlap(leases[m].owned_paths, leases[n].owned_paths))
        => ~procfs /\ (Abandoned(m) \/ Abandoned(n))

\* "Live PID is never stolen" (PARALLEL_PROTOCOL.md:63): what a running
\* process has claimed and not released is in the registry, under its PID,
\* with the paths it claimed, however late, and reads as live.
HeldIsRegistered ==
    \A p \in Pids, n \in Names : held[p][n] # {} =>
        /\ Live(n)
        /\ leases[n].pid = p
        /\ leases[n].owned_paths = held[p][n]

\* Where /proc can be read, a record that reads as live is held by the very
\* process that claimed it: a later process with the same PID neither keeps
\* a dead session's paths locked nor inherits them.
NoGhostLease ==
    procfs => \A n \in Names : Live(n) => held[leases[n].pid][n] # {}

\* The registry but for the time to live of its records.
Registry ==
    [n \in Names |-> IF leases[n] = NoLease THEN NoLease
                     ELSE [leases[n] EXCEPT !.expired = FALSE]]

\* A registry that does not parse is never taken for an empty one and
\* overwritten (_load strict, stream_lease.py:144): no step changes it, but
\* for the end of a claim that read it before it was damaged.
FailClosed == [][~readable /\ claiming = NoClaim => Registry' = Registry]_vars

\* The registry gives its sessions exclusive ownership of paths.
Ownership == INSTANCE PathOwnership WITH own <- held

ImplementsOwnership == Ownership!Spec

=============================================================================
