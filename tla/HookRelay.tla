----------------------------- MODULE HookRelay -----------------------------
(***************************************************************************)
(* The webhook relay (memory/local_mcp/hmac_relay.py): a threaded HTTP     *)
(* server that starts a Jenkins build for a signed delivery.  A delivery   *)
(* has an id; ids are remembered for a window, so that one delivered twice *)
(* starts one build.  A trigger that failed forgets the id: the sender may *)
(* resend it.  The answer of Jenkins may be lost after the build is queued.*)
(***************************************************************************)
EXTENDS Naturals, FiniteSets, Functions, FiniteSetsExt

CONSTANTS
    Hooks,         \* the ids of the deliveries
    Threads,       \* the handler threads
    MaxDeliveries, \* bound: the requests that arrive
    Ttl,           \* _REPLAY_TTL_S, 600 s
    TriggerMax,    \* the longest a request takes, 15 s
    MaxClock       \* bound: the clock

ASSUME RelayAssumption ==
    /\ {MaxDeliveries, Ttl, TriggerMax, MaxClock} \subseteq Nat
    /\ TriggerMax > 0 /\ TriggerMax < Ttl /\ Hooks # {}

VARIABLES
    clock,       \* time.monotonic
    seenIds,     \* _Replay._seen: a set of pairs <<id, moment>>
    hookAt,      \* where each thread is: "idle", "checked", "trigger"
    hookOf,      \* the delivery each thread handles
    moment,      \* the time at which the thread began to handle it
    arrived,     \* how many requests have arrived
    queued,      \* history: the builds each delivery has started
    lostAnswer,  \* history: the answers of Jenkins that were lost, per delivery
    windows,     \* history: how often each id was forgotten because of its age
    relayRestarted \* history

relayVars == <<clock, seenIds, hookAt, hookOf, moment, arrived, queued,
               lostAnswer, windows, relayRestarted>>

RelayTypeOK ==
    /\ clock \in 0 .. MaxClock /\ seenIds \subseteq Hooks \X (0 .. MaxClock)
    /\ hookAt \in [Threads -> {"idle", "checked", "trigger"}]
    /\ hookOf \in [Threads -> Hooks] /\ moment \in [Threads -> 0 .. MaxClock]
    /\ arrived \in 0 .. MaxDeliveries
    /\ {queued, lostAnswer, windows} \subseteq [Hooks -> 0 .. MaxDeliveries]
    /\ relayRestarted \in BOOLEAN

RelayInit ==
    /\ clock = 0 /\ seenIds = {} /\ hookAt = [t \in Threads |-> "idle"]
    /\ hookOf = [t \in Threads |-> CHOOSE h \in Hooks : TRUE]
    /\ moment = [t \in Threads |-> 0] /\ arrived = 0
    /\ queued = [h \in Hooks |-> 0] /\ lostAnswer = [h \in Hooks |-> 0]
    /\ windows = [h \in Hooks |-> 0] /\ relayRestarted = FALSE

HookGoes(t, from, to) == hookAt[t] = from /\ hookAt' = [hookAt EXCEPT ![t] = to]
Forgets(h) == seenIds' = {s \in seenIds : s[1] # h}
BumpOf(counts, h) == [counts EXCEPT ![h] = @ + 1]

\* handle: the moment is taken at its first line.  The delivery is signed and
\* has an id; one that is too large, unsigned or without an id is answered 413
\* or 401 at once and changes nothing here.
Arrives(t, h) ==
    /\ HookGoes(t, "idle", "checked") /\ arrived < MaxDeliveries
    /\ arrived' = arrived + 1 /\ hookOf' = [hookOf EXCEPT ![t] = h]
    /\ moment' = [moment EXCEPT ![t] = clock]
    /\ UNCHANGED <<clock, seenIds, queued, lostAnswer, windows, relayRestarted>>

\* The id is released on every way out that is not a 200.
LookUpBroken(t) ==
    LET old   == {s \in seenIds : moment[t] >= s[2] /\ moment[t] - s[2] >= Ttl}
        known == \E s \in seenIds \ old : s[1] = hookOf[t]
    IN  /\ IF known THEN HookGoes(t, "checked", "idle")
                    ELSE HookGoes(t, "checked", "trigger")
        /\ seenIds' = IF known THEN {s \in seenIds \ old : s[1] # hookOf[t]}
                               ELSE (seenIds \ old) \cup {<<hookOf[t], moment[t]>>}
        /\ windows' = [h \in Hooks |-> windows[h] + Cardinality({s \in old : s[1] = h})]
        /\ UNCHANGED <<clock, hookOf, moment, arrived, queued, lostAnswer, relayRestarted>>

\* _Replay.seen, under its lock: old ids go, and the id is looked up and
\* remembered in one step, with the moment of the thread.
LookUp(t) ==
    LET old   == {s \in seenIds : moment[t] >= s[2] /\ moment[t] - s[2] >= Ttl}
        known == \E s \in seenIds \ old : s[1] = hookOf[t]
    IN  /\ IF known THEN HookGoes(t, "checked", "idle")
                    ELSE HookGoes(t, "checked", "trigger")
        /\ seenIds' = (seenIds \ old)
                        \cup (IF known THEN {} ELSE {<<hookOf[t], moment[t]>>})
        /\ windows' = [h \in Hooks |-> windows[h] + Cardinality({s \in old : s[1] = h})]
        /\ UNCHANGED <<clock, hookOf, moment, arrived, queued, lostAnswer, relayRestarted>>

\* Jenkins answers 201: the sender has its 200, and the id stays.
Triggered(t) ==
    /\ HookGoes(t, "trigger", "idle")
    /\ queued' = BumpOf(queued, hookOf[t])
    /\ UNCHANGED <<clock, seenIds, hookOf, moment, arrived, lostAnswer, windows, relayRestarted>>

\* Jenkins refuses, or cannot be reached: 502, and the id is free again.
Refused(t) ==
    /\ HookGoes(t, "trigger", "idle") /\ Forgets(hookOf[t])
    /\ UNCHANGED <<clock, hookOf, moment, arrived, queued, lostAnswer, windows, relayRestarted>>

\* Jenkins has queued the build and its answer is lost: the same 502.
TriggeredUnheard(t) ==
    /\ HookGoes(t, "trigger", "idle") /\ Forgets(hookOf[t])
    /\ queued' = BumpOf(queued, hookOf[t])
    /\ lostAnswer' = BumpOf(lostAnswer, hookOf[t])
    /\ UNCHANGED <<clock, hookOf, moment, arrived, windows, relayRestarted>>

\* Every request ends within TriggerMax (the limits of trigger_job).
TimePasses ==
    /\ clock < MaxClock /\ clock' = clock + 1
    /\ \A t \in Threads : hookAt[t] # "idle" => clock - moment[t] < TriggerMax
    /\ UNCHANGED <<seenIds, hookAt, hookOf, moment, arrived, queued, lostAnswer,
                   windows, relayRestarted>>

\* The ids are in memory.
RelayRestarts ==
    /\ relayRestarted' = TRUE /\ seenIds' = {}
    /\ hookAt' = [t \in Threads |-> "idle"]
    /\ UNCHANGED <<clock, hookOf, moment, arrived, queued, lostAnswer, windows>>

RelayNext ==
    \/ \E t \in Threads :
         \/ \E h \in Hooks : Arrives(t, h)
         \/ LookUp(t) \/ Triggered(t) \/ Refused(t) \/ TriggeredUnheard(t)
    \/ TimePasses \/ RelayRestarts

----------------------------------------------------------------------------
(* A delivery starts one build, however many times and by however many      *)
(* threads it arrives, plus one for each answer of Jenkins that was lost    *)
(* and one for each window that has passed since (Relay.handle, _Replay).   *)
DeliveryBuildsOnce ==
    ~relayRestarted =>
        \A h \in Hooks : queued[h] <= 1 + lostAnswer[h] + windows[h]
=============================================================================
