---------------------------- MODULE MCServices -----------------------------
(* The services beside the loop, for TLC: the messages and the reads of the *)
(* dashboard, and the webhook relay.  "part" picks one of them in the       *)
(* initial state and leaves the others alone, so that one run explores      *)
(* their sum and not their product.                                         *)
EXTENDS DashboardEvents, DashboardReads, HookRelay, TLC

VARIABLE part

vars == <<part, eventsVars, readsVars, relayVars>>

Init ==
    /\ part \in {"events", "reads", "relay"}
    /\ EventsInit /\ ReadsInit /\ RelayInit

Events ==
    /\ part = "events" /\ EventsNext
    /\ UNCHANGED <<part, readsVars, relayVars>>
Reads ==
    /\ part = "reads" /\ ReadsNext
    /\ UNCHANGED <<part, eventsVars, relayVars>>
Relay ==
    /\ part = "relay" /\ RelayNext
    /\ UNCHANGED <<part, eventsVars, readsVars>>

Next == Events \/ Reads \/ Relay

\* None of the fair steps of the dashboard is enabled in its initial state,
\* so its fairness asks for nothing where another part runs.
Spec == Init /\ [][Next]_vars /\ EventsFairness

TypeOK == EventsTypeOK /\ ReadsTypeOK /\ RelayTypeOK
=============================================================================
