---------------------------- MODULE MCAgentLock ----------------------------
(* AgentLock for TLC: a process with two threads and one with a single one. *)
EXTENDS AgentLock

CONSTANTS p1, p2, t1, t2, t3

\* The guard of p1 is contended, and each process judges what the other left.
MCProcOf == [t \in Threads |-> IF t \in {t1, t2} THEN p1 ELSE p2]
=============================================================================
