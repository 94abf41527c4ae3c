-------------------------- MODULE MCSupervisorLoop --------------------------
(* SupervisorLoop for TLC.                                                  *)
EXTENDS SupervisorLoop
=============================================================================
