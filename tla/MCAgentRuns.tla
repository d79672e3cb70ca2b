---------------------------- MODULE MCAgentRuns ----------------------------
(* Small instances of AgentRuns for TLC. *)
EXTENDS AgentRuns

CONSTANTS p1, p2

=============================================================================
