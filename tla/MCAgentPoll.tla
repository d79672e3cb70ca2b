---------------------------- MODULE MCAgentPoll ----------------------------
(* Small instances of AgentPoll for TLC. *)
EXTENDS AgentPoll

CONSTANTS w1, w2

=============================================================================
