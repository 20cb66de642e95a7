---------------------------- MODULE MCAgentGraph ----------------------------
(* Instance of AgentGraph for TLC: the constants are given in the .cfg files. *)
EXTENDS AgentGraph
=============================================================================
