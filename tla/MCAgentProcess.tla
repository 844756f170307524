--------------------------- MODULE MCAgentProcess ---------------------------
(* AgentProcess with named processes. *)
EXTENDS AgentProcess

CONSTANTS p1, p2
=============================================================================
