--------------------------- MODULE MCAgentVerdicts ---------------------------
(* Finite instances of AgentVerdicts for TLC. *)
EXTENDS AgentVerdicts, TLC

CONSTANTS t1, t2
=============================================================================
