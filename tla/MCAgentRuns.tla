---------------------------- MODULE MCAgentRuns ----------------------------
(* Instances of AgentRuns for TLC.                                             *)
EXTENDS AgentRuns
=============================================================================
