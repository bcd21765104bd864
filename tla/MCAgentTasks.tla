---------------------------- MODULE MCAgentTasks ----------------------------
(* An instance of AgentTasks for TLC; the numbers are in the .cfg files.      *)
EXTENDS AgentTasks

MCUnlimited == Unlimited
=============================================================================
