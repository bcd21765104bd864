---------------------------- MODULE MCAgentChat ----------------------------
(* Instances of AgentChat for TLC.                                            *)
EXTENDS AgentChat, TLC

CONSTANTS a1, a2, b1, b2, m1, m2, t1, t2

MCSymmetry == Permutations(Agent) \cup Permutations(Bot) \cup Permutations(Message)
                \cup Permutations(Task)
=============================================================================
