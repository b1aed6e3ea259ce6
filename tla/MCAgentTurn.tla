----------------------------- MODULE MCAgentTurn -----------------------------
(* Instances of AgentTurn for TLC.                                         *)
EXTENDS AgentTurn, TLC

Symmetric == Permutations(Sids) \cup Permutations(Keys)
=============================================================================
