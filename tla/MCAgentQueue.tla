---------------------------- MODULE MCAgentQueue ----------------------------
(* Instances of AgentQueue for TLC.                                         *)
EXTENDS AgentQueue, TLC

\* Operations are interchangeable.
OpSymmetry == Permutations(Ops)
=============================================================================
