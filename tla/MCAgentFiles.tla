---------------------------- MODULE MCAgentFiles -----------------------------
(* Small instances of AgentFiles. *)
EXTENDS AgentFiles, TLC

CONSTANTS t1, t2, m1
Symmetry == Permutations(Tasks)
=============================================================================
