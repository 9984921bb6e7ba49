----------------------------- MODULE MCAgentLink -----------------------------
(* Small instances of AgentLink. *)
EXTENDS AgentLink, TLC

CONSTANTS r1, r2
=============================================================================
