---- MODULE MCAgentWake ----
(* Small instances of AgentWake for TLC. *)
EXTENDS AgentWake, TLC

CONSTANTS a1, a2

Symmetry == Permutations(ApprovalIds)
====
