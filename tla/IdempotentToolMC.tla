-------------------------- MODULE IdempotentToolMC --------------------------
(* Small instances of IdempotentTool for TLC. *)
EXTENDS IdempotentTool, TLC

Symmetry == Permutations(Payloads)
=============================================================================
