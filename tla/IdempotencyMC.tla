--------------------------- MODULE IdempotencyMC ---------------------------
(* Small instances of Idempotency for TLC. *)
EXTENDS Idempotency, TLC

\* Attempts and payloads are interchangeable in every definition.
Symmetry == Permutations(Attempts) \cup Permutations(Payloads)
=============================================================================
