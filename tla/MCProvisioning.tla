--------------------------- MODULE MCProvisioning ---------------------------
(* Instance of Provisioning for TLC: calls and codes are interchangeable.  *)
EXTENDS Provisioning, TLC

Symmetry == Permutations(Callers) \cup Permutations(Starters) \cup Permutations(Codes)
=============================================================================
