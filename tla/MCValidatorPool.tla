--------------------------- MODULE MCValidatorPool ---------------------------
(***************************************************************************)
(* ValidatorPool on small instances.                                       *)
(***************************************************************************)
EXTENDS ValidatorPool, TLC

Symmetry == Permutations(Validators) \cup Permutations(Addresses) \cup Permutations(Types)
=============================================================================
