-------------------------- MODULE MCAlignedBuffer --------------------------
(***************************************************************************)
(* AlignedBuffer on small instances.                                       *)
(***************************************************************************)
EXTENDS AlignedBuffer, TLC

\* Handles and blocks are interchangeable, and so are the values of a byte.
Symmetry == Permutations(Handles) \cup Permutations(Blocks) \cup Permutations(Bytes)
=============================================================================
