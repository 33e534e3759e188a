--------------------------- MODULE MCOwnedArchive ---------------------------
(***************************************************************************)
(* OwnedArchive on small instances.                                        *)
(***************************************************************************)
EXTENDS OwnedArchive, TLC

\* Handles and blocks are interchangeable, and so are the values of a byte.
Symmetry == Permutations(Handles) \cup Permutations(Blocks) \cup Permutations(Bytes)
=============================================================================
