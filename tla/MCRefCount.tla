----------------------------- MODULE MCRefCount -----------------------------
(***************************************************************************)
(* RefCount on small instances.                                            *)
(***************************************************************************)
EXTENDS RefCount, TLC

\* Threads, handles and blocks are interchangeable: no action or property
\* names one of them.
Symmetry == Permutations(Threads) \cup Permutations(Handles) \cup Permutations(Blocks)
=============================================================================
