---------------------------- MODULE MCSerializer ----------------------------
(***************************************************************************)
(* Serializer on small instances.                                          *)
(***************************************************************************)
EXTENDS Serializer, TLC

\* A byte, a pair of bytes aligned to 2, which is ALIGNMENT, and a byte that asks
\* for more.
SmallLayouts == {[size |-> 1, align |-> 1], [size |-> 2, align |-> 2], [size |-> 1, align |-> 4]}

Symmetry == Permutations(Serializers) \cup Permutations(Addresses)
=============================================================================
