---------------------------- MODULE MCBufferPool ----------------------------
(***************************************************************************)
(* BufferPool on small instances.                                          *)
(***************************************************************************)
EXTENDS BufferPool, TLC

\* A policy that keeps small blocks unless it changes its mind, and no others.
Moody == [c \in Capacities |->
            IF c = 1 THEN {"retain", "reject", "panic"} ELSE {"reject", "panic"}]

\* Threads and blocks are interchangeable.
Symmetry == Permutations(Threads) \cup Permutations(Blocks)
=============================================================================
