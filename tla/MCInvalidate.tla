----------------------------- MODULE MCInvalidate -----------------------------
(***************************************************************************)
(* Edge ids of three lengths of the bitset, and calls enough for each      *)
(* thread to meet the other's edges.                                       *)
(***************************************************************************)
EXTENDS ConcurrentInvalidate, TLC

Symmetry == Permutations(Threads)
==============================================================================
