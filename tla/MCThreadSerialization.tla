----------------------- MODULE MCThreadSerialization -----------------------
(* Instances of ThreadSerialization for TLC. *)
EXTENDS ThreadSerialization, TLC

Symmetry == Permutations(Threads)
=============================================================================
