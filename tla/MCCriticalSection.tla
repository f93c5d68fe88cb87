-------------------------- MODULE MCCriticalSection --------------------------
(* Instances of CriticalSection for TLC. *)
EXTENDS CriticalSection, TLC

Symmetry == Permutations(Cores) \cup Permutations(Threads)
=============================================================================
