---------------------------- MODULE MCStackTable ----------------------------
(* Instances of StackTable for TLC. *)
EXTENDS StackTable, TLC

Symmetry == Permutations(Addresses)
=============================================================================
