----------------------------- MODULE MCRegistrar -----------------------------
(* Instances of Registrar for TLC. *)
EXTENDS Registrar, TLC

Symmetry == Permutations(Threads) \cup Permutations(Registrars)
=============================================================================
