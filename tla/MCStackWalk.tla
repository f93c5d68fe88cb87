----------------------------- MODULE MCStackWalk -----------------------------
(* Instances of StackWalk for TLC. *)
EXTENDS StackWalk
=============================================================================
