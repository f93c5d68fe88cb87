----------------------------- MODULE MCProfiler -----------------------------
(* Instances of Profiler for TLC. *)
EXTENDS ProfilerLog, TLC

\* Threads are interchangeable; not used with liveness properties.
Symmetry == Permutations(Threads)
=============================================================================
