-------------------------- MODULE MCProbeScheduler --------------------------
(* Small instances of ProbeScheduler for TLC.                              *)
EXTENDS ProbeScheduler, TLC

\* Calls are interchangeable, and so are keys and workers.
Symmetry == Permutations(Callers) \cup Permutations(Keys) \cup Permutations(Workers)
=============================================================================
