---------------------------- MODULE MCPoolHealth ----------------------------
(* Small instances of PoolHealth for TLC.                                  *)
EXTENDS PoolHealth, TLC

\* Members are interchangeable, and so are operations.
Symmetry == Permutations(Tags) \cup Permutations(Ops)
=============================================================================
