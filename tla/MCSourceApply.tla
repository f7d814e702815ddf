--------------------------- MODULE MCSourceApply ---------------------------
(* A small instance of SourceApply for TLC: two routes, two sources, one   *)
(* operation with the lock and one without.                                *)
EXTENDS SourceApply, TLC

CONSTANTS r1, r2, a, b, p1, p2
Symmetry == {f @@ g @@ h : f \in Permutations(Routes), g \in Permutations(Tags), h \in Permutations(Ports)}
=============================================================================
