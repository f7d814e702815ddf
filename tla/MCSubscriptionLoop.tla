------------------------- MODULE MCSubscriptionLoop -------------------------
(* Small instances of SubscriptionLoop for TLC.                            *)
EXTENDS SubscriptionLoop, TLC

\* Goroutines are interchangeable, and so are callers.
Symmetry == Permutations(Loops) \cup Permutations(Callers)
=============================================================================
