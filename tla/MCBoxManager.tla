---------------------------- MODULE MCBoxManager ----------------------------
(* Small instances of BoxManager for TLC.                                  *)
EXTENDS BoxManager

CONSTANT n1

\* No node and one; the theorems of BoxManagerProofs are for all sets of nodes.
SomeNodeSets == {{}, {n1}}
=============================================================================
