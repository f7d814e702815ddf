---------------------------- MODULE MCNodeStore ----------------------------
(* Small instances of NodeStore for TLC.                                   *)
EXTENDS NodeStore, TLC

\* Nodes are interchangeable; jobs are not, retention orders them by ID.
Symmetry == Permutations(Ids)

\* A process died in the middle of an import of one node and of a test of
\* another, which is in the pool.
Member      == [Promoted(Passed(Fresh)) EXCEPT !.staged = FALSE]
MCLeftNodes == {f \in [Ids -> {Testing(Fresh), Testing(Member)}] :
                   \A i, k \in Ids : i # k => f[i] # f[k]}
MCLeftJobs  == {[j \in JobIds |-> [status |-> "running", at |-> 0]]}
=============================================================================
