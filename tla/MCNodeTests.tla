----------------------------- MODULE MCNodeTests -----------------------------
(* A small instance of NodeTests for TLC.                                  *)
EXTENDS NodeTests, TLC

CONSTANTS j1, j2, v1, v2, n1, n2, n3, r1, r2, A, C, page, auth

MCTagsOf  == n1 :> {A} @@ n2 :> {A} @@ n3 :> {A, C}
MCPrintOf == n1 :> r1 @@ n2 :> r2 @@ n3 :> r1

\* A job has one route and one site, or two of either.
Tiny  == [tags |-> {C}, targets |-> {page}]
Long  == [tags |-> {A}, targets |-> {page}]
Deep  == [tags |-> {C}, targets |-> {page, auth}]

Idle == [crew |-> {}, requests |-> {}, policies |-> {}, causes |-> {"ok", "host", "connect"}, watch |-> FALSE,
         cancels |-> 0, faults |-> 0, leavers |-> {}, close |-> FALSE]

\* What a watching client learns of two jobs, and of one that is canceled.
Watched == [Idle EXCEPT !.crew = {j1, j2}, !.requests = {Tiny}, !.causes = {"ok"}, !.watch = TRUE]
Retold  == [Idle EXCEPT !.crew = {j1}, !.requests = {Tiny}, !.watch = TRUE, !.cancels = 1, !.close = TRUE]
\* One job to its end, or canceled, or closed.
Alone == [Idle EXCEPT !.crew = {j1}, !.requests = {Long, Deep}, !.cancels = 1, !.close = TRUE, !.causes = @ \cup {"build"}]
\* Two jobs that end together; a node leaves between their starts.
Pair == [Idle EXCEPT !.crew = {j1, j2}, !.requests = {Long}, !.leavers = {n2}, !.faults = 1]
\* Two jobs on a site with a sign-in page.
Twins == [Idle EXCEPT !.crew = {j1, j2}, !.requests = {Deep}, !.causes = {"ok", "host"}]
\* A job and a verification contend for the slot.
Mixed == [Idle EXCEPT !.causes = {"ok", "connect"}, !.crew = {j1, v1}, !.requests = {Tiny}, !.cancels = 1,
                      !.policies = {[nodes |-> {r1, r2}, probe |-> FALSE, sites |-> {page}]}]
\* Two verifications that share their probes.
Shared == [Idle EXCEPT !.causes = {"ok", "connect"}, !.crew = {v1, v2}, !.cancels = 1,
                       !.policies = {[nodes |-> {r1, r2}, probe |-> TRUE, sites |-> {}],
                                     [nodes |-> {r1}, probe |-> TRUE, sites |-> {auth}]}]
MCMenus == {Watched, Retold, Alone, Pair, Twins, Mixed, Shared}

\* The two jobs are alike, and so are the two verifications.
Alike == Permutations({j1, j2}) \cup Permutations({v1, v2})
=============================================================================
