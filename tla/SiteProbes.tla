----------------------------- MODULE SiteProbes -----------------------------
(***************************************************************************)
(* NodeTester.probeConnectivityPass: one pass of site checks over a set of *)
(* routes.  A feeder hands the routes to workers; a worker takes one slot  *)
(* of batchSem, which all passes share, checks the sites of its route one  *)
(* after the other, gives the slot back and only then sends the results to *)
(* the owner of the pass, one at a time.  Feeder and workers also return   *)
(* when the context of the owner is canceled.                              *)
(***************************************************************************)
EXTENDS Naturals, FiniteSets

CONSTANTS
    Routes,   \* what is checked: fingerprints of a node and its chain
    Targets,  \* sites
    TwoStep,  \* the sites with a sign-in page besides the first page
    Owners,   \* who runs passes: connectivity jobs and verifications
    Slots     \* bound: capacity of batchSem, also the workers of a pass

\* How the check of one page can end.
AllCauses == {"ok", "build", "cert", "redirect", "host", "content", "status", "connect", "read", "busy"}

ASSUME SitesAssumption ==
    /\ TwoStep \subseteq Targets /\ Slots \in Nat \ {0}
    /\ IsFiniteSet(Routes) /\ IsFiniteSet(Targets)

VARIABLES
    pass,     \* the pass each owner has under way
    canceled  \* the owners whose context is canceled

-----------------------------------------------------------------------------
(* How a check ends.                                                       *)

\* connectivityRetryable and connectivityHTTPStatusRetryable: no connection, a
\* body that breaks off, a status of the server's passing state.
Retryable(cause) == cause \in {"connect", "read", "busy"}

\* The verdict of a site from those of its pages: the first page decides; with
\* it, a sign-in page that fails makes the site partial.
Judged(page, auth) ==
    IF page # "ok" THEN [verdict |-> "failed", retry |-> Retryable(page), cut |-> FALSE]
    ELSE IF auth # "ok" THEN [verdict |-> "partial", retry |-> Retryable(auth), cut |-> FALSE]
    ELSE [verdict |-> "usable", retry |-> FALSE, cut |-> FALSE]

\* The second page of a two-step site is checked whatever became of the first.
Judgements(t, causes) ==
    {Judged(p, a) : p \in causes, a \in IF t \in TwoStep THEN causes ELSE {"ok"}}

\* An outbound that cannot be built fails every site at once.
Unbuilt == Judged("build", "ok")

-----------------------------------------------------------------------------
(* The pass.                                                               *)

NoWish == [r \in Routes |-> {}]
NoPass == [on |-> FALSE, wish |-> NoWish, left |-> {}, wait |-> {}, probe |-> {}, out |-> {}, crew |-> 0]

\* The routes that keep a worker busy: waiting for a slot, checking, sending.
Busy(p) == p.wait \cup p.probe \cup {x.route : x \in p.out}

\* The slots of batchSem that are taken.
Taken == {s \in Owners \X Routes : s[2] \in pass[s[1]].probe}

\* The sites each of the routes is to be checked for; routes without any are
\* passed over, but count for the number of workers.
Opened(routes, wish) ==
    [NoPass EXCEPT !.on = TRUE, !.wish = wish, !.left = {r \in routes : wish[r] # {}},
                   !.crew = IF Cardinality(routes) < Slots THEN Cardinality(routes) ELSE Slots]

Closed(o) == pass[o].on /\ pass[o].left = {} /\ Busy(pass[o]) = {}

Feed(o) ==
    /\ pass[o].on /\ Cardinality(Busy(pass[o])) < pass[o].crew
    /\ \E r \in pass[o].left :
           pass' = [pass EXCEPT ![o].left = @ \ {r}, ![o].wait = @ \cup {r}]
    /\ UNCHANGED canceled

Acquire(o) ==
    /\ Cardinality(Taken) < Slots
    /\ \E r \in pass[o].wait : pass' = [pass EXCEPT ![o].wait = @ \ {r}, ![o].probe = @ \cup {r}]
    /\ UNCHANGED canceled

\* A canceled context ends what is left of the checks: a first page, or a
\* sign-in page.
Cut(t) ==
    {[verdict |-> v, retry |-> FALSE, cut |-> TRUE] :
        v \in IF t \in TwoStep THEN {"failed", "partial"} ELSE {"failed"}}
Outcomes == [verdict : {"usable", "partial", "failed"}, retry : BOOLEAN, cut : BOOLEAN]

\* Every site of the route is checked; the slot is given back.
Probe(o, causes) ==
    /\ \E r \in pass[o].probe :
       \E f \in [pass[o].wish[r] -> Outcomes] :
           /\ \/ \A t \in pass[o].wish[r] :
                     f[t] \in Judgements(t, causes) \cup (IF o \in canceled THEN Cut(t) ELSE {})
              \/ "build" \in causes /\ \A t \in pass[o].wish[r] : f[t] = Unbuilt
           /\ pass' = [pass EXCEPT ![o].probe = @ \ {r},
                                   ![o].out = @ \cup {[route |-> r, target |-> t, res |-> f[t]] : t \in pass[o].wish[r]}]
    /\ UNCHANGED canceled

\* The feeder returns, a worker gives up waiting for a slot, or sending.
FeederStops(o) ==
    /\ o \in canceled /\ pass[o].left # {}
    /\ pass' = [pass EXCEPT ![o].left = {}]
    /\ UNCHANGED canceled
WorkerStops(o) ==
    /\ o \in canceled
    /\ \/ \E r \in pass[o].wait : pass' = [pass EXCEPT ![o].wait = @ \ {r}, ![o].crew = @ - 1]
       \/ \E r \in {x.route : x \in pass[o].out} :
              pass' = [pass EXCEPT ![o].out = {x \in @ : x.route # r}, ![o].crew = @ - 1]
    /\ UNCHANGED canceled

\* The owner takes a result; the pass is closed when there is none to come.
Receive(o, x) == x \in pass[o].out /\ pass' = [pass EXCEPT ![o].out = @ \ {x}]
EndPass(o)    == Closed(o) /\ pass' = [pass EXCEPT ![o] = NoPass]

PassInit == pass = [o \in Owners |-> NoPass] /\ canceled = {}
PassStep(o, causes) == Feed(o) \/ Acquire(o) \/ Probe(o, causes) \/ FeederStops(o) \/ WorkerStops(o)
PassVars == <<pass, canceled>>
=============================================================================
