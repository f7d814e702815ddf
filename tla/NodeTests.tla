------------------------------ MODULE NodeTests ------------------------------
(***************************************************************************)
(* Connectivity jobs and verifications together: they share the slots of   *)
(* NodeTester.batchSem and nothing else.                                   *)
(***************************************************************************)
EXTENDS ConnectivityJobs, Verification

CONSTANT Menus \* bound: who takes part in a behaviour and what users do

ASSUME OwnersAssumption ==
    /\ \A m \in Menus :
           /\ m.causes \subseteq AllCauses
           /\ \A q \in m.requests : q.targets \subseteq Targets
           \* NormalizeVerificationPolicy refuses a policy that asks for nothing.
           /\ \A p \in m.policies :
                  /\ p.nodes \subseteq Routes /\ p.probe \in BOOLEAN /\ p.sites \subseteq Targets
                  /\ p.probe \/ p.sites # {}
    /\ Jobs \cap Verifiers = {}
    /\ Owners = Jobs \cup Verifiers

vars == <<PassVars, jobVars, EventVars, verVars>>

Init == PassInit /\ \E m \in Menus : JobsInit(m) /\ VerifyInit(m.crew)

Next ==
    \/ JobsNext /\ UNCHANGED verVars
    \/ VerifyNext(menu.policies, menu.cancels > 0) /\ UNCHANGED <<jobVars, EventVars>>
    \/ \E o \in Owners : PassStep(o, menu.causes) /\ UNCHANGED <<jobVars, EventVars, verVars>>

Spec == Init /\ [][Next]_vars

-----------------------------------------------------------------------------

\* Types of everything that is not a record of a single component.
TypeOK ==
    /\ canceled \subseteq Owners
    /\ \A o \in Owners :
           /\ pass[o].left \cup pass[o].wait \cup pass[o].probe \subseteq Routes
           /\ pass[o].crew \in 0 .. Slots /\ pass[o].wish \in [Routes -> SUBSET Targets]
           /\ \A x \in pass[o].out : x.route \in Routes /\ x.target \in Targets /\ x.res \in Outcomes
    /\ \A j \in Jobs :
           /\ job[j].status \in {"none", "running"} \cup Terminal
           /\ DOMAIN job[j].routes \subseteq Routes /\ job[j].targets \subseteq Targets
           /\ stamp[j] \in Nat
    /\ registered \subseteq Jobs /\ asked \subseteq Jobs /\ eligible \subseteq Nodes
    /\ client \in {"off", "begun", "reading", "gone"} /\ Len(chan) <= 1
    /\ closing \in BOOLEAN /\ shut \in BOOLEAN
    /\ \A v \in Verifiers :
           /\ ver[v].round \in 1 .. Rounds
           /\ ver[v].eligible \cup ver[v].probed \subseteq ver[v].policy.nodes
    /\ mapped \cup open \cup late \subseteq Verifiers \X Routes

InPass(o) ==
    IF o \in Jobs THEN at[o] \in {"first", "second"} ELSE ver[o].pc \in {"first", "second"}

\* The passes together never check more routes than batchSem has slots, and a
\* slot is only held for the pass of a goroutine that is in one: no cancel, no
\* end of a pass leaves one taken.
SlotsHeld ==
    /\ Cardinality(Taken) <= Slots
    /\ \A s \in Taken : InPass(s[1])

\* A job is only called finished when every route has a result for every
\* site, what failed for a passing reason was tried again, and no check was
\* broken off by a cancel, however late the cancel came.
FinishedIsHonest ==
    \A j \in Jobs : job[j].status = "finished" =>
        /\ Complete(j)
        /\ \A x \in job[j].results : ~x.res.cut /\ (~Usable(x) /\ x.res.retry => x.try = 2)

\* The counters of a job and the rows of its summaries count its results: in
\* both passes, whichever way it ends.  Every route that passes in the end
\* passed at once or is recovered, and no row gains or loses one in the second
\* pass.
CountersExact ==
    \A j \in Jobs : job[j].status # "none" =>
        /\ job[j].done = Cardinality(job[j].results)
        /\ job[j].retried = Cardinality({x \in job[j].results : x.try = 2})
        /\ job[j].retried <= job[j].retry
        /\ job[j].recovered = Cardinality({x \in job[j].results : x.try = 2 /\ Usable(x)})
        /\ \A tag \in job[j].tags, t \in job[j].targets :
               LET s == Summary(j, tag, t)
               IN  s.passed = s.first + s.recovered /\ s.total = s.passed + s.partial + s.failed

\* The database holds, for the same tags and sites, the newest of all runs
\* ever saved and no others, in whichever order two jobs that end together
\* write.
HistoryIsNewest ==
    /\ \A h \in history : [h EXCEPT !.results = {}] \in saved
    /\ \A g \in saved : ([g EXCEPT !.results = {}] \in {[h EXCEPT !.results = {}] : h \in history}) <=>
           Cardinality({k \in saved : Scope(k) = Scope(g) /\ k.stamp > g.stamp}) < HistoryKeep

\* What the history says of two finished jobs is the same from either side:
\* what one gained the other lost; every route of either is counted once.
ComparisonMirrors ==
    \A i, j \in Jobs :
        job[i].status = "finished" /\ job[j].status = "finished" /\ job[i].targets = job[j].targets =>
            LET a == job[i].results  b == job[j].results  ts == job[i].targets
                there == Compare(a, b, ts)
                back  == Compare(b, a, ts)
            IN  /\ there["newly usable"] = back["newly failed"]
                /\ there["removed"] = back["no history"]
                /\ there["still usable"] = back["still usable"]
                /\ there["still unusable"] = back["still unusable"]

\* What it says of all sites follows from what it says of each: usable when
\* usable on each of them, failed when failed on each.
OverallFollows ==
    \A j \in Jobs : job[j].status = "finished" =>
        \A r \in DOMAIN job[j].routes :
            LET all == Verdict(job[j].results, r, job[j].targets)
                each == {Verdict(job[j].results, r, {t}) : t \in job[j].targets}
            IN  (all = "usable" <=> each = {"usable"}) /\ (all = "failed" <=> each = {"failed"})

\* What the history keeps and shows of the runs is true of them.
HistoryIsTrue == HistoryIsNewest /\ ComparisonMirrors /\ OverallFollows

AtRest(j) == at[j] = "over" /\ Quiet(j) /\ job[j].status # "none"

\* A client that has nothing left to read knows how a job stands, once nobody
\* publishes it any more, unless the last event of the job was displaced by
\* one of another job or a cancel published it too.
KnownAtTheEnd ==
    \A j \in Jobs :
        client = "reading" /\ ~shut /\ chan = <<>> /\ AtRest(j) /\ j \notin asked /\ j \notin displaced =>
            known[j] = Told(j)

\* When a batch was not canceled, every node has a verdict, and a good one is
\* a node that was probed, if the policy asks for it, and found usable on all
\* sites: waiting for the task of another batch, that batch's being canceled
\* and its sessions closed make no difference.
EveryNodeJudged ==
    \A v \in Verifiers : ver[v].pc = "returned" /\ v \notin canceled =>
        /\ ver[v].judged = ver[v].policy.nodes
        /\ \A r \in ver[v].good : (ver[v].policy.probe => r \in ver[v].probed) /\ Passed(v, r)

\* The progress of a site counts every route once, in the end as passed or as
\* failed, as its last result says.
ProgressAddsUp ==
    \A v \in Verifiers : \A t \in Targets :
        LET p == ver[v].progress[t]
            got == {x \in ver[v].sites : x.target = t}
        IN  /\ p.done = Cardinality(got)
            /\ p.passed = Cardinality({x \in got : x.res.verdict = "usable"})
            /\ p.passed + p.failed = p.done
            /\ p.recovered <= p.retried

\* Every count that is shown is the count of the results behind it.
ResultsAddUp == TypeOK /\ CountersExact /\ ProgressAddsUp

\* When a batch is over and the scheduler has nothing of it left, its sessions
\* are closed; except one that a task opened after a canceled batch had closed
\* them: another batch waited for that task, or the cancel reached it late.
SessionsClosed ==
    \A s \in open :
        ~InBatch(s[1]) /\ task[s[2]].fn # s[1] => s[1] \in canceled /\ s \in late

\* No slot and no session outlives its use, whatever was cancelled.
NothingLeaks == SlotsHeld /\ SessionsClosed

=============================================================================
