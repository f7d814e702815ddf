-------------------------- MODULE ConnectivityJobs --------------------------
(***************************************************************************)
(* The connectivity jobs of importer.Service: a user starts a check of the *)
(* nodes of some tags on some sites, may cancel it, and looks at its       *)
(* results, which are compared with those of the run before.               *)
(*                                                                         *)
(* A job is run by one goroutine: a pass over all routes, a pause, a pass  *)
(* over what is worth another try, the history, the last status.  Whoever  *)
(* changes a job publishes it: a snapshot is taken under the lock of the   *)
(* jobs and sent under that of the subscribers, with nothing held between. *)
(***************************************************************************)
EXTENDS SiteProbes, JobEvents

CONSTANTS
    Nodes,       \* the nodes of the store
    TagsOf,      \* the tags of a node (managedNodeTags)
    PrintOf,     \* its route (connectivityRouteFingerprint)
    HistoryKeep  \* connectivityHistoryRunsPerScope

\* Who publishes: the goroutine of a job, or the call that cancels one.
Canceler == "canceler"

ASSUME JobsAssumption ==
    /\ Jobs \subseteq Owners /\ IsFiniteSet(Jobs)
    /\ Canceler \notin Jobs /\ Unknown \notin Jobs
    /\ HistoryKeep \in Nat \ {0}
    /\ \A n \in Nodes : PrintOf[n] \in Routes

VARIABLES
    menu,       \* bound: what users do in a behaviour; it stays as it is
    job,        \* the state of each job, NoJob before it starts and when it has expired
    at,         \* where its goroutine is
    post,       \* what is being published, for each goroutine and for the cancel
    cancel,     \* the call of CancelConnectivityJob under way
    registered, \* connectivityCancels
    eligible,   \* the nodes that may be checked
    history,    \* the runs in the database
    saved,      \* every run ever saved, without its results
    stamp,      \* completed_at of each job, counted
    closing,    \* Service.Close has begun
    asked,      \* jobs a user wanted to cancel
    count       \* cancels and faults so far

jobVars == <<menu, job, at, post, cancel, registered, eligible, history, saved, stamp, closing, asked, count>>

Terminal == {"finished", "canceled", "failed"}
NoJob == [status |-> "none", phase |-> "none", tags |-> {}, targets |-> {}, routes |-> <<>>, results |-> {},
          done |-> 0, retry |-> 0, retried |-> 0, recovered |-> 0, lost |-> FALSE]

\* Nothing to publish, a snapshot to take, or the snapshot to send.
Nothing == <<>>
Wanted  == <<"due">>
Quiet(who) == post[who] = Nothing

\* In a behaviour without subscribers what is published has no effect.
Due(who) == post' = IF menu.watch THEN [post EXCEPT ![who] = Wanted] ELSE post

-----------------------------------------------------------------------------
(* Results and what is made of them.                                       *)

Result(j, r, t) == CHOOSE x \in job[j].results : x.route = r /\ x.target = t
Has(j, r, t)    == \E x \in job[j].results : x.route = r /\ x.target = t
Usable(x) == x.res.verdict = "usable"

\* connectivityRoutes: the eligible nodes with one of the tags; nodes with the
\* same route are one, with the tags of all of them.
ChosenNodes(tags) == {n \in eligible : TagsOf[n] \cap tags # {}}
RoutesOf(tags) ==
    [r \in {PrintOf[n] : n \in ChosenNodes(tags)} |->
        UNION {TagsOf[n] : n \in {m \in ChosenNodes(tags) : PrintOf[m] = r}}]

\* connectivitySummaries: one row for each tag and site.
Rows(j, tag, t) == {x \in job[j].results : x.target = t /\ tag \in job[j].routes[x.route]}
Summary(j, tag, t) ==
    LET rows == Rows(j, tag, t)
        Number(v) == Cardinality({x \in rows : x.res.verdict = v})
    IN  [total     |-> Cardinality(rows),
         first     |-> Cardinality({x \in rows : x.first}),
         passed    |-> Number("usable"),
         partial   |-> Number("partial"),
         failed    |-> Number("failed"),
         retried   |-> Cardinality({x \in rows : x.try > 1}),
         recovered |-> Cardinality({x \in rows : x.try > 1 /\ ~x.first /\ Usable(x)})]

\* aggregateConnectivityRoutes: what the results on some sites say of a route.
Verdict(results, r, targets) ==
    LET seen == {x \in results : x.route = r /\ x.target \in targets}
    IN  IF seen = {} THEN "missing"
        ELSE IF Cardinality(seen) = Cardinality(targets) /\ \A x \in seen : Usable(x) THEN "usable"
        ELSE IF \E x \in seen : x.res.verdict # "failed" THEN "partial"
        ELSE "failed"

\* compareConnectivityResults: how a route changed.
Change(was, is) ==
    IF was = "missing" THEN "no history"
    ELSE IF is = "missing" THEN "removed"
    ELSE IF is = "usable" THEN IF was = "usable" THEN "still usable" ELSE "newly usable"
    ELSE IF was = "usable" THEN "newly failed" ELSE "still unusable"

Kinds == {"no history", "removed", "still usable", "newly usable", "newly failed", "still unusable"}
Compare(current, previous, targets) ==
    LET both == {x.route : x \in current \cup previous}
    IN  [k \in Kinds |-> Cardinality({r \in both : Change(Verdict(previous, r, targets), Verdict(current, r, targets)) = k})]

\* The runs of the same tags and sites (connectivityScopeKey).
Scope(x) == <<x.tags, x.targets>>
RunsLike(x) == {h \in history : Scope(h) = Scope(x)}

-----------------------------------------------------------------------------
(* Publishing.                                                             *)

Told(j) == <<job[j].status, job[j].phase>>
JobOf(who) == IF who = Canceler THEN cancel.job ELSE who

\* GetConnectivityJob, under connectivityJobsMu.
TakeSnapshot(who) ==
    /\ post[who] = Wanted
    /\ post' = [post EXCEPT ![who] = Told(JobOf(who))]
    /\ UNCHANGED <<menu, job, at, cancel, registered, eligible, history, saved, stamp, closing, asked, count, pass, canceled, EventVars>>

\* publishJobEvent, under jobEventsMu.
SendEvent(who) ==
    /\ post[who] \notin {Nothing, Wanted}
    /\ Publish(Event(JobOf(who), post[who]))
    /\ post' = [post EXCEPT ![who] = Nothing]
    /\ UNCHANGED <<menu, client, known, shut, job, at, cancel, registered, eligible, history, saved, stamp, closing, asked, count, pass, canceled>>

-----------------------------------------------------------------------------
(* A job, step by step.                                                    *)

Step(j, here, there) == Quiet(j) /\ at[j] = here /\ at' = [at EXCEPT ![j] = there]
KeepRest == UNCHANGED <<menu, cancel, registered, eligible, history, saved, stamp, closing, asked, count, EventVars>>

\* finishConnectivityJob when nothing is saved.
Finish(j, status) == job' = [job EXCEPT ![j].status = status, ![j].phase = status] /\ Due(j)

StartConnectivityJob(j) ==
    /\ Step(j, "none", "starting")
    /\ \E q \in menu.requests :
           /\ ChosenNodes(q.tags) # {}
           /\ job' = [job EXCEPT ![j] = [NoJob EXCEPT !.status = "running", !.phase = "first_pass", !.tags = q.tags,
                                                      !.targets = q.targets, !.routes = RoutesOf(q.tags)]]
    /\ Due(j)
    /\ UNCHANGED <<pass, canceled>> /\ KeepRest

\* launchBackground, under lifecycleMu: the cancel is registered and the first
\* pass begins; or the service is closing, and the job is over.
Launch(j) ==
    /\ Quiet(j) /\ at[j] = "starting"
    /\ IF closing
         THEN /\ Finish(j, "canceled") /\ at' = [at EXCEPT ![j] = "over"]
              /\ UNCHANGED <<pass, registered>>
         ELSE /\ registered' = registered \cup {j}
              /\ pass' = [pass EXCEPT ![j] = Opened(DOMAIN job[j].routes,
                             [r \in Routes |-> IF r \in DOMAIN job[j].routes THEN job[j].targets ELSE {}])]
              /\ at' = [at EXCEPT ![j] = "first"]
              /\ UNCHANGED <<job, post>>
    /\ UNCHANGED <<menu, canceled, cancel, eligible, history, saved, stamp, closing, asked, count, EventVars>>

\* A result of the first pass.
FirstResult(j) ==
    /\ Step(j, "first", "first")
    /\ \E x \in pass[j].out :
           /\ Receive(j, x)
           /\ job' = [job EXCEPT
                 ![j].results = @ \cup {[route |-> x.route, target |-> x.target, res |-> x.res,
                                         first |-> Usable(x), try |-> 1]},
                 ![j].done = @ + 1]
    /\ Due(j)
    /\ UNCHANGED canceled /\ KeepRest

WorthRetry(j) == {x \in job[j].results : ~Usable(x) /\ x.res.retry}

\* The first pass is over: canceled, or what failed for a passing reason is
\* picked.
FirstPassOver(j) ==
    /\ Quiet(j) /\ at[j] = "first" /\ EndPass(j)
    /\ IF j \in canceled
         THEN Finish(j, "canceled") /\ at' = [at EXCEPT ![j] = "ended"]
         ELSE LET again == WorthRetry(j)
              IN  /\ job' = [job EXCEPT ![j].retry = Cardinality(again),
                                        ![j].phase = IF again = {} THEN @ ELSE "retry_wait"]
                  /\ at' = [at EXCEPT ![j] = IF again = {} THEN "passed" ELSE "waiting"]
                  /\ Due(j)
    /\ UNCHANGED canceled /\ KeepRest

\* connectivityRetryDelay is over, or the context is canceled.
RetryWait(j) ==
    /\ Quiet(j) /\ at[j] = "waiting"
    /\ \/ /\ j \in canceled
          /\ Finish(j, "canceled") /\ at' = [at EXCEPT ![j] = "ended"]
          /\ UNCHANGED pass
       \/ /\ job' = [job EXCEPT ![j].phase = "retry"] /\ Due(j)
          /\ at' = [at EXCEPT ![j] = "second"]
          /\ pass' = [pass EXCEPT ![j] = Opened(DOMAIN job[j].routes,
                         [r \in Routes |-> {x.target : x \in {y \in WorthRetry(j) : y.route = r}}])]
    /\ UNCHANGED canceled /\ KeepRest

\* A result of the second pass takes the place of the first.
SecondResultPartial(j) ==
    /\ Step(j, "second", "second")
    /\ \E x \in pass[j].out :
       LET old == Result(j, x.route, x.target)
       IN  /\ Receive(j, x)
           /\ job' = [job EXCEPT
                 ![j].results = (@ \ {old}) \cup {[old EXCEPT !.res = x.res, !.try = 2]},
                 ![j].retried = @ + 1,
                 ![j].recovered = IF ~Usable(old) /\ x.res.verdict # "failed" THEN @ + 1 ELSE @]
    /\ Due(j)
    /\ UNCHANGED canceled /\ KeepRest
SecondResult(j) ==
    /\ Step(j, "second", "second")
    /\ \E x \in pass[j].out :
       LET old == Result(j, x.route, x.target)
       IN  /\ Receive(j, x)
           /\ job' = [job EXCEPT
                 ![j].results = (@ \ {old}) \cup {[old EXCEPT !.res = x.res, !.try = 2]},
                 ![j].retried = @ + 1,
                 ![j].recovered = IF ~Usable(old) /\ Usable(x) THEN @ + 1 ELSE @]
    /\ Due(j)
    /\ UNCHANGED canceled /\ KeepRest

SecondPassOver(j) ==
    /\ Step(j, "second", "passed") /\ EndPass(j)
    /\ UNCHANGED <<job, post, canceled>> /\ KeepRest

\* The last look at the context.
AllPassedBlind(j) ==
    /\ Step(j, "passed", "saving")
    /\ job' = [job EXCEPT ![j].phase = "saving_results"] /\ Due(j)
    /\ UNCHANGED <<pass, canceled>> /\ KeepRest
AllPassed(j) ==
    /\ Quiet(j) /\ at[j] = "passed"
    /\ \/ j \in canceled /\ Finish(j, "canceled") /\ at' = [at EXCEPT ![j] = "ended"]
       \/ /\ j \notin canceled
          /\ job' = [job EXCEPT ![j].phase = "saving_results"] /\ Due(j)
          /\ at' = [at EXCEPT ![j] = "saving"]
    /\ UNCHANGED <<pass, canceled>> /\ KeepRest

Complete(j) == \A r \in DOMAIN job[j].routes : \A t \in job[j].targets : Has(j, r, t)

\* saveConnectivityRun: one transaction that adds the run and deletes what is
\* older than the newest of its scope.
KeptOldest(runs) == {h \in runs : Cardinality({g \in runs : g.stamp < h.stamp}) < HistoryKeep}
Kept(runs) == {h \in runs : Cardinality({g \in runs : g.stamp > h.stamp}) < HistoryKeep}
Run(j, s) == [id |-> j, stamp |-> s, tags |-> job[j].tags, targets |-> job[j].targets, results |-> job[j].results]

\* The results are read under the lock, the time is taken; results that are
\* not complete make the job fail.
TakeResults(j) ==
    /\ Quiet(j) /\ at[j] = "saving"
    /\ IF Complete(j)
         THEN /\ at' = [at EXCEPT ![j] = "storing"]
              /\ stamp' = [stamp EXCEPT ![j] = 1 + Cardinality({i \in Jobs : stamp[i] > 0})]
              /\ UNCHANGED <<job, post>>
         ELSE /\ Finish(j, "failed") /\ at' = [at EXCEPT ![j] = "ended"]
              /\ UNCHANGED stamp
    /\ UNCHANGED <<menu, pass, canceled, cancel, registered, eligible, history, saved, closing, asked, count, EventVars>>

SaveRun(j) ==
    /\ Step(j, "storing", "saved")
    /\ LET new == Run(j, stamp[j])
       IN  /\ history' = (history \ RunsLike(new)) \cup Kept(RunsLike(new) \cup {new})
           /\ saved' = saved \cup {[new EXCEPT !.results = {}]}
    /\ UNCHANGED <<menu, job, post, pass, canceled, cancel, registered, eligible, stamp, closing, asked, count, EventVars>>

\* The transaction fails: the job is finished all the same, with an error.
SaveRunFails(j) ==
    /\ Step(j, "storing", "saved") /\ count.faults < menu.faults
    /\ count' = [count EXCEPT !.faults = @ + 1]
    /\ job' = [job EXCEPT ![j].lost = TRUE]
    /\ UNCHANGED <<menu, post, pass, canceled, cancel, registered, eligible, history, saved, stamp, closing, asked, EventVars>>

LastStatus(j) ==
    /\ Quiet(j) /\ at[j] = "saved" /\ at' = [at EXCEPT ![j] = "ended"]
    /\ Finish(j, "finished")
    /\ UNCHANGED <<pass, canceled>> /\ KeepRest

\* The deferred removal of the cancel.
Deregister(j) ==
    /\ Step(j, "ended", "over")
    /\ registered' = registered \ {j}
    /\ UNCHANGED <<menu, job, post, pass, canceled, cancel, eligible, history, saved, stamp, closing, asked, count, EventVars>>

\* cleanupExpiredJobs, or the sweep of a start: after half an hour without a
\* change, long after its goroutine and a cancel have returned.
Expire(j) ==
    /\ Quiet(j) /\ at[j] = "over" /\ job[j].status \in Terminal /\ cancel.job # j
    /\ job' = [job EXCEPT ![j] = NoJob]
    /\ UNCHANGED <<at, post, pass, canceled>> /\ KeepRest

-----------------------------------------------------------------------------
(* CancelConnectivityJob, Close and the store.                             *)

NoCancel == [job |-> Unknown, pc |-> "idle"]

\* The job is found running.
CancelConnectivityJob(j) ==
    /\ cancel = NoCancel /\ count.cancels < menu.cancels
    /\ job[j].status = "running"
    /\ cancel' = [job |-> j, pc |-> "call"]
    /\ count' = [count EXCEPT !.cancels = @ + 1]
    /\ asked' = asked \cup {j}
    /\ UNCHANGED <<menu, job, at, post, registered, eligible, history, saved, stamp, closing, pass, canceled, EventVars>>

\* Its context is canceled if its cancel is registered by now.
CallCancel ==
    /\ cancel.pc = "call"
    /\ cancel' = [cancel EXCEPT !.pc = "mark"]
    /\ canceled' = canceled \cup (registered \cap {cancel.job})
    /\ UNCHANGED <<menu, job, at, post, registered, eligible, history, saved, stamp, closing, asked, count, pass, EventVars>>

\* The phase is set whatever has become of the job.
MarkCanceling ==
    /\ cancel.pc = "mark"
    /\ cancel' = [cancel EXCEPT !.pc = "publish"]
    /\ job' = [job EXCEPT ![cancel.job].phase = "canceling"]
    /\ Due(Canceler)
    /\ UNCHANGED <<menu, at, registered, eligible, history, saved, stamp, closing, asked, count, pass, canceled, EventVars>>

CancelDone ==
    /\ cancel.pc = "publish" /\ Quiet(Canceler)
    /\ cancel' = NoCancel
    /\ UNCHANGED <<menu, job, at, post, registered, eligible, history, saved, stamp, closing, asked, count, pass, canceled, EventVars>>

\* A node is excluded while jobs run: they keep what they began with.
NodeLeaves ==
    /\ \E n \in menu.leavers \cap eligible : eligible' = eligible \ {n}
    /\ UNCHANGED <<menu, job, at, post, cancel, registered, history, saved, stamp, closing, asked, count, pass, canceled, EventVars>>

\* Service.Close, under lifecycleMu; then the channels of the subscribers.
BeginClose ==
    /\ menu.close /\ ~closing /\ closing' = TRUE
    /\ canceled' = canceled \cup registered
    /\ UNCHANGED <<menu, job, at, post, cancel, registered, eligible, history, saved, stamp, asked, count, pass, EventVars>>
CloseEvents ==
    /\ closing /\ ~shut /\ CloseJobEvents
    /\ UNCHANGED <<menu, job, at, post, cancel, registered, eligible, history, saved, stamp, closing, asked, count, pass, canceled>>

\* The handler of the client; its snapshot is taken under connectivityJobsMu.
View == [j \in Jobs |-> IF job[j].status = "none" THEN Unknown ELSE Told(j)]
ClientStep ==
    /\ menu.watch /\ (Subscribe \/ Snapshot(View) \/ Read \/ Leave \/ Gone)
    /\ UNCHANGED <<menu, job, at, post, cancel, registered, eligible, history, saved, stamp, closing, asked, count, pass, canceled>>

-----------------------------------------------------------------------------

JobsInit(m) ==
    /\ menu = m
    /\ job = [j \in Jobs |-> NoJob]
    /\ at = [j \in Jobs |-> IF j \in m.crew THEN "none" ELSE "over"]
    /\ post = [w \in Jobs \cup {Canceler} |-> Nothing]
    /\ cancel = NoCancel /\ registered = {} /\ eligible = Nodes
    /\ history = {} /\ saved = {} /\ stamp = [j \in Jobs |-> 0]
    /\ closing = FALSE /\ asked = {} /\ count = [cancels |-> 0, faults |-> 0]
    /\ EventInit

\* What the goroutine of a job does.
JobStep(j) ==
    \/ Launch(j)
    \/ FirstResult(j)
    \/ FirstPassOver(j)
    \/ RetryWait(j)
    \/ SecondResult(j)
    \/ SecondPassOver(j)
    \/ AllPassed(j)
    \/ TakeResults(j)
    \/ SaveRun(j)
    \/ SaveRunFails(j)
    \/ LastStatus(j)
    \/ Deregister(j)

Publishing == \E w \in Jobs \cup {Canceler} : TakeSnapshot(w) \/ SendEvent(w)

JobsNext ==
    \/ \E j \in Jobs : StartConnectivityJob(j) \/ JobStep(j) \/ Expire(j) \/ CancelConnectivityJob(j)
    \/ Publishing
    \/ CallCancel \/ MarkCanceling \/ CancelDone
    \/ NodeLeaves
    \/ BeginClose \/ CloseEvents
    \/ ClientStep
=============================================================================
