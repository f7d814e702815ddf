---------------------------- MODULE Verification ----------------------------
(***************************************************************************)
(* importer.verifyNodes: the verdict on the nodes of an import, a refresh  *)
(* or a test.  Every node is probed in up to probeRounds rounds            *)
(* (probeBatchWithProgress); what answered is checked on the sites of the  *)
(* policy, in two passes like those of a connectivity job.                 *)
(*                                                                         *)
(* A probe is a task of the shared scheduler, which ProbeScheduler models  *)
(* in full.  What matters here: a batch that asks for a node another batch *)
(* has in the queue waits for that task, which runs the function of the    *)
(* first batch and leaves its session in the map of the first batch.       *)
(***************************************************************************)
EXTENDS SiteProbes

CONSTANTS
    Verifiers,   \* the batches
    Rounds,      \* probeRounds
    NoOne

ASSUME VerifiersAssumption ==
    /\ Verifiers \subseteq Owners
    /\ Rounds \in Nat \ {0}
    /\ NoOne \notin Verifiers

VARIABLES
    ver,    \* the state of each batch
    task,   \* the task of each route in the scheduler
    mapped, \* sessions: the map of each batch
    open,   \* the sessions that are open
    late    \* those opened when their batch had ended

verVars == <<ver, task, mapped, open, late>>

NoProgress == [done |-> 0, passed |-> 0, failed |-> 0, retried |-> 0, recovered |-> 0]
NoVer == [pc |-> "idle", policy |-> [nodes |-> {}, probe |-> FALSE, sites |-> {}], round |-> 1, crew |-> 0, left |-> {}, asked |-> {},
          inbox |-> {}, again |-> {}, eligible |-> {}, probed |-> {}, sites |-> {},
          progress |-> [t \in Targets |-> NoProgress], judged |-> {}, good |-> {}]
NoTask == [fn |-> NoOne, waiters |-> {}, pc |-> "none", later |-> {}, laterFn |-> NoOne]

-----------------------------------------------------------------------------
(* The rounds of probes.                                                   *)

Larger(m, n) == IF m > n THEN m ELSE n

\* probeRoundConcurrency: all workers for a long list, fewer in later rounds.
RoundWorkers(round, n) ==
    IF n >= 4 * Slots \/ round = 1 \/ Slots <= 2 THEN Slots
    ELSE IF round = 2 THEN Larger(2, Slots \div 2) ELSE Larger(2, Slots \div 4)

BeginVerify(v, policies) ==
    /\ ver[v].pc = "idle"
    /\ \E p \in policies :
           ver' = [ver EXCEPT ![v].pc = IF p.probe THEN "round" ELSE "chosen", ![v].policy = p,
                              ![v].left = IF p.probe THEN p.nodes ELSE {},
                              ![v].crew = RoundWorkers(1, Cardinality(p.nodes)),
                              ![v].eligible = IF p.probe THEN {} ELSE p.nodes]
    /\ UNCHANGED <<task, mapped, open, late, pass, canceled>>

\* Submit: a new task, or one more waiter of that which is there; when it is
\* running, of the run after it.
Submit(v) ==
    /\ ver[v].pc = "round" /\ v \notin canceled
    /\ Cardinality(ver[v].asked) < ver[v].crew
    /\ \E r \in ver[v].left :
       LET t == task[r]
       IN  /\ ver' = [ver EXCEPT ![v].left = @ \ {r}, ![v].asked = @ \cup {r}]
           /\ task' = [task EXCEPT ![r] =
                 CASE t.pc = "none"   -> [NoTask EXCEPT !.fn = v, !.waiters = {v}, !.pc = "queued"]
                   [] t.pc = "queued" -> [t EXCEPT !.waiters = @ \cup {v}]
                   [] OTHER           -> [t EXCEPT !.later = @ \cup {v}, !.laterFn = v]]
    /\ UNCHANGED <<mapped, open, late, pass, canceled>>

\* A worker takes the task; nobody may be waiting for it any more.
RunTask(r) ==
    /\ task[r].pc = "queued"
    /\ task' = [task EXCEPT ![r] =
           IF task[r].waiters \subseteq canceled THEN NoTask
           ELSE [task[r] EXCEPT !.pc = "running", !.waiters = @ \ canceled]]
    /\ UNCHANGED <<ver, mapped, open, late, pass, canceled>>

\* What follows a run: the waiters have their result; those that came while
\* it ran make it run again with the function of the last of them.  (A batch
\* that asks between the two is one of those, or the first of a new task.)
Delivered(r, what) ==
    LET next == task[r].later \ canceled
    IN  /\ task' = [task EXCEPT ![r] =
              IF next = {} THEN NoTask
              ELSE [NoTask EXCEPT !.fn = task[r].laterFn, !.waiters = next, !.pc = "queued"]]
        /\ ver' = [v \in Verifiers |->
              IF v \in task[r].waiters \ canceled
                THEN [ver[v] EXCEPT !.inbox = @ \cup {<<r, what>>}] ELSE ver[v]]
InBatch(v) == ver[v].pc = "round"

\* The function of the task finds the session of its batch or makes one; a
\* node that cannot be built has failed for good, one the runtime refuses may
\* be tried again.
OpenSession(r) ==
    LET s == <<task[r].fn, r>>
    IN  /\ task[r].pc = "running"
        /\ \/ /\ task' = [task EXCEPT ![r].pc = "probing"]
              /\ mapped' = mapped \cup {s}
              /\ open' = IF s \in mapped THEN open ELSE open \cup {s}
              /\ late' = IF s \notin mapped /\ ~InBatch(task[r].fn) THEN late \cup {s} ELSE late
              /\ UNCHANGED ver
           \/ /\ s \notin mapped
              /\ \E what \in {"retry", "final"} : Delivered(r, what)
              /\ UNCHANGED <<mapped, open, late>>
    /\ UNCHANGED <<pass, canceled>>

\* The probe ends.  Its session is closed unless another round may use it.
\* The outcome is "final" when every waiter has gone.
EndProbe(r) ==
    LET s == <<task[r].fn, r>>
    IN  /\ task[r].pc = "probing"
        /\ \E what \in {"ok", "retry", "final"} :
               /\ what = "final" => task[r].waiters \subseteq canceled
               /\ Delivered(r, what)
               /\ IF what = "retry" THEN UNCHANGED <<mapped, open>>
                  ELSE mapped' = mapped \ {s} /\ open' = open \ {s}
    /\ UNCHANGED <<late, pass, canceled>>

\* A result is taken: worth another round, or the end of the node's probes.
TakeProbeForgets(v) ==
    /\ InBatch(v)
    /\ \E x \in ver[v].inbox :
       LET r == x[1]  what == x[2]
       IN  IF what = "retry" /\ ver[v].round < Rounds
             THEN /\ ver' = [ver EXCEPT ![v].inbox = @ \ {x}, ![v].asked = @ \ {r}, ![v].again = @ \cup {r}]
                  /\ UNCHANGED <<mapped, open>>
             ELSE /\ ver' = [ver EXCEPT ![v].inbox = @ \ {x}, ![v].asked = @ \ {r},
                                        ![v].probed = IF what = "retry" THEN @ ELSE @ \cup {r},
                                        ![v].eligible = IF what = "ok" THEN @ \cup {r} ELSE @]
                  /\ mapped' = mapped \ {<<v, r>>} /\ open' = open \ {<<v, r>>}
    /\ UNCHANGED <<task, late, pass, canceled>>
TakeProbe(v) ==
    /\ InBatch(v)
    /\ \E x \in ver[v].inbox :
       LET r == x[1]  what == x[2]
       IN  IF what = "retry" /\ ver[v].round < Rounds
             THEN /\ ver' = [ver EXCEPT ![v].inbox = @ \ {x}, ![v].asked = @ \ {r}, ![v].again = @ \cup {r}]
                  /\ UNCHANGED <<mapped, open>>
             ELSE /\ ver' = [ver EXCEPT ![v].inbox = @ \ {x}, ![v].asked = @ \ {r},
                                        ![v].probed = @ \cup {r},
                                        ![v].eligible = IF what = "ok" THEN @ \cup {r} ELSE @]
                  /\ mapped' = mapped \ {<<v, r>>} /\ open' = open \ {<<v, r>>}
    /\ UNCHANGED <<task, late, pass, canceled>>

RoundOver(v) ==
    /\ InBatch(v) /\ ver[v].left = {} /\ ver[v].asked = {} /\ ver[v].again # {}
    /\ ver' = [ver EXCEPT ![v].round = @ + 1, ![v].left = ver[v].again, ![v].again = {},
                          ![v].crew = RoundWorkers(ver[v].round + 1, Cardinality(ver[v].again))]
    /\ UNCHANGED <<task, mapped, open, late, pass, canceled>>

\* The batch returns, at its end or when it is canceled, and closes the
\* sessions of its map, which keeps them.
BatchOverLeaky(v) ==
    /\ InBatch(v)
    /\ v \in canceled \/ (ver[v].left = {} /\ ver[v].asked = {} /\ ver[v].again = {})
    /\ ver' = [ver EXCEPT ![v].pc = "chosen", ![v].left = {}, ![v].asked = {}, ![v].inbox = {}, ![v].again = {}]
    /\ UNCHANGED <<open, task, mapped, late, pass, canceled>>
BatchOver(v) ==
    /\ InBatch(v)
    /\ v \in canceled \/ (ver[v].left = {} /\ ver[v].asked = {} /\ ver[v].again = {})
    /\ ver' = [ver EXCEPT ![v].pc = "chosen", ![v].left = {}, ![v].asked = {}, ![v].inbox = {}, ![v].again = {}]
    /\ open' = {s \in open : s[1] # v}
    /\ UNCHANGED <<task, mapped, late, pass, canceled>>

-----------------------------------------------------------------------------
(* The sites.                                                              *)

SiteOf(v, r, t) == CHOOSE x \in ver[v].sites : x.route = r /\ x.target = t

\* The progress of a site with a first result, and with one that takes the
\* place of another.
Counted(p, x) ==
    [p EXCEPT !.done = @ + 1,
              !.passed = IF x.res.verdict = "usable" THEN @ + 1 ELSE @,
              !.failed = IF x.res.verdict = "usable" THEN @ ELSE @ + 1]
Recounted(p, x) ==
    [p EXCEPT !.retried = @ + 1,
              !.passed = IF x.res.verdict = "usable" THEN @ + 1 ELSE @,
              !.failed = IF x.res.verdict = "usable" THEN @ - 1 ELSE @,
              !.recovered = IF x.res.verdict = "usable" THEN @ + 1 ELSE @]
Stay == UNCHANGED <<task, mapped, open, late>>

\* Only nodes that passed the probes, or all when there are none, go on; none
\* of them when the context is canceled.
BeginSites(v) ==
    /\ ver[v].pc = "chosen"
    /\ IF v \in canceled \/ ver[v].policy.sites = {} \/ ver[v].eligible = {}
         THEN /\ ver' = [ver EXCEPT ![v].pc = "returned", ![v].judged = ver[v].probed, ![v].good = ver[v].eligible \cap ver[v].probed]
              /\ UNCHANGED pass
         ELSE /\ ver' = [ver EXCEPT ![v].pc = "first"]
              /\ pass' = [pass EXCEPT ![v] = Opened(ver[v].eligible,
                             [r \in Routes |-> IF r \in ver[v].eligible THEN ver[v].policy.sites ELSE {}])]
    /\ UNCHANGED canceled /\ Stay

SiteResult(v) ==
    /\ ver[v].pc = "first"
    /\ \E x \in pass[v].out :
           /\ Receive(v, x)
           /\ ver' = [ver EXCEPT ![v].sites = @ \cup {x}, ![v].progress[x.target] = Counted(@, x)]
    /\ UNCHANGED canceled /\ Stay

AgainSites(v) == [r \in Routes |-> {x.target : x \in {y \in ver[v].sites : y.route = r /\ y.res.verdict # "usable" /\ y.res.retry}}]

\* The first pass is over; there is a second one when something is worth it
\* and the context is not canceled, before the pause or in it.
SitesOver(v) ==
    /\ ver[v].pc = "first" /\ EndPass(v)
    /\ ver' = [ver EXCEPT ![v].pc = IF v \in canceled \/ AgainSites(v) = NoWish THEN "judge" ELSE "waiting"]
    /\ UNCHANGED canceled /\ Stay

SitesWait(v) ==
    /\ ver[v].pc = "waiting"
    /\ \/ v \in canceled /\ ver' = [ver EXCEPT ![v].pc = "judge"] /\ UNCHANGED pass
       \/ /\ ver' = [ver EXCEPT ![v].pc = "second"]
          /\ pass' = [pass EXCEPT ![v] = Opened(ver[v].eligible, AgainSites(v))]
    /\ UNCHANGED canceled /\ Stay

SiteResultAgain(v) ==
    /\ ver[v].pc = "second"
    /\ \E x \in pass[v].out :
       /\ Receive(v, x)
       /\ ver' = [ver EXCEPT ![v].sites = (@ \ {SiteOf(v, x.route, x.target)}) \cup {x},
                             ![v].progress[x.target] = Recounted(@, x)]
    /\ UNCHANGED canceled /\ Stay

SitesOverAgain(v) ==
    /\ ver[v].pc = "second" /\ EndPass(v)
    /\ ver' = [ver EXCEPT ![v].pc = "judge"]
    /\ UNCHANGED canceled /\ Stay

\* The verdict: an eligible node is good when every site of the policy was
\* usable in the end; a missing result is a failure.
Passed(v, r) == \A t \in ver[v].policy.sites : \E x \in ver[v].sites : x.route = r /\ x.target = t /\ x.res.verdict = "usable"
Judge(v) ==
    /\ ver[v].pc = "judge"
    /\ ver' = [ver EXCEPT ![v].pc = "returned", ![v].judged = ver[v].probed \cup ver[v].eligible,
                          ![v].good = {r \in ver[v].eligible : Passed(v, r)}]
    /\ UNCHANGED <<pass, canceled>> /\ Stay

\* The job of the batch is canceled, or the service closes.
CancelVerify(v) ==
    /\ ver[v].pc \notin {"idle", "returned"} /\ v \notin canceled
    /\ canceled' = canceled \cup {v}
    /\ UNCHANGED <<ver, pass>> /\ Stay

-----------------------------------------------------------------------------

VerifyInit(crew) ==
    /\ ver = [v \in Verifiers |-> IF v \in crew THEN NoVer ELSE [NoVer EXCEPT !.pc = "returned"]]
    /\ task = [r \in Routes |-> NoTask]
    /\ mapped = {} /\ open = {} /\ late = {}

BatchStep(v) ==
    \/ Submit(v)
    \/ TakeProbe(v)
    \/ RoundOver(v)
    \/ BatchOver(v)
    \/ BeginSites(v)
    \/ SiteResult(v)
    \/ SitesOver(v)
    \/ SitesWait(v)
    \/ SiteResultAgain(v)
    \/ SitesOverAgain(v)
    \/ Judge(v)

TaskStep(r) == RunTask(r) \/ OpenSession(r) \/ EndProbe(r)

VerifyNext(policies, mayCancel) ==
    \/ \E v \in Verifiers : BeginVerify(v, policies) \/ BatchStep(v) \/ (mayCancel /\ CancelVerify(v))
    \/ \E r \in Routes : TaskStep(r)
=============================================================================
