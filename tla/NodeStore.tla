----------------------------- MODULE NodeStore -----------------------------
(***************************************************************************)
(* The store of managed nodes and import jobs (importer/store.go) over its *)
(* SQLite database (importer/state_db.go), with the start-up that takes    *)
(* back what a dead process left (NewStore, NewService).                   *)
(*                                                                         *)
(* Every mutation has the same shape.  Holding mutationMu it changes the   *)
(* maps in memory under mu, remembering what it replaced; it then writes   *)
(* the change to the database in one transaction; if that fails it puts    *)
(* the remembered entries back.  Between the two, readers and              *)
(* UpdateJobProgress, which take only mu, see the changed maps.  So a      *)
(* mutation is a step that changes memory and opens a call, and one that   *)
(* commits or fails; the program may die at any moment.                    *)
(*                                                                         *)
(* A node is kept as what start-up and the pool look at, a job as its      *)
(* status and its time of update, the part of its progress that retention  *)
(* uses; failed jobs are like completed ones.  A commit is durable: the    *)
(* loss of a WAL file with the machine is outside the model.               *)
(***************************************************************************)
EXTENDS Naturals, FiniteSets

CONSTANTS
    Ids,      \* node IDs
    JobIds,   \* import job IDs, random numbers of a fixed length in the program
    NoNode,   \* the node of an ID that is not in the map
    NoJob,    \* the job of an ID that is not in the map
    MaxJobs,  \* maxStoredJobs
    MaxAge,   \* storedJobMaxAge
    LeftNodes, LeftJobs,  \* the tables an earlier process can have left
    MaxTime,  \* bound: the clock stops here
    MaxCalls  \* bound: mutations and crashes of a behaviour

ASSUME JobIdsAssumption == JobIds \subseteq Nat /\ IsFiniteSet(JobIds)
ASSUME IdsAssumption == Ids # {}
ASSUME BoundsAssumption ==
    MaxJobs \in Nat /\ MaxAge \in Nat /\ MaxTime \in Nat /\ MaxCalls \in Nat

Node == [state: {"parsed", "testing", "passed", "failed", "blocked", "excluded", "in_pool"},
         inPool: BOOLEAN, enabled: BOOLEAN,
         tested: BOOLEAN,   \* LastTestAt is set
         failure: BOOLEAN,  \* LastError is not empty
         staged: BOOLEAN]   \* ImportMode is refresh_stage or import_stage

Statuses == {"parsed", "running", "completed", "canceled"}
Job      == [status: Statuses, at: 0..MaxTime]

ASSUME AbsentAssumption == NoNode \notin Node /\ NoJob \notin Job \cup Statuses

VARIABLES
    phase,    \* "load", "recover", "cleanup", "stale" while starting, then "up"
    nodes,    \* Store.nodes
    jobs,     \* Store.jobs
    dbNodes,  \* table managed_nodes
    dbJobs,   \* table import_jobs
    held,     \* mutationMu is held
    call,     \* by this mutation: what it writes to the database, what it replaced in memory
    snap,     \* nodes as last read: held by a job that writes them later, or in a backup file
    skipped,  \* start-up repairs whose failed write was ignored
    now,      \* the clock
    calls     \* counts against MaxCalls

memory == <<nodes, jobs>>
db     == <<dbNodes, dbJobs>>
lock   == <<held, call>>
vars   == <<phase, memory, db, lock, snap, skipped, now, calls>>

\* f with the entries of p, a function on part of its domain, written over it.
Patch(f, p) == [x \in DOMAIN f |-> IF x \in DOMAIN p THEN p[x] ELSE f[x]]
Part(f, S)  == [x \in S |-> f[x]]
Nothing     == [x \in {} |-> NoNode]

Known   == {i \in Ids : nodes[i] # NoNode}
HasJob  == {j \in JobIds : jobs[j] # NoJob}
NoNodes == [i \in Ids |-> NoNode]
NoJobs  == [j \in JobIds |-> NoJob]

-----------------------------------------------------------------------------
(* The shape of a mutation: np and jp are the entries of nodes and of jobs *)
(* it writes, NoNode and NoJob those it deletes, and changed the jobs      *)
(* whose entries in memory it replaces and remembers.                      *)
(* An operator just before a definition, named after it, is the definition *)
(* with a plausible slip; PROJECT.json says which property rules it out.   *)

Begin(np, jp, changed) ==
    /\ ~held
    /\ held' = TRUE
    /\ nodes' = Patch(nodes, np)
    /\ jobs' = Patch(jobs, jp)
    /\ call' = [putNodes |-> np, putJobs |-> jp,
                oldNodes |-> Part(nodes, DOMAIN np), oldJobs |-> Part(jobs, changed)]
    /\ UNCHANGED <<phase, db, snap, skipped, now>>

NoCall  == [putNodes |-> Nothing, putJobs |-> Nothing,
            oldNodes |-> Nothing, oldJobs |-> Nothing]
Release == held' = FALSE /\ call' = NoCall

NextPhase == [recover |-> "cleanup", cleanup |-> "stale", stale |-> "up", up |-> "up"]

\* stateDB.write succeeds: one transaction, all of the change or nothing.
Commit ==
    /\ held
    /\ dbNodes' = Patch(dbNodes, call.putNodes)
    /\ dbJobs' = Patch(dbJobs, call.putJobs)
    /\ Release
    /\ phase' = NextPhase[phase]
    /\ UNCHANGED <<memory, snap, skipped, now, calls>>

\* The entries replaced come back, the new ones are not removed.
FailKeepsNew ==
    /\ held
    /\ nodes' = Patch(nodes, Part(call.oldNodes, {i \in DOMAIN call.oldNodes : call.oldNodes[i] # NoNode}))
    /\ jobs' = Patch(jobs, call.oldJobs)
    /\ Release
    /\ phase' = IF phase = "recover" THEN "load" ELSE NextPhase[phase]
    /\ skipped' = skipped \cup ({phase} \cap {"cleanup", "stale"})
    /\ UNCHANGED <<db, snap, now, calls>>

\* It fails: memory is put back.  NewStore gives up when the recovery of the
\* jobs fails; NewService ignores the errors of the two repairs of nodes.
Fail ==
    /\ held
    /\ nodes' = Patch(nodes, call.oldNodes)
    /\ jobs' = Patch(jobs, call.oldJobs)
    /\ Release
    /\ phase' = IF phase = "recover" THEN "load" ELSE NextPhase[phase]
    /\ skipped' = skipped \cup ({phase} \cap {"cleanup", "stale"})
    /\ UNCHANGED <<db, snap, now, calls>>

-----------------------------------------------------------------------------
(* Retention of jobs.                                                      *)

\* A job of a dead process is taken back at start-up, with the new time.
Recovered(j, boot) ==
    IF boot /\ jobs[j].status = "running" THEN [status |-> "canceled", at |-> now] ELSE jobs[j]

\* The newest first, whatever their status.
PrecedesByAge(j, k, boot) ==
    LET a == Recovered(j, boot)  b == Recovered(k, boot)
    IN  \/ a.at > b.at
        \/ a.at = b.at /\ j < k

\* The order of retention: parsed jobs first, then the newest, then by ID.
Precedes(j, k, boot) ==
    LET a == Recovered(j, boot)  b == Recovered(k, boot)
    IN  \/ a.status = "parsed" /\ b.status # "parsed"
        \/ /\ (a.status = "parsed") = (b.status = "parsed")
           /\ \/ a.at > b.at
              \/ a.at = b.at /\ j < k

Prunable(boot) == {j \in HasJob : boot \/ jobs[j].status # "running"}
Expired(boot)  == {j \in Prunable(boot) : now > Recovered(j, boot).at + MaxAge}
Excess(boot)   ==
    LET retained == Prunable(boot) \ Expired(boot)
    IN  {j \in retained : Cardinality({k \in retained : Precedes(k, j, boot)}) >= MaxJobs}

PruneChange(boot) ==
    LET dropped == Expired(boot) \cup Excess(boot)
    IN  [j \in dropped \cup {k \in Prunable(boot) : Recovered(k, boot) # jobs[k]}
           |-> IF j \in dropped THEN NoJob ELSE Recovered(j, boot)]

-----------------------------------------------------------------------------
(* Start-up.                                                               *)

Load ==
    /\ phase = "load"
    /\ nodes' = dbNodes /\ jobs' = dbJobs
    /\ skipped' = {}
    /\ phase' = "recover"
    /\ UNCHANGED <<db, lock, snap, now, calls>>

\* Run a repair, or go on when it has nothing to write.
Repair(at, np, jp) ==
    /\ phase = at
    /\ IF DOMAIN np \cup DOMAIN jp = {}
       THEN /\ ~held
            /\ phase' = NextPhase[phase]
            /\ UNCHANGED <<memory, db, lock, snap, skipped, now>>
       ELSE Begin(np, jp, DOMAIN jp)
    /\ UNCHANGED calls

\* The state of a node whose test was cut off.
Rested(n) ==
    [n EXCEPT !.state = IF n.inPool THEN "in_pool"
                        ELSE IF ~n.enabled THEN "excluded"
                        ELSE IF ~n.tested THEN "parsed"
                        ELSE IF n.failure THEN "failed" ELSE "passed"]

\* What start-up repairs of jobs and nodes, each in a transaction of its own.
RecoverNoRunning == Repair("recover", Nothing, PruneChange(FALSE))
RecoverJobs  == Repair("recover", Nothing, PruneChange(TRUE))
CleanupStage == Repair("cleanup", [i \in {k \in Known : nodes[k].staged} |-> NoNode], Nothing)
RecoverStaleTestingNodes ==
    Repair("stale", [i \in {k \in Known : nodes[k].state = "testing"} |-> Rested(nodes[i])], Nothing)

\* The process ends; what it had in memory, an open transaction included, is gone.
Crash ==
    /\ phase # "load"
    /\ calls < MaxCalls
    /\ phase' = "load"
    /\ nodes' = NoNodes /\ jobs' = NoJobs
    /\ Release
    /\ calls' = calls + 1
    /\ UNCHANGED <<db, snap, skipped, now>>
-----------------------------------------------------------------------------
(* Mutations of nodes, with the values their callers write.                *)

MutateKeeping(np, jp, changed) ==
    /\ phase = "up"
    /\ calls < MaxCalls
    /\ Begin(np, jp, changed)
    /\ calls' = calls + 1

Mutate(np, jp) == MutateKeeping(np, jp, DOMAIN jp)

\* A node as it is imported: it waits beside the node of its route.
Fresh        == [state |-> "parsed", inPool |-> FALSE, enabled |-> TRUE,
                 tested |-> FALSE, failure |-> FALSE, staged |-> TRUE]
InPool(n)    == n.inPool \/ n.state = "in_pool"
Testing(n)   == [n EXCEPT !.state = "testing"]
Passed(n)    == [n EXCEPT !.state = IF InPool(n) THEN "in_pool" ELSE "passed",
                          !.inPool = InPool(n), !.enabled = TRUE,
                          !.tested = TRUE, !.failure = FALSE]
Failed(n)    == [n EXCEPT !.state = "failed", !.inPool = FALSE, !.tested = TRUE, !.failure = TRUE]
Blocked(n)   == [n EXCEPT !.state = IF InPool(n) THEN n.state ELSE "blocked",
                          !.tested = TRUE, !.failure = TRUE]
Tolerated(n) == IF InPool(n)  \* one failure, or a few
                THEN [n EXCEPT !.state = "in_pool", !.inPool = TRUE, !.tested = TRUE, !.failure = TRUE]
                ELSE Failed(n)
Located(n)   == [n EXCEPT !.tested = TRUE, !.failure = FALSE]
NoCountry(n) == [n EXCEPT !.failure = TRUE]
Excluded(n)  == [n EXCEPT !.state = "excluded", !.inPool = FALSE, !.enabled = FALSE]
Promoted(n)  == [n EXCEPT !.state = "in_pool", !.inPool = TRUE, !.enabled = TRUE]

\* What a caller of UpsertNodes may make of a node it has read: the node
\* itself, with another name or port or fewer sources, or a new state.
Edits(n) == {n, Testing(n), Passed(n), Failed(n), Tolerated(n), Blocked(n), Excluded(n)}
            \cup (IF n.state = "failed" THEN {} ELSE {Located(n), NoCountry(n)})

\* What a caller can have read of a node, just now or when its test began,
\* even if the node has been deleted since.
Copies(i) == {nodes[i], snap[i]} \ {NoNode}

\* A parse, a refresh or a binding of sources makes nodes with new IDs.
ImportNodes == \E S \in (SUBSET (Ids \ Known)) \ {{}} : Mutate([i \in S |-> Fresh], Nothing)
UpsertNodes ==
    \E i \in Ids : \E copy \in Copies(i) : \E n \in Edits(copy) : Mutate([k \in {i} |-> n], Nothing)

\* The result of a refresh or import: a tested staged node takes the place of
\* the node of its route, if there is one, and others of its source go.  It
\* inherits the membership in the pool only if it has passed, and has failed
\* after all if the runtime does not accept it.
Applied(s, t) ==
    IF t \in Known /\ InPool(nodes[t]) /\ nodes[s].state = "passed"
    THEN [nodes[s] EXCEPT !.staged = FALSE, !.state = "in_pool", !.inPool = TRUE,
                          !.enabled = nodes[t].enabled]
    ELSE [nodes[s] EXCEPT !.staged = FALSE, !.inPool = FALSE]
Refused(n)    == [n EXCEPT !.state = "failed", !.inPool = FALSE, !.failure = TRUE]
Results(s, t) == {Applied(s, t)}
                 \cup (IF nodes[s].state = "passed" THEN {Refused(Applied(s, t))} ELSE {})
ApplyNodeChanges ==
    \E s \in Known, t \in Ids \ {i \in Known : nodes[i].staged} :
        /\ nodes[s].staged /\ nodes[s].state \in {"passed", "failed"}
        /\ \E gone \in SUBSET {i \in Known \ {t} : ~nodes[i].staged}, n \in Results(s, t) :
              Mutate([i \in {s, t} \cup gone |-> IF i = t THEN n ELSE NoNode], Nothing)

\* Its rollback: the nodes touched are as they were read.
RollBackNodes == \E S \in (SUBSET Ids) \ {{}} : Mutate(Part(snap, S), Nothing)

\* The nodes of a cancelled import go back to the state they had.
RestoreNodeStatesIfCurrent ==
    \E S \in SUBSET {i \in Known : nodes[i].state = "testing" /\ ~nodes[i].inPool} :
        S # {} /\ Mutate([i \in S |-> [nodes[i] EXCEPT !.state = "parsed"]], Nothing)

MarkInPoolMany ==
    \E S \in (SUBSET Known) \ {{}} : Mutate([i \in S |-> Promoted(nodes[i])], Nothing)

\* The database is asked to delete also what memory does not have.
DeleteNodes == \E S \in (SUBSET Ids) \ {{}} : Mutate([i \in S |-> NoNode], Nothing)

BackupSnapshot ==
    /\ phase = "up"
    /\ snap' = nodes
    /\ UNCHANGED <<phase, memory, db, lock, skipped, now, calls>>

\* The nodes of a snapshot, with the jobs as they are in memory, or with none.
RestoreNodesSnapshot == MutateKeeping(snap, jobs, {})
ReplaceSnapshot      == Mutate(snap, NoJobs)
-----------------------------------------------------------------------------
(* Mutations of jobs.                                                      *)

UpsertJob == \E j \in JobIds \ HasJob, s \in {"parsed", "running"} :
                Mutate(Nothing, [k \in {j} |-> [status |-> s, at |-> now]])

\* The end of a job.  The pipeline and a cancellation do not look at the
\* status under the lock: the second of them to write has the last word.
UpdateJob ==
    \E j \in HasJob, s \in {"completed", "canceled"} :
        /\ jobs[j].status \in Statuses \ {"parsed", s}
        /\ Mutate(Nothing, [k \in {j} |-> [status |-> s, at |-> now]])

\* Memory only, and without mutationMu: it may fall between the steps of a call.
UpdateJobProgress ==
    /\ phase = "up"
    /\ \E j \in HasJob : jobs' = [jobs EXCEPT ![j].at = now]
    /\ UNCHANGED <<phase, nodes, db, lock, snap, skipped, now, calls>>

PruneJobs ==
    /\ DOMAIN PruneChange(FALSE) # {}
    /\ Mutate(Nothing, PruneChange(FALSE))

Tick ==
    /\ now < MaxTime
    /\ now' = now + 1
    /\ UNCHANGED <<phase, memory, db, lock, snap, skipped, calls>>

\* A node that is not being tested is marked as a member of the pool exactly
\* when that is its state.
Marked(n) == n # NoNode /\ n.state # "testing" => (n.inPool <=> n.state = "in_pool")

ASSUME LeftAssumption ==
    /\ LeftNodes \subseteq [Ids -> {n \in Node \cup {NoNode} : Marked(n)}]
    /\ LeftJobs \subseteq [JobIds -> Job \cup {NoJob}]

\* The program starts on the database an earlier process has left.
Init ==
    /\ phase = "load"
    /\ nodes = NoNodes /\ jobs = NoJobs
    /\ dbNodes \in LeftNodes /\ dbJobs \in LeftJobs
    /\ held = FALSE /\ call = NoCall /\ snap = NoNodes /\ skipped = {}
    /\ now = 0 /\ calls = 0

Next ==
    \/ Load \/ RecoverJobs \/ CleanupStage \/ RecoverStaleTestingNodes
    \/ ImportNodes \/ UpsertNodes \/ ApplyNodeChanges \/ RollBackNodes
    \/ RestoreNodeStatesIfCurrent
    \/ MarkInPoolMany \/ DeleteNodes
    \/ BackupSnapshot \/ RestoreNodesSnapshot \/ ReplaceSnapshot
    \/ UpsertJob \/ UpdateJob \/ UpdateJobProgress \/ PruneJobs
    \/ Commit \/ Fail \/ Crash \/ Tick

Spec == Init /\ [][Next]_vars

-----------------------------------------------------------------------------
(* Properties.                                                             *)

\* What a mutation may write.
NodeChange(np) == \A i \in DOMAIN np : i \in Ids /\ np[i] \in Node \cup {NoNode}
JobChange(jp)  == \A j \in DOMAIN jp : j \in JobIds /\ jp[j] \in Job \cup {NoJob}

\* Every variable has its type.
TypeOK ==
    /\ phase \in {"load"} \cup DOMAIN NextPhase
    /\ nodes \in [Ids -> Node \cup {NoNode}]
    /\ dbNodes \in [Ids -> Node \cup {NoNode}]
    /\ jobs \in [JobIds -> Job \cup {NoJob}]
    /\ dbJobs \in [JobIds -> Job \cup {NoJob}]
    /\ snap \in [Ids -> Node \cup {NoNode}]
    /\ skipped \subseteq {"cleanup", "stale"}
    /\ now \in 0..MaxTime /\ calls \in 0..MaxCalls
    /\ held \in BOOLEAN /\ (phase = "load" => ~held)
    /\ NodeChange(call.putNodes) /\ NodeChange(call.oldNodes)
    /\ JobChange(call.putJobs) /\ JobChange(call.oldJobs)

\* A job without its volatile progress.
StatusOf(a) == IF a = NoJob THEN NoJob ELSE a.status

\* When no mutation is under way memory and database hold the same nodes and
\* the same jobs in the same states, whatever failed before and whenever the
\* program died: no acknowledged change is lost and no failed one leaves a
\* trace, though memory is changed first (Store.UpsertNodes and the others).
MemoryIsDurable ==
    phase # "load" /\ ~held =>
        /\ nodes = dbNodes
        /\ \A j \in JobIds : StatusOf(jobs[j]) = StatusOf(dbJobs[j])

\* Every node in memory and in the database is marked as a member of the pool
\* exactly when that is its state, unless it is being tested; ListPoolNodes
\* asks for both.  The mark is what a restart goes by
\* (RecoverStaleTestingNodes), so it has to survive tests, late results of
\* tests, failed writes, rollbacks, restored snapshots and crashes.
PoolFlagAgrees == \A i \in Ids : Marked(nodes[i]) /\ Marked(dbNodes[i])

\* Memory, database and the pool mark agree.
StoreAgrees == MemoryIsDurable /\ PoolFlagAgrees

\* Nothing of a dead process is left.
Unstaged(f)  == \A i \in Ids : f[i] # NoNode => ~f[i].staged
Untested(f)  == \A i \in Ids : f[i] # NoNode => f[i].state # "testing"
NoRunning(f) == \A j \in JobIds : StatusOf(f[j]) # "running"
TakenBack ==
    /\ NoRunning(jobs) /\ NoRunning(dbJobs)
    /\ "cleanup" \notin skipped => Unstaged(nodes)
    /\ "stale" \notin skipped => Untested(nodes)

\* What a dead process had under way is taken back before requests are served
\* (NewStore, NewService): no job runs that nobody runs, in memory or stored,
\* and unless the database refused the repair no node is half imported or in
\* a test.
CleanStart == [][phase # "up" /\ phase' = "up" => TakenBack']_vars

\* Retention (Store.pruneJobs) forgets no running job except at start-up, no
\* parsed import that is not expired while it keeps a finished job, and
\* when it forgets a job it leaves at most MaxJobs that do not run.
RetentionKeepsWork ==
    [][LET lost == HasJob \ HasJob'
           kept == {k \in HasJob' : jobs'[k].status # "running"}
       IN  ~held /\ held' /\ DOMAIN call'.putNodes = {} /\ lost # {} =>
             /\ \A j \in lost : jobs[j].status = "running" => phase = "recover"
             /\ \A j \in lost, k \in kept :
                   jobs[j].status = "parsed" /\ now <= jobs[j].at + MaxAge
                     => jobs[k].status = "parsed"
             /\ Cardinality(kept) <= MaxJobs]_vars
=============================================================================
