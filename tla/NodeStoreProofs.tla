-------------------------- MODULE NodeStoreProofs --------------------------
(* Theorems about NodeStore for every set of nodes and jobs, every retention *)
(* limit and any number of mutations, failures and crashes.                  *)
EXTENDS NodeStore, FiniteSetTheorems, TLAPS

\* Everything the store can come to hold is marked right.
MarkedChange(np) == \A i \in DOMAIN np : Marked(np[i])
Marks ==
    /\ PoolFlagAgrees
    /\ MarkedChange(snap) /\ MarkedChange(call.putNodes) /\ MarkedChange(call.oldNodes)

\* A mutation by any caller, seen without what it means.
Mutation(np, jp, changed) ==
    /\ phase # "load" /\ Begin(np, jp, changed)
    /\ NodeChange(np) /\ JobChange(jp)
    /\ Marks => MarkedChange(np)
    /\ changed \subseteq DOMAIN jp
    /\ \A j \in DOMAIN jp \ changed : jp[j] = jobs[j]
    /\ calls' \in 0..MaxCalls

\* The steps that go on with start-up, take a snapshot or let time pass.
Quiet == UNCHANGED <<memory, db, lock, skipped>>

-----------------------------------------------------------------------------
(* Patches.                                                                *)

\* Writing typed entries over a function keeps its type.
LEMMA PatchType ==
    ASSUME NEW S, NEW T, NEW f \in [S -> T], NEW p,
           \A x \in DOMAIN p : x \in S /\ p[x] \in T
    PROVE  Patch(f, p) \in [S -> T]
  BY DEF Patch

\* What a write replaces, written over it again, gives the function back.
LEMMA PatchUndo ==
    ASSUME NEW S, NEW T, NEW f \in [S -> T], NEW p, \A x \in DOMAIN p : x \in S
    PROVE  Patch(Patch(f, p), Part(f, DOMAIN p)) = f
  BY DEF Patch, Part

-----------------------------------------------------------------------------
(* The values callers write have their types.                              *)

LEMMA EditTypes ==
    ASSUME NEW n \in Node
    PROVE  /\ Testing(n) \in Node /\ Passed(n) \in Node /\ Failed(n) \in Node
           /\ Tolerated(n) \in Node /\ Blocked(n) \in Node /\ Excluded(n) \in Node
           /\ Located(n) \in Node /\ NoCountry(n) \in Node /\ Refused(n) \in Node
           /\ Promoted(n) \in Node /\ Rested(n) \in Node
           /\ [n EXCEPT !.state = "parsed"] \in Node
           /\ Fresh \in Node
<1>1. InPool(n) \in BOOLEAN
  BY DEF InPool, Node
<1> QED
  BY <1>1 DEF Node, Testing, Passed, Failed, Tolerated, Blocked, Excluded, Located, NoCountry,
     Refused, Promoted, Rested, Fresh

LEMMA AppliedType ==
    ASSUME TypeOK, NEW s \in Known, NEW t \in Ids
    PROVE  Results(s, t) \subseteq Node
<1>1. nodes[s] \in Node /\ (t \in Known => nodes[t] \in Node)
  BY DEF TypeOK, Known
<1>2. Applied(s, t) \in Node
  BY <1>1 DEF Applied, Node
<1> QED
  BY <1>2, EditTypes DEF Results

\* A prune writes jobs, or deletes them.
LEMMA PruneType ==
    ASSUME TypeOK, NEW boot \in BOOLEAN
    PROVE  JobChange(PruneChange(boot))
<1> SUFFICES ASSUME NEW j \in DOMAIN PruneChange(boot)
             PROVE  j \in JobIds /\ PruneChange(boot)[j] \in Job \cup {NoJob}
  BY DEF JobChange
<1>1. j \in HasJob
  BY DEF PruneChange, Expired, Excess, Prunable
<1>2. j \in JobIds /\ jobs[j] \in Job
  BY <1>1 DEF HasJob, TypeOK
<1>3. Recovered(j, boot) \in Job
  BY <1>2 DEF Recovered, Job, Statuses, TypeOK
<1> QED
  BY <1>2, <1>3 DEF PruneChange

-----------------------------------------------------------------------------
(* They are marked right if what they were made from was.                  *)

LEMMA EditMarks ==
    ASSUME NEW n \in Node, Marked(n)
    PROVE  /\ \A m \in Edits(n) : Marked(m)
           /\ Marked(Promoted(n)) /\ Marked(Rested(n))
           /\ ~n.inPool => Marked([n EXCEPT !.state = "parsed"])
           /\ Marked(Fresh)
<1>1. n # NoNode
  BY AbsentAssumption
<1>2. Marked(Testing(n)) /\ Marked(Failed(n)) /\ Marked(Excluded(n))
      /\ Marked(Promoted(n)) /\ Marked(Located(n)) /\ Marked(NoCountry(n))
  BY <1>1 DEF Marked, Node, Testing, Failed, Excluded, Promoted, Located, NoCountry
<1>3. Marked(Passed(n)) /\ Marked(Tolerated(n))
  BY <1>1, <1>2 DEF Marked, Node, Passed, Tolerated, InPool
<1>4. Marked(Blocked(n))
  BY <1>1 DEF Marked, Node, Blocked, InPool
<1>5. Marked(Rested(n))
  BY <1>1 DEF Marked, Node, Rested
<1>6. Marked(Fresh)
  BY DEF Marked, Fresh
<1>7. ~n.inPool => Marked([n EXCEPT !.state = "parsed"])
  BY <1>1 DEF Marked, Node
<1> QED BY <1>2, <1>3, <1>4, <1>5, <1>6, <1>7 DEF Edits

LEMMA AppliedMarks ==
    ASSUME TypeOK, NEW s \in Known, NEW t \in Ids, nodes[s].state \in {"passed", "failed"}
    PROVE  \A n \in Results(s, t) : Marked(n)
<1>1. nodes[s] \in Node
  BY DEF TypeOK, Known
<1>2. Marked(Applied(s, t))
  BY <1>1 DEF Applied, Node, Marked
<1>3. Applied(s, t) \in Node
  BY AppliedType DEF Results, Known
<1>4. Marked(Refused(Applied(s, t)))
  BY <1>3 DEF Refused, Node, Marked
<1> QED BY <1>2, <1>4 DEF Results

-----------------------------------------------------------------------------
(* Every step is one of few shapes.                                        *)

LEMMA NodeMutation ==
    ASSUME TypeOK, NEW np, Mutate(np, Nothing), NodeChange(np), Marks => MarkedChange(np)
    PROVE  Mutation(np, Nothing, {})
<1>1. DOMAIN Nothing = {}
  BY DEF Nothing
<1>2. calls' \in 0..MaxCalls
  BY BoundsAssumption DEF Mutate, MutateKeeping, TypeOK
<1> QED
  BY <1>1, <1>2 DEF Mutate, MutateKeeping, Mutation, JobChange

LEMMA JobMutation ==
    ASSUME TypeOK, NEW jp, Mutate(Nothing, jp), JobChange(jp)
    PROVE  Mutation(Nothing, jp, DOMAIN jp)
<1>1. DOMAIN Nothing = {}
  BY DEF Nothing
<1>2. calls' \in 0..MaxCalls
  BY BoundsAssumption DEF Mutate, MutateKeeping, TypeOK
<1> QED
  BY <1>1, <1>2 DEF Mutate, MutateKeeping, Mutation, NodeChange, MarkedChange

\* The mutations the callers make of nodes ...
NodeOperation ==
    \/ ImportNodes \/ UpsertNodes \/ ApplyNodeChanges \/ RollBackNodes
    \/ RestoreNodeStatesIfCurrent \/ MarkInPoolMany \/ DeleteNodes \/ RestoreNodesSnapshot \/ ReplaceSnapshot

\* ... and of jobs.
JobOperation == UpsertJob \/ UpdateJob \/ PruneJobs

LEMMA NodeOperationShape ==
    ASSUME TypeOK, NodeOperation
    PROVE  \E np, jp, changed : Mutation(np, jp, changed)
<1>1. CASE ImportNodes
  <2>1. PICK S \in SUBSET (Ids \ Known) : Mutate([i \in S |-> Fresh], Nothing)
    BY <1>1 DEF ImportNodes
  <2>2. NodeChange([i \in S |-> Fresh])
    BY DEF NodeChange, Fresh, Node
  <2>3. MarkedChange([i \in S |-> Fresh])
    BY DEF MarkedChange, Marked, Fresh
  <2> QED BY <2>1, <2>2, <2>3, NodeMutation
<1>2. CASE UpsertNodes
  <2>1. PICK i \in Ids : \E copy \in Copies(i) : \E n \in Edits(copy) : Mutate([k \in {i} |-> n], Nothing)
    BY <1>2 DEF UpsertNodes
  <2>2. PICK copy \in Copies(i) : \E n \in Edits(copy) : Mutate([k \in {i} |-> n], Nothing)
    BY <2>1
  <2>3. PICK n \in Edits(copy) : Mutate([k \in {i} |-> n], Nothing)
    BY <2>2
  <2>4. copy \in Node
    BY DEF TypeOK, Copies
  <2>5. n \in Node
    BY <2>4, EditTypes DEF Edits
  <2>6. NodeChange([k \in {i} |-> n])
    BY <2>5 DEF NodeChange
  <2>7. Marks => Marked(copy)
    BY DEF Marks, PoolFlagAgrees, MarkedChange, Copies, TypeOK
  <2>8. Marks => MarkedChange([k \in {i} |-> n])
    BY <2>4, <2>7, EditMarks DEF MarkedChange
  <2> QED BY <2>3, <2>6, <2>8, NodeMutation
<1>3. CASE ApplyNodeChanges
  <2>1. PICK s \in Known, t \in Ids :
           nodes[s].state \in {"passed", "failed"} /\
           \E gone \in SUBSET Known, n \in Results(s, t) :
              Mutate([i \in {s, t} \cup gone |-> IF i = t THEN n ELSE NoNode], Nothing)
    BY <1>3 DEF ApplyNodeChanges
  <2>2. PICK gone \in SUBSET Known, n \in Results(s, t) :
           Mutate([i \in {s, t} \cup gone |-> IF i = t THEN n ELSE NoNode], Nothing)
    BY <2>1
  <2>3. NodeChange([i \in {s, t} \cup gone |-> IF i = t THEN n ELSE NoNode])
    BY AppliedType DEF NodeChange, Known
  <2>4. MarkedChange([i \in {s, t} \cup gone |-> IF i = t THEN n ELSE NoNode])
    BY <2>1, AppliedMarks DEF MarkedChange, Marked
  <2> QED BY <2>2, <2>3, <2>4, NodeMutation
<1>4. CASE RollBackNodes
  <2>1. PICK S \in SUBSET Ids : Mutate(Part(snap, S), Nothing)
    BY <1>4 DEF RollBackNodes
  <2>2. NodeChange(Part(snap, S))
    BY DEF NodeChange, Part, TypeOK
  <2>3. Marks => MarkedChange(Part(snap, S))
    BY DEF Marks, MarkedChange, Part, TypeOK
  <2> QED BY <2>1, <2>2, <2>3, NodeMutation
<1>5. CASE RestoreNodeStatesIfCurrent
  <2>1. PICK S \in SUBSET {i \in Known : ~nodes[i].inPool} :
           Mutate([i \in S |-> [nodes[i] EXCEPT !.state = "parsed"]], Nothing)
    BY <1>5 DEF RestoreNodeStatesIfCurrent
  <2>2. \A i \in S : i \in Ids /\ nodes[i] \in Node
    BY DEF TypeOK, Known
  <2>3. NodeChange([i \in S |-> [nodes[i] EXCEPT !.state = "parsed"]])
    BY <2>2, EditTypes DEF NodeChange
  <2>4. Marks => MarkedChange([i \in S |-> [nodes[i] EXCEPT !.state = "parsed"]])
    BY <2>2, EditMarks DEF Marks, PoolFlagAgrees, MarkedChange
  <2> QED BY <2>1, <2>3, <2>4, NodeMutation
<1>6. CASE MarkInPoolMany
  <2>1. PICK S \in SUBSET Known : Mutate([i \in S |-> Promoted(nodes[i])], Nothing)
    BY <1>6 DEF MarkInPoolMany
  <2>2. \A i \in S : i \in Ids /\ nodes[i] \in Node
    BY DEF TypeOK, Known
  <2>3. NodeChange([i \in S |-> Promoted(nodes[i])])
    BY <2>2, EditTypes DEF NodeChange
  <2>4. Marks => MarkedChange([i \in S |-> Promoted(nodes[i])])
    BY <2>2, EditMarks DEF Marks, PoolFlagAgrees, MarkedChange
  <2> QED BY <2>1, <2>3, <2>4, NodeMutation
<1>7. CASE DeleteNodes
  <2>1. PICK S \in SUBSET Ids : Mutate([i \in S |-> NoNode], Nothing)
    BY <1>7 DEF DeleteNodes
  <2>2. NodeChange([i \in S |-> NoNode])
    BY DEF NodeChange
  <2>3. MarkedChange([i \in S |-> NoNode])
    BY DEF MarkedChange, Marked
  <2> QED BY <2>1, <2>2, <2>3, NodeMutation
<1>8. CASE RestoreNodesSnapshot
  <2>1. NodeChange(snap) /\ JobChange(jobs)
    BY DEF TypeOK, NodeChange, JobChange
  <2>2. calls' \in 0..MaxCalls
    BY <1>8, BoundsAssumption DEF RestoreNodesSnapshot, MutateKeeping, TypeOK
  <2>3. Mutation(snap, jobs, {})
    BY <1>8, <2>1, <2>2 DEF RestoreNodesSnapshot, MutateKeeping, Mutation, Marks
  <2> QED BY <2>3
<1>9. CASE ReplaceSnapshot
  <2>1. NodeChange(snap) /\ JobChange(NoJobs)
    BY DEF TypeOK, NodeChange, JobChange, NoJobs
  <2>2. calls' \in 0..MaxCalls
    BY <1>9, BoundsAssumption DEF ReplaceSnapshot, Mutate, MutateKeeping, TypeOK
  <2>3. Mutation(snap, NoJobs, DOMAIN NoJobs)
    BY <1>9, <2>1, <2>2 DEF ReplaceSnapshot, Mutate, MutateKeeping, Mutation, Marks
  <2> QED BY <2>3
<1> QED
  BY <1>1, <1>2, <1>3, <1>4, <1>5, <1>6, <1>7, <1>8, <1>9 DEF NodeOperation

LEMMA JobOperationShape ==
    ASSUME TypeOK, JobOperation
    PROVE  \E np, jp, changed : Mutation(np, jp, changed)
<1>1. CASE UpsertJob
  <2>1. PICK j \in JobIds, s \in {"parsed", "running"} :
           Mutate(Nothing, [k \in {j} |-> [status |-> s, at |-> now]])
    BY <1>1 DEF UpsertJob
  <2>2. JobChange([k \in {j} |-> [status |-> s, at |-> now]])
    BY DEF JobChange, Job, Statuses, TypeOK
  <2> QED BY <2>1, <2>2, JobMutation
<1>2. CASE UpdateJob
  <2>1. PICK j \in JobIds, s \in {"completed", "canceled"} :
           Mutate(Nothing, [k \in {j} |-> [status |-> s, at |-> now]])
    BY <1>2 DEF UpdateJob, HasJob
  <2>2. JobChange([k \in {j} |-> [status |-> s, at |-> now]])
    BY DEF JobChange, Job, Statuses, TypeOK
  <2> QED BY <2>1, <2>2, JobMutation
<1>3. CASE PruneJobs
  BY <1>3, PruneType, JobMutation DEF PruneJobs
<1> QED
  BY <1>1, <1>2, <1>3 DEF JobOperation

\* A repair of start-up is a mutation, or nothing but the next phase.
LEMMA RepairShape ==
    ASSUME TypeOK, RecoverJobs \/ CleanupStage \/ RecoverStaleTestingNodes
    PROVE  \/ \E np, jp, changed : Mutation(np, jp, changed)
           \/ Quiet /\ phase' = NextPhase[phase] /\ UNCHANGED <<snap, now, calls>>
<1>1. \A at \in {"recover", "cleanup", "stale"} : \A np, jp :
         Repair(at, np, jp) /\ NodeChange(np) /\ JobChange(jp) /\ (Marks => MarkedChange(np)) =>
           \/ Mutation(np, jp, DOMAIN jp)
           \/ Quiet /\ phase' = NextPhase[phase] /\ UNCHANGED <<snap, now, calls>>
  BY DEF Repair, Mutation, Quiet, TypeOK
<1>2. NodeChange(Nothing) /\ JobChange(Nothing) /\ MarkedChange(Nothing)
  BY DEF NodeChange, JobChange, MarkedChange, Nothing
<1> DEFINE gone   == [i \in {k \in Known : nodes[k].staged} |-> NoNode]
           rested == [i \in {k \in Known : nodes[k].state = "testing"} |-> Rested(nodes[i])]
<1>3. NodeChange(gone) /\ MarkedChange(gone)
  BY DEF NodeChange, MarkedChange, Marked, Known
<1>4. NodeChange(rested) /\ (Marks => MarkedChange(rested))
  <2>1. \A i \in Known : i \in Ids /\ nodes[i] \in Node
    BY DEF Known, TypeOK
  <2>2. \A i \in Known : Rested(nodes[i]) \in Node /\ (Marks => Marked(Rested(nodes[i])))
    BY <2>1, EditTypes, EditMarks DEF Marks, PoolFlagAgrees
  <2> QED BY <2>1, <2>2 DEF NodeChange, MarkedChange
<1>5. CASE RecoverJobs
  BY <1>5, <1>1, <1>2, PruneType DEF RecoverJobs
<1>6. CASE CleanupStage
  BY <1>6, <1>1, <1>2, <1>3 DEF CleanupStage
<1>7. CASE RecoverStaleTestingNodes
  BY <1>7, <1>1, <1>2, <1>4 DEF RecoverStaleTestingNodes
<1> QED BY <1>5, <1>6, <1>7

\* The shapes of a step.
LEMMA Shapes ==
    ASSUME TypeOK, Next
    PROVE  \/ Load \/ Commit \/ Fail \/ Crash \/ UpdateJobProgress
           \/ \E np, jp, changed : Mutation(np, jp, changed)
           \/ Quiet /\ (phase' = phase \/ (phase' = NextPhase[phase] /\ phase # "load"))
<1>1. CASE RecoverJobs \/ CleanupStage \/ RecoverStaleTestingNodes
  <2>1. phase # "load"
    BY <1>1 DEF RecoverJobs, CleanupStage, RecoverStaleTestingNodes, Repair
  <2> QED BY <1>1, <2>1, RepairShape
<1>2. CASE BackupSnapshot
  BY <1>2 DEF BackupSnapshot, Quiet
<1>3. CASE Tick
  BY <1>3 DEF Tick, Quiet
<1> QED
  BY <1>1, <1>2, <1>3, NodeOperationShape, JobOperationShape DEF Next, NodeOperation, JobOperation

-----------------------------------------------------------------------------
(* Types.                                                                  *)

LEMMA TypeInit == Init => TypeOK
<1> SUFFICES ASSUME Init PROVE TypeOK
  OBVIOUS
<1>1. dbNodes \in [Ids -> Node \cup {NoNode}]
  BY LeftAssumption DEF Init
<1>2. dbJobs \in [JobIds -> Job \cup {NoJob}]
  BY LeftAssumption DEF Init
<1>3. nodes \in [Ids -> Node \cup {NoNode}] /\ jobs \in [JobIds -> Job \cup {NoJob}]
  BY DEF Init, NoNodes, NoJobs
<1>4. snap \in [Ids -> Node \cup {NoNode}]
  BY DEF Init, NoNodes
<1>5. NodeChange(call.putNodes) /\ NodeChange(call.oldNodes)
      /\ JobChange(call.putJobs) /\ JobChange(call.oldJobs)
  BY DEF Init, NoCall, Nothing, NodeChange, JobChange
<1>6. phase = "load" /\ skipped = {} /\ held = FALSE /\ now \in 0..MaxTime /\ calls \in 0..MaxCalls
  BY BoundsAssumption DEF Init
<1> QED
  BY <1>1, <1>2, <1>3, <1>4, <1>5, <1>6 DEF TypeOK

\* A released lock holds no call.
LEMMA ReleaseType ==
    ASSUME Release
    PROVE  /\ held' \in BOOLEAN /\ ~held'
           /\ NodeChange(call'.putNodes) /\ NodeChange(call'.oldNodes)
           /\ JobChange(call'.putJobs) /\ JobChange(call'.oldJobs)
  BY DEF Release, NoCall, Nothing, NodeChange, JobChange

LEMMA TypeStep ==
    ASSUME TypeOK, [Next]_vars
    PROVE  TypeOK'
<1> USE DEF memory, db, lock
<1>1. CASE Load
  BY <1>1 DEF Load, TypeOK, NextPhase
<1>2. CASE Commit
  <2>1. dbNodes' \in [Ids -> Node \cup {NoNode}] /\ dbJobs' \in [JobIds -> Job \cup {NoJob}]
    BY <1>2, PatchType DEF Commit, TypeOK, NodeChange, JobChange
  <2>2. phase' \in {"load"} \cup DOMAIN NextPhase
    BY <1>2 DEF Commit, TypeOK, NextPhase
  <2> QED BY <1>2, <2>1, <2>2, ReleaseType DEF Commit, TypeOK
<1>3. CASE Fail
  <2>1. nodes' \in [Ids -> Node \cup {NoNode}] /\ jobs' \in [JobIds -> Job \cup {NoJob}]
    BY <1>3, PatchType DEF Fail, TypeOK, NodeChange, JobChange
  <2>2. phase' \in {"load"} \cup DOMAIN NextPhase
    BY <1>3 DEF Fail, TypeOK, NextPhase
  <2> QED BY <1>3, <2>1, <2>2, ReleaseType DEF Fail, TypeOK
<1>4. CASE Crash
  <2>1. calls' \in 0..MaxCalls
    BY <1>4, BoundsAssumption DEF Crash, TypeOK
  <2> QED BY <1>4, <2>1, ReleaseType DEF Crash, TypeOK, NoNodes, NoJobs
<1>5. CASE UpdateJobProgress
  <2>1. PICK j \in HasJob : jobs' = [jobs EXCEPT ![j].at = now]
    BY <1>5 DEF UpdateJobProgress
  <2>2. j \in JobIds /\ jobs[j] \in Job
    BY DEF HasJob, TypeOK
  <2>3. [jobs[j] EXCEPT !.at = now] \in Job
    BY <2>2 DEF Job, TypeOK
  <2>4. jobs' \in [JobIds -> Job \cup {NoJob}]
    BY <2>1, <2>2, <2>3 DEF TypeOK
  <2> QED BY <1>5, <2>4 DEF UpdateJobProgress, TypeOK
<1>6. ASSUME NEW np, NEW jp, NEW changed, Mutation(np, jp, changed)
      PROVE  TypeOK'
  <2>1. nodes' \in [Ids -> Node \cup {NoNode}] /\ jobs' \in [JobIds -> Job \cup {NoJob}]
    BY <1>6, PatchType DEF Mutation, Begin, TypeOK, NodeChange, JobChange
  <2>2. NodeChange(Part(nodes, DOMAIN np)) /\ JobChange(Part(jobs, changed))
    BY <1>6 DEF Mutation, TypeOK, NodeChange, JobChange, Part
  <2>3. /\ NodeChange(call'.putNodes) /\ NodeChange(call'.oldNodes)
        /\ JobChange(call'.putJobs) /\ JobChange(call'.oldJobs)
    BY <1>6, <2>2 DEF Mutation, Begin
  <2> QED BY <1>6, <2>1, <2>3 DEF Mutation, Begin, TypeOK
<1>7. CASE RecoverJobs \/ CleanupStage \/ RecoverStaleTestingNodes
  <2>1. CASE Quiet /\ phase' = NextPhase[phase] /\ UNCHANGED <<snap, now, calls>>
    <3>1. phase \in DOMAIN NextPhase
      BY <1>7 DEF RecoverJobs, CleanupStage, RecoverStaleTestingNodes, Repair, NextPhase
    <3>2. phase' \in DOMAIN NextPhase /\ phase' # "load"
      BY <2>1, <3>1 DEF NextPhase
    <3> QED BY <2>1, <3>2 DEF Quiet, TypeOK
  <2> QED BY <1>6, <1>7, <2>1, RepairShape
<1>8. CASE BackupSnapshot
  BY <1>8 DEF BackupSnapshot, TypeOK
<1>9. CASE Tick
  <2>1. now' \in 0..MaxTime
    BY <1>9, BoundsAssumption DEF Tick, TypeOK
  <2> QED BY <1>9, <2>1 DEF Tick, TypeOK
<1>10. CASE UNCHANGED vars
  BY <1>10 DEF vars, TypeOK
<1> QED
  BY <1>1, <1>2, <1>3, <1>4, <1>5, <1>6, <1>7, <1>8, <1>9, <1>10,
     NodeOperationShape, JobOperationShape DEF Next, NodeOperation, JobOperation

\* Every variable of the store keeps its type, and a mutation holds only
\* entries of the maps it works on.
THEOREM TypeCorrect == Spec => []TypeOK
  BY TypeInit, TypeStep, PTL DEF Spec

-----------------------------------------------------------------------------
(* Memory and database.                                                    *)

\* While a mutation is under way, memory is the database with its change, and
\* what it remembers is the database without it.
Durable ==
    /\ MemoryIsDurable
    /\ phase = "load" => ~held
    /\ held =>
         /\ nodes = Patch(dbNodes, call.putNodes)
         /\ call.oldNodes = Part(dbNodes, DOMAIN call.putNodes)
         /\ \A j \in JobIds : StatusOf(jobs[j]) = StatusOf(Patch(dbJobs, call.putJobs)[j])
         /\ \A j \in JobIds \ DOMAIN call.oldJobs : StatusOf(jobs[j]) = StatusOf(dbJobs[j])
         /\ \A j \in DOMAIN call.oldJobs : StatusOf(call.oldJobs[j]) = StatusOf(dbJobs[j])

LEMMA DurableInit == Init => Durable
  BY DEF Init, Durable, MemoryIsDurable

LEMMA DurableStep ==
    ASSUME TypeOK, Durable, [Next]_vars
    PROVE  Durable'
<1> USE DEF memory, db, lock
<1>1. CASE Load
  BY <1>1 DEF Load, Durable, MemoryIsDurable
<1>2. CASE Commit
  <2>1. ~held' /\ nodes' = dbNodes'
    BY <1>2 DEF Commit, Release, Durable
  <2>2. \A j \in JobIds : StatusOf(jobs'[j]) = StatusOf(dbJobs'[j])
    BY <1>2 DEF Commit, Durable
  <2> QED BY <2>1, <2>2 DEF Durable, MemoryIsDurable
<1>3. CASE Fail
  <2>1. ~held'
    BY <1>3 DEF Fail, Release
  <2>2. nodes' = dbNodes'
    <3>1. nodes' = Patch(Patch(dbNodes, call.putNodes), Part(dbNodes, DOMAIN call.putNodes))
      BY <1>3 DEF Fail, Durable
    <3>2. dbNodes \in [Ids -> Node \cup {NoNode}] /\ \A i \in DOMAIN call.putNodes : i \in Ids
      BY DEF TypeOK, NodeChange
    <3> QED BY <1>3, <3>1, <3>2, PatchUndo DEF Fail
  <2>3. \A j \in JobIds : StatusOf(jobs'[j]) = StatusOf(dbJobs'[j])
    BY <1>3 DEF Fail, Durable, Patch, TypeOK
  <2> QED BY <2>1, <2>2, <2>3 DEF Durable, MemoryIsDurable
<1>4. CASE Crash
  BY <1>4 DEF Crash, Release, Durable, MemoryIsDurable
<1>5. CASE UpdateJobProgress
  <2>1. PICK j \in HasJob : jobs' = [jobs EXCEPT ![j].at = now]
    BY <1>5 DEF UpdateJobProgress
  <2>2. j \in JobIds /\ jobs[j] \in Job
    BY DEF HasJob, TypeOK
  <2>3. /\ [jobs[j] EXCEPT !.at = now].status = jobs[j].status
        /\ [jobs[j] EXCEPT !.at = now] # NoJob /\ jobs[j] # NoJob
    BY <2>2, AbsentAssumption DEF Job, TypeOK
  <2>4. \A k \in JobIds : StatusOf(jobs'[k]) = StatusOf(jobs[k])
    BY <2>1, <2>2, <2>3 DEF StatusOf, TypeOK, HasJob
  <2> QED BY <1>5, <2>4 DEF UpdateJobProgress, Durable, MemoryIsDurable
<1>6. ASSUME NEW np, NEW jp, NEW changed, Mutation(np, jp, changed)
      PROVE  Durable'
  <2>1. ~held /\ held' /\ phase' # "load" /\ nodes = dbNodes
        /\ \A j \in JobIds : StatusOf(jobs[j]) = StatusOf(dbJobs[j])
    BY <1>6 DEF Mutation, Begin, Durable, MemoryIsDurable
  <2>2. /\ nodes' = Patch(dbNodes', call'.putNodes)
        /\ call'.oldNodes = Part(dbNodes', DOMAIN call'.putNodes)
    BY <1>6, <2>1 DEF Mutation, Begin
  <2>3. jobs' = Patch(jobs, jp) /\ call'.putJobs = jp /\ call'.oldJobs = Part(jobs, changed) /\ dbJobs' = dbJobs
    BY <1>6 DEF Mutation, Begin
  <2>4. ASSUME NEW j \in JobIds
        PROVE  /\ StatusOf(jobs'[j]) = StatusOf(Patch(dbJobs, jp)[j])
               /\ j \notin changed => StatusOf(jobs'[j]) = StatusOf(dbJobs[j])
    BY <1>6, <2>1, <2>3 DEF Mutation, Patch, TypeOK
  <2>5. \A j \in changed : StatusOf(Part(jobs, changed)[j]) = StatusOf(dbJobs[j])
    BY <1>6, <2>1 DEF Mutation, JobChange, Part
  <2> QED BY <2>1, <2>2, <2>3, <2>4, <2>5 DEF Durable, MemoryIsDurable, Part
<1>7. CASE Quiet /\ (phase' = phase \/ (phase' = NextPhase[phase] /\ phase # "load"))
  BY <1>7 DEF Quiet, Durable, MemoryIsDurable, TypeOK, NextPhase
<1>8. CASE UNCHANGED vars
  BY <1>8 DEF vars, Durable, MemoryIsDurable
<1> QED
  BY <1>1, <1>2, <1>3, <1>4, <1>5, <1>6, <1>7, <1>8, Shapes

\* When no mutation is under way, memory and database agree on the nodes and
\* on the states of the jobs: a failed write has left no trace, a crash has
\* lost nothing that was acknowledged.
THEOREM MemoryAgrees == Spec => []MemoryIsDurable
<1>1. Durable => MemoryIsDurable
  BY DEF Durable
<1> QED
  BY <1>1, DurableInit, DurableStep, TypeCorrect, PTL DEF Spec

-----------------------------------------------------------------------------
(* The mark of the members of the pool.                                    *)

\* Writing entries that are marked right keeps every entry so.
LEMMA PatchMarks ==
    ASSUME NEW f, \A i \in DOMAIN f : Marked(f[i]), NEW p, MarkedChange(p)
    PROVE  \A i \in DOMAIN f : Marked(Patch(f, p)[i])
  BY DEF Patch, MarkedChange

LEMMA MarksInit == Init => Marks
<1> SUFFICES ASSUME Init PROVE Marks
  OBVIOUS
<1>1. Marked(NoNode)
  BY DEF Marked
<1>2. \A i \in Ids : Marked(dbNodes[i])
  BY LeftAssumption DEF Init
<1>3. PoolFlagAgrees
  BY <1>1, <1>2 DEF Init, NoNodes, PoolFlagAgrees
<1>4. MarkedChange(snap) /\ MarkedChange(call.putNodes) /\ MarkedChange(call.oldNodes)
  BY <1>1 DEF Init, NoNodes, NoCall, Nothing, MarkedChange
<1> QED BY <1>3, <1>4 DEF Marks

LEMMA MarksStep ==
    ASSUME TypeOK, Marks, [Next]_vars
    PROVE  Marks'
<1> USE DEF memory, db, lock
<1>t. /\ nodes \in [Ids -> Node \cup {NoNode}] /\ dbNodes \in [Ids -> Node \cup {NoNode}]
      /\ \A i \in Ids : Marked(nodes[i]) /\ Marked(dbNodes[i])
  BY DEF TypeOK, Marks, PoolFlagAgrees
<1>e. Release => MarkedChange(call'.putNodes) /\ MarkedChange(call'.oldNodes)
  BY DEF Release, NoCall, Nothing, MarkedChange
<1>1. CASE Load
  BY <1>1, <1>t DEF Load, Marks, PoolFlagAgrees, MarkedChange
<1>2. CASE Commit
  <2>1. \A i \in Ids : Marked(dbNodes'[i])
    BY <1>2, <1>t, PatchMarks DEF Commit, Marks
  <2> QED BY <1>2, <1>e, <2>1 DEF Commit, Marks, PoolFlagAgrees, MarkedChange
<1>3. CASE Fail
  <2>1. \A i \in Ids : Marked(nodes'[i])
    BY <1>3, <1>t, PatchMarks DEF Fail, Marks
  <2> QED BY <1>3, <1>e, <2>1 DEF Fail, Marks, PoolFlagAgrees, MarkedChange
<1>4. CASE Crash
  <2>1. \A i \in Ids : Marked(nodes'[i])
    BY <1>4 DEF Crash, NoNodes, Marked
  <2> QED BY <1>4, <1>e, <2>1 DEF Crash, Marks, PoolFlagAgrees, MarkedChange
<1>5. CASE UpdateJobProgress
  BY <1>5 DEF UpdateJobProgress, Marks, PoolFlagAgrees, MarkedChange
<1>6. ASSUME NEW np, NEW jp, NEW changed, Mutation(np, jp, changed)
      PROVE  Marks'
  <2>1. MarkedChange(np) /\ \A i \in DOMAIN np : i \in Ids
    BY <1>6 DEF Mutation, NodeChange
  <2>2. \A i \in Ids : Marked(nodes'[i])
    BY <1>6, <1>t, <2>1, PatchMarks DEF Mutation, Begin
  <2>3. MarkedChange(call'.putNodes)
    BY <1>6, <2>1 DEF Mutation, Begin
  <2>4. MarkedChange(call'.oldNodes)
    BY <1>6, <1>t, <2>1 DEF Mutation, Begin, Part, MarkedChange
  <2> QED BY <1>6, <2>2, <2>3, <2>4 DEF Mutation, Begin, Marks, PoolFlagAgrees, MarkedChange
<1>7. CASE RecoverJobs \/ CleanupStage \/ RecoverStaleTestingNodes
  <2>1. CASE Quiet /\ phase' = NextPhase[phase] /\ UNCHANGED <<snap, now, calls>>
    BY <2>1 DEF Quiet, Marks, PoolFlagAgrees, MarkedChange
  <2> QED BY <1>6, <1>7, <2>1, RepairShape
<1>8. CASE BackupSnapshot
  BY <1>8, <1>t DEF BackupSnapshot, Marks, PoolFlagAgrees, MarkedChange
<1>9. CASE Tick
  BY <1>9 DEF Tick, Marks, PoolFlagAgrees, MarkedChange
<1>10. CASE UNCHANGED vars
  BY <1>10 DEF vars, Marks, PoolFlagAgrees, MarkedChange
<1> QED
  BY <1>1, <1>2, <1>3, <1>4, <1>5, <1>6, <1>7, <1>8, <1>9, <1>10,
     NodeOperationShape, JobOperationShape DEF Next, NodeOperation, JobOperation

\* No test, failed write, restored snapshot or crash leaves a node that is not
\* being tested marked as a member of the pool in another state, or the other
\* way round, in memory or stored: RecoverStaleTestingNodes may go by the mark.
THEOREM PoolMarkAgrees == Spec => []PoolFlagAgrees
<1>1. Marks => PoolFlagAgrees
  BY DEF Marks
<1> QED
  BY <1>1, MarksInit, MarksStep, TypeCorrect, PTL DEF Spec

-----------------------------------------------------------------------------
(* Start-up.                                                               *)

\* What start-up has achieved when it is at phase.
Boot ==
    /\ phase \in {"cleanup", "stale"} => NoRunning(jobs)
    /\ phase = "recover" /\ held => NoRunning(jobs)
    /\ phase = "cleanup" /\ held => Unstaged(nodes)
    /\ phase = "stale" /\ "cleanup" \notin skipped => Unstaged(nodes) /\ Unstaged(dbNodes)
    /\ phase = "stale" /\ held => Untested(nodes)
    /\ phase \in {"cleanup", "stale"} /\ held => DOMAIN call.oldJobs = {}

\* The step of start-up that reaches "up" leaves nothing of a dead process.
Started == phase # "up" /\ phase' = "up" => TakenBack'

\* The prune of start-up leaves no running job, whether it has to write or not.
LEMMA PruneEndsRunning ==
    ASSUME TypeOK
    PROVE  NoRunning(Patch(jobs, PruneChange(TRUE)))
<1> SUFFICES ASSUME NEW j \in JobIds
             PROVE  StatusOf(Patch(jobs, PruneChange(TRUE))[j]) # "running"
  BY DEF NoRunning
<1>1. jobs \in [JobIds -> Job \cup {NoJob}]
  BY DEF TypeOK
<1>2. NoJob # "running"
  BY AbsentAssumption DEF Statuses
<1>3. StatusOf(NoJob) # "running"
  BY <1>2 DEF StatusOf
<1>4. CASE jobs[j] = NoJob
  <2>1. j \notin DOMAIN PruneChange(TRUE)
    BY <1>4 DEF PruneChange, Expired, Excess, Prunable, HasJob
  <2> QED BY <1>1, <1>3, <1>4, <2>1 DEF Patch
<1>5. CASE jobs[j] # NoJob
  <2>1. j \in Prunable(TRUE)
    BY <1>5 DEF Prunable, HasJob
  <2>2. Recovered(j, TRUE).status # "running" /\ StatusOf(Recovered(j, TRUE)) # "running"
    BY <1>2 DEF Recovered, StatusOf
  <2>3. CASE j \in DOMAIN PruneChange(TRUE)
    <3>1. PruneChange(TRUE)[j] \in {NoJob, Recovered(j, TRUE)}
      BY <2>3 DEF PruneChange
    <3> QED BY <1>1, <1>3, <2>2, <2>3, <3>1 DEF Patch
  <2>4. CASE j \notin DOMAIN PruneChange(TRUE)
    <3>1. Recovered(j, TRUE) = jobs[j]
      BY <2>1, <2>4 DEF PruneChange
    <3> QED BY <1>1, <2>2, <2>4, <3>1 DEF Patch
  <2> QED BY <2>3, <2>4
<1> QED BY <1>4, <1>5

\* Requests are only served when start-up is over.
LEMMA ServedWhenUp ==
    ASSUME NodeOperation \/ JobOperation \/ BackupSnapshot \/ UpdateJobProgress
    PROVE  phase = "up" /\ phase' = "up"
<1>1. \A np, jp, changed : MutateKeeping(np, jp, changed) => phase = "up" /\ phase' = "up"
  BY DEF MutateKeeping, Begin
<1>2. \A np, jp : Mutate(np, jp) => phase = "up" /\ phase' = "up"
  BY <1>1 DEF Mutate
<1>3. NodeOperation => phase = "up" /\ phase' = "up"
  BY <1>1, <1>2 DEF NodeOperation, ImportNodes, UpsertNodes, ApplyNodeChanges,
     RollBackNodes, RestoreNodeStatesIfCurrent, MarkInPoolMany, DeleteNodes, RestoreNodesSnapshot,
     ReplaceSnapshot
<1>4. JobOperation => phase = "up" /\ phase' = "up"
  BY <1>2 DEF JobOperation, UpsertJob, UpdateJob, PruneJobs
<1> QED
  BY <1>3, <1>4 DEF BackupSnapshot, UpdateJobProgress

LEMMA BootInit == Init => Boot
  BY DEF Init, Boot

\* A step preserves Boot and, if it ends start-up, leaves nothing behind.
LEMMA BootStep ==
    ASSUME TypeOK, Durable, Boot, [Next]_vars
    PROVE  Boot' /\ Started
<1> USE DEF memory, db, lock
<1>d. Durable'
  BY DurableStep
<1>j. phase' # "load" /\ ~held' /\ NoRunning(jobs') => NoRunning(dbJobs')
  BY <1>d DEF Durable, MemoryIsDurable, NoRunning
<1>n. phase' # "load" /\ ~held' => nodes' = dbNodes'
  BY <1>d DEF Durable, MemoryIsDurable
<1>1. CASE Load
  BY <1>1 DEF Load, TypeOK, Boot, Started
<1>2. CASE RecoverJobs
  <2>1. CASE ~held /\ phase' = "cleanup" /\ DOMAIN PruneChange(TRUE) = {} /\ UNCHANGED <<jobs, held>>
    <3>1. jobs = Patch(jobs, PruneChange(TRUE))
      BY <2>1 DEF Patch, TypeOK
    <3> QED BY <2>1, <3>1, PruneEndsRunning DEF Boot, Started
  <2>2. CASE phase' = "recover" /\ jobs' = Patch(jobs, PruneChange(TRUE))
    BY <2>2, PruneEndsRunning DEF Boot, Started, NoRunning
  <2> QED BY <1>2, <2>1, <2>2 DEF RecoverJobs, Repair, Begin, NextPhase
<1>3. CASE CleanupStage
  <2> DEFINE gone == [i \in {k \in Known : nodes[k].staged} |-> NoNode]
  <2>1. Unstaged(Patch(nodes, gone))
    BY DEF Unstaged, Patch, Known, TypeOK
  <2>2. DOMAIN Nothing = {}
    BY DEF Nothing
  <2>3. CASE ~held /\ phase' = "stale" /\ DOMAIN gone = {} /\ UNCHANGED <<memory, db, held>>
    <3>1. nodes = Patch(nodes, gone)
      BY <2>3 DEF Patch, TypeOK
    <3>2. Unstaged(nodes') /\ Unstaged(dbNodes')
      BY <1>n, <2>1, <2>3, <3>1 DEF Unstaged
    <3>3. NoRunning(jobs')
      BY <1>3, <2>3 DEF Boot, CleanupStage, Repair, NoRunning
    <3> QED BY <2>3, <3>2, <3>3 DEF Boot, Started
  <2>4. CASE Begin(gone, Nothing, DOMAIN Nothing) /\ phase = "cleanup"
    <3>1. jobs' = jobs
      BY <2>2, <2>4 DEF Begin, Patch, TypeOK
    <3>2. DOMAIN call'.oldJobs = {}
      BY <2>2, <2>4 DEF Begin, Part
    <3>3. phase' = "cleanup" /\ nodes' = Patch(nodes, gone)
      BY <2>4 DEF Begin
    <3> QED BY <2>1, <2>4, <3>1, <3>2, <3>3 DEF Boot, Started, Unstaged, NoRunning
  <2> QED BY <1>3, <2>2, <2>3, <2>4 DEF CleanupStage, Repair, NextPhase
<1>4. CASE RecoverStaleTestingNodes
  <2> DEFINE rested == [i \in {k \in Known : nodes[k].state = "testing"} |-> Rested(nodes[i])]
  <2>1. \A i \in Known : nodes[i] \in Node
    BY DEF Known, TypeOK
  <2>2. \A i \in Known : Rested(nodes[i]).state # "testing" /\ Rested(nodes[i]).staged = nodes[i].staged
    BY <2>1 DEF Rested, Node
  <2>3. Untested(Patch(nodes, rested))
    BY <2>2 DEF Untested, Patch, Known, TypeOK
  <2>4. Unstaged(nodes) => Unstaged(Patch(nodes, rested))
    BY <2>2 DEF Unstaged, Patch, Known, TypeOK
  <2>5. DOMAIN Nothing = {}
    BY DEF Nothing
  <2>6. CASE ~held /\ phase' = "up" /\ DOMAIN rested = {} /\ UNCHANGED <<memory, db, lock, skipped>>
    <3>1. nodes = Patch(nodes, rested)
      BY <2>6 DEF Patch, TypeOK
    <3>2. NoRunning(jobs') /\ NoRunning(dbJobs')
      BY <1>4, <1>j, <2>6 DEF Boot, RecoverStaleTestingNodes, Repair, NoRunning
    <3>3. Untested(nodes')
      BY <2>3, <2>6, <3>1 DEF Untested
    <3>4. "cleanup" \notin skipped' => Unstaged(nodes')
      BY <1>4, <2>6 DEF Boot, RecoverStaleTestingNodes, Repair, Unstaged
    <3> QED BY <2>6, <3>2, <3>3, <3>4 DEF Boot, Started, TakenBack
  <2>7. CASE Begin(rested, Nothing, DOMAIN Nothing) /\ phase = "stale"
    <3>1. jobs' = jobs
      BY <2>5, <2>7 DEF Begin, Patch, TypeOK
    <3>2. DOMAIN call'.oldJobs = {}
      BY <2>5, <2>7 DEF Begin, Part
    <3>3. phase' = "stale" /\ nodes' = Patch(nodes, rested) /\ UNCHANGED <<dbNodes, skipped>>
      BY <2>7 DEF Begin
    <3> QED BY <2>3, <2>4, <2>7, <3>1, <3>2, <3>3 DEF Boot, Started, Unstaged, Untested, NoRunning
  <2> QED BY <1>4, <2>5, <2>6, <2>7 DEF RecoverStaleTestingNodes, Repair, NextPhase
<1>5. CASE Commit
  <2>1. (NoRunning(jobs') /\ ~held') \/ phase = "up"
    BY <1>5 DEF Commit, Release, Boot, TypeOK, NextPhase, NoRunning
  <2>2. CASE phase = "recover"
    BY <1>5, <2>1, <2>2 DEF Commit, NextPhase, Boot, Started
  <2>3. CASE phase = "cleanup"
    <3>1. Unstaged(nodes') /\ nodes' = dbNodes'
      BY <1>5, <1>n, <2>1, <2>3 DEF Commit, NextPhase, Boot, Unstaged
    <3> QED BY <1>5, <2>1, <2>3, <3>1 DEF Commit, NextPhase, Boot, Started, Unstaged
  <2>4. CASE phase = "stale"
    <3>1. Untested(nodes') /\ ("cleanup" \notin skipped' => Unstaged(nodes'))
      BY <1>5, <2>4 DEF Commit, Boot, Untested, Unstaged
    <3>2. phase' = "up"
      BY <1>5, <2>4 DEF Commit, NextPhase
    <3>3. NoRunning(jobs') /\ NoRunning(dbJobs')
      BY <1>j, <2>1, <2>4, <3>2
    <3> QED BY <3>1, <3>2, <3>3 DEF Boot, Started, TakenBack
  <2>5. CASE phase = "up"
    BY <1>5, <2>5 DEF Commit, NextPhase, Boot, Started
  <2> QED BY <1>5, <2>2, <2>3, <2>4, <2>5 DEF Commit, TypeOK, NextPhase
<1>6. CASE Fail
  <2>1. ~held'
    BY <1>6 DEF Fail, Release
  <2>2. CASE phase = "recover"
    BY <1>6, <2>2 DEF Fail, Boot, Started
  <2>3. CASE phase \in {"cleanup", "stale"}
    <3>1. jobs' = jobs
      BY <1>6, <2>3 DEF Fail, Boot, Patch, TypeOK
    <3>2. NoRunning(jobs') /\ phase \in skipped' /\ phase' = NextPhase[phase]
      BY <1>6, <2>3, <3>1 DEF Fail, Boot, NoRunning
    <3>3. CASE phase = "cleanup"
      BY <2>1, <3>2, <3>3 DEF NextPhase, Boot, Started
    <3>4. CASE phase = "stale"
      <4>1. phase' = "up"
        BY <3>2, <3>4 DEF NextPhase
      <4>2. nodes' = dbNodes
        BY <1>6, <1>n, <2>1, <4>1 DEF Fail
      <4>3. "cleanup" \notin skipped' => Unstaged(nodes')
        BY <1>6, <3>4, <4>2 DEF Fail, Boot, Unstaged
      <4> QED BY <1>j, <2>1, <3>2, <3>4, <4>1, <4>3 DEF Boot, Started, TakenBack
    <3> QED BY <2>3, <3>3, <3>4
  <2>4. CASE phase = "up"
    BY <1>6, <2>4 DEF Fail, NextPhase, Boot, Started
  <2> QED BY <1>6, <2>2, <2>3, <2>4 DEF Fail, TypeOK, Durable, NextPhase
<1>7. CASE Crash
  BY <1>7 DEF Crash, Boot, Started
<1>8. CASE Tick
  BY <1>8 DEF Tick, Boot, Started, NoRunning, Unstaged, Untested
<1>9. CASE NodeOperation \/ JobOperation \/ BackupSnapshot \/ UpdateJobProgress
  BY <1>9, ServedWhenUp DEF Boot, Started
<1>10. CASE UNCHANGED vars
  BY <1>10 DEF vars, Boot, Started, NoRunning, Unstaged, Untested
<1> QED
  BY <1>1, <1>2, <1>3, <1>4, <1>5, <1>6, <1>7, <1>8, <1>9, <1>10
     DEF Next, NodeOperation, JobOperation

\* Start-up ends with no job running, in memory or stored, and with no node
\* staged or in a test unless the write of that repair had failed, wherever
\* the process before died and however often start-up itself was cut off.
THEOREM StartsClean == Spec => CleanStart
<1>1. TypeOK /\ Durable /\ Boot /\ [Next]_vars => Boot' /\ [Started]_vars
  BY BootStep
<1> QED
  BY <1>1, BootInit, DurableInit, DurableStep, TypeCorrect, PTL DEF Spec, CleanStart, Started

\* Memory, database and pool mark agree whatever failed and whenever it died.
THEOREM StoreAgreesCorrect == Spec => []StoreAgrees
<1>1. MemoryIsDurable /\ PoolFlagAgrees => StoreAgrees
  BY DEF StoreAgrees
<1> QED BY <1>1, MemoryAgrees, PoolMarkAgrees, PTL

-----------------------------------------------------------------------------
(* Retention.                                                              *)

\* The jobs retention chooses among, and those that it prefers to one of them.
Retained(boot) == Prunable(boot) \ Expired(boot)
Ahead(j, boot) == {k \in Retained(boot) : Precedes(k, j, boot)}

LEMMA JobsAreFinite ==
    ASSUME NEW boot \in BOOLEAN
    PROVE  /\ Retained(boot) \subseteq HasJob /\ HasJob \subseteq JobIds
           /\ IsFiniteSet(Retained(boot))
           /\ \A j : IsFiniteSet(Ahead(j, boot)) /\ Cardinality(Ahead(j, boot)) \in Nat
<1>1. Retained(boot) \subseteq HasJob /\ HasJob \subseteq JobIds
  BY DEF Retained, Prunable, HasJob
<1>2. IsFiniteSet(Retained(boot))
  BY <1>1, JobIdsAssumption, FS_Subset
<1>3. ASSUME NEW j PROVE IsFiniteSet(Ahead(j, boot)) /\ Cardinality(Ahead(j, boot)) \in Nat
  <2>1. Ahead(j, boot) \in SUBSET Retained(boot)
    BY DEF Ahead
  <2>2. IsFiniteSet(Ahead(j, boot))
    BY <1>2, <2>1, FS_Subset
  <2> QED BY <2>2, FS_CardinalityType
<1> QED BY <1>1, <1>2, <1>3

\* What a job of a dead process becomes is a job, and parsed only if it was.
LEMMA RecoveredIs ==
    ASSUME TypeOK, NEW boot \in BOOLEAN, NEW j \in HasJob
    PROVE  /\ j \in Nat /\ jobs[j] \in Job
           /\ Recovered(j, boot) \in Job /\ Recovered(j, boot).at \in Nat
           /\ Recovered(j, boot).status = "parsed" <=> jobs[j].status = "parsed"
           /\ Recovered(j, boot) # NoJob
<1>1. j \in Nat /\ jobs[j] \in Job
  BY JobIdsAssumption DEF HasJob, TypeOK
<1>2. now \in 0..MaxTime
  BY DEF TypeOK
<1>3. Recovered(j, boot) \in Job
  BY <1>1, <1>2 DEF Recovered, Job, Statuses
<1>4. Recovered(j, boot).at \in Nat
  BY <1>3, BoundsAssumption DEF Job
<1> QED BY <1>1, <1>3, <1>4, AbsentAssumption DEF Recovered

\* Retention's order is strict and total.
LEMMA OrderIsTotal ==
    ASSUME TypeOK, NEW boot \in BOOLEAN, NEW j \in HasJob, NEW k \in HasJob, NEW l \in HasJob
    PROVE  /\ ~Precedes(j, j, boot)
           /\ j # k => Precedes(j, k, boot) \/ Precedes(k, j, boot)
           /\ Precedes(j, k, boot) /\ Precedes(k, l, boot) => Precedes(j, l, boot)
<1> DEFINE Before(a, m, b, n) ==
             \/ a.status = "parsed" /\ b.status # "parsed"
             \/ /\ (a.status = "parsed") = (b.status = "parsed")
                /\ \/ a.at > b.at
                   \/ a.at = b.at /\ m < n
           a == Recovered(j, boot)
           b == Recovered(k, boot)
           c == Recovered(l, boot)
<1>1. /\ Precedes(j, j, boot) = Before(a, j, a, j)
      /\ Precedes(j, k, boot) = Before(a, j, b, k)
      /\ Precedes(k, j, boot) = Before(b, k, a, j)
      /\ Precedes(k, l, boot) = Before(b, k, c, l)
      /\ Precedes(j, l, boot) = Before(a, j, c, l)
  BY DEF Precedes
<1>2. a.at \in Nat /\ b.at \in Nat /\ c.at \in Nat /\ j \in Nat /\ k \in Nat /\ l \in Nat
  BY RecoveredIs
<1> HIDE DEF a, b, c
<1>3. ~Before(a, j, a, j)
  BY <1>2
<1>4. j # k => Before(a, j, b, k) \/ Before(b, k, a, j)
  BY <1>2
<1>5. Before(a, j, b, k) /\ Before(b, k, c, l) => Before(a, j, c, l)
  BY <1>2
<1> HIDE DEF Before
<1> QED BY <1>1, <1>3, <1>4, <1>5

\* A job that another one precedes has more ahead of it.
LEMMA AheadGrows ==
    ASSUME TypeOK, NEW boot \in BOOLEAN, NEW j \in Retained(boot), NEW k \in Retained(boot),
           Precedes(j, k, boot)
    PROVE  Cardinality(Ahead(j, boot)) < Cardinality(Ahead(k, boot))
<1>1. Retained(boot) \subseteq HasJob
  BY JobsAreFinite
<1>2. Ahead(j, boot) \in SUBSET Ahead(k, boot)
  BY <1>1, OrderIsTotal DEF Ahead
<1>3. j \in Ahead(k, boot) /\ j \notin Ahead(j, boot)
  BY <1>1, OrderIsTotal DEF Ahead
<1>4. IsFiniteSet(Ahead(k, boot)) /\ Cardinality(Ahead(j, boot)) \in Nat /\ Cardinality(Ahead(k, boot)) \in Nat
  BY JobsAreFinite
<1>5. /\ Cardinality(Ahead(j, boot)) <= Cardinality(Ahead(k, boot))
      /\ Cardinality(Ahead(j, boot)) # Cardinality(Ahead(k, boot))
  BY <1>2, <1>3, <1>4, FS_Subset
<1> QED BY <1>4, <1>5

\* Excess leaves those with fewer than MaxJobs ahead of them, and these are at
\* most MaxJobs: the number of those ahead tells them apart.
LEMMA ExcessBounds ==
    ASSUME TypeOK, NEW boot \in BOOLEAN
    PROVE  Cardinality(Retained(boot) \ Excess(boot)) <= MaxJobs
<1> DEFINE stay == Retained(boot) \ Excess(boot)
           place == [j \in stay |-> Cardinality(Ahead(j, boot))]
<1>1. MaxJobs \in Nat
  BY BoundsAssumption
<1>2. ASSUME NEW j \in stay PROVE place[j] \in 0 .. MaxJobs - 1
  <2>1. ~(Cardinality(Ahead(j, boot)) >= MaxJobs)
    BY DEF Excess, Retained, Ahead
  <2>2. Cardinality(Ahead(j, boot)) \in Nat
    BY JobsAreFinite
  <2> QED BY <1>1, <2>1, <2>2
<1>3. ASSUME NEW j \in stay, NEW k \in stay, place[j] = place[k] PROVE j = k
  <2>1. j \in HasJob /\ k \in HasJob
    BY JobsAreFinite
  <2>2. /\ Precedes(j, k, boot) => Cardinality(Ahead(j, boot)) < Cardinality(Ahead(k, boot))
        /\ Precedes(k, j, boot) => Cardinality(Ahead(k, boot)) < Cardinality(Ahead(j, boot))
    BY AheadGrows
  <2>3. Cardinality(Ahead(j, boot)) \in Nat /\ Cardinality(Ahead(j, boot)) = Cardinality(Ahead(k, boot))
    BY <1>3, JobsAreFinite
  <2> QED BY <2>1, <2>2, <2>3, OrderIsTotal
<1> HIDE DEF stay
<1>4. place \in Injection(stay, 0 .. MaxJobs - 1)
  BY <1>2, <1>3 DEF Injection, IsInjective
<1>5. IsFiniteSet(0 .. MaxJobs - 1) /\ Cardinality(0 .. MaxJobs - 1) = MaxJobs
  BY <1>1, FS_Interval
<1>6. Cardinality(stay) <= MaxJobs
  BY <1>4, <1>5, FS_Injection
<1> QED BY <1>6 DEF stay

\* Excess takes a parsed job only if it takes all that are not.
LEMMA ParsedStay ==
    ASSUME TypeOK, NEW boot \in BOOLEAN, NEW j \in Excess(boot), NEW k \in Retained(boot) \ Excess(boot),
           jobs[j].status = "parsed"
    PROVE  jobs[k].status = "parsed"
<1>1. j \in Retained(boot) /\ j \in HasJob /\ k \in HasJob
  BY JobsAreFinite DEF Excess, Retained
<1>2. Cardinality(Ahead(j, boot)) >= MaxJobs /\ ~(Cardinality(Ahead(k, boot)) >= MaxJobs)
  BY <1>1 DEF Excess, Retained, Ahead
<1>3. Cardinality(Ahead(j, boot)) \in Nat /\ Cardinality(Ahead(k, boot)) \in Nat /\ MaxJobs \in Nat
  BY JobsAreFinite, BoundsAssumption
<1>4. ~Precedes(j, k, boot)
  BY <1>1, <1>2, <1>3, AheadGrows
<1>5. jobs[k].status # "parsed" => Precedes(j, k, boot)
  BY <1>1, RecoveredIs DEF Precedes
<1> QED BY <1>4, <1>5

\* What a prune leaves.
LEMMA PruneLeaves ==
    ASSUME TypeOK, NEW boot \in BOOLEAN, jobs' = Patch(jobs, PruneChange(boot))
    PROVE  /\ HasJob \ HasJob' = Expired(boot) \cup Excess(boot)
           /\ HasJob' \subseteq HasJob
           /\ {k \in HasJob' : jobs'[k].status # "running"} = Retained(boot) \ Excess(boot)
<1> DEFINE dropped == Expired(boot) \cup Excess(boot)
<1>1. DOMAIN jobs = JobIds /\ DOMAIN PruneChange(boot) \subseteq HasJob /\ dropped \subseteq DOMAIN PruneChange(boot)
  BY DEF TypeOK, PruneChange, Expired, Excess, Prunable, HasJob
<1>2. dropped \subseteq Prunable(boot) /\ Prunable(boot) \subseteq HasJob
  BY DEF Expired, Excess, Prunable
<1>3. ASSUME NEW k \in JobIds, k \in dropped PROVE jobs'[k] = NoJob
  BY <1>1, <1>3 DEF Patch, PruneChange
<1>4. ASSUME NEW k \in HasJob, k \notin dropped PROVE jobs'[k] = Recovered(k, boot)
  <2>1. CASE k \in DOMAIN PruneChange(boot)
    <3>1. PruneChange(boot)[k] = Recovered(k, boot)
      BY <1>4, <2>1 DEF PruneChange
    <3>2. jobs'[k] = PruneChange(boot)[k]
      BY <1>1, <2>1 DEF Patch, HasJob
    <3> QED BY <3>1, <3>2
  <2>2. CASE k \notin DOMAIN PruneChange(boot)
    <3>1. jobs'[k] = jobs[k]
      BY <1>1, <2>2 DEF Patch, HasJob
    <3>2. k \in Prunable(boot) => Recovered(k, boot) = jobs[k]
      BY <2>2 DEF PruneChange
    <3>3. k \notin Prunable(boot) => ~boot
      BY DEF Prunable
    <3> QED BY <3>1, <3>2, <3>3 DEF Recovered
  <2> QED BY <2>1, <2>2
<1>5. ASSUME NEW k \in JobIds \ HasJob PROVE jobs'[k] = NoJob
  BY <1>1, <1>5 DEF Patch, HasJob
<1>6. \A k \in HasJob : k \notin dropped => jobs'[k] # NoJob
  BY <1>4, RecoveredIs
<1>7. HasJob' = HasJob \ dropped
  BY <1>3, <1>5, <1>6 DEF HasJob
<1>8. ASSUME NEW k \in HasJob PROVE Recovered(k, boot).status # "running" <=> k \in Prunable(boot)
  BY <1>8 DEF Recovered, Prunable
<1>9. {k \in HasJob' : jobs'[k].status # "running"} = Prunable(boot) \ dropped
  BY <1>2, <1>4, <1>7, <1>8
<1>10. Prunable(boot) \ dropped = Retained(boot) \ Excess(boot)
  BY DEF Retained
<1> HIDE DEF dropped
<1>11. HasJob \ HasJob' = dropped
  BY <1>2, <1>7
<1> QED BY <1>7, <1>9, <1>10, <1>11 DEF dropped

\* Writing jobs that are there forgets none.
LEMMA WritingKeeps ==
    ASSUME TypeOK, NEW np, NEW jp, NEW changed, Begin(np, jp, changed),
           \A j \in DOMAIN jp : jp[j] # NoJob
    PROVE  HasJob \subseteq HasJob'
  BY DEF Begin, Patch, HasJob, TypeOK

\* Of what takes the lock and writes no nodes only retention forgets jobs: the
\* pruning of the jobs that were running only at start-up.
LEMMA OnlyPruneForgets ==
    ASSUME TypeOK, Next, ~held, held', DOMAIN call'.putNodes = {}, ~(HasJob \subseteq HasJob')
    PROVE  \E boot \in BOOLEAN :
              jobs' = Patch(jobs, PruneChange(boot)) /\ (boot => phase = "recover")
<1>1. \A np, jp, changed : Begin(np, jp, changed) => call'.putNodes = np /\ jobs' = Patch(jobs, jp)
  BY DEF Begin
<1>2. \A np, changed : ~Begin(np, Nothing, changed)
  BY WritingKeeps DEF Nothing
<1>3. \A np : ~Mutate(np, Nothing)
  BY <1>2 DEF Mutate, MutateKeeping
<1>4. ~Load /\ ~Commit /\ ~Fail /\ ~Crash /\ ~UpdateJobProgress /\ ~BackupSnapshot /\ ~Tick
  BY DEF Load, Commit, Fail, Crash, UpdateJobProgress, BackupSnapshot, Tick, lock, Release
<1>5. ~ImportNodes /\ ~UpsertNodes /\ ~ApplyNodeChanges
  BY <1>3 DEF ImportNodes, UpsertNodes, ApplyNodeChanges
<1>6. ~RollBackNodes /\ ~RestoreNodeStatesIfCurrent /\ ~MarkInPoolMany /\ ~DeleteNodes
  BY <1>3 DEF RollBackNodes, RestoreNodeStatesIfCurrent, MarkInPoolMany, DeleteNodes
<1>7. ~CleanupStage /\ ~RecoverStaleTestingNodes
  BY <1>2 DEF CleanupStage, RecoverStaleTestingNodes, Repair, lock
<1>8. ~RestoreNodesSnapshot /\ ~ReplaceSnapshot
  <2>1. DOMAIN snap # {}
    BY IdsAssumption DEF TypeOK
  <2> QED BY <1>1, <2>1 DEF RestoreNodesSnapshot, ReplaceSnapshot, Mutate, MutateKeeping
<1>9. NoJob # [status |-> "parsed", at |-> now] /\ \A s \in Statuses : NoJob # [status |-> s, at |-> now]
  BY AbsentAssumption DEF TypeOK, Job, Statuses
<1>10. ~UpsertJob
  <2>1. SUFFICES ASSUME NEW j \in JobIds, NEW s \in {"parsed", "running"},
                        Mutate(Nothing, [k \in {j} |-> [status |-> s, at |-> now]])
                 PROVE  FALSE
    BY DEF UpsertJob
  <2> QED BY <1>9, <2>1, WritingKeeps DEF Mutate, MutateKeeping, Statuses
<1>11. ~UpdateJob
  <2>1. SUFFICES ASSUME NEW j \in HasJob, NEW s \in {"completed", "canceled"},
                        Mutate(Nothing, [k \in {j} |-> [status |-> s, at |-> now]])
                 PROVE  FALSE
    BY DEF UpdateJob
  <2> QED BY <1>9, <2>1, WritingKeeps DEF Mutate, MutateKeeping, Statuses
<1>12. CASE RecoverJobs
  <2>1. phase = "recover" /\ jobs' = Patch(jobs, PruneChange(TRUE))
    BY <1>1, <1>12 DEF RecoverJobs, Repair, lock
  <2> QED BY <2>1
<1>13. CASE PruneJobs
  <2>1. jobs' = Patch(jobs, PruneChange(FALSE))
    BY <1>1, <1>13 DEF PruneJobs, Mutate, MutateKeeping
  <2> QED BY <2>1
<1> QED BY <1>4, <1>5, <1>6, <1>7, <1>8, <1>10, <1>11, <1>12, <1>13 DEF Next

\* What is lost in a step, what stays, and that it is as it should be.
Lost == HasJob \ HasJob'
Left == {k \in HasJob' : jobs'[k].status # "running"}
KeepsWork ==
    ~held /\ held' /\ DOMAIN call'.putNodes = {} /\ Lost # {} =>
      /\ \A j \in Lost : jobs[j].status = "running" => phase = "recover"
      /\ \A j \in Lost, k \in Left :
            jobs[j].status = "parsed" /\ now <= jobs[j].at + MaxAge => jobs[k].status = "parsed"
      /\ Cardinality(Left) <= MaxJobs

LEMMA RetentionStep ==
    ASSUME TypeOK, Next
    PROVE  KeepsWork
<1> SUFFICES ASSUME ~held, held', DOMAIN call'.putNodes = {}, Lost # {}
             PROVE  /\ \A j \in Lost : jobs[j].status = "running" => phase = "recover"
                    /\ \A j \in Lost, k \in Left :
                          jobs[j].status = "parsed" /\ now <= jobs[j].at + MaxAge => jobs[k].status = "parsed"
                    /\ Cardinality(Left) <= MaxJobs
  BY DEF KeepsWork
<1>1. PICK boot \in BOOLEAN : jobs' = Patch(jobs, PruneChange(boot)) /\ (boot => phase = "recover")
  BY OnlyPruneForgets DEF Lost
<1>2. Lost = Expired(boot) \cup Excess(boot) /\ Left = Retained(boot) \ Excess(boot)
  BY <1>1, PruneLeaves DEF Lost, Left
<1>3. ASSUME NEW j \in Lost, jobs[j].status = "running" PROVE phase = "recover"
  <2>1. j \in Prunable(boot)
    BY <1>2 DEF Expired, Excess
  <2> QED BY <1>1, <1>3, <2>1 DEF Prunable
<1>4. ASSUME NEW j \in Lost, NEW k \in Left, jobs[j].status = "parsed", now <= jobs[j].at + MaxAge
      PROVE  jobs[k].status = "parsed"
  <2>1. j \in HasJob
    BY DEF Lost
  <2>2. Recovered(j, boot) = jobs[j]
    BY <1>4 DEF Recovered
  <2>3. now \in Nat /\ jobs[j].at \in Nat /\ MaxAge \in Nat
    BY <2>1, <2>2, RecoveredIs, BoundsAssumption DEF TypeOK
  <2>4. j \notin Expired(boot)
    BY <1>4, <2>2, <2>3 DEF Expired
  <2> QED BY <1>2, <1>4, <2>4, ParsedStay
<1>5. Cardinality(Left) <= MaxJobs
  BY <1>2, ExcessBounds
<1> QED BY <1>3, <1>4, <1>5

\* Retention (pruneJobs) forgets no running job but at start-up, no parsed and
\* unexpired one while it keeps one that is finished, and leaves at most
\* MaxJobs that do not run; and no other job is forgotten by what writes jobs.
THEOREM RetentionKeepsWorkCorrect == Spec => RetentionKeepsWork
<1>1. TypeOK /\ [Next]_vars => [KeepsWork]_vars
  BY RetentionStep
<1>2. Spec => [][KeepsWork]_vars
  BY <1>1, TypeCorrect, PTL DEF Spec
<1>3. [][KeepsWork]_vars => RetentionKeepsWork
  BY PTL DEF RetentionKeepsWork, KeepsWork, Lost, Left
<1> QED BY <1>2, <1>3
=============================================================================
