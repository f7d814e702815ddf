---------------------------- MODULE ImporterJobs ----------------------------
(***************************************************************************)
(* The background jobs of importer.Service: refreshes of the sources, the  *)
(* tests of nodes, imports and changes of a tag's proxy chain, how they    *)
(* are admitted, cancelled, waited for by the jobs that own them, and how  *)
(* their results reach the pool.                                           *)
(*                                                                         *)
(* A job is a record in a map and a goroutine.  The record is stored       *)
(* first, the goroutine started and its cancel function registered after;  *)
(* a cancel reads the record, then looks for the function; the goroutine   *)
(* writes its last status and unregisters after that.  Every such gap is a *)
(* gap between two steps here.                                             *)
(*                                                                         *)
(* The nodes of one parsed import are one stage; a tag's published nodes   *)
(* are the revision they come from and the last test that wrote to them.   *)
(* What happens inside one application of results is in SourceApply, the   *)
(* expiry of finished jobs in ConnectivityJobs.                            *)
(***************************************************************************)
EXTENDS Naturals, Sequences, FiniteSets

CONSTANTS
    Tags,       \* tag prefixes
    Works,      \* sources a refresh works on: records of a tag and a kind, "url" or "local"
    MaxJobs,    \* bound: jobs of a behaviour
    Menus,      \* bound: how many jobs of each kind users start, and how often they cancel or close
    MaxStages,  \* bound: parsed imports of a behaviour
    MaxParses,  \* bound: those that users parse
    MaxReaders  \* bound: calls of Commit that have read the same parsed import

ASSUME WorksAssumption == Works \subseteq [tag: Tags, kind: {"url", "local"}]
ASSUME BoundsAssumption == MaxJobs \in Nat /\ MaxStages \in Nat /\ MaxReaders \in Nat /\ MaxParses \in Nat

VARIABLES
    jobs,      \* the jobs, in the order they were stored
    starting,  \* the job whose start holds testStartMu, 0 for none
    stages,    \* parsed imports, in the order they were stored
    readers,   \* calls of Commit that have read a stage as parsed
    parse,     \* the call of Parse under way
    pool,      \* the published nodes of each tag
    revs,      \* sourceRevisions
    applier,   \* the job that holds applyMu, 0 for none
    work,      \* the works of the refresh
    reason,    \* its ProtectionReason: the first of its works'
    cancels,   \* jobs a cancel has read as running and not yet acted on
    asked,     \* cancels and closes so far
    menu,      \* the one of Menus
    closing, closed  \* Close has begun, has returned

calls == <<starting, readers, parse, cancels, asked>>
store == <<stages, pool>>
vars  == <<jobs, calls, store, revs, applier, work, reason, closing, closed, menu>>

Ids      == 1..Len(jobs)
Kinds    == {"refresh", "test", "import", "binding"}
Statuses == {"running", "finished", "failed", "canceled"}
Gone     == {"deleted", "published"}  \* stages with no nodes of their own in the store
StageSt  == {"parsed", "testing", "passed", "failed", "blocked"} \cup Gone

NoParse == [pc |-> "idle", tag |-> CHOOSE t \in Tags : TRUE, rev |-> 0]
Idle    == [pc |-> "idle", child |-> 0, stage |-> 0, row |-> "waiting"]
Published == {t \in Tags : pool[t].rev # 0}

\* What a refresh or a test can go back to.
Snapshot == [pool |-> pool, st |-> [s \in DOMAIN stages |-> stages[s].st]]
NoSnap   == [pool |-> <<>>, st |-> <<>>]

NewJob(kind, owner, stage) ==
    [kind |-> kind, status |-> "running", live |-> "stored", reg |-> FALSE, ctx |-> FALSE,
     pc |-> "new", owner |-> owner, stage |-> stage, rev |-> [t \in Tags |-> 0],
     snap |-> NoSnap, end |-> "none", note |-> "none", odd |-> {}]

Marks(T)      == [t \in Tags |-> IF t \in T THEN 1 ELSE 0]
Active(kinds) == \E j \in Ids : jobs[j].kind \in kinds /\ jobs[j].status = "running"
Refreshing    == Active({"refresh"})
Refresh       == CHOOSE j \in Ids : jobs[j].kind = "refresh" /\ jobs[j].pc = "queue"
Going(j, pc)  == j \in Ids /\ jobs[j].live = "go" /\ jobs[j].pc = pc

\* The jobs with job j as given, or gone on to pc.
Put(j, job) == [jobs EXCEPT ![j] = job]
At(j, pc)   == Put(j, [jobs[j] EXCEPT !.pc = pc])

\* Stage s with its nodes in state st; all staged nodes deleted.
Staged(s, st) == [stages EXCEPT ![s].st = st]
Drop(s)       == IF stages[s].st \in Gone THEN stages ELSE Staged(s, "deleted")
DropAll       == [s \in DOMAIN stages |->
                     IF stages[s].st \in Gone THEN stages[s] ELSE [stages[s] EXCEPT !.st = "deleted"]]

\* RestoreNodesSnapshot and RestoreConfigNodes: later nodes go, earlier ones come back.
Restore(snap) ==
    /\ pool' = snap.pool
    /\ stages' = [s \in DOMAIN stages |->
                     [stages[s] EXCEPT !.st = IF s \in DOMAIN snap.st THEN snap.st[s] ELSE "deleted"]]

-----------------------------------------------------------------------------
(* Storing and starting jobs.  An operator just before a definition, named *)
(* after it, is the definition with a plausible slip; PROJECT.json says    *)
(* which property rules it out.                                            *)

Store(job) ==
    /\ Len(jobs) < MaxJobs
    /\ job.owner = 0 =>
          Cardinality({j \in Ids : jobs[j].owner = 0 /\ jobs[j].kind = job.kind}) < menu[job.kind]
    /\ jobs' = Append(jobs, job)

Targets == {w \in Works : w.tag \in Published}

\* A refresh starts whatever tests are running.
StartRefreshBesideTests ==
    /\ starting = 0 /\ ~Refreshing /\ Targets # {}
    /\ revs' = [t \in Tags |-> IF t \in Published THEN revs[t] + 1 ELSE revs[t]]
    /\ Store([NewJob("refresh", 0, 0) EXCEPT !.rev = [t \in Tags |-> IF t \in Published THEN revs'[t] ELSE 0],
                                             !.snap = Snapshot])
    /\ starting' = Len(jobs) + 1
    /\ work' = [w \in Targets |-> Idle]
    /\ reason' = "none"
    /\ UNCHANGED <<readers, parse, cancels, asked, store, applier, closing, closed>>

\* With refreshStartMu and testStartMu: every tag gets a new revision, so
\* that older imports of it can no longer be applied.
StartRefresh ==
    /\ starting = 0 /\ ~Refreshing /\ ~Active({"test"}) /\ Targets # {}
    /\ revs' = [t \in Tags |-> IF t \in Published THEN revs[t] + 1 ELSE revs[t]]
    /\ Store([NewJob("refresh", 0, 0) EXCEPT !.rev = [t \in Tags |-> IF t \in Published THEN revs'[t] ELSE 0],
                                             !.snap = Snapshot])
    /\ starting' = Len(jobs) + 1
    /\ work' = [w \in Targets |-> Idle]
    /\ reason' = "none"
    /\ UNCHANGED <<readers, parse, cancels, asked, store, applier, closing, closed>>

StartBatchTest ==
    /\ starting = 0 /\ ~Refreshing /\ ~Active({"test"}) /\ Published # {}
    /\ Store([NewJob("test", 0, 0) EXCEPT !.rev = Marks(Published)])
    /\ starting' = Len(jobs) + 1
    /\ UNCHANGED <<readers, parse, cancels, asked, store, revs, applier, work, reason, closing, closed>>

\* HasActiveJobs reads who is registered, not who is about to be.
StartTagBinding ==
    /\ ~Active({"refresh", "binding"})
    /\ \A j \in Ids : jobs[j].kind \in {"import", "test"} => ~jobs[j].reg
    /\ Published # {}
    /\ Store([NewJob("binding", 0, 0) EXCEPT !.rev = Marks(Published)])
    /\ UNCHANGED <<calls, store, revs, applier, work, reason, closing, closed>>

Begins == [refresh |-> "queue", test |-> "probe", import |-> "probe", binding |-> "next"]

\* launchBackground: refused once the service closes, and the caller takes
\* the job back.
Launch(j) ==
    /\ jobs[j].live = "stored"
    /\ jobs' = IF closing
               THEN Put(j, [jobs[j] EXCEPT !.live = "done", !.pc = "refused",
                                 !.status = IF jobs[j].kind = "binding" THEN "failed" ELSE "canceled"])
               ELSE Put(j, [jobs[j] EXCEPT !.live = "go", !.reg = TRUE, !.pc = Begins[jobs[j].kind]])
    /\ stages' = IF closing /\ jobs[j].kind = "import" /\ stages[jobs[j].stage].st = "testing"
                 THEN Staged(jobs[j].stage, "parsed") ELSE stages
    /\ starting' = IF starting = j THEN 0 ELSE starting
    /\ UNCHANGED <<readers, parse, cancels, asked, pool, revs, applier, work, reason, closing, closed>>

\* A cancel, by a user or by the owner of the job.
Cancel(j) ==
    /\ jobs[j].status = "running" /\ j \notin cancels /\ asked < menu["cancel"]
    /\ cancels' = cancels \cup {j}
    /\ asked' = asked + 1
    /\ UNCHANGED <<jobs, starting, readers, parse, store, revs, applier, work, reason, closing, closed>>

\* With no function registered an import or a test is declared canceled; of
\* a refresh and of a binding only the text changes.
CancelAct(j) ==
    /\ j \in cancels
    /\ cancels' = cancels \ {j}
    /\ jobs' = IF jobs[j].reg THEN Put(j, [jobs[j] EXCEPT !.ctx = TRUE])
               ELSE IF jobs[j].kind \in {"import", "test"}
               THEN Put(j, [jobs[j] EXCEPT !.status = "canceled", !.odd = @ \cup {"overwritten"}])
               ELSE jobs
    /\ UNCHANGED <<starting, readers, parse, asked, store, revs, applier, work, reason, closing, closed>>

\* Close refuses new jobs and cancels those that are registered.
CloseBegin ==
    /\ ~closing /\ asked < menu["cancel"]
    /\ closing' = TRUE
    /\ asked' = asked + 1
    /\ jobs' = [j \in Ids |-> IF jobs[j].reg THEN [jobs[j] EXCEPT !.ctx = TRUE] ELSE jobs[j]]
    /\ UNCHANGED <<starting, readers, parse, cancels, store, revs, applier, work, reason, closed>>

\* jobsWG.Wait, within the time the caller gives.
CloseEnd ==
    /\ closing /\ ~closed /\ \A j \in Ids : jobs[j].live # "go"
    /\ closed' = TRUE
    /\ UNCHANGED <<jobs, calls, store, revs, applier, work, reason, closing>>

-----------------------------------------------------------------------------
(* Parse and Commit.                                                       *)

\* The only look at a running refresh.
ParseBegin(t) ==
    /\ parse.pc = "idle" /\ ~Refreshing /\ menu["import"] > 0
    /\ Cardinality({s \in DOMAIN stages : stages[s].by = "user"}) < MaxParses
    /\ parse' = [pc |-> "checked", tag |-> t, rev |-> 0]
    /\ UNCHANGED <<jobs, starting, readers, cancels, asked, store, revs, applier, work, reason, closing, closed>>

\* A new revision, then the download.
ParseRevise ==
    /\ parse.pc = "checked"
    /\ revs' = [revs EXCEPT ![parse.tag] = @ + 1]
    /\ parse' = [parse EXCEPT !.pc = "fetching", !.rev = revs'[parse.tag]]
    /\ UNCHANGED <<jobs, starting, readers, cancels, asked, store, applier, work, reason, closing, closed>>

\* The nodes and the job of the import are saved, or the download failed and
\* the stage stands for nodes that never were.
ParseStore ==
    /\ parse.pc = "fetching" /\ Len(stages) < MaxStages
    /\ \E st \in {"parsed", "deleted"} :
          stages' = Append(stages, [tag |-> parse.tag, rev |-> parse.rev, by |-> "user", st |-> st])
    /\ readers' = Append(readers, 0)
    /\ parse' = NoParse
    /\ UNCHANGED <<jobs, starting, cancels, asked, pool, revs, applier, work, reason, closing, closed>>

CommitRead(s) ==
    /\ stages[s].st = "parsed" /\ stages[s].by = "user" /\ readers[s] < MaxReaders
    /\ readers' = [readers EXCEPT ![s] = @ + 1]
    /\ UNCHANGED <<jobs, starting, parse, cancels, asked, store, revs, applier, work, reason, closing, closed>>

\* The copies that were read are written back as testing, whatever has
\* happened to the nodes, and a job of their own is stored.
CommitStore(s) ==
    /\ readers[s] > 0
    /\ readers' = [readers EXCEPT ![s] = @ - 1]
    /\ stages' = Staged(s, "testing")
    /\ Store(NewJob("import", 0, s))
    /\ UNCHANGED <<starting, parse, cancels, asked, pool, revs, applier, work, reason, closing, closed>>

-----------------------------------------------------------------------------
(* The goroutine of an import: runPipelineWithPolicy.                      *)

\* Job j goes on to write its last status.
Ends(j, end) == Put(j, [jobs[j] EXCEPT !.pc = "write", !.end = end])
EndsBadly(j) == Put(j, [jobs[j] EXCEPT !.pc = "write", !.end = "failed", !.note = "error"])
OfImport(j)  == stages[jobs[j].stage].by # "work"
DropImport(j, st) == IF OfImport(j) THEN Drop(jobs[j].stage) ELSE st

\* The tests end.  Cancelled: untested nodes go back to parsed, those of an
\* import are deleted.  The chain does not work: every node is blocked.
\* Otherwise the results are saved for the nodes that still exist.
ImportProbe(j) ==
    /\ Going(j, "probe") /\ jobs[j].kind = "import"
    /\ LET s == jobs[j].stage IN
       \/ /\ jobs[j].ctx
          /\ stages' = DropImport(j, IF stages[s].st = "testing" THEN Staged(s, "parsed") ELSE stages)
          /\ jobs' = Ends(j, "canceled")
       \/ /\ ~jobs[j].ctx
          /\ stages' = Staged(s, "blocked")
          /\ jobs' = EndsBadly(j)
       \/ /\ ~jobs[j].ctx /\ stages[s].st \notin Gone
          /\ \E st \in {"passed", "failed"} :
                 /\ stages' = Staged(s, st)
                 /\ jobs' = Put(j, [jobs[j] EXCEPT !.pc = "saved", !.note = st])
       \/ /\ ~jobs[j].ctx /\ stages[s].st \in Gone
          /\ stages' = stages
          /\ jobs' = Put(j, [jobs[j] EXCEPT !.pc = "saved", !.note = "gone"])
       \/ /\ ~jobs[j].ctx
          /\ stages' = stages
          /\ jobs' = EndsBadly(j)
    /\ UNCHANGED <<calls, pool, revs, applier, work, reason, closing, closed>>

Verdict(j) == IF jobs[j].note = "failed" THEN "failed" ELSE "finished"

\* A published tag keeps its nodes when none of the new ones works.
ImportSaved(j) ==
    /\ Going(j, "saved")
    /\ LET lost == jobs[j].note # "passed" /\ stages[jobs[j].stage].tag \in Published IN
       \/ jobs[j].ctx /\ jobs' = Ends(j, "canceled") /\ stages' = DropImport(j, stages)
       \/ ~jobs[j].ctx /\ ~OfImport(j) /\ jobs' = Ends(j, Verdict(j)) /\ UNCHANGED stages
       \/ ~jobs[j].ctx /\ OfImport(j) /\ lost /\ jobs' = Ends(j, Verdict(j)) /\ stages' = Drop(jobs[j].stage)
       \/ ~jobs[j].ctx /\ OfImport(j) /\ ~lost /\ jobs' = At(j, "lock") /\ UNCHANGED stages
    /\ UNCHANGED <<calls, pool, revs, applier, work, reason, closing, closed>>

\* Whether stage s may replace its tag, having revision r.
Applicable(s, r) == revs[stages[s].tag] = r /\ stages[s].st \in {"passed", "failed"}

\* applyStagedNodes with applyMu: refused for an old revision or when nodes
\* of the stage are missing.
ImportLock(j) ==
    /\ Going(j, "lock") /\ jobs[j].kind = "import" /\ applier = 0
    /\ LET s == jobs[j].stage IN
       \/ /\ Applicable(s, stages[s].rev)
          /\ applier' = j
          /\ jobs' = At(j, "apply") /\ UNCHANGED stages
       \/ /\ ~Applicable(s, stages[s].rev)
          /\ applier' = applier
          /\ jobs' = Ends(j, "failed") /\ stages' = Drop(s)
    /\ UNCHANGED <<calls, pool, revs, work, reason, closing, closed>>

Publish(s, r) ==
    /\ pool' = [pool EXCEPT ![stages[s].tag] = [rev |-> r, test |-> 0]]
    /\ stages' = Staged(s, "published")

ImportApply(j) ==
    /\ Going(j, "apply") /\ jobs[j].kind = "import"
    /\ LET s == jobs[j].stage IN
       \/ ~jobs[j].ctx /\ Publish(s, stages[s].rev) /\ jobs' = Ends(j, Verdict(j))
       \/ jobs' = Ends(j, "failed") /\ stages' = Drop(s) /\ UNCHANGED pool
    /\ applier' = 0
    /\ UNCHANGED <<calls, revs, work, reason, closing, closed>>

\* The last UpdateJob; its error is ignored and then the job stays running.
ImportWrite(j) ==
    /\ Going(j, "write") /\ jobs[j].kind = "import"
    /\ \/ jobs' = Put(j, [jobs[j] EXCEPT !.pc = "exit", !.status = jobs[j].end])
       \/ jobs' = Put(j, [jobs[j] EXCEPT !.pc = "exit", !.odd = @ \cup {"unsaved"}])
    /\ UNCHANGED <<calls, store, revs, applier, work, reason, closing, closed>>

\* The goroutine is gone, with its context and its snapshot.
Over(job) == [job EXCEPT !.live = "done", !.reg = FALSE, !.ctx = FALSE, !.snap = NoSnap, !.pc = "over"]

\* The test leaves applyMu locked.
ExitLocked(j) ==
    /\ Going(j, "exit") /\ jobs[j].kind # "refresh"
    /\ jobs' = Put(j, Over(jobs[j]))
    /\ UNCHANGED <<calls, store, revs, applier, work, reason, closing, closed>>

\* The deferred calls of an import, a test and a binding.
Exit(j) ==
    /\ Going(j, "exit") /\ jobs[j].kind # "refresh"
    /\ jobs' = Put(j, Over(jobs[j]))
    /\ applier' = IF applier = j THEN 0 ELSE applier
    /\ UNCHANGED <<calls, store, revs, work, reason, closing, closed>>

-----------------------------------------------------------------------------
(* The goroutine of a test: runBatchTestJob.  applyMu is held from the     *)
(* first result to the end.  A test that a refresh owns takes no snapshot: *)
(* the refresh has one.                                                    *)

Top(j)       == jobs[j].owner = 0
Tested(j)    == [t \in Tags |-> IF jobs[j].rev[t] = 1 THEN [pool[t] EXCEPT !.test = j] ELSE pool[t]]

\* finish: the last status.
Finish(j, end) == Put(j, [jobs[j] EXCEPT !.pc = "exit", !.end = end, !.status = end])

\* The last status of a test that could not take back what it wrote.
FinishBadly(j) ==
    Put(j, [jobs[j] EXCEPT !.pc = "exit", !.end = "failed", !.status = "failed", !.odd = @ \cup {"unrestored"}])

\* The tests have ended; beginApply takes applyMu, looks at the cancel and
\* only then takes the snapshot.
TestBegin(j) ==
    /\ Going(j, "probe") /\ jobs[j].kind = "test" /\ applier = 0
    /\ applier' = j
    /\ \/ jobs[j].ctx /\ jobs' = Finish(j, "canceled")
       \/ ~jobs[j].ctx /\ jobs' = Put(j, [jobs[j] EXCEPT !.pc = "results", !.snap = IF Top(j) THEN Snapshot ELSE NoSnap])
       \/ ~jobs[j].ctx /\ Top(j) /\ jobs' = Finish(j, "failed")
    /\ UNCHANGED <<calls, store, revs, work, reason, closing, closed>>

After == [results |-> "country", country |-> "reload"]

\* finish without the restore of what a cancelled test has written.
TestEndKeeps(j, end) == jobs' = Finish(j, end) /\ UNCHANGED store

\* finish for a cancelled or a failed step: back to the snapshot, if there is one.
TestEnd(j, end) ==
    \/ jobs' = Finish(j, end) /\ IF Top(j) THEN Restore(jobs[j].snap) ELSE UNCHANGED store
    \/ Top(j) /\ jobs' = FinishBadly(j) /\ UNCHANGED store

\* The results, then the countries and the promotion of the tested nodes are
\* written to the configuration and the store.
TestPhase(j) ==
    /\ j \in Ids /\ jobs[j].live = "go" /\ jobs[j].kind = "test" /\ jobs[j].pc \in DOMAIN After
    /\ \/ jobs[j].ctx /\ TestEnd(j, "canceled")
       \/ /\ ~jobs[j].ctx
          /\ jobs' = Put(j, [jobs[j] EXCEPT !.pc = After[jobs[j].pc]])
          /\ pool' = Tested(j) /\ UNCHANGED stages
       \/ ~jobs[j].ctx /\ TestEnd(j, "finished")
    /\ UNCHANGED <<calls, revs, applier, work, reason, closing, closed>>

\* The reload and its verification: back to the snapshot when they fail, as
\* they do once the job is cancelled.
TestReload(j) ==
    /\ Going(j, "reload")
    /\ \/ ~jobs[j].ctx /\ jobs' = Finish(j, "finished") /\ UNCHANGED store
       \/ TestEnd(j, "finished")
    /\ UNCHANGED <<calls, revs, applier, work, reason, closing, closed>>

-----------------------------------------------------------------------------
(* Waiting for a job one owns: waitImportJob, waitTestJob.                 *)

Orderly == \A j \in Ids : "overwritten" \notin jobs[j].odd

Ended(c) == jobs[c].status # "running"

\* The owner is cancelled or has waited too long: it cancels the job.
StopChild(c) ==
    /\ jobs[c].status = "running"
    /\ cancels' = cancels \cup {c}

\* Its cancel made, the owner waits again, for a while, and then gives it up.
Stopped(c) == c \notin cancels
Abandoned(js, c) ==
    IF js[c].status = "running" THEN [js EXCEPT ![c] = [js[c] EXCEPT !.odd = @ \cup {"abandoned"}]] ELSE js
Bad(c)     == jobs[c].pc = "refused" \/ jobs[c].status = "canceled" \/ jobs[c].note = "error"

(* The works of a refresh, each in a goroutine.                            *)

Working(w, pc) == w \in DOMAIN work /\ work[w].pc = pc /\ \E j \in Ids : Going(j, "queue")
Move(w, pc)    == [work EXCEPT ![w].pc = pc]
Row(w, row)    == [work EXCEPT ![w].pc = "done", ![w].row = row]

\* protectRefreshRow: the first reason stays, whatever comes later.
Protects(why) == reason' = IF reason = "none" THEN why ELSE reason

\* The queue starts no work once the refresh is cancelled.
WorkStart(w) ==
    /\ Working(w, "idle") /\ ~jobs[Refresh].ctx
    /\ work' = Move(w, IF w.kind = "url" THEN "fetch" ELSE "retest")
    /\ UNCHANGED <<jobs, calls, store, revs, applier, reason, closing, closed>>

\* The download: stopped, failed, failed with saved nodes to test instead,
\* or parsed and staged with the revision of the refresh.
WorkFetch(w) ==
    /\ Working(w, "fetch")
    /\ \/ jobs[Refresh].ctx /\ work' = Row(w, "canceled") /\ UNCHANGED <<stages, readers>>
       \/ ~jobs[Refresh].ctx /\ work' = Row(w, "failed") /\ UNCHANGED <<stages, readers>>
       \/ ~jobs[Refresh].ctx /\ work' = Move(w, "retest") /\ UNCHANGED <<stages, readers>>
       \/ /\ Len(stages) < MaxStages
          /\ stages' = Append(stages, [tag |-> w.tag, rev |-> jobs[Refresh].rev[w.tag], by |-> "work", st |-> "parsed"])
          /\ readers' = Append(readers, 0)
          /\ work' = [work EXCEPT ![w].pc = "commit", ![w].stage = Len(stages) + 1]
    /\ UNCHANGED <<jobs, starting, parse, cancels, asked, pool, revs, applier, reason, closing, closed>>

\* Commit of the staged nodes, refused when they are gone.
WorkCommit(w) ==
    /\ Working(w, "commit")
    /\ LET s == work[w].stage IN
       \/ /\ stages[s].st = "parsed"
          /\ stages' = Staged(s, "testing")
          /\ Store(NewJob("import", Refresh, s))
          /\ work' = [work EXCEPT ![w].pc = "wait", ![w].child = Len(jobs) + 1]
          /\ UNCHANGED reason
       \/ /\ stages[s].st # "parsed" \/ Len(jobs) = MaxJobs
          /\ stages' = Drop(s) /\ work' = Row(w, "failed") /\ Protects("kept") /\ UNCHANGED jobs
    /\ UNCHANGED <<calls, pool, revs, applier, closing, closed>>

\* The test of saved nodes; it is not held up by the refresh that owns it.
WorkRetest(w) ==
    /\ Working(w, "retest")
    /\ \/ /\ starting = 0
          /\ Store([NewJob("test", Refresh, 0) EXCEPT !.rev = Marks({w.tag})])
          /\ starting' = Len(jobs) + 1
          /\ work' = [work EXCEPT ![w].pc = "watch", ![w].child = Len(jobs) + 1]
       \/ work' = Row(w, "failed") /\ UNCHANGED <<jobs, starting>>
    /\ UNCHANGED <<readers, parse, cancels, asked, store, revs, applier, reason, closing, closed>>

\* The staged nodes have been tested, or their test came to nothing.
WorkTested(w) ==
    /\ Working(w, "wait")
    /\ LET c == work[w].child  s == work[w].stage IN
       /\ Ended(c)
       /\ \/ Bad(c) /\ stages' = Drop(s) /\ work' = Row(w, "failed") /\ Protects("kept")
          \/ ~Bad(c) /\ jobs[c].note = "passed" /\ work' = Move(w, "lock") /\ UNCHANGED <<stages, reason>>
          \/ /\ ~Bad(c) /\ jobs[c].note # "passed"
             /\ stages' = Drop(s) /\ UNCHANGED reason
             /\ work' \in {Move(w, "retest"), Row(w, "completed")}
    /\ UNCHANGED <<jobs, calls, pool, revs, applier, closing, closed>>

\* The test of the saved nodes has ended.
WorkWatched(w) ==
    /\ Working(w, "watch")
    /\ LET c == work[w].child IN
       /\ Ended(c)
       /\ \/ jobs[c].pc = "refused" /\ work' = Row(w, "failed") /\ UNCHANGED reason
          \/ /\ jobs[c].pc # "refused" /\ jobs[c].status = "finished"
             /\ work' = Row(w, "completed")
             /\ UNCHANGED reason \/ Protects("kept")
          \/ /\ jobs[c].pc # "refused" /\ jobs[c].status # "finished"
             /\ work' = Row(w, "failed") /\ Protects("kept")
    /\ UNCHANGED <<jobs, calls, store, revs, applier, closing, closed>>

\* The wait ends early, when the refresh is cancelled or after two hours.
WorkStop(w) ==
    /\ Working(w, "wait") \/ Working(w, "watch")
    /\ StopChild(work[w].child)
    /\ work' = Move(w, "stop")
    /\ UNCHANGED <<jobs, starting, readers, parse, asked, store, revs, applier, reason, closing, closed>>

\* The job stopped, or did not within thirty seconds.
WorkStopped(w) ==
    /\ Working(w, "stop")
    /\ LET c == work[w].child IN
       /\ Stopped(c)
       /\ jobs' = Abandoned(jobs, c)
    /\ stages' = IF work[w].stage = 0 THEN stages ELSE Drop(work[w].stage)
    /\ work' = Row(w, "failed")
    /\ Protects("kept")
    /\ UNCHANGED <<calls, pool, revs, applier, closing, closed>>

\* No look at the revision.
WorkLockAny(w) ==
    /\ Working(w, "lock") /\ applier = 0
    /\ applier' = Refresh
    /\ work' = Move(w, "apply")
    /\ UNCHANGED <<jobs, calls, stages, pool, revs, reason, closing, closed>>

WorkLock(w) ==
    /\ Working(w, "lock") /\ applier = 0
    /\ LET s == work[w].stage IN
       \/ /\ Applicable(s, stages[s].rev)
          /\ applier' = Refresh
          /\ work' = Move(w, "apply") /\ UNCHANGED <<stages, reason>>
       \/ /\ ~Applicable(s, stages[s].rev)
          /\ applier' = applier
          /\ work' = Row(w, "failed") /\ stages' = Drop(s) /\ Protects("kept")
    /\ UNCHANGED <<jobs, calls, pool, revs, closing, closed>>

\* A failure has been taken back, or taking it back failed too.
WorkApply(w) ==
    /\ Working(w, "apply")
    /\ LET s == work[w].stage IN
       \/ ~jobs[Refresh].ctx /\ Publish(s, stages[s].rev) /\ work' = Row(w, "completed") /\ UNCHANGED reason
       \/ /\ stages' = Drop(s) /\ work' = Row(w, "failed") /\ UNCHANGED pool
          /\ \E why \in {"kept", "broken"} : Protects(why)
    /\ applier' = 0
    /\ UNCHANGED <<jobs, calls, revs, closing, closed>>

-----------------------------------------------------------------------------
(* The goroutine of a refresh: runRefreshJobWithPolicy.                    *)

Children(j)   == {c \in Ids : jobs[c].owner = j}
RowsOf(row)   == {w \in DOMAIN work : work[w].row = row}
QueueOver(j)  == \A w \in DOMAIN work : work[w].pc = "done" \/ (jobs[j].ctx /\ work[w].pc = "idle")

\* The queue returns on a cancel without waiting for its workers.
QueueEndAtOnce(j) ==
    /\ Going(j, "queue") /\ (jobs[j].ctx \/ QueueOver(j))
    /\ \/ ~jobs[j].ctx /\ jobs' = At(j, "verify") /\ UNCHANGED store
       \/ jobs[j].ctx /\ jobs' = Put(j, [jobs[j] EXCEPT !.pc = "final", !.note = "restored"]) /\ Restore(jobs[j].snap)
    /\ UNCHANGED <<calls, revs, applier, work, reason, closing, closed>>

\* All works have ended, or none is running after a cancel: then everything
\* goes back to the snapshot.
QueueEnd(j) ==
    /\ Going(j, "queue") /\ QueueOver(j)
    /\ \/ ~jobs[j].ctx /\ jobs' = At(j, "verify") /\ UNCHANGED store
       \/ jobs[j].ctx /\ jobs' = Put(j, [jobs[j] EXCEPT !.pc = "final", !.note = "restored"]) /\ Restore(jobs[j].snap)
       \/ jobs[j].ctx /\ jobs' = Put(j, [jobs[j] EXCEPT !.pc = "exit", !.status = "failed"]) /\ UNCHANGED store
    /\ UNCHANGED <<calls, revs, applier, work, reason, closing, closed>>

\* The staged nodes are deleted and the pool is compared with the runtime,
\* unless a rollback failed or the refresh is cancelled by now.
RefreshVerify(j) ==
    /\ Going(j, "verify")
    /\ \/ /\ jobs[j].ctx \/ reason = "broken"
          /\ jobs' = At(j, "final") /\ UNCHANGED store
       \/ /\ ~jobs[j].ctx /\ reason # "broken"
          /\ jobs' = At(j, "final")
          /\ stages' = DropAll /\ UNCHANGED pool
       \/ /\ ~jobs[j].ctx /\ reason # "broken"
          /\ jobs' = Put(j, [jobs[j] EXCEPT !.pc = "exit", !.status = "failed"])
          /\ Restore(jobs[j].snap) \/ UNCHANGED store
    /\ UNCHANGED <<calls, revs, applier, work, reason, closing, closed>>

\* The last status.  A cancel decides it whenever it came.
RefreshStatus(j) ==
    CASE jobs[j].ctx                      -> "canceled"
      [] ~jobs[j].ctx /\ reason = "broken" -> "failed"
      [] ~jobs[j].ctx /\ reason = "kept"   -> "finished"
      [] OTHER -> IF RowsOf("completed") = {} THEN "failed" ELSE "finished"

RefreshFinal(j) ==
    /\ Going(j, "final")
    /\ jobs' = Put(j, [jobs[j] EXCEPT !.pc = "exit", !.status = RefreshStatus(j)])
    /\ UNCHANGED <<calls, store, revs, applier, work, reason, closing, closed>>

\* The deferred calls, after the status: all staged nodes, of whatever job,
\* are deleted.
RefreshExit(j) ==
    /\ Going(j, "exit") /\ jobs[j].kind = "refresh"
    /\ jobs' = Put(j, Over(jobs[j]))
    /\ stages' = DropAll
    /\ UNCHANGED <<calls, pool, revs, applier, work, reason, closing, closed>>

-----------------------------------------------------------------------------
(* The goroutine of a binding: runTagBindingJob.  Its tags still to do are *)
(* those marked in rev, note is "good" or "bad" once a tag ended so, both  *)
(* when two tags ended differently.                                        *)

Todo(j)       == {t \in Tags : jobs[j].rev[t] = 1}
Noted(j, n)   == IF jobs[j].note \in {"none", n} THEN n ELSE "both"

\* An item is done; with the last one the job has its status.
Item(j, n) ==
    LET rest == IF jobs[j].stage = 0 THEN jobs[j].rev
                ELSE [jobs[j].rev EXCEPT ![stages[jobs[j].stage].tag] = 0]
        last == rest = Marks({})
    IN  Put(j, [jobs[j] EXCEPT !.rev = rest, !.note = Noted(j, n), !.stage = 0,
                     !.pc = IF last THEN "exit" ELSE "next",
                     !.status = IF ~last THEN "running"
                                   ELSE IF Noted(j, n) = "bad" THEN "failed" ELSE "finished"])

BindingCanceled(j) == Put(j, [jobs[j] EXCEPT !.pc = "exit", !.status = "canceled"])

\* The next tag: staged as an import with a new revision, skipped or failed.
BindingNext(j) ==
    /\ Going(j, "next")
    /\ \/ jobs[j].ctx /\ jobs' = BindingCanceled(j) /\ UNCHANGED <<stages, readers, revs>>
       \/ /\ ~jobs[j].ctx /\ Len(stages) < MaxStages
          /\ \E t \in Todo(j) :
                /\ revs' = [revs EXCEPT ![t] = @ + 1]
                /\ stages' = Append(stages, [tag |-> t, rev |-> revs[t] + 1, by |-> "binding", st |-> "parsed"])
          /\ readers' = Append(readers, 0)
          /\ jobs' = Put(j, [jobs[j] EXCEPT !.pc = "commit", !.stage = Len(stages) + 1])
       \/ /\ ~jobs[j].ctx
          /\ \E t \in Todo(j), n \in {"good", "bad"} :
                LET rest == [jobs[j].rev EXCEPT ![t] = 0] IN
                jobs' = Put(j, [jobs[j] EXCEPT !.rev = rest, !.note = Noted(j, n),
                                     !.pc = IF rest = Marks({}) THEN "exit" ELSE "next",
                                     !.status = IF rest # Marks({}) THEN "running"
                                                   ELSE IF Noted(j, n) = "bad" THEN "failed" ELSE "finished"])
          /\ UNCHANGED <<stages, readers, revs>>
    /\ UNCHANGED <<starting, parse, cancels, asked, pool, applier, work, reason, closing, closed>>

BindingCommit(j) ==
    /\ Going(j, "commit")
    /\ LET s == jobs[j].stage IN
       \/ /\ stages[s].st = "parsed" /\ Len(jobs) < MaxJobs
          /\ stages' = Staged(s, "testing")
          /\ jobs' = Append(At(j, "wait"), NewJob("import", j, s))
       \/ /\ stages[s].st # "parsed" \/ Len(jobs) = MaxJobs
          /\ jobs' = Item(j, "bad") /\ stages' = Drop(s)
    /\ UNCHANGED <<calls, pool, revs, applier, work, reason, closing, closed>>

Child(j) == CHOOSE c \in Children(j) : jobs[c].stage = jobs[j].stage

BindingTested(j) ==
    /\ Going(j, "wait") /\ jobs[j].kind = "binding"
    /\ LET c == Child(j)  good == jobs[c].status = "finished" /\ jobs[c].note = "passed" IN
       /\ Ended(c)
       /\ jobs' = IF ~good /\ jobs[c].status = "canceled" /\ jobs[j].ctx THEN BindingCanceled(j)
                  ELSE Item(j, IF good THEN "good" ELSE "bad")
       /\ stages' = IF good THEN stages ELSE Drop(jobs[j].stage)
    /\ UNCHANGED <<calls, pool, revs, applier, work, reason, closing, closed>>

BindingStop(j) ==
    /\ Going(j, "wait") /\ jobs[j].kind = "binding"
    /\ StopChild(Child(j))
    /\ jobs' = At(j, "stop")
    /\ UNCHANGED <<starting, readers, parse, asked, store, revs, applier, work, reason, closing, closed>>

BindingStopped(j) ==
    /\ Going(j, "stop")
    /\ LET c == Child(j)
           next == IF jobs[j].ctx THEN BindingCanceled(j) ELSE Item(j, "bad") IN
       /\ Stopped(c)
       /\ jobs' = Abandoned(next, c)
    /\ stages' = Drop(jobs[j].stage)
    /\ UNCHANGED <<calls, pool, revs, applier, work, reason, closing, closed>>

-----------------------------------------------------------------------------

Init ==
    /\ jobs = <<>> /\ stages = <<>> /\ readers = <<>>
    /\ starting = 0 /\ parse = NoParse /\ cancels = {} /\ asked = 0
    /\ \E P \in SUBSET Tags :
          /\ pool = [t \in Tags |-> [rev |-> IF t \in P THEN 1 ELSE 0, test |-> 0]]
          /\ revs = [t \in Tags |-> 1]
    /\ applier = 0 /\ menu \in Menus
    /\ work = <<>> /\ reason = "none"
    /\ closing = FALSE /\ closed = FALSE

\* The steps of the goroutine of job j; those of a refresh are its works' too.
Step(j) ==
    \/ ImportProbe(j) \/ ImportSaved(j) \/ ImportLock(j) \/ ImportApply(j) \/ ImportWrite(j)
    \/ TestBegin(j) \/ TestPhase(j) \/ TestReload(j)
    \/ QueueEnd(j) \/ RefreshVerify(j) \/ RefreshFinal(j) \/ RefreshExit(j)
    \/ BindingNext(j) \/ BindingCommit(j) \/ BindingTested(j) \/ BindingStop(j) \/ BindingStopped(j)
    \/ Exit(j)

WorkStep(w) ==
    \/ WorkStart(w) \/ WorkFetch(w) \/ WorkCommit(w) \/ WorkRetest(w) \/ WorkTested(w)
    \/ WorkWatched(w) \/ WorkStop(w) \/ WorkStopped(w) \/ WorkLock(w) \/ WorkApply(w)

Next == UNCHANGED menu /\
   (\/ StartRefresh \/ StartBatchTest \/ StartTagBinding
    \/ ParseRevise \/ ParseStore \/ CloseBegin \/ CloseEnd
    \/ \E t \in Tags : ParseBegin(t)
    \/ \E s \in DOMAIN stages : CommitRead(s) \/ CommitStore(s)
    \/ \E j \in Ids : Launch(j) \/ Cancel(j) \/ CancelAct(j) \/ Step(j)
    \/ \E w \in DOMAIN work : WorkStep(w))

\* Calls return, tests and downloads end, the lock is handed on: every
\* goroutine goes on.  Nobody has to start, cancel or close anything.
Runs(A) == A /\ UNCHANGED menu
Fairness ==
    /\ \A j \in 1..MaxJobs : WF_vars(Runs(j \in Ids /\ (Launch(j) \/ Step(j))))
    /\ \A j \in 1..MaxJobs : WF_vars(Runs(j \in Ids /\ CancelAct(j)))
    /\ \A w \in Works : WF_vars(Runs(w \in DOMAIN work /\ WorkStep(w)))
    /\ WF_vars(Runs(CloseEnd))

Spec == Init /\ [][Next]_vars
FairSpec == Spec /\ Fairness

-----------------------------------------------------------------------------

TypeOK ==
    /\ \A j \in Ids :
         /\ jobs[j].kind \in Kinds /\ jobs[j].status \in Statuses
         /\ jobs[j].live \in {"stored", "go", "done"} /\ jobs[j].owner \in 0..j-1
         /\ jobs[j].stage \in 0..Len(stages) /\ jobs[j].reg \in BOOLEAN /\ jobs[j].ctx \in BOOLEAN
    /\ \A s \in DOMAIN stages : stages[s].st \in StageSt /\ stages[s].tag \in Tags
    /\ starting \in 0..Len(jobs) /\ applier \in 0..Len(jobs) /\ cancels \subseteq Ids
    /\ DOMAIN pool = Tags /\ DOMAIN revs = Tags /\ DOMAIN work \subseteq Works
    /\ reason \in {"none", "kept", "broken"}

\* At most one refresh or test of the user's is running, and no other test
\* beside a refresh (the comment of StartBatchTest): admission reads the jobs
\* with the same lock with which it stores them.
OneTester ==
    \A j, k \in Ids : /\ jobs[j].status = "running" /\ jobs[j].kind \in {"refresh", "test"} /\ Top(j)
                      /\ jobs[k].status = "running" /\ jobs[k].kind \in {"refresh", "test"} /\ Top(k)
                      => j = k

\* When Close has returned no goroutine of the service runs, none can start,
\* and no job is left running, but an import whose last write was lost.
CloseWaits ==
    closed => \A j \in Ids :
        /\ jobs[j].live # "go"
        /\ jobs[j].live = "done" /\ jobs[j].status = "running" => "unsaved" \in jobs[j].odd

\* A refresh that goes on to settle the pool has none of its own jobs still
\* at it, but one it gave up or one declared canceled before it began.
ChildrenFirst ==
    \A j \in Ids : jobs[j].kind = "refresh" /\ jobs[j].pc \in {"verify", "final", "exit", "over"} =>
        \A c \in Children(j) : jobs[c].live = "go" /\ jobs[c].pc # "exit" => jobs[c].odd # {}

\* Whoever is between taking and releasing applyMu holds it, and nobody else.
OneApplier ==
    LET Applying(j) == \/ jobs[j].live = "go" /\ jobs[j].pc = "apply"
                       \/ /\ jobs[j].live = "go" /\ jobs[j].kind = "test"
                          /\ jobs[j].pc \in {"results", "country", "reload", "exit"}
                       \/ /\ jobs[j].kind = "refresh" /\ jobs[j].pc = "queue"
                          /\ \E w \in DOMAIN work : work[w].pc = "apply"
    IN  \A j \in Ids : Applying(j) <=> applier = j

\* Jobs run in turn: one tester, one at a time between taking and releasing
\* applyMu, none after Close.
RunsInTurn == TypeOK /\ OneTester /\ OneApplier /\ CloseWaits

\* What job j has brought to the pool, itself or by a job of its own; what an
\* import brings, a second commit of the same stage may bring too.
Trace(j) ==
    \/ \E t \in Tags : pool[t].test \in Children(j) \cup {j}
    \/ jobs[j].kind = "refresh" /\ \E t \in Tags : jobs[j].rev[t] # 0 /\ pool[t].rev = jobs[j].rev[t]
    \/ /\ jobs[j].kind = "import"
       /\ \A k \in Ids \ {j} : jobs[k].stage # jobs[j].stage
       /\ pool[stages[jobs[j].stage].tag].rev = stages[jobs[j].stage].rev

\* An import or a test of the user's that its goroutine ended as canceled has
\* left nothing in the pool, and neither has a refresh that saw the cancel
\* when its queue ended: either nothing was written or all was taken back.
CanceledLeavesNothing ==
    \A j \in Ids :
        /\ jobs[j].live = "done" /\ Top(j)
        /\ \/ jobs[j].end = "canceled"
           \/ jobs[j].kind = "refresh" /\ jobs[j].note = "restored"
        /\ \A c \in Ids : jobs[c].odd = {}
        => ~Trace(j)

\* Nodes are applied only over an older revision, so a slow import cannot
\* overwrite a newer one (TestStaleRefreshAttemptCannotOverwriteNewerTagRevision):
\* only a restore, which does not release applyMu, goes back.
NewestWins ==
    [][\A t \in Tags : applier # 0 /\ applier' = 0 => pool'[t].rev >= pool[t].rev]_vars

\* What a test takes back is its own: the restore of a cancelled or failed
\* test undoes no import that was published in the meantime.
TestKeepsImports ==
    [][\A j \in Ids : jobs[j].kind = "test" /\ jobs[j].pc # "exit" /\ jobs'[j].pc = "exit" /\ Orderly =>
          \A t \in Tags : pool'[t].rev = pool[t].rev]_vars

\* A published import stands until a newer one replaces it.
ImportsStand == NewestWins /\ TestKeepsImports

\* Every goroutine ends, whatever it waits for: a lock, a job of its own, the
\* start of another one.
EveryJobEnds == \A j \in 1..MaxJobs : (j \in Ids /\ jobs[j].live = "go") ~> (j \in Ids /\ jobs[j].live = "done")

\* Close returns.
CloseReturns == closing ~> closed

\* Nothing waits for ever, Close included.
AllEnds == EveryJobEnds /\ CloseReturns
=============================================================================
