------------------------ MODULE ImporterJobsProofs ------------------------
(***************************************************************************)
(* Theorems about ImporterJobs for any tags, works, bounds and numbers of  *)
(* jobs: its types, that jobs run in turn, that a refresh waits for its    *)
(* jobs, that a published import stands, and that a cancelled job leaves   *)
(* nothing in the pool.                                                    *)
(*                                                                         *)
(* No property of the module is inductive, and with some forty actions a   *)
(* proof per action and property would be long.  So the steps are first    *)
(* described by what they may do, whichever they are: to a job (Kept,      *)
(* JobsGoOn; Stored, AddedJob for one that is new), to the stages (Stands, *)
(* StagesStand), to the works (WorkMoves, WorkGoesOn) and to the pool      *)
(* (PoolMoves, PoolGoesOn).  The parts of the invariant IInv are then      *)
(* preserved by these descriptions, and by the few actions a part is about.*)
(***************************************************************************)
EXTENDS ImporterJobs, TLAPS

-----------------------------------------------------------------------------
(* The types of the records, and what goes together in a job's.            *)

Pcs == {"new", "exit", "over", "refused", "queue", "verify", "final", "probe", "results",
        "country", "reload", "saved", "lock", "apply", "write", "next", "commit", "wait", "stop"}
Notes == {"none", "error", "passed", "failed", "gone", "restored", "good", "bad", "both"}
Pools == [Tags -> [rev : Nat, test : Nat]]
Snaps == [pool : Pools \cup {<<>>}, st : Seq(StageSt)]
Odds == {"overwritten", "unsaved", "abandoned", "unrestored"}
Ends3 == {"finished", "failed", "canceled"}
JobType ==
    [kind : Kinds, status : Statuses, live : {"stored", "go", "done"}, reg : BOOLEAN, ctx : BOOLEAN,
     pc : Pcs, owner : Nat, stage : Nat, rev : [Tags -> Nat], snap : Snaps,
     end : {"none"} \cup Ends3, note : Notes,
     odd : SUBSET Odds]
StageType == [tag : Tags, rev : Nat, by : {"user", "work", "binding"}, st : StageSt]
WorkType ==
    [pc : {"idle", "fetch", "commit", "wait", "retest", "watch", "stop", "lock", "apply", "done"},
     child : Nat, stage : Nat, row : {"waiting", "canceled", "failed", "completed"}]
ParseType == [pc : {"idle", "checked", "fetching"}, tag : Tags \cup {NoParse.tag}, rev : Nat]

\* What a job can go back to: a refresh until it is over, a test of the user's
\* from its first result to its end.
Holds(job) ==
    \/ job.kind = "refresh" /\ job.pc # "over"
    \/ job.kind = "test" /\ job.owner = 0 /\ job.pc \in {"results", "country", "reload"}

\* Where a job's goroutine is, and what its record says by then.
Ending == {"exit", "over", "refused"}
Shape(job) ==
    /\ job.kind = "refresh" => job.pc \in {"new", "queue", "verify", "final"} \cup Ending
    /\ job.kind = "test"    => job.pc \in {"new", "probe", "results", "country", "reload"} \cup Ending
    /\ job.kind = "import"  => job.pc \in {"new", "probe", "saved", "lock", "apply", "write"} \cup Ending
    /\ job.kind = "binding" => job.pc \in {"new", "next", "commit", "wait", "stop"} \cup Ending
    /\ job.live = "stored" <=> job.pc = "new"
    /\ job.live = "done" <=> job.pc \in {"over", "refused"}
    /\ job.reg <=> job.live = "go"
    /\ job.ctx => job.reg
    /\ job.kind \in {"refresh", "binding"} => job.owner = 0 /\ (job.status = "running" <=> job.pc \notin Ending)
    /\ job.status = "running" => job.pc \notin Ending \/ "unsaved" \in job.odd
    /\ job.status # "running" => job.pc \in Ending \/ "overwritten" \in job.odd
    /\ job.kind # "import" => "unsaved" \notin job.odd
    /\ job.kind = "import" /\ job.pc \in {"write", "exit", "over"} => job.end # "none"
    /\ job.pc \notin {"write", "exit", "over"} => job.end = "none"
    /\ job.end # "none" => job.kind \in {"import", "test"}
    /\ job.note = "restored" => job.kind = "refresh" /\ job.pc \in {"final", "exit", "over"}
    /\ Holds(job) => job.snap.pool \in Pools

Types ==
    /\ jobs \in Seq(JobType) /\ stages \in Seq(StageType) /\ readers \in Seq(Nat)
    /\ Len(readers) = Len(stages)
    /\ pool \in Pools /\ revs \in [Tags -> Nat]
    /\ work \in [DOMAIN work -> WorkType] /\ DOMAIN work \subseteq Works
    /\ parse \in ParseType /\ (parse.pc # "idle" => parse.tag \in Tags)
    /\ starting \in Nat /\ starting <= Len(jobs) /\ applier \in Nat /\ applier <= Len(jobs)
    /\ cancels \subseteq Ids
    /\ reason \in {"none", "kept", "broken"} /\ closing \in BOOLEAN /\ closed \in BOOLEAN

\* The jobs and stages that jobs and works name exist.
Linked ==
    /\ \A j \in Ids :
        /\ jobs[j].owner < j /\ jobs[j].stage <= Len(stages)
        /\ jobs[j].kind = "import" \/ jobs[j].pc \in {"commit", "wait", "stop"} => jobs[j].stage # 0
    /\ \A w \in DOMAIN work :
        /\ work[w].child <= Len(jobs) /\ work[w].stage <= Len(stages)
        /\ work[w].pc \in {"commit", "wait", "lock", "apply"} => work[w].stage # 0
        /\ work[w].pc \in {"wait", "watch", "stop"} => work[w].child # 0

\* Every job has its shape.
Shapes == \A j \in Ids : Shape(jobs[j])

-----------------------------------------------------------------------------
(* What a step may do to a job.                                            *)

\* A sequence with one element changed.
LEMMA Changed ==
    ASSUME NEW S, NEW s \in Seq(S), NEW i \in 1..Len(s), NEW x \in S
    PROVE  /\ [s EXCEPT ![i] = x] \in Seq(S)
           /\ Len([s EXCEPT ![i] = x]) = Len(s)
           /\ \A k \in 1..Len(s) : [s EXCEPT ![i] = x][k] = IF k = i THEN x ELSE s[k]
  OBVIOUS

\* The jobs with one of them replaced.
LEMMA PutFacts ==
    ASSUME jobs \in Seq(JobType), NEW j \in Ids, NEW r \in JobType
    PROVE  /\ Put(j, r) \in Seq(JobType)
           /\ Len(Put(j, r)) = Len(jobs)
           /\ \A k \in Ids : Put(j, r)[k] = IF k = j THEN r ELSE jobs[k]
  BY Changed DEF Put, Ids

\* What the steps change of a job and of a stage.
LEMMA StageFact ==
    ASSUME NEW stage \in StageType, NEW st \in StageSt
    PROVE  /\ [stage EXCEPT !.st = st] \in StageType
           /\ [stage EXCEPT !.st = st].tag = stage.tag
           /\ [stage EXCEPT !.st = st].rev = stage.rev
           /\ [stage EXCEPT !.st = st].by = stage.by
           /\ [stage EXCEPT !.st = st].st = st
  BY DEF StageType

\* The steps that stage for a binding, take or release applyMu, end the queue.
Committing == \E j \in Ids : BindingCommit(j)
Switching  == \E j \in Ids : ImportLock(j) \/ ImportApply(j) \/ TestBegin(j) \/ Exit(j)
Leaving    == \E j \in Ids : QueueEnd(j)

\* A goroutine of its own between taking and releasing applyMu.
InHand(job) ==
    job.live = "go" /\ \/ job.pc = "apply"
                       \/ job.kind = "test" /\ job.pc \in {"results", "country", "reload", "exit"}

\* What a step may change of a job.
Kept(old, new) ==
    /\ new \in JobType /\ Shape(new)
    /\ new.kind = old.kind /\ new.owner = old.owner
    /\ old.kind # "binding" => new.stage = old.stage /\ new.rev = old.rev
    /\ old.odd \subseteq new.odd
    /\ new.status = "running" => old.status = "running"
    /\ new.pc \in {"new", "probe", "queue"} => old.pc \in {"new", new.pc}
    /\ old.pc \in {"write", "exit", "over"} => new.pc \in {"write", "exit", "over"}
    /\ old.end # "none" => new.end = old.end
    /\ old.note = "restored" => new.note = "restored"
    /\ new.live = "go" => old.live = "go" \/ (old.pc = "new" /\ ~closing)
    /\ \/ new.stage = old.stage
       \/ new.stage = 0 /\ new.pc \in {"next", "exit"}
       \/ new.stage = Len(stages) + 1 /\ Len(stages') = Len(stages) + 1 /\ new.pc = "commit"
    /\ new.pc = "commit" => old.pc = "commit" \/ new.stage # 0
    /\ new.pc \in {"wait", "stop"} => old.pc \in {"commit", "wait", "stop"} /\ new.stage = old.stage
    /\ old.pc = "commit" /\ new.pc \in {"wait", "stop"} => Committing
    /\ (InHand(new) <=> InHand(old)) \/ Switching
    /\ old.pc = "queue" /\ new.pc # "queue" => Leaving
    /\ new.pc \in {"results", "country", "reload"} => old.pc \in {"probe", "results", "country", "reload"}
    /\ new.pc = "refused" => old.pc \in {"new", "refused"}
    /\ Holds(new) => \/ Holds(old) /\ new.snap = old.snap
                     \/ new.snap.pool = pool /\ old.kind = "test" /\ old.pc = "probe" /\ old.owner = 0 /\ applier = 0
    /\ new.pc \in {"lock", "apply"} => old.pc \in {"lock", "apply"} \/ stages[old.stage].by # "work"
    /\ new.kind = "test" /\ new.end = "canceled" =>
          \/ old.end = "canceled"
          \/ old.pc = "probe" /\ pool' = pool
          \/ old.pc \in {"results", "country", "reload"} /\ (old.owner = 0 => pool' = old.snap.pool)
    /\ new.note = "restored" => old.note = "restored" \/ (old.pc = "queue" /\ pool' = old.snap.pool)

\* A launch that is refused, as the service closes.
LEMMA RefusedKept ==
    ASSUME NEW job \in JobType, Shape(job),
           job.pc = "new", NEW st \in Statuses \ {"running"}
    PROVE  Kept(job, [job EXCEPT !.live = "done", !.pc = "refused", !.status = st])
<1> USE DEF InHand, JobType, Shape, Holds, Ending, Pcs, Kinds, Statuses, Ends3, Odds, Notes
<1>1. [job EXCEPT !.live = "done", !.pc = "refused", !.status = st] \in JobType
  OBVIOUS
<1> QED BY <1>1 DEF Kept

\* A launch.
LEMMA LaunchedKept ==
    ASSUME NEW job \in JobType, Shape(job),
           job.pc = "new", ~closing, NEW pc \in {"queue", "probe", "next"},
           job.kind = "refresh" <=> pc = "queue", job.kind = "binding" <=> pc = "next"
    PROVE  Kept(job, [job EXCEPT !.live = "go", !.reg = TRUE, !.pc = pc])
<1> USE DEF InHand, JobType, Shape, Holds, Ending, Pcs, Kinds, Statuses, Ends3, Odds, Notes
<1>1. [job EXCEPT !.live = "go", !.reg = TRUE, !.pc = pc] \in JobType
  OBVIOUS
<1> QED BY <1>1 DEF Kept

\* A cancel that reaches a goroutine.
LEMMA CanceledKept ==
    ASSUME NEW job \in JobType, Shape(job),
           job.reg
    PROVE  Kept(job, [job EXCEPT !.ctx = TRUE])
<1> USE DEF InHand, JobType, Shape, Holds, Ending, Pcs, Kinds, Statuses, Ends3, Odds, Notes
<1> DEFINE new == [job EXCEPT !.ctx = TRUE]
<1>1. /\ new \in JobType /\ new.reg = job.reg
      /\ new.kind = job.kind /\ new.owner = job.owner /\ new.stage = job.stage /\ new.rev = job.rev
      /\ new.odd = job.odd /\ new.status = job.status /\ new.pc = job.pc /\ new.snap = job.snap
      /\ new.live = job.live /\ new.end = job.end /\ new.note = job.note
  OBVIOUS
<1> HIDE DEF new
<1>2. Shape(new)
  BY <1>1
<1>3. Holds(new) => Holds(job) /\ new.snap = job.snap
  BY <1>1
<1>a. InHand(new) <=> InHand(job)
  BY <1>1
<1> HIDE DEF JobType, Shape, Holds, InHand
<1>4. Kept(job, new)
  BY <1>1, <1>2, <1>3, <1>a DEF Kept
<1> QED BY <1>4 DEF new

\* A cancel that finds no goroutine.
LEMMA OverwrittenKept ==
    ASSUME NEW job \in JobType, Shape(job),
           job.kind \in {"import", "test"}, ~job.reg
    PROVE  Kept(job, [job EXCEPT !.status = "canceled", !.odd = @ \cup {"overwritten"}])
<1> USE DEF InHand, JobType, Shape, Holds, Ending, Pcs, Kinds, Statuses, Ends3, Odds, Notes
<1>1. [job EXCEPT !.status = "canceled", !.odd = @ \cup {"overwritten"}] \in JobType
  OBVIOUS
<1> QED BY <1>1 DEF Kept

\* An owner that has waited long enough.
LEMMA AbandonedKept ==
    ASSUME NEW job \in JobType, Shape(job)
    PROVE  Kept(job, [job EXCEPT !.odd = @ \cup {"abandoned"}])
<1> USE DEF InHand, JobType, Shape, Holds, Ending, Pcs, Kinds, Statuses, Ends3, Odds, Notes
<1>1. [job EXCEPT !.odd = @ \cup {"abandoned"}] \in JobType
  OBVIOUS
<1> QED BY <1>1 DEF Kept

\* The end of a goroutine.
LEMMA OverExitKept ==
    ASSUME NEW job \in JobType, Shape(job),
           job.pc = "exit", job.kind = "test" => Switching
    PROVE  Kept(job, Over(job))
<1> USE DEF InHand, JobType, Shape, Holds, Ending, Pcs, Kinds, Statuses, Ends3, Odds, Notes
<1>0. NoSnap \in Snaps
  BY DEF NoSnap, Snaps
<1>1. Over(job) \in JobType
  BY <1>0 DEF Over
<1> QED BY <1>1 DEF Kept, Over

\* An import that comes to its last status, by any way.
LEMMA ImportEndsKept ==
    ASSUME NEW job \in JobType, Shape(job),
           job.pc \in {"probe", "saved", "lock", "apply"}, job.kind = "import", NEW end \in Ends3,
           job.pc = "apply" => Switching
    PROVE  Kept(job, [job EXCEPT !.pc = "write", !.end = end])
<1> USE DEF InHand, JobType, Shape, Holds, Ending, Pcs, Kinds, Statuses, Ends3, Odds, Notes
<1>1. [job EXCEPT !.pc = "write", !.end = end] \in JobType
  OBVIOUS
<1> QED BY <1>1 DEF Kept

\* An import whose test failed.
LEMMA ImportEndsBadlyKept ==
    ASSUME NEW job \in JobType, Shape(job),
           job.pc = "probe", job.kind = "import"
    PROVE  Kept(job, [job EXCEPT !.pc = "write", !.end = "failed", !.note = "error"])
<1> USE DEF InHand, JobType, Shape, Holds, Ending, Pcs, Kinds, Statuses, Ends3, Odds, Notes
<1>1. [job EXCEPT !.pc = "write", !.end = "failed", !.note = "error"] \in JobType
  OBVIOUS
<1> QED BY <1>1 DEF Kept

\* An import whose results are saved.
LEMMA ImportSavesKept ==
    ASSUME NEW job \in JobType, Shape(job),
           job.pc = "probe", job.kind = "import", NEW n \in {"passed", "failed", "gone"}
    PROVE  Kept(job, [job EXCEPT !.pc = "saved", !.note = n])
<1> USE DEF InHand, JobType, Shape, Holds, Ending, Pcs, Kinds, Statuses, Ends3, Odds, Notes
<1>1. [job EXCEPT !.pc = "saved", !.note = n] \in JobType
  OBVIOUS
<1> QED BY <1>1 DEF Kept

\* An import on its way to the pool.
LEMMA ImportMovesKept ==
    ASSUME NEW job \in JobType, Shape(job),
           job.pc \in {"saved", "lock"}, NEW pc \in {"lock", "apply"}, pc = "apply" => Switching,
           job.pc = "saved" => stages[job.stage].by # "work"
    PROVE  Kept(job, [job EXCEPT !.pc = pc])
<1> USE DEF InHand, JobType, Shape, Holds, Ending, Pcs, Kinds, Statuses, Ends3, Odds, Notes
<1>1. [job EXCEPT !.pc = pc] \in JobType
  OBVIOUS
<1> QED BY <1>1 DEF Kept

\* The last write of an import.
LEMMA ImportWritesKept ==
    ASSUME NEW job \in JobType, Shape(job),
           job.pc = "write"
    PROVE  Kept(job, [job EXCEPT !.pc = "exit", !.status = job.end])
<1> USE DEF InHand, JobType, Shape, Holds, Ending, Pcs, Kinds, Statuses, Ends3, Odds, Notes
<1>1. [job EXCEPT !.pc = "exit", !.status = job.end] \in JobType
  OBVIOUS
<1> QED BY <1>1 DEF Kept

\* The last write of an import, when it is lost.
LEMMA ImportWritesNotKept ==
    ASSUME NEW job \in JobType, Shape(job),
           job.pc = "write"
    PROVE  Kept(job, [job EXCEPT !.pc = "exit", !.odd = @ \cup {"unsaved"}])
<1> USE DEF InHand, JobType, Shape, Holds, Ending, Pcs, Kinds, Statuses, Ends3, Odds, Notes
<1>1. [job EXCEPT !.pc = "exit", !.odd = @ \cup {"unsaved"}] \in JobType
  OBVIOUS
<1> QED BY <1>1 DEF Kept

\* A test that finishes.
LEMMA TestFinishesKept ==
    ASSUME NEW job \in JobType, Shape(job),
           job.kind = "test", job.pc \in {"probe", "results", "country", "reload"}, NEW end \in Ends3,
           job.pc = "probe" => Switching /\ pool' = pool,
           end = "canceled" /\ job.pc # "probe" /\ job.owner = 0 => pool' = job.snap.pool
    PROVE  Kept(job, [job EXCEPT !.pc = "exit", !.end = end, !.status = end])
<1> USE DEF InHand, JobType, Shape, Holds, Ending, Pcs, Kinds, Statuses, Ends3, Odds, Notes
<1>1. [job EXCEPT !.pc = "exit", !.end = end, !.status = end] \in JobType
  OBVIOUS
<1> QED BY <1>1 DEF Kept

\* A test that could not take back what it wrote.
LEMMA TestFinishesBadlyKept ==
    ASSUME NEW job \in JobType, Shape(job),
           job.kind = "test", job.pc \in {"results", "country", "reload"}
    PROVE  Kept(job, [job EXCEPT !.pc = "exit", !.end = "failed", !.status = "failed", !.odd = @ \cup {"unrestored"}])
<1> USE DEF InHand, JobType, Shape, Holds, Ending, Pcs, Kinds, Statuses, Ends3, Odds, Notes
<1>1. [job EXCEPT !.pc = "exit", !.end = "failed", !.status = "failed", !.odd = @ \cup {"unrestored"}] \in JobType
  OBVIOUS
<1> QED BY <1>1 DEF Kept

\* A test that takes applyMu and its snapshot.
LEMMA TestBeginsKept ==
    ASSUME NEW job \in JobType, Shape(job),
           job.kind = "test", job.pc = "probe", Switching, NEW snap \in Snaps,
           pool \in Pools, job.owner = 0 => snap.pool = pool, applier = 0
    PROVE  Kept(job, [job EXCEPT !.pc = "results", !.snap = snap])
<1> USE DEF InHand, JobType, Shape, Holds, Ending, Pcs, Kinds, Statuses, Ends3, Odds, Notes
<1>1. [job EXCEPT !.pc = "results", !.snap = snap] \in JobType
  OBVIOUS
<1> QED BY <1>1 DEF Kept

\* A test between its writes.
LEMMA TestMovesKept ==
    ASSUME NEW job \in JobType, Shape(job),
           job.kind = "test", job.pc \in {"results", "country"}, NEW pc \in {"country", "reload"}
    PROVE  Kept(job, [job EXCEPT !.pc = pc])
<1> USE DEF InHand, JobType, Shape, Holds, Ending, Pcs, Kinds, Statuses, Ends3, Odds, Notes
<1>1. [job EXCEPT !.pc = pc] \in JobType
  OBVIOUS
<1> QED BY <1>1 DEF Kept

\* A refresh that settles the pool.
LEMMA RefreshMovesKept ==
    ASSUME NEW job \in JobType, Shape(job),
           job.kind = "refresh", job.pc \in {"queue", "verify"}, job.pc = "queue" => Leaving,
           NEW pc \in {"verify", "final"}
    PROVE  Kept(job, [job EXCEPT !.pc = pc])
<1> USE DEF InHand, JobType, Shape, Holds, Ending, Pcs, Kinds, Statuses, Ends3, Odds, Notes
<1>1. [job EXCEPT !.pc = pc] \in JobType
  OBVIOUS
<1> QED BY <1>1 DEF Kept

\* A refresh that goes back to its snapshot.
LEMMA RefreshRestoredKept ==
    ASSUME NEW job \in JobType, Shape(job),
           job.pc = "queue", Leaving, pool' = job.snap.pool
    PROVE  Kept(job, [job EXCEPT !.pc = "final", !.note = "restored"])
<1> USE DEF InHand, JobType, Shape, Holds, Ending, Pcs, Kinds, Statuses, Ends3, Odds, Notes
<1>1. [job EXCEPT !.pc = "final", !.note = "restored"] \in JobType
  OBVIOUS
<1> QED BY <1>1 DEF Kept

\* A refresh with its last status.
LEMMA RefreshEndsKept ==
    ASSUME NEW job \in JobType, Shape(job),
           job.kind = "refresh", job.pc \in {"queue", "verify", "final"}, NEW st \in Ends3, job.pc = "queue" => Leaving
    PROVE  Kept(job, [job EXCEPT !.pc = "exit", !.status = st])
<1> USE DEF InHand, JobType, Shape, Holds, Ending, Pcs, Kinds, Statuses, Ends3, Odds, Notes
<1>1. [job EXCEPT !.pc = "exit", !.status = st] \in JobType
  OBVIOUS
<1> QED BY <1>1 DEF Kept

\* A binding that waits for its import.
LEMMA BindingMovesKept ==
    ASSUME NEW job \in JobType, Shape(job),
           job.pc \in {"commit", "wait"}, NEW pc \in {"wait", "stop"}, job.pc = "commit" => Committing
    PROVE  Kept(job, [job EXCEPT !.pc = pc])
<1> USE DEF InHand, JobType, Shape, Holds, Ending, Pcs, Kinds, Statuses, Ends3, Odds, Notes
<1>1. [job EXCEPT !.pc = pc] \in JobType
  OBVIOUS
<1> QED BY <1>1 DEF Kept

\* A binding that is cancelled.
LEMMA BindingCancelsKept ==
    ASSUME NEW job \in JobType, Shape(job),
           job.kind = "binding", job.pc \in {"next", "wait", "stop"}
    PROVE  Kept(job, [job EXCEPT !.pc = "exit", !.status = "canceled"])
<1> USE DEF InHand, JobType, Shape, Holds, Ending, Pcs, Kinds, Statuses, Ends3, Odds, Notes
<1>1. [job EXCEPT !.pc = "exit", !.status = "canceled"] \in JobType
  OBVIOUS
<1> QED BY <1>1 DEF Kept

\* A binding that has staged a tag.
LEMMA BindingCommitsKept ==
    ASSUME NEW job \in JobType, Shape(job),
           job.pc = "next", NEW s \in Nat, s # 0, s = Len(stages) + 1, Len(stages') = Len(stages) + 1
    PROVE  Kept(job, [job EXCEPT !.pc = "commit", !.stage = s])
<1> USE DEF InHand, JobType, Shape, Holds, Ending, Pcs, Kinds, Statuses, Ends3, Odds, Notes
<1>1. [job EXCEPT !.pc = "commit", !.stage = s] \in JobType
  OBVIOUS
<1> QED BY <1>1 DEF Kept

\* A binding that skips a tag.
LEMMA BindingSkipsKept ==
    ASSUME NEW job \in JobType, Shape(job),
           job.pc = "next", NEW rev \in [Tags -> Nat], NEW n \in {"good", "bad", "both"},
           NEW pc \in {"next", "exit"}, NEW st \in Statuses, pc = "exit" <=> st # "running"
    PROVE  Kept(job, [job EXCEPT !.rev = rev, !.note = n, !.pc = pc, !.status = st])
<1> USE DEF InHand, JobType, Shape, Holds, Ending, Pcs, Kinds, Statuses, Ends3, Odds, Notes
<1>1. [job EXCEPT !.rev = rev, !.note = n, !.pc = pc, !.status = st] \in JobType
  OBVIOUS
<1> QED BY <1>1 DEF Kept

\* A binding that is done with a tag.
LEMMA BindingItemKept ==
    ASSUME NEW job \in JobType, Shape(job),
           job.kind = "binding", job.pc \in {"commit", "wait", "stop"}, NEW rev \in [Tags -> Nat],
           NEW n \in {"good", "bad", "both"},
           NEW pc \in {"next", "exit"}, NEW st \in Statuses, pc = "exit" <=> st # "running"
    PROVE  Kept(job, [job EXCEPT !.rev = rev, !.note = n, !.stage = 0, !.pc = pc, !.status = st])
<1> USE DEF InHand, JobType, Shape, Holds, Ending, Pcs, Kinds, Statuses, Ends3, Odds, Notes
<1>1. [job EXCEPT !.rev = rev, !.note = n, !.stage = 0, !.pc = pc, !.status = st] \in JobType
  OBVIOUS
<1> QED BY <1>1 DEF Kept


\* A job that stays as it is.
LEMMA SelfKept ==
    ASSUME NEW job \in JobType, Shape(job)
    PROVE  Kept(job, job)
  BY DEF Kept

\* A job that has just been stored.
Fresh(job) ==
    /\ job \in JobType /\ Shape(job)
    /\ job.live = "stored" /\ job.pc = "new" /\ job.status = "running" /\ ~job.reg /\ ~job.ctx
    /\ job.end = "none" /\ job.note = "none" /\ job.odd = {}
    /\ job.kind = "refresh" => job.snap.pool = pool
    /\ job.owner <= Len(jobs) /\ job.stage <= Len(stages) /\ (job.kind = "import" => job.stage # 0)

\* The jobs go on, or one is added.
GoOn ==
    /\ jobs' \in Seq(JobType)
    /\ Len(jobs') \in {Len(jobs), Len(jobs) + 1}
    /\ \A k \in Ids : Kept(jobs[k], jobs'[k])
    /\ Len(jobs') = Len(jobs) + 1 => Fresh(jobs'[Len(jobs) + 1])

\* One job changes.
LEMMA PutGoesOn ==
    ASSUME jobs \in Seq(JobType), Shapes, NEW j \in Ids, NEW r, Kept(jobs[j], r), jobs' = Put(j, r)
    PROVE  GoOn
<1>1. r \in JobType /\ \A k \in Ids : jobs[k] \in JobType /\ Shape(jobs[k])
  BY DEF Kept, Shapes, Ids
<1>2. \A k \in Ids : Put(j, r)[k] = IF k = j THEN r ELSE jobs[k]
  BY <1>1, PutFacts
<1>3. Put(j, r) \in Seq(JobType) /\ Len(Put(j, r)) = Len(jobs)
  BY <1>1, PutFacts
<1>4. \A k \in Ids : Kept(jobs[k], jobs'[k])
  BY <1>1, <1>2, SelfKept
<1> QED BY <1>3, <1>4 DEF GoOn, Ids

\* No job changes.
LEMMA SameGoesOn ==
    ASSUME jobs \in Seq(JobType), Shapes, jobs' = jobs
    PROVE  GoOn
<1>1. \A k \in Ids : jobs[k] \in JobType /\ Shape(jobs[k])
  BY DEF Shapes, Ids
<1> QED BY <1>1, SelfKept DEF GoOn, Ids

\* One job more.
LEMMA StoreGoesOn ==
    ASSUME jobs \in Seq(JobType), Shapes, NEW r, Fresh(r), jobs' = Append(jobs, r)
    PROVE  GoOn
<1>1. \A k \in Ids : jobs[k] \in JobType /\ Shape(jobs[k])
  BY DEF Shapes, Ids
<1>2. r \in JobType
  BY DEF Fresh
<1>3. jobs' \in Seq(JobType) /\ Len(jobs') = Len(jobs) + 1 /\ jobs'[Len(jobs) + 1] = r
  BY <1>2
<1>4. \A k \in Ids : jobs'[k] = jobs[k]
  BY <1>2 DEF Ids
<1> QED BY <1>1, <1>3, <1>4, SelfKept DEF GoOn, Ids

\* Stages whose nodes change remain the stages they are.
SameStages(new) ==
    /\ new \in Seq(StageType) /\ Len(new) = Len(stages)
    /\ \A k \in DOMAIN stages : new[k].tag = stages[k].tag /\ new[k].rev = stages[k].rev /\ new[k].by = stages[k].by

\* One stage in another state.
LEMMA StagedFacts ==
    ASSUME stages \in Seq(StageType), NEW s \in DOMAIN stages, NEW st \in StageSt
    PROVE  /\ SameStages(Staged(s, st))
           /\ Staged(s, st)[s].st = st
           /\ \A k \in DOMAIN stages : k # s => Staged(s, st)[k] = stages[k]
<1> DEFINE new == [stages[s] EXCEPT !.st = st]
<1>1. stages[s] \in StageType
  OBVIOUS
<1>2. new \in StageType /\ new.tag = stages[s].tag /\ new.rev = stages[s].rev /\ new.by = stages[s].by /\ new.st = st
  BY <1>1, StageFact
<1>3. Staged(s, st) = [stages EXCEPT ![s] = new]
  BY DEF Staged
<1> HIDE DEF new
<1> QED BY <1>2, <1>3, Changed DEF SameStages

\* The nodes of one stage deleted.
LEMMA DropFacts ==
    ASSUME stages \in Seq(StageType), NEW s \in DOMAIN stages
    PROVE  /\ SameStages(Drop(s))
           /\ \A k \in DOMAIN stages : k # s => Drop(s)[k] = stages[k]
<1>1. "deleted" \in StageSt
  BY DEF StageSt, Gone
<1>2. CASE stages[s].st \in Gone
  BY <1>2 DEF Drop, SameStages
<1>3. CASE stages[s].st \notin Gone
  BY <1>1, <1>3, StagedFacts DEF Drop
<1> QED BY <1>2, <1>3

\* The nodes of all stages deleted.
LEMMA DropAllFacts ==
    ASSUME stages \in Seq(StageType)
    PROVE  SameStages(DropAll)
<1>0. "deleted" \in StageSt /\ \A k \in DOMAIN stages : stages[k] \in StageType
  BY DEF StageSt, Gone
<1>1. \A k \in DOMAIN stages : stages[k] \in StageType /\ [stages[k] EXCEPT !.st = "deleted"] \in StageType
  BY <1>0, StageFact
<1>2. DropAll \in [1..Len(stages) -> StageType]
  BY <1>1 DEF DropAll
<1>3. DropAll \in Seq(StageType) /\ Len(DropAll) = Len(stages)
  BY <1>2
<1> QED BY <1>0, <1>1, <1>3, StageFact DEF DropAll, SameStages

\* The nodes back as they were in a snapshot.
LEMMA RestoreFacts ==
    ASSUME stages \in Seq(StageType), NEW snap \in Snaps, snap.pool \in Pools, Restore(snap)
    PROVE  /\ pool' = snap.pool /\ pool' \in Pools
           /\ SameStages(stages')
<1> DEFINE R(k) == [stages[k] EXCEPT !.st = IF k \in DOMAIN snap.st THEN snap.st[k] ELSE "deleted"]
<1>1. \A k \in DOMAIN stages : stages[k] \in StageType /\ R(k) \in StageType
  <2> SUFFICES ASSUME NEW k \in DOMAIN stages
               PROVE  stages[k] \in StageType /\ R(k) \in StageType
    OBVIOUS
  <2>1. stages[k] \in StageType /\ "deleted" \in StageSt /\ snap.st \in Seq(StageSt)
    BY DEF StageSt, Gone, Snaps
  <2>2. (IF k \in DOMAIN snap.st THEN snap.st[k] ELSE "deleted") \in StageSt
    BY <2>1
  <2> QED BY <2>1, <2>2, StageFact
<1>2. stages' = [k \in DOMAIN stages |-> R(k)]
  BY DEF Restore
<1> HIDE DEF R
<1>3. stages' \in [1..Len(stages) -> StageType]
  BY <1>1, <1>2
<1>4. stages' \in Seq(StageType) /\ Len(stages') = Len(stages)
  BY <1>3
<1>5. \A k \in DOMAIN stages : R(k).tag = stages[k].tag /\ R(k).rev = stages[k].rev /\ R(k).by = stages[k].by
  <2> SUFFICES ASSUME NEW k \in DOMAIN stages
               PROVE  R(k).tag = stages[k].tag /\ R(k).rev = stages[k].rev /\ R(k).by = stages[k].by
    OBVIOUS
  <2>1. stages[k] \in StageType /\ "deleted" \in StageSt /\ snap.st \in Seq(StageSt)
    BY DEF StageSt, Gone, Snaps
  <2>2. (IF k \in DOMAIN snap.st THEN snap.st[k] ELSE "deleted") \in StageSt
    BY <2>1
  <2> QED BY <2>1, <2>2, StageFact DEF R
<1> QED BY <1>2, <1>4, <1>5 DEF Restore, SameStages

\* A job that is there is one.
LEMMA JobHere ==
    ASSUME jobs \in Seq(JobType), Shapes, NEW j \in Ids
    PROVE  jobs[j] \in JobType /\ Shape(jobs[j])
  BY DEF Ids, Shapes

\* The jobs that are stored are fresh.
NewFacts(job, kind, owner, stage) ==
    /\ job \in JobType /\ job.kind = kind /\ job.owner = owner /\ job.stage = stage /\ job.live = "stored" /\ job.pc = "new"
    /\ job.status = "running" /\ job.reg = FALSE /\ job.ctx = FALSE /\ job.end = "none" /\ job.note = "none" /\ job.odd = {}

\* What NewJob gives.
LEMMA NewJobFacts ==
    ASSUME NEW kind \in Kinds, NEW owner \in Nat, NEW stage \in Nat
    PROVE  NewFacts(NewJob(kind, owner, stage), kind, owner, stage)
<1>1. NoSnap \in Snaps
  BY DEF NoSnap, Snaps
<1>2. NewJob(kind, owner, stage) \in JobType
  BY <1>1 DEF NewJob, JobType, Kinds, Statuses, Pcs, Notes, Ends3, Odds
<1> QED BY <1>2 DEF NewJob, NewFacts

\* Such a job is fresh, when what it names exists.
LEMMA FreshFact ==
    ASSUME NEW job, NEW kind \in Kinds, NEW owner \in Nat, NEW stage \in Nat, NewFacts(job, kind, owner, stage),
           owner <= Len(jobs), stage <= Len(stages), kind = "import" => stage # 0,
           kind \in {"refresh", "binding"} => owner = 0,
           kind = "refresh" => job.snap.pool = pool /\ pool \in Pools
    PROVE  Fresh(job)
  BY DEF NewFacts, Fresh, Shape, Holds, Ending, Kinds

\* A new import is fresh.
LEMMA ImportFresh ==
    ASSUME NEW owner \in Nat, NEW stage \in Nat, owner <= Len(jobs), stage # 0, stage <= Len(stages)
    PROVE  Fresh(NewJob("import", owner, stage))
<1>1. "import" \in Kinds
  BY DEF Kinds
<1> QED BY <1>1, NewJobFacts, FreshFact

\* A new test or binding, with the tags it is for, is fresh.
LEMMA MarkedFresh ==
    ASSUME NEW kind \in {"test", "binding"}, NEW owner \in Nat, owner <= Len(jobs), NEW rev \in [Tags -> Nat],
           kind = "binding" => owner = 0, stages \in Seq(StageType)
    PROVE  Fresh([NewJob(kind, owner, 0) EXCEPT !.rev = rev])
<1> DEFINE job == NewJob(kind, owner, 0)
           r == [job EXCEPT !.rev = rev]
<1>1. kind \in Kinds
  BY DEF Kinds
<1>2. NewFacts(job, kind, owner, 0)
  BY <1>1, NewJobFacts
<1> HIDE DEF job
<1>3. NewFacts(r, kind, owner, 0)
  BY <1>2 DEF JobType, NewFacts
<1> HIDE DEF r
<1>a. 0 \in Nat /\ 0 <= Len(stages)
  OBVIOUS
<1>4. Fresh(r)
  BY <1>1, <1>3, <1>a, FreshFact
<1> QED BY <1>4 DEF r, job

\* A new refresh, with its revisions and its snapshot, is fresh.
LEMMA RefreshFresh ==
    ASSUME pool \in Pools, NEW snap \in Snaps, snap.pool = pool, NEW rev \in [Tags -> Nat],
           jobs \in Seq(JobType), stages \in Seq(StageType)
    PROVE  Fresh([NewJob("refresh", 0, 0) EXCEPT !.rev = rev, !.snap = snap])
<1> DEFINE job == NewJob("refresh", 0, 0)
           r == [job EXCEPT !.rev = rev, !.snap = snap]
<1>1. "refresh" \in Kinds
  BY DEF Kinds
<1>2. NewFacts(job, "refresh", 0, 0)
  BY <1>1, NewJobFacts
<1> HIDE DEF job
<1>3. NewFacts(r, "refresh", 0, 0) /\ r.snap = snap
  BY <1>2 DEF JobType, NewFacts
<1> HIDE DEF r
<1>a. 0 \in Nat /\ 0 <= Len(stages) /\ 0 <= Len(jobs)
  OBVIOUS
<1>4. Fresh(r)
  BY <1>1, <1>3, <1>a, FreshFact
<1> QED BY <1>4 DEF r, job

\* Where a goroutine is tells the kind of its job.
LEMMA KindOf ==
    ASSUME NEW job \in JobType, Shape(job)
    PROVE  /\ job.pc \in {"saved", "lock", "apply", "write"} => job.kind = "import"
           /\ job.pc \in {"results", "country", "reload"} => job.kind = "test"
           /\ job.pc \in {"queue", "verify", "final"} => job.kind = "refresh"
           /\ job.pc \in {"next", "commit", "wait", "stop"} => job.kind = "binding"
  BY DEF JobType, Kinds, Shape, Ending

\* A snapshot is one.
LEMMA SnapshotFact ==
    ASSUME stages \in Seq(StageType), pool \in Pools
    PROVE  Snapshot \in Snaps /\ Snapshot.pool = pool /\ NoSnap \in Snaps
<1>1. \A s \in 1..Len(stages) : stages[s].st \in StageSt
  <2>1. \A s \in 1..Len(stages) : stages[s] \in StageType
    OBVIOUS
  <2> QED BY <2>1 DEF StageType
<1>2. DOMAIN stages = 1..Len(stages) /\ Len(stages) \in Nat
  OBVIOUS
<1>3. [s \in DOMAIN stages |-> stages[s].st] \in [1..Len(stages) -> StageSt]
  BY <1>1, <1>2
<1>4. [s \in DOMAIN stages |-> stages[s].st] \in Seq(StageSt)
  BY <1>2, <1>3
<1> QED BY <1>4 DEF Snapshot, NoSnap, Snaps

\* The steps of goroutines that change their own job only.
LEMMA PutSteps ==
    ASSUME Types, Shapes, NEW j \in Ids,
           \/ ImportProbe(j) \/ ImportSaved(j) \/ ImportLock(j) \/ ImportApply(j) \/ ImportWrite(j)
           \/ TestBegin(j) \/ TestPhase(j) \/ TestReload(j)
           \/ QueueEnd(j) \/ RefreshVerify(j) \/ RefreshFinal(j) \/ RefreshExit(j) \/ Exit(j) \/ BindingStop(j)
    PROVE  GoOn
<1>0. jobs \in Seq(JobType) /\ jobs[j] \in JobType /\ Shape(jobs[j]) /\ pool \in Pools
  BY JobHere DEF Types
<1>1. CASE ImportProbe(j)
  <2>1. jobs[j].pc = "probe" /\ jobs[j].kind = "import"
    BY <1>0, <1>1, KindOf DEF ImportProbe, Going
  <2>2. \/ jobs' = Ends(j, "canceled")
        \/ jobs' = EndsBadly(j)
        \/ \E n \in {"passed", "failed", "gone"} : jobs' = Put(j, [jobs[j] EXCEPT !.pc = "saved", !.note = n])
    BY <1>1, <2>1 DEF ImportProbe
  <2> QED BY <1>0, <2>1, <2>2, PutGoesOn, ImportEndsKept, ImportEndsBadlyKept, ImportSavesKept DEF Ends3, Ends,
             EndsBadly
<1>2. CASE ImportSaved(j)
  <2>1. jobs[j].pc = "saved" /\ jobs[j].kind = "import"
    BY <1>0, <1>2, KindOf DEF ImportSaved, Going
  <2>2. \/ \E end \in {"canceled", "finished", "failed"} : jobs' = Ends(j, end)
        \/ jobs' = At(j, "lock") /\ stages[jobs[j].stage].by # "work"
    BY <1>2, <2>1 DEF ImportSaved, Verdict, OfImport
  <2> QED BY <1>0, <2>1, <2>2, PutGoesOn, ImportEndsKept, ImportMovesKept DEF Ends3, Ends, At
<1>3. CASE ImportLock(j)
  <2>1. jobs[j].pc = "lock" /\ jobs[j].kind = "import"
    BY <1>0, <1>3, KindOf DEF ImportLock, Going
  <2>2. \/ jobs' = Ends(j, "failed")
        \/ jobs' = At(j, "apply")
    BY <1>3, <2>1 DEF ImportLock
  <2>s. Switching
    BY <1>3 DEF Switching
  <2> QED BY <1>0, <2>s, <2>1, <2>2, PutGoesOn, ImportEndsKept, ImportMovesKept DEF Ends3, Ends, At
<1>4. CASE ImportApply(j)
  <2>1. jobs[j].pc = "apply" /\ jobs[j].kind = "import"
    BY <1>0, <1>4, KindOf DEF ImportApply, Going
  <2>2. \E end \in {"finished", "failed"} : jobs' = Ends(j, end)
    BY <1>4, <2>1 DEF ImportApply, Verdict
  <2>s. Switching
    BY <1>4 DEF Switching
  <2> QED BY <1>0, <2>s, <2>1, <2>2, PutGoesOn, ImportEndsKept DEF Ends3, Ends
<1>5. CASE ImportWrite(j)
  <2>1. jobs[j].pc = "write"
    BY <1>0, <1>5, KindOf DEF ImportWrite, Going
  <2>2. \/ jobs' = Put(j, [jobs[j] EXCEPT !.pc = "exit", !.status = jobs[j].end])
        \/ jobs' = Put(j, [jobs[j] EXCEPT !.pc = "exit", !.odd = @ \cup {"unsaved"}])
    BY <1>5, <2>1 DEF ImportWrite
  <2> QED BY <1>0, <2>1, <2>2, PutGoesOn, ImportWritesKept, ImportWritesNotKept DEF Ends3
<1>6. CASE TestBegin(j)
  <2>1. jobs[j].pc = "probe" /\ jobs[j].kind = "test"
    BY <1>0, <1>6, KindOf DEF TestBegin, Going
  <2>a. Snapshot \in Snaps /\ Snapshot.pool = pool /\ NoSnap \in Snaps
    BY SnapshotFact DEF Types
  <2>2. \/ \E end \in {"canceled", "failed"} : jobs' = Finish(j, end)
        \/ \E snap \in Snaps : /\ jobs[j].owner = 0 => snap.pool = pool
                             /\ jobs' = Put(j, [jobs[j] EXCEPT !.pc = "results", !.snap = snap])
    BY <1>6, <2>a DEF TestBegin, Top
  <2>b. applier = 0 /\ pool' = pool
    BY <1>6 DEF TestBegin, store
  <2>s. Switching
    BY <1>6 DEF Switching
  <2> QED BY <1>0, <2>s, <2>1, <2>b, <2>2, PutGoesOn, TestFinishesKept, TestBeginsKept DEF Ends3, Finish
<1>7. CASE TestPhase(j)
  <2>1. jobs[j].pc \in {"results", "country"} /\ jobs[j].kind = "test"
    BY <1>0, <1>7, KindOf DEF TestPhase, Going, After
  <2>2. \/ \E end \in {"canceled", "finished"} :
              jobs' = Finish(j, end) /\ (jobs[j].owner = 0 => pool' = jobs[j].snap.pool)
        \/ jobs' = FinishBadly(j)
        \/ \E pc \in {"country", "reload"} : jobs' = Put(j, [jobs[j] EXCEPT !.pc = pc])
    BY <1>7, <2>1 DEF TestPhase, TestEnd, After, Top, Restore
  <2> QED BY <1>0, <2>1, <2>2, PutGoesOn, TestFinishesKept, TestFinishesBadlyKept, TestMovesKept DEF Ends3,
             Finish, FinishBadly
<1>8. CASE TestReload(j)
  <2>1. jobs[j].pc = "reload" /\ jobs[j].kind = "test"
    BY <1>0, <1>8, KindOf DEF TestReload, Going
  <2>2. \/ jobs' = Finish(j, "finished")
        \/ jobs' = FinishBadly(j)
    BY <1>8, <2>1 DEF TestReload, TestEnd
  <2> QED BY <1>0, <2>1, <2>2, PutGoesOn, TestFinishesKept, TestFinishesBadlyKept DEF Ends3, Finish, FinishBadly
<1>9. CASE QueueEnd(j)
  <2>1. jobs[j].pc = "queue" /\ jobs[j].kind = "refresh"
    BY <1>0, <1>9, KindOf DEF QueueEnd, Going
  <2>2. \/ jobs' = At(j, "verify")
        \/ jobs' = Put(j, [jobs[j] EXCEPT !.pc = "final", !.note = "restored"]) /\ pool' = jobs[j].snap.pool
        \/ jobs' = Put(j, [jobs[j] EXCEPT !.pc = "exit", !.status = "failed"])
    BY <1>9, <2>1 DEF QueueEnd, Restore
  <2>s. Leaving
    BY <1>9 DEF Leaving
  <2> QED BY <1>0, <2>s, <2>1, <2>2, PutGoesOn, RefreshMovesKept, RefreshRestoredKept, RefreshEndsKept DEF Ends3, At
<1>10. CASE RefreshVerify(j)
  <2>1. jobs[j].pc = "verify" /\ jobs[j].kind = "refresh"
    BY <1>0, <1>10, KindOf DEF RefreshVerify, Going
  <2>2. \/ jobs' = At(j, "final")
        \/ jobs' = Put(j, [jobs[j] EXCEPT !.pc = "exit", !.status = "failed"])
    BY <1>10, <2>1 DEF RefreshVerify
  <2> QED BY <1>0, <2>1, <2>2, PutGoesOn, RefreshMovesKept, RefreshEndsKept DEF Ends3, At
<1>11. CASE RefreshFinal(j)
  <2>1. jobs[j].pc = "final" /\ jobs[j].kind = "refresh"
    BY <1>0, <1>11, KindOf DEF RefreshFinal, Going
  <2>2. \E st \in {"canceled", "failed", "finished"} : jobs' = Put(j, [jobs[j] EXCEPT !.pc = "exit", !.status = st])
    BY <1>11, <2>1 DEF RefreshFinal, RefreshStatus
  <2> QED BY <1>0, <2>1, <2>2, PutGoesOn, RefreshEndsKept DEF Ends3
<1>12. CASE RefreshExit(j)
  <2>1. jobs[j].pc = "exit" /\ jobs[j].kind = "refresh"
    BY <1>0, <1>12, KindOf DEF RefreshExit, Going
  <2>2. jobs' = Put(j, Over(jobs[j]))
    BY <1>12, <2>1 DEF RefreshExit
  <2> QED BY <1>0, <2>1, <2>2, PutGoesOn, OverExitKept DEF Ends3
<1>13. CASE Exit(j)
  <2>1. jobs[j].pc = "exit"
    BY <1>0, <1>13, KindOf DEF Exit, Going
  <2>2. jobs' = Put(j, Over(jobs[j]))
    BY <1>13, <2>1 DEF Exit
  <2>s. Switching
    BY <1>13 DEF Switching
  <2> QED BY <1>0, <2>s, <2>1, <2>2, PutGoesOn, OverExitKept DEF Ends3
<1>14. CASE BindingStop(j)
  <2>1. jobs[j].pc = "wait" /\ jobs[j].kind = "binding"
    BY <1>0, <1>14, KindOf DEF BindingStop, Going
  <2>2. jobs' = At(j, "stop")
    BY <1>14, <2>1 DEF BindingStop
  <2> QED BY <1>0, <2>1, <2>2, PutGoesOn, BindingMovesKept DEF Ends3, At
<1> QED BY <1>1, <1>2, <1>3, <1>4, <1>5, <1>6, <1>7, <1>8, <1>9, <1>10, <1>11, <1>12, <1>13, <1>14

\* A work is done for the refresh that is in its queue.
LEMMA WorkingFacts ==
    ASSUME Types, Shapes, \E j \in Ids : Going(j, "queue")
    PROVE  /\ Refresh \in Ids /\ jobs[Refresh].kind = "refresh" /\ jobs[Refresh].pc = "queue"
           /\ jobs[Refresh].live = "go" /\ jobs[Refresh].status = "running"
<1>1. PICK j \in Ids : Going(j, "queue")
  OBVIOUS
<1>2. jobs[j].kind = "refresh" /\ jobs[j].pc = "queue"
  BY <1>1, JobHere, KindOf DEF Going, Types
<1>3. Refresh \in Ids /\ jobs[Refresh].kind = "refresh" /\ jobs[Refresh].pc = "queue"
  BY <1>1, <1>2 DEF Refresh
<1> QED BY <1>3, JobHere DEF Types, Shape, JobType, Ending

\* What Store does with a fresh job.
LEMMA StoreFacts ==
    ASSUME Types, Shapes, NEW r, Fresh(r), Store(r)
    PROVE  GoOn /\ jobs' = Append(jobs, r)
  BY StoreGoesOn DEF Store, Types

\* Marks are revisions.
LEMMA MarksFact == \A T : Marks(T) \in [Tags -> Nat]
  BY DEF Marks

\* The steps that store a job.
LEMMA StoreSteps ==
    ASSUME Types, Shapes, Linked,
           \/ StartRefresh \/ StartBatchTest \/ StartTagBinding
           \/ \E s \in DOMAIN stages : CommitStore(s)
           \/ \E w \in DOMAIN work : WorkCommit(w) \/ WorkRetest(w)
    PROVE  GoOn
<1>0. jobs \in Seq(JobType) /\ pool \in Pools /\ Snapshot \in Snaps /\ Snapshot.pool = pool /\ stages \in Seq(StageType)
  BY SnapshotFact DEF Types
<1>1. CASE StartRefresh
  <2> DEFINE rev == [t \in Tags |-> IF t \in Published THEN revs'[t] ELSE 0]
             job == [NewJob("refresh", 0, 0) EXCEPT !.rev = rev, !.snap = Snapshot]
  <2>1. revs' \in [Tags -> Nat] /\ Store(job)
    BY <1>1 DEF StartRefresh, Types
  <2>2. rev \in [Tags -> Nat]
    BY <2>1
  <2>3. Fresh(job)
    BY <1>0, <2>2, RefreshFresh
  <2> QED BY <2>1, <2>3, StoreFacts
<1>2. CASE StartBatchTest \/ StartTagBinding
  <2>1. PICK kind \in {"test", "binding"} : Store([NewJob(kind, 0, 0) EXCEPT !.rev = Marks(Published)])
    BY <1>2 DEF StartBatchTest, StartTagBinding
  <2>2. Fresh([NewJob(kind, 0, 0) EXCEPT !.rev = Marks(Published)])
    BY <1>0, MarksFact, MarkedFresh
  <2> QED BY <2>1, <2>2, StoreFacts
<1>3. ASSUME NEW s \in DOMAIN stages, CommitStore(s)
      PROVE  GoOn
  <2>1. s \in Nat /\ 0 <= Len(jobs) /\ s # 0 /\ s <= Len(stages)
    BY <1>0
  <2>2. Fresh(NewJob("import", 0, s))
    BY <2>1, ImportFresh
  <2> QED BY <1>3, <2>2, StoreFacts DEF CommitStore
<1>4. ASSUME NEW w \in DOMAIN work, WorkCommit(w) \/ WorkRetest(w)
      PROVE  GoOn
  <2>1. Refresh \in Ids
    BY <1>4, WorkingFacts DEF WorkCommit, WorkRetest, Working
  <2>2. work[w].stage \in Nat /\ Refresh \in Nat /\ Refresh <= Len(jobs)
    BY <1>0, <2>1 DEF Types, WorkType, Ids
  <2>3. WorkCommit(w) => Fresh(NewJob("import", Refresh, work[w].stage))
    <3>1. WorkCommit(w) => work[w].stage # 0 /\ work[w].stage <= Len(stages)
      BY DEF WorkCommit, Working, Linked
    <3> QED BY <1>0, <2>2, <3>1, ImportFresh
  <2>4. Fresh([NewJob("test", Refresh, 0) EXCEPT !.rev = Marks({w.tag})])
    BY <1>0, <2>2, MarksFact, MarkedFresh
  <2>5. CASE jobs' = jobs
    BY <1>0, <2>5, SameGoesOn
  <2>6. CASE WorkCommit(w) /\ Store(NewJob("import", Refresh, work[w].stage))
    BY <2>3, <2>6, StoreFacts
  <2>7. CASE Store([NewJob("test", Refresh, 0) EXCEPT !.rev = Marks({w.tag})])
    BY <2>4, <2>7, StoreFacts
  <2> QED BY <1>4, <2>5, <2>6, <2>7 DEF WorkCommit, WorkRetest
<1> QED BY <1>1, <1>2, <1>3, <1>4

\* An oddity more is one of Odds.
LEMMA OddFact ==
    ASSUME NEW job \in JobType
    PROVE  /\ [job EXCEPT !.odd = @ \cup {"abandoned"}] \in JobType
           /\ [job EXCEPT !.odd = @ \cup {"abandoned"}].pc = job.pc
           /\ [job EXCEPT !.odd = @ \cup {"abandoned"}].status = job.status
           /\ "abandoned" \in [job EXCEPT !.odd = @ \cup {"abandoned"}].odd
  BY DEF JobType, Odds

\* A job that is given up changes in that only.
LEMMA AbandonedFacts ==
    ASSUME NEW js \in Seq(JobType), NEW c \in 1..Len(js)
    PROVE  /\ Abandoned(js, c) \in Seq(JobType) /\ Len(Abandoned(js, c)) = Len(js)
           /\ \A k \in 1..Len(js) : k # c => Abandoned(js, c)[k] = js[k]
           /\ Shape(js[c]) => Kept(js[c], Abandoned(js, c)[c])
           /\ Abandoned(js, c)[c].pc = js[c].pc /\ Abandoned(js, c)[c].status = js[c].status
           /\ js[c].status = "running" => "abandoned" \in Abandoned(js, c)[c].odd
<1> DEFINE new == [js[c] EXCEPT !.odd = @ \cup {"abandoned"}]
<1>1. js[c] \in JobType
  OBVIOUS
<1>2. new \in JobType /\ new.pc = js[c].pc /\ new.status = js[c].status /\ "abandoned" \in new.odd
  BY <1>1, OddFact
<1>3. Shape(js[c]) => Kept(js[c], new)
  BY <1>1, AbandonedKept
<1>4. Shape(js[c]) => Kept(js[c], js[c])
  BY <1>1, SelfKept
<1>5. CASE js[c].status = "running"
  <2>1. Abandoned(js, c) = [js EXCEPT ![c] = new]
    BY <1>5 DEF Abandoned
  <2> HIDE DEF new
  <2> QED BY <1>2, <1>3, <2>1, Changed
<1>6. CASE js[c].status # "running"
  BY <1>4, <1>6 DEF Abandoned
<1> QED BY <1>5, <1>6

\* A job is given up while its owner changes too.
LEMMA AbandonGoesOn ==
    ASSUME jobs \in Seq(JobType), Shapes, NEW j \in Ids, NEW r, Kept(jobs[j], r), NEW c \in Ids \ {j},
           jobs' = Abandoned(Put(j, r), c)
    PROVE  GoOn
<1>1. r \in JobType
  BY DEF Kept
<1>2. /\ Put(j, r) \in Seq(JobType) /\ Len(Put(j, r)) = Len(jobs)
      /\ \A k \in Ids : Put(j, r)[k] = IF k = j THEN r ELSE jobs[k]
  BY <1>1, PutFacts
<1>3. c \in 1..Len(Put(j, r)) /\ Put(j, r)[c] = jobs[c] /\ Shape(jobs[c])
  BY <1>2 DEF Ids, Shapes
<1>4. /\ jobs' \in Seq(JobType) /\ Len(jobs') = Len(jobs)
      /\ \A k \in Ids : k # c => jobs'[k] = Put(j, r)[k]
      /\ Kept(jobs[c], jobs'[c])
  BY ZenonT(40), <1>2, <1>3, AbandonedFacts DEF Ids
<1>5. \A k \in Ids : Kept(jobs[k], jobs'[k])
  BY <1>2, <1>4, SelfKept, JobHere
<1> QED BY <1>4, <1>5 DEF GoOn

\* What follows an item of a binding.
LEMMA NotedFact ==
    ASSUME NEW j \in Ids, NEW n \in {"good", "bad"}
    PROVE  Noted(j, n) \in {"good", "bad", "both"}
  BY DEF Noted

\* A binding is done with its tag, whatever came of it.
LEMMA ItemKept ==
    ASSUME Types, Shapes, NEW j \in Ids, NEW n \in {"good", "bad"},
           jobs[j].kind = "binding", jobs[j].pc \in {"commit", "wait", "stop"}
    PROVE  \E r : Kept(jobs[j], r) /\ r.pc \in {"next", "exit"} /\ Item(j, n) = Put(j, r)
<1> DEFINE rest == IF jobs[j].stage = 0 THEN jobs[j].rev ELSE [jobs[j].rev EXCEPT ![stages[jobs[j].stage].tag] = 0]
           last == rest = Marks({})
           pc == IF last THEN "exit" ELSE "next"
           st == IF ~last THEN "running" ELSE IF Noted(j, n) = "bad" THEN "failed" ELSE "finished"
           job == [jobs[j] EXCEPT !.rev = rest, !.note = Noted(j, n), !.stage = 0, !.pc = pc, !.status = st]
<1>1. jobs[j] \in JobType /\ Shape(jobs[j])
  BY JobHere DEF Types
<1>2. Noted(j, n) \in {"good", "bad", "both"}
  BY NotedFact
<1>3. rest \in [Tags -> Nat]
  BY <1>1 DEF JobType
<1>4. pc \in {"next", "exit"} /\ st \in Statuses /\ (pc = "exit" <=> st # "running")
  BY DEF Statuses
<1>5. Item(j, n) = Put(j, job)
  BY DEF Item
<1> HIDE DEF rest, pc, st
<1>6. Kept(jobs[j], job)
  BY <1>1, <1>2, <1>3, <1>4, BindingItemKept
<1>7. job.pc = pc
  BY <1>1 DEF JobType
<1> QED BY <1>4, <1>5, <1>6, <1>7

\* A binding is cancelled.
LEMMA BindingCanceledKept ==
    ASSUME Types, Shapes, NEW j \in Ids, jobs[j].kind = "binding", jobs[j].pc \in {"next", "wait", "stop"}
    PROVE  \E r : Kept(jobs[j], r) /\ r.kind = "binding" /\ BindingCanceled(j) = Put(j, r)
<1>1. jobs[j] \in JobType /\ Shape(jobs[j])
  BY JobHere DEF Types
<1>2. Kept(jobs[j], [jobs[j] EXCEPT !.pc = "exit", !.status = "canceled"])
  BY <1>1, BindingCancelsKept
<1> QED BY <1>2 DEF BindingCanceled, Kept

\* A binding waits for an import of the stage it has.
\* A binding that waits has an import of its stage.
Bound == \A j \in Ids : jobs[j].pc \in {"wait", "stop"} => \E c \in Children(j) : jobs[c].stage = jobs[j].stage

\* The import a binding waits for.
LEMMA ChildFacts ==
    ASSUME Linked, Bound, NEW j \in Ids, jobs[j].pc \in {"wait", "stop"}
    PROVE  Child(j) \in Ids \ {j} /\ jobs[Child(j)].owner = j /\ jobs[Child(j)].stage = jobs[j].stage
<1>1. Child(j) \in Children(j) /\ jobs[Child(j)].stage = jobs[j].stage
  BY DEF Bound, Child
<1> QED BY <1>1 DEF Children, Linked, Ids

\* The steps of a binding.
LEMMA BindingSteps ==
    ASSUME Types, Shapes, Linked, Bound, NEW j \in Ids,
           BindingNext(j) \/ BindingCommit(j) \/ BindingTested(j) \/ BindingStopped(j)
    PROVE  GoOn
<1>0. jobs \in Seq(JobType) /\ jobs[j] \in JobType /\ Shape(jobs[j]) /\ Len(stages) \in Nat
  BY JobHere DEF Types
<1>1. CASE BindingNext(j)
  <2>1. jobs[j].pc = "next" /\ jobs[j].kind = "binding"
    BY <1>0, <1>1, KindOf DEF BindingNext, Going
  <2>2. CASE jobs' = BindingCanceled(j)
    BY <1>0, <2>1, <2>2, BindingCanceledKept, PutGoesOn
  <2>a. ASSUME NEW t \in Todo(j), stages' = Append(stages, [tag |-> t, rev |-> revs[t] + 1, by |-> "binding", st |-> "parsed"])
        PROVE  Len(stages') = Len(stages) + 1
    <3>1. [tag |-> t, rev |-> revs[t] + 1, by |-> "binding", st |-> "parsed"] \in StageType
      BY DEF Todo, Types, StageType, StageSt
    <3> QED BY <2>a, <3>1 DEF Types
  <2>3. CASE Len(stages') = Len(stages) + 1 /\ jobs' = Put(j, [jobs[j] EXCEPT !.pc = "commit", !.stage = Len(stages) + 1])
    <3>1. Len(stages) + 1 \in Nat /\ Len(stages) + 1 # 0
      BY <1>0
    <3>2. Kept(jobs[j], [jobs[j] EXCEPT !.pc = "commit", !.stage = Len(stages) + 1])
      BY <1>0, <2>1, <2>3, <3>1, BindingCommitsKept
    <3> QED BY <1>0, <2>3, <3>2, PutGoesOn
  <2>4. ASSUME NEW t \in Todo(j), NEW n \in {"good", "bad"}, NEW rest, rest = [jobs[j].rev EXCEPT ![t] = 0],
               jobs' = Put(j, [jobs[j] EXCEPT !.rev = rest, !.note = Noted(j, n),
                                     !.pc = IF rest = Marks({}) THEN "exit" ELSE "next",
                                     !.status = IF rest # Marks({}) THEN "running"
                                                ELSE IF Noted(j, n) = "bad" THEN "failed" ELSE "finished"])
        PROVE  GoOn
    <3> DEFINE pc == IF rest = Marks({}) THEN "exit" ELSE "next"
               st == IF rest # Marks({}) THEN "running" ELSE IF Noted(j, n) = "bad" THEN "failed" ELSE "finished"
    <3>1. rest \in [Tags -> Nat]
      BY <1>0, <2>4 DEF JobType
    <3>2. Noted(j, n) \in {"good", "bad", "both"}
      BY NotedFact
    <3>3. pc \in {"next", "exit"} /\ st \in Statuses /\ (pc = "exit" <=> st # "running")
      BY DEF Statuses
    <3>4. jobs' = Put(j, [jobs[j] EXCEPT !.rev = rest, !.note = Noted(j, n), !.pc = pc, !.status = st])
      BY <2>4
    <3> HIDE DEF pc, st
    <3>5. Kept(jobs[j], [jobs[j] EXCEPT !.rev = rest, !.note = Noted(j, n), !.pc = pc, !.status = st])
      BY <1>0, <2>1, <3>1, <3>2, <3>3, BindingSkipsKept
    <3> QED BY <1>0, <3>4, <3>5, PutGoesOn
  <2> QED BY <1>1, <2>a, <2>2, <2>3, <2>4 DEF BindingNext
<1>2. CASE BindingCommit(j)
  <2>1. jobs[j].pc = "commit" /\ jobs[j].kind = "binding"
    BY <1>0, <1>2, KindOf DEF BindingCommit, Going
  <2>2. CASE jobs' = Item(j, "bad")
    BY <1>0, <2>1, <2>2, ItemKept, PutGoesOn
  <2>3. CASE jobs' = Append(At(j, "wait"), NewJob("import", j, jobs[j].stage))
    <3> DEFINE job == [jobs[j] EXCEPT !.pc = "wait"]
               new == NewJob("import", j, jobs[j].stage)
    <3>1. Kept(jobs[j], job)
      BY <1>0, <1>2, <2>1, BindingMovesKept DEF Committing
    <3>2. j \in Nat /\ jobs[j].stage \in Nat /\ j <= Len(jobs) /\ jobs[j].stage # 0 /\ jobs[j].stage <= Len(stages)
      BY <1>0, <2>1 DEF Ids, JobType, Linked
    <3>3. Fresh(new)
      BY <3>2, ImportFresh
    <3>4. job \in JobType /\ new \in JobType
      BY <3>1, <3>3 DEF Kept, Fresh
    <3>5. At(j, "wait") = Put(j, job)
      BY DEF At
    <3> HIDE DEF job, new
    <3>6. /\ Put(j, job) \in Seq(JobType) /\ Len(Put(j, job)) = Len(jobs)
          /\ \A k \in Ids : Put(j, job)[k] = IF k = j THEN job ELSE jobs[k]
      BY <1>0, <3>4, PutFacts
    <3>7. jobs' = Append(Put(j, job), new)
      BY <2>3, <3>5 DEF new
    <3>8. /\ jobs' \in Seq(JobType) /\ Len(jobs') = Len(jobs) + 1 /\ jobs'[Len(jobs) + 1] = new
          /\ \A k \in Ids : jobs'[k] = IF k = j THEN job ELSE jobs[k]
      BY <3>4, <3>6, <3>7 DEF Ids
    <3>9. \A k \in Ids : Kept(jobs[k], jobs'[k])
      BY <1>0, <3>1, <3>8, SelfKept, JobHere
    <3> QED BY <3>3, <3>8, <3>9 DEF GoOn
  <2> QED BY <1>2, <2>2, <2>3 DEF BindingCommit
<1>3. CASE BindingTested(j)
  <2>1. jobs[j].pc = "wait" /\ jobs[j].kind = "binding"
    BY <1>3 DEF BindingTested, Going
  <2>2. jobs' = BindingCanceled(j) \/ \E n \in {"good", "bad"} : jobs' = Item(j, n)
    BY <1>3 DEF BindingTested
  <2> QED BY <1>0, <2>1, <2>2, BindingCanceledKept, ItemKept, PutGoesOn
<1>4. CASE BindingStopped(j)
  <2>1. jobs[j].pc = "stop" /\ jobs[j].kind = "binding"
    BY <1>0, <1>4, KindOf DEF BindingStopped, Going
  <2>2. Child(j) \in Ids \ {j}
    BY <2>1, ChildFacts
  <2>3. CASE jobs[j].ctx
    <3>1. PICK r : Kept(jobs[j], r) /\ BindingCanceled(j) = Put(j, r)
      BY <2>1, BindingCanceledKept
    <3>2. jobs' = Abandoned(Put(j, r), Child(j))
      BY <1>4, <2>3, <3>1 DEF BindingStopped
    <3> QED BY <1>0, <2>2, <3>1, <3>2, AbandonGoesOn
  <2>4. CASE ~jobs[j].ctx
    <3>1. PICK r : Kept(jobs[j], r) /\ Item(j, "bad") = Put(j, r)
      BY <2>1, ItemKept
    <3>2. jobs' = Abandoned(Put(j, r), Child(j))
      BY <1>4, <2>4, <3>1 DEF BindingStopped
    <3> QED BY <1>0, <2>2, <3>1, <3>2, AbandonGoesOn
  <2> QED BY <2>3, <2>4
<1> QED BY <1>1, <1>2, <1>3, <1>4

-----------------------------------------------------------------------------
\* Launch.
LEMMA LaunchGoesOn ==
    ASSUME Types, Shapes, NEW j \in Ids, Launch(j)
    PROVE  GoOn
<1>0. jobs \in Seq(JobType) /\ jobs[j] \in JobType /\ Shape(jobs[j])
  BY JobHere DEF Types
<1>1. jobs[j].pc = "new"
  BY <1>0 DEF Launch, Shape
<1>2. CASE closing
  <2> DEFINE st == IF jobs[j].kind = "binding" THEN "failed" ELSE "canceled"
  <2>1. st \in Statuses \ {"running"}
    BY DEF Statuses
  <2>2. jobs' = Put(j, [jobs[j] EXCEPT !.live = "done", !.pc = "refused", !.status = st])
    BY <1>2 DEF Launch
  <2> HIDE DEF st
  <2> QED BY <1>0, <1>1, <2>1, <2>2, RefusedKept, PutGoesOn
<1>3. CASE ~closing
  <2> DEFINE pc == Begins[jobs[j].kind]
  <2>1. /\ pc \in {"queue", "probe", "next"}
        /\ jobs[j].kind = "refresh" <=> pc = "queue"
        /\ jobs[j].kind = "binding" <=> pc = "next"
    BY <1>0 DEF Begins, JobType, Kinds
  <2>2. jobs' = Put(j, [jobs[j] EXCEPT !.live = "go", !.reg = TRUE, !.pc = pc])
    BY <1>3 DEF Launch
  <2> HIDE DEF pc
  <2> QED BY <1>0, <1>1, <1>3, <2>1, <2>2, LaunchedKept, PutGoesOn
<1> QED BY <1>2, <1>3

\* CancelAct.
LEMMA CancelGoesOn ==
    ASSUME Types, Shapes, NEW j \in Ids, CancelAct(j)
    PROVE  GoOn
<1>0. jobs \in Seq(JobType) /\ jobs[j] \in JobType /\ Shape(jobs[j])
  BY JobHere DEF Types
<1>1. CASE jobs[j].reg
  <2>1. jobs' = Put(j, [jobs[j] EXCEPT !.ctx = TRUE])
    BY <1>1 DEF CancelAct
  <2> QED BY <1>0, <1>1, <2>1, CanceledKept, PutGoesOn
<1>2. CASE ~jobs[j].reg /\ jobs[j].kind \in {"import", "test"}
  <2>1. jobs' = Put(j, [jobs[j] EXCEPT !.status = "canceled", !.odd = @ \cup {"overwritten"}])
    BY <1>2 DEF CancelAct
  <2> QED BY <1>0, <1>2, <2>1, OverwrittenKept, PutGoesOn
<1>3. CASE ~jobs[j].reg /\ jobs[j].kind \notin {"import", "test"}
  <2>1. jobs' = jobs
    BY <1>3 DEF CancelAct
  <2> QED BY <1>0, <2>1, SameGoesOn
<1> QED BY <1>1, <1>2, <1>3

\* CloseBegin.
LEMMA CloseGoesOn ==
    ASSUME Types, Shapes, CloseBegin
    PROVE  GoOn
<1> DEFINE N(k) == IF jobs[k].reg THEN [jobs[k] EXCEPT !.ctx = TRUE] ELSE jobs[k]
<1>0. jobs \in Seq(JobType) /\ \A k \in Ids : jobs[k] \in JobType /\ Shape(jobs[k])
  BY JobHere DEF Types
<1>1. \A k \in Ids : Kept(jobs[k], N(k))
  BY <1>0, CanceledKept, SelfKept
<1>2. jobs' = [k \in Ids |-> N(k)]
  BY DEF CloseBegin
<1> HIDE DEF N
<1>3. \A k \in Ids : N(k) \in JobType
  BY <1>1 DEF Kept
<1>4. jobs' \in [1..Len(jobs) -> JobType]
  BY <1>2, <1>3 DEF Ids
<1>5. jobs' \in Seq(JobType) /\ Len(jobs') = Len(jobs)
  BY <1>0, <1>4
<1> QED BY <1>0, <1>1, <1>2, <1>5 DEF GoOn, Ids

\* WorkStopped.
LEMMA WorkStoppedGoesOn ==
    ASSUME Types, Shapes, Linked, NEW w \in DOMAIN work, WorkStopped(w)
    PROVE  GoOn
<1> DEFINE c == work[w].child
<1>0. jobs \in Seq(JobType) /\ \A k \in Ids : jobs[k] \in JobType /\ Shape(jobs[k])
  BY JobHere DEF Types
<1>1. c \in Nat /\ c # 0 /\ c <= Len(jobs)
  BY DEF Types, WorkType, Linked, WorkStopped, Working
<1>2. c \in 1..Len(jobs) /\ jobs' = Abandoned(jobs, c)
  BY <1>0, <1>1 DEF WorkStopped
<1> HIDE DEF c
<1>3. /\ jobs' \in Seq(JobType) /\ Len(jobs') = Len(jobs)
      /\ \A k \in 1..Len(jobs) : k # c => jobs'[k] = jobs[k]
      /\ Kept(jobs[c], jobs'[c])
  BY <1>0, <1>2, AbandonedFacts DEF Ids
<1>4. \A k \in Ids : Kept(jobs[k], jobs'[k])
  BY <1>0, <1>3, SelfKept DEF Ids
<1> QED BY <1>0, <1>3, <1>4 DEF GoOn

\* The steps in which no job changes.
Quiet ==
    \/ \E t \in Tags : ParseBegin(t)
    \/ ParseRevise \/ ParseStore \/ CloseEnd
    \/ \E s \in DOMAIN stages : CommitRead(s)
    \/ \E j \in Ids : Cancel(j)
    \/ \E w \in DOMAIN work : \/ WorkStart(w) \/ WorkFetch(w) \/ WorkTested(w) \/ WorkWatched(w)
                              \/ WorkStop(w) \/ WorkLock(w) \/ WorkApply(w)

\* These steps leave all jobs alone.
LEMMA QuietSteps == ASSUME Quiet PROVE jobs' = jobs
  BY DEF Quiet, ParseBegin, ParseRevise, ParseStore, CloseEnd, CommitRead, Cancel,
         WorkStart, WorkFetch, WorkTested, WorkWatched, WorkStop, WorkLock, WorkApply

\* Whatever the step, every job remains the job it is.
LEMMA JobsGoOn ==
    ASSUME Types, Shapes, Linked, Bound, Next
    PROVE  GoOn
<1>0. jobs \in Seq(JobType)
  BY DEF Types
<1>1. CASE StartRefresh \/ StartBatchTest \/ StartTagBinding
  BY <1>1, StoreSteps
<1>2. CASE ParseRevise \/ ParseStore \/ CloseEnd
  BY <1>0, <1>2, QuietSteps, SameGoesOn DEF Quiet
<1>3. CASE CloseBegin
  BY <1>3, CloseGoesOn
<1>4. ASSUME NEW t \in Tags, ParseBegin(t) PROVE GoOn
  BY <1>0, <1>4, QuietSteps, SameGoesOn DEF Quiet
<1>5. ASSUME NEW s \in DOMAIN stages, CommitRead(s) \/ CommitStore(s) PROVE GoOn
  BY <1>0, <1>5, QuietSteps, SameGoesOn, StoreSteps DEF Quiet
<1>6. ASSUME NEW j \in Ids, Launch(j) \/ Cancel(j) \/ CancelAct(j) PROVE GoOn
  BY <1>0, <1>6, QuietSteps, SameGoesOn, LaunchGoesOn, CancelGoesOn DEF Quiet
<1>7. ASSUME NEW j \in Ids, Step(j) PROVE GoOn
  BY <1>7, PutSteps, BindingSteps DEF Step
<1>8. ASSUME NEW w \in DOMAIN work, WorkStep(w) PROVE GoOn
  <2>1. CASE WorkCommit(w) \/ WorkRetest(w)
    BY <2>1, StoreSteps
  <2>2. CASE WorkStopped(w)
    BY <2>2, WorkStoppedGoesOn
  <2>3. CASE \/ WorkStart(w) \/ WorkFetch(w) \/ WorkTested(w) \/ WorkWatched(w)
             \/ WorkStop(w) \/ WorkLock(w) \/ WorkApply(w)
    BY <1>0, <2>3, QuietSteps, SameGoesOn DEF Quiet
  <2> QED BY <1>8, <2>1, <2>2, <2>3 DEF WorkStep
<1> QED BY <1>1, <1>2, <1>3, <1>4, <1>5, <1>6, <1>7, <1>8 DEF Next

-----------------------------------------------------------------------------
\* What a step may do to the stages that exist.
StageChange ==
    \/ stages' = stages \/ stages' = DropAll
    \/ \E s \in DOMAIN stages : stages' = Drop(s) \/ \E st \in StageSt : stages' = Staged(s, st)
    \/ \E snap \in Snaps : snap.pool \in Pools /\ Restore(snap)

\* They leave tag, revision and origin alone.
LEMMA StageChanges ==
    ASSUME Types, StageChange
    PROVE  SameStages(stages')
<1>0. stages \in Seq(StageType)
  BY DEF Types
<1>1. CASE stages' = stages
  BY <1>0, <1>1 DEF SameStages
<1> QED BY <1>0, <1>1, DropAllFacts, DropFacts, StagedFacts, RestoreFacts DEF StageChange

\* The stage of an import, of a binding at work and of a work that has one.
LEMMA StageOf ==
    ASSUME Types, Linked
    PROVE  /\ \A j \in Ids : jobs[j].kind = "import" \/ jobs[j].pc \in {"commit", "wait", "stop"} => jobs[j].stage \in DOMAIN stages
           /\ \A w \in DOMAIN work : work[w].stage # 0 => work[w].stage \in DOMAIN stages
<1>1. \A j \in Ids : jobs[j].stage \in Nat
  <2>1. \A j \in Ids : jobs[j] \in JobType
    BY DEF Types, Ids
  <2> QED BY <2>1 DEF JobType
<1>2. \A w \in DOMAIN work : work[w].stage \in Nat
  <2>1. \A w \in DOMAIN work : work[w] \in WorkType
    BY DEF Types
  <2> QED BY <2>1 DEF WorkType
<1>3. DOMAIN stages = 1..Len(stages) /\ Len(stages) \in Nat
  BY DEF Types
<1> QED BY <1>1, <1>2, <1>3 DEF Linked

\* The states of a stage.
LEMMA StateNames ==
    /\ {"parsed", "testing", "passed", "failed", "blocked", "deleted", "published"} \subseteq StageSt
    /\ {"deleted", "published"} = Gone
  BY DEF StageSt, Gone

\* The goroutine of an import changes its own stage.
LEMMA ImportStages ==
    ASSUME Types, Shapes, Linked, NEW j \in Ids,
           ImportProbe(j) \/ ImportSaved(j) \/ ImportLock(j) \/ ImportApply(j)
    PROVE  StageChange
<1> DEFINE s == jobs[j].stage
<1>0. jobs[j] \in JobType /\ Shape(jobs[j])
  BY JobHere DEF Types
<1>1. jobs[j].kind = "import"
  BY <1>0, KindOf DEF ImportProbe, ImportSaved, ImportLock, ImportApply, Going
<1>2. s \in DOMAIN stages
  BY <1>1, StageOf
<1> HIDE DEF s
<1>3. CASE ImportProbe(j)
  BY <1>2, <1>3, StateNames DEF ImportProbe, StageChange, DropImport, s
<1>4. CASE ImportSaved(j)
  BY <1>2, <1>4, StateNames DEF ImportSaved, StageChange, DropImport, s
<1>5. CASE ImportLock(j)
  BY <1>2, <1>5, StateNames DEF ImportLock, StageChange, s
<1>6. CASE ImportApply(j)
  BY <1>2, <1>6, StateNames DEF ImportApply, StageChange, Publish, s
<1> QED BY <1>3, <1>4, <1>5, <1>6

\* What can be restored is whole.
LEMMA HeldSnap ==
    ASSUME Types, Shapes, NEW j \in Ids, Holds(jobs[j])
    PROVE  jobs[j].snap \in Snaps /\ jobs[j].snap.pool \in Pools
<1>1. jobs[j] \in JobType /\ Shape(jobs[j])
  BY JobHere DEF Types
<1> QED BY <1>1 DEF JobType, Shape

\* What tests and refreshes do to the stages.
LEMMA RestoringStages ==
    ASSUME Types, Shapes, NEW j \in Ids,
           TestPhase(j) \/ TestReload(j) \/ QueueEnd(j) \/ RefreshVerify(j) \/ RefreshExit(j)
    PROVE  StageChange
<1>0. jobs[j] \in JobType /\ Shape(jobs[j])
  BY JobHere DEF Types
<1>1. CASE TestPhase(j) \/ TestReload(j)
  <2>1. jobs[j].pc \in {"results", "country", "reload"} /\ jobs[j].kind = "test"
    BY <1>0, <1>1, KindOf DEF TestPhase, TestReload, Going, After
  <2>2. stages' = stages \/ (Top(j) /\ Restore(jobs[j].snap))
    BY <1>1, <2>1 DEF TestPhase, TestReload, TestEnd, store
  <2>3. Top(j) => Holds(jobs[j])
    BY <2>1 DEF Top, Holds
  <2> QED BY <2>2, <2>3, HeldSnap DEF StageChange
<1>2. CASE QueueEnd(j) \/ RefreshVerify(j)
  <2>1. jobs[j].pc \in {"queue", "verify"} /\ jobs[j].kind = "refresh"
    BY <1>0, <1>2, KindOf DEF QueueEnd, RefreshVerify, Going
  <2>2. stages' = stages \/ stages' = DropAll \/ Restore(jobs[j].snap)
    BY <1>2 DEF QueueEnd, RefreshVerify, store
  <2>3. Holds(jobs[j])
    BY <2>1 DEF Holds
  <2> QED BY <2>2, <2>3, HeldSnap DEF StageChange
<1>3. CASE RefreshExit(j)
  BY <1>3 DEF RefreshExit, StageChange
<1> QED BY <1>1, <1>2, <1>3

\* What bindings do to the stages.
LEMMA BindingStages ==
    ASSUME Types, Shapes, Linked, NEW j \in Ids,
           BindingCommit(j) \/ BindingTested(j) \/ BindingStopped(j)
    PROVE  StageChange
<1> DEFINE s == jobs[j].stage
<1>1. s \in DOMAIN stages
  BY StageOf DEF BindingCommit, BindingTested, BindingStopped, Going
<1> HIDE DEF s
<1>2. CASE BindingCommit(j)
  BY <1>1, <1>2, StateNames DEF BindingCommit, StageChange, s
<1>3. CASE BindingTested(j)
  BY <1>1, <1>3, StateNames DEF BindingTested, StageChange, s
<1>4. CASE BindingStopped(j)
  BY <1>1, <1>4, StateNames DEF BindingStopped, StageChange, s
<1> QED BY <1>2, <1>3, <1>4

\* What works do to the stages.
LEMMA WorkStages ==
    ASSUME Types, Linked, NEW w \in DOMAIN work,
           WorkCommit(w) \/ WorkTested(w) \/ WorkStopped(w) \/ WorkLock(w) \/ WorkApply(w)
    PROVE  StageChange
<1> DEFINE s == work[w].stage
<1>0. s # 0 => s \in DOMAIN stages
  BY StageOf
<1>1. work[w].pc \in {"commit", "wait", "lock", "apply"} => s \in DOMAIN stages
  BY <1>0 DEF Linked
<1> HIDE DEF s
<1>2. CASE WorkCommit(w)
  BY <1>1, <1>2, StateNames DEF WorkCommit, Working, StageChange, s
<1>3. CASE WorkTested(w)
  BY <1>1, <1>3, StateNames DEF WorkTested, Working, StageChange, s
<1>4. CASE WorkStopped(w)
  BY <1>0, <1>4, StateNames DEF WorkStopped, StageChange, s
<1>5. CASE WorkLock(w)
  BY <1>1, <1>5, StateNames DEF WorkLock, Working, StageChange, s
<1>6. CASE WorkApply(w)
  BY <1>1, <1>6, StateNames DEF WorkApply, Working, StageChange, Publish, s
<1> QED BY <1>2, <1>3, <1>4, <1>5, <1>6

\* The steps that parse or stage another import.
Staging ==
    \/ ParseStore
    \/ \E j \in Ids : BindingNext(j)
    \/ \E w \in DOMAIN work : WorkFetch(w)

\* Every step that stores no stage.
LEMMA StagesChange ==
    ASSUME Types, Shapes, Linked, Next, ~Staging
    PROVE  StageChange
<1>1. CASE StartRefresh \/ StartBatchTest \/ StartTagBinding \/ ParseRevise \/ CloseBegin \/ CloseEnd
  BY <1>1 DEF StartRefresh, StartBatchTest, StartTagBinding, ParseRevise, CloseBegin, CloseEnd, StageChange, store
<1>2. ASSUME NEW t \in Tags, ParseBegin(t) PROVE StageChange
  BY <1>2 DEF ParseBegin, StageChange, store
<1>3. ASSUME NEW s \in DOMAIN stages, CommitRead(s) \/ CommitStore(s) PROVE StageChange
  BY <1>3, StateNames DEF CommitRead, CommitStore, StageChange, store
<1>4. ASSUME NEW j \in Ids, Launch(j) PROVE StageChange
  BY <1>4, StageOf, StateNames DEF Launch, StageChange
<1>5. ASSUME NEW j \in Ids, Cancel(j) \/ CancelAct(j) PROVE StageChange
  BY <1>5 DEF Cancel, CancelAct, StageChange, store
<1>6. ASSUME NEW j \in Ids, Step(j) PROVE StageChange
  <2>1. CASE ImportWrite(j) \/ TestBegin(j) \/ RefreshFinal(j) \/ Exit(j) \/ BindingStop(j)
    BY <2>1 DEF ImportWrite, TestBegin, RefreshFinal, Exit, BindingStop, StageChange, store
  <2>2. CASE BindingNext(j)
    BY <2>2 DEF Staging
  <2> QED BY <1>6, <2>1, <2>2, ImportStages, RestoringStages, BindingStages DEF Step
<1>7. ASSUME NEW w \in DOMAIN work, WorkStep(w) PROVE StageChange
  <2>1. CASE WorkStart(w) \/ WorkRetest(w) \/ WorkWatched(w) \/ WorkStop(w)
    BY <2>1 DEF WorkStart, WorkRetest, WorkWatched, WorkStop, StageChange, store
  <2>2. CASE WorkFetch(w)
    BY <2>2 DEF Staging
  <2> QED BY <1>7, <2>1, <2>2, WorkStages DEF WorkStep
<1> QED BY <1>1, <1>2, <1>3, <1>4, <1>5, <1>6, <1>7 DEF Next, Staging

\* A stage that has just been stored: a new import with the revision its
\* tag has then, or nothing but a stage of the refresh.
StageAdded ==
    \/ stages' = stages /\ readers' = readers
    \/ /\ ParseStore /\ readers' = Append(readers, 0)
       /\ \E st \in StageSt : stages' = Append(stages, [tag |-> parse.tag, rev |-> parse.rev, by |-> "user", st |-> st])
    \/ /\ readers' = Append(readers, 0)
       /\ \E t \in Tags : /\ revs' = [revs EXCEPT ![t] = @ + 1]
                          /\ stages' = Append(stages, [tag |-> t, rev |-> revs[t] + 1, by |-> "binding", st |-> "parsed"])
    \/ /\ readers' = Append(readers, 0)
       /\ \E w \in DOMAIN work :
             /\ WorkFetch(w) /\ work' = [work EXCEPT ![w].pc = "commit", ![w].stage = Len(stages) + 1]
             /\ stages' = Append(stages, [tag |-> w.tag, rev |-> jobs[Refresh].rev[w.tag], by |-> "work", st |-> "parsed"])

\* Every step that stores one.
LEMMA StagingSteps ==
    ASSUME Types, Staging
    PROVE  StageAdded
<1>1. CASE ParseStore
  BY <1>1, StateNames DEF ParseStore, StageAdded
<1>2. ASSUME NEW j \in Ids, BindingNext(j) PROVE StageAdded
  BY <1>2 DEF BindingNext, StageAdded, Todo
<1>3. ASSUME NEW w \in DOMAIN work, WorkFetch(w) PROVE StageAdded
  BY <1>3 DEF WorkFetch, StageAdded
<1> QED BY <1>1, <1>2, <1>3 DEF Staging

\* The stages there are remain the stages they are.
Stands ==
    /\ stages' \in Seq(StageType) /\ Len(stages') \in {Len(stages), Len(stages) + 1}
    /\ \A k \in DOMAIN stages : /\ k \in DOMAIN stages'
                                /\ stages'[k].tag = stages[k].tag /\ stages'[k].rev = stages[k].rev /\ stages'[k].by = stages[k].by

\* No stage more.
LEMMA SameStands ==
    ASSUME stages \in Seq(StageType), SameStages(stages')
    PROVE  Stands /\ Len(stages') = Len(stages)
  BY DEF SameStages, Stands

\* One stage more.
LEMMA AppendStands ==
    ASSUME stages \in Seq(StageType), NEW stage \in StageType, stages' = Append(stages, stage)
    PROVE  Stands /\ Len(stages') = Len(stages) + 1 /\ stages'[Len(stages) + 1] = stage
  BY DEF Stands

\* A stored stage is one.
LEMMA AddedStage ==
    ASSUME Types, Shapes, StageAdded
    PROVE  /\ Stands /\ (stages' = stages \/ Len(stages') = Len(stages) + 1)
           /\ readers' \in Seq(Nat) /\ Len(readers') = Len(stages')
<1>0. stages \in Seq(StageType) /\ readers \in Seq(Nat) /\ Len(readers) = Len(stages) /\ revs \in [Tags -> Nat]
  BY DEF Types
<1>1. CASE stages' = stages /\ readers' = readers
  BY <1>0, <1>1 DEF Stands
<1>2. ASSUME NEW stage \in StageType, stages' = Append(stages, stage), readers' = Append(readers, 0)
      PROVE  Stands /\ Len(stages') = Len(stages) + 1 /\ readers' \in Seq(Nat) /\ Len(readers') = Len(stages')
  BY <1>0, <1>2, AppendStands
<1>3. ASSUME ParseStore, NEW st \in StageSt
      PROVE  [tag |-> parse.tag, rev |-> parse.rev, by |-> "user", st |-> st] \in StageType
  BY <1>3 DEF Types, ParseStore, ParseType, StageType
<1>4. ASSUME NEW t \in Tags
      PROVE  [tag |-> t, rev |-> revs[t] + 1, by |-> "binding", st |-> "parsed"] \in StageType
  <2>1. revs[t] + 1 \in Nat
    BY <1>0
  <2> QED BY <2>1, StateNames DEF StageType
<1>5. ASSUME NEW w \in DOMAIN work, WorkFetch(w)
      PROVE  [tag |-> w.tag, rev |-> jobs[Refresh].rev[w.tag], by |-> "work", st |-> "parsed"] \in StageType
  <2>1. Refresh \in Ids
    BY <1>5, WorkingFacts DEF WorkFetch, Working
  <2>2. jobs[Refresh].rev \in [Tags -> Nat]
    BY <2>1, JobHere DEF Types, JobType
  <2>3. w.tag \in Tags
    BY WorksAssumption DEF Types
  <2>4. jobs[Refresh].rev[w.tag] \in Nat
    BY <2>2, <2>3
  <2> QED BY <2>3, <2>4, StateNames DEF StageType
<1> QED BY <1>1, <1>2, <1>3, <1>4, <1>5 DEF StageAdded

\* Who reads a stage, and who stores the import it has read.
LEMMA ReadersMove ==
    ASSUME Next, ~Staging
    PROVE  (\E s \in DOMAIN stages : CommitRead(s) \/ CommitStore(s)) \/ readers' = readers
<1>1. CASE StartRefresh \/ StartBatchTest \/ StartTagBinding \/ ParseRevise \/ CloseBegin \/ CloseEnd
  BY <1>1 DEF StartRefresh, StartBatchTest, StartTagBinding, ParseRevise, CloseBegin, CloseEnd, calls
<1>2. CASE \E t \in Tags : ParseBegin(t)
  BY <1>2 DEF ParseBegin
<1>3. CASE \E j \in Ids : Launch(j) \/ Cancel(j) \/ CancelAct(j)
  BY <1>3 DEF Launch, Cancel, CancelAct
<1>4. CASE \E j \in Ids : Step(j)
  BY <1>4 DEF Staging, Step, ImportProbe, ImportSaved, ImportLock, ImportApply, ImportWrite, TestBegin,
     TestPhase, TestReload,
              QueueEnd, RefreshVerify, RefreshFinal, RefreshExit, BindingCommit, BindingTested, BindingStop,
              BindingStopped, Exit, calls
<1>5. CASE \E w \in DOMAIN work : WorkStep(w)
  BY <1>5 DEF Staging, WorkStep, WorkStart, WorkCommit, WorkRetest, WorkTested, WorkWatched, WorkStop, WorkStopped,
              WorkLock, WorkApply, calls
<1> QED BY <1>1, <1>2, <1>3, <1>4, <1>5 DEF Next, Staging

\* Every stage keeps its count of readers.
LEMMA ReadersStay ==
    ASSUME Types, Next, ~Staging
    PROVE  readers' \in Seq(Nat) /\ Len(readers') = Len(readers)
<1>0. readers \in Seq(Nat) /\ DOMAIN stages = DOMAIN readers
  BY DEF Types
<1>1. ASSUME NEW s \in DOMAIN stages, CommitRead(s) \/ CommitStore(s)
      PROVE  readers' \in Seq(Nat) /\ Len(readers') = Len(readers)
  <2>0. s \in 1..Len(readers) /\ readers[s] \in Nat
    BY <1>0
  <2>1. CASE CommitRead(s)
    BY <1>0, <2>0, <2>1, Changed DEF CommitRead
  <2>2. CASE CommitStore(s)
    BY <1>0, <2>0, <2>2, Changed DEF CommitStore
  <2> QED BY <1>1, <2>1, <2>2
<1>2. CASE readers' = readers
  BY <1>0, <1>2
<1> QED BY <1>1, <1>2, ReadersMove

\* Every step: stages keep their tag, revision and origin.
LEMMA StagesStand ==
    ASSUME Types, Shapes, Linked, Next
    PROVE  Stands /\ readers' \in Seq(Nat) /\ Len(readers') = Len(stages')
<1>0. stages \in Seq(StageType) /\ Len(readers) = Len(stages)
  BY DEF Types
<1>1. CASE Staging
  BY <1>1, StagingSteps, AddedStage
<1>2. CASE ~Staging
  BY <1>0, <1>2, StagesChange, StageChanges, SameStands, ReadersStay
<1> QED BY <1>1, <1>2

-----------------------------------------------------------------------------
WorkPcs == {"idle", "fetch", "commit", "wait", "retest", "watch", "stop", "lock", "apply", "done"}

\* The works, of which w has changed.
Rewritten(new, w, pc, child, stage) ==
    /\ new \in [DOMAIN work -> WorkType]
    /\ new[w].pc = pc /\ new[w].child = child /\ new[w].stage = stage
    /\ \A v \in DOMAIN work \ {w} : new[v] = work[v]

\* A work that moves on.
LEMMA MovedRecord ==
    ASSUME NEW r \in WorkType, NEW pc \in WorkPcs
    PROVE  /\ [r EXCEPT !.pc = pc] \in WorkType
           /\ [r EXCEPT !.pc = pc].pc = pc
           /\ [r EXCEPT !.pc = pc].child = r.child
           /\ [r EXCEPT !.pc = pc].stage = r.stage
  BY DEF WorkType, WorkPcs

\* A work that ends.
LEMMA RowRecord ==
    ASSUME NEW r \in WorkType, NEW row \in {"canceled", "failed", "completed"}
    PROVE  /\ [r EXCEPT !.pc = "done", !.row = row] \in WorkType
           /\ [r EXCEPT !.pc = "done", !.row = row].pc = "done"
           /\ [r EXCEPT !.pc = "done", !.row = row].child = r.child
           /\ [r EXCEPT !.pc = "done", !.row = row].stage = r.stage
  BY DEF WorkType, WorkPcs

\* A work that gets a stage or a job.
LEMMA CommitRecord ==
    ASSUME NEW r \in WorkType, NEW s \in Nat
    PROVE  /\ [r EXCEPT !.pc = "commit", !.stage = s] \in WorkType
           /\ [r EXCEPT !.pc = "commit", !.stage = s].pc = "commit"
           /\ [r EXCEPT !.pc = "commit", !.stage = s].child = r.child
           /\ [r EXCEPT !.pc = "commit", !.stage = s].stage = s
  BY DEF WorkType, WorkPcs

\* One work changes.
LEMMA OneRewritten ==
    ASSUME work \in [DOMAIN work -> WorkType], NEW w \in DOMAIN work, NEW r \in WorkType, NEW new,
           new = [work EXCEPT ![w] = r]
    PROVE  Rewritten(new, w, r.pc, r.child, r.stage)
  BY DEF Rewritten

\* The works, of which one moves on, ends, is staged or waits.
LEMMA MoveRewrites ==
    ASSUME work \in [DOMAIN work -> WorkType], NEW w \in DOMAIN work
    PROVE  /\ \A pc \in WorkPcs : Rewritten(Move(w, pc), w, pc, work[w].child, work[w].stage)
           /\ \A row \in {"canceled", "failed", "completed"} : Rewritten(Row(w, row), w, "done", work[w].child, work[w].stage)
           /\ \A s \in Nat : Rewritten([work EXCEPT ![w].pc = "commit", ![w].stage = s], w, "commit", work[w].child, s)
           /\ \A pc \in WorkPcs, c \in Nat :
                 Rewritten([work EXCEPT ![w].pc = pc, ![w].child = c], w, pc, c, work[w].stage)
<1>0. work[w] \in WorkType
  OBVIOUS
<1>1. ASSUME NEW pc \in WorkPcs PROVE Rewritten(Move(w, pc), w, pc, work[w].child, work[w].stage)
  <2> DEFINE r == [work[w] EXCEPT !.pc = pc]
  <2>1. r \in WorkType /\ r.pc = pc /\ r.child = work[w].child /\ r.stage = work[w].stage
    BY <1>0, MovedRecord
  <2>2. Move(w, pc) = [work EXCEPT ![w] = r]
    BY DEF Move
  <2> HIDE DEF r
  <2> QED BY <2>1, <2>2, OneRewritten
<1>2. ASSUME NEW row \in {"canceled", "failed", "completed"} PROVE Rewritten(Row(w, row), w, "done", work[w].child, work[w].stage)
  <2> DEFINE r == [work[w] EXCEPT !.pc = "done", !.row = row]
  <2>1. r \in WorkType /\ r.pc = "done" /\ r.child = work[w].child /\ r.stage = work[w].stage
    BY <1>0, RowRecord
  <2>2. Row(w, row) = [work EXCEPT ![w] = r]
    BY <1>0 DEF Row
  <2> HIDE DEF r
  <2> QED BY <2>1, <2>2, OneRewritten
<1>3. ASSUME NEW s \in Nat PROVE Rewritten([work EXCEPT ![w].pc = "commit", ![w].stage = s], w, "commit", work[w].child, s)
  <2> DEFINE r == [work[w] EXCEPT !.pc = "commit", !.stage = s]
  <2>1. r \in WorkType /\ r.pc = "commit" /\ r.child = work[w].child /\ r.stage = s
    BY <1>0, CommitRecord
  <2>2. [work EXCEPT ![w].pc = "commit", ![w].stage = s] = [work EXCEPT ![w] = r]
    BY <1>0
  <2> HIDE DEF r
  <2> QED BY <2>1, <2>2, OneRewritten
<1>4. ASSUME NEW pc \in WorkPcs, NEW c \in Nat
      PROVE  Rewritten([work EXCEPT ![w].pc = pc, ![w].child = c], w, pc, c, work[w].stage)
  <2> DEFINE r == [work[w] EXCEPT !.pc = pc, !.child = c]
  <2>1. r \in WorkType /\ r.pc = pc /\ r.child = c /\ r.stage = work[w].stage
    <3>1. \A q \in WorkType : /\ [q EXCEPT !.pc = pc, !.child = c] \in WorkType
                             /\ [q EXCEPT !.pc = pc, !.child = c].pc = pc
                             /\ [q EXCEPT !.pc = pc, !.child = c].child = c
                             /\ [q EXCEPT !.pc = pc, !.child = c].stage = q.stage
      BY DEF WorkType, WorkPcs
    <3> QED BY <1>0, <3>1
  <2>2. [work EXCEPT ![w].pc = pc, ![w].child = c] = [work EXCEPT ![w] = r]
    BY <1>0
  <2> HIDE DEF r
  <2> QED BY <2>1, <2>2, OneRewritten
<1> QED BY <1>1, <1>2, <1>3, <1>4

\* How a work goes on: Waits(pc) when a job of its own is at it.
Waits == {"wait", "watch", "stop"}
Goes(w, pc) ==
    \/ pc \in {"fetch", "retest"} /\ work[w].pc \notin {"apply", "done"}
    \/ pc = "done" /\ work[w].pc \notin {"apply"}
    \/ pc = "lock" /\ work[w].pc = "wait"
    \/ pc = "stop" /\ work[w].pc \in {"wait", "watch"}
WorkMoves(w) ==
    /\ \E j \in Ids : Going(j, "queue")
    /\ work[w].pc # "done"
    /\ \/ \E pc \in WorkPcs : Goes(w, pc) /\ Rewritten(work', w, pc, work[w].child, work[w].stage) /\ applier' = applier
       \/ /\ work[w].pc = "lock" /\ applier = 0 /\ applier' = Refresh /\ jobs' = jobs
          /\ Applicable(work[w].stage, stages[work[w].stage].rev) /\ UNCHANGED <<stages, pool, revs>>
          /\ Rewritten(work', w, "apply", work[w].child, work[w].stage)
       \/ /\ work[w].pc = "apply" /\ applier' = 0 /\ jobs' = jobs
          /\ Rewritten(work', w, "done", work[w].child, work[w].stage)
       \/ /\ work[w].pc = "fetch" /\ applier' = applier /\ jobs' = jobs
          /\ stages' = Append(stages, [tag |-> w.tag, rev |-> jobs[Refresh].rev[w.tag], by |-> "work", st |-> "parsed"])
          /\ Rewritten(work', w, "commit", work[w].child, Len(stages) + 1)
       \/ /\ work[w].pc = "commit" /\ applier' = applier
          /\ jobs' = Append(jobs, NewJob("import", Refresh, work[w].stage))
          /\ Rewritten(work', w, "wait", Len(jobs) + 1, work[w].stage)
       \/ /\ work[w].pc = "retest" /\ applier' = applier
          /\ jobs' = Append(jobs, [NewJob("test", Refresh, 0) EXCEPT !.rev = Marks({w.tag})])
          /\ Rewritten(work', w, "watch", Len(jobs) + 1, work[w].stage)

\* Every step of a work.
LEMMA WorkGoesOn ==
    ASSUME Types, NEW w \in DOMAIN work, WorkStep(w)
    PROVE  WorkMoves(w)
<1> DEFINE at == \E j \in Ids : Going(j, "queue")
           c == work[w].child
           s == work[w].stage
           goes(pc) == pc \in WorkPcs /\ Goes(w, pc) /\ Rewritten(work', w, pc, c, s) /\ applier' = applier
<1>0. /\ work \in [DOMAIN work -> WorkType] /\ Len(stages) + 1 \in Nat /\ Len(jobs) + 1 \in Nat
      /\ {"fetch", "retest", "done", "lock", "stop", "apply", "wait", "watch"} \subseteq WorkPcs
  BY DEF Types, WorkPcs
<1>1. CASE WorkStart(w)
  <2>1. work[w].pc = "idle" /\ at /\ applier' = applier /\ \E pc \in {"fetch", "retest"} : work' = Move(w, pc)
    BY <1>1 DEF WorkStart, Working
  <2> QED BY <1>0, <2>1, MoveRewrites DEF WorkMoves, Goes
<1>2. CASE WorkFetch(w)
  <2>1. work[w].pc = "fetch" /\ at /\ applier' = applier /\ jobs' = jobs
    BY <1>2 DEF WorkFetch, Working
  <2>2. CASE (\E row \in {"canceled", "failed"} : work' = Row(w, row)) \/ work' = Move(w, "retest")
    BY <1>0, <2>1, <2>2, MoveRewrites DEF WorkMoves, Goes
  <2>3. CASE /\ stages' = Append(stages, [tag |-> w.tag, rev |-> jobs[Refresh].rev[w.tag], by |-> "work", st |-> "parsed"])
             /\ work' = [work EXCEPT ![w].pc = "commit", ![w].stage = Len(stages) + 1]
    BY <1>0, <2>1, <2>3, MoveRewrites DEF WorkMoves
  <2> QED BY <1>2, <2>2, <2>3 DEF WorkFetch
<1>3. CASE WorkCommit(w)
  <2>1. work[w].pc = "commit" /\ at /\ applier' = applier
    BY <1>3 DEF WorkCommit, Working
  <2>2. CASE work' = Row(w, "failed")
    BY <1>0, <2>1, <2>2, MoveRewrites DEF WorkMoves, Goes
  <2>3. CASE Store(NewJob("import", Refresh, s)) /\ work' = [work EXCEPT ![w].pc = "wait", ![w].child = Len(jobs) + 1]
    BY <1>0, <2>1, <2>3, MoveRewrites DEF WorkMoves, Store
  <2> QED BY <1>3, <2>2, <2>3 DEF WorkCommit
<1>4. CASE WorkRetest(w)
  <2>1. work[w].pc = "retest" /\ at /\ applier' = applier
    BY <1>4 DEF WorkRetest, Working
  <2>2. CASE work' = Row(w, "failed")
    BY <1>0, <2>1, <2>2, MoveRewrites DEF WorkMoves, Goes
  <2>3. CASE /\ Store([NewJob("test", Refresh, 0) EXCEPT !.rev = Marks({w.tag})])
             /\ work' = [work EXCEPT ![w].pc = "watch", ![w].child = Len(jobs) + 1]
    BY <1>0, <2>1, <2>3, MoveRewrites DEF WorkMoves, Store
  <2> QED BY <1>4, <2>2, <2>3 DEF WorkRetest
<1>5. CASE WorkTested(w)
  <2>1. work[w].pc = "wait" /\ at /\ applier' = applier
    BY <1>5 DEF WorkTested, Working
  <2>2. (\E row \in {"failed", "completed"} : work' = Row(w, row)) \/ \E pc \in {"lock", "retest"} : work' = Move(w, pc)
    BY <1>5 DEF WorkTested
  <2> QED BY <1>0, <2>1, <2>2, MoveRewrites DEF WorkMoves, Goes
<1>6. CASE WorkWatched(w)
  <2>1. work[w].pc = "watch" /\ at /\ applier' = applier /\ \E row \in {"failed", "completed"} : work' = Row(w, row)
    BY <1>6 DEF WorkWatched, Working
  <2> QED BY <1>0, <2>1, MoveRewrites DEF WorkMoves, Goes
<1>7. CASE WorkStop(w)
  <2>1. work[w].pc \in {"wait", "watch"} /\ at /\ applier' = applier /\ work' = Move(w, "stop")
    BY <1>7 DEF WorkStop, Working
  <2> QED BY <1>0, <2>1, MoveRewrites DEF WorkMoves, Goes
<1>8. CASE WorkStopped(w)
  <2>1. work[w].pc = "stop" /\ at /\ applier' = applier /\ work' = Row(w, "failed")
    BY <1>8 DEF WorkStopped, Working
  <2> QED BY <1>0, <2>1, MoveRewrites DEF WorkMoves, Goes
<1>9. CASE WorkLock(w)
  <2>1. work[w].pc = "lock" /\ at /\ applier = 0 /\ jobs' = jobs /\ pool' = pool /\ revs' = revs
    BY <1>9 DEF WorkLock, Working
  <2>2. CASE work' = Row(w, "failed") /\ applier' = applier
    BY <1>0, <2>1, <2>2, MoveRewrites DEF WorkMoves, Goes
  <2>3. CASE work' = Move(w, "apply") /\ applier' = Refresh /\ Applicable(s, stages[s].rev) /\ stages' = stages
    BY <1>0, <2>1, <2>3, MoveRewrites DEF WorkMoves
  <2> QED BY <1>9, <2>2, <2>3 DEF WorkLock
<1>10. CASE WorkApply(w)
  <2>1. work[w].pc = "apply" /\ at /\ applier' = 0 /\ jobs' = jobs /\ \E row \in {"failed", "completed"} : work' = Row(w, row)
    BY <1>10 DEF WorkApply, Working
  <2> QED BY <1>0, <2>1, MoveRewrites DEF WorkMoves
<1> QED BY <1>1, <1>2, <1>3, <1>4, <1>5, <1>6, <1>7, <1>8, <1>9, <1>10 DEF WorkStep

-----------------------------------------------------------------------------
\* How the pool changes: a job takes back what it or others wrote, a test
\* marks the tags it tested, a stage replaces its tag.
Only(j)      == \A k \in Ids \ {j} : jobs'[k] = jobs[k]
Publishes(s) == pool' = [pool EXCEPT ![stages[s].tag] = [rev |-> stages[s].rev, test |-> 0]]
Restoring(j) ==
    /\ Holds(jobs[j]) /\ jobs[j].pc \in {"queue", "verify", "results", "country", "reload"}
    /\ jobs[j].live = "go" /\ Only(j)
    /\ pool' = jobs[j].snap.pool
Marking(j) ==
    /\ jobs[j].kind = "test" /\ jobs[j].pc \in {"results", "country"} /\ jobs[j].live = "go"
    /\ Only(j)
    /\ pool' = Tested(j)
Importing(j) ==
    /\ jobs[j].kind = "import" /\ jobs[j].pc = "apply" /\ jobs[j].live = "go" /\ Only(j)
    /\ jobs[j].stage \in DOMAIN stages /\ Publishes(jobs[j].stage)
    /\ jobs'[j].pc = "write" /\ jobs'[j].end # "canceled"
Applying(w) ==
    /\ work[w].pc = "apply" /\ (\E j \in Ids : Going(j, "queue")) /\ jobs' = jobs
    /\ work[w].stage \in DOMAIN stages /\ Publishes(work[w].stage)
PoolMoves ==
    \/ pool' = pool
    \/ \E j \in Ids : Restoring(j) \/ Marking(j) \/ Importing(j)
    \/ \E w \in DOMAIN work : Applying(w)

\* One job changes, no other.
LEMMA PutOnly ==
    ASSUME jobs \in Seq(JobType), NEW j \in Ids, NEW r \in JobType, jobs' = Put(j, r)
    PROVE  Only(j) /\ jobs'[j] = r /\ Len(jobs') = Len(jobs)
  BY PutFacts DEF Only

\* The same for whatever record.
LEMMA ExceptOnly ==
    ASSUME jobs \in Seq(JobType), NEW j \in Ids, NEW r, jobs' = Put(j, r)
    PROVE  Only(j)
  BY DEF Only, Put, Ids

\* The job that changes, and the others.
LEMMA PutThis ==
    ASSUME jobs \in Seq(JobType), NEW j \in Ids, NEW r, jobs' = Put(j, r)
    PROVE  Only(j) /\ jobs'[j] = r
  BY DEF Only, Put, Ids

\* The writes and restores of a test.
LEMMA TestMoves ==
    ASSUME Types, Shapes, NEW j \in Ids, TestPhase(j) \/ TestReload(j)
    PROVE  PoolMoves
<1>0. jobs \in Seq(JobType) /\ jobs[j] \in JobType /\ Shape(jobs[j])
  BY JobHere DEF Types
<1>1. jobs[j].pc \in {"results", "country", "reload"} /\ jobs[j].kind = "test" /\ jobs[j].live = "go"
  BY <1>0, KindOf DEF TestPhase, TestReload, Going, After
<1>2. Only(j)
  <2>1. \E r : jobs' = Put(j, r)
    BY DEF TestPhase, TestReload, TestEnd, Finish, FinishBadly
  <2> QED BY <1>0, <2>1, ExceptOnly
<1>3. \/ pool' = pool
      \/ Top(j) /\ pool' = jobs[j].snap.pool
      \/ pool' = Tested(j) /\ jobs[j].pc \in {"results", "country"}
  BY DEF TestPhase, TestReload, TestEnd, Restore, store, After
<1>4. Top(j) => Holds(jobs[j])
  BY <1>1 DEF Top, Holds
<1> QED BY <1>1, <1>2, <1>3, <1>4 DEF PoolMoves, Restoring, Marking

\* The restores of a refresh.
LEMMA RefreshMoves ==
    ASSUME Types, Shapes, NEW j \in Ids, QueueEnd(j) \/ RefreshVerify(j)
    PROVE  PoolMoves
<1>0. jobs \in Seq(JobType) /\ jobs[j] \in JobType /\ Shape(jobs[j])
  BY JobHere DEF Types
<1>1. jobs[j].pc \in {"queue", "verify"} /\ jobs[j].kind = "refresh" /\ jobs[j].live = "go"
  BY <1>0, KindOf DEF QueueEnd, RefreshVerify, Going
<1>2. Only(j)
  <2>1. \E r : jobs' = Put(j, r)
    BY DEF QueueEnd, RefreshVerify, At
  <2> QED BY <1>0, <2>1, ExceptOnly
<1>3. pool' = pool \/ pool' = jobs[j].snap.pool
  BY DEF QueueEnd, RefreshVerify, Restore, store
<1>4. Holds(jobs[j])
  BY <1>1 DEF Holds
<1> QED BY <1>1, <1>2, <1>3, <1>4 DEF PoolMoves, Restoring

\* The publications.
LEMMA ApplyMoves ==
    ASSUME Types, Shapes, Linked,
           (\E j \in Ids : ImportApply(j)) \/ (\E w \in DOMAIN work : WorkApply(w))
    PROVE  PoolMoves
<1>0. jobs \in Seq(JobType)
  BY DEF Types
<1>1. ASSUME NEW j \in Ids, ImportApply(j)
      PROVE  PoolMoves
  <2>1. jobs[j].pc = "apply" /\ jobs[j].kind = "import" /\ jobs[j].live = "go"
    BY <1>1 DEF ImportApply, Going
  <2>2. Only(j)
    <3>1. \E r : jobs' = Put(j, r)
      BY <1>1 DEF ImportApply, Ends
    <3> QED BY <1>0, <3>1, ExceptOnly
  <2>3. jobs[j].stage \in DOMAIN stages
    BY <2>1, StageOf
  <2>4. pool' = pool \/ (Publishes(jobs[j].stage) /\ jobs' = Ends(j, Verdict(j)))
    BY <1>1 DEF ImportApply, Publish, Publishes
  <2>5. ASSUME jobs' = Ends(j, Verdict(j))
        PROVE  jobs'[j].pc = "write" /\ jobs'[j].end # "canceled"
    <3>1. jobs'[j] = [jobs[j] EXCEPT !.pc = "write", !.end = Verdict(j)] /\ jobs[j] \in JobType
      BY <1>0, <2>5, PutThis DEF Ends, Ids
    <3> QED BY <3>1 DEF JobType, Verdict
  <2> QED BY <2>1, <2>2, <2>3, <2>4, <2>5 DEF PoolMoves, Importing
<1>2. ASSUME NEW w \in DOMAIN work, WorkApply(w)
      PROVE  PoolMoves
  <2>1. work[w].pc = "apply" /\ (\E j \in Ids : Going(j, "queue")) /\ jobs' = jobs
    BY <1>2 DEF WorkApply, Working
  <2>2. work[w].stage \in DOMAIN stages
    BY <2>1, StageOf DEF Linked
  <2>3. pool' = pool \/ Publishes(work[w].stage)
    BY <1>2 DEF WorkApply, Publish, Publishes
  <2> QED BY <2>1, <2>2, <2>3 DEF PoolMoves, Applying
<1> QED BY <1>1, <1>2

\* Every step moves the pool so.
LEMMA PoolGoesOn ==
    ASSUME Types, Shapes, Linked, Next
    PROVE  PoolMoves
<1>1. CASE StartRefresh \/ StartBatchTest \/ StartTagBinding \/ ParseRevise \/ ParseStore \/ CloseBegin \/ CloseEnd
  BY <1>1 DEF StartRefresh, StartBatchTest, StartTagBinding, ParseRevise, ParseStore, CloseBegin, CloseEnd,
     PoolMoves, store
<1>2. CASE \E t \in Tags : ParseBegin(t)
  BY <1>2 DEF ParseBegin, PoolMoves, store
<1>3. CASE \E s \in DOMAIN stages : CommitRead(s) \/ CommitStore(s)
  BY <1>3 DEF CommitRead, CommitStore, PoolMoves, store
<1>4. CASE \E j \in Ids : Launch(j) \/ Cancel(j) \/ CancelAct(j)
  BY <1>4 DEF Launch, Cancel, CancelAct, PoolMoves, store
<1>5. ASSUME NEW j \in Ids, Step(j) PROVE PoolMoves
  <2>1. CASE \/ ImportProbe(j) \/ ImportSaved(j) \/ ImportLock(j) \/ ImportWrite(j) \/ TestBegin(j)
             \/ RefreshFinal(j) \/ RefreshExit(j) \/ Exit(j)
             \/ BindingNext(j) \/ BindingCommit(j) \/ BindingTested(j) \/ BindingStop(j) \/ BindingStopped(j)
    BY <2>1 DEF ImportProbe, ImportSaved, ImportLock, ImportWrite, TestBegin, RefreshFinal, RefreshExit, Exit,
                BindingNext, BindingCommit, BindingTested, BindingStop, BindingStopped, PoolMoves, store
  <2> QED BY <1>5, <2>1, TestMoves, RefreshMoves, ApplyMoves DEF Step
<1>6. ASSUME NEW w \in DOMAIN work, WorkStep(w) PROVE PoolMoves
  <2>1. CASE \/ WorkStart(w) \/ WorkFetch(w) \/ WorkCommit(w) \/ WorkRetest(w) \/ WorkTested(w)
             \/ WorkWatched(w) \/ WorkStop(w) \/ WorkStopped(w) \/ WorkLock(w)
    BY <2>1 DEF WorkStart, WorkFetch, WorkCommit, WorkRetest, WorkTested, WorkWatched, WorkStop, WorkStopped, WorkLock,
                PoolMoves, store
  <2> QED BY <1>6, <2>1, ApplyMoves DEF WorkStep
<1> QED BY <1>1, <1>2, <1>3, <1>4, <1>5, <1>6 DEF Next

\* The pool stays one.
LEMMA PoolStays ==
    ASSUME Types, Shapes, PoolMoves
    PROVE  pool' \in Pools
<1>0. pool \in Pools /\ stages \in Seq(StageType)
  BY DEF Types
<1>1. ASSUME NEW j \in Ids, Restoring(j) PROVE pool' \in Pools
  BY <1>1, HeldSnap DEF Restoring
<1>2. ASSUME NEW j \in Ids, Marking(j) PROVE pool' \in Pools
  <2>1. \A t \in Tags : pool[t] \in [rev : Nat, test : Nat] /\ j \in Nat
    BY <1>0 DEF Pools, Ids
  <2>2. \A t \in Tags : [pool[t] EXCEPT !.test = j] \in [rev : Nat, test : Nat]
    BY <2>1
  <2>3. Tested(j) \in Pools
    BY <2>1, <2>2 DEF Tested, Pools
  <2> QED BY <1>2, <2>3 DEF Marking
<1>3. ASSUME NEW s \in DOMAIN stages, Publishes(s) PROVE pool' \in Pools
  <2>1. stages[s] \in StageType
    BY <1>0
  <2> QED BY <1>0, <1>3, <2>1 DEF Publishes, Pools, StageType
<1> QED BY <1>0, <1>1, <1>2, <1>3 DEF PoolMoves, Importing, Applying

\* Revisions only grow.
LEMMA RevsGrow ==
    ASSUME Types, Next
    PROVE  revs' \in [Tags -> Nat] /\ \A t \in Tags : revs'[t] >= revs[t]
<1>0. revs \in [Tags -> Nat]
  BY DEF Types
<1>1. CASE StartRefresh
  BY <1>0, <1>1 DEF StartRefresh
<1>2. CASE ParseRevise
  <2>1. parse.tag \in Tags
    BY <1>2 DEF ParseRevise, Types
  <2> QED BY <1>0, <1>2, <2>1 DEF ParseRevise
<1>3. ASSUME NEW j \in Ids, BindingNext(j)
      PROVE  revs' = revs \/ \E t \in Tags : revs' = [revs EXCEPT ![t] = @ + 1]
  BY <1>3 DEF BindingNext, Todo
<1>4. CASE revs' = revs
  BY <1>0, <1>4
<1>5. ASSUME NEW t \in Tags, revs' = [revs EXCEPT ![t] = @ + 1]
      PROVE  revs' \in [Tags -> Nat] /\ \A u \in Tags : revs'[u] >= revs[u]
  BY <1>0, <1>5
<1>6. StartRefresh \/ ParseRevise \/ (\E j \in Ids : BindingNext(j)) \/ revs' = revs
  <2>1. CASE StartBatchTest \/ StartTagBinding \/ ParseStore \/ CloseBegin \/ CloseEnd
    BY <2>1 DEF StartBatchTest, StartTagBinding, ParseStore, CloseBegin, CloseEnd
  <2>2. CASE \/ \E t \in Tags : ParseBegin(t)
             \/ \E s \in DOMAIN stages : CommitRead(s) \/ CommitStore(s)
    BY <2>2 DEF ParseBegin, CommitRead, CommitStore
  <2>3. CASE \E j \in Ids : Launch(j) \/ Cancel(j) \/ CancelAct(j)
    BY <2>3 DEF Launch, Cancel, CancelAct
  <2>4. CASE \E j \in Ids : Step(j)
    BY <2>4 DEF Step, ImportProbe, ImportSaved, ImportLock, ImportApply, ImportWrite, TestBegin, TestPhase, TestReload,
                QueueEnd, RefreshVerify, RefreshFinal, RefreshExit, BindingCommit, BindingTested, BindingStop,
                BindingStopped, Exit
  <2>5. CASE \E w \in DOMAIN work : WorkStep(w)
    BY <2>5 DEF WorkStep, WorkStart, WorkFetch, WorkCommit, WorkRetest, WorkTested, WorkWatched, WorkStop, WorkStopped,
                WorkLock, WorkApply
  <2> QED BY <2>1, <2>2, <2>3, <2>4, <2>5 DEF Next
<1> QED BY <1>1, <1>2, <1>3, <1>4, <1>5, <1>6

-----------------------------------------------------------------------------
\* The work list changes when a refresh starts and with the steps of works.
LEMMA WorkStays ==
    ASSUME Next, ~StartRefresh, \A w \in DOMAIN work : ~WorkStep(w)
    PROVE  work' = work /\ reason' = reason
<1>1. CASE StartBatchTest \/ StartTagBinding \/ ParseRevise \/ ParseStore \/ CloseBegin \/ CloseEnd
  BY <1>1 DEF StartBatchTest, StartTagBinding, ParseRevise, ParseStore, CloseBegin, CloseEnd
<1>2. CASE \/ \E t \in Tags : ParseBegin(t)
           \/ \E s \in DOMAIN stages : CommitRead(s) \/ CommitStore(s)
  BY <1>2 DEF ParseBegin, CommitRead, CommitStore
<1>3. CASE \E j \in Ids : Launch(j) \/ Cancel(j) \/ CancelAct(j)
  BY <1>3 DEF Launch, Cancel, CancelAct
<1>4. CASE \E j \in Ids : Step(j)
  BY ZenonT(40), <1>4 DEF Step, ImportProbe, ImportSaved, ImportLock, ImportApply, ImportWrite, TestBegin, TestPhase, TestReload,
              QueueEnd, RefreshVerify, RefreshFinal, RefreshExit, BindingNext, BindingCommit, BindingTested,
              BindingStop,
              BindingStopped, Exit
<1> QED BY <1>1, <1>2, <1>3, <1>4 DEF Next

\* Works stay works.
LEMMA WorkTypes ==
    ASSUME Types, Next
    PROVE  work' \in [DOMAIN work' -> WorkType] /\ DOMAIN work' \subseteq Works
<1>0. work \in [DOMAIN work -> WorkType] /\ DOMAIN work \subseteq Works
  BY DEF Types
<1>1. CASE StartRefresh
  <2>1. Idle \in WorkType
    BY DEF Idle, WorkType
  <2>2. work' = [w \in Targets |-> Idle] /\ Targets \subseteq Works
    BY <1>1 DEF StartRefresh, Targets
  <2> QED BY <2>1, <2>2
<1>2. ASSUME NEW w \in DOMAIN work, WorkStep(w)
      PROVE  work' \in [DOMAIN work' -> WorkType] /\ DOMAIN work' \subseteq Works
  BY <1>0, <1>2, WorkGoesOn DEF WorkMoves, Rewritten
<1> QED BY <1>0, <1>1, <1>2, WorkStays

\* How the call of Parse goes on.
LEMMA ParseMoves ==
    ASSUME Types, Next
    PROVE  (\E t \in Tags : ParseBegin(t)) \/ ParseRevise \/ ParseStore \/ parse' = parse
<1>1. CASE StartRefresh \/ StartBatchTest \/ StartTagBinding \/ CloseBegin \/ CloseEnd
  BY <1>1 DEF StartRefresh, StartBatchTest, StartTagBinding, CloseBegin, CloseEnd, calls
<1>2. CASE \E s \in DOMAIN stages : CommitRead(s) \/ CommitStore(s)
  BY <1>2 DEF CommitRead, CommitStore
<1>3. CASE \E j \in Ids : Launch(j) \/ Cancel(j) \/ CancelAct(j)
  BY <1>3 DEF Launch, Cancel, CancelAct
<1>4. CASE \E j \in Ids : Step(j)
  BY ZenonT(40), <1>4 DEF Step, ImportProbe, ImportSaved, ImportLock, ImportApply, ImportWrite, TestBegin, TestPhase, TestReload,
              QueueEnd, RefreshVerify, RefreshFinal, RefreshExit, BindingNext, BindingCommit, BindingTested,
              BindingStop,
              BindingStopped, Exit, calls
<1>5. CASE \E w \in DOMAIN work : WorkStep(w)
  BY <1>5 DEF WorkStep, WorkStart, WorkFetch, WorkCommit, WorkRetest, WorkTested, WorkWatched, WorkStop, WorkStopped,
              WorkLock, WorkApply, calls
<1> QED BY <1>1, <1>2, <1>3, <1>4, <1>5 DEF Next

\* The call of Parse keeps its type.
LEMMA ParseTypes ==
    ASSUME Types, Next
    PROVE  parse' \in ParseType /\ (parse'.pc # "idle" => parse'.tag \in Tags)
<1>0. parse \in ParseType /\ (parse.pc # "idle" => parse.tag \in Tags) /\ revs' \in [Tags -> Nat]
  BY RevsGrow DEF Types
<1>1. ASSUME NEW t \in Tags, ParseBegin(t)
      PROVE  parse' \in ParseType /\ (parse'.pc # "idle" => parse'.tag \in Tags)
  BY <1>1 DEF ParseBegin, ParseType
<1>2. CASE ParseRevise
  <2>1. parse.tag \in Tags /\ revs'[parse.tag] \in Nat
    BY <1>0, <1>2 DEF ParseRevise
  <2> QED BY <1>0, <1>2, <2>1 DEF ParseRevise, ParseType
<1>3. CASE ParseStore
  BY <1>3 DEF ParseStore, NoParse, ParseType
<1> QED BY <1>0, <1>1, <1>2, <1>3, ParseMoves

\* Whoever starts a job holds testStartMu until the job's launch.
LEMMA StartTypes ==
    ASSUME Types, Next
    PROVE  \/ starting' = starting \/ starting' = 0
           \/ starting' = Len(jobs) + 1 /\ \E r : jobs' = Append(jobs, r)
<1>1. CASE StartRefresh \/ StartBatchTest \/ StartTagBinding \/ ParseRevise \/ ParseStore \/ CloseBegin \/ CloseEnd
  BY <1>1 DEF StartRefresh, StartBatchTest, StartTagBinding, ParseRevise, ParseStore, CloseBegin, CloseEnd, calls, Store
<1>2. CASE \/ \E t \in Tags : ParseBegin(t)
           \/ \E s \in DOMAIN stages : CommitRead(s) \/ CommitStore(s)
  BY <1>2 DEF ParseBegin, CommitRead, CommitStore
<1>3. CASE \E j \in Ids : Launch(j) \/ Cancel(j) \/ CancelAct(j)
  BY <1>3 DEF Launch, Cancel, CancelAct
<1>4. CASE \E j \in Ids : Step(j)
  BY ZenonT(40), <1>4 DEF Step, ImportProbe, ImportSaved, ImportLock, ImportApply, ImportWrite, TestBegin, TestPhase, TestReload,
              QueueEnd, RefreshVerify, RefreshFinal, RefreshExit, BindingNext, BindingCommit, BindingTested,
              BindingStop,
              BindingStopped, Exit, calls
<1>5. CASE \E w \in DOMAIN work : WorkStep(w)
  BY <1>5 DEF WorkStep, WorkStart, WorkFetch, WorkCommit, WorkRetest, WorkTested, WorkWatched, WorkStop, WorkStopped,
              WorkLock, WorkApply, calls, Store
<1> QED BY <1>1, <1>2, <1>3, <1>4, <1>5 DEF Next

\* Who takes and who releases applyMu.
LEMMA ApplierMoves ==
    ASSUME Types, Next
    PROVE  \/ applier' = applier
           \/ \E j \in Ids : ImportLock(j) \/ TestBegin(j) \/ ImportApply(j) \/ Exit(j)
           \/ \E w \in DOMAIN work : WorkLock(w) \/ WorkApply(w)
<1>1. CASE StartRefresh \/ StartBatchTest \/ StartTagBinding \/ ParseRevise \/ ParseStore \/ CloseBegin \/ CloseEnd
  BY <1>1 DEF StartRefresh, StartBatchTest, StartTagBinding, ParseRevise, ParseStore, CloseBegin, CloseEnd
<1>2. CASE \/ \E t \in Tags : ParseBegin(t)
           \/ \E s \in DOMAIN stages : CommitRead(s) \/ CommitStore(s)
  BY <1>2 DEF ParseBegin, CommitRead, CommitStore
<1>3. CASE \E j \in Ids : Launch(j) \/ Cancel(j) \/ CancelAct(j)
  BY <1>3 DEF Launch, Cancel, CancelAct
<1>4. CASE \E j \in Ids : Step(j)
  BY ZenonT(40), <1>4 DEF Step, ImportProbe, ImportSaved, ImportWrite, TestPhase, TestReload,
              QueueEnd, RefreshVerify, RefreshFinal, RefreshExit, BindingNext, BindingCommit, BindingTested,
              BindingStop,
              BindingStopped
<1>5. CASE \E w \in DOMAIN work : WorkStep(w)
  BY <1>5 DEF WorkStep, WorkStart, WorkFetch, WorkCommit, WorkRetest, WorkTested, WorkWatched, WorkStop, WorkStopped
<1> QED BY <1>1, <1>2, <1>3, <1>4, <1>5 DEF Next

\* The holder of applyMu is a job.
LEMMA ApplierTypes ==
    ASSUME Types, Shapes, Next
    PROVE  applier' = applier \/ applier' = 0 \/ applier' \in Ids
<1>1. ASSUME NEW j \in Ids, ImportLock(j) \/ TestBegin(j) \/ ImportApply(j) \/ Exit(j)
      PROVE  applier' = applier \/ applier' = 0 \/ applier' \in Ids
  BY <1>1 DEF ImportLock, TestBegin, ImportApply, Exit
<1>2. ASSUME NEW w \in DOMAIN work, WorkLock(w) \/ WorkApply(w)
      PROVE  applier' = applier \/ applier' = 0 \/ applier' \in Ids
  <2>1. Refresh \in Ids
    BY <1>2, WorkingFacts DEF WorkLock, WorkApply, Working
  <2> QED BY <1>2, <2>1 DEF WorkLock, WorkApply
<1> QED BY <1>1, <1>2, ApplierMoves

\* What is cancelled is a job.
LEMMA CancelsTypes ==
    ASSUME Types, Linked, Bound, Next
    PROVE  \/ cancels' \subseteq cancels
           \/ \E c \in Ids : cancels' = cancels \cup {c} /\ jobs[c].status = "running"
<1>1. CASE StartRefresh \/ StartBatchTest \/ StartTagBinding \/ ParseRevise \/ ParseStore \/ CloseBegin \/ CloseEnd
  BY <1>1 DEF StartRefresh, StartBatchTest, StartTagBinding, ParseRevise, ParseStore, CloseBegin, CloseEnd, calls
<1>2. CASE \/ \E t \in Tags : ParseBegin(t)
           \/ \E s \in DOMAIN stages : CommitRead(s) \/ CommitStore(s)
  BY <1>2 DEF ParseBegin, CommitRead, CommitStore
<1>3. CASE \E j \in Ids : Launch(j) \/ Cancel(j) \/ CancelAct(j)
  BY <1>3 DEF Launch, Cancel, CancelAct
<1>4. ASSUME NEW j \in Ids, Step(j)
      PROVE  \/ cancels' \subseteq cancels
             \/ \E c \in Ids : cancels' = cancels \cup {c} /\ jobs[c].status = "running"
  <2>1. CASE BindingStop(j)
    <3>1. Child(j) \in Ids
      BY <2>1, ChildFacts DEF BindingStop, Going
    <3> QED BY <2>1, <3>1 DEF BindingStop, StopChild
  <2>2. CASE ~BindingStop(j)
    BY <1>4, <2>2 DEF Step, ImportProbe, ImportSaved, ImportLock, ImportApply, ImportWrite, TestBegin, TestPhase,
       TestReload,
              QueueEnd, RefreshVerify, RefreshFinal, RefreshExit, BindingNext, BindingCommit, BindingTested,
              BindingStopped, Exit, calls
  <2> QED BY <2>1, <2>2
<1>5. ASSUME NEW w \in DOMAIN work, WorkStep(w)
      PROVE  \/ cancels' \subseteq cancels
             \/ \E c \in Ids : cancels' = cancels \cup {c} /\ jobs[c].status = "running"
  <2>1. CASE WorkStop(w)
    <3>1. work[w].child \in Nat /\ work[w].child # 0 /\ work[w].child <= Len(jobs) /\ Len(jobs) \in Nat
      BY <2>1 DEF WorkStop, Working, Linked, Types, WorkType
    <3>2. work[w].child \in Ids
      BY <3>1 DEF Ids
    <3> QED BY <2>1, <3>2 DEF WorkStop, StopChild
  <2>2. CASE ~WorkStop(w)
    BY <1>5, <2>2 DEF WorkStep, WorkStart, WorkFetch, WorkCommit, WorkRetest, WorkTested, WorkWatched, WorkStopped,
              WorkLock, WorkApply, calls
  <2> QED BY <2>1, <2>2
<1> QED BY <1>1, <1>2, <1>3, <1>4, <1>5 DEF Next

\* The reason keeps its type.
LEMMA ReasonTypes ==
    ASSUME Types, Next
    PROVE  reason' \in {"none", "kept", "broken"}
<1>0. reason \in {"none", "kept", "broken"}
  BY DEF Types
<1>1. CASE StartRefresh
  BY <1>1 DEF StartRefresh
<1>2. ASSUME NEW w \in DOMAIN work, WorkStep(w)
      PROVE  reason' \in {"none", "kept", "broken"}
  <2>1. reason' = reason \/ \E why \in {"kept", "broken"} : Protects(why)
    BY <1>2 DEF WorkStep, WorkStart, WorkFetch, WorkCommit, WorkRetest, WorkTested, WorkWatched, WorkStop, WorkStopped,
                WorkLock, WorkApply
  <2> QED BY <1>0, <2>1 DEF Protects
<1> QED BY <1>0, <1>1, <1>2, WorkStays

\* Only CloseBegin and CloseEnd change the two.
LEMMA CloseMoves ==
    ASSUME Next
    PROVE  \/ closing' = closing /\ closed' = closed
           \/ CloseBegin /\ ~closing /\ closing' = TRUE /\ closed' = closed
           \/ CloseEnd /\ closing' = closing /\ closed' = TRUE
<1>1. CASE StartRefresh \/ StartBatchTest \/ StartTagBinding \/ ParseRevise \/ ParseStore \/ CloseBegin \/ CloseEnd
  BY <1>1 DEF StartRefresh, StartBatchTest, StartTagBinding, ParseRevise, ParseStore, CloseBegin, CloseEnd
<1>2. CASE \/ \E t \in Tags : ParseBegin(t)
           \/ \E s \in DOMAIN stages : CommitRead(s) \/ CommitStore(s)
  BY <1>2 DEF ParseBegin, CommitRead, CommitStore
<1>3. CASE \E j \in Ids : Launch(j) \/ Cancel(j) \/ CancelAct(j)
  BY <1>3 DEF Launch, Cancel, CancelAct
<1>4. ASSUME NEW j \in Ids, Step(j)
      PROVE  closing' = closing /\ closed' = closed
  <2>1. CASE \/ ImportProbe(j) \/ ImportSaved(j) \/ ImportLock(j) \/ ImportApply(j) \/ ImportWrite(j)
             \/ TestBegin(j) \/ TestPhase(j) \/ TestReload(j) \/ Exit(j)
    BY <2>1 DEF ImportProbe, ImportSaved, ImportLock, ImportApply, ImportWrite, TestBegin, TestPhase, TestReload, Exit
  <2>2. CASE \/ QueueEnd(j) \/ RefreshVerify(j) \/ RefreshFinal(j) \/ RefreshExit(j)
             \/ BindingNext(j) \/ BindingCommit(j) \/ BindingTested(j) \/ BindingStop(j) \/ BindingStopped(j)
    BY <2>2 DEF QueueEnd, RefreshVerify, RefreshFinal, RefreshExit, BindingNext, BindingCommit, BindingTested,
       BindingStop,
                BindingStopped
  <2> QED BY <1>4, <2>1, <2>2 DEF Step
<1>5. CASE \E w \in DOMAIN work : WorkStep(w)
  BY <1>5 DEF WorkStep, WorkStart, WorkFetch, WorkCommit, WorkRetest, WorkTested, WorkWatched, WorkStop, WorkStopped,
              WorkLock, WorkApply
<1> QED BY <1>1, <1>2, <1>3, <1>4, <1>5 DEF Next

\* Jobs keep their shape.
LEMMA ShapesStep ==
    ASSUME Types, GoOn
    PROVE  Shapes'
<1>0. jobs \in Seq(JobType) /\ jobs' \in Seq(JobType)
  BY DEF Types, GoOn
<1>1. \A k \in 1..Len(jobs') : k \in Ids \/ (k = Len(jobs) + 1 /\ Len(jobs') = Len(jobs) + 1)
  BY <1>0 DEF GoOn, Ids
<1>2. \A k \in 1..Len(jobs') : Shape(jobs'[k])
  BY <1>1 DEF GoOn, Kept, Fresh
<1> QED BY <1>2 DEF Shapes, Ids, Shape

\* Types is inductive.
LEMMA TypesStep ==
    ASSUME Types, Shapes, Linked, Bound, Next
    PROVE  Types'
<1>1. /\ jobs' \in Seq(JobType) /\ Len(jobs') \in Nat /\ Len(jobs) \in Nat
      /\ Len(jobs') = Len(jobs) \/ Len(jobs') = Len(jobs) + 1
  BY JobsGoOn DEF GoOn, Types
<1>2. stages' \in Seq(StageType) /\ readers' \in Seq(Nat) /\ Len(readers') = Len(stages')
  BY StagesStand DEF Stands
<1>3. pool' \in Pools /\ revs' \in [Tags -> Nat]
  BY PoolGoesOn, PoolStays, RevsGrow
<1>4. starting' \in Nat /\ starting' <= Len(jobs')
  <2>1. CASE starting' = starting \/ starting' = 0
    BY <1>1, <2>1 DEF Types
  <2>2. CASE starting' = Len(jobs) + 1 /\ \E r : jobs' = Append(jobs, r)
    BY <1>1, <2>2 DEF Types
  <2> QED BY <2>1, <2>2, StartTypes
<1>5. applier' \in Nat /\ applier' <= Len(jobs')
  BY <1>1, ApplierTypes DEF Types, Ids
<1>6. cancels' \subseteq Ids'
  BY <1>1, CancelsTypes DEF Types, Ids
<1>7. closing' \in BOOLEAN /\ closed' \in BOOLEAN
  BY CloseMoves DEF Types
<1> QED BY <1>1, <1>2, <1>3, <1>4, <1>5, <1>6, <1>7, WorkTypes, ParseTypes, ReasonTypes DEF Types

-----------------------------------------------------------------------------
\* A binding that has committed its stage owns the import of it.
LEMMA CommitFacts ==
    ASSUME Types, Shapes, Linked, NEW j \in Ids, BindingCommit(j)
    PROVE  /\ Only(j)
           /\ jobs'[j].pc \in {"wait", "stop"} =>
                 /\ Len(jobs') = Len(jobs) + 1
                 /\ jobs'[Len(jobs) + 1].owner = j /\ jobs'[Len(jobs) + 1].stage = jobs[j].stage
                 /\ jobs'[Len(jobs) + 1].kind = "import"
<1>0. jobs \in Seq(JobType) /\ jobs[j] \in JobType /\ Shape(jobs[j])
  BY JobHere DEF Types
<1>1. jobs[j].pc = "commit" /\ jobs[j].kind = "binding"
  BY <1>0, KindOf DEF BindingCommit, Going
<1>2. CASE jobs' = Item(j, "bad")
  <2>1. PICK r : Kept(jobs[j], r) /\ r.pc \in {"next", "exit"} /\ Item(j, "bad") = Put(j, r)
    BY <1>1, ItemKept
  <2>2. r \in JobType
    BY <2>1 DEF Kept
  <2> QED BY <1>0, <1>2, <2>1, <2>2, PutOnly
<1>3. CASE jobs' = Append(At(j, "wait"), NewJob("import", j, jobs[j].stage))
  <2> DEFINE job == [jobs[j] EXCEPT !.pc = "wait"]
             new == NewJob("import", j, jobs[j].stage)
  <2>1. Kept(jobs[j], job)
    BY <1>0, <1>1, BindingMovesKept DEF Committing
  <2>2. j \in Nat /\ jobs[j].stage \in Nat /\ "import" \in Kinds
    BY <1>0 DEF Ids, JobType, Kinds
  <2>3. NewFacts(new, "import", j, jobs[j].stage)
    BY <2>2, NewJobFacts
  <2>4. job \in JobType /\ new \in JobType
    BY <2>1, <2>3 DEF Kept, NewFacts
  <2>5. At(j, "wait") = Put(j, job)
    BY DEF At
  <2> HIDE DEF job, new
  <2>6. /\ Put(j, job) \in Seq(JobType) /\ Len(Put(j, job)) = Len(jobs)
        /\ \A k \in Ids : Put(j, job)[k] = IF k = j THEN job ELSE jobs[k]
    BY <1>0, <2>4, PutFacts
  <2>7. jobs' = Append(Put(j, job), new)
    BY <1>3, <2>5 DEF new
  <2>8. /\ Len(jobs') = Len(jobs) + 1 /\ jobs'[Len(jobs) + 1] = new
        /\ \A k \in Ids : jobs'[k] = IF k = j THEN job ELSE jobs[k]
    BY <2>4, <2>6, <2>7 DEF Ids
  <2> QED BY <2>3, <2>8 DEF Only, NewFacts
<1> QED BY <1>2, <1>3 DEF BindingCommit

\* A binding waits for an import of its own, after any step.
LEMMA BoundStep ==
    ASSUME Types, Shapes, Linked, Bound, Next
    PROVE  Bound'
<1>0. GoOn /\ jobs \in Seq(JobType) /\ jobs' \in Seq(JobType)
  BY JobsGoOn DEF Types, GoOn
<1> SUFFICES ASSUME NEW k \in 1..Len(jobs'), jobs'[k].pc \in {"wait", "stop"}
             PROVE  \E c \in 1..Len(jobs') : jobs'[c].owner = k /\ jobs'[c].stage = jobs'[k].stage
  BY DEF Bound, Ids, Children
<1>1. k \in Ids
  BY <1>0 DEF GoOn, Fresh, Ids
<1>2. jobs[k].pc \in {"commit", "wait", "stop"} /\ jobs'[k].stage = jobs[k].stage
  BY <1>0, <1>1 DEF GoOn, Kept
<1>3. CASE jobs[k].pc \in {"wait", "stop"}
  <2>1. PICK c \in Ids : jobs[c].owner = k /\ jobs[c].stage = jobs[k].stage
    BY <1>1, <1>3 DEF Bound, Children
  <2>2. jobs[c].kind # "binding"
    BY <1>0, <1>1, <2>1, JobHere DEF Shape, Ids
  <2>3. jobs'[c].owner = k /\ jobs'[c].stage = jobs[c].stage
    BY <1>0, <2>1, <2>2 DEF GoOn, Kept
  <2> QED BY <1>0, <1>2, <2>1, <2>3 DEF GoOn, Ids
<1>4. CASE jobs[k].pc = "commit"
  <2>1. PICK j \in Ids : BindingCommit(j)
    BY <1>0, <1>1, <1>4 DEF GoOn, Kept, Committing
  <2>2. j = k
    BY <1>1, <1>4, <2>1, CommitFacts DEF Only
  <2> QED BY <1>0, <1>2, <2>1, <2>2, CommitFacts
<1> QED BY <1>2, <1>3, <1>4

\* What jobs and works name exists, after any step.
LEMMA LinkedStep ==
    ASSUME Types, Shapes, Linked, Bound, Next
    PROVE  Linked'
<1>0. /\ GoOn /\ jobs \in Seq(JobType) /\ jobs' \in Seq(JobType) /\ Stands
      /\ stages \in Seq(StageType) /\ Len(stages) \in Nat /\ Len(stages') \in Nat
      /\ Len(stages) <= Len(stages')
  <2>1. GoOn /\ Stands
    BY JobsGoOn, StagesStand
  <2> QED BY <2>1 DEF Types, GoOn, Stands
<1>1. ASSUME NEW k \in 1..Len(jobs')
      PROVE  /\ jobs'[k].owner < k /\ jobs'[k].stage <= Len(stages')
             /\ jobs'[k].kind = "import" \/ jobs'[k].pc \in {"commit", "wait", "stop"} => jobs'[k].stage # 0
  <2>1. CASE k \in Ids
    <3>1. jobs[k] \in JobType /\ jobs'[k] \in JobType /\ Shape(jobs[k])
      BY <1>0, <2>1, JobHere
    <3>2. Kept(jobs[k], jobs'[k])
      BY <1>0, <2>1 DEF GoOn
    <3>3. jobs[k].stage \in Nat /\ jobs'[k].stage \in Nat /\ jobs[k].owner < k /\ jobs[k].stage <= Len(stages)
      BY <2>1, <3>1 DEF JobType, Linked
    <3>4. jobs'[k].owner < k
      BY <3>2, <3>3 DEF Kept
    <3>5. jobs'[k].stage <= Len(stages')
      BY <1>0, <3>2, <3>3 DEF Kept
    <3>6. jobs'[k].kind = "import" => jobs'[k].stage # 0
      BY <2>1, <3>2 DEF Kept, Linked
    <3>7. jobs'[k].pc \in {"commit", "wait", "stop"} => jobs'[k].stage # 0
      <4>1. CASE jobs'[k].pc \in {"wait", "stop"}
        BY <2>1, <3>2, <4>1 DEF Kept, Linked
      <4>2. CASE jobs'[k].pc = "commit" /\ jobs[k].pc # "commit"
        BY <3>2, <4>2 DEF Kept
      <4>3. CASE jobs'[k].pc = "commit" /\ jobs[k].pc = "commit"
        <5>1. jobs[k].stage # 0
          BY <2>1, <4>3 DEF Linked
        <5> QED BY <1>0, <3>2, <4>3, <5>1 DEF Kept
      <4> QED BY <4>1, <4>2, <4>3
    <3> QED BY <3>4, <3>5, <3>6, <3>7
  <2>2. CASE k \notin Ids
    <3>1. k = Len(jobs) + 1 /\ Fresh(jobs'[k])
      BY <1>0, <2>2 DEF GoOn, Ids
    <3>2. jobs'[k].owner \in Nat /\ jobs'[k].stage \in Nat
      BY <3>1 DEF Fresh, JobType
    <3> QED BY <1>0, <3>1, <3>2 DEF Fresh
  <2> QED BY <2>1, <2>2
<1>2. ASSUME NEW v \in DOMAIN work'
      PROVE  /\ work'[v].child <= Len(jobs') /\ work'[v].stage <= Len(stages')
             /\ work'[v].pc \in {"commit", "wait", "lock", "apply"} => work'[v].stage # 0
             /\ work'[v].pc \in {"wait", "watch", "stop"} => work'[v].child # 0
  <2>0. work \in [DOMAIN work -> WorkType] /\ Len(jobs) <= Len(jobs') /\ Len(jobs) \in Nat /\ Len(jobs') \in Nat
    BY <1>0 DEF Types, GoOn
  <2>1. CASE StartRefresh
    BY <1>0, <2>0, <2>1 DEF StartRefresh, Idle
  <2>2. CASE v \in DOMAIN work /\ work'[v] = work[v]
    <3>1. work[v].child \in Nat /\ work[v].stage \in Nat
      BY <2>0, <2>2 DEF WorkType
    <3> QED BY <1>0, <2>0, <2>2, <3>1 DEF Linked
  <2>3. ASSUME NEW w \in DOMAIN work, WorkStep(w), v = w
        PROVE  /\ work'[v].child <= Len(jobs') /\ work'[v].stage <= Len(stages')
               /\ work'[v].pc \in {"commit", "wait", "lock", "apply"} => work'[v].stage # 0
               /\ work'[v].pc \in {"wait", "watch", "stop"} => work'[v].child # 0
    <3>1. WorkMoves(w)
      BY <2>3, WorkGoesOn
    <3>2. /\ work[w].child \in Nat /\ work[w].stage \in Nat /\ work[w].child <= Len(jobs) /\ work[w].stage <= Len(stages)
          /\ work[w].pc \in {"commit", "wait", "lock", "apply"} => work[w].stage # 0
          /\ work[w].pc \in {"wait", "watch", "stop"} => work[w].child # 0
      BY <2>0 DEF WorkType, Linked
    <3>3. ASSUME NEW pc \in WorkPcs, Goes(w, pc), Rewritten(work', w, pc, work[w].child, work[w].stage)
          PROVE  /\ work'[v].child <= Len(jobs') /\ work'[v].stage <= Len(stages')
                 /\ work'[v].pc \in {"commit", "wait", "lock", "apply"} => work'[v].stage # 0
                 /\ work'[v].pc \in {"wait", "watch", "stop"} => work'[v].child # 0
      BY <1>0, <2>0, <2>3, <3>2, <3>3 DEF Goes, Rewritten
    <3>4. CASE work[w].pc = "lock" /\ Rewritten(work', w, "apply", work[w].child, work[w].stage)
      BY <1>0, <2>0, <2>3, <3>2, <3>4 DEF Rewritten
    <3>5. CASE Rewritten(work', w, "done", work[w].child, work[w].stage)
      BY <1>0, <2>0, <2>3, <3>2, <3>5 DEF Rewritten
    <3>6. CASE /\ stages' = Append(stages, [tag |-> w.tag, rev |-> jobs[Refresh].rev[w.tag], by |-> "work", st |-> "parsed"])
               /\ Rewritten(work', w, "commit", work[w].child, Len(stages) + 1)
      <4>1. Len(stages') = Len(stages) + 1
        BY <1>0, <3>6
      <4> QED BY <1>0, <2>0, <2>3, <3>2, <3>6, <4>1 DEF Rewritten
    <3>7. CASE /\ \E r : jobs' = Append(jobs, r)
               /\ work[w].pc = "commit" /\ Rewritten(work', w, "wait", Len(jobs) + 1, work[w].stage)
      <4>1. Len(jobs') = Len(jobs) + 1
        BY <1>0, <3>7
      <4> QED BY <1>0, <2>0, <2>3, <3>2, <3>7, <4>1 DEF Rewritten
    <3>8. CASE /\ \E r : jobs' = Append(jobs, r)
               /\ Rewritten(work', w, "watch", Len(jobs) + 1, work[w].stage)
      <4>1. Len(jobs') = Len(jobs) + 1
        BY <1>0, <3>8
      <4> QED BY <1>0, <2>0, <2>3, <3>2, <3>8, <4>1 DEF Rewritten
    <3> QED BY <3>1, <3>3, <3>4, <3>5, <3>6, <3>7, <3>8 DEF WorkMoves
  <2>4. ASSUME NEW w \in DOMAIN work, WorkStep(w), v # w
        PROVE  v \in DOMAIN work /\ work'[v] = work[v]
    BY <2>0, <2>4, WorkGoesOn DEF WorkMoves, Rewritten
  <2>5. StartRefresh \/ (\E w \in DOMAIN work : WorkStep(w)) \/ work' = work
    BY WorkStays
  <2> QED BY <2>1, <2>2, <2>3, <2>4, <2>5
<1> QED BY <1>1, <1>2 DEF Linked, Ids

-----------------------------------------------------------------------------
\* The steps that store a job, and the job that they store.
Adding ==
    \/ StartRefresh \/ StartBatchTest \/ StartTagBinding
    \/ \E s \in DOMAIN stages : CommitStore(s)
    \/ \E j \in Ids : BindingCommit(j)
    \/ \E w \in DOMAIN work : WorkCommit(w) \/ WorkRetest(w)

\* No job is added when one is replaced.
LEMMA PutLen ==
    ASSUME jobs \in Seq(JobType), jobs' \in Seq(JobType), (\E j, r : jobs' = Put(j, r)) \/ jobs' = jobs
    PROVE  Len(jobs') = Len(jobs)
<1>1. DOMAIN jobs' = DOMAIN jobs
  BY DEF Put
<1> QED BY <1>1

\* The steps that add no job.
LEMMA NoneAdded ==
    ASSUME Types, Shapes, Linked, Bound, Next, ~Adding
    PROVE  Len(jobs') = Len(jobs)
<1>0. jobs \in Seq(JobType) /\ jobs' \in Seq(JobType)
  BY JobsGoOn DEF Types, GoOn
<1>1. CASE CloseBegin
  BY <1>0, <1>1 DEF CloseBegin, Ids
<1>2. ASSUME NEW js, NEW c, jobs' = Abandoned(js, c), DOMAIN js = DOMAIN jobs
      PROVE  Len(jobs') = Len(jobs)
  <2>1. DOMAIN jobs' = DOMAIN jobs
    BY <1>2 DEF Abandoned
  <2> QED BY <1>0, <2>1
<1>3. ASSUME NEW j \in Ids, BindingStopped(j)
      PROVE  Len(jobs') = Len(jobs)
  <2>1. DOMAIN BindingCanceled(j) = DOMAIN jobs /\ DOMAIN Item(j, "bad") = DOMAIN jobs
    BY DEF BindingCanceled, Item, Put
  <2> QED BY <1>2, <1>3, <2>1 DEF BindingStopped
<1>4. ASSUME NEW w \in DOMAIN work, WorkStopped(w)
      PROVE  Len(jobs') = Len(jobs)
  BY <1>2, <1>4 DEF WorkStopped
<1>5. CASE ParseRevise \/ ParseStore \/ CloseEnd \/ (\E t \in Tags : ParseBegin(t)) \/ (\E s \in DOMAIN stages : CommitRead(s))
  BY <1>0, <1>5, QuietSteps DEF Quiet
<1>6. ASSUME NEW j \in Ids, Launch(j) \/ Cancel(j) \/ CancelAct(j)
      PROVE  Len(jobs') = Len(jobs)
  <2>1. (\E r : jobs' = Put(j, r)) \/ jobs' = jobs
    BY <1>6 DEF Launch, Cancel, CancelAct
  <2> QED BY <1>0, <2>1, PutLen
<1>7. ASSUME NEW j \in Ids, Step(j), ~BindingStopped(j)
      PROVE  Len(jobs') = Len(jobs)
  <2>1. CASE ImportProbe(j) \/ ImportSaved(j) \/ ImportLock(j) \/ ImportApply(j) \/ ImportWrite(j)
    <3>1. \E r : jobs' = Put(j, r)
      BY <2>1 DEF ImportProbe, ImportSaved, ImportLock, ImportApply, ImportWrite, Ends, EndsBadly, At
    <3> QED BY <1>0, <3>1, PutLen
  <2>2. CASE TestBegin(j) \/ TestPhase(j) \/ TestReload(j) \/ Exit(j)
    <3>1. \E r : jobs' = Put(j, r)
      BY <2>2 DEF TestBegin, TestPhase, TestReload, TestEnd, Exit, Finish, FinishBadly
    <3> QED BY <1>0, <3>1, PutLen
  <2>3. CASE QueueEnd(j) \/ RefreshVerify(j) \/ RefreshFinal(j) \/ RefreshExit(j)
    <3>1. \E r : jobs' = Put(j, r)
      BY <2>3 DEF QueueEnd, RefreshVerify, RefreshFinal, RefreshExit, At
    <3> QED BY <1>0, <3>1, PutLen
  <2>4. CASE BindingNext(j) \/ BindingTested(j) \/ BindingStop(j)
    <3>1. \E r : jobs' = Put(j, r)
      BY <2>4 DEF BindingNext, BindingTested, BindingStop, BindingCanceled, Item, At
    <3> QED BY <1>0, <3>1, PutLen
  <2> QED BY <1>7, <2>1, <2>2, <2>3, <2>4 DEF Step, Adding
<1>8. ASSUME NEW w \in DOMAIN work, WorkStep(w), ~WorkStopped(w)
      PROVE  Len(jobs') = Len(jobs)
  <2>1. CASE WorkStart(w) \/ WorkFetch(w) \/ WorkTested(w) \/ WorkWatched(w) \/ WorkStop(w) \/ WorkLock(w) \/ WorkApply(w)
    BY <1>0, <2>1, QuietSteps DEF Quiet
  <2> QED BY <1>8, <2>1 DEF WorkStep, Adding
<1> QED BY <1>1, <1>3, <1>4, <1>5, <1>6, <1>7, <1>8 DEF Next, Adding

\* A job as it is stored, with its tags.
LEMMA MarkedFacts ==
    ASSUME NEW kind \in Kinds, NEW owner \in Nat, NEW rev \in [Tags -> Nat]
    PROVE  /\ NewFacts([NewJob(kind, owner, 0) EXCEPT !.rev = rev], kind, owner, 0)
           /\ [NewJob(kind, owner, 0) EXCEPT !.rev = rev].rev = rev
<1>1. NewFacts(NewJob(kind, owner, 0), kind, owner, 0)
  BY NewJobFacts
<1> DEFINE job == NewJob(kind, owner, 0)
<1>2. NewFacts(job, kind, owner, 0)
  BY <1>1
<1> HIDE DEF job
<1>3. /\ NewFacts([job EXCEPT !.rev = rev], kind, owner, 0)
      /\ [job EXCEPT !.rev = rev].rev = rev
  BY <1>2 DEF NewFacts, JobType
<1> QED BY <1>3 DEF job

\* The job that has been stored is the last.
LEMMA AppendedJob ==
    ASSUME jobs \in Seq(JobType), NEW r, NEW kind, NEW owner, NEW stage, NewFacts(r, kind, owner, stage),
           jobs' = Append(jobs, r)
    PROVE  Len(jobs') = Len(jobs) + 1 /\ jobs'[Len(jobs) + 1] = r /\ \A k \in Ids : jobs'[k] = jobs[k]
  BY DEF NewFacts, Ids

\* The job that a step stores: what started it, and the job it is.
Stored(n) ==
    \/ /\ StartRefresh /\ NewFacts(n, "refresh", 0, 0) /\ n.snap = Snapshot
       /\ n.rev = [t \in Tags |-> IF t \in Published THEN revs'[t] ELSE 0]
    \/ StartBatchTest /\ NewFacts(n, "test", 0, 0)
    \/ StartTagBinding /\ NewFacts(n, "binding", 0, 0)
    \/ \E s \in DOMAIN stages : CommitStore(s) /\ NewFacts(n, "import", 0, s)
    \/ \E j \in Ids : BindingCommit(j) /\ NewFacts(n, "import", j, jobs[j].stage) /\ jobs[j].kind = "binding"
    \/ \E w \in DOMAIN work :
          /\ work[w].pc = "commit" /\ work'[w].pc = "wait" /\ work'[w].child = Len(jobs) + 1
          /\ (\E j \in Ids : Going(j, "queue")) /\ WorkCommit(w) /\ NewFacts(n, "import", Refresh, work[w].stage)
    \/ \E w \in DOMAIN work :
          /\ work[w].pc = "retest" /\ work'[w].pc = "watch" /\ work'[w].child = Len(jobs) + 1
          /\ (\E j \in Ids : Going(j, "queue")) /\ WorkRetest(w) /\ NewFacts(n, "test", Refresh, 0)

\* Whatever step adds a job, it is one of these.
LEMMA AddedJob ==
    ASSUME Types, Shapes, Linked, Bound, Next, Len(jobs') # Len(jobs)
    PROVE  Len(jobs') = Len(jobs) + 1 /\ Stored(jobs'[Len(jobs) + 1])
<1> DEFINE n == jobs'[Len(jobs) + 1]
<1>0. /\ jobs \in Seq(JobType) /\ jobs' \in Seq(JobType) /\ Len(jobs') = Len(jobs) + 1
      /\ 0 \in Nat /\ {"refresh", "test", "import", "binding"} = Kinds /\ Snapshot \in Snaps /\ revs' \in [Tags -> Nat]
  BY JobsGoOn, SnapshotFact, RevsGrow DEF Types, GoOn, Kinds
<1>1. CASE StartRefresh
  <2> DEFINE rev == [t \in Tags |-> IF t \in Published THEN revs'[t] ELSE 0]
             base == NewJob("refresh", 0, 0)
             r == [base EXCEPT !.rev = rev, !.snap = Snapshot]
  <2>1. jobs' = Append(jobs, r)
    BY <1>1 DEF StartRefresh, Store
  <2>2. rev \in [Tags -> Nat]
    BY <1>0
  <2> HIDE DEF rev
  <2>3. NewFacts(r, "refresh", 0, 0) /\ r.rev = rev /\ r.snap = Snapshot
    <3>1. "refresh" \in Kinds /\ 0 \in Nat /\ Snapshot \in Snaps
      BY <1>0
    <3>2. NewFacts(base, "refresh", 0, 0)
      BY <3>1, NewJobFacts
    <3> HIDE DEF base
    <3> QED BY <2>2, <3>1, <3>2 DEF NewFacts, JobType
  <2> HIDE DEF r
  <2>4. n = r
    BY <1>0, <2>1, <2>3, AppendedJob
  <2> HIDE DEF n
  <2>5. Stored(n)
    BY <1>1, <2>3, <2>4 DEF Stored, rev
  <2> QED BY <1>0, <2>5 DEF n
<1>2. ASSUME NEW kind \in {"test", "binding"},
             kind = "test" => StartBatchTest, kind = "binding" => StartTagBinding
      PROVE  Stored(n)
  <2> DEFINE rev == Marks(Published)
             r == [NewJob(kind, 0, 0) EXCEPT !.rev = rev]
  <2>1. jobs' = Append(jobs, r)
    BY <1>2 DEF StartBatchTest, StartTagBinding, Store
  <2>2. rev \in [Tags -> Nat] /\ kind \in Kinds
    BY <1>0, MarksFact
  <2> HIDE DEF rev
  <2>a. 0 \in Nat /\ Snapshot \in Snaps
    BY <1>0
  <2>3. NewFacts(r, kind, 0, 0)
    BY <2>2, <2>a, MarkedFacts
  <2> HIDE DEF r
  <2>4. n = r
    BY <1>0, <2>1, <2>3, AppendedJob
  <2> HIDE DEF n
  <2> QED BY <1>2, <2>3, <2>4 DEF Stored
<1>3. ASSUME NEW s \in DOMAIN stages, CommitStore(s)
      PROVE  Stored(n)
  <2>1. jobs' = Append(jobs, NewJob("import", 0, s)) /\ s \in Nat
    BY <1>3 DEF CommitStore, Store, Types
  <2>2. NewFacts(NewJob("import", 0, s), "import", 0, s)
    BY <1>0, <2>1, NewJobFacts
  <2>3. n = NewJob("import", 0, s)
    BY <1>0, <2>1, <2>2, AppendedJob
  <2> HIDE DEF n
  <2> QED BY <1>3, <2>2, <2>3 DEF Stored
<1>4. ASSUME NEW j \in Ids, BindingCommit(j)
      PROVE  Stored(n)
  <2>0. jobs[j] \in JobType /\ Shape(jobs[j])
    BY <1>0, JobHere
  <2>1. jobs[j].kind = "binding" /\ jobs[j].stage \in Nat /\ j \in Nat
    BY <2>0, <1>4, KindOf DEF BindingCommit, Going, JobType, Ids
  <2>2. jobs' = Append(At(j, "wait"), NewJob("import", j, jobs[j].stage))
    <3>1. CASE jobs' = Item(j, "bad")
      <4>1. \E r : jobs' = Put(j, r)
        BY <3>1 DEF Item
      <4> QED BY <1>0, <4>1, PutLen
    <3> QED BY <1>4, <3>1 DEF BindingCommit
  <2>3. NewFacts(NewJob("import", j, jobs[j].stage), "import", j, jobs[j].stage)
    BY <1>0, <2>1, NewJobFacts
  <2> DEFINE r == NewJob("import", j, jobs[j].stage)
             js == At(j, "wait")
  <2>4. DOMAIN js = DOMAIN jobs
    BY DEF At, Put
  <2>5. js \in Seq(JobType) /\ Len(js) = Len(jobs)
    <3>1. Kept(jobs[j], [jobs[j] EXCEPT !.pc = "wait"])
      BY <1>4, <2>0, BindingMovesKept DEF Committing, BindingCommit, Going
    <3>2. [jobs[j] EXCEPT !.pc = "wait"] \in JobType
      BY <3>1 DEF Kept
    <3> QED BY <1>0, <3>2, PutFacts DEF At
  <2>6. r \in JobType
    BY <2>3 DEF NewFacts
  <2> HIDE DEF r, js
  <2>7. n = r
    BY <2>2, <2>5, <2>6 DEF r, js
  <2> HIDE DEF n
  <2> QED BY <1>4, <2>1, <2>3, <2>7 DEF Stored, r
<1>5. ASSUME NEW w \in DOMAIN work, WorkCommit(w) \/ WorkRetest(w)
      PROVE  Stored(n)
  <2>0. Refresh \in Ids /\ \E j \in Ids : Going(j, "queue")
    BY <1>5, WorkingFacts DEF WorkCommit, WorkRetest, Working
  <2>1. Refresh \in Nat /\ work[w].stage \in Nat /\ Len(jobs) + 1 \in Nat /\ work \in [DOMAIN work -> WorkType]
        /\ {"wait", "watch"} \subseteq WorkPcs
    BY <1>0, <2>0 DEF Ids, Types, WorkType, WorkPcs
  <2>2. CASE WorkCommit(w)
    <3>1. /\ work[w].pc = "commit" /\ jobs' = Append(jobs, NewJob("import", Refresh, work[w].stage))
          /\ work' = [work EXCEPT ![w].pc = "wait", ![w].child = Len(jobs) + 1]
      <4>1. jobs' # jobs
        BY <1>0
      <4> QED BY <2>2, <4>1 DEF WorkCommit, Working, Store
    <3>a. Rewritten(work', w, "wait", Len(jobs) + 1, work[w].stage)
      BY <2>1, <3>1, MoveRewrites
    <3>2. work'[w].pc = "wait" /\ work'[w].child = Len(jobs) + 1
      BY <3>a DEF Rewritten
    <3>3. NewFacts(NewJob("import", Refresh, work[w].stage), "import", Refresh, work[w].stage)
      BY <1>0, <2>1, NewJobFacts
    <3>4. n = NewJob("import", Refresh, work[w].stage)
      BY <1>0, <3>1, <3>3, AppendedJob
    <3> HIDE DEF n
    <3> QED BY <2>0, <2>2, <3>1, <3>2, <3>3, <3>4 DEF Stored
  <2>3. CASE WorkRetest(w)
    <3> DEFINE rev == Marks({w.tag})
               r == [NewJob("test", Refresh, 0) EXCEPT !.rev = rev]
    <3>1. /\ work[w].pc = "retest" /\ jobs' = Append(jobs, r)
          /\ work' = [work EXCEPT ![w].pc = "watch", ![w].child = Len(jobs) + 1]
      <4>1. jobs' # jobs
        BY <1>0
      <4> QED BY <2>3, <4>1 DEF WorkRetest, Working, Store
    <3>a. Rewritten(work', w, "watch", Len(jobs) + 1, work[w].stage)
      BY <2>1, <3>1, MoveRewrites
    <3>2. work'[w].pc = "watch" /\ work'[w].child = Len(jobs) + 1
      BY <3>a DEF Rewritten
    <3>3. rev \in [Tags -> Nat] /\ "test" \in Kinds
      BY <1>0, MarksFact
    <3> HIDE DEF rev
    <3>4. NewFacts(r, "test", Refresh, 0)
      BY <1>0, <2>1, <3>3, MarkedFacts
    <3> HIDE DEF r
    <3>5. n = r
      BY <1>0, <3>1, <3>4, AppendedJob
    <3> HIDE DEF n
    <3> QED BY <2>0, <2>3, <3>1, <3>2, <3>4, <3>5 DEF Stored
  <2> QED BY <1>5, <2>2, <2>3
<1>6. Adding
  BY <1>0, NoneAdded
<1>7. Stored(n)
  <2> HIDE DEF n
  <2>1. StartRefresh => Stored(n)
    BY <1>1 DEF n
  <2>2. StartBatchTest \/ StartTagBinding => Stored(n)
    <3>1. StartBatchTest => Stored(n)
      BY <1>2
    <3>2. StartTagBinding => Stored(n)
      BY <1>2
    <3> QED BY <3>1, <3>2
  <2> QED BY <1>3, <1>4, <1>5, <1>6, <2>1, <2>2 DEF Adding
<1> QED BY <1>0, <1>7

-----------------------------------------------------------------------------
\* Works are at it only while a refresh is in its queue.
WorkedFor == (\E w \in DOMAIN work : work[w].pc \notin {"idle", "done"}) =>
                \E j \in Ids : jobs[j].kind = "refresh" /\ jobs[j].pc = "queue"

\* No two works apply at once.
OneWork == \A v, w \in DOMAIN work : work[v].pc = "apply" /\ work[w].pc = "apply" => v = w

\* Nothing runs and nothing can start once Close has returned.
Closed == closed => closing /\ \A j \in Ids : jobs[j].live # "go"

\* A refresh in its queue waits for every job of its own that is running.
Waited ==
    \A c \in Ids : LET j == jobs[c].owner IN
        j # 0 /\ jobs[j].kind = "refresh" /\ jobs[c].status = "running" /\ jobs[c].odd = {} =>
            /\ jobs[j].pc = "queue"
            /\ \E w \in DOMAIN work : work[w].child = c /\ work[w].pc \in Waits

\* The test or the refresh of the user's that is stored finds none running.
LEMMA Admitted ==
    ASSUME Types, Shapes, NEW n, Stored(n), n.kind \in {"refresh", "test"}, n.owner = 0
    PROVE  \A k \in Ids : jobs[k].kind \in {"refresh", "test"} => jobs[k].status # "running"
<1>1. CASE StartRefresh \/ StartBatchTest
  BY <1>1 DEF StartRefresh, StartBatchTest, Refreshing, Active
<1>2. ASSUME \E j \in Ids : Going(j, "queue")
      PROVE  Refresh # 0
  BY <1>2, WorkingFacts DEF Ids, Types
<1> QED BY <1>1, <1>2 DEF Stored, NewFacts

\* Admission and storage are one step, so two testers never run.
LEMMA OneTesterStep ==
    ASSUME Types, Shapes, Linked, Bound, OneTester, Next
    PROVE  OneTester'
<1>0. GoOn /\ jobs \in Seq(JobType) /\ jobs' \in Seq(JobType)
  BY JobsGoOn DEF Types, GoOn
<1> DEFINE user(k) == jobs[k].status = "running" /\ jobs[k].kind \in {"refresh", "test"} /\ jobs[k].owner = 0
           then(k) == jobs'[k].status = "running" /\ jobs'[k].kind \in {"refresh", "test"} /\ jobs'[k].owner = 0
<1>1. \A k \in Ids : then(k) => user(k)
  BY <1>0 DEF GoOn, Kept
<1>2. \A k \in 1..Len(jobs') : k \notin Ids => k = Len(jobs) + 1 /\ Len(jobs') # Len(jobs) /\ Stored(jobs'[k])
  BY <1>0, AddedJob DEF GoOn, Ids
<1>3. \A k \in 1..Len(jobs') : k \notin Ids /\ then(k) => \A i \in Ids : ~user(i)
  BY <1>2, Admitted
<1>4. \A j, k \in Ids : user(j) /\ user(k) => j = k
  BY DEF OneTester, Top
<1> HIDE DEF user
<1>5. \A j, k \in 1..Len(jobs') : then(j) /\ then(k) => j = k
  BY <1>1, <1>2, <1>3, <1>4
<1> QED BY <1>5 DEF OneTester, Top, Ids

\* There is one refresh at most whose goroutine is not ending.
Settling(j) == jobs[j].kind = "refresh" /\ jobs[j].pc \notin Ending

\* No two refreshes are at it, and the one that is counts as running.
LEMMA OneRefresh ==
    ASSUME jobs \in Seq(JobType), Shapes, OneTester
    PROVE  /\ \A j, k \in Ids : Settling(j) /\ Settling(k) => j = k
           /\ \A j \in Ids : Settling(j) => jobs[j].status = "running" /\ Refreshing
<1> DEFINE user(j) == jobs[j].kind = "refresh" /\ jobs[j].status = "running" /\ jobs[j].owner = 0
<1>1. \A j \in Ids : Settling(j) => user(j)
  BY DEF Settling, Shapes, Shape
<1>2. \A j, k \in Ids : user(j) /\ user(k) => j = k
  BY DEF OneTester, Top
<1>3. \A j \in Ids : user(j) => Refreshing /\ jobs[j].status = "running"
  BY DEF Refreshing, Active
<1> HIDE DEF user
<1> QED BY <1>1, <1>2, <1>3

\* The queue does not end while a work is at it.
LEMMA QueueStays ==
    ASSUME jobs \in Seq(JobType), Shapes, OneTester, Leaving, NEW w \in DOMAIN work, work[w].pc \notin {"idle", "done"}
    PROVE  \A k \in Ids : ~(jobs[k].kind = "refresh" /\ jobs[k].pc = "queue")
<1>1. PICK j \in Ids : QueueEnd(j)
  BY DEF Leaving
<1>2. QueueOver(j) /\ jobs[j].pc = "queue"
  BY <1>1 DEF QueueEnd, Going
<1> QED BY <1>2 DEF QueueOver

\* The queue waits for its works.
LEMMA WorkedForStep ==
    ASSUME Types, Shapes, Linked, Bound, OneTester, WorkedFor, Next
    PROVE  WorkedFor'
<1>0. GoOn /\ jobs \in Seq(JobType) /\ jobs' \in Seq(JobType)
  BY JobsGoOn DEF Types, GoOn
<1> SUFFICES ASSUME NEW v \in DOMAIN work', work'[v].pc \notin {"idle", "done"}
             PROVE  \E j \in 1..Len(jobs') : jobs'[j].kind = "refresh" /\ jobs'[j].pc = "queue"
  BY DEF WorkedFor, Ids
<1>1. ASSUME NEW k \in Ids, jobs[k].kind = "refresh", jobs[k].pc = "queue", ~Leaving
      PROVE  \E j \in 1..Len(jobs') : jobs'[j].kind = "refresh" /\ jobs'[j].pc = "queue"
  BY <1>0, <1>1 DEF GoOn, Kept, Ids
<1>2. CASE StartRefresh
  BY <1>2 DEF StartRefresh, Idle
<1>3. ASSUME NEW w \in DOMAIN work, WorkStep(w)
      PROVE  \E j \in 1..Len(jobs') : jobs'[j].kind = "refresh" /\ jobs'[j].pc = "queue"
  <2>1. WorkMoves(w)
    BY <1>3, WorkGoesOn
  <2>2. PICK k \in Ids : Going(k, "queue")
    BY <2>1 DEF WorkMoves
  <2>3. jobs[k].kind = "refresh" /\ jobs[k].pc = "queue"
    BY <1>0, <2>2, JobHere, KindOf DEF Going
  <2>4. ASSUME Leaving PROVE FALSE
    <3>1. PICK j \in Ids : QueueEnd(j)
      BY <2>4 DEF Leaving
    <3>2. work' = work
      BY <3>1 DEF QueueEnd
    <3>3. v \in DOMAIN work /\ work[v].pc \notin {"idle", "done"}
      BY <3>2
    <3> QED BY <1>0, <2>3, <2>4, <3>3, QueueStays
  <2> QED BY <1>1, <2>3, <2>4
<1>4. CASE work' = work
  <2>1. PICK k \in Ids : jobs[k].kind = "refresh" /\ jobs[k].pc = "queue"
    BY <1>4 DEF WorkedFor
  <2>2. ~Leaving
    BY <1>0, <1>4, <2>1, QueueStays
  <2> QED BY <1>1, <2>1, <2>2
<1> QED BY <1>2, <1>3, <1>4, WorkStays

\* How the four steps of a goroutine hand applyMu on.
LEMMA SwitchFacts ==
    ASSUME Types, Shapes, NEW j \in Ids, ImportLock(j) \/ TestBegin(j) \/ ImportApply(j) \/ Exit(j)
    PROVE  /\ Only(j) /\ work' = work /\ Len(jobs') = Len(jobs)
           /\ jobs[j].kind # "refresh" /\ jobs'[j].kind # "refresh"
           /\ \/ applier = 0 /\ applier' = j /\ InHand(jobs'[j])
              \/ applier = 0 /\ applier' = 0 /\ ~InHand(jobs'[j])
              \/ InHand(jobs[j]) /\ applier' = 0 /\ ~InHand(jobs'[j])
              \/ ~InHand(jobs'[j]) /\ applier' = IF applier = j THEN 0 ELSE applier
<1>0. jobs \in Seq(JobType) /\ jobs[j] \in JobType /\ Shape(jobs[j]) /\ jobs' \in Seq(JobType)
  <2>1. GoOn
    BY PutSteps
  <2> QED BY <2>1, JobHere DEF Types, GoOn
<1>1. CASE ImportLock(j)
  <2>1. jobs[j].live = "go" /\ jobs[j].kind = "import" /\ applier = 0 /\ work' = work
    BY <1>1 DEF ImportLock, Going
  <2>2. CASE jobs' = At(j, "apply") /\ applier' = j
    <3>1. Only(j) /\ jobs'[j] = [jobs[j] EXCEPT !.pc = "apply"] /\ Len(jobs') = Len(jobs)
      BY <1>0, <2>2, PutThis, PutLen DEF At
    <3>2. jobs'[j].live = "go" /\ jobs'[j].pc = "apply" /\ jobs'[j].kind = "import"
      BY <1>0, <2>1, <3>1 DEF JobType
    <3> QED BY <2>1, <2>2, <3>1, <3>2 DEF InHand
  <2>3. CASE jobs' = Ends(j, "failed") /\ applier' = applier
    <3>1. Only(j) /\ jobs'[j] = [jobs[j] EXCEPT !.pc = "write", !.end = "failed"] /\ Len(jobs') = Len(jobs)
      BY <1>0, <2>3, PutThis, PutLen DEF Ends
    <3>2. jobs'[j].pc = "write" /\ jobs'[j].kind = "import"
      BY <1>0, <2>1, <3>1 DEF JobType
    <3> QED BY <2>1, <2>3, <3>1, <3>2 DEF InHand
  <2> QED BY <1>1, <2>2, <2>3 DEF ImportLock
<1>2. CASE ImportApply(j)
  <2>1. jobs[j].live = "go" /\ jobs[j].kind = "import" /\ jobs[j].pc = "apply" /\ applier' = 0 /\ work' = work
    BY <1>2 DEF ImportApply, Going
  <2>2. PICK end \in {"finished", "failed"} : jobs' = Put(j, [jobs[j] EXCEPT !.pc = "write", !.end = end])
    BY <1>2 DEF ImportApply, Ends, Verdict
  <2>3. Only(j) /\ jobs'[j] = [jobs[j] EXCEPT !.pc = "write", !.end = end] /\ Len(jobs') = Len(jobs)
    BY <1>0, <2>2, PutThis, PutLen
  <2>4. jobs'[j].pc = "write" /\ jobs'[j].kind = "import"
    BY <1>0, <2>1, <2>3 DEF JobType
  <2> QED BY <2>1, <2>3, <2>4 DEF InHand
<1>3. CASE TestBegin(j)
  <2>1. jobs[j].live = "go" /\ jobs[j].kind = "test" /\ applier = 0 /\ applier' = j /\ work' = work
    BY <1>3 DEF TestBegin, Going
  <2>2. CASE \E end : jobs' = Finish(j, end)
    <3>1. PICK end : Only(j) /\ jobs'[j] = [jobs[j] EXCEPT !.pc = "exit", !.end = end, !.status = end] /\ Len(jobs') = Len(jobs)
      BY <1>0, <2>2, PutThis, PutLen DEF Finish
    <3>2. jobs'[j].live = "go" /\ jobs'[j].pc = "exit" /\ jobs'[j].kind = "test"
      BY <1>0, <2>1, <3>1 DEF JobType
    <3> QED BY <2>1, <3>1, <3>2 DEF InHand
  <2>3. CASE \E snap : jobs' = Put(j, [jobs[j] EXCEPT !.pc = "results", !.snap = snap])
    <3>1. PICK snap : Only(j) /\ jobs'[j] = [jobs[j] EXCEPT !.pc = "results", !.snap = snap] /\ Len(jobs') = Len(jobs)
      BY <1>0, <2>3, PutThis, PutLen
    <3>2. jobs'[j].live = "go" /\ jobs'[j].pc = "results" /\ jobs'[j].kind = "test"
      BY <1>0, <2>1, <3>1 DEF JobType
    <3> QED BY <2>1, <3>1, <3>2 DEF InHand
  <2> QED BY <1>3, <2>2, <2>3 DEF TestBegin
<1>4. CASE Exit(j)
  <2>1. jobs[j].kind # "refresh" /\ work' = work /\ applier' = IF applier = j THEN 0 ELSE applier
    BY <1>4 DEF Exit
  <2>2. Only(j) /\ jobs'[j] = Over(jobs[j]) /\ Len(jobs') = Len(jobs)
    BY <1>0, <1>4, PutThis, PutLen DEF Exit
  <2>3. jobs'[j].live = "done" /\ jobs'[j].kind = jobs[j].kind
    BY <1>0, <2>2 DEF JobType, Over
  <2> QED BY <2>1, <2>2, <2>3 DEF InHand
<1> QED BY <1>1, <1>2, <1>3, <1>4

\* Whoever holds applyMu, with a refresh holding it for its works.
InApply    == \E w \in DOMAIN work : work[w].pc = "apply"
InHands(j) == InHand(jobs[j]) \/ (jobs[j].kind = "refresh" /\ jobs[j].pc = "queue" /\ InApply)

\* OneApplier, said with InHands.
LEMMA OneApplierMeans ==
    OneApplier <=> \A j \in Ids : InHands(j) <=> applier = j
  BY DEF OneApplier, InHands, InHand, InApply

\* Where nobody takes or releases applyMu.
LEMMA HandsStay ==
    ASSUME Types, Shapes, Linked, Bound, OneTester, WorkedFor, OneApplier, Next,
           ~Switching, \A w \in DOMAIN work : ~WorkLock(w) /\ ~WorkApply(w)
    PROVE  OneApplier' /\ OneWork' = OneWork
<1>0. /\ GoOn /\ jobs \in Seq(JobType) /\ jobs' \in Seq(JobType) /\ applier' = applier
      /\ applier \in Nat /\ applier <= Len(jobs) /\ \A k \in Ids : InHands(k) <=> applier = k
  BY JobsGoOn, ApplierMoves, OneApplierMeans DEF Types, GoOn, Switching
<1>1. \A k \in Ids : (InHand(jobs'[k]) <=> InHand(jobs[k])) /\ jobs'[k].kind = jobs[k].kind
  BY <1>0 DEF GoOn, Kept
<1>2. \A k \in 1..Len(jobs') : k \notin Ids => k = Len(jobs) + 1 /\ jobs'[k].pc = "new" /\ jobs'[k].live = "stored"
  BY <1>0 DEF GoOn, Fresh, Ids
<1>3. \/ (\A w \in DOMAIN work : (work'[w].pc = "apply") <=> (work[w].pc = "apply")) /\ DOMAIN work' = DOMAIN work
      \/ (\A w \in DOMAIN work : work[w].pc # "apply") /\ (\A w \in DOMAIN work' : work'[w].pc # "apply")
  <2>1. CASE StartRefresh
    <3>1. ~Refreshing /\ \A w \in DOMAIN work' : work'[w].pc # "apply"
      BY <2>1 DEF StartRefresh, Idle
    <3>2. \A j \in Ids : ~(jobs[j].kind = "refresh" /\ jobs[j].pc = "queue")
      BY <1>0, <3>1, OneRefresh DEF Settling, Ending
    <3> QED BY <3>1, <3>2 DEF WorkedFor
  <2>2. ASSUME NEW w \in DOMAIN work, WorkStep(w)
        PROVE  (\A v \in DOMAIN work : (work'[v].pc = "apply") <=> (work[v].pc = "apply")) /\ DOMAIN work' = DOMAIN work
    <3>1. WorkMoves(w) /\ work \in [DOMAIN work -> WorkType]
      BY <2>2, WorkGoesOn DEF Types
    <3>2. Refresh # 0 /\ \E j \in Ids : Going(j, "queue")
      BY <3>1, WorkingFacts DEF WorkMoves, Ids
    <3>3. work[w].pc # "apply"
      <4>1. PICK j \in Ids : jobs[j].kind = "refresh" /\ jobs[j].pc = "queue"
        BY <1>0, <3>2, JobHere, KindOf DEF Going
      <4>2. ASSUME work[w].pc = "apply" PROVE FALSE
        <5>1. applier = j /\ applier # 0
          BY <1>0, <4>1, <4>2 DEF InHands, InApply, Ids
        <5> QED BY <1>0, <3>1, <4>2, <5>1 DEF WorkMoves, Goes
      <4> QED BY <4>2
    <3>4. \E pc \in WorkPcs \ {"apply"} : \E c, s : Rewritten(work', w, pc, c, s)
      BY <1>0, <3>1, <3>2, <3>3 DEF WorkMoves, Goes, WorkPcs
    <3> QED BY <3>3, <3>4 DEF Rewritten
  <2>3. CASE work' = work
    BY <2>3
  <2>4. StartRefresh \/ (\E w \in DOMAIN work : WorkStep(w)) \/ work' = work
    BY WorkStays
  <2> QED BY <2>1, <2>2, <2>3, <2>4
<1>4. ASSUME NEW k \in Ids, InApply, InApply'
      PROVE  (jobs'[k].kind = "refresh" /\ jobs'[k].pc = "queue") <=> (jobs[k].kind = "refresh" /\ jobs[k].pc = "queue")
  <2>1. PICK w \in DOMAIN work : work[w].pc = "apply"
    BY <1>4 DEF InApply
  <2>2. PICK j \in Ids : jobs[j].kind = "refresh" /\ jobs[j].pc = "queue"
    BY <2>1 DEF WorkedFor
  <2>3. ~Leaving
    BY <1>0, <2>1, <2>2, QueueStays
  <2>4. jobs[k].kind = "refresh" /\ jobs[k].pc = "queue" => jobs'[k].pc = "queue" /\ jobs'[k].kind = "refresh"
    BY <1>0, <2>3 DEF GoOn, Kept
  <2>5. jobs'[k].kind = "refresh" /\ jobs'[k].pc = "queue" => jobs[k].kind = "refresh" /\ jobs[k].pc \in {"new", "queue"}
    BY <1>0 DEF GoOn, Kept
  <2>6. jobs[k].kind = "refresh" /\ jobs[k].pc \in {"new", "queue"} => k = j
    BY <1>0, <2>2, OneRefresh DEF Settling, Ending
  <2> QED BY <2>2, <2>4, <2>5, <2>6
<1>5. InApply' <=> InApply
  BY <1>3 DEF InApply
<1>6. \A k \in Ids : InHands(k)' <=> InHands(k)
  BY <1>1, <1>4, <1>5 DEF InHands
<1>7. \A k \in 1..Len(jobs') : k \notin Ids => ~InHands(k)' /\ applier # k
  BY <1>0, <1>2 DEF InHands, InHand
<1>8. \A k \in 1..Len(jobs') : InHands(k)' <=> applier' = k
  BY <1>0, <1>6, <1>7
<1>9. OneApplier'
  BY <1>8 DEF OneApplier, InHands, InHand, InApply, Ids
<1>10. OneWork' = OneWork
  BY <1>3 DEF OneWork
<1> QED BY <1>9, <1>10

\* Where a goroutine takes or releases it.
LEMMA HandsSwitch ==
    ASSUME Types, Shapes, Linked, Bound, OneApplier, OneWork, Next, Switching
    PROVE  OneApplier' /\ OneWork'
<1>0. jobs \in Seq(JobType) /\ applier \in Nat /\ \A k \in Ids : InHands(k) <=> applier = k
  BY OneApplierMeans DEF Types
<1>1. PICK j \in Ids : ImportLock(j) \/ TestBegin(j) \/ ImportApply(j) \/ Exit(j)
  BY DEF Switching
<1> DEFINE hands(k) == InHand(jobs'[k]) \/ (jobs'[k].kind = "refresh" /\ jobs'[k].pc = "queue" /\ InApply)
<1>2. /\ Only(j) /\ work' = work /\ Len(jobs') = Len(jobs)
      /\ jobs[j].kind # "refresh" /\ jobs'[j].kind # "refresh"
      /\ \/ applier = 0 /\ applier' = j /\ InHand(jobs'[j])
         \/ applier = 0 /\ applier' = 0 /\ ~InHand(jobs'[j])
         \/ InHand(jobs[j]) /\ applier' = 0 /\ ~InHand(jobs'[j])
         \/ ~InHand(jobs'[j]) /\ applier' = IF applier = j THEN 0 ELSE applier
  BY <1>1, SwitchFacts
<1>3. \A k \in Ids : k # 0 /\ k \in Nat
  BY DEF Ids
<1>4. \A k \in Ids \ {j} : hands(k) <=> InHands(k)
  BY <1>2 DEF InHands, Only
<1>5. InHands(j) <=> InHand(jobs[j])
  BY <1>2 DEF InHands
<1>6. hands(j) <=> InHand(jobs'[j])
  BY <1>2
<1> HIDE DEF hands
<1>7. \A k \in Ids : hands(k) <=> applier' = k
  <2>1. ASSUME NEW k \in Ids \ {j} PROVE hands(k) <=> applier' = k
    BY <1>0, <1>2, <1>3, <1>4, <1>5
  <2>2. hands(j) <=> applier' = j
    BY <1>0, <1>2, <1>3, <1>5, <1>6
  <2> QED BY <2>1, <2>2
<1>8. \A k \in Ids' : InHands(k)' <=> hands(k)
  BY <1>2 DEF InHands, InApply, hands
<1>9. Ids' = Ids
  BY <1>2 DEF Ids
<1>10. OneApplier'
  BY <1>7, <1>8, <1>9 DEF OneApplier, InHands, InHand, InApply
<1> QED BY <1>2, <1>10 DEF OneWork

\* Where a work takes or releases it.
LEMMA HandsWork ==
    ASSUME Types, Shapes, OneTester, OneApplier, OneWork, NEW w \in DOMAIN work, WorkLock(w) \/ WorkApply(w)
    PROVE  OneApplier' /\ OneWork'
<1>0. /\ jobs \in Seq(JobType) /\ applier \in Nat /\ \A k \in Ids : InHands(k) <=> applier = k
      /\ \A k \in Ids : k # 0 /\ k \in Nat
  BY OneApplierMeans DEF Types, Ids
<1>1. WorkMoves(w) /\ jobs' = jobs /\ work \in [DOMAIN work -> WorkType]
  BY WorkGoesOn DEF WorkStep, WorkLock, WorkApply, Types
<1>2. /\ Refresh \in Ids /\ jobs[Refresh].kind = "refresh" /\ jobs[Refresh].pc = "queue"
  BY <1>1, WorkingFacts DEF WorkMoves
<1>3. \A k \in Ids : (jobs[k].kind = "refresh" /\ jobs[k].pc = "queue") <=> k = Refresh
  <2>1. \A k \in Ids : jobs[k].kind = "refresh" /\ jobs[k].pc = "queue" => Settling(k)
    BY DEF Settling, Ending
  <2> QED BY <1>0, <1>2, <2>1, OneRefresh
<1>4. \A k \in Ids : InHand(jobs[k]) => k # Refresh
  BY <1>2 DEF InHand
<1>5. ASSUME InApply', OneWork', applier' = Refresh, applier = 0 \/ applier = Refresh
      PROVE  OneApplier' /\ OneWork'
  <2>1. \A k \in Ids : ~InHand(jobs[k])
    BY <1>0, <1>4, <1>5 DEF InHands
  <2>2. \A k \in Ids : InHands(k)' <=> applier' = k
    BY <1>0, <1>1, <1>2, <1>3, <1>5, <2>1 DEF InHands
  <2>3. Ids' = Ids
    BY <1>1 DEF Ids
  <2> QED BY <1>5, <2>2, <2>3 DEF OneApplier, InHands, InHand, InApply
<1>6. ASSUME ~InApply', OneWork', applier' = 0, applier = 0 \/ applier = Refresh
      PROVE  OneApplier' /\ OneWork'
  <2>1. \A k \in Ids : ~InHand(jobs[k])
    BY <1>0, <1>4, <1>6 DEF InHands
  <2>2. \A k \in Ids : InHands(k)' <=> applier' = k
    BY <1>0, <1>1, <1>6, <2>1 DEF InHands
  <2>3. Ids' = Ids
    BY <1>1 DEF Ids
  <2> QED BY <1>6, <2>2, <2>3 DEF OneApplier, InHands, InHand, InApply
<1>7. CASE WorkLock(w)
  <2>1. work[w].pc = "lock" /\ applier = 0
    BY <1>7 DEF WorkLock, Working
  <2>2. ~InApply
    BY <1>0, <1>2, <2>1 DEF InHands
  <2>3. CASE applier' = Refresh
    <3>1. Rewritten(work', w, "apply", work[w].child, work[w].stage)
      BY <1>0, <1>1, <1>2, <2>1, <2>3 DEF WorkMoves, Goes
    <3>2. InApply' /\ OneWork'
      BY <2>2, <3>1 DEF InApply, OneWork, Rewritten
    <3> QED BY <1>5, <2>1, <2>3, <3>2
  <2>4. CASE applier' = applier
    <3>1. \E pc \in WorkPcs : Goes(w, pc) /\ Rewritten(work', w, pc, work[w].child, work[w].stage)
      BY <1>0, <1>1, <1>2, <2>1, <2>4 DEF WorkMoves, Goes
    <3>2. ~InApply'
      BY <2>2, <3>1 DEF InApply, Rewritten, Goes
    <3>3. OneWork'
      BY <3>2 DEF OneWork, InApply
    <3> QED BY <1>6, <2>1, <2>4, <3>2, <3>3
  <2> QED BY <1>7, <2>3, <2>4 DEF WorkLock
<1>8. CASE WorkApply(w)
  <2>1. work[w].pc = "apply" /\ applier' = 0 /\ InApply
    BY <1>8 DEF WorkApply, Working, InApply
  <2>2. applier = Refresh
    BY <1>0, <1>2, <2>1 DEF InHands
  <2>3. Rewritten(work', w, "done", work[w].child, work[w].stage)
    BY <1>0, <1>1, <1>2, <2>1, <2>2 DEF WorkMoves, Goes
  <2>4. ~InApply'
    BY <2>1, <2>3 DEF InApply, OneWork, Rewritten
  <2>5. OneWork'
    BY <2>4 DEF OneWork, InApply
  <2> QED BY <1>6, <2>1, <2>2, <2>4, <2>5
<1> QED BY <1>7, <1>8

\* One at a time between taking and releasing applyMu, after any step.
LEMMA OneApplierStep ==
    ASSUME Types, Shapes, Linked, Bound, OneTester, WorkedFor, OneApplier, OneWork, Next
    PROVE  OneApplier' /\ OneWork'
<1>1. CASE ~Switching /\ \A w \in DOMAIN work : ~WorkLock(w) /\ ~WorkApply(w)
  BY <1>1, HandsStay
<1>2. CASE Switching
  BY <1>2, HandsSwitch
<1> QED BY <1>1, <1>2, HandsWork

\* Nothing runs after Close, after any step.
LEMMA ClosedStep ==
    ASSUME Types, Shapes, Linked, Bound, Closed, Next
    PROVE  Closed'
<1>0. GoOn /\ jobs \in Seq(JobType) /\ jobs' \in Seq(JobType)
  BY JobsGoOn DEF Types, GoOn
<1>1. CASE closed /\ closed' /\ closing' = closing
  <2>1. \A k \in Ids : jobs'[k].live # "go"
    BY <1>0, <1>1 DEF GoOn, Kept, Closed
  <2>2. \A k \in 1..Len(jobs') : k \notin Ids => jobs'[k].live = "stored"
    BY <1>0 DEF GoOn, Fresh, Ids
  <2> QED BY <1>1, <2>1, <2>2 DEF Closed, Ids
<1>2. CASE CloseEnd
  BY <1>2 DEF CloseEnd, Closed, Ids
<1>3. CASE ~closed'
  BY <1>3 DEF Closed
<1> QED BY <1>1, <1>2, <1>3, CloseMoves DEF Closed

\* An owner does not stop waiting before its job has ended or is given up.
LEMMA WaitEnds ==
    ASSUME Types, Shapes, Linked, NEW w \in DOMAIN work, WorkStep(w), work[w].pc \in Waits, work'[w].pc \notin Waits
    PROVE  LET c == work[w].child IN jobs'[c].status # "running" \/ jobs'[c].odd # {}
<1> DEFINE c == work[w].child
<1>0. jobs \in Seq(JobType) /\ work \in [DOMAIN work -> WorkType] /\ "stop" \in WorkPcs
  BY DEF Types, WorkPcs
<1>1. CASE WorkTested(w) \/ WorkWatched(w)
  BY <1>1 DEF WorkTested, WorkWatched, Ended
<1>2. CASE WorkStopped(w)
  <2>1. c \in Nat /\ c # 0 /\ c <= Len(jobs)
    BY <1>0, <1>2 DEF WorkType, Linked, WorkStopped, Working
  <2>2. c \in 1..Len(jobs) /\ jobs' = Abandoned(jobs, c)
    BY <1>0, <1>2, <2>1 DEF WorkStopped
  <2> HIDE DEF c
  <2>3. jobs'[c].status = jobs[c].status /\ (jobs[c].status = "running" => "abandoned" \in jobs'[c].odd)
    BY <1>0, <2>2, AbandonedFacts
  <2> QED BY <2>3 DEF c
<1>3. CASE WorkStop(w)
  <2>1. work' = Move(w, "stop")
    BY <1>3 DEF WorkStop
  <2>2. Rewritten(work', w, "stop", work[w].child, work[w].stage)
    BY <1>0, <2>1, MoveRewrites
  <2> QED BY <2>2 DEF Rewritten, Waits
<1>4. CASE WorkStart(w) \/ WorkFetch(w) \/ WorkCommit(w) \/ WorkRetest(w) \/ WorkLock(w) \/ WorkApply(w)
  BY <1>4 DEF WorkStart, WorkFetch, WorkCommit, WorkRetest, WorkLock, WorkApply, Working, Waits
<1> QED BY <1>1, <1>2, <1>3, <1>4 DEF WorkStep

\* A refresh waits for its jobs, after any step.
LEMMA WaitedStep ==
    ASSUME Types, Shapes, Linked, Bound, OneTester, Waited, Next
    PROVE  Waited'
<1>0. GoOn /\ jobs \in Seq(JobType) /\ jobs' \in Seq(JobType) /\ work \in [DOMAIN work -> WorkType]
  BY JobsGoOn DEF Types, GoOn
<1> SUFFICES ASSUME NEW c \in 1..Len(jobs'), NEW j, j = jobs'[c].owner, j # 0, jobs'[j].kind = "refresh",
                    jobs'[c].status = "running", jobs'[c].odd = {}
             PROVE  /\ jobs'[j].pc = "queue"
                    /\ \E w \in DOMAIN work' : work'[w].child = c /\ work'[w].pc \in Waits
  BY DEF Waited, Ids
<1>1. CASE c \in Ids
  <2>1. jobs[c].owner = j /\ jobs[c].status = "running" /\ jobs[c].odd = {}
    BY <1>0, <1>1 DEF GoOn, Kept
  <2>2. j \in Ids /\ jobs[j].kind = "refresh" /\ Kept(jobs[j], jobs'[j])
    <3>1. jobs[c] \in JobType
      BY <1>0, <1>1, JobHere
    <3>2. j < c /\ j \in Nat
      BY <1>1, <2>1, <3>1 DEF Linked, JobType
    <3>3. j \in Ids
      BY <1>0, <1>1, <3>2 DEF Ids
    <3> QED BY <1>0, <3>3 DEF GoOn, Kept
  <2>3. jobs[j].pc = "queue"
    BY <1>1, <2>1, <2>2 DEF Waited
  <2>4. PICK w \in DOMAIN work : work[w].child = c /\ work[w].pc \in Waits
    BY <1>1, <2>1, <2>2 DEF Waited
  <2>5. jobs'[j].pc = "queue"
    <3>1. Settling(j)
      BY <2>2, <2>3 DEF Settling, Ending
    <3>2. ~Leaving
      BY <1>0, <2>2, <2>3, <2>4, QueueStays DEF Waits
    <3> QED BY <2>2, <2>3, <3>2 DEF Kept
  <2>6. \E v \in DOMAIN work' : work'[v].child = c /\ work'[v].pc \in Waits
    <3>1. CASE StartRefresh
      <4>1. Settling(j)
        BY <2>2, <2>3 DEF Settling, Ending
      <4> QED BY <1>0, <2>2, <3>1, <4>1, OneRefresh DEF StartRefresh
    <3>2. CASE work' = work
      BY <2>4, <3>2
    <3>3. ASSUME NEW v \in DOMAIN work, WorkStep(v), v # w
          PROVE  work'[w] = work[w] /\ w \in DOMAIN work'
      BY <1>0, <3>3, WorkGoesOn DEF WorkMoves, Rewritten
    <3>4. CASE WorkStep(w)
      <4>1. work'[w].pc \in Waits
        BY <2>4, <3>4, WaitEnds
      <4>2. WorkMoves(w)
        BY <3>4, WorkGoesOn
      <4>3. \E pc, s : Rewritten(work', w, pc, c, s)
        BY <2>4, <4>2 DEF WorkMoves, Waits
      <4>4. work'[w].child = c /\ w \in DOMAIN work'
        BY <4>3 DEF Rewritten
      <4> QED BY <4>1, <4>4
    <3>5. StartRefresh \/ (\E v \in DOMAIN work : WorkStep(v)) \/ work' = work
      BY WorkStays
    <3> QED BY <2>4, <3>1, <3>2, <3>3, <3>4, <3>5
  <2> QED BY <2>5, <2>6
<1>2. CASE c \notin Ids
  <2>1. c = Len(jobs) + 1 /\ Len(jobs') # Len(jobs)
    BY <1>0, <1>2 DEF GoOn, Ids
  <2>2. Stored(jobs'[c])
    BY <2>1, AddedJob
  <2>3. \A k \in Ids : jobs'[k].kind = jobs[k].kind
    BY <1>0 DEF GoOn, Kept
  <2>4. PICK w \in DOMAIN work : /\ work'[w].child = c /\ work'[w].pc \in Waits
                                 /\ (\E i \in Ids : Going(i, "queue")) /\ WorkStep(w) /\ j = Refresh
    BY <2>1, <2>2, <2>3 DEF Stored, NewFacts, Waits, WorkStep
  <2>5. w \in DOMAIN work'
    BY <1>0, <2>4, WorkGoesOn DEF WorkMoves, Rewritten
  <2>6. Refresh \in Ids /\ jobs[Refresh].pc = "queue"
    BY <2>4, WorkingFacts
  <2>7. ~Leaving
    <3>1. ASSUME NEW i \in Ids, QueueEnd(i) PROVE FALSE
      <4>1. \E r : jobs' = Put(i, r)
        BY <3>1 DEF QueueEnd, At
      <4> QED BY <1>0, <2>1, <4>1, PutLen
    <3> QED BY <3>1 DEF Leaving
  <2>8. jobs'[j].pc = "queue"
    BY <1>0, <2>4, <2>6, <2>7 DEF GoOn, Kept
  <2> QED BY <2>4, <2>5, <2>8
<1> QED BY <1>1, <1>2

-----------------------------------------------------------------------------
\* The pools that are or can come back.
Past == {pool} \cup {jobs[k].snap.pool : k \in {i \in Ids : Holds(jobs[i])}}

\* No revision is newer than its tag's.
Newest ==
    /\ \A p \in Past, t \in Tags : p[t].rev <= revs[t]
    /\ \A s \in DOMAIN stages : stages[s].rev <= revs[stages[s].tag]
    /\ \A j \in Ids, t \in Tags : jobs[j].kind = "refresh" => jobs[j].rev[t] <= revs[t]
    /\ parse.pc = "fetching" => parse.rev <= revs[parse.tag]

\* Stage s is not older than the nodes it would replace, nor than those that
\* can come back.
NotOlder(s) == \A p \in Past : p[stages[s].tag].rev <= stages[s].rev

\* Whoever is about to publish a stage has one that is not older.
Newer ==
    /\ \A j \in Ids : jobs[j].kind = "import" /\ jobs[j].pc = "apply" => NotOlder(jobs[j].stage)
    /\ \A w \in DOMAIN work : work[w].pc = "apply" => NotOlder(work[w].stage)

\* While a test of the user's writes, no import is published.
SameRevs ==
    \A j \in Ids : jobs[j].kind = "test" /\ Holds(jobs[j]) /\ "overwritten" \notin jobs[j].odd =>
        \A t \in Tags : jobs[j].snap.pool[t].rev = pool[t].rev

\* What can come back is a pool.
LEMMA PastTypes ==
    ASSUME Types, Shapes
    PROVE  \A p \in Past : p \in Pools
  BY HeldSnap DEF Past, Types

\* What is restored was there, and what is new is the pool.
LEMMA PastGoes ==
    ASSUME GoOn, jobs \in Seq(JobType)
    PROVE  \A p \in Past' : p \in Past \/ p = pool'
<1> SUFFICES ASSUME NEW k \in 1..Len(jobs'), Holds(jobs'[k])
             PROVE  jobs'[k].snap.pool \in Past
  BY DEF Past, Ids, Holds
<1>1. CASE k \in Ids
  <2>1. Kept(jobs[k], jobs'[k])
    BY <1>1 DEF GoOn
  <2> QED BY <1>1, <2>1 DEF Kept, Past
<1>2. CASE k \notin Ids
  <2>1. Fresh(jobs'[k])
    BY <1>2 DEF GoOn, Ids
  <2> QED BY <2>1 DEF Fresh, Holds, Past
<1> QED BY <1>1, <1>2

\* Somebody publishes stage s.
Publishing(s) ==
    /\ s \in DOMAIN stages /\ Publishes(s)
    /\ \/ \E j \in Ids : Importing(j) /\ s = jobs[j].stage
       \/ \E w \in DOMAIN work : Applying(w) /\ s = work[w].stage

\* Every revision of a pool was one of an earlier pool, or is published now.
LEMMA PastRevs ==
    ASSUME Types, Shapes, Linked, Bound, Next, NEW p \in Past', NEW t \in Tags
    PROVE  \/ \E q \in Past : q[t].rev = p[t].rev
           \/ \E s \in DOMAIN stages : Publishing(s) /\ t = stages[s].tag /\ p[t].rev = stages[s].rev
<1>0. GoOn /\ jobs \in Seq(JobType) /\ pool \in Pools /\ stages \in Seq(StageType)
  BY JobsGoOn DEF Types
<1>1. CASE p \in Past
  BY <1>1
<1>2. CASE p = pool'
  <2>1. ASSUME NEW j \in Ids, Marking(j)
        PROVE  pool'[t].rev = pool[t].rev
    BY <1>0, <2>1 DEF Marking, Tested, Pools
  <2>2. ASSUME NEW s \in DOMAIN stages, Publishes(s)
        PROVE  pool'[t].rev = pool[t].rev \/ (t = stages[s].tag /\ pool'[t].rev = stages[s].rev)
    <3>1. stages[s] \in StageType
      BY <1>0
    <3> QED BY <1>0, <2>2, <3>1 DEF Publishes, Pools, StageType
  <2>3. pool \in Past /\ \A j \in Ids : Holds(jobs[j]) => jobs[j].snap.pool \in Past
    BY DEF Past
  <2>4. CASE pool' = pool
    BY <1>2, <2>3, <2>4
  <2>5. ASSUME NEW j \in Ids, Restoring(j) \/ Marking(j) \/ Importing(j)
        PROVE  \/ \E q \in Past : q[t].rev = p[t].rev
               \/ \E s \in DOMAIN stages : Publishing(s) /\ t = stages[s].tag /\ p[t].rev = stages[s].rev
    BY <1>2, <2>1, <2>2, <2>3, <2>5 DEF Restoring, Importing, Publishing
  <2>6. ASSUME NEW w \in DOMAIN work, Applying(w)
        PROVE  \/ \E q \in Past : q[t].rev = p[t].rev
               \/ \E s \in DOMAIN stages : Publishing(s) /\ t = stages[s].tag /\ p[t].rev = stages[s].rev
    BY <1>2, <2>2, <2>3, <2>6 DEF Applying, Publishing
  <2> QED BY <2>4, <2>5, <2>6, PoolGoesOn DEF PoolMoves
<1> QED BY <1>0, <1>1, <1>2, PastGoes

\* No revision overtakes its tag.
LEMMA NewestStep ==
    ASSUME Types, Shapes, Linked, Bound, Newest, Next
    PROVE  Newest'
<1>0. /\ GoOn /\ jobs \in Seq(JobType) /\ jobs' \in Seq(JobType) /\ stages \in Seq(StageType)
      /\ revs \in [Tags -> Nat] /\ revs' \in [Tags -> Nat] /\ \A t \in Tags : revs'[t] >= revs[t]
  BY JobsGoOn, RevsGrow DEF Types, GoOn
<1>1. \A s \in DOMAIN stages : stages[s].tag \in Tags /\ stages[s].rev \in Nat
  <2>1. \A s \in DOMAIN stages : stages[s] \in StageType
    BY <1>0
  <2> QED BY <2>1 DEF StageType
<1>2. ASSUME NEW p \in Past', NEW t \in Tags
      PROVE  p[t].rev <= revs'[t]
  <2>1. \A q \in Past : q[t].rev \in Nat /\ q[t].rev <= revs[t]
    BY PastTypes DEF Pools, Newest
  <2>2. \A s \in DOMAIN stages : stages[s].rev <= revs[stages[s].tag]
    BY DEF Newest
  <2>3. revs[t] \in Nat /\ revs'[t] \in Nat /\ revs'[t] >= revs[t]
    BY <1>0
  <2>4. CASE \E q \in Past : q[t].rev = p[t].rev
    BY <2>1, <2>3, <2>4
  <2>5. CASE \E s \in DOMAIN stages : t = stages[s].tag /\ p[t].rev = stages[s].rev
    BY <1>1, <2>2, <2>3, <2>5
  <2> QED BY <2>4, <2>5, PastRevs
<1>3. ASSUME NEW s \in DOMAIN stages'
      PROVE  stages'[s].rev <= revs'[stages'[s].tag]
  <2>1. CASE s \in DOMAIN stages
    <3>1. stages'[s].rev = stages[s].rev /\ stages'[s].tag = stages[s].tag
      BY <2>1, StagesStand DEF Stands
    <3>2. stages[s].tag \in Tags /\ stages[s].rev \in Nat /\ stages[s].rev <= revs[stages[s].tag]
      BY <1>1, <2>1 DEF Newest
    <3> QED BY <1>0, <3>1, <3>2
  <2>2. CASE s \notin DOMAIN stages
    <3>1. Len(stages') # Len(stages) /\ s = Len(stages) + 1
      BY <1>0, <2>2, StagesStand DEF Stands
    <3>2. StageAdded
      <4>1. Staging
        BY <1>0, <3>1, StagesChange, StageChanges, SameStands
      <4> QED BY <4>1, StagingSteps
    <3>3. CASE ParseStore /\ \E st \in StageSt : stages' = Append(stages, [tag |-> parse.tag, rev |-> parse.rev, by |-> "user", st |-> st])
      <4>1. stages'[s].tag = parse.tag /\ stages'[s].rev = parse.rev
        BY <1>0, <3>1, <3>3
      <4>2. parse.tag \in Tags /\ parse.rev \in Nat /\ parse.rev <= revs[parse.tag]
        BY <3>3 DEF Types, Newest, ParseStore, ParseType
      <4> QED BY <1>0, <4>1, <4>2
    <3>4. ASSUME NEW t \in Tags, revs' = [revs EXCEPT ![t] = @ + 1],
                 stages' = Append(stages, [tag |-> t, rev |-> revs[t] + 1, by |-> "binding", st |-> "parsed"])
          PROVE  stages'[s].rev <= revs'[stages'[s].tag]
      <4>1. stages'[s].tag = t /\ stages'[s].rev = revs[t] + 1
        BY <1>0, <3>1, <3>4
      <4>2. revs'[t] = revs[t] + 1
        BY <1>0, <3>4
      <4> QED BY <1>0, <4>1, <4>2
    <3>5. ASSUME NEW w \in DOMAIN work, WorkFetch(w),
                 stages' = Append(stages, [tag |-> w.tag, rev |-> jobs[Refresh].rev[w.tag], by |-> "work", st |-> "parsed"])
          PROVE  stages'[s].rev <= revs'[stages'[s].tag]
      <4>1. stages'[s].tag = w.tag /\ stages'[s].rev = jobs[Refresh].rev[w.tag]
        BY <1>0, <3>1, <3>5
      <4>2. Refresh \in Ids /\ jobs[Refresh].kind = "refresh"
        BY <3>5, WorkingFacts DEF WorkFetch, Working
      <4>3. w.tag \in Tags
        BY WorksAssumption DEF Types
      <4>4. jobs[Refresh].rev[w.tag] \in Nat
        BY <1>0, <4>2, <4>3, JobHere DEF JobType
      <4>5. jobs[Refresh].rev[w.tag] <= revs[w.tag]
        BY <4>2, <4>3 DEF Newest
      <4> QED BY <1>0, <4>1, <4>3, <4>4, <4>5
    <3> QED BY <1>0, <3>1, <3>2, <3>3, <3>4, <3>5 DEF StageAdded
  <2> QED BY <2>1, <2>2
<1>4. ASSUME NEW j \in 1..Len(jobs'), NEW t \in Tags, jobs'[j].kind = "refresh"
      PROVE  jobs'[j].rev[t] <= revs'[t]
  <2>1. CASE j \in Ids
    <3>1. jobs[j].kind = "refresh" /\ jobs'[j].rev = jobs[j].rev
      BY <1>0, <1>4, <2>1 DEF GoOn, Kept
    <3>2. jobs[j].rev[t] \in Nat /\ jobs[j].rev[t] <= revs[t]
      BY <1>0, <2>1, <3>1, JobHere DEF JobType, Newest
    <3> QED BY <1>0, <3>1, <3>2
  <2>2. CASE j \notin Ids
    <3>1. j = Len(jobs) + 1 /\ Len(jobs') # Len(jobs)
      BY <1>0, <2>2 DEF GoOn, Ids
    <3>2. jobs'[j].rev = [u \in Tags |-> IF u \in Published THEN revs'[u] ELSE 0]
      BY <1>4, <3>1, AddedJob DEF Stored, NewFacts
    <3> QED BY <1>0, <3>2
  <2> QED BY <2>1, <2>2
<1>5. ASSUME parse'.pc = "fetching" PROVE parse'.rev <= revs'[parse'.tag]
  <2>1. CASE ParseRevise
    BY <1>0, <2>1 DEF ParseRevise, Types
  <2>2. CASE parse' = parse
    <3>1. parse.tag \in Tags /\ parse.rev \in Nat /\ parse.rev <= revs[parse.tag]
      BY <1>5, <2>2 DEF Types, ParseType, Newest
    <3> QED BY <1>0, <2>2, <3>1
  <2>3. CASE \E t \in Tags : ParseBegin(t)
    BY <1>5, <2>3 DEF ParseBegin
  <2>4. CASE ParseStore
    BY <1>5, <2>4 DEF ParseStore, NoParse
  <2> QED BY <2>1, <2>2, <2>3, <2>4, ParseMoves
<1> QED BY <1>2, <1>3, <1>4, <1>5 DEF Newest, Ids

\* Only the holder of applyMu publishes.
LEMMA PublisherHolds ==
    ASSUME Types, Shapes, WorkedFor, OneApplier, OneWork, NEW s, Publishing(s)
    PROVE  /\ applier # 0
           /\ \A j \in Ids : InHand(jobs[j]) => Importing(j) /\ s = jobs[j].stage
           /\ \A w \in DOMAIN work : work[w].pc = "apply" => s = work[w].stage
<1>0. jobs \in Seq(JobType) /\ \A k \in Ids : InHands(k) <=> applier = k
  BY OneApplierMeans DEF Types
<1>1. \A k \in Ids : k # 0
  BY DEF Ids
<1>2. ASSUME NEW w \in DOMAIN work, work[w].pc = "apply", NEW j \in Ids, Going(j, "queue")
      PROVE  applier = j /\ jobs[j].kind = "refresh" /\ ~InHand(jobs[j])
  <2>1. jobs[j].kind = "refresh" /\ jobs[j].pc = "queue"
    BY <1>0, <1>2, JobHere, KindOf DEF Going
  <2> QED BY <1>0, <1>2, <2>1 DEF InHands, InApply, InHand
<1>3. ASSUME NEW j \in Ids, Importing(j)
      PROVE  applier = j /\ InHand(jobs[j]) /\ jobs[j].kind = "import"
  BY <1>0, <1>3 DEF InHands, InHand, Importing
<1>4. CASE \E j \in Ids : Importing(j) /\ s = jobs[j].stage
  <2>1. PICK j \in Ids : Importing(j) /\ s = jobs[j].stage
    BY <1>4
  <2>2. applier = j /\ jobs[j].kind = "import"
    BY <1>3, <2>1
  <2>3. \A k \in Ids : InHand(jobs[k]) => k = j
    BY <1>0, <2>2 DEF InHands
  <2>4. ASSUME NEW w \in DOMAIN work, work[w].pc = "apply" PROVE FALSE
    <3>1. PICK i \in Ids : jobs[i].kind = "refresh" /\ jobs[i].pc = "queue"
      BY <2>4 DEF WorkedFor
    <3>2. applier = i
      BY <1>0, <2>4, <3>1 DEF InHands, InApply
    <3> QED BY <2>2, <3>1, <3>2
  <2> QED BY <1>1, <2>1, <2>2, <2>3, <2>4
<1>5. CASE \E w \in DOMAIN work : Applying(w) /\ s = work[w].stage
  <2>1. PICK w \in DOMAIN work : Applying(w) /\ s = work[w].stage
    BY <1>5
  <2>2. PICK j \in Ids : Going(j, "queue")
    BY <2>1 DEF Applying
  <2>3. applier = j /\ ~InHand(jobs[j])
    BY <1>2, <2>1, <2>2 DEF Applying
  <2>4. \A k \in Ids : ~InHand(jobs[k])
    BY <1>0, <2>3 DEF InHands
  <2>5. \A v \in DOMAIN work : work[v].pc = "apply" => v = w
    BY <2>1 DEF Applying, OneWork
  <2> QED BY <1>1, <2>1, <2>3, <2>4, <2>5
<1> QED BY <1>4, <1>5 DEF Publishing

\* Only the lock of an import takes it to where it publishes its stage.
LEMMA ImportLocks ==
    ASSUME Types, Shapes, Linked, Bound, Next, NEW j \in Ids,
           jobs[j].kind = "import", jobs[j].pc # "apply", jobs'[j].pc = "apply"
    PROVE  ImportLock(j) /\ applier = 0 /\ Applicable(jobs[j].stage, stages[jobs[j].stage].rev)
<1>0. GoOn /\ jobs \in Seq(JobType) /\ jobs' \in Seq(JobType) /\ jobs[j] \in JobType
  BY JobsGoOn, JobHere DEF Types, GoOn
<1>1. jobs'[j] \in JobType /\ Shape(jobs'[j]) /\ jobs'[j].kind = "import"
  BY <1>0 DEF GoOn, Kept
<1>2. InHand(jobs'[j]) /\ ~InHand(jobs[j])
  BY <1>1 DEF InHand, Shape, JobType
<1>3. PICK k \in Ids : ImportLock(k) \/ ImportApply(k) \/ TestBegin(k) \/ Exit(k)
  BY <1>0, <1>2 DEF GoOn, Kept, Switching
<1>4. k = j
  <2>1. Only(k)
    BY <1>3, SwitchFacts
  <2> QED BY <1>2, <2>1 DEF Only
<1>5. CASE ImportLock(j)
  <2>1. CASE jobs' = Ends(j, "failed")
    <3>1. jobs'[j] = [jobs[j] EXCEPT !.pc = "write", !.end = "failed"]
      BY <1>0, <2>1, PutThis DEF Ends
    <3>2. jobs'[j].pc = "write"
      BY <1>0, <3>1 DEF JobType
    <3> QED BY <3>2
  <2> QED BY <1>5, <2>1 DEF ImportLock
<1>6. CASE ImportApply(j) \/ TestBegin(j)
  BY <1>6 DEF ImportApply, TestBegin, Going
<1>7. CASE Exit(j)
  <2>1. jobs'[j] = Over(jobs[j])
    BY <1>0, <1>7, PutThis DEF Exit
  <2>2. jobs'[j].pc = "over"
    BY <1>0, <2>1 DEF JobType, Over
  <2> QED BY <2>2
<1> QED BY <1>3, <1>4, <1>5, <1>6, <1>7

\* What is about to be published stays not older than what it replaces.
LEMMA NewerStep ==
    ASSUME Types, Shapes, Linked, Bound, OneTester, WorkedFor, OneApplier, OneWork, Newest, Newer, Next
    PROVE  Newer'
<1> DEFINE then(s) == \A p \in Past' : p[stages'[s].tag].rev <= stages'[s].rev
<1>0. /\ GoOn /\ jobs \in Seq(JobType) /\ jobs' \in Seq(JobType) /\ stages \in Seq(StageType)
      /\ work \in [DOMAIN work -> WorkType] /\ Stands
  BY JobsGoOn, StagesStand DEF Types, GoOn
<1>1. \A s \in DOMAIN stages : stages[s].tag \in Tags /\ stages[s].rev \in Nat
  <2>1. \A s \in DOMAIN stages : stages[s] \in StageType
    BY <1>0
  <2> QED BY <2>1 DEF StageType
<1>2. \A p \in Past, t \in Tags : p[t].rev \in Nat
  BY PastTypes DEF Pools
\* A stage that is not older stays so, or others publish nodes of its tag.
<1>3. ASSUME NEW s \in DOMAIN stages, NotOlder(s), \A r : Publishing(r) => r = s
      PROVE  then(s)
  <2>1. stages'[s].tag = stages[s].tag /\ stages'[s].rev = stages[s].rev
    BY <1>0 DEF Stands
  <2>2. ASSUME NEW p \in Past' PROVE p[stages[s].tag].rev <= stages[s].rev
    <3>1. CASE \E q \in Past : q[stages[s].tag].rev = p[stages[s].tag].rev
      BY <1>3, <3>1 DEF NotOlder
    <3>2. CASE \E r \in DOMAIN stages : Publishing(r) /\ p[stages[s].tag].rev = stages[r].rev
      BY <1>1, <1>3, <3>2
    <3> QED BY <1>1, <3>1, <3>2, PastRevs
  <2> QED BY <2>1, <2>2
\* Where applyMu is taken the revision is the newest.
<1> HIDE DEF then
<1>4. ASSUME NEW s \in DOMAIN stages, Applicable(s, stages[s].rev)
      PROVE  NotOlder(s)
  <2>1. revs[stages[s].tag] = stages[s].rev
    BY <1>4 DEF Applicable
  <2> QED BY <1>1, <2>1 DEF NotOlder, Newest
<1>5. ASSUME NEW j \in 1..Len(jobs'), jobs'[j].kind = "import", jobs'[j].pc = "apply"
      PROVE  then(jobs'[j].stage)
  <2>1. j \in Ids
    BY <1>0, <1>5 DEF GoOn, Fresh, Ids
  <2>2. jobs[j].kind = "import" /\ jobs'[j].stage = jobs[j].stage /\ jobs[j].stage \in DOMAIN stages
    BY <1>0, <1>5, <2>1, StageOf DEF GoOn, Kept
  <2>3. CASE jobs[j].pc = "apply"
    <3>1. InHand(jobs[j]) /\ NotOlder(jobs[j].stage)
      BY <1>0, <2>1, <2>2, <2>3, JobHere DEF Newer, InHand, Shape, JobType
    <3>2. \A r : Publishing(r) => r = jobs[j].stage
      BY <2>1, <3>1, PublisherHolds
    <3>3. then(jobs[j].stage)
      BY <1>3, <2>2, <3>1, <3>2
    <3> QED BY <2>2, <3>3
  <2>4. CASE jobs[j].pc # "apply"
    <3>1. applier = 0 /\ Applicable(jobs[j].stage, stages[jobs[j].stage].rev)
      BY <1>5, <2>1, <2>2, <2>4, ImportLocks
    <3>2. \A r : ~Publishing(r)
      BY <3>1, PublisherHolds
    <3>3. then(jobs[j].stage)
      BY <1>3, <1>4, <2>2, <3>1, <3>2
    <3> QED BY <2>2, <3>3
  <2> QED BY <2>3, <2>4
<1>6. ASSUME NEW w \in DOMAIN work', work'[w].pc = "apply"
      PROVE  then(work'[w].stage)
  <2>1. CASE w \in DOMAIN work /\ work'[w] = work[w]
    <3>1. NotOlder(work[w].stage) /\ work[w].stage \in DOMAIN stages
      BY <1>6, <2>1, StageOf DEF Newer, Linked
    <3>2. \A r : Publishing(r) => r = work[w].stage
      BY <1>6, <2>1, PublisherHolds
    <3>3. then(work[w].stage)
      BY <1>3, <3>1, <3>2
    <3> QED BY <2>1, <3>3
  <2>2. CASE StartRefresh
    BY <1>6, <2>2 DEF StartRefresh, Idle
  <2>3. ASSUME NEW v \in DOMAIN work, WorkStep(v), w # v
        PROVE  w \in DOMAIN work /\ work'[w] = work[w]
    BY <1>0, <2>3, WorkGoesOn DEF WorkMoves, Rewritten
  <2>4. CASE w \in DOMAIN work /\ WorkStep(w)
    <3>1. WorkMoves(w)
      BY <2>4, WorkGoesOn
    <3>2. /\ work[w].pc = "lock" /\ applier = 0 /\ Applicable(work[w].stage, stages[work[w].stage].rev)
          /\ work'[w].stage = work[w].stage
      BY <1>6, <2>4, <3>1 DEF WorkMoves, Rewritten, Goes
    <3>3. work[w].stage \in DOMAIN stages
      BY <2>4, <3>2, StageOf DEF Linked
    <3>4. \A r : ~Publishing(r)
      BY <3>2, PublisherHolds
    <3>5. then(work[w].stage)
      BY <1>3, <1>4, <3>2, <3>3, <3>4
    <3> QED BY <3>2, <3>5
  <2>5. StartRefresh \/ (\E v \in DOMAIN work : WorkStep(v)) \/ work' = work
    BY WorkStays
  <2> QED BY <2>1, <2>2, <2>3, <2>4, <2>5
<1>7. \A j \in 1..Len(jobs') : jobs'[j].kind = "import" /\ jobs'[j].pc = "apply" => then(jobs'[j].stage)
  BY <1>5
<1> QED BY <1>6, <1>7 DEF Newer, Ids, NotOlder, then

\* A test that writes keeps the imports as it found them.
LEMMA SameRevsStep ==
    ASSUME Types, Shapes, Linked, Bound, OneTester, WorkedFor, OneApplier, OneWork, SameRevs, Next
    PROVE  SameRevs'
<1>0. /\ GoOn /\ jobs \in Seq(JobType) /\ jobs' \in Seq(JobType) /\ pool \in Pools
      /\ stages \in Seq(StageType) /\ \A k \in Ids : InHands(k) <=> applier = k
  BY JobsGoOn, OneApplierMeans DEF Types, GoOn
<1> SUFFICES ASSUME NEW j \in 1..Len(jobs'), jobs'[j].kind = "test", Holds(jobs'[j]), "overwritten" \notin jobs'[j].odd,
                    NEW t \in Tags
             PROVE  jobs'[j].snap.pool[t].rev = pool'[t].rev
  BY DEF SameRevs, Ids, Holds
<1>1. j \in Ids
  BY <1>0 DEF GoOn, Fresh, Ids, Holds
<1>2. jobs[j].kind = "test" /\ "overwritten" \notin jobs[j].odd /\ Shape(jobs[j]) /\ jobs[j] \in JobType
  BY <1>0, <1>1, JobHere DEF GoOn, Kept
<1>3. \/ Holds(jobs[j]) /\ jobs'[j].snap = jobs[j].snap
      \/ jobs'[j].snap.pool = pool
  BY <1>0, <1>1 DEF GoOn, Kept
<1>4. Holds(jobs[j]) => jobs[j].snap.pool[t].rev = pool[t].rev
  BY <1>1, <1>2 DEF SameRevs
<1>5. jobs'[j].snap.pool[t].rev = pool[t].rev
  BY <1>3, <1>4
\* Whoever writes the nodes beside it would hold applyMu or be a refresh.
<1>6. ASSUME Holds(jobs[j])
      PROVE  applier = j /\ jobs[j].status = "running" /\ jobs[j].owner = 0
  BY <1>0, <1>1, <1>2, <1>6 DEF Holds, InHands, InHand, Shape, Ending, JobType
<1>7. ASSUME pool'[t].rev # pool[t].rev PROVE FALSE
  <2>1. Holds(jobs[j]) \/ jobs'[j] # jobs[j]
    BY DEF Holds
  <2>2. ASSUME NEW k \in Ids, Restoring(k) PROVE FALSE
    <3>1. CASE k = j
      BY <1>4, <1>7, <2>2, <3>1 DEF Restoring
    <3>2. CASE k # j
      <4>1. Holds(jobs[j])
        BY <1>1, <2>1, <2>2, <3>2 DEF Restoring, Only
      <4>2. jobs[k].kind = "test" => InHands(k)
        BY <2>2, <1>0, JobHere DEF Restoring, Holds, InHands, InHand, Shape, Ending
      <4>3. jobs[k].kind = "refresh" => jobs[k].status = "running" /\ jobs[k].owner = 0
        BY <2>2, <1>0, JobHere DEF Restoring, Shape, Ending
      <4>4. jobs[k].kind \in {"test", "refresh"}
        BY <2>2 DEF Restoring, Holds
      <4> QED BY <1>0, <1>1, <1>2, <1>6, <3>2, <4>1, <4>2, <4>3, <4>4 DEF OneTester, Top
    <3> QED BY <3>1, <3>2
  <2>3. ASSUME NEW k \in Ids, Marking(k) PROVE FALSE
    BY <1>0, <1>7, <2>3 DEF Marking, Tested, Pools
  <2>4. ASSUME NEW k \in Ids, Importing(k) PROVE FALSE
    <3>1. k # j /\ Holds(jobs[j])
      BY <1>1, <1>2, <2>1, <2>4 DEF Importing, Only
    <3>2. InHands(k)
      BY <2>4 DEF Importing, InHands, InHand
    <3> QED BY <1>0, <1>6, <3>1, <3>2
  <2>5. ASSUME NEW w \in DOMAIN work, Applying(w) PROVE FALSE
    <3>1. Holds(jobs[j])
      BY <2>1, <2>5 DEF Applying
    <3>2. PICK i \in Ids : Going(i, "queue")
      BY <2>5 DEF Applying
    <3>3. InHands(i) /\ jobs[i].kind = "refresh"
      BY <1>0, <2>5, <3>2, JobHere, KindOf DEF Applying, Going, InHands, InApply
    <3> QED BY <1>0, <1>2, <1>6, <3>1, <3>3
  <2> QED BY <1>7, <2>2, <2>3, <2>4, <2>5, PoolGoesOn DEF PoolMoves
<1> QED BY <1>5, <1>7

\* A release of applyMu leaves no tag with older nodes.
LEMMA NewestWinsStep ==
    ASSUME Types, Shapes, Linked, Newer, Next, applier # 0, applier' = 0, NEW t \in Tags
    PROVE  pool'[t].rev >= pool[t].rev
<1>0. pool \in Pools /\ pool[t].rev \in Nat /\ stages \in Seq(StageType) /\ pool \in Past
  BY DEF Types, Pools, Past
<1>1. ASSUME NEW s \in DOMAIN stages, NotOlder(s), Publish(s, stages[s].rev)
      PROVE  pool'[t].rev >= pool[t].rev
  <2>1. stages[s].tag \in Tags /\ stages[s].rev \in Nat
    <3>1. stages[s] \in StageType
      BY <1>0
    <3> QED BY <3>1 DEF StageType
  <2>2. pool[stages[s].tag].rev <= stages[s].rev
    BY <1>0, <1>1 DEF NotOlder
  <2>3. pool'[t].rev = IF t = stages[s].tag THEN stages[s].rev ELSE pool[t].rev
    BY <1>0, <1>1, <2>1 DEF Publish, Pools
  <2> QED BY <1>0, <2>1, <2>2, <2>3
<1>2. ASSUME NEW j \in Ids, ImportApply(j)
      PROVE  pool'[t].rev >= pool[t].rev
  <2>1. jobs[j].kind = "import" /\ jobs[j].pc = "apply" /\ jobs[j].stage \in DOMAIN stages
    BY <1>2, StageOf DEF ImportApply, Going
  <2>2. NotOlder(jobs[j].stage)
    BY <2>1 DEF Newer
  <2>3. pool' = pool \/ Publish(jobs[j].stage, stages[jobs[j].stage].rev)
    BY <1>2 DEF ImportApply
  <2> QED BY <1>0, <1>1, <2>1, <2>2, <2>3
<1>3. ASSUME NEW w \in DOMAIN work, WorkApply(w)
      PROVE  pool'[t].rev >= pool[t].rev
  <2>1. work[w].pc = "apply" /\ work[w].stage \in DOMAIN stages
    BY <1>3, StageOf DEF WorkApply, Working, Linked
  <2>2. NotOlder(work[w].stage)
    BY <2>1 DEF Newer
  <2>3. pool' = pool \/ Publish(work[w].stage, stages[work[w].stage].rev)
    BY <1>3 DEF WorkApply
  <2> QED BY <1>0, <1>1, <2>1, <2>2, <2>3
<1>4. ASSUME NEW j \in Ids, Exit(j)
      PROVE  pool'[t].rev >= pool[t].rev
  BY <1>0, <1>4 DEF Exit, store
<1>5. ASSUME NEW j \in Ids, ImportLock(j) \/ TestBegin(j) PROVE FALSE
  BY <1>5 DEF ImportLock, TestBegin
<1>6. ASSUME NEW w \in DOMAIN work, WorkLock(w) PROVE FALSE
  BY <1>6 DEF WorkLock
<1> QED BY <1>2, <1>3, <1>4, <1>5, <1>6, ApplierMoves

\* Where a test ends, it takes back nothing but marks.
LEMMA TestKeepsStep ==
    ASSUME Types, Shapes, Linked, SameRevs, Next, Orderly,
           NEW j \in Ids, jobs[j].kind = "test", jobs[j].pc # "exit", jobs'[j].pc = "exit", NEW t \in Tags
    PROVE  pool'[t].rev = pool[t].rev
<1>0. pool \in Pools
  BY DEF Types
<1>1. jobs'[j] # jobs[j] /\ "overwritten" \notin jobs[j].odd
  BY DEF Orderly
<1>2. ASSUME NEW k \in Ids, Restoring(k)
      PROVE  pool'[t].rev = pool[t].rev
  BY <1>1, <1>2 DEF Restoring, Only, SameRevs
<1>3. ASSUME NEW k \in Ids, Marking(k)
      PROVE  pool'[t].rev = pool[t].rev
  BY <1>0, <1>3 DEF Marking, Tested, Pools
<1>4. ASSUME NEW k \in Ids, Importing(k) PROVE FALSE
  BY <1>1, <1>4 DEF Importing, Only
<1>5. ASSUME NEW w \in DOMAIN work, Applying(w) PROVE FALSE
  BY <1>1, <1>5 DEF Applying
<1> QED BY <1>2, <1>3, <1>4, <1>5, PoolGoesOn DEF PoolMoves

-----------------------------------------------------------------------------
(* What is left of a job that was cancelled.                               *)

\* The pools that can come back.
Saved == {jobs[k].snap.pool : k \in {i \in Ids : Holds(jobs[i])}}

\* No pool of P has revision r of tag t; none has a mark of job c.
NoRev(P, t, r) == \A p \in P : p[t].rev # r
NoMark(P, c)   == \A p \in P, t \in Tags : p[t].test # c

\* Nothing extraordinary has happened to any job.
NoOdds == \A c \in Ids : jobs[c].odd = {}

\* The marks of a pool are of tests, so those of one that is new are nowhere.
Marked == \A p \in Past, t \in Tags : p[t].test = 0 \/ (p[t].test \in Ids /\ jobs[p[t].test].kind = "test")

\* Only refreshes and bindings own jobs; users import only what they parsed,
\* and works publish their stages themselves.
Owned ==
    /\ \A j \in Ids : jobs[j].owner # 0 => jobs[jobs[j].owner].kind \in {"refresh", "binding"}
    /\ \A s \in DOMAIN stages : readers[s] > 0 => stages[s].by = "user"
    /\ \A j \in Ids : jobs[j].kind = "import" /\ jobs[j].owner = 0 => stages[jobs[j].stage].by = "user"
    /\ \A j \in Ids : jobs[j].pc \in {"lock", "apply"} => stages[jobs[j].stage].by # "work"

\* A revision is given once: to a stage, or to a refresh for the stages of
\* its works.
Numbered ==
    /\ \A s \in DOMAIN stages : stages[s].by # "work" => stages[s].rev # 0
    /\ \A r, s \in DOMAIN stages : r # s /\ stages[r].tag = stages[s].tag /\ stages[r].rev = stages[s].rev
                                      => stages[r].by = "work" /\ stages[s].by = "work"
    /\ \A s \in DOMAIN stages, j \in Ids : jobs[j].kind = "refresh" /\ stages[s].by # "work"
                                              => stages[s].rev # jobs[j].rev[stages[s].tag]
    /\ \A j, k \in Ids, t \in Tags : jobs[j].kind = "refresh" /\ jobs[k].kind = "refresh" /\ j # k /\ jobs[j].rev[t] # 0
                                        => jobs[j].rev[t] # jobs[k].rev[t]

\* So is that of the import that is being fetched.
Fetched ==
    parse.pc = "fetching" =>
        /\ parse.rev # 0
        /\ \A s \in DOMAIN stages : stages[s].tag = parse.tag => stages[s].rev # parse.rev
        /\ \A j \in Ids : jobs[j].kind = "refresh" => jobs[j].rev[parse.tag] # parse.rev
        /\ NoRev(Past, parse.tag, parse.rev)

\* The stages of the works are those of the refresh.
WorkStaged ==
    \A w \in DOMAIN work, j \in Ids : jobs[j].kind = "refresh" =>
        /\ jobs[j].pc = "new" => work[w].stage = 0
        /\ jobs[j].pc = "queue" /\ work[w].stage # 0 =>
              /\ stages[work[w].stage].by = "work" /\ stages[work[w].stage].tag = w.tag
              /\ stages[work[w].stage].rev = jobs[j].rev[w.tag]

\* An import of the user's is nowhere before a job has published it.
Applied(job) == job.pc \in {"write", "exit", "over"} /\ job.end # "canceled"
Imported ==
    \A s \in DOMAIN stages :
        stages[s].by = "user" /\ (\A k \in Ids : jobs[k].kind = "import" /\ jobs[k].stage = s => ~Applied(jobs[k]))
        => NoRev(Past, stages[s].tag, stages[s].rev)

\* A test that has written nothing, or has taken it back, left no mark; what
\* it has written is in no snapshot.
CleanTests ==
    NoOdds => \A j \in Ids : jobs[j].kind = "test" =>
        /\ jobs[j].pc \in {"new", "probe", "refused"} => NoMark(Past, j)
        /\ jobs[j].pc \in {"results", "country", "reload"} => NoMark(Saved, j)
        /\ jobs[j].owner = 0 /\ jobs[j].end = "canceled" => NoMark(Past, j)

\* What a refresh and its jobs have brought is in no pool of P.
CleanOf(P, j) ==
    /\ \A c \in Children(j) : NoMark(P, c)
    /\ \A t \in Tags : jobs[j].rev[t] # 0 => NoRev(P, t, jobs[j].rev[t])

\* No snapshot has it until the queue ends, and after a restore nothing has.
CleanRefreshes ==
    NoOdds => \A j \in Ids : jobs[j].kind = "refresh" =>
        /\ jobs[j].pc \in {"new", "queue"} => CleanOf(Saved, j)
        /\ jobs[j].note = "restored" => CleanOf(Past, j)

\* Where a snapshot is taken.
Snapping ==
    \/ StartRefresh
    \/ \E k \in Ids : jobs[k].kind = "test" /\ jobs[k].pc = "probe" /\ jobs[k].owner = 0 /\ applier = 0

\* What can come back could before, or is a snapshot that is just taken.
LEMMA SavedGoes ==
    ASSUME Types, Shapes, Linked, Bound, Next
    PROVE  \A p \in Saved' : p \in Saved \/ (p = pool /\ Snapping)
<1>0. GoOn /\ jobs \in Seq(JobType)
  BY JobsGoOn DEF Types
<1> SUFFICES ASSUME NEW k \in 1..Len(jobs'), Holds(jobs'[k])
             PROVE  jobs'[k].snap.pool \in Saved \/ (jobs'[k].snap.pool = pool /\ Snapping)
  BY DEF Saved, Ids, Holds
<1>1. CASE k \in Ids
  <2>1. Kept(jobs[k], jobs'[k])
    BY <1>0, <1>1 DEF GoOn
  <2> QED BY <1>1, <2>1 DEF Kept, Saved, Snapping
<1>2. CASE k \notin Ids
  <2>1. k = Len(jobs) + 1 /\ Len(jobs') # Len(jobs) /\ Fresh(jobs'[k])
    BY <1>0, <1>2 DEF GoOn, Ids
  <2>2. jobs'[k].kind = "refresh" /\ jobs'[k].snap.pool = pool
    BY <2>1 DEF Fresh, Holds
  <2>3. StartRefresh
    BY <2>1, <2>2, AddedJob DEF Stored, NewFacts
  <2> QED BY <2>2, <2>3 DEF Snapping
<1> QED BY <1>1, <1>2

\* A mark was there, or is made now.
LEMMA MarkGoes ==
    ASSUME Types, Shapes, Linked, Bound, Next, NEW p \in Past', NEW t \in Tags
    PROVE  \/ p[t].test = 0
           \/ \E q \in Past : q[t].test = p[t].test
           \/ \E k \in Ids : Marking(k) /\ p[t].test = k
<1>0. GoOn /\ jobs \in Seq(JobType) /\ pool \in Pools /\ stages \in Seq(StageType) /\ pool \in Past
  BY JobsGoOn DEF Types, Past
<1>1. CASE p \in Past
  BY <1>1
<1>2. CASE p = pool'
  <2>1. ASSUME NEW k \in Ids, Marking(k)
        PROVE  pool'[t].test \in {pool[t].test, k}
    BY <1>0, <2>1 DEF Marking, Tested, Pools
  <2>2. ASSUME NEW s \in DOMAIN stages, Publishes(s)
        PROVE  pool'[t].test \in {pool[t].test, 0}
    BY <1>0, <2>2 DEF Publishes, Pools
  <2>3. \A j \in Ids : Holds(jobs[j]) => jobs[j].snap.pool \in Past
    BY DEF Past
  <2> QED BY <1>0, <1>2, <2>1, <2>2, <2>3, PoolGoesOn DEF PoolMoves, Restoring, Importing, Applying
<1> QED BY <1>0, <1>1, <1>2, PastGoes

\* The jobs and stages of a step: those there were, and the one it adds.
LEMMA StepFacts ==
    ASSUME Types, Shapes, Linked, Bound, Next
    PROVE  /\ jobs \in Seq(JobType) /\ jobs' \in Seq(JobType) /\ stages \in Seq(StageType) /\ stages' \in Seq(StageType)
           /\ pool \in Pools /\ pool \in Past /\ revs \in [Tags -> Nat] /\ Stands
           /\ \A k \in Ids : k \in 1..Len(jobs') /\ k # 0 /\ Kept(jobs[k], jobs'[k]) /\ jobs[k] \in JobType /\ Shape(jobs[k])
           /\ \A k \in 1..Len(jobs') : k \in Ids \/ (k = Len(jobs) + 1 /\ k \notin Ids /\ Fresh(jobs'[k]) /\ Stored(jobs'[k]))
<1>1. GoOn /\ Stands
  BY JobsGoOn, StagesStand
<1>2. \A k \in Ids : jobs[k] \in JobType /\ Shape(jobs[k])
  BY JobHere DEF Types
<1>3. ASSUME NEW k \in 1..Len(jobs'), k \notin Ids
      PROVE  k = Len(jobs) + 1 /\ Fresh(jobs'[k]) /\ Stored(jobs'[k])
  <2>1. k = Len(jobs) + 1 /\ Len(jobs') # Len(jobs)
    BY <1>1, <1>3 DEF GoOn, Ids, Types
  <2> QED BY <1>1, <2>1, AddedJob DEF GoOn
<1>4. \A k \in Ids : k \in 1..Len(jobs') /\ k # 0
  BY <1>1 DEF GoOn, Ids, Types
<1> QED BY <1>1, <1>2, <1>3, <1>4 DEF GoOn, Types, Past, Stands

\* The pools of a step have the marks they had, or one of a test that marks.
LEMMA MarkedStep ==
    ASSUME Types, Shapes, Linked, Bound, Marked, Next
    PROVE  Marked'
<1> SUFFICES ASSUME NEW p \in Past', NEW t \in Tags
             PROVE  p[t].test = 0 \/ (p[t].test \in 1..Len(jobs') /\ jobs'[p[t].test].kind = "test")
  BY DEF Marked, Ids
<1>1. \A k \in Ids : jobs[k].kind = "test" => k \in 1..Len(jobs') /\ jobs'[k].kind = "test"
  BY StepFacts DEF Kept
<1>2. CASE \E q \in Past : q[t].test = p[t].test
  BY <1>1, <1>2 DEF Marked
<1>3. CASE \E k \in Ids : Marking(k) /\ p[t].test = k
  BY <1>1, <1>3 DEF Marking
<1> QED BY <1>2, <1>3, MarkGoes

\* No pool has a mark of a job that has just been stored.
LEMMA NewUnmarked ==
    ASSUME Types, Shapes, Linked, Bound, Marked, Next, NEW c \in 1..Len(jobs'), c \notin Ids
    PROVE  NoMark(Past', c)
<1>1. c # 0
  OBVIOUS
<1> SUFFICES ASSUME NEW p \in Past', NEW t \in Tags
             PROVE  p[t].test # c
  BY DEF NoMark
<1> QED BY <1>1, MarkGoes DEF Marked

\* A refresh that has just been stored has the next revisions.
LEMMA NewRefresh ==
    ASSUME Types, Shapes, Linked, Bound, Next, NEW j \in 1..Len(jobs'), j \notin Ids, jobs'[j].kind = "refresh"
    PROVE  /\ StartRefresh /\ stages' = stages
           /\ \A t \in Tags : jobs'[j].rev[t] = 0 \/ jobs'[j].rev[t] = revs[t] + 1
<1>1. StartRefresh /\ jobs'[j].rev = [t \in Tags |-> IF t \in Published THEN revs'[t] ELSE 0]
  BY StepFacts DEF Stored, NewFacts
<1>2. \A t \in Tags : revs'[t] = revs[t] \/ revs'[t] = revs[t] + 1
  BY <1>1 DEF StartRefresh
<1>3. \A t \in Published : revs'[t] = revs[t] + 1 /\ t \in Tags
  BY <1>1 DEF StartRefresh, Published
<1> QED BY <1>1, <1>3 DEF StartRefresh, store

\* A stage that has just been stored: for whom, and with which revision.
LEMMA NewStage ==
    ASSUME Types, Shapes, Linked, Bound, Next, NEW s \in DOMAIN stages', s \notin DOMAIN stages
    PROVE  /\ s = Len(stages) + 1 /\ Staging
           /\ \/ /\ ParseStore
                 /\ stages'[s].tag = parse.tag /\ stages'[s].rev = parse.rev /\ stages'[s].by = "user"
              \/ \E t \in Tags : stages'[s].tag = t /\ stages'[s].rev = revs[t] + 1 /\ stages'[s].by = "binding"
              \/ \E w \in DOMAIN work :
                    /\ WorkFetch(w) /\ Refresh \in Ids /\ jobs[Refresh].kind = "refresh" /\ jobs[Refresh].pc = "queue"
                    /\ stages'[s].tag = w.tag /\ stages'[s].rev = jobs[Refresh].rev[w.tag] /\ stages'[s].by = "work"
<1>0. stages \in Seq(StageType)
  BY DEF Types
<1>1. s = Len(stages) + 1 /\ Len(stages') # Len(stages)
  BY <1>0, StagesStand DEF Stands
<1>2. Staging
  BY <1>0, <1>1, StagesChange, StageChanges, SameStands
<1>3. StageAdded
  BY <1>2, StagingSteps
<1>4. ASSUME NEW x, stages' = Append(stages, x)
      PROVE  stages'[s] = x
  BY <1>0, <1>1, <1>4
<1>5. ASSUME NEW w \in DOMAIN work, WorkFetch(w)
      PROVE  Refresh \in Ids /\ jobs[Refresh].kind = "refresh" /\ jobs[Refresh].pc = "queue"
  BY <1>5, WorkingFacts DEF WorkFetch, Working
<1>6. CASE stages' = stages
  BY <1>1, <1>6
<1>7. CASE ParseStore /\ \E st \in StageSt : stages' = Append(stages, [tag |-> parse.tag, rev |-> parse.rev, by |-> "user", st |-> st])
  BY <1>1, <1>2, <1>4, <1>7
<1>8. CASE \E t \in Tags : stages' = Append(stages, [tag |-> t, rev |-> revs[t] + 1, by |-> "binding", st |-> "parsed"])
  BY <1>1, <1>2, <1>4, <1>8
<1>9. CASE \E w \in DOMAIN work :
             /\ WorkFetch(w)
             /\ stages' = Append(stages, [tag |-> w.tag, rev |-> jobs[Refresh].rev[w.tag], by |-> "work", st |-> "parsed"])
  BY <1>1, <1>2, <1>4, <1>5, <1>9
<1> QED BY <1>3, <1>6, <1>7, <1>8, <1>9 DEF StageAdded

\* Who owns a job and who parsed a stage remains as it was.
LEMMA OwnedStep ==
    ASSUME Types, Shapes, Linked, Bound, Owned, Next
    PROVE  Owned'
<1>0. \A k \in Ids : jobs[k].stage \in DOMAIN stages => stages'[jobs[k].stage].by = stages[jobs[k].stage].by
  BY StepFacts DEF Stands
<1>1. ASSUME NEW j \in 1..Len(jobs'), jobs'[j].owner # 0
      PROVE  jobs'[jobs'[j].owner].kind \in {"refresh", "binding"}
  <2>1. \A k \in Ids : jobs[k].kind \in {"refresh", "binding"} => jobs'[k].kind \in {"refresh", "binding"}
    BY StepFacts DEF Kept
  <2>2. CASE j \in Ids
    <3>1. jobs'[j].owner = jobs[j].owner /\ jobs[j].owner \in Nat /\ jobs[j].owner < j
      BY <2>2, StepFacts DEF Kept, JobType, Linked
    <3>2. jobs[j].owner \in Ids
      BY <1>1, <2>2, <3>1, StepFacts DEF Ids
    <3> QED BY <1>1, <2>1, <2>2, <3>1, <3>2 DEF Owned
  <2>3. CASE j \notin Ids
    <3>1. (\E i \in Ids : Going(i, "queue")) => Refresh \in Ids /\ jobs[Refresh].kind = "refresh"
      BY WorkingFacts
    <3> QED BY <1>1, <2>1, <2>3, <3>1, StepFacts DEF Stored, NewFacts
  <2> QED BY <2>2, <2>3
<1>2. ASSUME NEW s \in DOMAIN stages', readers'[s] > 0
      PROVE  stages'[s].by = "user"
  <2>0. readers \in Seq(Nat) /\ DOMAIN readers = DOMAIN stages /\ Len(readers) = Len(stages)
    BY DEF Types
  <2>1. CASE Staging
    <3>1. (stages' = stages /\ readers' = readers) \/ readers' = Append(readers, 0)
      BY <2>1, StagingSteps DEF StageAdded
    <3>2. CASE s \in DOMAIN stages
      <4>1. readers'[s] = readers[s] /\ stages'[s].by = stages[s].by
        BY <2>0, <3>1, <3>2, StepFacts DEF Stands
      <4> QED BY <1>2, <3>2, <4>1 DEF Owned
    <3>3. CASE s \notin DOMAIN stages
      <4>1. s = Len(stages) + 1
        BY <3>3, NewStage
      <4> QED BY <1>2, <2>0, <3>1, <3>3, <4>1
    <3> QED BY <3>2, <3>3
  <2>2. CASE ~Staging
    <3>1. s \in DOMAIN stages
      BY <2>2, NewStage
    <3>2. stages'[s].by = stages[s].by
      BY <3>1, StepFacts DEF Stands
    <3>3. CASE readers' = readers
      BY <1>2, <3>1, <3>2, <3>3 DEF Owned
    <3>4. ASSUME NEW r \in DOMAIN stages, CommitRead(r)
          PROVE  stages[s].by = "user"
      <4>1. readers' = [readers EXCEPT ![r] = @ + 1] /\ stages[r].by = "user"
        BY <3>4 DEF CommitRead
      <4>2. s = r \/ readers'[s] = readers[s]
        BY <2>0, <3>1, <4>1
      <4> QED BY <1>2, <3>1, <4>1, <4>2 DEF Owned
    <3>5. ASSUME NEW r \in DOMAIN stages, CommitStore(r)
          PROVE  stages[s].by = "user"
      <4>1. readers' = [readers EXCEPT ![r] = @ - 1] /\ readers[r] > 0
        BY <3>5 DEF CommitStore
      <4>2. s = r \/ readers'[s] = readers[s]
        BY <2>0, <3>1, <4>1
      <4> QED BY <1>2, <3>1, <4>1, <4>2 DEF Owned
    <3> QED BY <2>2, <3>2, <3>3, <3>4, <3>5, ReadersMove
  <2> QED BY <2>1, <2>2
<1>3. ASSUME NEW j \in 1..Len(jobs'), jobs'[j].kind = "import", jobs'[j].owner = 0
      PROVE  stages'[jobs'[j].stage].by = "user"
  <2>1. CASE j \in Ids
    <3>1. jobs[j].kind = "import" /\ jobs[j].owner = 0 /\ jobs'[j].stage = jobs[j].stage
      BY <1>3, <2>1, StepFacts DEF Kept
    <3>2. jobs[j].stage \in DOMAIN stages
      BY <2>1, <3>1, StageOf
    <3> QED BY <1>0, <2>1, <3>1, <3>2 DEF Owned
  <2>2. CASE j \notin Ids
    <3>1. (\E i \in Ids : Going(i, "queue")) => Refresh \in Ids
      BY WorkingFacts
    <3>a. Stored(jobs'[j]) /\ \A k \in Ids : k # 0
      BY <2>2, StepFacts
    <3>2. PICK s \in DOMAIN stages : CommitStore(s) /\ jobs'[j].stage = s
      BY <1>3, <3>1, <3>a DEF Stored, NewFacts
    <3>3. stages'[s].by = stages[s].by
      BY StepFacts DEF Stands
    <3> QED BY <3>2, <3>3 DEF CommitStore, Owned
  <2> QED BY <2>1, <2>2
<1>4. ASSUME NEW j \in 1..Len(jobs'), jobs'[j].pc \in {"lock", "apply"}
      PROVE  stages'[jobs'[j].stage].by # "work"
  <2>1. j \in Ids /\ Kept(jobs[j], jobs'[j])
    BY <1>4, StepFacts DEF Fresh
  <2>2. jobs[j].kind = "import" /\ jobs'[j].stage = jobs[j].stage
    BY <1>4, <2>1 DEF Kept, Shape, Ending, JobType, Kinds
  <2>3. jobs[j].pc \in {"lock", "apply"} \/ stages[jobs[j].stage].by # "work"
    BY <1>4, <2>1 DEF Kept
  <2>4. jobs[j].stage \in DOMAIN stages
    BY <2>1, <2>2, StageOf
  <2> QED BY <1>0, <2>1, <2>2, <2>3, <2>4 DEF Owned
<1> QED BY <1>1, <1>2, <1>3, <1>4 DEF Owned, Ids


\* Revisions are given once, after any step.
LEMMA NumberedStep ==
    ASSUME Types, Shapes, Linked, Bound, Newest, Numbered, Fetched, Next
    PROVE  Numbered'
<1> DEFINE old(s) == s \in DOMAIN stages
<1>0. /\ \A s : old(s) => /\ stages[s].tag \in Tags /\ stages[s].rev \in Nat /\ stages[s].rev <= revs[stages[s].tag]
                          /\ stages'[s].tag = stages[s].tag /\ stages'[s].rev = stages[s].rev /\ stages'[s].by = stages[s].by
      /\ \A t \in Tags : revs[t] \in Nat
      /\ parse.rev \in Nat /\ (parse.pc # "idle" => parse.tag \in Tags)
  <2>1. \A s \in DOMAIN stages : stages[s] \in StageType
    BY DEF Types
  <2> QED BY <2>1, StepFacts DEF StageType, Stands, Newest, Types, ParseType
<1>1. ASSUME NEW k \in Ids, NEW t \in Tags, jobs[k].kind = "refresh"
      PROVE  jobs'[k].kind = "refresh" /\ jobs'[k].rev = jobs[k].rev /\ jobs[k].rev[t] \in Nat /\ jobs[k].rev[t] <= revs[t]
  <2>1. Kept(jobs[k], jobs'[k]) /\ jobs[k] \in JobType
    BY StepFacts
  <2> QED BY <1>1, <2>1 DEF Kept, JobType, Newest
<1>2. \A k \in Ids : jobs'[k].kind = jobs[k].kind
  BY StepFacts DEF Kept
<1>3. ASSUME ParseStore
      PROVE  /\ parse.rev # 0 /\ parse.tag \in Tags
             /\ \A s \in DOMAIN stages : stages[s].tag = parse.tag => stages[s].rev # parse.rev
             /\ \A j \in Ids : jobs[j].kind = "refresh" => jobs[j].rev[parse.tag] # parse.rev
  BY <1>0, <1>3 DEF ParseStore, Fetched
<1>4. ASSUME NEW s \in DOMAIN stages', stages'[s].by # "work"
      PROVE  stages'[s].rev # 0
  <2>1. CASE old(s)
    BY <1>0, <1>4, <2>1 DEF Numbered
  <2>2. CASE ~old(s)
    BY <1>0, <1>3, <1>4, <2>2, NewStage
  <2> QED BY <2>1, <2>2
\* A new stage and one that was there.
<1>5. ASSUME NEW r \in DOMAIN stages, NEW s \in DOMAIN stages', ~old(s),
             stages'[s].tag = stages[r].tag, stages'[s].rev = stages[r].rev
      PROVE  stages[r].by = "work" /\ stages'[s].by = "work"
  <2>1. ASSUME ParseStore, stages'[s].tag = parse.tag, stages'[s].rev = parse.rev PROVE FALSE
    BY <1>3, <1>5, <2>1
  <2>2. ASSUME NEW t \in Tags, stages'[s].tag = t, stages'[s].rev = revs[t] + 1 PROVE FALSE
    <3>1. revs[t] \in Nat /\ stages[r].rev \in Nat /\ stages[r].rev <= revs[t]
      BY <1>0, <1>5, <2>2
    <3>2. stages[r].rev = revs[t] + 1
      BY <1>5, <2>2
    <3> QED BY <3>1, <3>2
  <2>3. ASSUME NEW j \in Ids, jobs[j].kind = "refresh", NEW t, stages'[s].tag = t, stages'[s].rev = jobs[j].rev[t]
        PROVE  stages[r].by = "work"
    BY <1>5, <2>3 DEF Numbered
  <2> QED BY <1>5, <2>1, <2>2, <2>3, NewStage
<1>6. ASSUME NEW r \in DOMAIN stages', NEW s \in DOMAIN stages', r # s,
             stages'[r].tag = stages'[s].tag, stages'[r].rev = stages'[s].rev
      PROVE  stages'[r].by = "work" /\ stages'[s].by = "work"
  <2>1. CASE old(r) /\ old(s)
    BY <1>0, <1>6, <2>1 DEF Numbered
  <2>2. CASE old(r) /\ ~old(s)
    BY <1>0, <1>5, <1>6, <2>2
  <2>3. CASE ~old(r) /\ old(s)
    BY <1>0, <1>5, <1>6, <2>3
  <2>4. CASE ~old(r) /\ ~old(s)
    BY <1>6, <2>4, NewStage
  <2> QED BY <2>1, <2>2, <2>3, <2>4
<1>7. ASSUME NEW s \in DOMAIN stages', NEW j \in 1..Len(jobs'), jobs'[j].kind = "refresh", stages'[s].by # "work"
      PROVE  stages'[s].rev # jobs'[j].rev[stages'[s].tag]
  <2>1. CASE old(s) /\ j \in Ids
    <3>1. jobs[j].kind = "refresh" /\ jobs'[j].rev = jobs[j].rev
      BY <1>1, <1>2, <1>7, <2>1, StepFacts DEF Kept
    <3> QED BY <1>0, <1>7, <2>1, <3>1 DEF Numbered
  <2>2. CASE ~old(s) /\ j \in Ids
    <3>1. jobs[j].kind = "refresh" /\ jobs'[j].rev = jobs[j].rev
      BY <1>1, <1>2, <1>7, <2>2, StepFacts DEF Kept
    <3>2. ASSUME NEW t \in Tags, stages'[s].tag = t, stages'[s].rev = revs[t] + 1
          PROVE  stages'[s].rev # jobs'[j].rev[t]
      BY <1>0, <1>1, <2>2, <3>1, <3>2
    <3>3. ASSUME ParseStore, stages'[s].tag = parse.tag, stages'[s].rev = parse.rev
          PROVE  stages'[s].rev # jobs'[j].rev[stages'[s].tag]
      BY <1>3, <2>2, <3>1, <3>3
    <3> QED BY <1>7, <2>2, <3>2, <3>3, NewStage
  <2>3. CASE j \notin Ids
    <3>1. old(s) /\ (jobs'[j].rev[stages[s].tag] = 0 \/ jobs'[j].rev[stages[s].tag] = revs[stages[s].tag] + 1)
      BY <1>0, <1>7, <2>3, NewRefresh
    <3>2. stages[s].rev # 0
      BY <1>0, <1>7, <3>1 DEF Numbered
    <3> QED BY <1>0, <3>1, <3>2
  <2> QED BY <2>1, <2>2, <2>3
<1>8. ASSUME NEW j \in 1..Len(jobs'), NEW k \in 1..Len(jobs'), NEW t \in Tags,
             jobs'[j].kind = "refresh", jobs'[k].kind = "refresh", j # k, jobs'[j].rev[t] # 0
      PROVE  jobs'[j].rev[t] # jobs'[k].rev[t]
  <2>1. CASE j \in Ids /\ k \in Ids
    BY <1>1, <1>2, <1>8, <2>1 DEF Numbered
  <2>2. CASE j \in Ids /\ k \notin Ids
    <3>1. jobs'[k].rev[t] = 0 \/ jobs'[k].rev[t] = revs[t] + 1
      BY <1>8, <2>2, NewRefresh
    <3>2. jobs'[j].rev[t] \in Nat /\ jobs'[j].rev[t] <= revs[t]
      BY <1>1, <1>2, <1>8, <2>2
    <3> QED BY <1>0, <1>8, <3>1, <3>2
  <2>3. CASE j \notin Ids /\ k \in Ids
    <3>1. jobs'[j].rev[t] = 0 \/ jobs'[j].rev[t] = revs[t] + 1
      BY <1>8, <2>3, NewRefresh
    <3>2. jobs'[k].rev[t] \in Nat /\ jobs'[k].rev[t] <= revs[t]
      BY <1>1, <1>2, <1>8, <2>3
    <3> QED BY <1>0, <1>8, <3>1, <3>2
  <2>4. CASE j \notin Ids /\ k \notin Ids
    BY <1>8, <2>4, StepFacts
  <2> QED BY <2>1, <2>2, <2>3, <2>4
<1> QED BY <1>4, <1>6, <1>7, <1>8 DEF Numbered, Ids

\* The import that is being fetched has a revision of its own.
LEMMA FetchedStep ==
    ASSUME Types, Shapes, Linked, Bound, Newest, Fetched, Next
    PROVE  Fetched'
<1>0. /\ \A s \in DOMAIN stages : /\ stages[s].tag \in Tags /\ stages[s].rev \in Nat /\ stages[s].rev <= revs[stages[s].tag]
                                  /\ stages'[s].tag = stages[s].tag /\ stages'[s].rev = stages[s].rev
      /\ \A t \in Tags : revs[t] \in Nat
      /\ parse.rev \in Nat /\ (parse.pc # "idle" => parse.tag \in Tags)
  <2>1. \A s \in DOMAIN stages : stages[s] \in StageType
    BY DEF Types
  <2> QED BY <2>1, StepFacts DEF StageType, Stands, Newest, Types, ParseType
<1>1. \A k \in Ids, t \in Tags : /\ jobs'[k].kind = jobs[k].kind
                                 /\ jobs[k].kind = "refresh" =>
                                       jobs'[k].rev = jobs[k].rev /\ jobs[k].rev[t] \in Nat /\ jobs[k].rev[t] <= revs[t]
  BY SMTT(30), StepFacts DEF Kept, JobType, Newest
<1>2. \A q \in Past, t \in Tags : q[t].rev \in Nat /\ q[t].rev <= revs[t]
  BY PastTypes DEF Pools, Newest
<1> SUFFICES ASSUME parse'.pc = "fetching"
             PROVE  /\ parse'.rev # 0
                    /\ \A s \in DOMAIN stages' : stages'[s].tag = parse'.tag => stages'[s].rev # parse'.rev
                    /\ \A j \in 1..Len(jobs') : jobs'[j].kind = "refresh" => jobs'[j].rev[parse'.tag] # parse'.rev
                    /\ \A p \in Past' : p[parse'.tag].rev # parse'.rev
  BY DEF Fetched, NoRev, Ids
<1>3. ParseRevise \/ (parse' = parse /\ parse.pc = "fetching" /\ ~ParseStore)
  <2>1. ASSUME ParseStore PROVE FALSE
    BY <2>1 DEF ParseStore, NoParse
  <2>2. ASSUME NEW t \in Tags, ParseBegin(t) PROVE FALSE
    BY <2>2 DEF ParseBegin
  <2> QED BY <2>1, <2>2, ParseMoves
<1>4. CASE ParseRevise
  <2>1. parse'.tag \in Tags /\ parse'.tag = parse.tag /\ parse'.rev = revs[parse.tag] + 1 /\ jobs' = jobs /\ stages' = stages
    BY <1>0, <1>4, StepFacts DEF ParseRevise, store, Types, ParseType
  <2>2. ASSUME NEW p \in Past' PROVE p[parse.tag].rev <= revs[parse.tag] /\ p[parse.tag].rev \in Nat
    <3>1. CASE \E q \in Past : q[parse.tag].rev = p[parse.tag].rev
      BY <1>2, <2>1, <3>1
    <3>2. CASE \E s \in DOMAIN stages : parse.tag = stages[s].tag /\ p[parse.tag].rev = stages[s].rev
      BY <1>0, <3>2
    <3> QED BY <2>1, <3>1, <3>2, PastRevs
  <2>3. revs[parse.tag] \in Nat
    BY <1>0, <2>1
  <2> QED BY <1>0, <1>1, <2>1, <2>2, <2>3 DEF Ids
<1>5. CASE parse' = parse /\ parse.pc = "fetching" /\ ~ParseStore
  <2>1. parse.tag \in Tags /\ parse.rev # 0 /\ parse.rev <= revs[parse.tag] /\ NoRev(Past, parse.tag, parse.rev)
    BY <1>0, <1>5 DEF Fetched, Newest
  <2>2. ASSUME NEW s \in DOMAIN stages', stages'[s].tag = parse.tag
        PROVE  stages'[s].rev # parse.rev
    <3>1. CASE s \in DOMAIN stages
      BY <1>0, <1>5, <2>2, <3>1 DEF Fetched
    <3>2. CASE s \notin DOMAIN stages
      <4>1. ASSUME NEW t \in Tags, stages'[s].tag = t, stages'[s].rev = revs[t] + 1
            PROVE  stages'[s].rev # parse.rev
        BY <1>0, <2>1, <2>2, <4>1
      <4>2. ASSUME NEW j \in Ids, jobs[j].kind = "refresh", NEW t, stages'[s].tag = t, stages'[s].rev = jobs[j].rev[t]
            PROVE  stages'[s].rev # parse.rev
        BY <1>5, <2>2, <4>2 DEF Fetched
      <4> QED BY <1>5, <3>2, <4>1, <4>2, NewStage
    <3> QED BY <3>1, <3>2
  <2>3. ASSUME NEW j \in 1..Len(jobs'), jobs'[j].kind = "refresh"
        PROVE  jobs'[j].rev[parse.tag] # parse.rev
    <3>1. CASE j \in Ids
      BY <1>1, <1>5, <2>1, <2>3, <3>1 DEF Fetched
    <3>2. CASE j \notin Ids
      <4>1. jobs'[j].rev[parse.tag] = 0 \/ jobs'[j].rev[parse.tag] = revs[parse.tag] + 1
        BY <2>1, <2>3, <3>2, NewRefresh
      <4> QED BY <1>0, <2>1, <4>1
    <3> QED BY <3>1, <3>2
  <2>4. ASSUME NEW p \in Past'
        PROVE  p[parse.tag].rev # parse.rev
    <3>1. CASE \E q \in Past : q[parse.tag].rev = p[parse.tag].rev
      BY <2>1, <3>1 DEF NoRev
    <3>2. CASE \E s \in DOMAIN stages : parse.tag = stages[s].tag /\ p[parse.tag].rev = stages[s].rev
      BY <1>5, <3>2 DEF Fetched
    <3> QED BY <2>1, <3>1, <3>2, PastRevs
  <2> QED BY <1>5, <2>1, <2>2, <2>3, <2>4
<1> QED BY <1>3, <1>4, <1>5


\* The works of a refresh have stages of its own.
LEMMA WorkStagedStep ==
    ASSUME Types, Shapes, Linked, Bound, OneTester, WorkStaged, Next
    PROVE  WorkStaged'
<1> SUFFICES ASSUME NEW w \in DOMAIN work', NEW j \in 1..Len(jobs'), jobs'[j].kind = "refresh",
                    jobs'[j].pc \in {"new", "queue"}, work'[w].stage # 0
             PROVE  /\ jobs'[j].pc = "queue"
                    /\ stages'[work'[w].stage].by = "work" /\ stages'[work'[w].stage].tag = w.tag
                    /\ stages'[work'[w].stage].rev = jobs'[j].rev[w.tag]
  BY DEF WorkStaged, Ids
<1>0. jobs \in Seq(JobType) /\ stages \in Seq(StageType)
  BY DEF Types
<1>1. ~StartRefresh
  BY DEF StartRefresh, Idle
<1>2. j \in Ids
  <2>1. j \notin Ids => StartRefresh
    BY NewRefresh
  <2> QED BY <1>1, <2>1
<1>3. /\ jobs[j].kind = "refresh" /\ jobs'[j].rev = jobs[j].rev /\ jobs[j].pc \in {"new", "queue"}
      /\ (jobs[j].pc = "queue" => jobs'[j].pc = "queue")
  <2>1. Kept(jobs[j], jobs'[j])
    BY <1>2, StepFacts
  <2> QED BY <2>1 DEF Kept
<1>4. Settling(j)
  BY <1>3 DEF Settling, Ending
\* The stage of a work that it already had.
<1>5. ASSUME NEW v \in DOMAIN work, v = w, work'[w].stage = work[v].stage
      PROVE  /\ jobs'[j].pc = "queue"
             /\ stages'[work'[w].stage].by = "work" /\ stages'[work'[w].stage].tag = w.tag
             /\ stages'[work'[w].stage].rev = jobs'[j].rev[w.tag]
  <2>1. /\ jobs[j].pc = "queue" /\ stages[work[v].stage].by = "work" /\ stages[work[v].stage].tag = w.tag
        /\ stages[work[v].stage].rev = jobs[j].rev[w.tag]
    BY <1>2, <1>3, <1>5 DEF WorkStaged
  <2>2. work[v].stage \in DOMAIN stages
    BY <1>5, StageOf
  <2>3. \A s \in DOMAIN stages : /\ stages'[s].tag = stages[s].tag /\ stages'[s].rev = stages[s].rev
                                 /\ stages'[s].by = stages[s].by
    BY StepFacts DEF Stands
  <2> QED BY <1>3, <1>5, <2>1, <2>2, <2>3
<1>6. CASE work' = work
  BY <1>5, <1>6
<1>7. ASSUME NEW v \in DOMAIN work, WorkStep(v), v # w
      PROVE  w \in DOMAIN work /\ work'[w] = work[w]
  BY <1>7, WorkGoesOn DEF WorkMoves, Rewritten
<1>8. ASSUME w \in DOMAIN work, WorkStep(w)
      PROVE  \/ work'[w].stage = work[w].stage
             \/ /\ jobs' = jobs /\ work'[w].stage = Len(stages) + 1
                /\ stages' = Append(stages, [tag |-> w.tag, rev |-> jobs[Refresh].rev[w.tag], by |-> "work", st |-> "parsed"])
  <2>1. WorkMoves(w)
    BY <1>8, WorkGoesOn
  <2> QED BY <1>8, <2>1 DEF WorkMoves, Rewritten
<1>9. ASSUME w \in DOMAIN work, WorkStep(w), jobs' = jobs, work'[w].stage = Len(stages) + 1,
             stages' = Append(stages, [tag |-> w.tag, rev |-> jobs[Refresh].rev[w.tag], by |-> "work", st |-> "parsed"])
      PROVE  /\ jobs'[j].pc = "queue"
             /\ stages'[work'[w].stage].by = "work" /\ stages'[work'[w].stage].tag = w.tag
             /\ stages'[work'[w].stage].rev = jobs'[j].rev[w.tag]
  <2>1. \E i \in Ids : Going(i, "queue")
    BY <1>9, WorkGoesOn DEF WorkMoves
  <2>2. Refresh \in Ids /\ jobs[Refresh].kind = "refresh" /\ jobs[Refresh].pc = "queue"
    BY <2>1, WorkingFacts
  <2>3. Refresh = j
    <3>1. Settling(Refresh)
      BY <2>2 DEF Settling, Ending
    <3> QED BY <1>0, <1>2, <1>4, <2>2, <3>1, OneRefresh
  <2>4. stages'[Len(stages) + 1] = [tag |-> w.tag, rev |-> jobs[j].rev[w.tag], by |-> "work", st |-> "parsed"]
    BY <1>0, <1>9, <2>3
  <2> QED BY <1>9, <2>2, <2>3, <2>4
<1> QED BY <1>1, <1>5, <1>6, <1>7, <1>8, <1>9, WorkStays

\* An import of the user's reaches the pool by its own publication only.
LEMMA ImportedStep ==
    ASSUME Types, Shapes, Linked, Bound, Numbered, Fetched, WorkStaged, Imported, Next
    PROVE  Imported'
<1> SUFFICES ASSUME NEW s \in DOMAIN stages', stages'[s].by = "user",
                    \A k \in 1..Len(jobs') : jobs'[k].kind = "import" /\ jobs'[k].stage = s => ~Applied(jobs'[k]),
                    NEW p \in Past'
             PROVE  p[stages'[s].tag].rev # stages'[s].rev
  BY DEF Imported, NoRev, Ids, Applied
<1>0. \A r \in DOMAIN stages : /\ stages[r] \in StageType /\ stages[r].tag \in Tags
                               /\ stages'[r].tag = stages[r].tag /\ stages'[r].rev = stages[r].rev /\ stages'[r].by = stages[r].by
  <2>1. \A r \in DOMAIN stages : stages[r] \in StageType
    BY DEF Types
  <2> QED BY <2>1, StepFacts DEF StageType, Stands
<1>1. CASE s \in DOMAIN stages
  <2>1. ASSUME NEW k \in Ids, jobs[k].kind = "import", jobs[k].stage = s
        PROVE  ~Applied(jobs[k])
    <3>1. Kept(jobs[k], jobs'[k]) /\ Shape(jobs[k]) /\ k \in 1..Len(jobs')
      BY <2>1, StepFacts
    <3>2. jobs'[k].kind = "import" /\ jobs'[k].stage = s
      BY <2>1, <3>1 DEF Kept
    <3>3. Applied(jobs[k]) => Applied(jobs'[k])
      BY <2>1, <3>1 DEF Applied, Kept, Shape
    <3> QED BY <3>1, <3>2, <3>3
  <2>2. NoRev(Past, stages[s].tag, stages[s].rev)
    BY <1>0, <1>1, <2>1 DEF Imported
  <2>3. ASSUME NEW r \in DOMAIN stages, Publishing(r), stages[r].tag = stages[s].tag, stages[r].rev = stages[s].rev
        PROVE  FALSE
    <3>1. r = s
      BY <1>0, <1>1, <2>3 DEF Numbered
    <3>2. ASSUME NEW k \in Ids, Importing(k), jobs[k].stage = s PROVE FALSE
      <4>1. Kept(jobs[k], jobs'[k]) /\ k \in 1..Len(jobs')
        BY StepFacts
      <4>2. jobs'[k].kind = "import" /\ jobs'[k].stage = s /\ Applied(jobs'[k])
        BY <3>2, <4>1 DEF Importing, Applied, Kept
      <4> QED BY <4>1, <4>2
    <3>3. ASSUME NEW w \in DOMAIN work, Applying(w), work[w].stage = s PROVE FALSE
      <4>1. PICK j \in Ids : Going(j, "queue")
        BY <3>3 DEF Applying
      <4>2. jobs[j].kind = "refresh" /\ jobs[j].pc = "queue"
        BY <4>1, StepFacts, KindOf DEF Going
      <4>3. s # 0
        BY <1>1 DEF Types
      <4> QED BY <1>0, <1>1, <3>3, <4>2, <4>3 DEF WorkStaged
    <3> QED BY <2>3, <3>1, <3>2, <3>3 DEF Publishing
  <2>4. CASE \E q \in Past : q[stages[s].tag].rev = p[stages[s].tag].rev
    BY <1>0, <1>1, <2>2, <2>4 DEF NoRev
  <2>5. CASE \E r \in DOMAIN stages : Publishing(r) /\ stages[s].tag = stages[r].tag /\ p[stages[s].tag].rev = stages[r].rev
    BY <1>0, <1>1, <2>3, <2>5
  <2> QED BY <1>0, <1>1, <2>4, <2>5, PastRevs
<1>2. CASE s \notin DOMAIN stages
  <2>1. ParseStore /\ stages'[s].tag = parse.tag /\ stages'[s].rev = parse.rev
    BY <1>2, NewStage
  <2>2. /\ parse.tag \in Tags /\ NoRev(Past, parse.tag, parse.rev)
        /\ \A r \in DOMAIN stages : stages[r].tag = parse.tag => stages[r].rev # parse.rev
    BY <2>1 DEF ParseStore, Fetched, Types
  <2>3. \/ \E q \in Past : q[parse.tag].rev = p[parse.tag].rev
        \/ \E r \in DOMAIN stages : parse.tag = stages[r].tag /\ p[parse.tag].rev = stages[r].rev
    BY <2>2, PastRevs
  <2> QED BY <2>1, <2>2, <2>3 DEF NoRev
<1> QED BY <1>1, <1>2


\* Jobs to which nothing extraordinary has happened after a step are so before.
LEMMA OddsGrow ==
    ASSUME Types, Shapes, Linked, Bound, Next, NoOdds'
    PROVE  NoOdds
<1> SUFFICES ASSUME NEW c \in Ids PROVE jobs[c].odd = {}
  BY DEF NoOdds
<1>1. Kept(jobs[c], jobs'[c]) /\ c \in 1..Len(jobs') /\ jobs[c] \in JobType
  BY StepFacts
<1>2. jobs'[c].odd = {}
  BY <1>1 DEF NoOdds, Ids
<1> QED BY <1>1, <1>2 DEF Kept

\* A test that writes lets nobody take a snapshot.
LEMMA NoSnapping ==
    ASSUME Types, Shapes, OneApplier, NoOdds, NEW j \in Ids, jobs[j].kind = "test",
           jobs[j].pc \in {"results", "country", "reload"}
    PROVE  ~Snapping
<1>1. jobs[j] \in JobType /\ Shape(jobs[j]) /\ jobs[j].odd = {} /\ j # 0
  BY JobHere DEF Types, NoOdds, Ids
<1>2. jobs[j].status = "running" /\ jobs[j].live = "go"
  BY <1>1 DEF Shape, Ending, JobType
<1>3. ~StartRefresh
  BY <1>2 DEF StartRefresh, Active
<1>4. applier = j
  <2>1. InHands(j)
    BY <1>2 DEF InHands, InHand
  <2> QED BY <2>1, OneApplierMeans DEF Types
<1> QED BY <1>1, <1>3, <1>4 DEF Snapping

\* A refresh lets no other job of the user's take one.
LEMMA RefreshSnaps ==
    ASSUME Types, Shapes, OneTester, NoOdds, NEW j \in Ids, jobs[j].kind = "refresh", jobs[j].pc \in {"new", "queue"}
    PROVE  ~Snapping
<1>1. jobs[j].status = "running" /\ jobs[j].owner = 0 /\ Refreshing
  <2>1. Settling(j)
    BY DEF Settling, Ending
  <2> QED BY <2>1, OneRefresh, JobHere DEF Types, Shape
<1>2. ASSUME NEW k \in Ids, jobs[k].kind = "test", jobs[k].pc = "probe", jobs[k].owner = 0
      PROVE  FALSE
  <2>1. jobs[k].status = "running"
    <3>1. jobs[k] \in JobType /\ Shape(jobs[k]) /\ jobs[k].odd = {}
      BY JobHere DEF Types, NoOdds
    <3> QED BY <1>2, <3>1 DEF Shape, Ending
  <2> QED BY <1>1, <1>2, <2>1 DEF OneTester, Top
<1> QED BY <1>1, <1>2 DEF Snapping, StartRefresh

\* What has no mark of a job keeps none, unless the job makes one.
LEMMA UnmarkedStays ==
    ASSUME Types, Shapes, Linked, Bound, Next, NEW c \in Ids, NoMark(Past, c), ~Marking(c)
    PROVE  NoMark(Past', c)
<1> SUFFICES ASSUME NEW p \in Past', NEW t \in Tags PROVE p[t].test # c
  BY DEF NoMark
<1>1. c # 0
  BY DEF Ids
<1> QED BY <1>1, MarkGoes DEF NoMark

\* A test leaves its marks only where it has published results.
LEMMA CleanTestsStep ==
    ASSUME Types, Shapes, Linked, Bound, OneApplier, Marked, CleanTests, Next
    PROVE  CleanTests'
<1> SUFFICES ASSUME NoOdds', NEW j \in 1..Len(jobs'), jobs'[j].kind = "test"
             PROVE  /\ jobs'[j].pc \in {"new", "probe", "refused"} => NoMark(Past', j)
                    /\ jobs'[j].pc \in {"results", "country", "reload"} => NoMark(Saved', j)
                    /\ jobs'[j].owner = 0 /\ jobs'[j].end = "canceled" => NoMark(Past', j)
  BY DEF CleanTests, Ids, NoMark
<1>1. CASE j \notin Ids
  <2>1. NoMark(Past', j) /\ Fresh(jobs'[j])
    BY <1>1, NewUnmarked, StepFacts
  <2> QED BY <2>1 DEF Fresh
<1>2. CASE j \in Ids
  <2>0. /\ NoOdds /\ Kept(jobs[j], jobs'[j]) /\ jobs[j].kind = "test" /\ jobs[j] \in JobType /\ Shape(jobs[j])
        /\ jobs[j].owner = jobs'[j].owner
    BY <1>2, OddsGrow, StepFacts DEF Kept
  <2>1. Past = {pool} \cup Saved /\ Past' = {pool'} \cup Saved'
    BY DEF Past, Saved
  <2>2. jobs[j].pc \in {"new", "probe", "refused"} => NoMark(Past', j)
    <3>1. jobs[j].pc \in {"new", "probe", "refused"} => NoMark(Past, j) /\ ~Marking(j)
      BY <1>2, <2>0 DEF CleanTests, Marking
    <3> QED BY <1>2, <3>1, UnmarkedStays
  <2>3. jobs[j].pc \in {"results", "country", "reload"} => NoMark(Saved', j)
    <3> SUFFICES ASSUME jobs[j].pc \in {"results", "country", "reload"}, NEW p \in Saved', NEW t \in Tags
                 PROVE  p[t].test # j
      BY DEF NoMark
    <3>1. ~Snapping
      BY <1>2, <2>0, NoSnapping
    <3>2. p \in Saved
      BY <3>1, SavedGoes
    <3> QED BY <1>2, <2>0, <3>2 DEF CleanTests, NoMark
  <2>4. NoMark(Past', j) => NoMark(Saved', j)
    BY <2>1 DEF NoMark
  <2>5. ASSUME jobs'[j].pc \in {"new", "probe", "refused"} PROVE NoMark(Past', j)
    <3>1. jobs[j].pc \in {"new", "probe", "refused"}
      BY <2>0, <2>5 DEF Kept
    <3> QED BY <2>2, <3>1
  <2>6. ASSUME jobs'[j].pc \in {"results", "country", "reload"} PROVE NoMark(Saved', j)
    <3>1. jobs[j].pc \in {"probe", "results", "country", "reload"}
      BY <2>0, <2>6 DEF Kept
    <3> QED BY <2>2, <2>3, <2>4, <3>1
  <2>7. ASSUME jobs'[j].owner = 0, jobs'[j].end = "canceled" PROVE NoMark(Past', j)
    <3>1. CASE jobs[j].end = "canceled"
      <4>1. ~Marking(j)
        BY <2>0, <3>1 DEF Marking, Shape
      <4>2. NoMark(Past, j)
        BY <1>2, <2>0, <2>7, <3>1 DEF CleanTests
      <4> QED BY <1>2, <4>1, <4>2, UnmarkedStays
    <3>2. CASE jobs[j].pc = "probe"
      BY <2>2, <3>2
    <3>3. CASE jobs[j].pc \in {"results", "country", "reload"} /\ pool' = jobs[j].snap.pool
      <4>1. pool' \in Saved
        BY <1>2, <2>0, <2>7, <3>3 DEF Saved, Holds
      <4>2. NoMark(Saved, j) /\ NoMark(Saved', j)
        BY <1>2, <2>0, <2>3, <3>3 DEF CleanTests
      <4> QED BY <2>1, <4>1, <4>2 DEF NoMark
    <3> QED BY <2>0, <2>7, <3>1, <3>2, <3>3 DEF Kept, Holds
  <2> QED BY <2>5, <2>6, <2>7
<1> QED BY <1>1, <1>2

\* A refresh and its jobs leave nothing where it has taken all back.
LEMMA CleanRefreshesStep ==
    ASSUME Types, Shapes, Linked, Bound, OneTester, Waited, Newest, Marked, Owned, Numbered, WorkStaged,
           CleanRefreshes, Next
    PROVE  CleanRefreshes'
<1> DEFINE clean(P, j) == /\ \A c \in 1..Len(jobs') : jobs'[c].owner = j => NoMark(P, c)
                          /\ \A t \in Tags : jobs'[j].rev[t] # 0 => NoRev(P, t, jobs'[j].rev[t])
<1> SUFFICES ASSUME NoOdds', NEW j \in 1..Len(jobs'), jobs'[j].kind = "refresh"
             PROVE  /\ jobs'[j].pc \in {"new", "queue"} => clean(Saved', j)
                    /\ jobs'[j].note = "restored" => clean(Past', j)
  BY DEF CleanRefreshes, CleanOf, Children, Ids, NoMark, NoRev
<1>0. NoOdds /\ Past' = {pool'} \cup Saved' /\ Past = {pool} \cup Saved
  BY OddsGrow DEF Past, Saved
<1>a. \A c \in 1..Len(jobs') : c \notin Ids => NoMark(Past', c)
  BY NewUnmarked
<1>1. CASE j \notin Ids
  <2>1. Fresh(jobs'[j]) /\ j = Len(jobs) + 1
    BY <1>1, StepFacts
  <2>2. ASSUME NEW c \in 1..Len(jobs'), jobs'[c].owner = j
        PROVE  NoMark(Past', c)
    <3>1. c \notin Ids
      <4>1. ASSUME c \in Ids PROVE jobs'[c].owner < c /\ c <= Len(jobs) /\ jobs'[c].owner \in Nat /\ Len(jobs) \in Nat
        <5>1. Kept(jobs[c], jobs'[c]) /\ jobs[c] \in JobType
          BY <4>1, StepFacts
        <5>2. jobs[c].owner < c /\ c <= Len(jobs) /\ Len(jobs) \in Nat
          BY <4>1 DEF Linked, Ids, Types
        <5> QED BY <5>1, <5>2 DEF Kept, JobType
      <4> QED BY <2>1, <2>2, <4>1
    <3> QED BY <1>a, <3>1
  <2>3. ASSUME NEW t \in Tags, jobs'[j].rev[t] # 0, NEW p \in Past'
        PROVE  p[t].rev # jobs'[j].rev[t]
    <3>1. jobs'[j].rev[t] = revs[t] + 1 /\ revs[t] \in Nat
      BY <1>1, <2>3, NewRefresh, StepFacts
    <3>2. \A q \in Past : q[t].rev \in Nat /\ q[t].rev <= revs[t]
      BY PastTypes DEF Pools, Newest
    <3>3. \A s \in DOMAIN stages : stages[s].rev \in Nat /\ stages[s].rev <= revs[stages[s].tag]
      <4>1. \A s \in DOMAIN stages : stages[s] \in StageType
        BY DEF Types
      <4> QED BY <4>1 DEF StageType, Newest
    <3>4. CASE \E q \in Past : q[t].rev = p[t].rev
      BY <3>1, <3>2, <3>4
    <3>5. CASE \E s \in DOMAIN stages : t = stages[s].tag /\ p[t].rev = stages[s].rev
      BY <3>1, <3>3, <3>5
    <3> QED BY <3>4, <3>5, PastRevs
  <2> QED BY <1>0, <2>1, <2>2, <2>3 DEF Fresh, NoMark, NoRev
<1>2. CASE j \in Ids
  <2>0. /\ Kept(jobs[j], jobs'[j]) /\ jobs[j].kind = "refresh" /\ jobs[j] \in JobType /\ Shape(jobs[j])
        /\ jobs'[j].rev = jobs[j].rev
    BY <1>2, StepFacts DEF Kept
  <2>1. \A c \in Ids : jobs'[c].owner = jobs[c].owner
    BY StepFacts DEF Kept
  <2>2. ASSUME jobs[j].pc \in {"new", "queue"}
        PROVE  CleanOf(Saved, j) /\ clean(Saved', j)
    <3>1. CleanOf(Saved, j)
      BY <1>0, <1>2, <2>0, <2>2 DEF CleanRefreshes
    <3>2. ~Snapping
      BY <1>0, <1>2, <2>0, <2>2, RefreshSnaps
    <3>3. \A p \in Saved' : p \in Saved
      BY <3>2, SavedGoes
    <3>4. ASSUME NEW c \in 1..Len(jobs'), jobs'[c].owner = j
          PROVE  NoMark(Saved', c)
      <4>1. CASE c \in Ids
        <5>1. NoMark(Saved, c)
          BY <2>1, <3>1, <3>4, <4>1 DEF CleanOf, Children
        <5> QED BY <3>3, <5>1 DEF NoMark
      <4>2. CASE c \notin Ids
        BY <1>0, <1>a, <4>2 DEF NoMark
      <4> QED BY <4>1, <4>2
    <3>5. ASSUME NEW t \in Tags, jobs'[j].rev[t] # 0
          PROVE  NoRev(Saved', t, jobs'[j].rev[t])
      BY <2>0, <3>1, <3>3, <3>5 DEF CleanOf, NoRev
    <3> QED BY <3>1, <3>4, <3>5
  <2>3. ASSUME jobs[j].note = "restored"
        PROVE  clean(Past', j)
    <3>1. CleanOf(Past, j) /\ jobs[j].pc # "queue"
      BY <1>0, <1>2, <2>0, <2>3 DEF CleanRefreshes, Shape
    <3>2. ASSUME NEW c \in 1..Len(jobs'), jobs'[c].owner = j
          PROVE  NoMark(Past', c)
      <4>1. CASE c \in Ids
        <5>1. jobs[c].owner = j /\ NoMark(Past, c) /\ jobs[c].odd = {}
          BY <1>0, <2>1, <3>1, <3>2, <4>1 DEF CleanOf, Children, NoOdds
        <5>2. ASSUME Marking(c) PROVE FALSE
          <6>1. Shape(jobs[c])
            BY <4>1 DEF Shapes
          <6>2. jobs[c].status = "running"
            BY <5>1, <5>2, <6>1 DEF Marking, Shape, Ending
          <6> QED BY <1>2, <2>0, <3>1, <4>1, <5>1, <6>2 DEF Waited, Ids
        <5> QED BY <4>1, <5>1, <5>2, UnmarkedStays
      <4>2. CASE c \notin Ids
        BY <1>a, <4>2
      <4> QED BY <4>1, <4>2
    <3>3. ASSUME NEW t \in Tags, jobs'[j].rev[t] # 0, NEW p \in Past'
          PROVE  p[t].rev # jobs'[j].rev[t]
      <4>1. NoRev(Past, t, jobs[j].rev[t]) /\ jobs[j].rev[t] # 0
        BY <2>0, <3>1, <3>3 DEF CleanOf
      <4>2. ASSUME NEW s \in DOMAIN stages, Publishing(s), stages[s].tag = t
            PROVE  stages[s].rev # jobs[j].rev[t]
        <5>1. ASSUME NEW k \in Ids, Importing(k), jobs[k].stage = s
              PROVE  stages[s].by # "work"
          BY <5>1 DEF Importing, Owned
        <5>2. ASSUME NEW w \in DOMAIN work, Applying(w), work[w].stage = s
              PROVE  \E i \in Ids : i # j /\ jobs[i].kind = "refresh" /\ stages[s].rev = jobs[i].rev[t]
          <6>1. PICK i \in Ids : Going(i, "queue")
            BY <5>2 DEF Applying
          <6>2. jobs[i].kind = "refresh" /\ jobs[i].pc = "queue"
            BY <6>1, StepFacts, KindOf DEF Going
          <6>3. s # 0
            BY <4>2 DEF Types
          <6> QED BY <3>1, <4>2, <5>2, <6>2, <6>3 DEF WorkStaged
        <5>3. CASE stages[s].by # "work"
          BY <1>2, <2>0, <4>2, <5>3 DEF Numbered
        <5>4. CASE \E i \in Ids : i # j /\ jobs[i].kind = "refresh" /\ stages[s].rev = jobs[i].rev[t]
          BY <1>2, <2>0, <4>1, <5>4 DEF Numbered
        <5> QED BY <4>2, <5>1, <5>2, <5>3, <5>4 DEF Publishing
      <4> QED BY <2>0, <4>1, <4>2, PastRevs DEF NoRev
    <3> QED BY <3>2, <3>3 DEF NoRev
  <2>4. ASSUME jobs[j].pc = "queue", pool' = jobs[j].snap.pool
        PROVE  clean(Past', j)
    <3>1. pool' \in Saved
      BY <1>2, <2>0, <2>4 DEF Saved, Holds
    <3>2. CleanOf(Saved, j) /\ clean(Saved', j)
      BY <2>2, <2>4
    <3>3. ASSUME NEW c \in 1..Len(jobs'), jobs'[c].owner = j
          PROVE  NoMark(Past', c)
      <4>1. CASE c \in Ids
        <5>1. NoMark(Saved, c) /\ NoMark(Saved', c)
          BY <2>1, <3>2, <3>3, <4>1 DEF CleanOf, Children
        <5> QED BY <1>0, <3>1, <5>1 DEF NoMark
      <4>2. CASE c \notin Ids
        BY <1>a, <4>2
      <4> QED BY <4>1, <4>2
    <3>4. ASSUME NEW t \in Tags, jobs'[j].rev[t] # 0
          PROVE  NoRev(Past', t, jobs'[j].rev[t])
      <4>1. NoRev(Saved, t, jobs'[j].rev[t]) /\ NoRev(Saved', t, jobs'[j].rev[t])
        BY <2>0, <3>2, <3>4 DEF CleanOf
      <4> QED BY <1>0, <3>1, <4>1 DEF NoRev
    <3> QED BY <3>3, <3>4
  <2>5. jobs'[j].pc \in {"new", "queue"} => jobs[j].pc \in {"new", "queue"}
    BY <2>0 DEF Kept
  <2>6. jobs'[j].note = "restored" => jobs[j].note = "restored" \/ (jobs[j].pc = "queue" /\ pool' = jobs[j].snap.pool)
    BY <2>0 DEF Kept
  <2> QED BY <2>2, <2>3, <2>4, <2>5, <2>6
<1> QED BY <1>1, <1>2

-----------------------------------------------------------------------------
(* The inductive invariant, and the theorems.                              *)

\* All parts together: each is kept by a step that starts where all hold.
IInv ==
    /\ Types /\ Shapes /\ Linked /\ Bound
    /\ OneTester /\ WorkedFor /\ OneApplier /\ OneWork /\ Closed /\ Waited
    /\ Newest /\ Newer /\ SameRevs
    /\ Marked /\ Owned /\ Numbered /\ Fetched /\ WorkStaged /\ Imported /\ CleanTests /\ CleanRefreshes

\* The invariant holds at first,
LEMMA InitIInv == Init => IInv
<1> SUFFICES ASSUME Init PROVE IInv
  OBVIOUS
<1>1. PICK P \in SUBSET Tags : pool = [t \in Tags |-> [rev |-> IF t \in P THEN 1 ELSE 0, test |-> 0]]
                               /\ revs = [t \in Tags |-> 1]
  BY DEF Init
<1>2. pool \in Pools /\ revs \in [Tags -> Nat]
  BY <1>1 DEF Pools
<1>3. jobs = <<>> /\ Len(jobs) = 0 /\ Ids = {} /\ work = <<>> /\ DOMAIN work = {}
  BY DEF Init, Ids
<1>4. parse \in ParseType /\ parse.pc = "idle"
  BY DEF Init, NoParse, ParseType
<1>5. Types
  <2>1. jobs \in Seq(JobType) /\ stages \in Seq(StageType) /\ readers \in Seq(Nat) /\ Len(readers) = Len(stages)
    BY DEF Init
  <2>2. work \in [DOMAIN work -> WorkType] /\ DOMAIN work \subseteq Works
    BY <1>3
  <2>3. starting \in Nat /\ starting <= Len(jobs) /\ applier \in Nat /\ applier <= Len(jobs)
    BY <1>3 DEF Init
  <2>4. cancels \subseteq Ids /\ reason \in {"none", "kept", "broken"}
    BY DEF Init
  <2>5. closing \in BOOLEAN /\ closed \in BOOLEAN
    BY DEF Init
  <2> QED BY <1>2, <1>4, <2>1, <2>2, <2>3, <2>4, <2>5 DEF Types
<1>6. OneApplier
  BY <1>3 DEF OneApplier
<1>7. OneTester /\ Bound /\ Shapes /\ Linked /\ Waited
  BY <1>3 DEF OneTester, Bound, Shapes, Linked, Waited
<1>8. WorkedFor /\ OneWork /\ Closed
  BY <1>3 DEF Init, WorkedFor, OneWork, Closed
<1>9. Newest
  <2>1. Past = {pool}
    BY <1>3 DEF Past
  <2>2. \A t \in Tags : pool[t].rev <= revs[t]
    BY <1>1
  <2>3. DOMAIN stages = {}
    BY DEF Init
  <2> QED BY <1>3, <1>4, <2>1, <2>2, <2>3 DEF Newest
<1>10. Newer /\ SameRevs
  BY <1>3 DEF Newer, SameRevs
<1>11. Marked
  <2>1. Past = {pool} /\ \A t \in Tags : pool[t].test = 0
    BY <1>1, <1>3 DEF Past
  <2> QED BY <2>1 DEF Marked
<1>12. DOMAIN stages = {}
  BY DEF Init
<1>13. Owned /\ Numbered /\ WorkStaged /\ Imported
  BY <1>3, <1>12 DEF Owned, Numbered, WorkStaged, Imported
<1>14. Fetched /\ CleanTests /\ CleanRefreshes
  BY <1>3, <1>4 DEF Fetched, CleanTests, CleanRefreshes
<1> QED BY <1>5, <1>6, <1>7, <1>8, <1>9, <1>10, <1>11, <1>13, <1>14 DEF IInv

\* every step keeps it,
LEMMA NextIInv == IInv /\ Next => IInv'
<1> SUFFICES ASSUME IInv, Next PROVE IInv'
  OBVIOUS
<1> USE DEF IInv
<1>1. Types' /\ Shapes'
  BY TypesStep, ShapesStep, JobsGoOn
<1>2. Linked' /\ Bound'
  BY LinkedStep, BoundStep
<1>3. OneTester' /\ WorkedFor'
  BY OneTesterStep, WorkedForStep
<1>4. OneApplier' /\ OneWork'
  BY OneApplierStep
<1>5. Closed' /\ Waited'
  BY ClosedStep, WaitedStep
<1>6. Newest'
  BY NewestStep
<1>7. Newer' /\ SameRevs'
  BY NewerStep, SameRevsStep
<1>8. Marked' /\ Owned' /\ Numbered'
  BY MarkedStep, OwnedStep, NumberedStep
<1>9. Fetched' /\ WorkStaged' /\ Imported'
  BY FetchedStep, WorkStagedStep, ImportedStep
<1>10. CleanTests' /\ CleanRefreshes'
  BY CleanTestsStep, CleanRefreshesStep
<1> QED BY <1>1, <1>2, <1>3, <1>4, <1>5, <1>6, <1>7, <1>8, <1>9, <1>10

\* and so does no step at all.
LEMMA StutterIInv == IInv /\ UNCHANGED vars => IInv'
<1> SUFFICES ASSUME IInv, UNCHANGED vars PROVE IInv'
  OBVIOUS
<1>1. /\ jobs' = jobs /\ stages' = stages /\ readers' = readers /\ pool' = pool /\ revs' = revs /\ work' = work
      /\ parse' = parse /\ starting' = starting /\ applier' = applier /\ cancels' = cancels /\ reason' = reason
      /\ closing' = closing /\ closed' = closed
  BY DEF vars, calls, store
<1>2. Types'
  BY <1>1 DEF IInv, Types, Ids
<1>3. Shapes' /\ Linked' /\ Bound' /\ Waited'
  BY <1>1 DEF IInv, Shapes, Linked, Bound, Children, Waited, Ids
<1>4. OneTester' /\ WorkedFor' /\ OneWork' /\ Closed'
  BY <1>1 DEF IInv, OneTester, Top, WorkedFor, OneWork, Closed, Ids
<1>5. OneApplier'
  BY <1>1 DEF IInv, OneApplier, Ids
<1>6. Past' = Past
  BY <1>1 DEF Past, Ids, Holds
<1>7. Newest'
  BY <1>1, <1>6 DEF IInv, Newest, Ids
<1>8. Newer'
  BY <1>1, <1>6 DEF IInv, Newer, NotOlder, Ids
<1>9. SameRevs'
  BY <1>1 DEF IInv, SameRevs, Holds, Ids
<1>10. Marked' /\ Owned' /\ Numbered' /\ WorkStaged'
  BY <1>1, <1>6 DEF IInv, Marked, Owned, Numbered, WorkStaged, Ids
<1>11. Fetched' /\ Imported'
  BY <1>1, <1>6 DEF IInv, Fetched, Imported, Applied, NoRev, Ids
<1>12. Saved' = Saved
  BY <1>1 DEF Saved, Ids, Holds
<1>13. CleanTests' /\ CleanRefreshes'
  BY <1>1, <1>6, <1>12 DEF IInv, CleanTests, CleanRefreshes, CleanOf, Children, NoOdds, NoMark, NoRev, Ids
<1> QED BY <1>2, <1>3, <1>4, <1>5, <1>7, <1>8, <1>9, <1>10, <1>11, <1>13 DEF IInv

\* The inductive invariant is one.
LEMMA Invariant == Spec => []IInv
<1>1. IInv /\ [Next]_vars => IInv'
  BY NextIInv, StutterIInv
<1> QED BY InitIInv, <1>1, PTL DEF Spec

\* It has the types of the runs.
LEMMA TypesOK == IInv => TypeOK
<1> SUFFICES ASSUME IInv PROVE TypeOK
  OBVIOUS
<1>1. ASSUME NEW j \in Ids
      PROVE  /\ jobs[j].kind \in Kinds /\ jobs[j].status \in Statuses
             /\ jobs[j].live \in {"stored", "go", "done"} /\ jobs[j].owner \in 0..j-1
             /\ jobs[j].stage \in 0..Len(stages) /\ jobs[j].reg \in BOOLEAN /\ jobs[j].ctx \in BOOLEAN
  <2>1. jobs[j] \in JobType /\ jobs[j].owner < j /\ jobs[j].stage <= Len(stages) /\ Len(stages) \in Nat
    BY JobHere DEF IInv, Types, Linked
  <2> QED BY <2>1 DEF JobType, Ids
<1>2. \A s \in DOMAIN stages : stages[s].st \in StageSt /\ stages[s].tag \in Tags
  <2>1. \A s \in DOMAIN stages : stages[s] \in StageType
    BY DEF IInv, Types
  <2> QED BY <2>1 DEF StageType
<1>3. starting \in 0..Len(jobs) /\ applier \in 0..Len(jobs) /\ cancels \subseteq Ids
  BY DEF IInv, Types
<1>4. DOMAIN pool = Tags /\ DOMAIN revs = Tags /\ DOMAIN work \subseteq Works /\ reason \in {"none", "kept", "broken"}
  BY DEF IInv, Types, Pools
<1> QED BY <1>1, <1>2, <1>3, <1>4 DEF TypeOK

\* In every behaviour, with any tags, works, bounds and numbers of jobs, the
\* variables keep their types: every record names jobs and stages that exist.
THEOREM TypeCorrect == Spec => []TypeOK
  BY Invariant, TypesOK, PTL

\* Jobs run in turn, whatever the numbers of jobs, works and tags: at most one
\* refresh or test of the user's is admitted, applyMu has one holder, and when
\* Close has returned no goroutine runs.
THEOREM RunsInTurnCorrect == Spec => []RunsInTurn
<1>1. IInv => CloseWaits
  <2> SUFFICES ASSUME IInv, closed, NEW j \in Ids
               PROVE  /\ jobs[j].live # "go"
                      /\ jobs[j].live = "done" /\ jobs[j].status = "running" => "unsaved" \in jobs[j].odd
    BY DEF CloseWaits
  <2>1. jobs[j].live # "go" /\ Shape(jobs[j])
    BY DEF IInv, Closed, Shapes
  <2> QED BY <2>1 DEF Shape, Ending
<1>2. IInv => RunsInTurn
  BY <1>1, TypesOK DEF IInv, RunsInTurn
<1> QED BY <1>2, Invariant, PTL

\* A refresh never settles the pool (runRefreshJobWithPolicy after its queue)
\* while a job of its own is still at it, save one it gave up or one declared
\* canceled before it began.
THEOREM ChildrenFirstCorrect == Spec => []ChildrenFirst
<1>1. IInv => ChildrenFirst
  <2> SUFFICES ASSUME IInv, NEW j \in Ids, jobs[j].kind = "refresh", jobs[j].pc \in {"verify", "final", "exit", "over"},
                      NEW c \in Children(j), jobs[c].live = "go", jobs[c].pc # "exit", jobs[c].odd = {}
               PROVE  FALSE
    BY DEF ChildrenFirst
  <2>1. c \in Ids /\ jobs[c].owner = j /\ j # 0 /\ Shape(jobs[c])
    BY DEF Children, IInv, Shapes, Ids
  <2>2. jobs[c].status = "running"
    BY <2>1 DEF Shape, Ending
  <2>3. jobs[j].pc = "queue"
    BY <2>1, <2>2 DEF IInv, Waited
  <2> QED BY <2>3
<1> QED BY <1>1, Invariant, PTL

\* A published import stands until a newer one replaces it: no release of
\* applyMu leaves a tag with an older revision, and no test of the user's takes
\* back an import, whatever interleaving of jobs, cancels and failures.
THEOREM ImportsStandCorrect == Spec => ImportsStand
<1> DEFINE newest == \A t \in Tags : applier # 0 /\ applier' = 0 => pool'[t].rev >= pool[t].rev
           kept == \A j \in Ids : jobs[j].kind = "test" /\ jobs[j].pc # "exit" /\ jobs'[j].pc = "exit" /\ Orderly =>
                      \A t \in Tags : pool'[t].rev = pool[t].rev
<1>1. IInv /\ [Next]_vars => [newest /\ kept]_vars
  <2> SUFFICES ASSUME IInv, Next PROVE newest /\ kept
    OBVIOUS
  <2>1. newest
    BY NewestWinsStep DEF IInv
  <2>2. kept
    BY TestKeepsStep DEF IInv
  <2> QED BY <2>1, <2>2
<1>2. Spec => [][newest /\ kept]_vars
  BY <1>1, Invariant, PTL DEF Spec
<1>3. [newest /\ kept]_vars => [newest]_vars /\ [kept]_vars
  OBVIOUS
<1>4. Spec => [][newest]_vars /\ [][kept]_vars
  BY <1>2, <1>3, PTL
<1> QED BY <1>4 DEF ImportsStand, NewestWins, TestKeepsImports

\* A job that was cancelled leaves nothing in the pool: neither an import or a
\* test of the user's, nor what a refresh and the jobs it owns had written,
\* once it has gone back to its snapshot (restoreSourceRefreshSnapshot, finish
\* in runBatchTestJob), whatever else ran beside it.
THEOREM CanceledLeavesNothingCorrect == Spec => []CanceledLeavesNothing
<1>1. IInv => CanceledLeavesNothing
  <2> SUFFICES ASSUME IInv, NEW j \in Ids, Top(j),
                      jobs[j].end = "canceled" \/ (jobs[j].kind = "refresh" /\ jobs[j].note = "restored"),
                      NoOdds, jobs[j].live = "done", Trace(j)
               PROVE  FALSE
    BY DEF CanceledLeavesNothing, NoOdds
  <2> USE DEF IInv
  <2>1. jobs[j] \in JobType /\ Shape(jobs[j]) /\ j # 0 /\ jobs[j].owner = 0 /\ pool \in Past
    BY JobHere DEF Types, Ids, Top, Past
  <2>2. CASE jobs[j].kind = "test"
    <3>1. NoMark(Past, j)
      BY <2>1, <2>2 DEF CleanTests
    <3>2. Children(j) = {}
      BY <2>1, <2>2 DEF Owned, Children
    <3> QED BY <2>1, <2>2, <3>1, <3>2 DEF Trace, NoMark
  <2>3. CASE jobs[j].kind = "import"
    <3>1. Children(j) = {}
      BY <2>1, <2>3 DEF Owned, Children
    <3>2. \A t \in Tags : pool[t].test # j
      BY <2>1, <2>3 DEF Marked
    <3>3. jobs[j].stage \in DOMAIN stages /\ stages[jobs[j].stage].by = "user"
      BY <2>1, <2>3, StageOf DEF Owned
    <3>4. \A k \in Ids \ {j} : jobs[k].stage # jobs[j].stage
      BY <2>3, <3>1, <3>2 DEF Trace
    <3>5. ~Applied(jobs[j])
      BY <2>3 DEF Applied
    <3>6. NoRev(Past, stages[jobs[j].stage].tag, stages[jobs[j].stage].rev)
      BY <3>3, <3>4, <3>5 DEF Imported
    <3> QED BY <2>1, <2>3, <3>1, <3>2, <3>6 DEF Trace, NoRev
  <2>4. CASE jobs[j].kind = "refresh"
    <3>1. CleanOf(Past, j)
      BY <2>1, <2>4 DEF CleanRefreshes, Shape
    <3>2. \A t \in Tags : pool[t].test # j
      BY <2>1, <2>4 DEF Marked
    <3> QED BY <2>1, <2>4, <3>1, <3>2 DEF Trace, CleanOf, NoMark, NoRev
  <2> QED BY <2>1, <2>2, <2>3, <2>4 DEF Shape
<1> QED BY <1>1, Invariant, PTL

=============================================================================
