# A TLA+ model of easy-proxies

easy-proxies runs an embedded sing-box instance whose inbounds forward to a pool
of proxy nodes. It keeps the nodes alive (health checks, a circuit breaker), gets
them from files, subscriptions and imports, tests them in batches, and lets a
WebUI change all of it while traffic flows. Nearly everything that can go wrong
here goes wrong between two goroutines: an operation that takes seconds
against a click in the WebUI, a late result against a newer state, a shutdown
against whatever is half done. This directory models those parts.

## 1. The system

Paths are under `src/internal/` unless they say otherwise. Line counts are without
tests.

| Component | Where | State it keeps | Operations |
|---|---|---|---|
| program wiring | `src/main.go`, `app/app.go` (340) | instance lock, the managers | wait for the lock, load the configuration, start everything, stop it in order: subscriptions, importer, box manager |
| box manager | `boxmgr/manager.go` (2113) | configuration in use and configuration running, instance, port index, monitor, GeoIP router, `closing` | start, reload, rollback, in-place reconcile, empty runtime, restore, node CRUD and order, settings, port rebuild, shutdown |
| pool outbound | `outbound/pool` (880) | per member: failures, blacklist and its end, half-open mark, connections; shared by all pools | select (sequential, random, balance, rotate), dial with retries, record result, probe, ban, release |
| monitor | `monitor/manager.go` (727) | entries with the mirror of the blacklist, probe results, periodic check | register, clear, sweep, ban, release, snapshots |
| WebUI server | `monitor/server.go`, `*_handlers.go` (4000) | sessions, the configuration pointer | HTTP handlers that call the managers, event stream |
| subscription manager | `subscription/manager.go` (787) | loop goroutine, its context and request channel, status, `lifecycleMu` | start, stop, update and refresh, refresh now, restore, fetch or managed refresh |
| importer service | `importer/service.go` (4606) | jobs (import, refresh, batch test), source revisions, background tasks | parse, commit, run pipeline, cancel, batch test, refresh sources, promote, exclude, delete, reorder |
| importer store | `importer/store.go`, `state_db*.go` (1380) | nodes and jobs in memory and in a database, `mutationMu` and `mu` | CRUD, progress, snapshots and their restoration, recovery and pruning at start |
| probe scheduler | `importer/probe_scheduler.go` (326) | task table, two lanes, slots, counters | submit, attach, run, follow up, close |
| testers, connectivity | `importer/tester.go`, `connectivity*.go`, `verification.go`, `probe_runtime.go` (3350) | probe runtimes, connectivity jobs and history | probe nodes over the network |
| job events | `importer/job_events.go` (231) | subscribers with a channel of one event | subscribe, publish, close |
| configuration | `config` (2040) | `config.yaml`, `nodes.txt` | load, normalise, save nodes, save settings, save all, file lock |
| backup | `backup/service.go` (569) | none | export; restore in stages with put-back |
| builder, GeoIP, export, fetch, chains | `builder`, `geoip`, `subfetch`, `proxychain` (3070) | GeoIP database and router | translation to sing-box options; region routing |

### How they interact

* `app.Run` makes the box manager, the monitor server, the importer and the
  subscription manager and hands them to each other as interfaces. A first start
  that fails ends the program.
* The WebUI calls the managers from one goroutine per request. The box manager
  serialises its operations by `reloadMu` and guards its fields by `mu`; the
  subscription manager has `lifecycleMu`; the store has `mutationMu` around memory
  and database and `mu` for memory; the importer has locks for jobs, for applying
  nodes, and a scheduler of its own.
* `updateSettings` edits the configuration object that the box manager gave to the
  server and saves it, under the server's lock and not under `reloadMu`.
* Every pool outbound registers its members with the monitor and shares the health
  state by tag; the state outlives the instance.
* The subscription manager refreshes either itself (fetch, write `nodes.txt`, reload)
  or through a refresh job of the importer, whose end it polls.
* The importer applies nodes through the box manager (node CRUD and reload) and
  rolls its store back when the runtime refuses them.

### What is hard about it

Interleavings under several locks; operations of seconds that copy state first and
publish it last; failure in the middle of start, reload, restore and refresh, with
rollbacks that may fail too; shutdown against all of these; cancellation that races
the result; state in memory, in the database and in two files that must agree; a
late result for a node that was banned, removed or tested again. `PROJECT.json`
lists each such hazard at its line, with the properties that watch it.

### What makes each component correct

* **Probe scheduler**: one execution per key at a time; every waiter answered once, by
  an execution that began after its call; nothing leaks at the slots; Close ends.
* **Pool health**: an expired member gets exactly one trial and always comes back; a
  late result does not undo a newer decision; routing and WebUI agree.
* **Box manager**: one instance; what is published, saved and shown is what runs, after
  every failure; nothing survives shutdown; shutdown completes.
* **Subscription manager**: one loop with the latest settings; a caller is told that his
  update took effect only if it did; requests are honoured; Stop does not wait for
  jobs that never end.
* **Importer**: a job ends in one final state; a cancelled or failed job leaves the nodes
  as they were; memory and database agree; restarts take up what was running.
* **Configuration**: no writer loses another's change; a crash leaves an old or a new file;
  a start serves the pool, whatever the files say.
* **Testers, connectivity**: what a job reports is what was measured; a cancel does not pass for
  a result; probes shared by two batches serve both; slots and sessions come back.
* **Port assignment**: ports are unique, free, stable for nodes that stay.
* **Job events**: a subscriber that keeps reading ends with the latest state of every job.

## 2. The modules

| Module | Models | Checked by | Proved in |
|---|---|---|---|
| `ProbeScheduler` | `importer/probe_scheduler.go` | `scheduler_safety`, `scheduler_live` | `ProbeSchedulerProofs` |
| `ProbeService` | what the scheduler promises; the abstract specification | refined in `scheduler_safety` | `ProbeSchedulerProofs` |
| `PoolHealth` | `outbound/pool` and the mirror in `monitor/manager.go` | `pool_health`, `pool_trial_leak` | `BoxManagerProofs` |
| `BoxManager` | `boxmgr/manager.go`, with the parts of `backup`, `config` and `monitor` that change its state | `manager` | `BoxManagerProofs` |
| `SubscriptionLoop` | `subscription/manager.go`, with the importer's refresh job as it sees it | `subscription` | `SubscriptionLoopProofs` |
| `NodeStore` | `importer/store.go` over `importer/state_db.go`, with what its callers write | `node_store` | `NodeStoreProofs` |
| `ImporterJobs` | the jobs of `importer/service.go`: refresh, test, import, binding | `jobs`, `jobs_live` | `ImporterJobsProofs` |
| `SourceApply` | what those jobs and the users do to store, configuration and listeners | `apply` | `SourceApplyProofs` |
| `PortAssign` | the searches for ports in `config` and `boxmgr`, as operators | with `ConfigFiles` | `ConfigFilesProofs` |
| `ConfigFiles` | `config.yaml`, `nodes.txt`: load, saves, starts, restores, crashes; extends `PortAssign` | `storage` | `ConfigFilesProofs` |
| `SiteProbes` | one pass of site checks over shared slots (`importer/connectivity.go`) | with `NodeTests` | `NodeTestsProofs` |
| `JobEvents` | `importer/job_events.go` and the handler that streams them | with `NodeTests` | `NodeTestsProofs` |
| `ConnectivityJobs` | connectivity jobs and their history; extends the two before | with `NodeTests` | `NodeTestsProofs` |
| `Verification` | `importer/verification.go` and the rounds of probes of `importer/tester.go`; extends `SiteProbes` | with `NodeTests` | `NodeTestsProofs` |
| `NodeTests` | `ConnectivityJobs` and `Verification` side by side | `connectivity` | `NodeTestsProofs` |

Each run uses the module `MC…` of its specification. In the modules a definition placed just before
another one, and named after it for a slip (`ClosedBlindly`, `NeverLate`, `PublishOld`), is that other
definition with a plausible bug. `PROJECT.json` lists them under `mutants`: with the bug put in, the
run named there finds the property violated.

### ProbeScheduler, ProbeService

A call of `Submit`, its context and its result channel are one member of `Callers`; the
task that it makes has the name of the call. `table` is `s.tasks`; `waiters` and
`follow` are the two lists of a task; `high` and `normal` are the channels;
`slots`, `queued`, `running` the slot channel and the counters; `wpc`, `hand`, `batch`
the program counter and the locals of each worker. One action is one critical section
of `s.mu`, one channel operation or one return, so every interleaving the Go program has
at those points is explored. `Close` is two actions (`BeginClose` cancels, `Drain` is
what follows once the workers have stopped).

`ProbeService` knows only calls and one flight per key. `ImplementsService` substitutes
`phase` by what a caller sees of its result channel and `flight` by the callers in the
local batches of workers that execute: each step of the scheduler is a step of the service or
a stutter. The function a task runs is left out: calls with equal keys come with equivalent
functions (where they do not, in verification, `Verification` has the consequences).

### PoolHealth

One member of `Ops` is one goroutine that dials, probes, bans or releases, reused for
ever. One action is one critical section of the member's mutex. A time stamp is kept as
the fact that it is past (`due`), so every duration is covered. `shown` is the monitor's
mirror, written in a step of its own as in the code. `balance`, chosen at the start and
never changed, tells the modes that try one member at a time from balance mode, which
acquires two candidates and dials one. Connection counts only break ties in balance mode, so the winner of a pair is
nondeterministic. The retries of one dial are further dials.

### BoxManager

`reloadMu` admits one operation at a time, so a single program counter `pc` stands for it;
between any two of its steps the WebUI may save a setting (`UpdateSettings`) and
`CloseContext` may announce the shutdown. Each failing call has a step that fails:
`CreateFails`, `CreateConflicts` (a port is in use: its node is moved and the start is
retried, at most once per node), `SavePortsFails`, the failing branch of `Stop`, of `Rollback`
and of `PutBack`, `RestartFails`, `ReconcileFails`.

A configuration is its nodes, whether their ports are as the sequential rebuild packs them
or moved, and one setting, the mode: pool mode without or with GeoIP routing, or multi-port
mode. It is the setting of the WebUI on which most of the runtime depends: how ports are
assigned, whether a reload may be done in place, which nodes register in the monitor, the
periodic check and the router. The initial state, the WebUI and a restore choose it freely.
`synced` says whether the WebUI still edits the object `Manager.cfg` points to. `torn` is
history: a start reads the live configuration object at several of its steps, so a setting saved
in between is in the later ones only. What is abstracted:

* closing an instance succeeds (`enterEmptyRuntime` returns early when it does not);
* hybrid mode runs both kinds of listeners and is not a third case here (`PortAssign` has its listener);
* the first operation is `Start`, and its failure ends the program;
* the importer's restoration of nodes is an `Edit` followed by a `TriggerReload`;
* `Reload`, `ReloadWithPortMap`, `gracefulSwitch` and `drainOldBox` have no caller.

### SubscriptionLoop

Every reconfiguration makes a context and a request channel: a generation, numbered up to
`MaxGen`. `loop` is where each `refreshLoop` goroutine is, `runsOn` its generation; `op` the
operation that holds `lifecycleMu`; `caller` where each WebUI call is. `RefreshCount` is kept
as the set `counted` of callers for whom it has moved, which makes the state finite without
bounding the number of refreshes. Ticks, timeouts and the deadline of a caller may come at any
time. A refresh is `managed` (a job of the importer, joined when one is running) or a `fetch`;
`active` says whether the importer runs a job, `polled` how the one a refresh polls stands.
`attempted` and `applied` are history: the latest generation a refresh of which has ended, and of which
one has ended well. Requests put into the
channel of an earlier generation are lost, as nobody reads that channel. Node lists, `nodes.txt`,
`NodesModified` and the time after which jobs are forgotten are left out; cancelled, protected
and failed jobs are one outcome.

### NodeStore

`nodes` and `jobs` are the maps of `Store`, `dbNodes` and `dbJobs` the two tables. A mutation is two
steps: `Begin` takes `mutationMu` (`held`), changes the maps and keeps in `call` what it writes and what it
replaced; `Commit` makes the transaction and `Fail` puts the maps back. Between the two only
`UpdateJobProgress` and `BackupSnapshot`, which take `mu` alone, can act, besides the clock and `Crash`. The
operations differ in the entries they write, which are those their callers compute: `Edits` has what tests,
exclusion and synchronisation make of a node, `Applied` and `Refused` the result of a refresh or import, `Rested` the state after a
restart. Jobs read nodes, test them for minutes and write the whole copies back; `Copies` therefore offers, besides
the node as it is, the node as it was when `snap` was taken, even if it has been deleted since. `snap`
is also the snapshot of the rollbacks and the backup file; as the file outlives the process, so does `snap`,
and late writes from before a restart are a little more than the program can do. `phase` leads through
start-up: `NewStore` loads and recovers the jobs, `NewService` deletes staged nodes and takes back tests,
and ignores errors of these two (`skipped`).

What is abstracted:

* a node is the six facts its operations look at; names, ports, order, sources and results are left out, so `SetOrder` is
  an edit that changes nothing here;
* a job is its status and its time of update; a failed job counts as completed;
* `RestoreNodeStatesIfCurrent` restores imports only, which are not in the pool, as its callers do;
* a node removed by losing its last source together with edits of others is a deletion and edits in turn;
* the process may die at any time, the machine does not: with `synchronous=NORMAL` a power loss may undo commits.

### ImporterJobs

A job is a record (`jobs[j]`: kind, status, owner, snapshot) and a goroutine (`live`, `pc`). The record is stored, the goroutine
started, its cancel function registered (`reg`) and its context cancelled (`ctx`) in steps of their own,
since a cancel, Close, or another start can come between any two of them. The four kinds are the refresh
of sources with its `work` queue, the test of nodes, the commit of a parsed import, and the change of a tag's chain, each of
which starts jobs of the other kinds and waits for them. `starting` is `testStartMu`, `applier` is `applyMu`, `revs` are the source
revisions. A tag's published nodes are the revision they came from and the last test that wrote to them (`pool`), and a parsed import is one
`stage`. `Parse` and `Commit` of users have their own steps between reading and storing. Applying results is one step here;
`SourceApply` is what happens inside it. What the probes say is free.

### SourceApply

`nodes` is the store, `config` the port of each route in `Manager.cfg`, `running` that of the instance. `op` is the operation that
holds `applyMu` (applying a source, the ports of a connectivity job, deletion of everything), with what it remembered for its
rollback; `user` the operation that takes no lock (promotion, deletion, detachment, failing, exclusion, reordering). Each step
is one call of the store or the manager, and each of them can fail, those of the rollback included. `ReloadOk` and
`ReloadFails` are the outcomes `BoxManager` gives a reload; one that succeeds serves the routes of the configuration on their ports, if the
instance is changed in place, or on others, if a new one is started and ports are packed (`Ported`). `blame` records why the three may differ at rest; the invariants say that nothing else
can be the cause.

### PortAssign, ConfigFiles

`PortAssign` has the searches as functions of the round or closed forms over sequences of records with a port: the normalisation of a
loaded file, the sequential rebuild, the port of an added node, the move after a conflict, and the repetition of moves until none is left.

In `ConfigFiles` three threads, the box manager, the settings pages and the backup service, have each an operation (`op`) and in it a
save (`job`): read `config.yaml`, replace one's part, write. A write is a temporary file and a rename, or, where `refuses`, a truncation, the wait for
the file lock and the writing in place, each a step. `stage` leads from the load to the serving program as `app.Run` does: load, filter by the pool,
pack, save, synchronise the store, start. `Kill` may come at any step and keeps the disk; the store is atomic, as `NodeStore` shows. A
restore is its row of stages with the put-back of each. A route is a URI with its chain, of which `nodes.txt` keeps the URI alone (`Bare`);
settings are numbers.

### SiteProbes, ConnectivityJobs, JobEvents, Verification, NodeTests

A pass has an owner, routes left to feed, routes that wait for a slot, are being checked, or have results to send; `canceled` are the owners whose
context is done. How a check ends is a member of `Outcomes`: usable or not, worth another try or not, broken off by a cancel or not; sign-in
sites need two steps.

`ConnectivityJobs` has a job as its counters, results and status, `at` for its goroutine, `post` for each publication under way (a snapshot is
wanted, then taken, then sent), `cancel` for the call that cancels, `history` for the table. Finished jobs expire. `JobEvents` is one client: it subscribes,
is written a snapshot and reads a channel of one event; `displaced` records the jobs whose last event another job's pushed out.

`Verification` has batches in up to `Rounds` rounds. `task` is the scheduler as `ProbeService` promises it, one flight per key with late calls for
the next one, and adds what the scheduler does not know: the function is that of the first batch (`fn`), so its session goes into the map of that batch.
`NodeTests` lets both kinds share the slots of `batchSem`.

## 3. The runs

Every run that passes explores all its states; symmetry is used where constants are interchangeable and no liveness is
checked. A property that names several parts is their conjunction; the modules state each part with its reason.

| Run | Bounds | Properties | Shows |
|---|---|---|---|
| `scheduler_safety` | 3 calls, 3 keys, 2 workers, 2 slots | `Accounting`, `NoWaiterLost`, `DrainAnswers`, `ImplementsService` | slots, counters and channels are exact; no waiter dropped; Close answers whoever is attached; the scheduler implements `ProbeService` |
| `scheduler_live` | 2 calls, 2 keys, 1 worker, 2 slots | `NobodyStarves`, `CloseTerminates` | high tasks are taken, waiters answered, Close ends |
| `pool_health` | 2 members, 3 goroutines, threshold 2, both kinds of modes | `TrialsAreMade`, `Recovers` | a half-open mark is on an expired member only, outside balance mode it belongs to a dial under way, and a blacklisted member becomes selectable again |
| `manager` | node sets {} and {n1}, three modes | `OneInstance`, `ClosedIsQuiet`, `RuntimeIsPublished`, `PortsArePersisted`, `ServicesFollow`, `CloseCompletes` | one instance, quiet after close; published and saved state is that of the instance; router, health check and monitor follow it; shutdown completes |
| `subscription` | 2 loops, 1 caller, 2 reconfigurations | `LoopIsOwned`, `SuccessIsReal`, `RefreshesBegin`, `LifecycleIsReleased` | one current loop, quiet after Stop; the caller is not answered for the interrupted refresh; an update is refreshed; Stop and updates get through |
| `node_store` | 2 nodes, 2 jobs of which 1 is kept for 1 tick, 2 ticks, 3 mutations or crashes | `StoreAgrees`, `CleanStart`, `RetentionKeepsWork` | memory and database agree at rest; start-up leaves nothing of a dead process; the pool mark is right; retention keeps work |
| `jobs` | 1 tag with a URL source, 3 jobs, 2 stages; users start one of five pairs of jobs, with one cancel or Close in four of them | `RunsInTurn`, `ChildrenFirst`, `CanceledLeavesNothing`, `ImportsStand` | one tester, one applier, nothing after Close; a refresh waits for its children; cancelled jobs leave nothing; no restoration or late import undoes a newer import |
| `jobs_live` | the same with 1 stage, three menus | `AllEnds` | every goroutine ends, whatever it waits for, and Close returns |
| `apply` | 2 routes, 2 tags, 2 ports; one operation with the lock and one without | `PoolIsServed`, `RolledBack`, `OthersKept` | pool, configuration and listeners agree at rest; a failed operation changed nothing; other sources keep their nodes |
| `storage` | 2 URIs, one also with a chain; ports 1 to 6 with the listener on 3; 4 beginnings; 3 operations, 1 fault, 2 starts | `PortsHold`, `FilesAreWhole`, `SavesAreKept`, `BootServesPool`, `RestoreUndone` | files are whole after a kill, nobody's save is lost, ports are distinct and reach the store, a start serves the pool, a failed restore leaves things as they were |
| `connectivity` | 1 slot, 2 rounds, 1 run of history; 7 menus with up to 2 jobs or batches, 2 routes, 2 sites, one of them with sign-in | `ResultsAddUp`, `FinishedIsHonest`, `HistoryIsTrue`, `KnownAtTheEnd`, `EveryNodeJudged`, `NothingLeaks` | counters are those of the results; finished means complete; history is the newest and symmetric; the client ends informed; verdicts and slots survive cancels of others |

Why the bounds are enough: a second worker, a third goroutine on two members and a second caller
bring every pairwise race (the subscription manager has its own loop and operations beside the one caller); the third call makes a follow-up that a further call joins, and a
call that finds all slots taken; keys are chosen per call, so that all calls with one key is a case, too.
Threshold 2 separates a tolerated failure from the last one. One node makes a configuration that is empty
or not, moves a port once, and runs; which nodes there are matters to no guard but emptiness and the
number of retries, and the theorems cover every family of node sets. Two goroutines of the loop would
show a second loop if one could exist, and two reconfigurations one that replaces another one half done.
Names that are over are reused, so the length of a behaviour is not bounded except by `MaxGen`, in `NodeStore`
by `MaxCalls`, and in the modules below by their menus. Three mutations or crashes make every pair of operations, an operation whose copy is stale by another one,
and a crash in between; the run starts on the tables of a process that died while it imported one node and tested another one, a
member of the pool, so the first start has all repairs to do. With one job kept of two, retention drops for age and for number.

`ImporterJobs`: jobs interact through locks, revisions and the pool of one tag, so one tag has every conflict; a refresh or binding that owns a test or
an import needs two jobs, and the third is the user's that meets them. The menus (`MCMenus`) name the pairs; Close counts as a cancel. The menu of
a refresh beside an import has no cancel, to keep the run short; both are cancelled beside other jobs.
`SourceApply`: a route of two sources, its neighbour, and a port that is given away while its owner is taken back need no more than two of each; every
operation with the lock meets every one without, at each of its steps and failures. `ConfigFiles`: the four beginnings are a subscription in `nodes.txt` with a smaller pool,
inline nodes without a pool, a pool no file knows, and nothing; renames are refused in two of them, and another
program may hold port 2 from a start on. Three operations make two writers beside a restore or two before a kill; the second start reads what the kill left. `NodeTests`: with one slot every two
routes contend; the menus (`MCNodeTests`) are two jobs with a watching client, one with a client and a cancel, one job to each of its ends, two jobs that end
together while a node leaves and a write is lost, two on a sign-in site, a job beside a verification, and two verifications that share a probe.
Deadlock is not checked where the system may stop: all calls answered, a manager shut down, a menu used up.

### The run that finds a disagreement

| Run | What happens |
|---|---|
| `pool_trial_leak` | balance mode acquires the trial of a member as second candidate, dials the other one, and the member stays locked out |

### Fairness

* `ProbeScheduler`: weak fairness for each call that can proceed, for each worker and for the end of
  Close: the Go scheduler runs goroutines that can run, and `execute` bounds each probe by a timeout.
  No fairness for submissions, cancellations or the call of Close. `NobodyStarves` assumes for normal waiters that
  high traffic ends at some time, as the code polls that channel first without any ageing.
* `PoolHealth`: time passes, and dials and probes that began return (both have timeouts). Nobody has to dial.
* `BoxManager`: the operation under way goes on, since each call in it is bounded; shutdown is taken
  when the lock is free. No fairness for the WebUI.
* `SubscriptionLoop`: strong fairness for the branches of `refreshLoop`'s `select` that end it or take a
  request, as `select` chooses at random among ready branches; weak fairness for its other steps and
  for the operation that holds `lifecycleMu`. None for ticks, callers and the importer's job, so
  `LifecycleIsReleased` holds even if that job never ends.
* `ImporterJobs`: weak fairness for each goroutine, each work of a refresh, each cancel that has been read and the
  end of Close: probes and downloads have timeouts, and a `sync.Mutex` is handed on (it has a starvation mode). Nobody has to start, cancel
  or close anything. The other modules state safety only.

## 4. What is proved

TLAPS checks these theorems for all values of the constants that satisfy the assumptions the
modules name.

| Theorem | Says |
|---|---|
| `ProbeSchedulerProofs!InductiveCorrect`, `TypeCorrect`, `SingleFlightCorrect`, `HandIsKnownCorrect` | types; one execution per key; the early return for a stale task never happens |
| `ProbeSchedulerProofs!DrainAnswersCorrect` | Close answers every waiter that is attached |
| `ProbeSchedulerProofs!AccountingCorrect`, with `SlotsMatchTasksCorrect`, `CountersExactCorrect`, `PushNeverBlocksCorrect` | slots, counters and the room in the channels, for any numbers of calls, keys, workers and slots |
| `ProbeSchedulerProofs!NoWaiterLostCorrect` | a call that waits while the scheduler is open is attached to the task of its key |
| `ProbeSchedulerProofs!ImplementsServiceCorrect` | the scheduler implements `ProbeService`, the safety part of the refinement |
| `BoxManagerProofs!TrialsAreMadeCorrect`, with `HalfOpenIsDueCorrect`, `TrialIsDialledCorrect`; `HealthTypeCorrect` | a half-open mark only on an expired blacklist, and outside balance mode only with a dial under way (`pool_trial_leak` shows why not in it); the failure count below the threshold |
| `BoxManagerProofs!OneInstanceCorrect`, `ClosedIsQuietCorrect`, `RuntimeIsPublishedCorrect`, `TypeCorrect` | the safety of the instance for any node sets, while modes change |
| `BoxManagerProofs!ServicesFollowCorrect`, with `RouterHasPoolsCorrect`, `HealthIsCheckedCorrect`, `RunningIsMonitoredCorrect` | router, periodic check and monitor follow the instance |
| `BoxManagerProofs!PortsArePersistedCorrect` | the ports of what runs are those on disk, through starts, reloads, rollbacks and shutdowns |
| `ImporterJobsProofs!RunsInTurnCorrect`, `ChildrenFirstCorrect`; `TypeCorrect` | one refresh or test of the user's at a time, one holder of `applyMu`, no goroutine after Close; a refresh settles the pool only after its own jobs; for any numbers of jobs, tags, workers and attempts |
| `ImporterJobsProofs!ImportsStandCorrect` | no release of `applyMu` leaves a tag with an older revision, and no test of the user's takes back an import |
| `ImporterJobsProofs!CanceledLeavesNothingCorrect` | an import, a test or a refresh that ended as canceled has left neither a revision nor a mark of itself or of its jobs in the pool |
| `SourceApplyProofs!PoolIsServedCorrect`; `TypeCorrect` | at rest pool, configuration and listeners agree port by port and no port is given twice, through every failure and rollback that `blame` does not note; for any numbers of routes, sources, ports and operations |
| `SourceApplyProofs!RolledBackCorrect` | a failed operation under `applyMu` that could take back its work has changed nothing |
| `SourceApplyProofs!OthersKeptCorrect` | applying a source leaves the other sources their nodes and their places in the pool, and writes no node but its own |
| `NodeTestsProofs!NothingLeaksCorrect`, `EveryNodeJudgedCorrect`; `TestsAreSafe` | slots and sessions come back, and a batch that was not cancelled judges every node, whoever runs the probe it waits for; for any numbers of jobs, batches, nodes, sites, slots and rounds |
| `NodeTestsProofs!FinishedIsHonestCorrect`, `ResultsAddUpCorrect` | "finished" is complete and not cut short; every counter of a job or batch is that of its results, through second passes and cancels |
| `NodeTestsProofs!KnownAtTheEndCorrect` | a client that has read everything knows how a job stands |
| `NodeTestsProofs!HistoryIsTrueCorrect` | the history has the newest runs of each scope, for any number kept; comparisons are symmetric; the overall verdict of a node is usable, or failed, if and only if that of each site is |
| `NodeStoreProofs!StoreAgreesCorrect`, with `MemoryAgrees`, `PoolMarkAgrees`; `StartsClean`, `TypeCorrect` | memory and database, the pool mark and the start-up for any number of nodes, jobs, operations, failures and crashes, from any tables whose marks are right |
| `SubscriptionLoopProofs!LoopIsOwnedCorrect`, with `LoopIsCurrentCorrect`, `StoppedIsQuietCorrect`; `SuccessIsRealCorrect`, `GenerationIsCountedCorrect`, `TypeCorrect` | the loop and its callers for any number of callers and reconfigurations |
| `NodeStoreProofs!RetentionKeepsWorkCorrect` | pruning forgets no running job once requests are served, no unexpired parsed one while it keeps a finished one, and keeps at most `MaxJobs`; for any jobs, ages and limit |
| `ConfigFilesProofs!FirstFromIsFirst`, `AddedKeepsOwnPorts`, `ReassignedKeepsOwnPorts` | the search finds the first usable port or none is left; adding a node and a move after a conflict keep ports distinct and off the listener, for any range and any ports of others |
| `ConfigFilesProofs!NormalizedIs`, `PackedIs`, `SettledIs` | what loading, packing and repeated moves make of a whole configuration of any length, if they find ports: the same nodes in the same order, each with a port of its own |
| `ConfigFilesProofs!FilesStayWhole`; `AlwaysFormed`, `TypeCorrect` | where files can be renamed both are whole at every point of every save and crash; elsewhere a short file has its cause; for any routes, beginnings, numbers of operations, faults and starts |
| `ConfigFilesProofs!BootsServePool` | a start that finds a pool serves its members and no other node, whatever a crash left |
| `ConfigFilesProofs!PortsAreHeld`, from `OwnPortsStay` and `PortsReachStore` | ports are distinct, and at rest those of the pool, through starts, edits, reloads, rollbacks and restores |
| `ConfigFilesProofs!SavesKept`, from `SettingsStayOnDisk` and `NodesStayOnDisk` | no save, reload, rollback or restore writes back what another has replaced; for the nodes also when one step fails |
| `ConfigFilesProofs!RestoresAreUndone` | a restore that fails for one fault leaves file, pool and nodes as they were |

The arguments:

* *Scheduler.* `SingleFlight` alone is not inductive: it needs that a task is in one place at a time (one
  channel, one hand, or on its way through `Submit`), that the table has each such task under its own key
  until it is drained, and that `busy` is the set of tasks under execution. Two workers with the same key would
  hold the table's one task for that key, thus the same task, thus be the same worker. `Inductive` is that
  conjunction.
* *Its books.* `Books` adds to it that `queued` is the number of tasks under way that nobody executes, `running` that of the
  executed ones, and `slots` their sum and the calls between slot and registration; and that the table has nothing
  else. The room in a channel follows, as its tasks hold slots.
* *Its waiters.* `Attended` says where an attached call may be: with a task that is being enqueued only its own call, follow-ups only on a task that
  runs, and in the batch of the worker as long as its task is executed; what is answered needs no place. A task is taken back only by a scheduler that closes, which is
  when `NoWaiterLost` stops asking.
* *Refinement.* `Serving` adds that a call is attached under its own key, once, that a batch holds waiters of its
  task and that answers come after waiting. Then each action maps to asking, leaving, starting, ending or abandoning a flight, being refused, or to a stutter,
  one lemma for calls, one for workers and one for Close. `OneServer` (from `SingleFlight`) makes the flight of a key unique.
* *Pool.* With `TypeOK`, `HalfOpenIsDue` is inductive: only an acquisition of an expired member sets the
  mark, and each operation that opens or closes a member clears it. For `TrialIsDialled` the dialing
  goroutine is the witness, and every step that takes it out of `dial` clears the mark of its target.
* *Box manager.* `IInv` adds to the types the shape of an operation (which of `new`, `old`, `built`, `putback` are set
  at each label) and an account of the instances at each label (`Instances`): none between closing the old
  one and starting the next, one unpublished between creation and publication. `Quiet` carries the end: after
  `done` only labels that publish nothing are left. `Published`, `Routed`, `Watched` and `Listed`
  do the same for the published configuration, the router, the health check and the monitor; each says at
  which labels its fact may be broken for the moment. `Stored` relates the ports of the four configurations an operation
  has at hand (published, running, to be started, to be put back) to those on disk, path by path.
* *Subscription loop.* `Held` ties the steps of an operation to `lifecycleMu`, `Single` says that any goroutine is the
  one in `loopDone` and of the current generation, `Alive` that it is not cancelled unless an operation
  that will replace it holds the lock, and `Counts` bounds what a waiting caller has been counted for. `Passed` says that the generations
  before the current one are cancelled, `Proven` that a refresh after which no error is known ended well or was cancelled; together
  they give `SuccessIsReal`.
* *Node store.* Every operation is shown to be one shape, `Mutation`: a typed change that is marked right if everything
  was before. `Durable` says that during a call memory is the database with the change and what was remembered is
  the database without it, apart from progress; then a commit and a put-back both end in agreement. `Marks`
  extends the mark to all that may yet be written: the snapshot, the change and the entries remembered. `Boot` says
  what each phase of start-up has achieved; a repair that finds nothing to write and one that writes come to the same.
* *Importer jobs.* Dozens of actions are first described by what they may do: to a job (`Kept`), to a stage (`Stands`), to a
  work of a refresh (`WorkMoves`), to the pool (`PoolMoves`); the parts of the invariant are then preserved by those
  descriptions. `Linked` and `Bound` tie works, children and stages to the jobs they name, `OneTester` and `OneApplier` say who
  may be where, `Waited` what a refresh has waited for. For the revisions `Newest`, `Newer` and `SameRevs` speak of
  `Past`, the pool and all snapshots that may yet be put back, as a restore makes any of these the pool. For
  `CanceledLeavesNothing` a revision is given once (`Numbered`, `Fetched`), marks belong to jobs that exist (`Marked`, `Owned`), and no snapshot that
  can still come back, `Saved`, has a trace of a job that took its own back (`CleanTests`, `CleanRefreshes`).
* *Source apply.* `Shape` says what an operation has at hand at each step. `Apart`: an operation under `applyMu` and a user's that goes
  past it are together only if "overlap" is noted. `OnePortEach` is inductive as new ports are searched among those that neither
  the configuration nor the routes before have. `Alone` relates an operation that nobody disturbs to the store it began with: what it has not planned is
  untouched (`Outside`), what it has planned is as its kind and its step say (`SourceAlone`, `SelectAlone`, `AllAlone`), and what it
  takes back is what it changed (`Back`); `RolledBack` follows. `Blameless` says for each step how far pool, configuration and listeners
  agree while nothing is noted, the routes on their way in or out apart (`OpAgrees`, `UserAgrees`); with no operation left, that is
  `PoolIsServed`. The part of `OthersKept` about untouched nodes needs that operations are counted (`Counted`): a user's step among them moves the count.
* *Passes and jobs.* `Tidy` says that a route of a pass is in one place and has a worker, `Passes` that the slots taken by all passes together are at
  most `Slots`; a step of feeder or workers is described once, by `Moves`: it loses no result that is to come unless the context is cancelled.
  `Sound` then relates a job to its goroutine: in the first pass each site has its result or is coming (`InFirst`), in the second what is
  worth it is coming (`InSecond`), a broken-off check shows that the context is cancelled, so that a job that gets as far as saving is
  `Honest`; and the counters are cardinalities of sets of results (`Counts`), each step adding or replacing one.
* *Verifications.* `VSound` has the same for a batch: in a round each node waits, has a result, goes to the next round or is probed
  (`Rounded`); once chosen all are probed, in the end all judged (`Judging`); progress is counted per site (`Adds`). A batch waits for tasks that
  belong to others: `TasksSound` says that one that is not cancelled is a waiter of the task of each node it has asked for, and that a task that runs
  its function has it as waiter, so its sessions are closed by itself; the exception is `late`.
* *Events.* `Tells` says of a job that no call cancels that the snapshot under way, the event in the channel and what the client knows are how
  the job stands, each as long as no later one is on its way, or the job's last event was displaced.
* *History.* A trim keeps a run if fewer than `HistoryKeep` are newer. `Newest` says that each run dropped from a scope has
  at least that many kept ones above it and each kept one has fewer. In this form it needs no induction over the runs:
  a save adds a stamp wherever it belongs, as jobs that end together may be saved in either order, and pushes out at most one.
* *Retention.* The order among jobs is strict and total, so the number of retained jobs ahead of a job tells retained jobs apart; those
  that stay have a number below `MaxJobs` (`ExcessBounds`). A parsed job that goes has that many ahead of it, and so has each job that is not parsed, as
  that job is ahead of it (`ParsedStay`). That nothing else forgets jobs is a case for each action (`OnlyPruneForgets`).
* *Ports.* A nonempty set of numbers has a least member (well-foundedness of the naturals), so a search gives a member of the usable ports or nothing; each
  operation removes from these the ports in use before it searches. A whole configuration takes one round per node: a fact about all
  rounds is shown by the least round in which it would fail, in place of an induction over the sequence.
* *Files: shape.* `Formed` is the type of everything and the shape of each operation: what a save has at hand at each of its steps (`JobOK`), which operations go with which
  `stage`, who holds `reloadMu` and what for (`LockShape`). A step is then one of three kinds: a start, a step of a save, or a step that leaves the files
  alone and begins or ends saves (`QuietStep`), and most invariants are preserved by that description.
* *Files: whole.* `FilesInv` says who may write in place (only where renames are refused, or to put a file back), that two write at once only if that is noted (`disturbed`), and
  that a file that is short is being filled by somebody, or was cut off, or put back.
* *Files: starts and ports.* `BootInv` covers the stages between the choice of the pool and the start of the instance. `OwnInv` says for all configurations at hand (in memory, running, to be
  started, to be put back) that ports are distinct; a restore with nothing running is excused (`Excused`). For the store, `PoolInv` says for each operation
  and step on which routes pool and configuration agree. It holds where nothing went wrong (`Clean`), so it needs that without faults no save fails and nothing is rolled back
  (`SmoothInv`), which needs that what saves read is not short (`ShortInv`) and who is alone with the program (`WhoInv`).
* *Files: saves.* A save that replaces nodes keeps the settings that it read and the reverse, so what has been read for a save under way must be as current as the file (`KeepsSettings`,
  `KeepsNodes`). `SettingsInv` and `NodesInv` say for each operation and step whose settings and nodes the file has: those of memory, those from before, or those of the
  archive. For the nodes this survives one fault (`Lucky`), as the rollback after it then meets none.
* *Files: restores.* `RestoreInv` says that the manager has the nodes it had or those that run, and that when the put-back of `config.yaml` is done
  the file is as remembered; if that save failed there has been a second fault, which `RestoreUndone` excepts.

The assumptions on constants are those of the modules. For `NodeTests`: jobs, routes and sites are finite; jobs and batches are different
callers and none of them is the calling cancel or "no one"; a policy asks for a probe or for a site, as `NormalizeVerificationPolicy` refuses any other;
at least one slot, round and kept run. For `NodeStore`: job IDs are finitely many numbers, as they have a fixed length, and there are node IDs. For `SourceApply`:
"no port" is not a port, and the kinds of operations are among the three of the code. For `ConfigFiles`: taking the chain off a route twice is taking it off once; the marks for "nothing",
a cut-off file and a mixed one are not files; the beginnings are pairs of files and pools.

Every safety and action property of the runs that pass, and the refinement, is a theorem. Only model-checked are the liveness properties, which need fairness and ENABLED:
`NobodyStarves`, `CloseTerminates`, `Recovers`, `CloseCompletes`, `RefreshesBegin`, `LifecycleIsReleased`, `AllEnds`. `PortsArePersisted` is stated for instances in multi-port mode: in pool
mode ports are not persisted, and a start after a failed rollback runs nodes that are not on disk.

## 5. Exceptions and what is not modelled

### What the code does against a reasonable expectation

The models have these behaviours; the properties say where they except them.

*Pool and manager.*

* `Entry.Blacklist` writes the pool's state and then the mirror (`monitor/manager.go:486`–`490`), with no lock around both: a
  ban and a success may write the two in opposite orders, and the mirror stays wrong until the next one.
* A start by a restore or with nothing running sets `Manager.cfg` without giving it to the WebUI (`boxmgr/manager.go:1567`, `:1605`; other
  starts do, `:517`). What the WebUI saves then is in the file and in an object the manager no longer uses.
* A reload stops the GeoIP router (`:432`) before it knows whether the new instance starts, and the rollback (`:571`–`610`) does not
  start it again: routing by region is off until the next reload.
* `StartRefreshSources` joins a refresh that is running (`importer/service.go:411`), so an update of the subscriptions, which is promised to be
  confirmed as taken effect (`subscription/manager.go:242`), may be confirmed by a job from before it.
* With automatic refreshes off at the start nobody starts the loop (`subscription/manager.go:106`, `app/app.go:174`), so a request by hand, which the loop
  would honour whatever the setting (`subscription/manager.go:363`), waits for an update of the settings.

*Connectivity and events.*

* Cancel writes the phase of a job that has just ended, which then disagrees with its status (`importer/connectivity_test.go:566` expects them to
  agree); a cancel between storing a job and registering its cancel function has no effect.
* An event is a snapshot that is sent later: an older one may be sent last. And an event of one job may push the last one of
  another job out of the channel (`importer/job_events.go:185`). A client then learns the end from its next snapshot.
* A task of the scheduler runs the function of the first batch that asked. If that batch is cancelled and has closed its
  sessions (`importer/tester.go:580`–`616`), one opened after that stays open. `SessionsClosed` excepts it (`late`).
* Of two jobs that end together, the "previous" run that one is compared with may be the newer one.
* `HasActiveJobs` (`importer/service.go:317`) does not know connectivity jobs.

*Files and restores.*

* A restored backup with subscriptions leaves `nodes.txt` in place, so after the next start a node may be in the configuration twice,
  although the pool is meant to be the single source (`app/app.go:75`–`77`).
* Nodes that go through a chain lose the chain when they are written to `nodes.txt`.
* `SetWebDAVConfig` (`backup/service.go:95`) edits the backup service's copy of the configuration, and `SaveSettings` writes all settings
  of its object (`config/config.go:1476`): a later save of the WebUI writes the earlier account back.
* A failed `SaveSettings` leaves the change in memory.
* A backup reads the configuration and then the store (`backup/service.go:126`–`134`), so after an edit between the two it may have two nodes with
  one port. Restored with nothing running it is started as it is, and if that fails the manager keeps the overlap until the next start or restore.
* A restore with nothing running sets the manager's settings and not the WebUI's, which goes on showing, and saves, the old ones.
* When the save of a reload fails and the save of what is put back fails too, the file has the nodes of neither.
* Written in place, a file is truncated before the lock is taken (`config/config.go:1559`). Two writers may mix; a cut-off
  `config.yaml` parses as an empty configuration; a restore that reads a cut-off file puts that back.
* `ApplyRestoredConfig` that fails with no instance to return to keeps the restored nodes in memory, while the restore reports
  that it was rolled back (`backup/service.go:257`).

### Not modelled

`components` in `PROJECT.json` has each part and its reason. In short:

* pure conversions: the sing-box options builder, proxy chains, export, parsing of URIs, subscriptions and archives, the views and caches of the WebUI;
* network I/O: fetching with its limits, the HTTP and TLS of one check (reduced to how it can end), the download of the GeoIP database, WebDAV transfers;
* maps that are built once and only read: the dispatch outbound, the region of a request;
* logging, sessions, JSON, assets, samples of traffic and latency;
* the drain-and-switch reload of the box manager, which has no caller.

## 6. Plan

1. `ProbeScheduler`, `ProbeService`, `PoolHealth`, `BoxManager`, `SubscriptionLoop`, `NodeStore`, with their theorems: done.
2. `PortAssign`, `ConfigFiles`, `ImporterJobs`, `SourceApply`: done, with theorems for all their safety properties.
3. `SiteProbes`, `ConnectivityJobs`, `JobEvents`, `Verification`, composed in `NodeTests`: done, with theorems for all six properties.
4. The refinement of `ProbeService` and the books of the scheduler as theorems: done.
5. The files of `ConfigFiles`, the searches of `PortAssign` over whole configurations and the retention of `NodeStore` as theorems: done.
6. Left: the sweep of the monitor with its single runner; `SubscriptionLoop` over `ImporterJobs` in place of its own picture of a job.

The project keeps to a dozen runs, so that checking all of it stays short: related facts are parts of one
property, and what is proved for every instance is not run again.
