-------------------------- MODULE SubscriptionLoop --------------------------
(***************************************************************************)
(* The subscription manager (subscription/manager.go): the goroutine that  *)
(* refreshes the subscriptions, the operations that replace or end it      *)
(* under lifecycleMu, the requests that poll for the refresh they wait     *)
(* for, and the importer's job that a managed refresh waits on.            *)
(*                                                                         *)
(* Every reconfiguration makes a context and a channel for manual          *)
(* requests: a generation, numbered here.  A tick of the refresh interval  *)
(* and the end of a caller's patience may come at any time.  RefreshCount  *)
(* is kept as the set of callers for whom it has moved since they read it. *)
(* What a refresh writes to nodes.txt is left out.                         *)
(***************************************************************************)
EXTENDS Naturals

CONSTANTS
    Loops,      \* refreshLoop goroutines
    Callers,    \* goroutines of the WebUI that call the manager
    Ways,       \* what a refresh may find: {"managed", "fetch"} or one of them
    MaxGen,     \* bound on the reconfigurations
    NoLoop,     \* no goroutine
    NoCaller    \* no caller

ASSUME LoopsAssumption == NoLoop \notin Loops
ASSUME CallersAssumption == NoCaller \notin Callers
ASSUME GenAssumption == MaxGen \in Nat

VARIABLES
    enabled,    \* baseCfg.SubscriptionRefresh.Enabled
    urls,       \* whether there are subscriptions
    booted,     \* whether the program has come past its call of Start
    stopped,    \* m.stopped
    loopDone,   \* the goroutine whose channel is m.loopDone
    gen,        \* the generation m.ctx and m.manualRefresh are of
    canceled,   \* generations whose context is cancelled
    manual,     \* whether m.manualRefresh holds a request
    counted,    \* callers who would see RefreshCount > startCount
    lastError,  \* whether status.LastError is set
    loop,       \* where each goroutine is
    runsOn,     \* the generation it was started with
    auto,       \* whether it was started with a ticker
    op,         \* the operation that holds lifecycleMu, and where it is
    opOf,       \* the caller that waits for it
    caller,     \* where each caller is
    waitsOn,    \* the generation of its baseCtx
    active,     \* whether the importer runs a refresh job
    polled,     \* status of the job a refresh polls
    attempted,  \* history: the latest generation a refresh of which has ended
    applied     \* history: the latest generation a refresh of which has ended well

config  == <<enabled, urls, booted>>
ctx     == <<gen, canceled, manual>>
loops   == <<loop, runsOn, auto>>
clients == <<caller, waitsOn>>
holder  == <<op, opOf>>
jobs    == <<active, polled>>
history == <<attempted, applied>>
vars    == <<config, stopped, loopDone, ctx, counted, lastError, loops, holder,
             clients, jobs, history>>

Init ==
    /\ enabled \in BOOLEAN /\ urls \in BOOLEAN
    /\ booted = FALSE /\ stopped = FALSE /\ loopDone = NoLoop
    /\ gen = 0 /\ canceled = {} /\ manual = FALSE
    /\ counted = {} /\ lastError = FALSE
    /\ loop = [l \in Loops |-> "none"]
    /\ runsOn = [l \in Loops |-> 0] /\ auto = [l \in Loops |-> FALSE]
    /\ op = "free" /\ opOf = NoCaller
    /\ caller = [c \in Callers |-> "out"] /\ waitsOn = [c \in Callers |-> 0]
    /\ active = FALSE /\ polled = "none"
    /\ attempted = 0 /\ applied = 0

-----------------------------------------------------------------------------
(* The goroutine that refreshes.                                           *)

AtGo(l, label) == loop' = [loop EXCEPT ![l] = label] /\ UNCHANGED <<runsOn, auto>>
Done(g) == g \in canceled

\* startLoopLocked: the goroutine takes the context and the settings of now.
Spawn(l) ==
    /\ loop[l] = "none"
    /\ loop' = [loop EXCEPT ![l] = "select"]
    /\ runsOn' = [runsOn EXCEPT ![l] = gen']
    /\ auto' = [auto EXCEPT ![l] = enabled']
    /\ loopDone' = l

\* The branches of refreshLoop's select.
LoopEnds(l) ==
    /\ loop[l] = "select" /\ Done(runsOn[l])
    /\ AtGo(l, "none")
    /\ UNCHANGED <<config, stopped, loopDone, ctx, counted, lastError, holder, clients, jobs, history>>

Ticked(l) ==
    /\ loop[l] = "select" /\ auto[l]
    /\ AtGo(l, "refresh")
    /\ UNCHANGED <<config, stopped, loopDone, ctx, counted, lastError, holder, clients, jobs, history>>

HonoredIfAuto(l) == auto[l] /\ manual
Honored(l) == runsOn[l] = gen /\ manual
TakeRequest(l) ==
    /\ loop[l] = "select" /\ Honored(l)
    /\ manual' = FALSE
    /\ AtGo(l, "refresh")
    /\ UNCHANGED <<config, stopped, loopDone, gen, canceled, counted, lastError, holder, clients, jobs, history>>

\* doRefresh: nothing is done on a cancelled context, or while another refreshes.
Refreshing(l) == loop[l] \in {"managed", "fetch", "finish"}
MayRefresh(l) == ~Done(runsOn[l]) /\ ~\E k \in Loops : Refreshing(k)
SkipRefresh(l) ==
    /\ loop[l] = "refresh" /\ ~MayRefresh(l)
    /\ AtGo(l, "select")
    /\ UNCHANGED <<config, stopped, loopDone, ctx, counted, lastError, holder, clients, jobs, history>>

\* refreshManagedSources: a running job is joined, else one is started with the
\* settings of now; an importer that is busy or closing is an error.
StartManaged(l) ==
    /\ loop[l] = "refresh" /\ MayRefresh(l) /\ "managed" \in Ways
    /\ \/ /\ AtGo(l, "managed") /\ UNCHANGED lastError
          /\ active' = TRUE /\ polled' = "running"
       \/ ~active /\ AtGo(l, "finish") /\ lastError' = TRUE /\ UNCHANGED jobs
    /\ UNCHANGED <<config, stopped, loopDone, ctx, counted, holder, clients, history>>

\* Without sources in the importer the manager fetches by itself.
StartFetch(l) ==
    /\ loop[l] = "refresh" /\ MayRefresh(l) /\ "fetch" \in Ways /\ ~active
    /\ AtGo(l, "fetch")
    /\ UNCHANGED <<config, stopped, loopDone, ctx, counted, lastError, holder, clients, jobs, history>>

Reach(g) == applied' = IF g > applied THEN g ELSE applied

\* The poll of refreshManagedSources, over when the job or the context is.
Forget == polled' = "none" /\ UNCHANGED active
JobEnded(l) ==
    /\ loop[l] = "managed" /\ polled \in {"finished", "failed"}
    /\ lastError' = (polled = "failed")
    /\ IF polled = "finished" THEN Reach(runsOn[l]) ELSE UNCHANGED applied
    /\ AtGo(l, "finish") /\ Forget
    /\ UNCHANGED <<config, stopped, loopDone, ctx, counted, holder, clients, attempted>>

AbortedNever(l) == FALSE
Aborted(l) == Done(runsOn[l])
JobAbandoned(l) ==
    /\ loop[l] = "managed" /\ Aborted(l)
    /\ lastError' = TRUE
    /\ AtGo(l, "finish") /\ Forget
    /\ UNCHANGED <<config, stopped, loopDone, ctx, counted, holder, clients, history>>

\* fetchAllSubscriptions answers, or its context ends it.
Fetched(l) ==
    /\ loop[l] = "fetch" /\ ~Done(runsOn[l])
    /\ \/ lastError' = FALSE /\ Reach(runsOn[l])
       \/ lastError' = TRUE /\ UNCHANGED applied
    /\ AtGo(l, "finish")
    /\ UNCHANGED <<config, stopped, loopDone, ctx, counted, holder, clients, jobs, attempted>>

FetchAborted(l) ==
    /\ loop[l] = "fetch" /\ Done(runsOn[l])
    /\ AtGo(l, "finish")
    /\ UNCHANGED <<config, stopped, loopDone, ctx, counted, lastError, holder, clients, jobs, history>>

\* The deferred functions of doRefresh: the refresh counts, however it ended.
Finish(l) ==
    /\ loop[l] = "finish"
    /\ counted' = {c \in Callers : caller[c] # "out"}
    /\ attempted' = IF runsOn[l] > attempted THEN runsOn[l] ELSE attempted
    /\ AtGo(l, "select")
    /\ UNCHANGED <<config, stopped, loopDone, ctx, lastError, holder, clients, jobs, applied>>

LoopStep(l) ==
    \/ LoopEnds(l) \/ Ticked(l) \/ TakeRequest(l) \/ SkipRefresh(l) \/ StartManaged(l)
    \/ StartFetch(l) \/ JobEnded(l) \/ JobAbandoned(l) \/ Fetched(l) \/ FetchAborted(l)
    \/ Finish(l)

-----------------------------------------------------------------------------
(* The importer.                                                           *)

\* The job runs to its end whether or not anyone polls it.
JobEnds ==
    /\ active /\ active' = FALSE
    /\ polled' \in IF polled = "running" THEN {"finished", "failed"} ELSE {polled}
    /\ UNCHANGED <<config, stopped, loopDone, ctx, counted, lastError, loops, holder, clients, history>>

\* The WebUI starts a job of its own, with the sources and settings it likes.
JobStarts ==
    /\ "managed" \in Ways /\ ~active
    /\ active' = TRUE
    /\ UNCHANGED <<config, stopped, loopDone, ctx, counted, lastError, loops, holder, clients, polled, history>>

-----------------------------------------------------------------------------
(* Start, Stop and the reconfigurations, under lifecycleMu.                *)

\* lifecycleMu is free.
Free == op = "free"

StartAllowed == ~stopped /\ loopDone = NoLoop
Start ==
    /\ ~booted /\ Free /\ booted' = TRUE
    /\ IF StartAllowed /\ enabled /\ urls
          THEN UNCHANGED <<gen, enabled>> /\ \E l \in Loops : Spawn(l)
          ELSE UNCHANGED <<gen, enabled, loops, loopDone>>
    /\ UNCHANGED <<urls, stopped, canceled, manual, counted, lastError, holder, clients, jobs, history>>

\* stopLoopLocked cancels the current context and waits for its goroutine.
Begin(label, c) ==
    /\ Free
    /\ op' = label /\ opOf' = c
    /\ canceled' = canceled \cup {gen}
    /\ UNCHANGED <<gen, manual>>

Release == op' = "free" /\ opOf' = NoCaller

DrainedAtOnce == TRUE
Drained == \A l \in Loops : l = loopDone => loop[l] = "none"

BeginStop ==
    /\ ~stopped /\ stopped' = TRUE
    /\ Begin("stop", NoCaller)
    /\ UNCHANGED <<config, loopDone, counted, lastError, loops, clients, jobs, history>>

EndStop ==
    /\ op = "stop" /\ Drained
    /\ Release /\ loopDone' = NoLoop
    /\ UNCHANGED <<config, stopped, ctx, counted, lastError, loops, clients, jobs, history>>

MayReconfigure == ~stopped

\* updateConfig; after Stop it only hands out the cancelled context.
BeginUpdate(c) ==
    /\ caller[c] = "out" /\ gen < MaxGen
    /\ IF MayReconfigure
          THEN /\ Begin("update", c)
               /\ caller' = [caller EXCEPT ![c] = "update"] /\ UNCHANGED waitsOn
          ELSE /\ Free /\ UNCHANGED <<holder, ctx>>
               /\ caller' = [caller EXCEPT ![c] = "update wait"]
               /\ waitsOn' = [waitsOn EXCEPT ![c] = gen]
    /\ counted' = counted \ {c}
    /\ UNCHANGED <<config, stopped, loopDone, lastError, loops, jobs, history>>

BeginRestore ==
    /\ gen < MaxGen /\ MayReconfigure
    /\ Begin("restore", NoCaller)
    /\ UNCHANGED <<config, stopped, loopDone, counted, lastError, loops, clients, jobs, history>>

NewContext == gen' = gen + 1 /\ manual' = FALSE /\ UNCHANGED canceled

\* The context, the channel and startCount are new once the old loop is gone.
Recount(c) == counted \ {c}
Renew(c) ==
    /\ op = "update" /\ opOf = c /\ Drained
    /\ op' = "renewed" /\ loopDone' = NoLoop /\ NewContext
    /\ enabled' \in BOOLEAN /\ urls' \in BOOLEAN
    /\ waitsOn' = [waitsOn EXCEPT ![c] = gen']
    /\ counted' = Recount(c)
    /\ UNCHANGED <<booted, stopped, lastError, loops, opOf, caller, jobs, history>>

Dismiss(c) == caller' = [caller EXCEPT ![c] = "out"] /\ waitsOn' = [waitsOn EXCEPT ![c] = 0]

\* The loop is started and asked to refresh at once; UpdateConfig returns here,
\* UpdateConfigAndRefresh goes on to wait.
Serve(c) ==
    /\ op = "renewed" /\ opOf = c
    /\ Release /\ UNCHANGED <<gen, enabled>>
    /\ IF urls
          THEN /\ \E l \in Loops : Spawn(l)
               /\ manual' = TRUE
               /\ \/ caller' = [caller EXCEPT ![c] = "update wait"] /\ UNCHANGED waitsOn
                  \/ Dismiss(c)
          ELSE UNCHANGED <<loops, loopDone, manual>> /\ Dismiss(c)
    /\ UNCHANGED <<urls, booted, stopped, canceled, counted, lastError, jobs, history>>

\* ApplyRestoredConfig starts the loop without asking it to refresh.
Restore ==
    /\ op = "restore" /\ Drained
    /\ Release /\ NewContext
    /\ enabled' \in BOOLEAN /\ urls' \in BOOLEAN
    /\ IF urls' THEN \E l \in Loops : Spawn(l) ELSE UNCHANGED loops /\ loopDone' = NoLoop
    /\ UNCHANGED <<booted, stopped, counted, lastError, clients, jobs, history>>

-----------------------------------------------------------------------------
(* RefreshNow, and the callers that poll.                                  *)

\* The context, the channel and the count are read first.
Request(c) ==
    /\ caller[c] = "out"
    /\ caller' = [caller EXCEPT ![c] = "ask"]
    /\ waitsOn' = [waitsOn EXCEPT ![c] = gen]
    /\ counted' = counted \ {c}
    /\ UNCHANGED <<config, stopped, loopDone, ctx, lastError, loops, holder, jobs, history>>

\* A call returns; what it read is forgotten.
Return(c, label) ==
    /\ caller' = [caller EXCEPT ![c] = label]
    /\ waitsOn' = IF label = "out" THEN [waitsOn EXCEPT ![c] = 0] ELSE waitsOn
    /\ counted' = counted \ {c}
    /\ UNCHANGED <<config, stopped, loopDone, ctx, lastError, loops, holder, jobs, history>>

Refused(c) == caller[c] = "ask" /\ Done(waitsOn[c]) /\ Return(c, "out")

\* The request is put in the channel, unless one is there already; nobody reads
\* the channel of an earlier generation.
Ask(c) ==
    /\ caller[c] = "ask"
    /\ caller' = [caller EXCEPT ![c] = "wait"]
    /\ manual' = (manual \/ waitsOn[c] = gen)
    /\ UNCHANGED <<config, stopped, loopDone, gen, canceled, counted, lastError, loops, holder, waitsOn, jobs, history>>

\* The deadline, or the end of the context.
Waiting(c) == caller[c] \in {"wait", "update wait"}
GiveUp(c) == Waiting(c) /\ Return(c, "out")

AnsweredAnyhow(c) ==
    Waiting(c) /\ c \in counted /\ Return(c, IF caller[c] = "update wait" THEN "update ok" ELSE "out")

\* The poll that sees RefreshCount > startCount.
Answered(c) ==
    /\ Waiting(c) /\ c \in counted
    /\ Return(c, IF caller[c] = "update wait" /\ ~lastError THEN "update ok" ELSE "out")

Leave(c) == caller[c] = "update ok" /\ Return(c, "out")

CallerStep(c) ==
    \/ BeginUpdate(c) \/ Renew(c) \/ Serve(c) \/ Request(c) \/ Refused(c) \/ Ask(c)
    \/ GiveUp(c) \/ Answered(c) \/ Leave(c)

Next ==
    \/ \E l \in Loops : LoopStep(l)
    \/ \E c \in Callers : CallerStep(c)
    \/ JobEnds \/ JobStarts
    \/ Start \/ BeginStop \/ EndStop \/ BeginRestore \/ Restore

Spec == Init /\ [][Next]_vars

\* select picks at random among the branches that are ready, so a branch that is
\* ready again and again is taken; a fetch has a timeout, the importer's job none
\* that the manager could count on.  lifecycleMu is handed to its waiters in turn.
LoopFairness(l) ==
    /\ SF_vars(LoopEnds(l)) /\ SF_vars(TakeRequest(l))
    /\ WF_vars(SkipRefresh(l) \/ StartManaged(l) \/ StartFetch(l))
    /\ WF_vars(JobEnded(l) \/ JobAbandoned(l))
    /\ WF_vars(Fetched(l) \/ FetchAborted(l)) /\ WF_vars(Finish(l))

FairSpec ==
    /\ Spec
    /\ \A l \in Loops : LoopFairness(l)
    /\ \A c \in Callers : WF_vars(Renew(c) \/ Serve(c))
    /\ WF_vars(EndStop) /\ WF_vars(Restore)

-----------------------------------------------------------------------------
(* Properties.                                                             *)

FlagsOK ==
    /\ enabled \in BOOLEAN /\ urls \in BOOLEAN /\ booted \in BOOLEAN /\ stopped \in BOOLEAN
    /\ manual \in BOOLEAN /\ lastError \in BOOLEAN /\ active \in BOOLEAN
    /\ auto \in [Loops -> BOOLEAN]

PlacesOK ==
    /\ loopDone \in Loops \cup {NoLoop} /\ counted \subseteq Callers
    /\ loop \in [Loops -> {"none", "select", "refresh", "managed", "fetch", "finish"}]
    /\ op \in {"free", "stop", "update", "renewed", "restore"}
    /\ opOf \in Callers \cup {NoCaller}
    /\ caller \in [Callers -> {"out", "update", "ask", "wait", "update wait", "update ok"}]
    /\ \A c \in Callers : opOf = c <=> caller[c] = "update"
    /\ polled \in {"none", "running", "finished", "failed"}

GenerationsOK ==
    /\ gen \in 0..MaxGen /\ canceled \subseteq 0..gen
    /\ runsOn \in [Loops -> 0..gen] /\ waitsOn \in [Callers -> 0..gen]
    /\ attempted \in 0..gen /\ applied \in 0..gen

TypeOK == FlagsOK /\ PlacesOK /\ GenerationsOK

\* At most one goroutine exists, it is the one stopLoopLocked would wait for and
\* it runs with the settings of now; with lifecycleMu free it is not cancelled,
\* so no reconfiguration leaves behind a loop or a dead one in its place.
LoopIsCurrent ==
    \A l \in Loops : loop[l] # "none" =>
        /\ l = loopDone /\ runsOn[l] = gen
        /\ op \in {"free", "renewed"} => gen \notin canceled

\* Once Stop has returned nothing refreshes, and no update or restore that was
\* waiting for lifecycleMu brings a loop back.
StoppedIsQuiet == stopped /\ op # "stop" => \A l \in Loops : loop[l] = "none"

\* The loop is always the one that the current settings and Stop allow.
LoopIsOwned == LoopIsCurrent /\ StoppedIsQuiet

\* A caller of UpdateConfigAndRefresh is answered for a refresh of its own
\* generation: the end of the refresh that its update interrupted is not counted.
GenerationIsCounted ==
    \A c \in Callers : caller[c] = "update ok" => attempted >= waitsOn[c]

\* A caller of UpdateConfigAndRefresh is told that its update took effect
\* (manager.go:242) only when a refresh of its generation has ended well, not when
\* one has failed, was skipped or was an earlier one's; unless its generation is
\* over, when an aborted fetch leaves the error of before.
SuccessIsReal ==
    \A c \in Callers :
        caller[c] = "update ok" /\ ~Done(waitsOn[c]) => applied >= waitsOn[c]

\* An update with subscriptions is followed by a refresh even if the periodic
\* refresh is off, unless it is replaced first or waits on a job of the importer.
UpdateIsRefreshed ==
    \A g \in 1..MaxGen :
        op = "renewed" /\ gen = g /\ urls ~>
            attempted >= g \/ g \in canceled \/ \E l \in Loops : loop[l] = "managed"

\* Stop, an update and a restore get past the refresh that runs, whether or not
\* the importer's job it polls ever ends.
LifecycleIsReleased == op # "free" ~> op = "free"

\* While there is a loop a manual request is taken, whatever the enabled flag
\* (manager.go:363), unless its generation ends first or a job holds the loop up.
\* Without a loop (auto-refresh was off at Start) nobody takes it.
RequestsAreTaken ==
    \A g \in 0..MaxGen :
        manual /\ gen = g /\ (\E l \in Loops : loop[l] # "none") ~>
            ~manual \/ g \in canceled \/ \E l \in Loops : loop[l] = "managed"

\* What is asked for, by an update or by hand, is begun.
RefreshesBegin == UpdateIsRefreshed /\ RequestsAreTaken
=============================================================================
