----------------------------- MODULE BoxManager -----------------------------
(***************************************************************************)
(* The life of the sing-box instance: boxmgr/manager.go starts it, applies *)
(* configurations to it, rolls back when that fails, and closes it.        *)
(*                                                                         *)
(* reloadMu lets one operation run at a time, so a single pc stands for    *)
(* the operation that holds it; between two of its steps the WebUI may     *)
(* save settings and CloseContext may announce the shutdown.               *)
(*                                                                         *)
(* A configuration is its nodes, the ports they have (as the sequential    *)
(* rebuild gives them, or moved away from a conflict) and the setting that *)
(* the WebUI edits and the runtime depends on most: pool mode without or   *)
(* with GeoIP routing, or multi-port mode.  The file is the pair of what   *)
(* Save and SaveSettings write.  Building and starting an instance, and    *)
(* writing a file, may fail; closing an instance does not.                 *)
(* A program that has nodes begins with Start, and ends when that fails;   *)
(* the requests of the WebUI come after it.                                *)
(***************************************************************************)
EXTENDS Naturals, FiniteSets

CONSTANTS
    NodeSets,   \* the sets of nodes a configuration can have
    NoCfg       \* no configuration, no instance

ASSUME NodeSetsAssumption ==
    /\ \A ns \in NodeSets : IsFiniteSet(ns)
    /\ {} \in NodeSets

Modes == {"pool", "geo", "multi"}
Configs == [nodes : NodeSets, ports : {"packed", "moved"}, mode : Modes]
ASSUME NoCfgAssumption == NoCfg \notin Configs

VARIABLES
    cfg,         \* Manager.cfg
    runtimeCfg,  \* Manager.runtimeCfg
    index,       \* Manager.portIndex: the nodes and ports it was stored from
    file,        \* the configuration on disk
    synced,      \* whether the WebUI edits the object Manager.cfg points to
    box,         \* the configuration of Manager.currentBox
    live,        \* instances that are started and not closed
    built,       \* the configuration of the instance that is being created
    torn,        \* history: a setting was saved while an instance started from it
    router,      \* Manager.geoRouter
    monitored,   \* nodes registered in the monitor
    health,      \* whether the periodic health check runs
    closing,     \* Manager.closing
    done,        \* whether closeDone is closed
    pc,          \* where the operation that holds reloadMu is
    new,         \* the configuration it applies to a running instance
    old,         \* the configuration it returns to; NoCfg during a start
    tries,       \* its attempts to start an instance
    putback,     \* what Restore found on disk and puts back if the runtime fails
    unsaved      \* history: the last rollback left another configuration on disk

cfgVars  == <<cfg, runtimeCfg, index, synced>>
fileVars == <<file, unsaved>>
boxVars  == <<box, live, built, torn>>
auxVars  == <<router, monitored, health>>
endVars  == <<closing, done>>
opVars   == <<new, old, tries, putback>>
vars     == <<cfgVars, fileVars, boxVars, auxVars, endVars, opVars, pc>>

Init ==
    /\ cfg \in [nodes : NodeSets, ports : {"packed"}, mode : Modes]
    /\ runtimeCfg = NoCfg
    /\ index = cfg
    /\ file = cfg
    /\ synced = TRUE
    /\ box = NoCfg /\ live = 0 /\ built = NoCfg /\ torn = FALSE
    /\ router = "off" /\ monitored = {} /\ health = FALSE
    /\ closing = FALSE /\ done = FALSE
    /\ pc = IF cfg.nodes = {} THEN "idle" ELSE "start"
    /\ new = NoCfg /\ old = NoCfg /\ tries = 0
    /\ putback = NoCfg /\ unsaved = FALSE

Multi(c) == c.mode = "multi"

\* What startLocked and reloadLocked are about to run.
Applied == IF old = NoCfg THEN cfg ELSE new

NotRetried == FALSE
Retried == Applied.ports = "moved" /\ tries > 0

\* Config.Save writes the nodes, Config.SaveSettings the settings.
Save(c) == file' = [c EXCEPT !.mode = file.mode] /\ unsaved' = FALSE

\* The operation goes on, or returns and unlocks reloadMu; Restore then goes
\* on with an error.
Goto(label) == pc' = label
Clear(next) == Goto(next) /\ new' = NoCfg /\ old' = NoCfg /\ tries' = 0
Return == Clear("idle") /\ putback' = NoCfg
Abort == Clear(IF putback = NoCfg THEN "idle" ELSE "putback") /\ UNCHANGED putback

\* The instances left when the current one, if any, is closed.
LeftOpen == live
Closed == IF box = NoCfg THEN live ELSE live - 1

\* configureHealthChecks
HealthAtStart == IF old = NoCfg THEN ~Multi(Applied) ELSE health
HealthAfter == ~Multi(Applied)

\* rebuildMultiPortAssignments
Rebuilt(c) == IF Multi(c) THEN [c EXCEPT !.ports = "packed"] ELSE c

\* New pool outbounds register their members.
Registered(c) == IF Multi(c) THEN monitored ELSE monitored \cup c.nodes

-----------------------------------------------------------------------------
(* The operations that take reloadMu.                                      *)

\* CreateNodes, UpdateNodes, DeleteNodes, ReorderNodes: kept only if saved.
Edit(ns) ==
    /\ pc = "idle"
    /\ cfg' = [cfg EXCEPT !.nodes = ns]
    /\ Save(cfg')
    /\ UNCHANGED <<runtimeCfg, index, synced, boxVars, auxVars, endVars, opVars, pc>>

\* canReconcileMultiPort
Reconcilable == runtimeCfg # NoCfg /\ Multi(runtimeCfg) /\ Multi(cfg)

\* TriggerReload on an instance that runs, or on an empty configuration.
TriggerReload ==
    /\ pc = "idle" /\ ~closing
    /\ cfg.nodes = {} \/ box # NoCfg
    /\ new' = cfg
    /\ Goto(IF cfg.nodes = {} THEN "empty" ELSE IF Reconcilable THEN "reconcile" ELSE "reload")
    /\ UNCHANGED <<cfgVars, fileVars, boxVars, auxVars, endVars, old, tries, putback>>

\* TriggerReload when nothing runs: a copy of the configuration is started.
TriggerStart ==
    /\ pc = "idle" /\ ~closing
    /\ cfg.nodes # {} /\ box = NoCfg
    /\ cfg' = Rebuilt(cfg)
    /\ IF Multi(cfg) THEN Save(cfg') ELSE UNCHANGED fileVars
    /\ synced' = FALSE
    /\ Goto("start")
    /\ UNCHANGED <<runtimeCfg, index, boxVars, auxVars, endVars, opVars>>

\* Service.Restore writes the file and calls ApplyRestoredConfig ...
ApplyRestoredConfig(c) ==
    /\ pc = "idle" /\ ~closing
    /\ file' = c /\ unsaved' = FALSE /\ putback' = file
    /\ IF c.nodes # {} /\ box = NoCfg
       THEN cfg' = c /\ synced' = FALSE /\ Goto("start") /\ UNCHANGED new
       ELSE new' = c /\ Goto(IF c.nodes = {} THEN "empty" ELSE "reload") /\ UNCHANGED <<cfg, synced>>
    /\ UNCHANGED <<runtimeCfg, index, boxVars, auxVars, endVars, old, tries>>

\* ... and writes the old file again when that fails, rolled back or not.
PutBack ==
    /\ pc = "putback"
    /\ file' \in {file, putback}
    /\ unsaved' = TRUE
    /\ Return
    /\ UNCHANGED <<cfgVars, boxVars, auxVars, endVars>>

-----------------------------------------------------------------------------
(* startLocked                                                             *)

BeginStart ==
    /\ pc = "start"
    /\ IF closing \/ box # NoCfg
       THEN Abort /\ UNCHANGED index
       ELSE /\ index' = cfg
            /\ IF cfg.nodes = {} THEN new' = cfg /\ Goto("empty") ELSE Goto("create") /\ UNCHANGED new
            /\ UNCHANGED <<old, tries, putback>>
    /\ UNCHANGED <<cfg, runtimeCfg, synced, fileVars, boxVars, auxVars, endVars>>

\* An operation that failed: a reload rolls back, a start returns, and Run
\* closes the manager when it was the first.
Booting == old = NoCfg /\ synced
FailRetries ==
    /\ Goto("create") /\ tries' = 0
    /\ UNCHANGED <<new, old, putback, endVars>>
Fail ==
    /\ closing' = (closing \/ Booting)
    /\ UNCHANGED done
    /\ IF old = NoCfg THEN Abort ELSE Goto("rollback") /\ UNCHANGED opVars

\* createBox or instance.Start fails, before or after the pools registered.
CreateFails ==
    /\ pc = "create"
    /\ monitored' \in {monitored, Registered(Applied)}
    /\ Fail
    /\ UNCHANGED <<cfgVars, fileVars, boxVars, router, health>>

MayRetry == tries < Cardinality(Applied.nodes)

\* A port is in use: its node gets another one and the start is retried.
CreateConflicts ==
    /\ pc = "create" /\ Multi(Applied)
    /\ MayRetry
    /\ tries' = tries + 1
    /\ IF old = NoCfg
       THEN cfg' = [cfg EXCEPT !.ports = "moved"] /\ UNCHANGED new
       ELSE new' = [new EXCEPT !.ports = "moved"] /\ UNCHANGED cfg
    /\ UNCHANGED <<runtimeCfg, index, synced, fileVars, boxVars, auxVars, endVars, old, putback, pc>>

CreateSucceeds ==
    /\ pc = "create"
    /\ live' = live + 1 /\ built' = Applied
    /\ torn' = (torn /\ old # NoCfg)
    /\ monitored' = Registered(Applied)
    /\ Goto(IF Retried THEN "save" ELSE "publish")
    /\ UNCHANGED <<cfgVars, fileVars, box, router, health, endVars, opVars>>

\* The ports that were moved are saved before the instance is published.
SavePorts ==
    /\ pc = "save"
    /\ Save(Applied)
    /\ Goto("publish")
    /\ UNCHANGED <<cfgVars, boxVars, auxVars, endVars, opVars>>

SavePortsFails ==
    /\ pc = "save"
    /\ live' = live - 1 /\ built' = NoCfg
    /\ Fail
    /\ UNCHANGED <<cfgVars, fileVars, box, torn, auxVars>>

\* The instance becomes the current one, unless the manager is closing.
Refused == closing

IndexBeforeStart == index
IndexAfterStart == cfg

Publish ==
    /\ pc = "publish"
    /\ index' = IF old = NoCfg THEN IndexAfterStart ELSE new
    /\ built' = NoCfg
    /\ IF Refused
       THEN live' = live - 1 /\ Abort /\ UNCHANGED <<cfg, runtimeCfg, synced, box>>
       ELSE /\ box' = built
            /\ runtimeCfg' = Applied
            /\ cfg' = Applied
            /\ synced' = (synced /\ old = NoCfg)
            /\ Goto("settle")
            /\ UNCHANGED <<live, opVars>>
    /\ UNCHANGED <<fileVars, torn, auxVars, endVars>>

\* SetConfig after a reload, configureHealthChecks, and the GeoIP router.
Settle ==
    /\ pc = "settle"
    /\ synced' = (synced \/ old # NoCfg)
    /\ health' = HealthAfter
    /\ torn' = (torn /\ old = NoCfg)
    /\ IF Applied.mode = "geo"
       THEN Goto("router") /\ UNCHANGED <<router, opVars>>
       ELSE Return /\ router' = IF old = NoCfg THEN router ELSE "off"
    /\ UNCHANGED <<cfg, runtimeCfg, index, fileVars, box, live, built, monitored, endVars>>

\* startGeoIPRouter, up to router.Start ...
StartRouter ==
    /\ pc = "router"
    /\ \/ closing /\ router' = "off" /\ Return
       \/ ~closing /\ router' = "failed" /\ Return
       \/ ~closing /\ router' = "off" /\ Goto("serve") /\ UNCHANGED opVars
    /\ UNCHANGED <<cfgVars, fileVars, boxVars, monitored, health, endVars>>

\* ... and the publication of the router.
PublishRouter ==
    /\ pc = "serve"
    /\ router' = IF closing THEN "off" ELSE "up"
    /\ Return
    /\ UNCHANGED <<cfgVars, fileVars, boxVars, monitored, health, endVars>>

-----------------------------------------------------------------------------
(* reloadLocked and rollbackToOldConfig                                    *)

BeginReload ==
    /\ pc = "reload"
    /\ IF closing \/ box = NoCfg
       THEN Abort /\ UNCHANGED box
       ELSE old' = runtimeCfg /\ box' = NoCfg /\ Goto("stop") /\ UNCHANGED <<new, tries, putback>>
    /\ UNCHANGED <<cfgVars, fileVars, live, built, torn, auxVars, endVars>>

\* The old instance and the router stop before the new ports are saved.
RouterStopped == "off"

Stop ==
    /\ pc = "stop"
    /\ live' = live - 1
    /\ router' = RouterStopped
    /\ new' = Rebuilt(new)
    /\ \/ Save(new') /\ monitored' = {} /\ Goto("create")
       \/ Goto("rollback") /\ UNCHANGED <<fileVars, monitored>>
    /\ UNCHANGED <<cfgVars, box, built, torn, health, endVars, old, tries, putback>>

Rollback ==
    /\ pc = "rollback"
    /\ IF closing
       THEN Abort /\ UNCHANGED fileVars
       ELSE /\ Goto("restart")
            /\ Save(old) \/ (unsaved' = TRUE /\ UNCHANGED file)
            /\ UNCHANGED opVars
    /\ UNCHANGED <<cfgVars, boxVars, auxVars, endVars>>

RestartFails ==
    /\ pc = "restart"
    /\ monitored' \in {monitored, Registered(old)}
    /\ Abort
    /\ UNCHANGED <<cfgVars, fileVars, boxVars, router, health, endVars>>

RestartSucceeds ==
    /\ pc = "restart"
    /\ live' = live + 1 /\ built' = old
    /\ monitored' = Registered(old)
    /\ Goto("republish")
    /\ UNCHANGED <<cfgVars, fileVars, box, torn, router, health, endVars, opVars>>

Republish ==
    /\ pc = "republish"
    /\ built' = NoCfg
    /\ IF Refused
       THEN live' = live - 1 /\ UNCHANGED <<cfgVars, box>>
       ELSE /\ box' = built
            /\ cfg' = old /\ runtimeCfg' = old /\ index' = old
            /\ synced' = TRUE
            /\ UNCHANGED live
    /\ Abort
    /\ UNCHANGED <<fileVars, torn, auxVars, endVars>>

-----------------------------------------------------------------------------
(* reconcileMultiPort and enterEmptyRuntime                                *)

\* The instance is changed in place, through its dispatcher.
ReconcileSucceeds ==
    /\ pc = "reconcile" /\ Multi(box)
    /\ box' = new /\ cfg' = new /\ runtimeCfg' = new /\ index' = new
    /\ synced' = TRUE
    /\ Return
    /\ UNCHANGED <<fileVars, live, built, torn, auxVars, endVars>>

\* It may be changed in part only: it is replaced.
ReconcileFails ==
    /\ pc = "reconcile"
    /\ Goto("reload")
    /\ UNCHANGED <<cfgVars, fileVars, boxVars, auxVars, endVars, opVars>>

EnterEmptyRuntime ==
    /\ pc = "empty"
    /\ live' = Closed
    /\ box' = NoCfg /\ torn' = FALSE
    /\ cfg' = new /\ runtimeCfg' = new /\ index' = new
    /\ synced' = TRUE
    /\ router' = RouterStopped /\ monitored' = {} /\ health' = FALSE
    /\ Return
    /\ UNCHANGED <<fileVars, built, endVars>>

-----------------------------------------------------------------------------
(* The WebUI and the shutdown.                                             *)

\* Server.updateSettings changes the object it was given and saves it; a start
\* may be building from that object.
UpdateSettings(mode) ==
    /\ ~done
    /\ cfg' = IF synced THEN [cfg EXCEPT !.mode = mode] ELSE cfg
    /\ file' = [file EXCEPT !.mode = mode]
    /\ torn' = (torn \/ (synced /\ old = NoCfg /\ pc \in {"save", "publish", "settle"}))
    /\ UNCHANGED <<runtimeCfg, index, synced, unsaved, box, live, built, auxVars, endVars, opVars, pc>>

CloseContext ==
    /\ ~closing
    /\ closing' = TRUE
    /\ UNCHANGED <<cfgVars, fileVars, boxVars, auxVars, done, opVars, pc>>

ShutdownAtOnce == TRUE
ShutdownAllowed == pc \in {"idle", "putback"}

Shutdown ==
    /\ closing /\ ~done
    /\ ShutdownAllowed
    /\ live' = Closed
    /\ box' = NoCfg
    /\ router' = "off" /\ health' = FALSE
    /\ done' = TRUE
    /\ UNCHANGED <<cfgVars, fileVars, built, torn, monitored, closing, opVars, pc>>

-----------------------------------------------------------------------------
\* The steps of the operation that holds reloadMu.
Work ==
    \/ BeginStart \/ CreateFails \/ CreateConflicts \/ CreateSucceeds
    \/ SavePorts \/ SavePortsFails \/ Publish \/ Settle \/ StartRouter \/ PublishRouter
    \/ BeginReload \/ Stop \/ Rollback \/ RestartFails \/ RestartSucceeds \/ Republish
    \/ ReconcileSucceeds \/ ReconcileFails \/ EnterEmptyRuntime \/ PutBack

Next ==
    \/ TriggerReload \/ TriggerStart
    \/ \E ns \in NodeSets : Edit(ns)
    \/ \E c \in Configs : ApplyRestoredConfig(c)
    \/ Work
    \/ \E mode \in Modes : UpdateSettings(mode)
    \/ CloseContext \/ Shutdown

Spec == Init /\ [][Next]_vars

(* An operation goes on, and shutdown takes reloadMu when it is free.      *)
FairSpec == Spec /\ WF_vars(Work) /\ WF_vars(Shutdown)

-----------------------------------------------------------------------------
(* Properties.                                                             *)

\* Types, and what each step of an operation has at hand.
TypeOK ==
    /\ cfg \in Configs /\ index \in Configs /\ file \in Configs
    /\ runtimeCfg \in Configs \cup {NoCfg}
    /\ box \in Configs \cup {NoCfg} /\ built \in Configs \cup {NoCfg}
    /\ new \in Configs \cup {NoCfg}
    /\ old \in Configs \cup {NoCfg} /\ putback \in Configs \cup {NoCfg}
    /\ live \in Nat /\ tries \in Nat
    /\ router \in {"off", "up", "failed"}
    /\ monitored \subseteq UNION NodeSets
    /\ torn \in BOOLEAN /\ synced \in BOOLEAN /\ health \in BOOLEAN /\ unsaved \in BOOLEAN
    /\ closing \in BOOLEAN /\ done \in BOOLEAN
    /\ pc \in {"idle", "start", "create", "save", "publish", "settle", "router", "serve",
               "reload", "stop", "rollback", "restart", "republish", "reconcile", "empty",
               "putback"}

\* Nobody is between two steps of an operation.
AtRest == pc = "idle"
Running == AtRest /\ box # NoCfg

(* Two instances never run at the same time, so they cannot fight for the  *)
(* ports, whatever fails in between; and at rest every instance that runs  *)
(* is the one the manager knows: none leaks on an error path.              *)
OneInstance ==
    /\ live <= 1
    /\ AtRest => live = IF box = NoCfg THEN 0 ELSE 1

(* When CloseContext reports the end nothing is left, and nothing comes    *)
(* back: no operation that was waiting or half done publishes afterwards.  *)
ClosedIsQuiet ==
    done => box = NoCfg /\ live = 0 /\ router # "up" /\ ~health

(* The configuration and the port index that are published are those of    *)
(* the instance that runs, after a rollback and a moved port, too.         *)
RuntimeIsPublished ==
    Running => /\ runtimeCfg.nodes = box.nodes /\ runtimeCfg.ports = box.ports
               /\ index.nodes = box.nodes /\ index.ports = box.ports

(* "The saved runtime configuration remains aligned with the active        *)
(* listeners" (release-notes/v2.4.1.md): the nodes and ports on disk are   *)
(* those in memory while an instance runs, unless the last rollback could  *)
(* not write the file.                                                     *)
PortsArePersisted ==
    Running /\ Multi(box) /\ ~unsaved => file.nodes = cfg.nodes /\ file.ports = cfg.ports

(* The GeoIP router forwards to the pools of the instance that runs: none  *)
(* survives the instance it was started for.                               *)
RouterHasPools ==
    AtRest /\ router = "up" => box # NoCfg

(* The instance that runs is checked periodically unless it is in          *)
(* multi-port mode, after every start, change of mode and rollback; only a *)
(* setting saved in the middle of a start is excepted.                     *)
HealthIsChecked == Running /\ ~torn => (health <=> ~Multi(box))

(* Shutdown completes: no operation keeps reloadMu for ever.               *)
CloseCompletes == closing ~> done

(* Every node of the instance that runs is listed in the monitor, where it *)
(* can be probed and banned: no clearing comes after its registration.     *)
RunningIsMonitored == Running /\ ~Multi(box) => box.nodes \subseteq monitored

(* What accompanies an instance follows it through every reload, rollback  *)
(* and change of mode: its router, its health checks, its monitor entries. *)
ServicesFollow == RouterHasPools /\ HealthIsChecked /\ RunningIsMonitored
=============================================================================
