---------------------------- MODULE ConfigFiles ----------------------------
(***************************************************************************)
(* config.yaml and nodes.txt: who writes them and when, what a start makes *)
(* of them and of the pool in the importer's store, and how a backup is    *)
(* restored over all three.                                                *)
(*                                                                         *)
(* Three kinds of writers run beside each other, each under a lock of its  *)
(* own: the box manager (reloadMu), the settings pages of the WebUI        *)
(* (cfgMu) and the backup service (its mu).  A save reads config.yaml,     *)
(* replaces its own part and writes the whole; a write is a temporary file *)
(* and a rename or, where renames are refused (a file that is mounted by   *)
(* itself), truncation and writing in place.  Writes may fail and the      *)
(* program may end at any step.                                            *)
(*                                                                         *)
(* A route is a URI with the chain it goes through; nodes.txt keeps the    *)
(* URI alone.  Settings are those the WebUI edits (ui), the WebDAV account *)
(* that the backup service edits (dav) and whether there are subscriptions *)
(* (subs); ui and dav are numbers that stand for their values.             *)
(***************************************************************************)
EXTENDS PortAssign

CONSTANTS
    Routes,      \* what nodes connect to
    Bare,        \* the route that is left of each in nodes.txt
    Short,       \* content of a file that was cut off
    Mixed,       \* content of a file that two writers have written over
    None,        \* no file, no configuration, no archive, no lock holder
    Beginnings,  \* bound: files, store and host at the beginning
    TakenSets,   \* bound: ports that other programs may hold
    MaxOps,      \* bound: operations of a behaviour
    MaxFaults,   \* bound: writes and starts that fail
    MaxRuns      \* bound: starts of the program

Settings == [ui : Nat, dav : Nat, subs : BOOLEAN]
Members  == [route : Routes, port : 0 .. LastPort]
Nodes    == [route : Routes, port : 0 .. LastPort, src : {"inline", "file"}]
Configs  == [settings : Settings, nodesFile : BOOLEAN, nodes : Seq(Nodes)]
Contents == [settings : Settings, nodes : Seq(Members)]
URIs == {Bare[r] : r \in Routes}

ASSUME BareAssumption == Bare \in [Routes -> Routes] /\ \A r \in Routes : Bare[Bare[r]] = Bare[r]
\* The marks are none of the things they stand beside.
ASSUME MarksAssumption ==
    /\ Short # Mixed /\ None \notin {Short, Mixed, "manager", "web", "backup"}
    /\ \A mark \in {Short, Mixed, None} : mark \notin Contents /\ mark \notin Seq(Routes) /\ mark \notin Configs
ASSUME BeginningsAssumption ==
    \A d \in Beginnings : /\ d.yaml \in Contents /\ (d.txt = None \/ d.txt \in Seq(URIs))
                          /\ d.pool \in Seq(Members) /\ d.refuses \in BOOLEAN

Threads == {"manager", "web", "backup"}

VARIABLES
    yaml, txt, pool, \* the files, and the pool of the store in its order
    refuses, taken,  \* whether renames fail, the ports of other programs
    stage,           \* of the program: off, loaded, packing, syncing, serving
    mem,             \* Manager.cfg
    web, synced,     \* the settings of Server.cfgSrc; whether it is the same object
    ran,             \* Manager.runtimeCfg, None when nothing runs
    dav, archive,    \* the backup service's own WebDAV account; a backup
    job,             \* the save each thread is in
    op,              \* the operation each thread is in, and where
    undo,            \* what the operation of the manager puts back
    rs,              \* what the restore remembers
    reloadMu,        \* the thread that holds it
    target,          \* the configuration that is being applied
    disturbed,      \* history: two writers at config.yaml at once, or it began cut off
    cut,             \* history: an in-place write was cut off
    putBack,         \* history: a failed restore has put config.yaml back
    before,          \* history: file and pool when the restore began
    outcome,         \* history: how the last restore ended
    ops, faults, runs

disk   == <<yaml, txt, pool>>
world  == <<refuses, taken>>
conf   == <<mem, web, synced, ran>>
bk     == <<dav, archive, rs>>
mgr    == <<undo, reloadMu, target>>
hist   == <<disturbed, cut, putBack, before, outcome>>
bounds == <<ops, faults, runs>>
vars   == <<disk, world, stage, conf, bk, mgr, job, op, hist, bounds>>

Whole(content) == content \notin {Short, Mixed, None}
NoSettings == [ui |-> 0, dav |-> 0, subs |-> FALSE]
\* What is left of a file that was cut off parses as a file without entries.
Blank == [settings |-> NoSettings, nodes |-> <<>>]

Routed(nodes) == {nodes[i].route : i \in DOMAIN nodes}
\* The last entry of a route counts, as in a map that is filled from a list.
PortOn(nodes, r) == nodes[Max({j \in DOMAIN nodes : nodes[j].route = r})].port
\* The nodes at some positions, in their order.
Chosen(nodes, I) == [k \in 1 .. Cardinality(I) |-> nodes[Nth(I, k)]]
Where(nodes, R) == Chosen(nodes, {i \in DOMAIN nodes : nodes[i].route \in R})
From(nodes, src) == Chosen(nodes, {i \in DOMAIN nodes : nodes[i].src = src})
Node(r, port, src) == [route |-> r, port |-> port, src |-> src]
Mapped(nodes, Image(_)) == [i \in DOMAIN nodes |-> Image(nodes[i])]

Idle  == [at |-> "none", files |-> <<>>, part |-> "none", content |-> None, data |-> None]
NoOp  == [name |-> "none", pc |-> "none", arg |-> None]
NoRestore == [cfg |-> None, file |-> None, pool |-> None]
Free(t) == op[t] = NoOp
Step(t, name, pc) == op[t].name = name /\ op[t].pc = pc
Goto(t, pc) == op' = [op EXCEPT ![t].pc = pc]
Return(t)   == op' = [op EXCEPT ![t] = NoOp]
Saved(t)    == job[t].at = "done"
Unsaved(t)  == job[t].at = "failed"
Faulty      == faults < MaxFaults /\ faults' = faults + 1

Init ==
    /\ \E d \in Beginnings : /\ yaml = d.yaml /\ txt = d.txt /\ pool = d.pool
                        /\ refuses = d.refuses /\ taken = d.taken
    /\ stage = "off"
    /\ mem = None /\ web = NoSettings /\ synced = TRUE /\ ran = None
    /\ dav = 0 /\ archive = None /\ rs = NoRestore
    /\ job = [t \in Threads |-> Idle] /\ op = [t \in Threads |-> NoOp]
    /\ undo = <<>> /\ reloadMu = None /\ target = None
    /\ disturbed = FALSE /\ cut = FALSE /\ putBack = FALSE /\ before = None /\ outcome = "none"
    /\ ops = 0 /\ faults = 0 /\ runs = 0

-----------------------------------------------------------------------------
(* Saving.  An operator just before a definition, named after it, is the   *)
(* definition with a plausible slip; PROJECT.json says which property      *)
(* rules it out.                                                           *)

FileNodes(nodes) == From(nodes, "file")
Inline(nodes) == Mapped(From(nodes, "inline"), LAMBDA n : [route |-> n.route, port |-> n.port])
Lines(nodes) == Mapped(FileNodes(nodes), LAMBDA n : Bare[n.route])

\* Config.SaveNodes, Config.SaveSettings and Config.SaveFull begin.
SaveJob(files, part, content) ==
    [at |-> "start", files |-> files, part |-> part, content |-> content, data |-> None]
SaveNodes(c) == SaveJob(IF FileNodes(c.nodes) # <<>> \/ c.nodesFile THEN <<"txt", "yaml">> ELSE <<"yaml">>,
                        "nodes", c.nodes)
SaveSettings(settings) == SaveJob(<<"yaml">>, "settings", settings)
SaveFull(c) == SaveJob(<<"yaml">>, "whole", [settings |-> c.settings, nodes |-> Inline(c.nodes)])
\* Restore puts an old file back with os.WriteFile: in place, without the lock.
PutBack(content) == SaveJob(<<"yaml">>, "putback", content)
Start(t, j) == job' = [job EXCEPT ![t] = j]
Done(t) == job' = [job EXCEPT ![t] = Idle]

Patched(j, content) ==
    IF Head(j.files) = "txt" THEN Lines(j.content)
    ELSE CASE j.part = "nodes"    -> [content EXCEPT !.nodes = Inline(j.content)]
           [] j.part = "settings" -> [content EXCEPT !.settings = j.content]
           [] OTHER               -> j.content
NeedsFile(j) == Head(j.files) = "yaml" /\ j.part \in {"nodes", "settings"}
Others(t) == Threads \ {t}
Writing(t) == job[t].at \in {"rename", "fill"} /\ Head(job[t].files) = "yaml"
Restoring(t) == op[t].name = "restore"
Crowded(t) == Head(job[t].files) = "yaml" /\ \E u \in Others(t) : Writing(u) \/ Restoring(u)

\* The file is read, its part replaced, and the result goes to a temporary
\* file.  A file that two writers spoilt does not parse.
Prepare(t) ==
    LET j == job[t]
        base == IF yaml = Short THEN Blank ELSE yaml
    IN  /\ j.at = "start"
        /\ NeedsFile(j) => yaml # Mixed
        /\ Start(t, [j EXCEPT !.at = "rename", !.data = Patched(j, base)])
        /\ disturbed' = (disturbed \/ Crowded(t))
        /\ UNCHANGED <<disk, world, stage, conf, bk, mgr, op, cut, putBack, before, outcome, bounds>>

\* The file cannot be read or does not parse, or the temporary file fails.
PrepareFails(t) ==
    LET j == job[t] IN
    /\ j.at = "start"
    /\ \/ NeedsFile(j) /\ yaml \in {Short, Mixed} /\ UNCHANGED faults
       \/ Faulty
    /\ Start(t, [j EXCEPT !.at = "failed"])
    /\ disturbed' = (disturbed \/ Crowded(t))
    /\ UNCHANGED <<disk, world, stage, conf, bk, mgr, op, cut, putBack, before, outcome, ops, runs>>

Put(file, content) ==
    IF file = "yaml" THEN yaml' = content /\ UNCHANGED txt ELSE txt' = content /\ UNCHANGED yaml
On(file) == IF file = "yaml" THEN yaml ELSE txt
Advance(j) == [j EXCEPT !.files = Tail(@), !.data = None, !.at = IF Len(j.files) = 1 THEN "done" ELSE "start"]

RefusedAlways(j) == TRUE
Refused(j) == refuses \/ j.part = "putback"

\* The rename replaces the file at once.
Rename(t) ==
    LET j == job[t] IN
    /\ j.at = "rename" /\ ~Refused(j)
    /\ Put(Head(j.files), j.data)
    /\ Start(t, Advance(j))
    /\ UNCHANGED <<pool, world, stage, conf, bk, mgr, op, hist, bounds>>

\* writeFileInPlace opens the file, which truncates it, before it has the lock.
Truncate(t) ==
    LET j == job[t] IN
    /\ j.at = "rename" /\ Refused(j)
    /\ Put(Head(j.files), Short)
    /\ Start(t, [j EXCEPT !.at = "fill"])
    /\ UNCHANGED <<pool, world, stage, conf, bk, mgr, op, hist, bounds>>

\* With the lock the data is written from the beginning; what another writer
\* has put there since shows behind it if it is longer.
Fill(t) ==
    LET j == job[t] IN
    /\ j.at = "fill"
    /\ \/ Put(Head(j.files), j.data)
       \/ On(Head(j.files)) \notin {Short, j.data} /\ Put(Head(j.files), Mixed)
    /\ Start(t, Advance(j))
    /\ UNCHANGED <<pool, world, stage, conf, bk, mgr, op, hist, bounds>>

FillFails(t) ==
    LET j == job[t] IN
    /\ j.at = "fill" /\ Faulty
    /\ cut' = TRUE
    /\ \/ UNCHANGED <<yaml, txt>>
       \/ On(Head(j.files)) # Short /\ Put(Head(j.files), Mixed)
    /\ Start(t, [j EXCEPT !.at = "failed"])
    /\ UNCHANGED <<pool, world, stage, conf, bk, mgr, op, disturbed, putBack, before, outcome, ops, runs>>

Save(t) == Prepare(t) \/ PrepareFails(t) \/ Rename(t) \/ Truncate(t) \/ Fill(t) \/ FillFails(t)

-----------------------------------------------------------------------------
(* The program starts and ends.                                            *)

\* Config.Load: the inline nodes and, with subscriptions, those of nodes.txt.
Loaded(content) ==
    LET lines == IF content.settings.subs /\ Whole(txt) THEN txt ELSE <<>>
    IN  Mapped(content.nodes, LAMBDA n : Node(n.route, n.port, "inline"))
        \o Mapped(lines, LAMBDA r : Node(r, 0, "file"))

\* main: with the instance lock, which the end of the program releases, the
\* configuration is loaded; ports that are not free now are given anew.
Load ==
    /\ stage = "off" /\ runs < MaxRuns /\ yaml # Mixed
    /\ LET content == IF yaml = Short THEN Blank ELSE yaml
           nodes   == Normalized(Loaded(content), taken)
       IN  /\ nodes # NoPorts
           /\ mem' = [settings |-> content.settings, nodesFile |-> content.settings.subs, nodes |-> nodes]
           /\ web' = content.settings /\ synced' = TRUE /\ ran' = None
           /\ dav' = content.settings.dav
    /\ stage' = "loaded" /\ runs' = runs + 1
    /\ disturbed' = (yaml = Short) /\ outcome' = "none"
    /\ UNCHANGED <<disk, world, archive, rs, mgr, job, op, cut, putBack, before, ops, faults>>

\* What is in memory is gone, and a write is where it is.
Gone ==
    /\ stage' = "off"
    /\ mem' = None /\ web' = NoSettings /\ synced' = TRUE /\ ran' = None
    /\ dav' = 0 /\ rs' = NoRestore /\ UNCHANGED archive
    /\ job' = [t \in Threads |-> Idle] /\ op' = [t \in Threads |-> NoOp]
    /\ undo' = <<>> /\ reloadMu' = None /\ target' = None
    /\ cut' = (cut \/ \E t \in Threads : job[t].at = "fill")
    /\ before' = None
    /\ UNCHANGED <<disturbed, putBack, outcome>>

\* A shutdown, a kill or a crash; other programs may take and leave ports.
Stop ==
    /\ stage # "off" /\ runs < MaxRuns
    /\ Gone
    /\ taken' \in TakenSets
    /\ UNCHANGED <<disk, refuses, bounds>>

\* app.Run: a pool that is not empty decides which nodes there are; those that
\* no file has come from the store, in any order, and all ports are packed.
FilteredKept(order) == Where(mem.nodes, Routed(pool))
Filtered(order) ==
    Where(mem.nodes, Routed(pool)) \o Mapped(order, LAMBDA r : Node(r, 0, "file"))
Filter ==
    /\ stage = "loaded" /\ pool # <<>>
    /\ \E order \in SetToSeqs(Routed(pool) \ Routed(mem.nodes)) :
          LET unported == Mapped(Filtered(order), LAMBDA n : [n EXCEPT !.port = 0])
              nodes == Packed(unported, taken)
          IN  /\ nodes # NoPorts
              /\ mem' = [mem EXCEPT !.nodes = nodes]
              /\ Start("manager", SaveNodes(mem'))
    /\ stage' = "packing"
    /\ UNCHANGED <<disk, world, web, synced, ran, bk, mgr, op, hist, bounds>>

\* The instance is started for the nodes there are.
Serve ==
    /\ stage' = "serving"
    /\ ran' = IF mem.nodes = <<>> THEN None ELSE mem
NoPool ==
    /\ stage = "loaded" /\ pool = <<>>
    /\ Serve
    /\ UNCHANGED <<disk, world, mem, web, synced, bk, mgr, job, op, hist, bounds>>

PackingSaved ==
    /\ stage = "packing" /\ Saved("manager")
    /\ stage' = "syncing"
    /\ Done("manager")
    /\ UNCHANGED <<disk, world, conf, bk, mgr, op, hist, bounds>>
PackingFails ==
    /\ stage = "packing" /\ Unsaved("manager")
    /\ Gone
    /\ UNCHANGED <<disk, world, bounds>>

\* The ports of the pool follow those of the configuration.
SyncedPool(c) == [i \in DOMAIN pool |->
    IF pool[i].route \in Routed(c.nodes) THEN [pool[i] EXCEPT !.port = PortOn(c.nodes, pool[i].route)] ELSE pool[i]]
SyncPorts ==
    /\ stage = "syncing"
    /\ pool' = SyncedPool(mem)
    /\ Serve
    /\ UNCHANGED <<yaml, txt, world, mem, web, synced, bk, mgr, job, op, hist, bounds>>
SyncFails ==
    /\ stage = "syncing" /\ Faulty
    /\ Gone
    /\ UNCHANGED <<disk, world, ops, runs>>

-----------------------------------------------------------------------------
(* The manager: adding and removing a node, applying the configuration.    *)

Crosses(t, name) ==
    \/ \E u \in Others(t) : Restoring(u)
    \/ name = "restore" /\ \E u \in Others(t) : ~Free(u)
    \/ name = "settings" /\ (~Free("backup") \/ target # None \/ ~synced)
    \/ name \in {"webdav", "reload"} /\ ~Free("web")
Begin(t, name, arg) ==
    /\ Free(t) /\ ops < MaxOps /\ ops' = ops + 1
    /\ disturbed' = (disturbed \/ Crosses(t, name))
    /\ op' = [op EXCEPT ![t] = [name |-> name, pc |-> "save", arg |-> arg]]
    /\ UNCHANGED <<faults, runs>>
Lock(t)   == reloadMu = None /\ reloadMu' = t
Unlock    == reloadMu' = None

\* Ports are probed with a listener, and those of the instance are taken.
Busy == taken \cup (IF ran = None THEN {} ELSE PortsOf(ran.nodes))
Source == IF mem.settings.subs \/ mem.nodesFile THEN "file" ELSE "inline"
Edit(name, r, nodes) ==
    /\ stage = "serving"
    /\ Begin("manager", name, r) /\ Lock("manager")
    /\ undo' = mem.nodes
    /\ mem' = [mem EXCEPT !.nodes = nodes]
    /\ Start("manager", SaveNodes(mem'))
    /\ UNCHANGED <<disk, world, stage, web, synced, ran, bk, target, cut, putBack, before, outcome>>

\* CreateNodes, which the importer calls for nodes that go to the pool, and
\* DeleteNodes.
CreateNode(r) ==
    /\ stage = "serving" /\ r \notin Routed(mem.nodes)
    /\ NextPort(mem.nodes, Busy) # 0
    /\ Edit("create", r, Append(mem.nodes, Node(r, NextPort(mem.nodes, Busy), Source)))
DeleteNode(r) ==
    /\ stage = "serving" /\ r \in Routed(mem.nodes)
    /\ Edit("delete", r, Where(mem.nodes, Routes \ {r}))

Editing == op["manager"].name \in {"create", "delete"} /\ op["manager"].pc = "save"
EditSaved ==
    /\ Editing /\ Saved("manager")
    /\ Goto("manager", "pool") /\ Done("manager") /\ Unlock
    /\ UNCHANGED <<disk, world, stage, conf, bk, undo, target, hist, bounds>>
\* The nodes are put back in memory.
UndoneNot == mem.nodes
Undone == undo
EditFails ==
    /\ Editing /\ Unsaved("manager")
    /\ mem' = [mem EXCEPT !.nodes = Undone]
    /\ Return("manager") /\ Done("manager") /\ Unlock
    /\ UNCHANGED <<disk, world, stage, web, synced, ran, bk, undo, target, hist, bounds>>
\* The importer's store follows, in an operation of its own.
EditPool ==
    LET r == op["manager"].arg
        without == Where(pool, Routes \ {r})
    IN  /\ op["manager"].pc = "pool" /\ op["manager"].name \in {"create", "delete"}
        /\ pool' = IF op["manager"].name = "create" /\ r \in Routed(mem.nodes)
                   THEN Append(without, [route |-> r, port |-> PortOn(mem.nodes, r)]) ELSE without
        /\ Return("manager")
        /\ disturbed' = (disturbed \/ Restoring("backup"))
        /\ UNCHANGED <<yaml, txt, world, stage, conf, bk, mgr, job, cut, putBack, before, outcome, bounds>>

\* A configuration is applied: reloadLocked, and TriggerReload when nothing
\* runs, pack the ports and save; a restored one is started from nothing as it
\* is.  Bound: there are ports enough.
Packs(t, c) ==
    LET packed == Packed(c.nodes, taken) IN
    /\ packed # NoPorts
    /\ target' = [c EXCEPT !.nodes = packed]
    /\ Start(t, SaveNodes(target'))
StartsAsIs(t, c) ==
    /\ target' = c
    /\ Start(t, [Idle EXCEPT !.at = "done"])

\* TriggerReload: with nodes; the importer stores the ports afterwards.
Reload ==
    /\ stage = "serving" /\ mem.nodes # <<>>
    /\ Begin("manager", "reload", None) /\ Lock("manager")
    /\ Packs("manager", mem)
    /\ UNCHANGED <<disk, world, stage, conf, bk, undo, cut, putBack, before, outcome>>
\* No nodes are left: the instance is closed and the WebUI gets the new object.
EnterEmpty ==
    /\ stage = "serving" /\ mem.nodes = <<>>
    /\ Free("manager") /\ reloadMu = None /\ ops < MaxOps /\ ops' = ops + 1
    /\ ran' = None /\ web' = mem.settings /\ synced' = TRUE
    /\ UNCHANGED <<disk, world, stage, mem, bk, mgr, job, op, hist, faults, runs>>

\* Without an instance the configuration is the current one before it starts.
Becomes(c) ==
    /\ mem' = IF ran = None THEN c ELSE mem
    /\ synced' = (synced /\ ran # None)
Applying(t) == reloadMu = t /\ target # None /\ op[t].pc # "rollback"
\* The instance cannot bind a port: nodes move, and that is saved.
MoveConflicts(t) ==
    /\ Applying(t) /\ Saved(t) /\ Conflicts(target.nodes, taken) # {}
    /\ Settled(target.nodes, taken) # NoPorts
    /\ target' = [target EXCEPT !.nodes = Settled(target.nodes, taken)]
    /\ Start(t, SaveNodes(target'))
    /\ Becomes(target')
    /\ UNCHANGED <<disk, world, stage, web, ran, bk, undo, reloadMu, op, hist, bounds>>
\* The WebUI is given the object after a reload; a start from nothing replaces
\* it without a word.
Applied(t) ==
    /\ Applying(t) /\ Saved(t) /\ Conflicts(target.nodes, taken) = {}
    /\ mem' = target /\ ran' = target
    /\ synced' = (ran # None)
    /\ web' = IF ran # None THEN target.settings ELSE web
    /\ target' = None /\ Unlock /\ Done(t)
    /\ Goto(t, CASE op[t].pc = "apply" -> "list" [] op[t].pc = "reapply" -> "putfile" [] OTHER -> "pool")
    /\ UNCHANGED <<disk, world, stage, bk, undo, hist, bounds>>
ApplyError(t) ==
    IF op[t].name = "restore" THEN Goto(t, "putfile") ELSE Return(t)
\* Saving or starting fails with an instance to return to: its configuration
\* is saved, whatever comes of that, and becomes the current one.
RollBack(t) ==
    /\ Applying(t) /\ ran # None
    /\ \/ Unsaved(t) /\ UNCHANGED faults
       \/ Saved(t) /\ Faulty
    /\ Start(t, SaveNodes(ran))
    /\ Goto(t, "rollback")
    /\ UNCHANGED <<disk, world, stage, conf, bk, mgr, hist, ops, runs>>
RolledBack(t) ==
    /\ reloadMu = t /\ op[t].pc = "rollback" /\ (Saved(t) \/ Unsaved(t))
    /\ mem' = ran /\ web' = ran.settings /\ synced' = TRUE /\ UNCHANGED ran
    /\ target' = None /\ Unlock /\ Done(t)
    /\ ApplyError(t)
    /\ UNCHANGED <<disk, world, stage, bk, undo, hist, bounds>>
\* Nothing to return to: the save of a copy fails, or the start of it.
StartFails(t) ==
    /\ Applying(t) /\ ran = None
    /\ \/ Unsaved(t) /\ UNCHANGED <<mem, faults, synced>>
       \/ Saved(t) /\ Faulty /\ mem' = target /\ synced' = FALSE
    /\ target' = None /\ Unlock /\ Done(t)
    /\ ApplyError(t)
    /\ UNCHANGED <<disk, world, stage, web, ran, bk, undo, hist, ops, runs>>
ReloadPool ==
    /\ Step("manager", "reload", "pool")
    /\ pool' = SyncedPool(mem)
    /\ Return("manager")
    /\ disturbed' = (disturbed \/ Restoring("backup"))
    /\ UNCHANGED <<yaml, txt, world, stage, conf, bk, mgr, job, cut, putBack, before, outcome, bounds>>

-----------------------------------------------------------------------------
(* The WebUI and the backup service.                                       *)

\* The settings pages change the object and save; a failure is reported, and
\* the object keeps the change.
EditSettings(settings) ==
    /\ stage # "off"
    /\ Begin("web", "settings", None)
    /\ web' = settings
    /\ mem' = IF synced THEN [mem EXCEPT !.settings = settings] ELSE mem
    /\ Start("web", SaveSettings(settings))
    /\ UNCHANGED <<disk, world, stage, synced, ran, bk, mgr, cut, putBack, before, outcome>>
UpdateSettings == EditSettings([web EXCEPT !.ui = @ + 1])
UpdateSubscriptions == EditSettings([web EXCEPT !.subs = ~@])
SettingsEnd ==
    /\ Step("web", "settings", "save") /\ (Saved("web") \/ Unsaved("web"))
    /\ Return("web") /\ Done("web")
    /\ UNCHANGED <<disk, world, stage, conf, bk, mgr, hist, bounds>>

\* currentConfigLocked: a copy of the manager's, with the account of its own.
Current == [mem EXCEPT !.settings.dav = dav]

\* SetWebDAVConfig saves the settings of that copy.
SetWebDAV ==
    /\ stage = "serving"
    /\ Begin("backup", "webdav", dav + 1)
    /\ Start("backup", SaveSettings([Current.settings EXCEPT !.dav = dav + 1]))
    /\ UNCHANGED <<disk, world, stage, conf, bk, mgr, cut, putBack, before, outcome>>
WebDAVSaved ==
    /\ Step("backup", "webdav", "save") /\ Saved("backup")
    /\ dav' = op["backup"].arg
    /\ Return("backup") /\ Done("backup")
    /\ UNCHANGED <<disk, world, stage, conf, archive, rs, mgr, hist, bounds>>
WebDAVFails ==
    /\ Step("backup", "webdav", "save") /\ Unsaved("backup")
    /\ Return("backup") /\ Done("backup")
    /\ UNCHANGED <<disk, world, stage, conf, bk, mgr, hist, bounds>>

\* createLocked: first the configuration, then the store.
CreateBackup ==
    /\ stage = "serving"
    /\ Begin("backup", "create", [settings |-> Current.settings, nodes |-> mem.nodes])
    /\ UNCHANGED <<disk, world, stage, conf, bk, mgr, job, cut, putBack, before, outcome>>
SnapshotStore ==
    /\ Step("backup", "create", "save")
    /\ archive' = [settings |-> op["backup"].arg.settings, nodes |-> op["backup"].arg.nodes, pool |-> pool]
    /\ Return("backup")
    /\ UNCHANGED <<disk, world, stage, conf, dav, rs, mgr, job, hist, bounds>>

\* The restored configuration: the nodes of the archive and those of its pool
\* that are not among them, all of them inline.
Restored ==
    LET missing == Where(archive.pool, Routes \ Routed(archive.nodes))
    IN  [settings  |-> archive.settings, nodesFile |-> FALSE,
         nodes |-> Mapped(archive.nodes \o missing, LAMBDA n : Node(n.route, n.port, "inline"))]

\* What the restore puts back when a later step fails.
RememberedTooLate == [cfg |-> Current, file |-> yaml, pool |-> archive.pool]
Remembered == [cfg |-> Current, file |-> yaml, pool |-> pool]

\* Restore: the archive is sound, and no job of the importer is active.
Restore ==
    /\ stage = "serving" /\ archive # None
    /\ Begin("backup", "restore", None)
    /\ rs' = Remembered /\ before' = [file |-> yaml, pool |-> pool]
    /\ Start("backup", SaveFull(Restored))
    /\ outcome' = "none"
    /\ UNCHANGED <<disk, world, stage, conf, dav, archive, mgr, cut, putBack>>
RestoreAt(pc) == Step("backup", "restore", pc)
RestoreSaved ==
    /\ RestoreAt("save") /\ Saved("backup")
    /\ Goto("backup", "store") /\ Done("backup")
    /\ UNCHANGED <<disk, world, stage, conf, bk, mgr, hist, bounds>>
RestoreEnds(how) ==
    /\ outcome' = how /\ Return("backup")
    /\ rs' = NoRestore /\ before' = None
    /\ UNCHANGED <<disturbed, cut, putBack>>
RestoreUnsaved ==
    /\ RestoreAt("save") /\ Unsaved("backup")
    /\ RestoreEnds("unsaved") /\ Done("backup")
    /\ UNCHANGED <<disk, world, stage, conf, dav, archive, mgr, bounds>>
ReplaceStore ==
    /\ RestoreAt("store")
    /\ pool' = archive.pool
    /\ Goto("backup", "toapply")
    /\ UNCHANGED <<yaml, txt, world, stage, conf, bk, mgr, job, hist, bounds>>
ReplaceStoreFails ==
    /\ RestoreAt("store") /\ Faulty
    /\ Goto("backup", "putfile")
    /\ UNCHANGED <<disk, world, stage, conf, bk, mgr, job, hist, ops, runs>>

\* ApplyRestoredConfig: of the archive, or of what was current before.
ApplyBackup(c, pc, after) ==
    /\ reloadMu = None
    /\ IF c.nodes = <<>>
       THEN /\ mem' = c /\ ran' = None /\ web' = c.settings /\ synced' = TRUE
            /\ Goto("backup", after)
            /\ UNCHANGED <<mgr, job>>
       ELSE /\ Lock("backup")
            /\ Goto("backup", pc)
            /\ IF ran # None THEN Packs("backup", c) ELSE StartsAsIs("backup", c)
            /\ Becomes(c)
            /\ UNCHANGED <<web, ran, undo>>
    /\ UNCHANGED <<disk, world, stage, bk, hist, bounds>>
ApplyRestored == RestoreAt("toapply") /\ ApplyBackup(Restored, "apply", "list")
Reapply       == RestoreAt("toreapply") /\ ApplyBackup(rs.cfg, "reapply", "putfile")

\* ListConfigNodes fails when the request is gone; the ports of the running
\* nodes go to the pool.
ListNodes ==
    /\ RestoreAt("list")
    /\ pool' = SyncedPool(mem)
    /\ Goto("backup", "chain")
    /\ UNCHANGED <<yaml, txt, world, stage, conf, bk, mgr, job, hist, bounds>>
SetChainProfiles ==
    /\ RestoreAt("chain")
    /\ dav' = archive.settings.dav
    /\ RestoreEnds("done")
    /\ UNCHANGED <<disk, world, stage, conf, archive, mgr, job, bounds>>
RestoreFailsLate ==
    /\ RestoreAt("list") \/ RestoreAt("chain")
    /\ Faulty
    /\ Goto("backup", "toreapply")
    /\ UNCHANGED <<disk, world, stage, conf, bk, mgr, job, hist, ops, runs>>
PutFileBack ==
    /\ RestoreAt("putfile")
    /\ Start("backup", PutBack(rs.file))
    /\ Goto("backup", "putting")
    /\ putBack' = TRUE
    /\ UNCHANGED <<disk, world, stage, conf, bk, mgr, disturbed, cut, before, outcome, bounds>>
PutStoreBack ==
    /\ RestoreAt("putting") /\ (Saved("backup") \/ Unsaved("backup"))
    /\ Done("backup")
    /\ \/ pool' = rs.pool /\ UNCHANGED faults
       \/ Faulty /\ UNCHANGED pool
    /\ RestoreEnds("undone")
    /\ UNCHANGED <<yaml, txt, world, stage, conf, dav, archive, mgr, ops, runs>>

-----------------------------------------------------------------------------
ManagerNext ==
    \/ \E r \in Routes : CreateNode(r) \/ DeleteNode(r)
    \/ EditSaved \/ EditFails \/ EditPool
    \/ Reload \/ ReloadPool \/ EnterEmpty
ApplyNext(t) == MoveConflicts(t) \/ Applied(t) \/ RollBack(t) \/ RolledBack(t) \/ StartFails(t)
WebNext == UpdateSettings \/ UpdateSubscriptions \/ SettingsEnd
BackupNext ==
    \/ SetWebDAV \/ WebDAVSaved \/ WebDAVFails
    \/ CreateBackup \/ SnapshotStore
    \/ Restore \/ RestoreSaved \/ RestoreUnsaved \/ ReplaceStore \/ ReplaceStoreFails
    \/ ApplyRestored \/ Reapply \/ ListNodes \/ SetChainProfiles \/ RestoreFailsLate
    \/ PutFileBack \/ PutStoreBack
ProgramNext ==
    \/ Load \/ Stop \/ Filter \/ NoPool
    \/ PackingSaved \/ PackingFails \/ SyncPorts \/ SyncFails
Next ==
    \/ ProgramNext \/ ManagerNext \/ WebNext \/ BackupNext
    \/ \E t \in Threads : Save(t) \/ ApplyNext(t)

Spec == Init /\ [][Next]_vars

-----------------------------------------------------------------------------
(* Properties.  Undisturbed: config.yaml had one writer at a time, which is *)
(* what the WebUI does when its user waits for each answer.                 *)

\* Files, store and memory keep their form; nodes.txt holds URIs, one a line,
\* whatever chains the nodes have (writeNodesToFile).
TypeOK ==
    /\ yaml \in {Short, Mixed} \/ yaml \in Contents
    /\ txt \in {Short, Mixed, None} \/ txt \in Seq(URIs)
    /\ pool \in Seq(Members)
    /\ stage \in {"off", "loaded", "packing", "syncing", "serving"}
    /\ mem # None => mem.nodes \in Seq(Nodes)
    /\ reloadMu \in {None, "manager", "backup"}

Quiet == stage = "serving" /\ \A t \in Threads : Free(t)
Undisturbed == ~disturbed /\ ~cut

\* At no point, a crash included, is a file less than whole where files can be
\* renamed, unless a failed restore put config.yaml back (which writes in
\* place).  Elsewhere it is short only while it is being written or after a
\* write was cut off, and config.yaml is spoilt only by two writers at once.
FilesAreWhole ==
    /\ ~refuses /\ ~putBack => Whole(yaml) /\ txt \notin {Short, Mixed}
    /\ Short \in {yaml, txt} => cut \/ putBack \/ \E t \in Threads : job[t].at = "fill"
    /\ yaml = Mixed => disturbed

\* When no operation is under way config.yaml has the inline nodes of memory,
\* also after operations that failed or were rolled back and after restarts:
\* each of them saves what it leaves in memory, or takes it back.  (A rollback
\* that cannot save either leaves the disk as it is.)
NodesOnDisk ==
    Quiet /\ Undisturbed /\ outcome # "undone" /\ faults <= 1 => Routed(yaml.nodes) = Routed(Inline(mem.nodes))

\* And it has the settings the WebUI shows: saving nodes, which reloads, port
\* conflicts and rollbacks do, never writes settings of its own.  (Where nothing
\* was running a restore does not reach the WebUI; see README.)
SettingsOnDisk ==
    Quiet /\ Undisturbed /\ faults = 0 /\ (outcome = "done" => synced) =>
        yaml.settings.ui = web.ui /\ yaml.settings.subs = web.subs

\* What was saved stays saved, whatever is saved, reloaded or restored after it.
SavesAreKept == NodesOnDisk /\ SettingsOnDisk

\* Every member of the pool is a node of the configuration, with the same
\* port: what starts, reloads and restores give out reaches the store.
PortsAgree == Quiet /\ Undisturbed /\ faults = 0 =>
    \A i \in DOMAIN pool : pool[i].route \in Routed(mem.nodes) /\ pool[i].port = PortOn(mem.nodes, pool[i].route)

\* No two nodes share a port, and none has the listener's: loading, packing,
\* adding a node, moving after a conflict and restoring all keep that.  (A
\* backup may have an overlap, as it reads the nodes and then the pool; a
\* restore with nothing running and no start keeps it in memory; see README.)
OwnPortsAlways ==
    /\ ran # None => OwnPorts(ran.nodes)
    /\ Quiet /\ (ran # None \/ outcome \in {"none", "done"}) => OwnPorts(mem.nodes)

\* Configuration and pool hold the same ports, one for each node.
PortsHold == TypeOK /\ PortsAgree /\ OwnPortsAlways

\* A start with a pool serves its members and nothing else (app.Run, "runtime
\* listener count == WebUI pool count"), whatever a crash left in the files.
BootServesPool == stage = "syncing" => Routed(mem.nodes) = Routed(pool) /\ OwnPorts(mem.nodes)

\* A restore that fails leaves config.yaml and the pool as they were, and the
\* manager with the nodes it had or those that were running.  (Where nothing
\* was running the manager keeps the restored nodes; see README.)
RestoreUndone ==
    [][/\ RestoreAt("putting") /\ outcome' = "undone"
       /\ ~disturbed /\ ~cut /\ faults' = 1
       => /\ yaml' = before.file /\ pool' = before.pool
          /\ ran # None => Routed(mem'.nodes) \in {Routed(rs.cfg.nodes), Routed(ran.nodes)}]_vars
=============================================================================
