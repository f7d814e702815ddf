---------------------------- MODULE SourceApply ----------------------------
(***************************************************************************)
(* What importer.Service does to the store of nodes, the configuration of  *)
(* the runtime and its listeners when it changes the pool: applying the    *)
(* tested nodes of a source, generating the ports of a connectivity job,   *)
(* deleting everything; and the operations of users that take no lock.     *)
(*                                                                         *)
(* The first three hold applyMu from their first step to their last.  Each *)
(* is a row of writes to the store and to the configuration, every one of  *)
(* which can fail, and takes back the rest when one does.  The others run  *)
(* between those writes.  A node is one route; names are left out, ports   *)
(* are numbers, a source is a tag.                                         *)
(***************************************************************************)
EXTENDS Naturals, FiniteSets

CONSTANTS
    Routes,   \* what a node connects to: its identity
    Tags,     \* sources of nodes
    Ports,    \* bound: ports of the configuration
    NoPort,   \* the port of a route that has none
    Kinds,    \* bound: kinds of locked operations of a behaviour
    UserKinds,\* bound: kinds of operations without the lock
    MaxOps    \* bound: operations of each sort

ASSUME PortsAssumption == NoPort \notin Ports /\ Cardinality(Routes) <= Cardinality(Ports)
ASSUME KindsAssumption == Kinds \subseteq {"source", "select", "all"}

VARIABLES
    nodes,   \* the store: the sources, the state and the port of a node, or Absent
    config,  \* the port of each route in the configuration, NoPort for none
    running, \* the port on which the instance serves each route, NoPort for none
    op,      \* the operation that holds applyMu
    user,    \* the operation of a user under way
    blame,   \* why the three may disagree at rest
    count    \* operations begun: locked ones, others

vars == <<nodes, config, running, op, user, blame, count>>

Absent == [src |-> {}, st |-> "absent", port |-> NoPort]
States == {"passed", "failed", "pool", "excluded"}
Entry(src, st, port) == [src |-> src, st |-> st, port |-> port]
Nothing == [r \in Routes |-> NoPort]
Used(c) == {c[r] : r \in Routes} \ {NoPort}

Present == {r \in Routes : nodes[r] # Absent}
InPool  == {r \in Routes : nodes[r].st = "pool"}
Configured == {r \in Routes : config[r] # NoPort}

NoOp == [kind |-> "none", pc |-> "idle", tags |-> {},
         before |-> <<>>, cfg |-> Nothing, plan |-> <<>>, touched |-> {}, names |-> {},
         todo |-> {}, made |-> FALSE, alone |-> TRUE]
NoUser == [kind |-> "none", pc |-> "idle", r |-> {}, plan |-> <<>>, drop |-> {}, port |-> NoPort]

\* The pool and the configuration have the same routes; the instance listens
\* on every port of the configuration (VerifyRuntime asks for no more).
SameRoutes == InPool = Configured
Listened   == Used(config) \subseteq Used(running)

\* The store takes over the ports of the configuration.
Synced(n) == [r \in Routes |-> IF n[r].st = "pool" /\ config[r] # NoPort THEN [n[r] EXCEPT !.port = config[r]] ELSE n[r]]

-----------------------------------------------------------------------------
(* The manager of the runtime, as the service uses it.                     *)

Distinct(c) == \A r, s \in Routes : r # s /\ c[r] # NoPort => c[r] # c[s]

\* Ports for the routes of c: its own, when the instance is changed in place, or
\* others, when the manager starts a new one and packs them.
Ported(c) == {d \in [Routes -> Ports \cup {NoPort}] : Distinct(d) /\ \A r \in Routes : d[r] = NoPort <=> c[r] = NoPort}

\* A reload serves the configuration; or fails with the old instance still
\* running, the configuration as it is or put back to that instance's; or
\* with no instance.
Serves(c)   == config' \in Ported(c) /\ running' = config'
ReloadOk    == Serves(config)
ReloadFails ==
    \/ UNCHANGED <<config, running>>
    \/ config' = running /\ UNCHANGED running
    \/ running' = Nothing /\ UNCHANGED config

\* DeleteNodes: an error when none of the nodes is there.
Remove(R)  == R \cap Configured # {} /\ config' = [r \in Routes |-> IF r \in R THEN NoPort ELSE config[r]]

\* RestoreConfigNodes: saved, then reloaded.  What cannot be saved is not kept;
\* an instance that cannot be closed for an empty configuration stays.
RestoreConfig(c) == Serves(c)
RestoreConfigFails(c) ==
    \/ UNCHANGED <<config, running>>
    \/ config' = c /\ running' = Nothing
    \/ c = Nothing /\ config' = c /\ UNCHANGED running
    \/ config' = running /\ UNCHANGED running

\* Each new route gets a port of its own.
Created(c) ==
    \A r \in Routes : c[r] # config[r] =>
        config[r] = NoPort /\ \A s \in Routes \ {r} : c[s] # c[r]

-----------------------------------------------------------------------------
(* The locked operations: beginning, and applying what was planned.  An    *)
(* operator just before a definition, named after it, is the definition    *)
(* with a plausible slip; PROJECT.json says which property rules it out.   *)

Goto(pc)    == op' = [op EXCEPT !.pc = pc]
At(kind, pc) == op.kind = kind /\ op.pc = pc

\* The operation is over without a change of its own to take back.
Quit == op' = NoOp

\* What was done is taken back, from pc on; the plan is forgotten.
TakeBack(pc) == op' = [op EXCEPT !.pc = pc, !.plan = <<>>, !.names = {}, !.todo = {}, !.made = FALSE]

Begin(new) ==
    /\ op = NoOp /\ count[1] < MaxOps
    /\ op' = [new EXCEPT !.alone = user = NoUser]
    /\ count' = [count EXCEPT ![1] = @ + 1]
    /\ blame' = IF user # NoUser THEN blame \cup {"overlap"} ELSE blame
    /\ UNCHANGED <<nodes, config, running, user>>

\* Bound: at most one route that the runtime cannot build.
Bad == {{}} \cup {{r} : r \in Routes}

\* applyStagedNodes for a tag.
BeginSource ==
    /\ "source" \in Kinds
    /\ \E t \in Tags : Begin([NoOp EXCEPT !.kind = "source", !.pc = "ensure", !.tags = {t}])

\* ensurePoolRuntimeConsistency: nothing to do, or the configuration is made
\* from the pool first.
Ensure ==
    /\ op.kind = "source" /\ op.pc = "ensure"
    /\ \/ SameRoutes /\ Listened /\ nodes' = Synced(nodes) /\ Goto("list") /\ UNCHANGED <<config, running>>
       \/ /\ ~(SameRoutes /\ Listened) /\ UNCHANGED nodes
          /\ LET c == [r \in Routes |-> IF r \in InPool THEN nodes[r].port ELSE NoPort] IN
             \/ RestoreConfig(c) /\ Goto("ensured")
             \/ RestoreConfigFails(c) /\ Quit
       \/ UNCHANGED <<nodes, config, running>> /\ Quit
    /\ UNCHANGED <<user, blame, count>>

Ensured ==
    /\ op.pc = "ensured"
    /\ nodes' = IF SameRoutes THEN Synced(nodes) ELSE nodes
    /\ IF SameRoutes /\ Listened THEN Goto("list") ELSE Quit
    /\ UNCHANGED <<config, running, user, blame, count>>

\* The configuration to go back to is read before the nodes are.
List ==
    /\ op.pc = "list"
    /\ op' = [op EXCEPT !.pc = "plan", !.cfg = config]
    /\ UNCHANGED <<nodes, config, running, user, blame, count>>

\* The node becomes one of this tag alone; a node with no source stays.
PlannedAlone(r, in) ==
    IF in = "none" THEN (IF nodes[r].src \subseteq op.tags THEN Absent ELSE nodes[r])
    ELSE Entry(op.tags, IF in = "passed" /\ nodes[r].st = "pool" THEN "pool" ELSE in, nodes[r].port)
\* What becomes of the node of route r, new, "in", or neither, "none".  A node
\* of the tag that is not among the new ones loses the source, and with its
\* last one is deleted; one that is new is tested anew; a node of another
\* source alone only gains by it.
Planned(r, in) ==
    LET cur == nodes[r]  keeps == cur.src \ op.tags IN
    CASE cur = Absent -> IF in = "none" THEN Absent ELSE Entry(op.tags, in, NoPort)
      [] cur # Absent /\ op.tags \cap cur.src = {} ->
            IF in = "passed" THEN Entry(cur.src \cup op.tags, IF cur.st = "pool" THEN "pool" ELSE in, cur.port) ELSE cur
      [] cur # Absent /\ op.tags \subseteq cur.src /\ in # "none" ->
            IF in = "passed" /\ cur.st = "pool" THEN cur ELSE Entry(cur.src, in, NoPort)
      [] OTHER -> IF keeps = {} THEN Absent ELSE [cur EXCEPT !.src = keeps]

\* Whether the node is written: a failed new one is no news for a node of
\* another source.
Written(r, in) ==
    IF op.tags \cap nodes[r].src # {} \/ nodes[r] = Absent THEN Planned(r, in) # Absent ELSE in = "passed"

\* Preflight: a node that cannot be built fails.
Checked(r, in, bad) ==
    LET p == Planned(r, in) IN
    IF r \in bad /\ Written(r, in) /\ p.st \in {"passed", "pool"} THEN Entry(p.src, "failed", NoPort) ELSE p

\* The new nodes are read, tested as they are, then all others.
Plan ==
    /\ At("source", "plan")
    /\ \E S \in (SUBSET Routes) \ {{}}, bad \in Bad : \E P \in SUBSET S :
          LET in(r)   == IF r \in P THEN "passed" ELSE IF r \in S THEN "failed" ELSE "none"
              touched == S \cup {r \in Routes : op.tags \cap nodes[r].src # {}}
              result(r) == Checked(r, in(r), bad)
          IN  op' = [op EXCEPT !.pc = "remove", !.before = nodes, !.touched = touched,
                               !.plan  = [r \in {r \in touched : Written(r, in(r)) \/ Planned(r, in(r)) = Absent} |-> result(r)],
                               !.names = {r \in InPool : result(r).st # "pool"}]
    /\ UNCHANGED <<nodes, config, running, user, blame, count>>

\* The nodes that leave the pool leave the configuration first.
RemoveNames ==
    /\ op.pc = "remove" /\ op.kind # "all"
    /\ \/ op.names = {} /\ Goto("store") /\ UNCHANGED config
       \/ Remove(op.names) /\ op' = [op EXCEPT !.pc = "store", !.names = {}, !.made = TRUE]
       \/ op.names # {} /\ TakeBack("undo") /\ UNCHANGED config
    /\ UNCHANGED <<nodes, running, user, blame, count>>

\* ApplyNodeChanges: the copies made at the plan, for the nodes touched.
StorePlan ==
    /\ At("source", "store")
    /\ \/ /\ nodes' = [r \in Routes |-> IF r \in DOMAIN op.plan THEN op.plan[r] ELSE nodes[r]]
          /\ LET passed == {r \in DOMAIN op.plan : op.plan[r].st = "passed"} IN
             \/ op' = [op EXCEPT !.pc = "reload", !.plan = <<>>]
             \/ passed # {} /\ op' = [op EXCEPT !.pc = "pick", !.plan = <<>>, !.todo = passed]
       \/ UNCHANGED nodes /\ TakeBack("undo")
    /\ UNCHANGED <<config, running, user, blame, count>>

\* promoteMany: nodes that are in the configuration are duplicates and are
\* deleted.
Pick ==
    /\ op.pc = "pick"
    /\ LET open == {r \in op.todo : nodes[r].st = "passed"}  double == open \cap Configured IN
       /\ nodes' = [r \in Routes |-> IF r \in double THEN Absent ELSE nodes[r]]
       /\ \/ op' = [op EXCEPT !.todo = open \ double, !.pc = IF open \subseteq double THEN "reload" ELSE "create"]
          \/ TakeBack("undo")
    /\ UNCHANGED <<config, running, user, blame, count>>

\* CreateNodes; when that fails, one by one: a node whose name is taken is
\* deleted, any other error ends it.
Create ==
    /\ op.pc = "create"
    /\ LET taken == op.todo \cap Configured IN
       \E C \in SUBSET (op.todo \ taken) :
          /\ config' \in [Routes -> Ports \cup {NoPort}] /\ Created(config')
          /\ {r \in Routes : config'[r] # config[r]} = C
          /\ nodes' = [r \in Routes |-> IF r \in taken THEN Absent ELSE nodes[r]]
          /\ IF C \cup taken = op.todo
             THEN op' = [op EXCEPT !.pc = "mark", !.todo = C]
             ELSE TakeBack("undo")
    /\ UNCHANGED <<running, user, blame, count>>

\* MarkInPoolMany skips nodes that are gone.
Mark ==
    /\ op.pc = "mark"
    /\ \/ /\ nodes' = [r \in Routes |-> IF r \in op.todo \cap Present
                                        THEN [nodes[r] EXCEPT !.st = "pool", !.port = config[r]] ELSE nodes[r]]
          /\ op' = [op EXCEPT !.pc = "reload", !.todo = {}, !.made = @ \/ op.todo \cap Present # {}]
       \/ UNCHANGED nodes /\ TakeBack("undo")
    /\ UNCHANGED <<config, running, user, blame, count>>

Reload ==
    /\ op.pc = "reload" /\ op.kind # "all"
    /\ \/ ~op.made /\ UNCHANGED <<config, running>> /\ Goto("verify")
       \/ op.made /\ ReloadOk /\ Goto(IF op.kind = "select" THEN "settle" ELSE "verify")
       \/ op.made /\ ReloadFails /\ TakeBack("undo")
    /\ UNCHANGED <<nodes, user, blame, count>>

Succeeds ==
    /\ Quit
    /\ blame' = IF user = NoUser THEN {} ELSE {"overlap"}

\* The operation ends without a look at what runs.
VerifyNot ==
    /\ op.pc = "verify"
    /\ nodes' = Synced(nodes) /\ Succeeds
    /\ UNCHANGED <<config, running, user, count>>

\* verifyAppliedRuntime, the last step of all three.
Verify ==
    /\ op.pc = "verify"
    /\ \/ SameRoutes /\ Listened /\ nodes' = Synced(nodes) /\ Succeeds
       \/ UNCHANGED <<nodes, blame>> /\ TakeBack("undo")
    /\ UNCHANGED <<config, running, user, count>>

\* Only nodes that are still there go back.
UndoPresent ==
    /\ op.pc = "undo" /\ op.kind # "all"
    /\ nodes' = [r \in Routes |-> IF r \in op.touched \cap Present THEN op.before[r] ELSE nodes[r]]
    /\ Goto("undoconfig") /\ UNCHANGED blame
    /\ UNCHANGED <<config, running, user, count>>

\* The rollback: the nodes that were touched, or every node of before.
Undo ==
    /\ op.pc = "undo" /\ op.kind # "all"
    /\ \/ /\ nodes' = [r \in Routes |-> IF r \in op.touched THEN op.before[r] ELSE nodes[r]]
          /\ UNCHANGED blame
       \/ UNCHANGED nodes /\ blame' = blame \cup {"rollback"}
    /\ Goto("undoconfig")
    /\ UNCHANGED <<config, running, user, count>>

\* The store learns of ports that moved when it is next verified.
Moved(c) == blame' = IF config' = c THEN blame ELSE blame \cup {"order"}

UndoConfig ==
    /\ op.pc = "undoconfig"
    /\ \/ RestoreConfig(op.cfg) /\ Moved(op.cfg)
       \/ RestoreConfigFails(op.cfg) /\ blame' = blame \cup {"rollback"}
    /\ Goto("failed")
    /\ UNCHANGED <<nodes, user, count>>

Failed ==
    /\ op.pc = "failed" /\ Quit
    /\ UNCHANGED <<nodes, config, running, user, blame, count>>

-----------------------------------------------------------------------------
(* ApplyConnectivityPool and DeleteAllImportSources.                       *)

\* The routes of the chosen tags that a connectivity job found good, Q, are
\* to be in the pool, and so is what no chosen tag has or another tag has
\* too; the others fail.
BeginSelect ==
    /\ "select" \in Kinds
    /\ \E T \in (SUBSET Tags) \ {{}} : \E Q \in SUBSET {r \in Present : nodes[r].src \cap T # {}} :
          LET chosen == {r \in Present : nodes[r].src \cap T # {} /\ nodes[r].st # "excluded"}
              fails  == {r \in chosen \ Q : nodes[r].src \subseteq T}
          IN  /\ Q \subseteq chosen
              /\ Begin([NoOp EXCEPT !.kind = "select", !.pc = "list", !.tags = T, !.names = fails,
                                    !.todo = Q \cup (InPool \ fails)])

\* Wanted routes that cannot be built are left out, those in the pool are
\* not tried; an empty rest is refused unless it was asked for.
PlanSelect ==
    /\ At("select", "plan")
    /\ \E bad \in Bad :
       LET out   == (op.todo \cap bad \cap Present) \ InPool
           want  == (op.todo \cap Present) \ out
           fails == (op.names \cup out) \cap Present
       IN \/ op' = [op EXCEPT !.pc = "remove", !.before = nodes, !.touched = Present, !.todo = want,
                              !.names = (InPool \ want) \cap {r \in Routes : op.cfg[r] # NoPort},
                              !.plan = [r \in Present |-> IF r \in fails THEN Entry(nodes[r].src, "failed", NoPort) ELSE nodes[r]]]
          \/ want = {} /\ out # {} /\ Quit
    /\ UNCHANGED <<nodes, config, running, user, blame, count>>

\* New routes are created together or not at all.
CreateSelect ==
    /\ At("select", "store")
    /\ LET new == {r \in op.todo : op.before[r].st # "pool"} IN
       \/ /\ new \cap Configured = {}
          /\ config' \in [Routes -> Ports \cup {NoPort}] /\ Created(config')
          /\ {r \in Routes : config'[r] # config[r]} = new
          /\ op' = [op EXCEPT !.made = @ \/ new # {}, !.pc = IF new = {} /\ ~op.made THEN "settle" ELSE "reload"]
       \/ new # {} /\ UNCHANGED config /\ TakeBack("undo")
    /\ UNCHANGED <<nodes, running, user, blame, count>>

\* The copies of before are written with the ports of now.
Settle ==
    /\ At("select", "settle")
    /\ \/ /\ op.todo \subseteq Configured
          /\ nodes' = [r \in Routes |->
                          IF r \in op.todo THEN Entry(op.before[r].src, "pool", config[r])
                          ELSE IF r \in DOMAIN op.plan THEN op.plan[r] ELSE nodes[r]]
          /\ Goto("verify")
       \/ UNCHANGED nodes /\ TakeBack("undo")
    /\ UNCHANGED <<config, running, user, blame, count>>

\* Everything is read, with no look at whether it agrees.
BeginAll ==
    /\ "all" \in Kinds
    /\ Begin([NoOp EXCEPT !.kind = "all", !.pc = "remove", !.cfg = config,
                          !.before = nodes, !.touched = Present, !.names = Configured])

RemoveAll ==
    /\ At("all", "remove")
    /\ \/ op.names = {} /\ Goto("drop") /\ UNCHANGED config
       \/ Remove(op.names) /\ Goto("reload")
       \/ op.names # {} /\ TakeBack("undoconfig") /\ UNCHANGED config
    /\ UNCHANGED <<nodes, running, user, blame, count>>

ReloadAll ==
    /\ At("all", "reload")
    /\ \/ ReloadOk /\ Goto("drop")
       \/ ReloadFails /\ TakeBack("undoconfig")
    /\ UNCHANGED <<nodes, user, blame, count>>

DropNodes ==
    /\ op.pc = "drop"
    /\ \/ nodes' = [r \in Routes |-> IF r \in op.touched THEN Absent ELSE nodes[r]] /\ Goto("verify")
       \/ UNCHANGED nodes /\ TakeBack("undoconfig")
    /\ UNCHANGED <<config, running, user, blame, count>>

\* RestoreNodesSnapshot: exactly the nodes of before.
UndoAll ==
    /\ At("all", "undo")
    /\ \/ nodes' = op.before /\ UNCHANGED blame
       \/ UNCHANGED nodes /\ blame' = blame \cup {"rollback"}
    /\ Goto("undoconfig")
    /\ UNCHANGED <<config, running, user, count>>

-----------------------------------------------------------------------------
(* Operations without applyMu.  Their errors are ignored or returned, and  *)
(* nothing is taken back.                                                  *)

BeginUser(new) ==
    /\ user = NoUser /\ new.kind \in UserKinds /\ count[2] < MaxOps
    /\ user' = new
    /\ count' = [count EXCEPT ![2] = @ + 1]
    /\ op' = [op EXCEPT !.alone = @ /\ op = NoOp]
    /\ blame' = IF op # NoOp THEN blame \cup {"overlap"} ELSE blame
    /\ UNCHANGED <<nodes, config, running>>

UserAt(kind, pc) == user.kind = kind /\ user.pc = pc
UserGoto(pc)     == user' = [user EXCEPT !.pc = pc]
Fault(why)       == blame' = blame \cup {why}

\* Promote.
Promote(r) ==
    /\ nodes[r].st = "passed"
    /\ BeginUser([NoUser EXCEPT !.kind = "promote", !.pc = "create", !.r = {r}])

PromoteCreate ==
    /\ UserAt("promote", "create")
    /\ \E r \in user.r :
       \/ /\ config[r] = NoPort
          /\ \E p \in Ports \ Used(config) :
                config' = [config EXCEPT ![r] = p] /\ user' = [user EXCEPT !.pc = "mark", !.port = p]
          /\ UNCHANGED nodes
       \/ config[r] # NoPort /\ nodes' = [nodes EXCEPT ![r] = Absent] /\ user' = NoUser /\ UNCHANGED config
       \/ user' = NoUser /\ UNCHANGED <<nodes, config>>
    /\ UNCHANGED <<running, op, blame, count>>

PromoteMark ==
    /\ UserAt("promote", "mark")
    /\ \E r \in user.r :
       \/ /\ r \in Present
          /\ nodes' = [nodes EXCEPT ![r].st = "pool", ![r].port = user.port]
          /\ UserGoto("reload") /\ UNCHANGED blame
       \/ UNCHANGED nodes /\ user' = NoUser /\ Fault("ignored")
    /\ UNCHANGED <<config, running, op, count>>

\* The reload whose error nobody looks at.
UserReload ==
    /\ user.pc = "reload"
    /\ \/ ReloadOk /\ Moved(config)
       \/ ReloadFails /\ Fault("ignored")
    /\ user' = IF user.drop # {} \/ user.plan # <<>> THEN [user EXCEPT !.pc = "store", !.r = {}] ELSE NoUser
    /\ UNCHANGED <<nodes, op, count>>

\* Delete, DeleteMany: the nodes leave the configuration, then the store.
DeleteMany(R) ==
    /\ R # {} /\ R \subseteq Present
    /\ BeginUser([NoUser EXCEPT !.kind = "delete", !.pc = IF R \cap InPool # {} THEN "remove" ELSE "store",
                                !.r = R \cap InPool, !.drop = R])

\* MarkSubscriptionFailed: nodes of this source alone fail.
MarkFailed(t) ==
    LET R == {r \in Present : nodes[r].src = {t}} IN
    /\ R # {}
    /\ BeginUser([NoUser EXCEPT !.kind = "fail", !.pc = IF R \cap InPool # {} THEN "remove" ELSE "store",
                                !.r = R \cap InPool,
                                !.plan = [r \in R |-> Entry(nodes[r].src, "failed", NoPort)]])

UserRemove ==
    /\ user.pc = "remove" /\ user.kind # "detach"
    /\ \/ Remove(user.r) /\ UNCHANGED blame
       \/ UNCHANGED config /\ Fault("ignored")
    /\ UserGoto("reload")
    /\ UNCHANGED <<nodes, running, op, count>>

\* detachSources: the source is taken from its nodes, those without another
\* one are deleted; the first error ends it.
Detach(t) ==
    LET gone == {r \in Present : nodes[r].src = {t}}
        keep == {r \in Present : t \in nodes[r].src} \ gone
    IN  /\ gone \cup keep # {}
        /\ BeginUser([NoUser EXCEPT !.kind = "detach", !.pc = IF gone \cap InPool # {} THEN "remove" ELSE "store",
                                    !.r = gone \cap InPool, !.drop = gone,
                                    !.plan = [r \in keep |-> [nodes[r] EXCEPT !.src = @ \ {t}]]])

DetachRemove ==
    /\ UserAt("detach", "remove")
    /\ \/ Remove(user.r) /\ UserGoto("detached") /\ UNCHANGED blame
       \/ UNCHANGED config /\ user' = NoUser /\ UNCHANGED blame
    /\ UNCHANGED <<nodes, running, op, count>>

DetachReload ==
    /\ UserAt("detach", "detached")
    /\ \/ ReloadOk /\ UserGoto("store") /\ Moved(config)
       \/ ReloadFails /\ user' = NoUser /\ Fault("partial")
    /\ UNCHANGED <<nodes, op, count>>

UserStore ==
    /\ user.pc = "store"
    /\ \/ /\ nodes' = [r \in Routes |-> IF r \in user.drop THEN Absent
                                        ELSE IF r \in DOMAIN user.plan THEN user.plan[r] ELSE nodes[r]]
          /\ UNCHANGED blame
       \/ UNCHANGED nodes /\ Fault("partial")
    /\ user' = NoUser
    /\ UNCHANGED <<config, running, op, count>>

\* Exclude: the store alone.
Exclude(r) ==
    /\ "exclude" \in UserKinds /\ user = NoUser /\ count[2] < MaxOps /\ r \in Present
    /\ nodes' = [nodes EXCEPT ![r].st = "excluded"]
    /\ blame' = IF nodes[r].st = "pool" THEN blame \cup {"excluded"} ELSE blame
    /\ op' = [op EXCEPT !.alone = @ /\ op = NoOp]
    /\ count' = [count EXCEPT ![2] = @ + 1]
    /\ UNCHANGED <<config, running, user>>

\* Reorder: the ports of the configuration change hands, those of the store
\* are synchronised when it is next verified.
Reorder(r, s) ==
    /\ r # s /\ {r, s} \subseteq InPool \cap Configured
    /\ BeginUser([NoUser EXCEPT !.kind = "reorder", !.pc = "ports", !.r = {r, s}])

ReorderPorts ==
    /\ UserAt("reorder", "ports")
    /\ LET r == CHOOSE r \in user.r : TRUE  s == CHOOSE s \in user.r : s # r IN
       config' = [config EXCEPT ![r] = config[s], ![s] = config[r]]
    /\ UserGoto("reload")
    /\ Fault("order")
    /\ UNCHANGED <<nodes, running, op, count>>

-----------------------------------------------------------------------------

\* A pool, a configuration and an instance that agree.
Init ==
    /\ config \in [Routes -> Ports \cup {NoPort}]
    /\ Distinct(config)
    /\ \E src \in [Routes -> SUBSET Tags], out \in [Routes -> {"passed", "failed"}] :
          /\ \A r \in Routes : config[r] # NoPort => src[r] # {} /\ out[r] = "passed"
          /\ \A r \in Routes : src[r] = {} => out[r] = "passed"
          /\ nodes = [r \in Routes |-> IF config[r] # NoPort THEN Entry(src[r], "pool", config[r])
                                       ELSE IF src[r] # {} THEN Entry(src[r], out[r], NoPort) ELSE Absent]
    /\ running = config
    /\ op = NoOp /\ user = NoUser /\ blame = {} /\ count = <<0, 0>>

OpStep ==
    \/ Ensure \/ Ensured \/ List \/ Plan \/ RemoveNames \/ StorePlan \/ Pick \/ Create \/ Mark
    \/ Reload \/ Verify \/ Undo \/ UndoConfig \/ Failed
    \/ PlanSelect \/ CreateSelect \/ Settle
    \/ RemoveAll \/ ReloadAll \/ DropNodes \/ UndoAll

UserStep ==
    \/ PromoteCreate \/ PromoteMark \/ UserRemove \/ UserReload \/ DetachRemove \/ DetachReload
    \/ UserStore \/ ReorderPorts

Next ==
    \/ BeginSource \/ BeginSelect \/ BeginAll \/ OpStep
    \/ \E r \in Routes : Promote(r) \/ Exclude(r)
    \/ \E R \in SUBSET Routes : DeleteMany(R)
    \/ \E t \in Tags : Detach(t) \/ MarkFailed(t)
    \/ \E r, s \in Routes : Reorder(r, s)
    \/ UserStep

Spec == Init /\ [][Next]_vars

-----------------------------------------------------------------------------

TypeOK ==
    /\ \A r \in Routes : nodes[r] = Absent \/ (nodes[r].st \in States /\ nodes[r].src \in (SUBSET Tags) \ {{}})
    /\ config \in [Routes -> Ports \cup {NoPort}] /\ running \in [Routes -> Ports \cup {NoPort}]
    /\ op.kind \in {"none"} \cup Kinds /\ user.kind \in {"none"} \cup UserKinds
    /\ op.touched \subseteq Routes /\ op.names \subseteq Routes /\ op.todo \subseteq Routes
    /\ blame \subseteq {"overlap", "rollback", "ignored", "partial", "excluded", "order"}

\* No two routes share a port of the instance, nor of the configuration as
\* long as there is an instance, whatever was taken back and created again
\* from ports the store had kept.
OnePortEach == Distinct(running) /\ (running # Nothing => Distinct(config))

\* At rest the pool is what is configured, port by port, and every port of it
\* is listened on, unless an error was ignored, taking back failed, or an
\* operation without the lock ran beside one with it; and whatever had been
\* wrong, an operation that reports success has put it right.
AtRestAgree ==
    op = NoOp /\ user = NoUser /\ blame = {} =>
        /\ SameRoutes /\ Listened
        /\ \A r \in InPool : nodes[r].port = config[r]

\* The pool is what is configured and listened on, every route on its own port.
PoolIsServed == TypeOK /\ OnePortEach /\ AtRestAgree

\* An operation that failed, and could take back what it had done, has changed
\* nothing, in the store, the configuration or the listeners.
RolledBack ==
    op.pc = "failed" /\ op.alone /\ "rollback" \notin blame =>
        /\ \A r \in Routes : config[r] = NoPort <=> op.cfg[r] = NoPort
        /\ "order" \notin blame => config = op.cfg
        /\ running = config
        /\ op.before # <<>> => nodes = op.before

\* Applying a source takes no node away from another source, and neither that
\* nor the ports of a connectivity job deletes one; what another tag has too
\* stays in the pool whatever the connectivity job says of it, unless it was
\* put there only now and that is taken back.
SharedNodesStay ==
    [][op.kind \in {"source", "select"} /\ op.alone /\ op'.alone =>
          \A r \in Present : nodes[r].src \ op.tags # {} =>
              /\ nodes'[r].src \ op.tags = nodes[r].src \ op.tags
              /\ op.kind = "select" /\ op.pc # "undo" /\ nodes[r].st = "pool" => nodes'[r].st = "pool"]_vars

\* Nor does it, or taking it back, change a node that is neither among the new
\* ones nor of its tag, but for the port, whoever else is at work.
OthersUntouched ==
    [][op.kind = "source" /\ op.pc # "idle" /\ user' = user /\ count' = count =>
          \A r \in Routes : op.tags \cap nodes[r].src = {} /\ r \notin op.touched
                            => [nodes'[r] EXCEPT !.port = 0] = [nodes[r] EXCEPT !.port = 0]]_vars

\* A source is applied, or taken back, without harm to what others have.
OthersKept == SharedNodesStay /\ OthersUntouched
=============================================================================
