------------------------- MODULE SourceApplyProofs -------------------------
(***************************************************************************)
(* Theorems about SourceApply for all sets of routes, sources and ports    *)
(* and any number of operations.                                           *)
(*                                                                         *)
(* The invariant is the conjunction of what each part keeps: types and the *)
(* shape of an operation at each step (Typed, Shape), one port each        *)
(* (OnePortEach), the two sorts of operations one at a time unless it is   *)
(* noted (Apart), what an operation that nobody disturbs has of the store  *)
(* it began with (Alone), and how far the pool, the configuration and what *)
(* is listened on agree, at every step, as long as nothing is noted        *)
(* (Blameless).                                                            *)
(***************************************************************************)
EXTENDS SourceApply, TLAPS

PortOrNone == Ports \cup {NoPort}
Node   == {Absent} \cup [src : (SUBSET Tags) \ {{}}, st : States, port : PortOrNone]
Config == [Routes -> PortOrNone]
Store  == [Routes -> Node]
Plans  == UNION {[D -> Node] : D \in SUBSET Routes}

\* The steps of the locked operations, those before the plan, and the steps of
\* the others.
Labels == {"idle", "ensure", "ensured", "list", "plan", "remove", "store", "pick", "create", "mark",
           "reload", "verify", "settle", "drop", "undo", "undoconfig", "failed"}
Early  == {"ensure", "ensured", "list", "plan"}
UserLabels == {"idle", "create", "mark", "remove", "reload", "detached", "store", "ports"}

Op == [kind : {"none", "source", "select", "all"}, pc : Labels, tags : SUBSET Tags,
       before : {<<>>} \cup Store, cfg : Config, plan : Plans,
       touched : SUBSET Routes, names : SUBSET Routes, todo : SUBSET Routes,
       made : BOOLEAN, alone : BOOLEAN]
User == [kind : {"none", "promote", "delete", "fail", "detach", "reorder"}, pc : UserLabels,
         r : SUBSET Routes, plan : Plans, drop : SUBSET Routes, port : PortOrNone]
Blames == {"overlap", "rollback", "ignored", "partial", "excluded", "order"}

Typed ==
    /\ nodes \in Store /\ config \in Config /\ running \in Config
    /\ op \in Op /\ user \in User /\ blame \subseteq Blames

\* What an operation has at hand at each of its steps.
OpShape ==
    /\ op.kind = "none" => op = NoOp
    /\ op.kind \in {"none"} \cup Kinds
    /\ op.kind = "source" => op.tags # {} /\ op.pc \in Labels \ {"idle", "settle", "drop"}
    /\ op.kind = "select" =>
          op.pc \in {"list", "plan", "remove", "store", "reload", "settle", "verify", "undo", "undoconfig", "failed"}
    /\ op.kind = "all" => op.pc \in {"remove", "reload", "drop", "verify", "undo", "undoconfig", "failed"}
    /\ op.kind # "none" /\ op.pc \notin Early => op.before \in Store
    /\ op.kind = "source" => DOMAIN op.plan \subseteq op.touched /\ op.todo \subseteq op.touched
    /\ op.kind = "source" /\ op.pc \in Early => op.todo = {}
    /\ op.kind = "select" /\ op.pc \notin Early =>
          DOMAIN op.plan \subseteq op.touched /\ op.todo \subseteq op.touched
    /\ op.kind \in {"select", "all"} /\ op.pc \notin Early =>
          op.touched = {r \in Routes : op.before[r] # Absent}

UserShape ==
    /\ user.kind = "none" => user = NoUser
    /\ user.kind \in {"none"} \cup UserKinds
    /\ user.kind # "none" => user.pc # "idle"
    /\ user.kind = "promote" => \E r \in Routes : user.r = {r}
    /\ user.kind = "reorder" => \E r, s \in Routes : r # s /\ user.r = {r, s}
    /\ user.kind \in {"promote", "reorder"} => user.drop = {} /\ user.plan = <<>>

Shape == OpShape /\ UserShape

\* A user's operation begins; Exclude is all of one.
BeginsUser ==
    \/ \E r \in Routes : Promote(r)
    \/ \E R \in SUBSET Routes : DeleteMany(R)
    \/ \E t \in Tags : Detach(t) \/ MarkFailed(t)
    \/ \E r, s \in Routes : Reorder(r, s)

-----------------------------------------------------------------------------
(* What the records are made of.                                           *)

\* The parts of a node; an absent one has no source.
LEMMA NodeParts ==
    ASSUME NEW n \in Node
    PROVE  /\ n = Absent \/ n \in [src : (SUBSET Tags) \ {{}}, st : States, port : PortOrNone]
           /\ n.src \in SUBSET Tags /\ n.port \in PortOrNone /\ n.st \in States \cup {"absent"}
           /\ n.st = "absent" <=> n = Absent
           /\ n.src = {} <=> n = Absent
<1>1. CASE n = Absent
  BY <1>1 DEF Absent, PortOrNone
<1>2. CASE n \in [src : (SUBSET Tags) \ {{}}, st : States, port : PortOrNone]
  <2>1. n.src \in (SUBSET Tags) \ {{}} /\ n.st \in States /\ n.port \in PortOrNone
    BY <1>2
  <2>2. n.st # "absent" /\ Absent.st = "absent" /\ Absent.src = {}
    BY <2>1 DEF States, Absent
  <2> QED BY <1>2, <2>1, <2>2
<1> QED BY <1>1, <1>2 DEF Node

\* An entry with a source is a node with the parts it is made of.
LEMMA EntryIsNode ==
    ASSUME NEW src \in SUBSET Tags, src # {}, NEW st \in States, NEW port \in PortOrNone
    PROVE  /\ Entry(src, st, port) \in Node /\ Entry(src, st, port) # Absent
           /\ Entry(src, st, port).src = src
           /\ Entry(src, st, port).st = st
           /\ Entry(src, st, port).port = port
<1>1. Entry(src, st, port).src = src /\ Absent.src = {}
  BY DEF Entry, Absent
<1>2. Entry(src, st, port) \in [src : (SUBSET Tags) \ {{}}, st : States, port : PortOrNone]
  BY DEF Entry
<1> QED BY <1>1, <1>2 DEF Node, Entry

\* A node that is there stays a node when a part of it changes.
LEMMA ChangedIsNode ==
    ASSUME NEW n \in Node, n # Absent
    PROVE  /\ \A st \in States : [n EXCEPT !.st = st] \in Node
           /\ \A p \in PortOrNone : [n EXCEPT !.port = p] \in Node
           /\ \A st \in States, p \in PortOrNone : [n EXCEPT !.st = st, !.port = p] \in Node
           /\ \A src \in (SUBSET Tags) \ {{}} : [n EXCEPT !.src = src] \in Node
BY DEF Node, Absent, States, PortOrNone

\* The empty plan plans nothing.
LEMMA NoPlan == <<>> \in Plans /\ DOMAIN <<>> = {}
<1>1. <<>> \in [{} -> Node]
  OBVIOUS
<1> QED BY <1>1 DEF Plans

\* A plan is about routes, and plans nodes.
LEMMA PlanParts ==
    ASSUME NEW p \in Plans
    PROVE  DOMAIN p \subseteq Routes /\ \A r \in DOMAIN p : p[r] \in Node
BY DEF Plans

\* Nodes for some routes are a plan.
LEMMA PlanIs ==
    ASSUME NEW D \in SUBSET Routes, NEW f, f \in [D -> Node]
    PROVE  f \in Plans
BY DEF Plans

\* The empty configuration is one.
LEMMA NothingIsConfig == Nothing \in Config
BY DEF Nothing, Config, PortOrNone

\* No operation has the form of one.
LEMMA NoOpIsOp == NoOp \in Op
BY NothingIsConfig, NoPlan DEF NoOp, Op, Labels

\* So has no operation of a user.
LEMMA NoUserIsUser == NoUser \in User
BY NoPlan DEF NoUser, User, UserLabels, PortOrNone

\* What takes back is an operation.
LEMMA TakeBackIsOp ==
    ASSUME op \in Op, NEW pc \in Labels, TakeBack(pc)
    PROVE  op' \in Op
BY NoPlan DEF TakeBack, Op

\* So is one at its next step.
LEMMA GotoIsOp ==
    ASSUME op \in Op, NEW pc \in Labels, Goto(pc)
    PROVE  op' \in Op
BY DEF Goto, Op

-----------------------------------------------------------------------------
(* What the manager leaves is a configuration.                             *)

\* A reload that succeeds serves a configuration.
LEMMA ServesIsConfig ==
    ASSUME NEW c, Serves(c)
    PROVE  config' \in Config /\ running' = config'
BY DEF Serves, Ported, Config, PortOrNone

\* A reload leaves configurations, whether it succeeds or not.
LEMMA ReloadIsConfig ==
    ASSUME config \in Config, running \in Config, ReloadOk \/ ReloadFails
    PROVE  config' \in Config /\ running' \in Config
BY ServesIsConfig, NothingIsConfig DEF ReloadOk, ReloadFails

\* So does the removal of routes.
LEMMA RemoveIsConfig ==
    ASSUME config \in Config, NEW R, Remove(R)
    PROVE  config' \in Config
BY DEF Remove, Config, PortOrNone

\* So does restoring a configuration.
LEMMA RestoreIsConfig ==
    ASSUME config \in Config, running \in Config, NEW c \in Config,
           RestoreConfig(c) \/ RestoreConfigFails(c)
    PROVE  config' \in Config /\ running' \in Config
BY ServesIsConfig, NothingIsConfig DEF RestoreConfig, RestoreConfigFails

\* The store that learns the ports of the configuration.
LEMMA SyncedIsStore ==
    ASSUME nodes \in Store, config \in Config
    PROVE  /\ Synced(nodes) \in Store
           /\ \A r \in Routes : Synced(nodes)[r].st = nodes[r].st /\ Synced(nodes)[r].src = nodes[r].src
<1> DEFINE new(r) == IF nodes[r].st = "pool" /\ config[r] # NoPort THEN [nodes[r] EXCEPT !.port = config[r]] ELSE nodes[r]
<1>1. ASSUME NEW r \in Routes
      PROVE  new(r) \in Node /\ new(r).st = nodes[r].st /\ new(r).src = nodes[r].src
  <2>1. nodes[r] \in Node /\ config[r] \in PortOrNone
    BY DEF Store, Config
  <2>2. CASE nodes[r].st = "pool" /\ config[r] # NoPort
    <3>1. nodes[r] # Absent
      BY <2>2 DEF Absent
    <3>2. nodes[r] \in [src : (SUBSET Tags) \ {{}}, st : States, port : PortOrNone]
      BY <2>1, <3>1 DEF Node
    <3> QED BY <2>1, <2>2, <3>1, <3>2, ChangedIsNode
  <2>3. CASE ~(nodes[r].st = "pool" /\ config[r] # NoPort)
    BY <2>1, <2>3
  <2> QED BY <2>2, <2>3
<1>2. Synced(nodes) = [r \in Routes |-> new(r)]
  BY DEF Synced
<1> HIDE DEF new
<1> QED BY <1>1, <1>2 DEF Store

\* What is planned for a route is a node or none, and keeps the other sources.
LEMMA PlannedIsNode ==
    ASSUME nodes \in Store, op \in Op, op.tags # {}, NEW r \in Routes, NEW in \in {"none", "passed", "failed"}
    PROVE  Planned(r, in) \in Node
<1> DEFINE cur == nodes[r]
<1>1. cur \in Node /\ op.tags \in SUBSET Tags
  BY DEF Store, Op
<1>2. /\ cur.src \in SUBSET Tags /\ cur.port \in PortOrNone
      /\ NoPort \in PortOrNone /\ {"passed", "failed", "pool"} \subseteq States
      /\ Absent \in Node
  BY <1>1, NodeParts DEF PortOrNone, States, Node
<1> HIDE DEF cur
<1>3. CASE cur = Absent
  BY <1>1, <1>2, <1>3, EntryIsNode DEF Planned, cur
<1>4. CASE cur # Absent /\ op.tags \cap cur.src = {}
  <2>1. cur.src \cup op.tags \in SUBSET Tags /\ cur.src \cup op.tags # {}
    BY <1>1, <1>2
  <2> QED BY <1>1, <1>2, <1>4, <2>1, EntryIsNode DEF Planned, cur
<1>5. CASE cur # Absent /\ op.tags \cap cur.src # {} /\ op.tags \subseteq cur.src /\ in # "none"
  BY <1>1, <1>2, <1>5, EntryIsNode DEF Planned, cur
<1>6. CASE cur # Absent /\ op.tags \cap cur.src # {} /\ ~(op.tags \subseteq cur.src /\ in # "none")
  <2>1. Planned(r, in) = IF cur.src \ op.tags = {} THEN Absent ELSE [cur EXCEPT !.src = cur.src \ op.tags]
    BY <1>6 DEF Planned, cur
  <2> QED BY <1>1, <1>2, <1>6, <2>1, ChangedIsNode
<1> QED BY <1>3, <1>4, <1>5, <1>6

\* What Preflight makes of a planned node is one, with its sources.
LEMMA CheckedIsNode ==
    ASSUME nodes \in Store, op \in Op, op.tags # {}, NEW r \in Routes, NEW in \in {"none", "passed", "failed"}, NEW bad
    PROVE  /\ Checked(r, in, bad) \in Node
           /\ Checked(r, in, bad).src = Planned(r, in).src
<1>1. Planned(r, in) \in Node
  BY PlannedIsNode
<1>2. ASSUME Planned(r, in).st \in {"passed", "pool"}
      PROVE  Planned(r, in).src \in SUBSET Tags /\ Planned(r, in).src # {}
  BY <1>1, <1>2, NodeParts DEF Absent
<1>3. "failed" \in States /\ NoPort \in PortOrNone
  BY DEF States, PortOrNone
<1> QED BY <1>1, <1>2, <1>3, EntryIsNode DEF Checked
-----------------------------------------------------------------------------
(* Types.                                                                  *)

\* The steps that change the configuration, and those that change little.
LEMMA TypedPlain ==
    ASSUME Typed, Shape, Ensured \/ List \/ RemoveNames \/ Reload \/ Verify \/
           UndoConfig \/ Failed \/ CreateSelect \/ RemoveAll \/ ReloadAll
    PROVE  Typed'
<1>1. CASE Ensured
  BY <1>1, SyncedIsStore, NoOpIsOp, GotoIsOp, KindsAssumption DEF Typed, Shape, OpShape, UserShape, Ensured, Quit, Labels
<1>2. CASE List
  BY <1>2, KindsAssumption DEF Typed, Shape, OpShape, UserShape, List, Op, Labels
<1>3. CASE RemoveNames
  BY <1>3, RemoveIsConfig, GotoIsOp, TakeBackIsOp, KindsAssumption DEF Typed, Shape, OpShape, UserShape, RemoveNames, Op, Labels
<1>4. CASE Reload
  BY <1>4, ReloadIsConfig, GotoIsOp, TakeBackIsOp, KindsAssumption DEF Typed, Shape, OpShape, UserShape, Reload, Labels
<1>5. CASE Verify
  BY <1>5, SyncedIsStore, NoOpIsOp, TakeBackIsOp, KindsAssumption DEF Typed, Shape, OpShape, UserShape, Verify, Succeeds, Quit, Labels, Blames
<1>6. CASE UndoConfig
  BY <1>6, RestoreIsConfig, GotoIsOp, KindsAssumption DEF Typed, Shape, OpShape, UserShape, UndoConfig, Moved, Labels, Blames, Op
<1>7. CASE Failed
  BY <1>7, NoOpIsOp, KindsAssumption DEF Typed, Shape, OpShape, UserShape, Failed, Quit
<1>8. CASE CreateSelect
  BY <1>8, TakeBackIsOp, KindsAssumption DEF Typed, Shape, OpShape, UserShape, CreateSelect, Op, Labels, Config, PortOrNone
<1>9. CASE RemoveAll
  BY <1>9, RemoveIsConfig, GotoIsOp, TakeBackIsOp, KindsAssumption DEF Typed, Shape, OpShape, UserShape, RemoveAll, Labels
<1>10. CASE ReloadAll
  BY <1>10, ReloadIsConfig, GotoIsOp, TakeBackIsOp, KindsAssumption DEF Typed, Shape, OpShape, UserShape, ReloadAll, Labels
<1> QED BY <1>1, <1>2, <1>3, <1>4, <1>5, <1>6, <1>7, <1>8, <1>9, <1>10

\* An operation with the lock begins.
LEMMA TypedBegin ==
    ASSUME Typed, NEW new \in Op, Begin(new)
    PROVE  Typed'
BY DEF Typed, Begin, Op, Blames

\* It is the applying of a source.
LEMMA TypedBeginSource ==
    ASSUME Typed, BeginSource
    PROVE  Typed'
<1>1. PICK t \in Tags : Begin([NoOp EXCEPT !.kind = "source", !.pc = "ensure", !.tags = {t}])
  BY DEF BeginSource
<1>2. [NoOp EXCEPT !.kind = "source", !.pc = "ensure", !.tags = {t}] \in Op
  BY NoOpIsOp DEF Op, Labels
<1> QED BY <1>1, <1>2, TypedBegin

\* It is the ports of a connectivity job.
LEMMA TypedBeginSelect ==
    ASSUME Typed, BeginSelect
    PROVE  Typed'
<1>1. PICK T \in SUBSET Tags, Q \in SUBSET Routes, F \in SUBSET Routes :
          Begin([NoOp EXCEPT !.kind = "select", !.pc = "list", !.tags = T, !.names = F,
                             !.todo = Q \cup (InPool \ F)])
  <2>1. PICK T \in (SUBSET Tags) \ {{}} : \E Q \in SUBSET {r \in Present : nodes[r].src \cap T # {}} :
          LET chosen == {r \in Present : nodes[r].src \cap T # {} /\ nodes[r].st # "excluded"}
              fails  == {r \in chosen \ Q : nodes[r].src \subseteq T}
          IN  Begin([NoOp EXCEPT !.kind = "select", !.pc = "list", !.tags = T, !.names = fails,
                                    !.todo = Q \cup (InPool \ fails)])
    BY DEF BeginSelect
  <2>4. PICK Q \in SUBSET {r \in Present : nodes[r].src \cap T # {}} :
          LET chosen == {r \in Present : nodes[r].src \cap T # {} /\ nodes[r].st # "excluded"}
              fails  == {r \in chosen \ Q : nodes[r].src \subseteq T}
          IN  Begin([NoOp EXCEPT !.kind = "select", !.pc = "list", !.tags = T, !.names = fails,
                                    !.todo = Q \cup (InPool \ fails)])
    BY <2>1
  <2> DEFINE fails == {r \in {r \in Present : nodes[r].src \cap T # {} /\ nodes[r].st # "excluded"} \ Q : nodes[r].src \subseteq T}
  <2>2. Q \in SUBSET Routes /\ fails \in SUBSET Routes
    BY DEF Present
  <2>3. Begin([NoOp EXCEPT !.kind = "select", !.pc = "list", !.tags = T, !.names = fails,
                                    !.todo = Q \cup (InPool \ fails)])
    BY <2>4
  <2> HIDE DEF fails
  <2> QED BY <2>2, <2>3
<1>2. [NoOp EXCEPT !.kind = "select", !.pc = "list", !.tags = T, !.names = F,
                   !.todo = Q \cup (InPool \ F)] \in Op
  BY NoOpIsOp DEF Op, Labels, InPool
<1> QED BY <1>1, <1>2, TypedBegin

\* It is the deletion of everything.
LEMMA TypedBeginAll ==
    ASSUME Typed, BeginAll
    PROVE  Typed'
<1>1. [NoOp EXCEPT !.kind = "all", !.pc = "remove", !.cfg = config,
                   !.before = nodes, !.touched = Present, !.names = Configured] \in Op
  BY NoOpIsOp DEF Op, Labels, Present, Configured, Typed
<1> QED BY <1>1, TypedBegin DEF BeginAll

\* The store learns ports, or the configuration is made from it.
LEMMA TypedEnsure ==
    ASSUME Typed, Ensure
    PROVE  Typed'
<1>1. user' = user /\ blame' = blame
  BY DEF Ensure
<1>2. CASE nodes' = Synced(nodes) /\ Goto("list") /\ UNCHANGED <<config, running>>
  BY <1>1, <1>2, SyncedIsStore, GotoIsOp DEF Typed, Labels
<1>3. CASE UNCHANGED nodes /\
           LET c == [r \in Routes |-> IF r \in InPool THEN nodes[r].port ELSE NoPort] IN
             \/ RestoreConfig(c) /\ Goto("ensured")
             \/ RestoreConfigFails(c) /\ Quit
  <2> DEFINE c == [r \in Routes |-> IF r \in InPool THEN nodes[r].port ELSE NoPort]
  <2>1. ASSUME NEW r \in Routes PROVE nodes[r].port \in PortOrNone /\ NoPort \in PortOrNone
    BY NodeParts DEF Typed, Store, PortOrNone
  <2>2. c \in Config
    BY <2>1 DEF Config
  <2> HIDE DEF c
  <2>3. \/ RestoreConfig(c) /\ Goto("ensured")
        \/ RestoreConfigFails(c) /\ Quit
    BY <1>3 DEF c
  <2> QED BY <1>1, <1>3, <2>2, <2>3, RestoreIsConfig, GotoIsOp, NoOpIsOp DEF Typed, Labels, Quit
<1>4. CASE UNCHANGED <<nodes, config, running>> /\ Quit
  BY <1>1, <1>4, NoOpIsOp DEF Typed, Quit
<1> QED BY <1>2, <1>3, <1>4 DEF Ensure

\* Routes of f are set to nodes.
LEMMA MergedIsStore ==
    ASSUME nodes \in Store, NEW D \in SUBSET Routes, NEW f, \A r \in D : f[r] \in Node
    PROVE  [r \in Routes |-> IF r \in D THEN f[r] ELSE nodes[r]] \in Store
BY DEF Store

\* A store without some of its nodes is one.
LEMMA DroppedIsStore ==
    ASSUME nodes \in Store, NEW D \in SUBSET Routes
    PROVE  [r \in Routes |-> IF r \in D THEN Absent ELSE nodes[r]] \in Store
BY DEF Store, Node

\* What a source plans is a plan.
LEMMA TypedPlan ==
    ASSUME Typed, Shape, Plan
    PROVE  Typed'
<1>1. PICK S \in SUBSET Routes, bad \in Bad : \E P \in SUBSET S :
          LET in(r)   == IF r \in P THEN "passed" ELSE IF r \in S THEN "failed" ELSE "none"
              touched == S \cup {r \in Routes : op.tags \cap nodes[r].src # {}}
              result(r) == Checked(r, in(r), bad)
          IN  op' = [op EXCEPT !.pc = "remove", !.before = nodes, !.touched = touched,
                               !.plan  = [r \in {r \in touched : Written(r, in(r)) \/ Planned(r, in(r)) = Absent} |-> result(r)],
                               !.names = {r \in InPool : result(r).st # "pool"}]
  BY DEF Plan
<1>6. PICK P \in SUBSET S :
          LET in(r)   == IF r \in P THEN "passed" ELSE IF r \in S THEN "failed" ELSE "none"
              touched == S \cup {r \in Routes : op.tags \cap nodes[r].src # {}}
              result(r) == Checked(r, in(r), bad)
          IN  op' = [op EXCEPT !.pc = "remove", !.before = nodes, !.touched = touched,
                               !.plan  = [r \in {r \in touched : Written(r, in(r)) \/ Planned(r, in(r)) = Absent} |-> result(r)],
                               !.names = {r \in InPool : result(r).st # "pool"}]
  BY <1>1
<1> DEFINE in(r)   == IF r \in P THEN "passed" ELSE IF r \in S THEN "failed" ELSE "none"
           touched == S \cup {r \in Routes : op.tags \cap nodes[r].src # {}}
           result(r) == Checked(r, in(r), bad)
           D == {r \in touched : Written(r, in(r)) \/ Planned(r, in(r)) = Absent}
           plan  == [r \in D |-> result(r)]
           names == {r \in InPool : result(r).st # "pool"}
<1>2. op' = [op EXCEPT !.pc = "remove", !.before = nodes, !.touched = touched, !.plan = plan, !.names = names]
  BY <1>6
<1>3. touched \in SUBSET Routes /\ D \in SUBSET Routes /\ names \in SUBSET Routes
  BY DEF InPool
<1>4. \A r \in Routes : result(r) \in Node
  BY CheckedIsNode DEF Typed, Shape, OpShape, UserShape, Plan, At
<1>5. plan \in Plans
  <2>1. plan \in [D -> Node]
    BY <1>3, <1>4
  <2> HIDE DEF plan, D
  <2> QED BY <1>3, <2>1, PlanIs
<1> HIDE DEF touched, plan, names
<1> QED BY <1>2, <1>3, <1>5 DEF Typed, Plan, Op, Labels

\* A store with what was planned is one.
LEMMA TypedStorePlan ==
    ASSUME Typed, Shape, StorePlan
    PROVE  Typed'
<1>1. CASE nodes' = nodes /\ TakeBack("undo")
  BY <1>1, TakeBackIsOp DEF Typed, StorePlan, Labels
<1>2. CASE nodes' = [r \in Routes |-> IF r \in DOMAIN op.plan THEN op.plan[r] ELSE nodes[r]]
  <2>1. op.plan \in Plans
    BY DEF Typed, Op
  <2>2. nodes' \in Store
    BY <1>2, <2>1, PlanParts, MergedIsStore DEF Typed
  <2>3. {r \in DOMAIN op.plan : op.plan[r].st = "passed"} \in SUBSET Routes
    BY <2>1, PlanParts
  <2> QED BY <2>2, <2>3, NoPlan, TakeBackIsOp DEF Typed, StorePlan, Op, Labels
<1> QED BY <1>1, <1>2 DEF StorePlan

\* Duplicates leave the store.
LEMMA TypedPick ==
    ASSUME Typed, Shape, Pick
    PROVE  Typed'
<1> DEFINE open == {r \in op.todo : nodes[r].st = "passed"}
           double == open \cap Configured
<1>1. /\ nodes' = [r \in Routes |-> IF r \in double THEN Absent ELSE nodes[r]]
      /\ \/ op' = [op EXCEPT !.todo = open \ double, !.pc = IF open \subseteq double THEN "reload" ELSE "create"]
         \/ TakeBack("undo")
      /\ UNCHANGED <<config, running, user, blame>>
  BY DEF Pick
<1>2. open \in SUBSET Routes /\ double \in SUBSET Routes
  BY DEF Typed, Op
<1> HIDE DEF open, double
<1>3. nodes' \in Store
  BY <1>1, <1>2, DroppedIsStore DEF Typed
<1>4. open \ double \in SUBSET Routes
  BY <1>2
<1>5. CASE op' = [op EXCEPT !.todo = open \ double, !.pc = "reload"]
  BY <1>1, <1>3, <1>4, <1>5 DEF Typed, Op, Labels
<1>6. CASE op' = [op EXCEPT !.todo = open \ double, !.pc = "create"]
  BY <1>1, <1>3, <1>4, <1>6 DEF Typed, Op, Labels
<1>7. CASE TakeBack("undo")
  BY <1>1, <1>3, <1>7, TakeBackIsOp DEF Typed, Labels
<1> QED BY <1>1, <1>5, <1>6, <1>7

\* New routes in the configuration, duplicates out of the store.
LEMMA TypedCreate ==
    ASSUME Typed, Shape, Create
    PROVE  Typed'
<1> DEFINE taken == op.todo \cap Configured
<1>1. PICK C \in SUBSET (op.todo \ taken) :
          /\ config' \in Config
          /\ nodes' = [r \in Routes |-> IF r \in taken THEN Absent ELSE nodes[r]]
          /\ op' = [op EXCEPT !.pc = "mark", !.todo = C] \/ TakeBack("undo")
  BY DEF Create, Config, PortOrNone
<1>2. taken \in SUBSET Routes /\ C \in SUBSET Routes
  BY DEF Typed, Op
<1> HIDE DEF taken
<1>3. nodes' \in Store
  BY <1>1, <1>2, DroppedIsStore DEF Typed
<1> QED BY <1>1, <1>2, <1>3, TakeBackIsOp DEF Typed, Create, Op, Labels

\* What was created is marked with its port.
LEMMA TypedMark ==
    ASSUME Typed, Shape, Mark
    PROVE  Typed'
<1>1. CASE nodes' = nodes
  BY <1>1, TakeBackIsOp DEF Typed, Mark, Labels, Op
<1>2. CASE nodes' = [r \in Routes |-> IF r \in op.todo \cap Present
                                        THEN [nodes[r] EXCEPT !.st = "pool", !.port = config[r]] ELSE nodes[r]]
  <2>1. ASSUME NEW r \in op.todo \cap Present
        PROVE  [nodes[r] EXCEPT !.st = "pool", !.port = config[r]] \in Node
    <3>1. nodes[r] \in Node /\ nodes[r] # Absent /\ config[r] \in PortOrNone
      BY DEF Typed, Store, Present, Config
    <3> QED BY <3>1, ChangedIsNode DEF States
  <2>2. nodes' \in Store
    BY <1>2, <2>1 DEF Store, Typed
  <2> QED BY <2>2, TakeBackIsOp DEF Typed, Mark, Op, Labels
<1> QED BY <1>1, <1>2 DEF Mark

\* The nodes touched go back to what they were.
LEMMA TypedUndo ==
    ASSUME Typed, Shape, Undo
    PROVE  Typed'
<1>1. op.before \in Store /\ op.touched \in SUBSET Routes /\ op' \in Op
  BY NoOpIsOp, GotoIsOp DEF Typed, Shape, OpShape, UserShape, Undo, Op, Early, NoOp, Labels
<1>2. nodes' \in Store
  BY <1>1, MergedIsStore DEF Typed, Undo, Store
<1> QED BY <1>1, <1>2 DEF Typed, Undo, Blames

\* All nodes go back.
LEMMA TypedUndoAll ==
    ASSUME Typed, Shape, UndoAll
    PROVE  Typed'
<1>1. op.before \in Store /\ op' \in Op
  BY GotoIsOp DEF Typed, Shape, OpShape, UserShape, UndoAll, At, Early, Labels
<1> QED BY <1>1 DEF Typed, UndoAll, Blames

\* What a connectivity job plans is a plan.
LEMMA TypedPlanSelect ==
    ASSUME Typed, Shape, PlanSelect
    PROVE  Typed'
<1>1. CASE Quit
  BY <1>1, NoOpIsOp DEF Typed, PlanSelect, Quit
<1>2. CASE ~Quit
  <2>1. PICK bad \in Bad :
          LET out   == (op.todo \cap bad \cap Present) \ InPool
              want  == (op.todo \cap Present) \ out
              fails == (op.names \cup out) \cap Present
          IN  op' = [op EXCEPT !.pc = "remove", !.before = nodes, !.touched = Present, !.todo = want,
                              !.names = (InPool \ want) \cap {r \in Routes : op.cfg[r] # NoPort},
                              !.plan = [r \in Present |-> IF r \in fails THEN Entry(nodes[r].src, "failed", NoPort) ELSE nodes[r]]]
    BY <1>2 DEF PlanSelect
  <2> DEFINE out   == (op.todo \cap bad \cap Present) \ InPool
             want  == (op.todo \cap Present) \ out
             fails == (op.names \cup out) \cap Present
             names == (InPool \ want) \cap {r \in Routes : op.cfg[r] # NoPort}
             plan  == [r \in Present |-> IF r \in fails THEN Entry(nodes[r].src, "failed", NoPort) ELSE nodes[r]]
  <2>2. op' = [op EXCEPT !.pc = "remove", !.before = nodes, !.touched = Present, !.todo = want,
                              !.names = names, !.plan = plan]
    BY <2>1
  <2>3. want \in SUBSET Routes /\ names \in SUBSET Routes /\ Present \in SUBSET Routes
    BY DEF Present, InPool
  <2>4. plan \in Plans
    <3>1. ASSUME NEW r \in Present
          PROVE  nodes[r] \in Node /\ Entry(nodes[r].src, "failed", NoPort) \in Node
      <4>1. nodes[r] \in Node /\ nodes[r] # Absent
        BY DEF Typed, Store, Present
      <4> QED BY <4>1, NodeParts, EntryIsNode DEF States, PortOrNone
    <3>2. plan \in [Present -> Node]
      BY <3>1
    <3> HIDE DEF plan
    <3> QED BY <2>3, <3>2, PlanIs
  <2> HIDE DEF want, names, plan
  <2> QED BY <2>2, <2>3, <2>4 DEF Typed, PlanSelect, Op, Labels
<1> QED BY <1>1, <1>2

\* A store with the nodes of the job in the pool is one.
LEMMA TypedSettle ==
    ASSUME Typed, Shape, Settle
    PROVE  Typed'
<1>1. CASE nodes' = nodes
  BY <1>1, GotoIsOp, TakeBackIsOp DEF Typed, Settle, Labels
<1>2. CASE nodes' = [r \in Routes |->
                          IF r \in op.todo THEN Entry(op.before[r].src, "pool", config[r])
                          ELSE IF r \in DOMAIN op.plan THEN op.plan[r] ELSE nodes[r]]
  <2>1. op.before \in Store /\ \A r \in op.todo : r \in Routes /\ op.before[r] # Absent
    BY DEF Shape, OpShape, UserShape, Settle, At, Early
  <2>2. ASSUME NEW r \in op.todo PROVE Entry(op.before[r].src, "pool", config[r]) \in Node
    <3>1. op.before[r] \in Node /\ op.before[r] # Absent /\ config[r] \in PortOrNone
      BY <2>1 DEF Typed, Store, Config
    <3> QED BY <3>1, NodeParts, EntryIsNode DEF States
  <2>3. op.plan \in Plans
    BY DEF Typed, Op
  <2>4. ASSUME NEW r \in DOMAIN op.plan PROVE op.plan[r] \in Node
    BY <2>3, PlanParts
  <2>5. nodes' \in Store
    BY <1>2, <2>2, <2>4 DEF Typed, Store
  <2> QED BY <2>5, GotoIsOp, TakeBackIsOp DEF Typed, Settle, Labels
<1> QED BY <1>1, <1>2 DEF Settle

\* The deletion of everything empties the store.
LEMMA TypedDropNodes ==
    ASSUME Typed, Shape, DropNodes
    PROVE  Typed'
<1>1. op.touched \in SUBSET Routes
  BY DEF Typed, Op
<1>2. nodes' \in Store
  BY <1>1, DroppedIsStore DEF Typed, DropNodes
<1> QED BY <1>2, GotoIsOp, TakeBackIsOp DEF Typed, DropNodes, Labels

\* The operation in hand sees only that it is no longer alone.
LEMMA AloneIsOp ==
    ASSUME op \in Op, NEW b \in BOOLEAN, op' = [op EXCEPT !.alone = b]
    PROVE  /\ op' \in Op
           /\ op'.kind = op.kind /\ op'.pc = op.pc /\ op'.tags = op.tags /\ op'.before = op.before
           /\ op'.cfg = op.cfg /\ op'.plan = op.plan /\ op'.touched = op.touched
           /\ op'.names = op.names /\ op'.todo = op.todo /\ op'.made = op.made
           /\ op'.alone = b
BY DEF Op

\* An operation of a user begins.
LEMMA TypedBeginUser ==
    ASSUME Typed, NEW new \in User, BeginUser(new)
    PROVE  Typed'
BY AloneIsOp DEF Typed, BeginUser, Blames

\* It is Promote.
LEMMA TypedPromote ==
    ASSUME Typed, NEW r \in Routes, Promote(r)
    PROVE  Typed'
<1>1. [NoUser EXCEPT !.kind = "promote", !.pc = "create", !.r = {r}] \in User
  BY NoUserIsUser DEF User, UserLabels
<1> QED BY <1>1, TypedBeginUser DEF Promote

\* It is the exchange of two ports.
LEMMA TypedReorder ==
    ASSUME Typed, NEW r \in Routes, NEW s \in Routes, Reorder(r, s)
    PROVE  Typed'
<1>1. [NoUser EXCEPT !.kind = "reorder", !.pc = "ports", !.r = {r, s}] \in User
  BY NoUserIsUser DEF User, UserLabels
<1> QED BY <1>1, TypedBeginUser DEF Reorder

\* It is DeleteMany.
LEMMA TypedDeleteMany ==
    ASSUME Typed, NEW R \in SUBSET Routes, DeleteMany(R)
    PROVE  Typed'
<1>1. [NoUser EXCEPT !.kind = "delete", !.pc = IF R \cap InPool # {} THEN "remove" ELSE "store",
                                !.r = R \cap InPool, !.drop = R] \in User
  BY NoUserIsUser DEF User, UserLabels
<1> QED BY <1>1, TypedBeginUser DEF DeleteMany

\* It is MarkSubscriptionFailed, whose plan is one.
LEMMA TypedMarkFailed ==
    ASSUME Typed, NEW t \in Tags, MarkFailed(t)
    PROVE  Typed'
<1> DEFINE R == {r \in Present : nodes[r].src = {t}}
           plan == [r \in R |-> Entry(nodes[r].src, "failed", NoPort)]
<1>1. R \in SUBSET Routes
  BY DEF Present
<1>2. ASSUME NEW r \in R PROVE Entry(nodes[r].src, "failed", NoPort) \in Node
  <2>1. nodes[r].src \in SUBSET Tags /\ nodes[r].src # {}
    OBVIOUS
  <2> QED BY <2>1, EntryIsNode DEF States, PortOrNone
<1>3. plan \in [R -> Node]
  BY <1>2
<1>4. BeginUser([NoUser EXCEPT !.kind = "fail", !.pc = IF R \cap InPool # {} THEN "remove" ELSE "store",
                                !.r = R \cap InPool, !.plan = plan])
  BY DEF MarkFailed
<1> HIDE DEF R, plan
<1>5. plan \in Plans
  BY <1>1, <1>3, PlanIs
<1>6. [NoUser EXCEPT !.kind = "fail", !.pc = IF R \cap InPool # {} THEN "remove" ELSE "store",
                                !.r = R \cap InPool, !.plan = plan] \in User
  BY <1>1, <1>5, NoUserIsUser DEF User, UserLabels
<1> QED BY <1>4, <1>6, TypedBeginUser

\* It is detachSources, whose plan leaves each node a source.
LEMMA TypedDetach ==
    ASSUME Typed, NEW t \in Tags, Detach(t)
    PROVE  Typed'
<1> DEFINE gone == {r \in Present : nodes[r].src = {t}}
           keep == {r \in Present : t \in nodes[r].src} \ gone
           plan == [r \in keep |-> [nodes[r] EXCEPT !.src = @ \ {t}]]
<1>1. gone \in SUBSET Routes /\ keep \in SUBSET Routes
  BY DEF Present
<1>2. ASSUME NEW r \in keep PROVE [nodes[r] EXCEPT !.src = @ \ {t}] \in Node
  <2>1. nodes[r] \in Node /\ nodes[r] # Absent /\ nodes[r].src # {t} /\ t \in nodes[r].src
    BY DEF Present, Typed, Store
  <2>2. nodes[r].src \ {t} \in (SUBSET Tags) \ {{}}
    BY <2>1, NodeParts
  <2> QED BY <2>1, <2>2, ChangedIsNode
<1>3. plan \in [keep -> Node]
  BY <1>2
<1>4. BeginUser([NoUser EXCEPT !.kind = "detach", !.pc = IF gone \cap InPool # {} THEN "remove" ELSE "store",
                                    !.r = gone \cap InPool, !.drop = gone, !.plan = plan])
  BY DEF Detach
<1> HIDE DEF gone, keep, plan
<1>5. plan \in Plans
  BY <1>1, <1>3, PlanIs
<1>6. [NoUser EXCEPT !.kind = "detach", !.pc = IF gone \cap InPool # {} THEN "remove" ELSE "store",
                                    !.r = gone \cap InPool, !.drop = gone, !.plan = plan] \in User
  BY <1>1, <1>5, NoUserIsUser DEF User, UserLabels
<1> QED BY <1>4, <1>6, TypedBeginUser

\* A node is excluded.
LEMMA TypedExclude ==
    ASSUME Typed, NEW r \in Routes, Exclude(r)
    PROVE  Typed'
<1>1. nodes[r] \in Node /\ nodes[r] # Absent
  BY DEF Typed, Store, Exclude, Present
<1>2. [nodes[r] EXCEPT !.st = "excluded"] \in Node
  BY <1>1, ChangedIsNode DEF States
<1>3. nodes' \in Store
  BY <1>2 DEF Typed, Store, Exclude
<1>4. op' \in Op
  BY AloneIsOp DEF Typed, Exclude
<1> QED BY <1>3, <1>4 DEF Typed, Exclude, Blames

\* An operation of a user at its next step is one.
LEMMA UserGotoIsUser ==
    ASSUME user \in User, NEW pc \in UserLabels, UserGoto(pc)
    PROVE  user' \in User
BY DEF UserGoto, User

\* Promote creates a port, or deletes a duplicate.
LEMMA TypedPromoteCreate ==
    ASSUME Typed, Shape, PromoteCreate
    PROVE  Typed'
<1>1. PICK r \in user.r :
       \/ /\ config[r] = NoPort
          /\ \E p \in Ports \ Used(config) :
                config' = [config EXCEPT ![r] = p] /\ user' = [user EXCEPT !.pc = "mark", !.port = p]
          /\ UNCHANGED nodes
       \/ config[r] # NoPort /\ nodes' = [nodes EXCEPT ![r] = Absent] /\ user' = NoUser /\ UNCHANGED config
       \/ user' = NoUser /\ UNCHANGED <<nodes, config>>
  BY DEF PromoteCreate
<1>2. CASE nodes' = nodes /\ \E p \in Ports : config' = [config EXCEPT ![r] = p] /\ user' = [user EXCEPT !.pc = "mark", !.port = p]
  <2>1. PICK p \in Ports : config' = [config EXCEPT ![r] = p] /\ user' = [user EXCEPT !.pc = "mark", !.port = p]
    BY <1>2
  <2>2. p \in PortOrNone
    BY DEF PortOrNone
  <2>3. config' \in Config
    BY <2>1, <2>2 DEF Typed, Config
  <2>4. user' \in User
    BY <2>1, <2>2 DEF Typed, User, UserLabels
  <2> QED BY <1>2, <2>3, <2>4 DEF Typed, PromoteCreate
<1>3. CASE nodes' = [nodes EXCEPT ![r] = Absent] /\ user' = NoUser /\ UNCHANGED config
  BY <1>3, NoUserIsUser DEF Typed, PromoteCreate, Store, Node
<1>4. CASE user' = NoUser /\ UNCHANGED <<nodes, config>>
  BY <1>4, NoUserIsUser DEF Typed, PromoteCreate
<1> QED BY <1>1, <1>2, <1>3, <1>4

\* Promote marks its node.
LEMMA TypedPromoteMark ==
    ASSUME Typed, Shape, PromoteMark
    PROVE  Typed'
<1>1. PICK r \in user.r :
       \/ /\ r \in Present
          /\ nodes' = [nodes EXCEPT ![r].st = "pool", ![r].port = user.port]
          /\ UserGoto("reload") /\ UNCHANGED blame
       \/ UNCHANGED nodes /\ user' = NoUser /\ Fault("ignored")
  BY DEF PromoteMark
<1>2. CASE r \in Present /\ nodes' = [nodes EXCEPT ![r].st = "pool", ![r].port = user.port] /\ UserGoto("reload") /\ UNCHANGED blame
  <2>1. nodes[r] \in Node /\ nodes[r] # Absent /\ user.port \in PortOrNone
    BY <1>2 DEF Typed, Store, Present, User
  <2>2. [nodes[r] EXCEPT !.st = "pool", !.port = user.port] \in Node
    BY <2>1, ChangedIsNode DEF States
  <2>3. nodes' = [nodes EXCEPT ![r] = [nodes[r] EXCEPT !.st = "pool", !.port = user.port]]
    BY <1>2 DEF Typed, Store
  <2> QED BY <1>2, <2>2, <2>3, UserGotoIsUser DEF Typed, PromoteMark, Store, UserLabels
<1>3. CASE UNCHANGED nodes /\ user' = NoUser /\ Fault("ignored")
  BY <1>3, NoUserIsUser DEF Typed, PromoteMark, Fault, Blames
<1> QED BY <1>1, <1>2, <1>3

\* The reload of a user's operation.
LEMMA TypedUserReload ==
    ASSUME Typed, Shape, UserReload
    PROVE  Typed'
<1>1. config' \in Config /\ running' \in Config
  BY ReloadIsConfig DEF Typed, UserReload
<1>2. blame' \subseteq Blames
  BY DEF Typed, UserReload, Moved, Fault, Blames
<1>3. user' \in User
  BY NoUserIsUser DEF Typed, UserReload, User, UserLabels
<1> QED BY <1>1, <1>2, <1>3 DEF Typed, UserReload

\* It takes its routes from the configuration.
LEMMA TypedUserRemove ==
    ASSUME Typed, Shape, UserRemove
    PROVE  Typed'
BY RemoveIsConfig, UserGotoIsUser DEF Typed, UserRemove, Fault, Blames, UserLabels

\* So does detachSources, or it stops.
LEMMA TypedDetachRemove ==
    ASSUME Typed, Shape, DetachRemove
    PROVE  Typed'
BY RemoveIsConfig, UserGotoIsUser, NoUserIsUser DEF Typed, DetachRemove, UserLabels

\* The reload of detachSources.
LEMMA TypedDetachReload ==
    ASSUME Typed, Shape, DetachReload
    PROVE  Typed'
BY ReloadIsConfig, UserGotoIsUser, NoUserIsUser DEF Typed, DetachReload, Moved, Fault, Blames, UserLabels

\* It writes its nodes.
LEMMA TypedUserStore ==
    ASSUME Typed, Shape, UserStore
    PROVE  Typed'
<1>1. user.plan \in Plans
  BY DEF Typed, User
<1>2. \A r \in DOMAIN user.plan : user.plan[r] \in Node
  BY <1>1, PlanParts
<1>3. nodes' \in Store
  <2>1. CASE UNCHANGED nodes
    BY <2>1 DEF Typed
  <2>2. CASE nodes' = [r \in Routes |-> IF r \in user.drop THEN Absent
                                        ELSE IF r \in DOMAIN user.plan THEN user.plan[r] ELSE nodes[r]]
    <3>1. Absent \in Node
      BY DEF Node
    <3> QED BY <1>2, <2>2, <3>1 DEF Typed, Store
  <2> QED BY <2>1, <2>2 DEF UserStore
<1> QED BY <1>3, NoUserIsUser DEF Typed, UserStore, Fault, Blames

\* Two ports change hands.
LEMMA TypedReorderPorts ==
    ASSUME Typed, Shape, ReorderPorts
    PROVE  Typed'
<1>1. PICK r, s \in Routes : config' = [config EXCEPT ![r] = config[s], ![s] = config[r]]
  <2>1. PICK a, b \in Routes : a # b /\ user.r = {a, b}
    BY DEF Shape, OpShape, UserShape, ReorderPorts, UserAt
  <2> DEFINE r == CHOOSE r \in user.r : TRUE
             s == CHOOSE s \in user.r : s # r
  <2>0. \E x \in user.r : TRUE
    BY <2>1
  <2>2. r \in user.r
    BY <2>0
  <2> HIDE DEF r
  <2>3. \E x \in user.r : x # r
    BY <2>1
  <2>4. s \in user.r
    BY <2>3
  <2>5. config' = [config EXCEPT ![r] = config[s], ![s] = config[r]]
    BY DEF ReorderPorts, r
  <2> QED BY <2>1, <2>2, <2>4, <2>5
<1>2. config' \in Config
  BY <1>1 DEF Typed, Config
<1> QED BY <1>2, UserGotoIsUser DEF Typed, ReorderPorts, Fault, Blames, UserLabels

-----------------------------------------------------------------------------
(* Shapes.                                                                 *)

\* The next step changes nothing else.
LEMMA GotoFields ==
    ASSUME op \in Op, NEW pc \in Labels, Goto(pc)
    PROVE  /\ op'.kind = op.kind /\ op'.pc = pc /\ op'.tags = op.tags /\ op'.before = op.before
           /\ op'.cfg = op.cfg /\ op'.plan = op.plan /\ op'.touched = op.touched
           /\ op'.names = op.names /\ op'.todo = op.todo /\ op'.made = op.made
           /\ op'.alone = op.alone
BY DEF Op, Goto

\* Taking back forgets the plan and keeps what it needs.
LEMMA TakeBackFields ==
    ASSUME op \in Op, NEW pc \in Labels, TakeBack(pc)
    PROVE  /\ op'.kind = op.kind /\ op'.pc = pc /\ op'.tags = op.tags /\ op'.before = op.before
           /\ op'.cfg = op.cfg /\ op'.plan = <<>> /\ op'.touched = op.touched
           /\ op'.names = {} /\ op'.todo = {} /\ op'.made = FALSE
           /\ op'.alone = op.alone
BY DEF Op, TakeBack

\* No operation has the shape of none.
LEMMA NoOpShape == ASSUME op' = NoOp PROVE OpShape'
BY DEF OpShape, NoOp, Early

\* Nor has no operation of a user.
LEMMA NoUserShape == ASSUME user' = NoUser PROVE UserShape'
BY DEF UserShape, NoUser

\* A source is planned: each route touched, T, gets what its part "in" among
\* the new nodes calls for.
LEMMA PlanFields ==
    ASSUME Typed, Shape, Plan
    PROVE  \E T \in SUBSET Routes : \E in \in [Routes -> {"none", "passed", "failed"}] : \E bad \in Bad :
           /\ op.kind = "source" /\ op.pc = "plan" /\ op.todo = {} /\ op.tags # {}
           /\ op'.kind = "source" /\ op'.pc = "remove" /\ op'.tags = op.tags /\ op'.cfg = op.cfg
           /\ op'.before = nodes /\ op'.touched = T /\ op'.todo = {} /\ op'.alone = op.alone
           /\ op'.names = {r \in InPool : Checked(r, in[r], bad).st # "pool"}
           /\ DOMAIN op'.plan = {r \in T : Written(r, in[r]) \/ Planned(r, in[r]) = Absent}
           /\ \A r \in DOMAIN op'.plan : op'.plan[r] = Checked(r, in[r], bad)
           /\ \A r \in Routes : in[r] # "none" \/ op.tags \cap nodes[r].src # {} => r \in T
<1>1. op.kind = "source" /\ op.pc = "plan" /\ op.todo = {} /\ op.tags # {}
  BY DEF Shape, OpShape, Plan, At, Early
<1>2. PICK S \in SUBSET Routes, bad \in Bad : \E P \in SUBSET S :
          LET in(r)   == IF r \in P THEN "passed" ELSE IF r \in S THEN "failed" ELSE "none"
              touched == S \cup {r \in Routes : op.tags \cap nodes[r].src # {}}
              result(r) == Checked(r, in(r), bad)
          IN  op' = [op EXCEPT !.pc = "remove", !.before = nodes, !.touched = touched,
                               !.plan  = [r \in {r \in touched : Written(r, in(r)) \/ Planned(r, in(r)) = Absent} |-> result(r)],
                               !.names = {r \in InPool : result(r).st # "pool"}]
  BY DEF Plan
<1>3. PICK P \in SUBSET S :
          LET in(r)   == IF r \in P THEN "passed" ELSE IF r \in S THEN "failed" ELSE "none"
              touched == S \cup {r \in Routes : op.tags \cap nodes[r].src # {}}
              result(r) == Checked(r, in(r), bad)
          IN  op' = [op EXCEPT !.pc = "remove", !.before = nodes, !.touched = touched,
                               !.plan  = [r \in {r \in touched : Written(r, in(r)) \/ Planned(r, in(r)) = Absent} |-> result(r)],
                               !.names = {r \in InPool : result(r).st # "pool"}]
  BY <1>2
<1> DEFINE in == [r \in Routes |-> IF r \in P THEN "passed" ELSE IF r \in S THEN "failed" ELSE "none"]
           T == S \cup {r \in Routes : op.tags \cap nodes[r].src # {}}
           D == {r \in T : Written(r, in[r]) \/ Planned(r, in[r]) = Absent}
           N == {r \in InPool : Checked(r, in[r], bad).st # "pool"}
           plan == [r \in D |-> Checked(r, in[r], bad)]
<1>4. T \in SUBSET Routes /\ InPool \subseteq Routes
  BY DEF InPool
<1>5. op' = [op EXCEPT !.pc = "remove", !.before = nodes, !.touched = T, !.plan = plan, !.names = N]
  <2> DEFINE part(r) == IF r \in P THEN "passed" ELSE IF r \in S THEN "failed" ELSE "none"
             D0 == {r \in T : Written(r, part(r)) \/ Planned(r, part(r)) = Absent}
             N0 == {r \in InPool : Checked(r, part(r), bad).st # "pool"}
             plan0 == [r \in D0 |-> Checked(r, part(r), bad)]
  <2>1. op' = [op EXCEPT !.pc = "remove", !.before = nodes, !.touched = T, !.plan = plan0, !.names = N0]
    BY <1>3
  <2>2. \A r \in Routes : in[r] = part(r)
    OBVIOUS
  <2> HIDE DEF in, part, T
  <2>3. D = D0
    BY <1>4, <2>2
  <2>4. D \subseteq Routes
    BY <1>4
  <2> HIDE DEF D, D0
  <2>5. plan = plan0
    BY <2>2, <2>3, <2>4
  <2>6. N = N0
    BY <1>4, <2>2
  <2> QED BY <2>1, <2>5, <2>6
<1>6. in \in [Routes -> {"none", "passed", "failed"}]
  OBVIOUS
<1>7. \A r \in Routes : in[r] # "none" \/ op.tags \cap nodes[r].src # {} => r \in T
  OBVIOUS
<1>8. DOMAIN plan = D /\ \A r \in D : plan[r] = Checked(r, in[r], bad)
  OBVIOUS
<1> HIDE DEF in, T, plan
<1>9. /\ op'.kind = "source" /\ op'.pc = "remove" /\ op'.tags = op.tags /\ op'.cfg = op.cfg
      /\ op'.before = nodes /\ op'.touched = T /\ op'.todo = {} /\ op'.alone = op.alone
      /\ op'.names = N /\ op'.plan = plan
  <2> HIDE DEF N
  <2> QED BY <1>1, <1>5 DEF Typed, Op
<1> QED BY <1>1, <1>4, <1>6, <1>7, <1>8, <1>9

\* A connectivity job is planned: the routes of F fail, those of op'.todo are to
\* be in the pool.
LEMMA SelectFields ==
    ASSUME Typed, Shape, PlanSelect, ~Quit
    PROVE  \E bad \in Bad : \E F \in SUBSET Present :
           /\ op.kind = "select" /\ op.pc = "plan"
           /\ op'.kind = "select" /\ op'.pc = "remove" /\ op'.tags = op.tags /\ op'.cfg = op.cfg
           /\ op'.before = nodes /\ op'.touched = Present /\ op'.alone = op.alone
           /\ op'.todo \subseteq Present
           /\ F \cap InPool \subseteq op.names
           /\ DOMAIN op'.plan = Present
           /\ \A r \in Present : op'.plan[r] = IF r \in F THEN Entry(nodes[r].src, "failed", NoPort) ELSE nodes[r]
<1>1. PICK bad \in Bad :
          LET out   == (op.todo \cap bad \cap Present) \ InPool
              want  == (op.todo \cap Present) \ out
              fails == (op.names \cup out) \cap Present
          IN  op' = [op EXCEPT !.pc = "remove", !.before = nodes, !.touched = Present, !.todo = want,
                              !.names = (InPool \ want) \cap {r \in Routes : op.cfg[r] # NoPort},
                              !.plan = [r \in Present |-> IF r \in fails THEN Entry(nodes[r].src, "failed", NoPort) ELSE nodes[r]]]
  BY DEF PlanSelect
<1> DEFINE out   == (op.todo \cap bad \cap Present) \ InPool
           want  == (op.todo \cap Present) \ out
           F     == (op.names \cup out) \cap Present
           names == (InPool \ want) \cap {r \in Routes : op.cfg[r] # NoPort}
           plan  == [r \in Present |-> IF r \in F THEN Entry(nodes[r].src, "failed", NoPort) ELSE nodes[r]]
<1>2. op' = [op EXCEPT !.pc = "remove", !.before = nodes, !.touched = Present, !.todo = want, !.names = names, !.plan = plan]
  BY <1>1
<1>3. want \subseteq Present /\ F \in SUBSET Present /\ F \cap InPool \subseteq op.names
  OBVIOUS
<1>4. DOMAIN plan = Present /\ \A r \in Present : plan[r] = IF r \in F THEN Entry(nodes[r].src, "failed", NoPort) ELSE nodes[r]
  OBVIOUS
<1>5. op.kind = "select" /\ op.pc = "plan"
  BY DEF PlanSelect, At
<1> HIDE DEF want, names, plan, F
<1>6. /\ op'.kind = "select" /\ op'.pc = "remove" /\ op'.tags = op.tags /\ op'.cfg = op.cfg
      /\ op'.before = nodes /\ op'.touched = Present /\ op'.alone = op.alone /\ op'.todo = want /\ op'.plan = plan
  BY <1>2, <1>5 DEF Typed, Op
<1> QED BY <1>3, <1>4, <1>5, <1>6

\* An operation past its plan goes on with no more than it has.
GoesOn ==
    /\ op.kind # "none" /\ op.pc \notin Early /\ op'.pc \notin Early
    /\ op'.kind = op.kind /\ op'.tags = op.tags /\ op'.before = op.before /\ op'.touched = op.touched
    /\ DOMAIN op'.plan \subseteq DOMAIN op.plan /\ op'.todo \subseteq op.todo
    /\ op.kind = "source" => op'.pc \in Labels \ {"idle", "settle", "drop"}
    /\ op.kind = "select" =>
          op'.pc \in {"remove", "store", "reload", "settle", "verify", "undo", "undoconfig", "failed"}
    /\ op.kind = "all" => op'.pc \in {"remove", "reload", "drop", "verify", "undo", "undoconfig", "failed"}

\* Its shape stays.
LEMMA KeptShape == ASSUME OpShape, GoesOn PROVE OpShape'
BY DEF OpShape, GoesOn, Early

\* The steps that go on so.
LEMMA ShapeOnward ==
    ASSUME Typed, Shape, RemoveNames \/ Reload \/ Undo \/ UndoConfig \/ CreateSelect \/ Settle \/ RemoveAll \/ ReloadAll
                         \/ DropNodes \/ UndoAll
    PROVE  OpShape'
<1>1. CASE RemoveNames
  <2>1. op.kind # "none" /\ op.pc \notin Early
    BY <1>1 DEF Shape, OpShape, NoOp, Early, RemoveNames
  <2>2. GoesOn
    BY <1>1, <2>1, GotoFields, TakeBackFields, NoPlan DEF GoesOn, Typed, Shape, OpShape, Op, Early, Labels, RemoveNames
  <2> QED BY <2>2, KeptShape DEF Shape
<1>2. CASE Reload
  <2>1. op.kind # "none" /\ op.pc \notin Early
    BY <1>2 DEF Shape, OpShape, NoOp, Early, Reload
  <2>2. GoesOn
    BY <1>2, <2>1, GotoFields, TakeBackFields, NoPlan DEF GoesOn, Typed, Shape, OpShape, Op, Early, Labels, Reload
  <2> QED BY <2>2, KeptShape DEF Shape
<1>3. CASE Undo
  <2>1. op.kind # "none" /\ op.pc \notin Early
    BY <1>3 DEF Shape, OpShape, NoOp, Early, Undo
  <2>2. GoesOn
    BY <1>3, <2>1, GotoFields, TakeBackFields, NoPlan DEF GoesOn, Typed, Shape, OpShape, Op, Early, Labels, Undo
  <2> QED BY <2>2, KeptShape DEF Shape
<1>4. CASE UndoConfig
  <2>1. op.kind # "none" /\ op.pc \notin Early
    BY <1>4 DEF Shape, OpShape, NoOp, Early, UndoConfig
  <2>2. GoesOn
    BY <1>4, <2>1, GotoFields, TakeBackFields, NoPlan DEF GoesOn, Typed, Shape, OpShape, Op, Early, Labels, UndoConfig
  <2> QED BY <2>2, KeptShape DEF Shape
<1>5. CASE CreateSelect
  <2>1. op.kind # "none" /\ op.pc \notin Early
    BY <1>5 DEF Shape, OpShape, NoOp, Early, CreateSelect, At
  <2>2. GoesOn
    BY <1>5, <2>1, GotoFields, TakeBackFields, NoPlan DEF GoesOn, Typed, Shape, OpShape, Op, Early, Labels, CreateSelect, At
  <2> QED BY <2>2, KeptShape DEF Shape
<1>6. CASE Settle
  <2>1. op.kind # "none" /\ op.pc \notin Early
    BY <1>6 DEF Shape, OpShape, NoOp, Early, Settle, At
  <2>2. GoesOn
    BY <1>6, <2>1, GotoFields, TakeBackFields, NoPlan DEF GoesOn, Typed, Shape, OpShape, Op, Early, Labels, Settle, At
  <2> QED BY <2>2, KeptShape DEF Shape
<1>7. CASE RemoveAll
  <2>1. op.kind # "none" /\ op.pc \notin Early
    BY <1>7 DEF Shape, OpShape, NoOp, Early, RemoveAll, At
  <2>2. GoesOn
    BY <1>7, <2>1, GotoFields, TakeBackFields, NoPlan DEF GoesOn, Typed, Shape, OpShape, Op, Early, Labels, RemoveAll, At
  <2> QED BY <2>2, KeptShape DEF Shape
<1>8. CASE ReloadAll
  <2>1. op.kind # "none" /\ op.pc \notin Early
    BY <1>8 DEF Shape, OpShape, NoOp, Early, ReloadAll, At
  <2>2. GoesOn
    BY <1>8, <2>1, GotoFields, TakeBackFields, NoPlan DEF GoesOn, Typed, Shape, OpShape, Op, Early, Labels, ReloadAll, At
  <2> QED BY <2>2, KeptShape DEF Shape
<1>9. CASE DropNodes
  <2>1. op.kind # "none" /\ op.pc \notin Early
    BY <1>9 DEF Shape, OpShape, NoOp, Early, DropNodes
  <2>2. GoesOn
    BY <1>9, <2>1, GotoFields, TakeBackFields, NoPlan DEF GoesOn, Typed, Shape, OpShape, Op, Early, Labels, DropNodes
  <2> QED BY <2>2, KeptShape DEF Shape
<1>10. CASE UndoAll
  <2>1. op.kind # "none" /\ op.pc \notin Early
    BY <1>10 DEF Shape, OpShape, NoOp, Early, UndoAll, At
  <2>2. GoesOn
    BY <1>10, <2>1, GotoFields, TakeBackFields, NoPlan DEF GoesOn, Typed, Shape, OpShape, Op, Early, Labels, UndoAll, At
  <2> QED BY <2>2, KeptShape DEF Shape
<1> QED BY <1>1, <1>2, <1>3, <1>4, <1>5, <1>6, <1>7, <1>8, <1>9, <1>10

\* An operation begins, or is over.
LEMMA ShapeBeginSource ==
    ASSUME Typed, Shape, BeginSource
    PROVE  OpShape'
BY NoOpIsOp, NoPlan DEF Typed, Shape, OpShape, Early, Labels, BeginSource, Begin, NoOp

\* The ports of a connectivity job begin.
LEMMA ShapeBeginSelect ==
    ASSUME Typed, Shape, BeginSelect
    PROVE  OpShape'
BY DEF Typed, Shape, OpShape, Early, Labels, BeginSelect, Begin, NoOp

\* The deletion of everything begins.
LEMMA ShapeBeginAll ==
    ASSUME Typed, Shape, BeginAll
    PROVE  OpShape'
BY DEF Typed, Shape, OpShape, Early, Labels, BeginAll, Begin, NoOp, Present

\* Before the list, a source goes on or is over.
LEMMA ShapeEnsure ==
    ASSUME Typed, Shape, Ensure
    PROVE  OpShape'
BY GotoFields, NoOpShape DEF Typed, Shape, OpShape, Early, Labels, Ensure, Quit

\* The plan is written; what passed and is touched is to be promoted.
LEMMA ShapeStorePlan ==
    ASSUME Typed, Shape, StorePlan
    PROVE  OpShape'
<1>1. op.kind = "source" /\ op.pc = "store" /\ op.before \in Store
  BY DEF Shape, OpShape, StorePlan, At, Early
<1>2. CASE TakeBack("undo")
  BY <1>1, <1>2, TakeBackFields, NoPlan, KeptShape DEF GoesOn, Typed, Shape, Early, Labels
<1>3. CASE ~TakeBack("undo")
  <2> DEFINE passed == {r \in DOMAIN op.plan : op.plan[r].st = "passed"}
  <2>1. \/ op' = [op EXCEPT !.pc = "reload", !.plan = <<>>]
        \/ op' = [op EXCEPT !.pc = "pick", !.plan = <<>>, !.todo = passed]
    BY <1>3 DEF StorePlan
  <2>2. passed \subseteq op.touched
    BY <1>1 DEF Shape, OpShape
  <2> HIDE DEF passed
  <2>3. /\ op'.kind = "source" /\ op'.pc \in {"reload", "pick"} /\ op'.tags = op.tags /\ op'.before = op.before
        /\ op'.plan = <<>> /\ op'.touched = op.touched /\ op'.todo \subseteq op.touched
    BY <1>1, <2>1, <2>2 DEF Typed, Op, Shape, OpShape
  <2> QED BY <1>1, <2>3, NoPlan DEF Shape, OpShape, Early, Labels
<1> QED BY <1>2, <1>3

\* The duplicates are out.
LEMMA ShapePick ==
    ASSUME Typed, Shape, Pick
    PROVE  OpShape'
<1>1. op.kind = "source" /\ op.pc = "pick"
  BY DEF Typed, Shape, OpShape, Op, NoOp, Pick
<1>2. CASE TakeBack("undo")
  BY <1>1, <1>2, TakeBackFields, NoPlan, KeptShape DEF GoesOn, Typed, Shape, Early, Labels
<1>3. CASE ~TakeBack("undo")
  <2> DEFINE open == {r \in op.todo : nodes[r].st = "passed"}
             left == open \ (open \cap Configured)
  <2>1. op' = [op EXCEPT !.todo = left, !.pc = IF open \subseteq open \cap Configured THEN "reload" ELSE "create"]
    BY <1>3 DEF Pick
  <2>2. left \subseteq op.todo
    OBVIOUS
  <2> HIDE DEF left, open
  <2>3. /\ op'.kind = op.kind /\ op'.pc \in {"reload", "create"} /\ op'.tags = op.tags /\ op'.before = op.before
        /\ op'.plan = op.plan /\ op'.touched = op.touched /\ op'.todo \subseteq op.todo
    BY <2>1, <2>2 DEF Typed, Op
  <2> QED BY <1>1, <2>3, KeptShape DEF GoesOn, Shape, Early, Labels
<1> QED BY <1>2, <1>3

\* What was created is to be marked.
LEMMA ShapeCreate ==
    ASSUME Typed, Shape, Create
    PROVE  OpShape'
<1>1. op.kind = "source" /\ op.pc = "create"
  BY DEF Typed, Shape, OpShape, Op, NoOp, Create
<1>2. CASE TakeBack("undo")
  BY <1>1, <1>2, TakeBackFields, NoPlan, KeptShape DEF GoesOn, Typed, Shape, Early, Labels
<1>3. CASE ~TakeBack("undo")
  <2>1. PICK C \in SUBSET op.todo : op' = [op EXCEPT !.pc = "mark", !.todo = C]
    BY <1>3 DEF Create
  <2>2. /\ op'.kind = op.kind /\ op'.pc = "mark" /\ op'.tags = op.tags /\ op'.before = op.before
        /\ op'.plan = op.plan /\ op'.touched = op.touched /\ op'.todo \subseteq op.todo
    BY <2>1 DEF Typed, Op
  <2> QED BY <1>1, <2>2, KeptShape DEF GoesOn, Shape, Early, Labels
<1> QED BY <1>2, <1>3

\* What was marked is done.
LEMMA ShapeMark ==
    ASSUME Typed, Shape, Mark
    PROVE  OpShape'
<1>1. op.kind = "source" /\ op.pc = "mark"
  <2>1. op.pc = "mark"
    BY DEF Mark
  <2> QED BY <2>1 DEF Typed, Shape, OpShape, Op, NoOp
<1>2. CASE TakeBack("undo")
  BY <1>1, <1>2, TakeBackFields, NoPlan, KeptShape DEF GoesOn, Typed, Shape, Early, Labels
<1>3. CASE ~TakeBack("undo")
  <2>1. PICK b : op' = [op EXCEPT !.pc = "reload", !.todo = {}, !.made = b]
    BY <1>3 DEF Mark
  <2>2. /\ op'.kind = op.kind /\ op'.pc = "reload" /\ op'.tags = op.tags /\ op'.before = op.before
        /\ op'.plan = op.plan /\ op'.touched = op.touched /\ op'.todo \subseteq op.todo
    BY <2>1 DEF Typed, Op
  <2> QED BY <1>1, <2>2, KeptShape DEF GoesOn, Shape, Early, Labels
<1> QED BY <1>2, <1>3

\* After the configuration was made from the pool.
LEMMA ShapeEnsured ==
    ASSUME Typed, Shape, Ensured
    PROVE  OpShape'
<1>1. op.kind = "source"
  BY DEF Typed, Shape, OpShape, Op, NoOp, Ensured
<1>2. CASE Goto("list")
  BY <1>1, <1>2, GotoFields DEF Typed, Shape, OpShape, Early, Labels, Ensured
<1>3. CASE Quit
  BY <1>3, NoOpShape DEF Quit
<1> QED BY <1>2, <1>3 DEF Ensured

\* The configuration of before is kept.
LEMMA ShapeList ==
    ASSUME Typed, Shape, List
    PROVE  OpShape'
<1>1. op.kind \in {"source", "select"} /\ op.pc = "list"
  BY DEF Typed, Shape, OpShape, Op, NoOp, List
<1>2. /\ op'.kind = op.kind /\ op'.pc = "plan" /\ op'.tags = op.tags
      /\ op'.plan = op.plan /\ op'.touched = op.touched /\ op'.todo = op.todo
  BY DEF Typed, Op, List
<1> QED BY <1>1, <1>2 DEF Shape, OpShape, Early, Labels

\* A source plans for the nodes touched.
LEMMA ShapePlan ==
    ASSUME Typed, Shape, Plan
    PROVE  OpShape'
<1>1. op.kind = "source" /\ op.pc = "plan" /\ op.todo = {}
  BY DEF Shape, OpShape, Plan, At, Early
<1>2. /\ op'.kind = "source" /\ op'.pc = "remove" /\ op'.tags = op.tags /\ op'.before = nodes
      /\ DOMAIN op'.plan \subseteq op'.touched /\ op'.todo = {}
  BY PlanFields
<1> QED BY <1>1, <1>2 DEF Typed, Shape, OpShape, Early, Labels

\* The operation is over or taken back.
LEMMA ShapeVerify ==
    ASSUME Typed, Shape, Verify
    PROVE  OpShape'
<1>1. op.kind # "none" /\ op.pc = "verify"
  BY DEF Shape, OpShape, NoOp, Verify
<1>2. CASE TakeBack("undo")
  BY <1>1, <1>2, TakeBackFields, NoPlan, KeptShape DEF GoesOn, Typed, Shape, Early, Labels
<1>3. CASE Succeeds
  BY <1>3, NoOpShape DEF Succeeds, Quit
<1> QED BY <1>2, <1>3 DEF Verify

\* A connectivity job plans for the nodes that are there.
LEMMA ShapePlanSelect ==
    ASSUME Typed, Shape, PlanSelect
    PROVE  OpShape'
<1>1. CASE Quit
  BY <1>1, NoOpShape DEF Quit
<1>2. CASE ~Quit
  <2>2. /\ op'.kind = op.kind /\ op'.pc = "remove" /\ op'.before = nodes /\ op'.touched = Present
        /\ DOMAIN op'.plan = Present /\ op'.todo \subseteq Present
    BY <1>2, SelectFields
  <2>3. op.kind = "select"
    BY DEF PlanSelect, At
  <2> QED BY <2>2, <2>3 DEF Typed, Shape, OpShape, Early, Labels, Present
<1> QED BY <1>1, <1>2
\* The beginning of a user's operation leaves the other as it is.
LEMMA ShapeBeginUser ==
    ASSUME Typed, Shape, NEW new, BeginUser(new)
    PROVE  OpShape'
<1>1. CASE op.kind = "none"
  <2>1. op = NoOp
    BY <1>1 DEF Shape, OpShape
  <2>2. op' = NoOp
    BY <2>1 DEF BeginUser, NoOp
  <2> QED BY <2>2, NoOpShape
<1>2. CASE op.kind # "none"
  BY <1>2, AloneIsOp DEF Typed, Shape, OpShape, Early, BeginUser
<1> QED BY <1>1, <1>2

\* So does Exclude.
LEMMA ShapeExclude ==
    ASSUME Typed, Shape, NEW r \in Routes, Exclude(r)
    PROVE  Shape'
<1>1. CASE op.kind = "none"
  <2>1. op = NoOp
    BY <1>1 DEF Shape, OpShape
  <2>2. op' = NoOp
    BY <2>1 DEF Exclude, NoOp
  <2> QED BY <2>2, NoOpShape DEF Shape, UserShape, Exclude
<1>2. CASE op.kind # "none"
  BY <1>2, AloneIsOp DEF Typed, Shape, OpShape, UserShape, Early, Exclude
<1> QED BY <1>1, <1>2

\* Operations of users begin with what they need.
LEMMA ShapeBeginsUser ==
    ASSUME Typed, Shape, BeginsUser
    PROVE  Shape'
<1>1. ASSUME NEW r \in Routes, Promote(r) PROVE Shape'
  BY <1>1, ShapeBeginUser DEF Shape, UserShape, Promote, BeginUser, NoUser
<1>2. ASSUME NEW R \in SUBSET Routes, DeleteMany(R) PROVE Shape'
  BY <1>2, ShapeBeginUser DEF Shape, UserShape, DeleteMany, BeginUser, NoUser
<1>3. ASSUME NEW t \in Tags, Detach(t) PROVE Shape'
  BY <1>3, ShapeBeginUser DEF Shape, UserShape, Detach, BeginUser, NoUser
<1>4. ASSUME NEW t \in Tags, MarkFailed(t) PROVE Shape'
  BY <1>4, ShapeBeginUser DEF Shape, UserShape, MarkFailed, BeginUser, NoUser
<1>5. ASSUME NEW r \in Routes, NEW s \in Routes, Reorder(r, s) PROVE Shape'
  BY <1>5, ShapeBeginUser DEF Shape, UserShape, Reorder, BeginUser, NoUser
<1> QED BY <1>1, <1>2, <1>3, <1>4, <1>5 DEF BeginsUser

\* The operation of a user goes on.
LEMMA UserGoesOn ==
    ASSUME UserShape, user.kind # "none", user'.kind = user.kind, user'.pc # "idle",
           user.kind \in {"promote", "reorder"} => user'.r = user.r,
           user'.drop = user.drop, user'.plan = user.plan
    PROVE  UserShape'
BY DEF UserShape

\* The next step of a user's operation changes nothing else.
LEMMA UserGotoFields ==
    ASSUME user \in User, NEW pc \in UserLabels, UserGoto(pc)
    PROVE  /\ user'.kind = user.kind /\ user'.pc = pc /\ user'.r = user.r
           /\ user'.plan = user.plan /\ user'.drop = user.drop /\ user'.port = user.port
BY DEF User, UserGoto

\* A reload ends a user's operation, or the store is next.
LEMMA ShapeUserReload ==
    ASSUME Typed, Shape, UserReload
    PROVE  UserShape'
<1>1. CASE user' = NoUser
  BY <1>1, NoUserShape
<1>2. CASE user.drop # {} \/ user.plan # <<>>
  <2>1. user' = [user EXCEPT !.pc = "store", !.r = {}]
    BY <1>2 DEF UserReload
  <2>2. user'.kind = user.kind /\ user'.pc = "store" /\ user'.drop = user.drop /\ user'.plan = user.plan
    BY <2>1 DEF Typed, User
  <2>3. user.kind # "none" /\ user.kind \notin {"promote", "reorder"}
    BY <1>2 DEF Shape, UserShape, NoUser
  <2> QED BY <2>2, <2>3, UserGoesOn DEF Shape
<1> QED BY <1>1, <1>2 DEF UserReload

\* The other steps of users keep what was begun.
LEMMA ShapeUser ==
    ASSUME Typed, Shape,
           PromoteCreate \/ PromoteMark \/ UserRemove \/ DetachRemove \/ DetachReload \/ UserStore \/ ReorderPorts
    PROVE  UserShape'
<1>1. CASE user' = NoUser
  BY <1>1, NoUserShape
<1>2. CASE user' # NoUser
  <2>1. user.kind # "none"
    <3>1. user.pc # "idle"
      BY DEF PromoteCreate, PromoteMark, UserRemove, DetachRemove, DetachReload, UserStore, ReorderPorts, UserAt
    <3> QED BY <3>1 DEF Shape, UserShape, NoUser
  <2>2. \/ \E pc \in UserLabels \ {"idle"} : UserGoto(pc)
        \/ \E p \in PortOrNone : user' = [user EXCEPT !.pc = "mark", !.port = p]
    BY <1>2 DEF PromoteCreate, PromoteMark, UserRemove, DetachRemove, DetachReload, UserStore, ReorderPorts,
                UserLabels, PortOrNone
  <2>3. /\ user'.kind = user.kind /\ user'.pc # "idle" /\ user'.r = user.r
        /\ user'.drop = user.drop /\ user'.plan = user.plan
    <3>1. CASE \E pc \in UserLabels \ {"idle"} : UserGoto(pc)
      BY <3>1, UserGotoFields DEF Typed
    <3>2. CASE \E p \in PortOrNone : user' = [user EXCEPT !.pc = "mark", !.port = p]
      BY <3>2 DEF Typed, User
    <3> QED BY <2>2, <3>1, <3>2
  <2> QED BY <2>1, <2>3, UserGoesOn DEF Shape
<1> QED BY <1>1, <1>2

\* Types and shapes are kept by every step.
LEMMA TypedShape ==
    ASSUME Typed, Shape, [Next]_vars
    PROVE  Typed' /\ Shape'
<1>1. CASE UNCHANGED vars
  BY <1>1 DEF Typed, Shape, OpShape, UserShape, vars
<1>2. CASE BeginSource \/ BeginSelect \/ BeginAll
  <2>1. user' = user
    BY <1>2 DEF BeginSource, BeginSelect, BeginAll, Begin
  <2> QED BY <1>2, <2>1, TypedBeginSource, TypedBeginSelect, TypedBeginAll, ShapeBeginSource, ShapeBeginSelect,
             ShapeBeginAll DEF Shape, UserShape
<1>3. CASE OpStep
  <2>1. user' = user
    BY <1>3 DEF OpStep, Ensure, Ensured, List, Plan, RemoveNames, StorePlan, Pick, Create, Mark, Reload, Verify, Undo,
                UndoConfig, Failed, PlanSelect, CreateSelect, Settle, RemoveAll, ReloadAll, DropNodes, UndoAll
  <2>2. Typed'
    BY <1>3, TypedEnsure, TypedPlain, TypedPlan, TypedStorePlan, TypedPick, TypedCreate, TypedMark, TypedUndo,
       TypedPlanSelect, TypedSettle, TypedDropNodes, TypedUndoAll DEF OpStep
  <2>3. OpShape'
    BY <1>3, NoOpShape, ShapeEnsure, ShapeOnward, ShapeEnsured, ShapeList, ShapePlan, ShapeStorePlan, ShapePick, ShapeCreate,
       ShapeMark, ShapeVerify, ShapePlanSelect DEF OpStep, Failed, Quit
  <2> QED BY <2>1, <2>2, <2>3 DEF Shape, UserShape
<1>4. CASE BeginsUser
  BY <1>4, TypedPromote, TypedDeleteMany, TypedDetach, TypedMarkFailed, TypedReorder, ShapeBeginsUser DEF BeginsUser
<1>5. CASE \E r \in Routes : Exclude(r)
  BY <1>5, TypedExclude, ShapeExclude
<1>6. CASE UserStep
  <2>1. Typed'
    BY <1>6, TypedPromoteCreate, TypedPromoteMark, TypedUserRemove, TypedUserReload, TypedDetachRemove,
       TypedDetachReload, TypedUserStore, TypedReorderPorts DEF UserStep
  <2>2. op' = op
    BY <1>6 DEF UserStep, PromoteCreate, PromoteMark, UserRemove, UserReload, DetachRemove, DetachReload, UserStore,
                ReorderPorts
  <2> QED BY <1>6, <2>1, <2>2, ShapeUser, ShapeUserReload DEF UserStep, Shape, OpShape
<1> QED BY <1>1, <1>2, <1>3, <1>4, <1>5, <1>6 DEF Next, BeginsUser

-----------------------------------------------------------------------------
(* Ports.                                                                  *)

\* The empty configuration shares no port.
LEMMA NothingIsDistinct == Distinct(Nothing)
BY DEF Distinct, Nothing

\* A configuration that is served shares none.
LEMMA ServesOnePort ==
    ASSUME NEW c, Serves(c)
    PROVE  OnePortEach'
BY DEF Serves, Ported, Distinct, OnePortEach

\* Nor does what a reload leaves.
LEMMA ReloadOnePort ==
    ASSUME OnePortEach, ReloadOk \/ ReloadFails
    PROVE  OnePortEach'
<1>1. CASE ReloadOk
  BY <1>1, ServesOnePort DEF ReloadOk
<1>2. CASE ReloadFails
  BY <1>2, NothingIsDistinct DEF ReloadFails, OnePortEach, Distinct
<1> QED BY <1>1, <1>2

\* Nor what restoring leaves.
LEMMA RestoreOnePort ==
    ASSUME OnePortEach, NEW c, RestoreConfig(c) \/ RestoreConfigFails(c)
    PROVE  OnePortEach'
<1>1. CASE RestoreConfig(c)
  BY <1>1, ServesOnePort DEF RestoreConfig
<1>2. CASE RestoreConfigFails(c)
  BY <1>2, NothingIsDistinct DEF RestoreConfigFails, OnePortEach, Distinct
<1> QED BY <1>1, <1>2

\* Nor what a removal leaves.
LEMMA RemoveOnePort ==
    ASSUME OnePortEach, NEW R, Remove(R), running' = running
    PROVE  OnePortEach'
BY DEF Remove, OnePortEach, Distinct

\* New routes get ports that nobody has.
LEMMA CreatedOnePort ==
    ASSUME OnePortEach, Created(config'), running' = running
    PROVE  OnePortEach'
<1>1. ASSUME Distinct(config), NEW r \in Routes, NEW s \in Routes, r # s, config'[r] # NoPort
      PROVE  config'[r] # config'[s]
  <2>1. CASE config'[r] # config[r]
    BY <2>1, <1>1 DEF Created
  <2>2. CASE config'[s] # config[s]
    BY <2>2, <1>1 DEF Created
  <2>3. CASE config'[r] = config[r] /\ config'[s] = config[s]
    BY <2>3, <1>1 DEF Distinct
  <2> QED BY <2>1, <2>2, <2>3
<1> QED BY <1>1 DEF OnePortEach, Distinct

\* The two that change hands stay two.
LEMMA ReorderOnePort ==
    ASSUME Typed, Shape, OnePortEach, ReorderPorts
    PROVE  OnePortEach'
<1>1. PICK a, b \in Routes : a # b /\ user.r = {a, b}
  BY DEF Shape, UserShape, ReorderPorts, UserAt
<1> DEFINE r == CHOOSE r \in user.r : TRUE
           s == CHOOSE s \in user.r : s # r
<1>2. r \in user.r
  <2>1. \E x \in user.r : TRUE
    BY <1>1
  <2> QED BY <2>1
<1>3. config' = [config EXCEPT ![r] = config[s], ![s] = config[r]] /\ running' = running
  BY DEF ReorderPorts
<1> HIDE DEF r
<1>4. s \in user.r /\ s # r
  <2>1. \E x \in user.r : x # r
    BY <1>1
  <2> QED BY <2>1
<1> HIDE DEF s
<1>5. \A x \in Routes : config'[x] = IF x = r THEN config[s] ELSE IF x = s THEN config[r] ELSE config[x]
  BY <1>1, <1>2, <1>3, <1>4 DEF Typed, Config
<1>6. r \in Routes /\ s \in Routes
  BY <1>1, <1>2, <1>4
<1>7. ASSUME Distinct(config), NEW x \in Routes, NEW y \in Routes, x # y, config'[x] # NoPort
      PROVE  config'[x] # config'[y]
  <2> DEFINE from(z) == IF z = r THEN s ELSE IF z = s THEN r ELSE z
  <2>1. \A z \in Routes : from(z) \in Routes /\ config'[z] = config[from(z)]
    BY <1>5, <1>6
  <2>2. from(x) # from(y)
    BY <1>4, <1>7
  <2> HIDE DEF from
  <2> QED BY <1>7, <2>1, <2>2 DEF Distinct
<1>8. Distinct(config) => Distinct(config')
  BY <1>7 DEF Distinct
<1> QED BY <1>3, <1>8 DEF OnePortEach

\* No step has two routes share a port.
LEMMA OnePortKept ==
    ASSUME Typed, Shape, OnePortEach, [Next]_vars
    PROVE  OnePortEach'
<1>1. ASSUME UNCHANGED <<config, running>> PROVE OnePortEach'
  BY <1>1 DEF OnePortEach, Distinct
<1>2. CASE UNCHANGED vars
  BY <1>1, <1>2 DEF vars
<1>3. CASE Ensure
  BY <1>1, <1>3, RestoreOnePort DEF Ensure
<1>4. CASE RemoveNames
  BY <1>1, <1>4, RemoveOnePort DEF RemoveNames
<1>5. CASE Create
  BY <1>5, CreatedOnePort DEF Create
<1>6. CASE Reload
  BY <1>1, <1>6, ReloadOnePort DEF Reload
<1>7. CASE UndoConfig
  BY <1>7, RestoreOnePort DEF UndoConfig
<1>8. CASE CreateSelect
  BY <1>1, <1>8, CreatedOnePort DEF CreateSelect
<1>9. CASE RemoveAll
  BY <1>1, <1>9, RemoveOnePort DEF RemoveAll
<1>10. CASE ReloadAll
  BY <1>10, ReloadOnePort DEF ReloadAll
<1>11. CASE PromoteCreate
  <2>1. running' = running
    BY <1>11 DEF PromoteCreate
  <2>2. CASE config' = config
    BY <1>1, <2>1, <2>2
  <2>3. CASE \E r \in Routes : config[r] = NoPort /\ \E p \in Ports \ Used(config) : config' = [config EXCEPT ![r] = p]
    <3>1. PICK r \in Routes : config[r] = NoPort /\ \E p \in Ports \ Used(config) : config' = [config EXCEPT ![r] = p]
      BY <2>3
    <3>2. PICK p \in Ports \ Used(config) : config' = [config EXCEPT ![r] = p]
      BY <3>1
    <3>3. p # NoPort /\ \A s \in Routes : config[s] # p
      BY <3>2, PortsAssumption DEF Used
    <3>4. \A s \in Routes : config'[s] = IF s = r THEN p ELSE config[s]
      BY <3>2 DEF Typed, Config
    <3>5. Created(config')
      BY <3>1, <3>3, <3>4 DEF Created
    <3> QED BY <2>1, <3>5, CreatedOnePort
  <2>4. user.r \subseteq Routes
    BY DEF Typed, User
  <2> QED BY <1>11, <2>2, <2>3, <2>4 DEF PromoteCreate
<1>12. CASE UserReload
  BY <1>12, ReloadOnePort DEF UserReload
<1>13. CASE UserRemove
  BY <1>1, <1>13, RemoveOnePort DEF UserRemove
<1>14. CASE DetachRemove
  BY <1>1, <1>14, RemoveOnePort DEF DetachRemove
<1>15. CASE DetachReload
  BY <1>15, ReloadOnePort DEF DetachReload
<1>16. CASE ReorderPorts
  BY <1>16, ReorderOnePort
<1>17. CASE \/ BeginSource \/ BeginSelect \/ BeginAll \/ Ensured \/ List \/ Plan \/ StorePlan \/ Pick \/ Verify \/ Undo
            \/ Failed \/ PlanSelect \/ Settle \/ DropNodes \/ UndoAll \/ PromoteMark \/ UserStore
            \/ (\E r \in Routes : Promote(r) \/ Exclude(r))
            \/ (\E R \in SUBSET Routes : DeleteMany(R))
            \/ (\E t \in Tags : Detach(t) \/ MarkFailed(t))
            \/ (\E r, s \in Routes : Reorder(r, s))
  <2>1. CASE BeginSource \/ BeginSelect \/ BeginAll
    BY <1>1, <2>1 DEF BeginSource, BeginSelect, BeginAll, Begin
  <2>2. CASE Ensured \/ List \/ Plan \/ StorePlan \/ Pick \/ Verify \/ Undo \/ Failed \/ PlanSelect \/ Settle
             \/ DropNodes \/ UndoAll \/ PromoteMark \/ UserStore
    BY <1>1, <2>2 DEF Ensured, List, Plan, StorePlan, Pick, Verify, Undo, Failed, PlanSelect, Settle, DropNodes,
                      UndoAll, PromoteMark, UserStore
  <2>3. CASE \E r \in Routes : Promote(r) \/ Exclude(r)
    BY <1>1, <2>3 DEF Promote, Exclude, BeginUser
  <2>4. CASE \E R \in SUBSET Routes : DeleteMany(R)
    BY <1>1, <2>4 DEF DeleteMany, BeginUser
  <2>5. CASE \E t \in Tags : Detach(t) \/ MarkFailed(t)
    BY <1>1, <2>5 DEF Detach, MarkFailed, BeginUser
  <2>6. CASE \E r, s \in Routes : Reorder(r, s)
    BY <1>1, <2>6 DEF Reorder, BeginUser
  <2> QED BY <1>17, <2>1, <2>2, <2>3, <2>4, <2>5, <2>6
<1>18. CASE Mark
  BY <1>1, <1>18 DEF Mark
<1> QED BY <1>2, <1>3, <1>4, <1>5, <1>6, <1>7, <1>8, <1>9, <1>10, <1>11, <1>12, <1>13, <1>14, <1>15, <1>16, <1>17, <1>18
        DEF Next, OpStep, UserStep

-----------------------------------------------------------------------------
(* The two sorts of operations keep apart, or it is noted.                 *)

Apart ==
    /\ op.kind # "none" /\ op.alone => user = NoUser
    /\ op.kind # "none" /\ user # NoUser => "overlap" \in blame

\* A step of the operation with the lock.
LEMMA OpStepFrame ==
    ASSUME Typed, Shape, OpStep
    PROVE  /\ op.kind # "none" /\ user' = user
           /\ op' # NoOp => op'.kind = op.kind /\ op'.alone = op.alone /\ op'.tags = op.tags /\ blame \subseteq blame'
<1>1. op.pc # "idle"
  BY DEF OpStep, Ensure, Ensured, List, Plan, RemoveNames, StorePlan, Pick, Create, Mark, Reload, Verify, Undo,
         UndoConfig, Failed, PlanSelect, CreateSelect, Settle, RemoveAll, ReloadAll, DropNodes, UndoAll, At
<1>2. op.kind # "none"
  BY <1>1 DEF Shape, OpShape, NoOp
<1>3. user' = user
  BY DEF OpStep, Ensure, Ensured, List, Plan, RemoveNames, StorePlan, Pick, Create, Mark, Reload, Verify, Undo,
         UndoConfig, Failed, PlanSelect, CreateSelect, Settle, RemoveAll, ReloadAll, DropNodes, UndoAll
<1> SUFFICES ASSUME op' # NoOp
             PROVE  op'.kind = op.kind /\ op'.alone = op.alone /\ op'.tags = op.tags /\ blame \subseteq blame'
  BY <1>2, <1>3
<1>4. blame \subseteq blame'
  BY DEF OpStep, Ensure, Ensured, List, Plan, RemoveNames, StorePlan, Pick, Create, Mark, Reload, Verify, Undo,
         UndoConfig, Failed, PlanSelect, CreateSelect, Settle, RemoveAll, ReloadAll, DropNodes, UndoAll,
         Succeeds, Quit, Moved
<1>5. op'.kind = op.kind /\ op'.alone = op.alone /\ op'.tags = op.tags
  <2>1. CASE \E pc \in Labels : Goto(pc) \/ TakeBack(pc)
    BY <2>1, GotoFields, TakeBackFields DEF Typed
  <2>2. CASE Ensure \/ Ensured \/ RemoveAll \/ ReloadAll \/ DropNodes \/ UndoAll \/ Undo \/ UndoConfig \/ Failed
             \/ Reload \/ Verify \/ Settle
    <3>1. \E pc \in Labels : Goto(pc) \/ TakeBack(pc)
      BY <2>2 DEF Ensure, Ensured, RemoveAll, ReloadAll, DropNodes, UndoAll, Undo, UndoConfig, Failed, Reload, Verify,
                  Settle, Succeeds, Quit, Labels
    <3> QED BY <2>1, <3>1
  <2>3. CASE List
    BY <2>3 DEF List, Typed, Op
  <2>4. CASE Plan
    BY <2>4, PlanFields
  <2>5. CASE RemoveNames
    BY <2>1, <2>5 DEF RemoveNames, Typed, Op, Labels
  <2>6. CASE StorePlan
    BY <2>1, <2>6 DEF StorePlan, Typed, Op, Labels
  <2>7. CASE Pick
    <3>1. \/ TakeBack("undo")
          \/ \E T, pc : op' = [op EXCEPT !.todo = T, !.pc = pc]
      BY <2>7 DEF Pick
    <3> QED BY <2>1, <3>1 DEF Typed, Op, Labels
  <2>8. CASE Create
    <3>1. \/ TakeBack("undo")
          \/ \E T : op' = [op EXCEPT !.pc = "mark", !.todo = T]
      BY <2>8 DEF Create
    <3> QED BY <2>1, <3>1 DEF Typed, Op, Labels
  <2>9. CASE Mark
    <3>1. \/ TakeBack("undo")
          \/ \E b : op' = [op EXCEPT !.pc = "reload", !.todo = {}, !.made = b]
      BY <2>9 DEF Mark
    <3> QED BY <2>1, <3>1 DEF Typed, Op, Labels
  <2>10. CASE PlanSelect
    BY <2>10, SelectFields DEF Quit
  <2>11. CASE CreateSelect
    BY <2>1, <2>11 DEF CreateSelect, Typed, Op, Labels
  <2> QED BY <2>2, <2>3, <2>4, <2>5, <2>6, <2>7, <2>8, <2>9, <2>10, <2>11 DEF OpStep
<1> QED BY <1>4, <1>5

\* A step of an operation without it.
LEMMA UserStepFrame ==
    ASSUME Typed, Shape, UserStep
    PROVE  user # NoUser /\ op' = op /\ blame \subseteq blame'
<1>1. user.pc # "idle"
  BY DEF UserStep, PromoteCreate, PromoteMark, UserRemove, UserReload, DetachRemove, DetachReload, UserStore,
         ReorderPorts, UserAt
<1>2. op' = op /\ blame \subseteq blame'
  BY DEF UserStep, PromoteCreate, PromoteMark, UserRemove, UserReload, DetachRemove, DetachReload, UserStore,
         ReorderPorts, Fault, Moved
<1> QED BY <1>1, <1>2 DEF NoUser

\* Its beginning.
LEMMA BeginUserFrame ==
    ASSUME Typed, Shape, BeginsUser
    PROVE  /\ user = NoUser /\ user' # NoUser
           /\ UNCHANGED <<nodes, config, running>>
           /\ op.kind = "none" => op' = op /\ blame' = blame
           /\ op.kind # "none" => op'.kind = op.kind /\ ~op'.alone /\ blame' = blame \cup {"overlap"}
<1>1. PICK new : BeginUser(new) /\ new.kind # "none"
  <2>1. ASSUME NEW r \in Routes, Promote(r)
        PROVE  \E new : BeginUser(new) /\ new.kind # "none"
    <3>1. BeginUser([NoUser EXCEPT !.kind = "promote", !.pc = "create", !.r = {r}])
      BY <2>1 DEF Promote
    <3>2. [NoUser EXCEPT !.kind = "promote", !.pc = "create", !.r = {r}].kind = "promote"
      BY DEF NoUser
    <3> QED BY <3>1, <3>2
  <2>2. ASSUME NEW R \in SUBSET Routes, DeleteMany(R)
        PROVE  \E new : BeginUser(new) /\ new.kind # "none"
    <3>1. PICK pc, S : BeginUser([NoUser EXCEPT !.kind = "delete", !.pc = pc, !.r = S, !.drop = R])
      BY <2>2 DEF DeleteMany
    <3>2. [NoUser EXCEPT !.kind = "delete", !.pc = pc, !.r = S, !.drop = R].kind = "delete"
      BY DEF NoUser
    <3> QED BY <3>1, <3>2
  <2>3. ASSUME NEW t \in Tags, MarkFailed(t)
        PROVE  \E new : BeginUser(new) /\ new.kind # "none"
    <3>1. PICK pc, S, plan : BeginUser([NoUser EXCEPT !.kind = "fail", !.pc = pc, !.r = S, !.plan = plan])
      BY <2>3 DEF MarkFailed
    <3>2. [NoUser EXCEPT !.kind = "fail", !.pc = pc, !.r = S, !.plan = plan].kind = "fail"
      BY DEF NoUser
    <3> QED BY <3>1, <3>2
  <2>4. ASSUME NEW t \in Tags, Detach(t)
        PROVE  \E new : BeginUser(new) /\ new.kind # "none"
    <3>1. PICK pc, S, drop, plan : BeginUser([NoUser EXCEPT !.kind = "detach", !.pc = pc, !.r = S, !.drop = drop, !.plan = plan])
      BY <2>4 DEF Detach
    <3>2. [NoUser EXCEPT !.kind = "detach", !.pc = pc, !.r = S, !.drop = drop, !.plan = plan].kind = "detach"
      BY DEF NoUser
    <3> QED BY <3>1, <3>2
  <2>5. ASSUME NEW r \in Routes, NEW s \in Routes, Reorder(r, s)
        PROVE  \E new : BeginUser(new) /\ new.kind # "none"
    <3>1. BeginUser([NoUser EXCEPT !.kind = "reorder", !.pc = "ports", !.r = {r, s}])
      BY <2>5 DEF Reorder
    <3>2. [NoUser EXCEPT !.kind = "reorder", !.pc = "ports", !.r = {r, s}].kind = "reorder"
      BY DEF NoUser
    <3> QED BY <3>1, <3>2
  <2> QED BY <2>1, <2>2, <2>3, <2>4, <2>5 DEF BeginsUser
<1>2. CASE op.kind = "none"
  <2>1. op = NoOp
    BY <1>2 DEF Shape, OpShape
  <2>2. op' = NoOp /\ blame' = blame
    BY <1>1, <2>1 DEF BeginUser, NoOp
  <2> QED BY <1>1, <1>2, <2>1, <2>2 DEF BeginUser, NoUser
<1>3. CASE op.kind # "none"
  <2>1. op # NoOp
    BY <1>3 DEF NoOp
  <2>2. op'.kind = op.kind /\ ~op'.alone
    BY <1>1, <2>1 DEF BeginUser, Typed, Op
  <2> QED BY <1>1, <1>3, <2>1, <2>2 DEF BeginUser, NoUser
<1> QED BY <1>2, <1>3

\* Exclude is noted when the node was in the pool.
LEMMA ExcludeFrame ==
    ASSUME Typed, Shape, NEW r \in Routes, Exclude(r)
    PROVE  /\ user = NoUser /\ user' = user /\ UNCHANGED <<config, running>>
           /\ blame \subseteq blame' /\ (nodes[r].st = "pool" => blame' # {})
           /\ nodes' = [nodes EXCEPT ![r].st = "excluded"]
           /\ op.kind = "none" => op' = op
           /\ op.kind # "none" => /\ op'.kind = op.kind /\ op'.pc = op.pc /\ op'.tags = op.tags /\ op'.before = op.before
                                  /\ op'.cfg = op.cfg /\ op'.plan = op.plan /\ op'.touched = op.touched
                                  /\ op'.names = op.names /\ op'.todo = op.todo /\ ~op'.alone
<1>1. /\ user = NoUser /\ user' = user /\ UNCHANGED <<config, running>>
      /\ blame \subseteq blame' /\ (nodes[r].st = "pool" => blame' # {})
      /\ nodes' = [nodes EXCEPT ![r].st = "excluded"]
  BY DEF Exclude
<1>2. op' = [op EXCEPT !.alone = op.alone /\ op = NoOp]
  BY DEF Exclude
<1>3. CASE op.kind = "none"
  <2>1. op = NoOp
    BY <1>3 DEF Shape, OpShape
  <2>2. op' = NoOp
    BY <1>2, <2>1 DEF NoOp
  <2> QED BY <1>1, <1>3, <2>1, <2>2
<1>4. CASE op.kind # "none"
  <2>1. op # NoOp
    BY <1>4 DEF NoOp
  <2> QED BY <1>1, <1>2, <1>4, <2>1 DEF Typed, Op
<1> QED BY <1>3, <1>4

\* An operation with the lock begins: "new" is it, but for alone.
LEMMA BeginFrame ==
    ASSUME Typed, NEW new \in Op, Begin(new)
    PROVE  /\ op = NoOp
           /\ op'.kind = new.kind /\ op'.pc = new.pc /\ op'.tags = new.tags /\ op'.before = new.before
           /\ op'.cfg = new.cfg /\ op'.plan = new.plan /\ op'.touched = new.touched
           /\ op'.names = new.names /\ op'.todo = new.todo
           /\ op'.alone = (user = NoUser)
           /\ user # NoUser => "overlap" \in blame'
           /\ blame \subseteq blame'
           /\ UNCHANGED <<nodes, config, running, user>>
BY DEF Begin, Op

\* Whichever it is, it is alone when no user's operation is under way.
LEMMA BeginsFrame ==
    ASSUME Typed, Shape, BeginSource \/ BeginSelect \/ BeginAll
    PROVE  /\ op = NoOp
           /\ op'.alone = (user = NoUser)
           /\ user # NoUser => "overlap" \in blame'
           /\ blame \subseteq blame'
           /\ UNCHANGED <<nodes, config, running, user>>
BY DEF BeginSource, BeginSelect, BeginAll, Begin, NoOp

\* Every step keeps the two sorts apart, or notes it.
LEMMA ApartKept ==
    ASSUME Typed, Shape, Apart, [Next]_vars
    PROVE  Apart'
<1>1. CASE UNCHANGED vars
  BY <1>1 DEF Apart, vars
<1>2. CASE BeginSource \/ BeginSelect \/ BeginAll
  BY <1>2, BeginsFrame DEF Apart
<1>3. CASE OpStep
  BY <1>3, OpStepFrame DEF Apart, NoOp
<1>4. CASE UserStep
  BY <1>4, UserStepFrame DEF Apart
<1>5. CASE BeginsUser
  BY <1>5, BeginUserFrame DEF Apart, Shape, OpShape, NoOp
<1>6. CASE \E r \in Routes : Exclude(r)
  BY <1>6, ExcludeFrame DEF Apart
<1> QED BY <1>1, <1>2, <1>3, <1>4, <1>5, <1>6 DEF Next, BeginsUser

-----------------------------------------------------------------------------
(* An operation that nobody disturbs.                                      *)

\* What a node has of other sources than the operation's.
Foreign(n) == n.src \ op.tags

\* Nothing but the nodes touched has changed since the plan.
Outside == op.pc \notin Early => \A r \in Routes \ op.touched : nodes[r] = op.before[r]

\* A source plans and makes changes that keep the other sources; the nodes it
\* is going to put in the pool are not in the configuration.
SourceAlone ==
    op.kind = "source" =>
        /\ op.pc \notin Early => \A r \in Routes : Foreign(nodes[r]) = Foreign(op.before[r])
        /\ op.pc \notin Early => \A r \in DOMAIN op.plan : Foreign(op.plan[r]) = Foreign(op.before[r])
        /\ op.pc \in {"list", "plan"} => SameRoutes
        /\ op.pc = "remove" => \A r \in DOMAIN op.plan : op.plan[r].st = "passed" => r \in op.names \/ config[r] = NoPort
        /\ op.pc = "store"  => \A r \in DOMAIN op.plan : op.plan[r].st = "passed" => config[r] = NoPort
        /\ op.pc \in {"pick", "create"} => \A r \in op.todo : config[r] = NoPort

\* A connectivity job keeps the sources, and what another source has in the
\* pool.
SelectAlone ==
    op.kind = "select" =>
        /\ op.pc \in Early => \A r \in op.names : nodes[r].src \subseteq op.tags
        /\ op.pc \notin Early => \A r \in Routes : nodes[r].src = op.before[r].src
        /\ op.pc \in {"remove", "store", "reload", "settle"} =>
              /\ nodes = op.before
              /\ \A r \in Routes : op.before[r] # Absent => r \in DOMAIN op.plan
              /\ \A r \in DOMAIN op.plan :
                    /\ op.plan[r].src = op.before[r].src
                    /\ op.before[r].st = "pool" /\ Foreign(op.before[r]) # {} => op.plan[r].st = "pool"

AllAlone == op.kind = "all" /\ op.pc \in {"remove", "reload", "drop"} => nodes = op.before

\* What is taken back is back.
Back ==
    "rollback" \notin blame =>
        /\ op.pc = "undoconfig" => nodes = op.before
        /\ op.pc = "failed" =>
              /\ nodes = op.before /\ running = config
              /\ \A r \in Routes : config[r] = NoPort <=> op.cfg[r] = NoPort
              /\ "order" \notin blame => config = op.cfg

Alone == op.kind # "none" /\ op.alone => Outside /\ SourceAlone /\ SelectAlone /\ AllAlone /\ Back

\* No operation has nothing to keep.
LEMMA NoOpAlone == ASSUME op' = NoOp PROVE Alone'
BY DEF Alone, NoOp

\* A plan takes no other source from a node, and gives it none.
LEMMA PlannedKeepsForeign ==
    ASSUME nodes \in Store, op \in Op, NEW r \in Routes, NEW in \in {"none", "passed", "failed"}
    PROVE  Foreign(Planned(r, in)) = Foreign(nodes[r])
<1> DEFINE cur == nodes[r]
<1>1. cur \in Node /\ op.tags \in SUBSET Tags
  BY DEF Store, Op
<1> HIDE DEF cur
<1>2. CASE cur = Absent
  BY <1>2 DEF Planned, Foreign, Entry, Absent, cur
<1>3. CASE cur # Absent /\ op.tags \cap cur.src = {}
  BY <1>3 DEF Planned, Foreign, Entry, cur
<1>4. CASE cur # Absent /\ op.tags \cap cur.src # {} /\ op.tags \subseteq cur.src /\ in # "none"
  BY <1>4 DEF Planned, Foreign, Entry, cur
<1>5. CASE cur # Absent /\ op.tags \cap cur.src # {} /\ ~(op.tags \subseteq cur.src /\ in # "none")
  <2>1. Planned(r, in) = IF cur.src \ op.tags = {} THEN Absent ELSE [cur EXCEPT !.src = cur.src \ op.tags]
    BY <1>5 DEF Planned, cur
  <2>2. cur \in [src : (SUBSET Tags) \ {{}}, st : States, port : PortOrNone]
    BY <1>1, <1>5 DEF Node
  <2>3. [cur EXCEPT !.src = cur.src \ op.tags].src = cur.src \ op.tags
    BY <2>2
  <2> QED BY <2>1, <2>3 DEF Foreign, Absent, cur
<1> QED BY <1>2, <1>3, <1>4, <1>5

\* An operation begins with what it read.
LEMMA AloneBegin ==
    ASSUME Typed, Shape, BeginSource \/ BeginSelect \/ BeginAll
    PROVE  Alone'
<1>1. CASE BeginSource
  <2>1. PICK t \in Tags : Begin([NoOp EXCEPT !.kind = "source", !.pc = "ensure", !.tags = {t}])
    BY <1>1 DEF BeginSource
  <2>2. op'.kind = "source" /\ op'.pc = "ensure"
    BY <2>1 DEF Begin, NoOp
  <2> QED BY <2>2 DEF Alone, Outside, SourceAlone, SelectAlone, AllAlone, Back, Early
<1>2. CASE BeginSelect
  <2>1. PICK T \in (SUBSET Tags) \ {{}} : \E Q \in SUBSET {r \in Present : nodes[r].src \cap T # {}} :
          LET chosen == {r \in Present : nodes[r].src \cap T # {} /\ nodes[r].st # "excluded"}
              fails  == {r \in chosen \ Q : nodes[r].src \subseteq T}
          IN  Begin([NoOp EXCEPT !.kind = "select", !.pc = "list", !.tags = T, !.names = fails,
                                    !.todo = Q \cup (InPool \ fails)])
    BY <1>2 DEF BeginSelect
  <2>2. PICK Q \in SUBSET {r \in Present : nodes[r].src \cap T # {}} :
          LET chosen == {r \in Present : nodes[r].src \cap T # {} /\ nodes[r].st # "excluded"}
              fails  == {r \in chosen \ Q : nodes[r].src \subseteq T}
          IN  Begin([NoOp EXCEPT !.kind = "select", !.pc = "list", !.tags = T, !.names = fails,
                                    !.todo = Q \cup (InPool \ fails)])
    BY <2>1
  <2> DEFINE fails == {r \in {r \in Present : nodes[r].src \cap T # {} /\ nodes[r].st # "excluded"} \ Q : nodes[r].src \subseteq T}
  <2>3. Begin([NoOp EXCEPT !.kind = "select", !.pc = "list", !.tags = T, !.names = fails,
                                    !.todo = Q \cup (InPool \ fails)])
    BY <2>2
  <2>4. \A r \in fails : nodes[r].src \subseteq T
    OBVIOUS
  <2> HIDE DEF fails
  <2>5. op'.kind = "select" /\ op'.pc = "list" /\ op'.names = fails /\ op'.tags = T /\ nodes' = nodes
    BY <2>3 DEF Begin, NoOp
  <2> QED BY <2>4, <2>5 DEF Alone, Outside, SourceAlone, SelectAlone, AllAlone, Back, Early
<1>3. CASE BeginAll
  <2>1. op'.kind = "all" /\ op'.pc = "remove" /\ op'.before = nodes /\ nodes' = nodes
    BY <1>3 DEF BeginAll, Begin, NoOp
  <2> QED BY <2>1 DEF Alone, Outside, SourceAlone, SelectAlone, AllAlone, Back, Early
<1> QED BY <1>1, <1>2, <1>3

\* Before the plan, of a source.
LEMMA AloneEnsure ==
    ASSUME Typed, Shape, Ensure \/ Ensured
    PROVE  Alone'
<1>1. CASE Quit
  BY <1>1, NoOpAlone DEF Quit
<1>2. op.kind = "source"
  BY DEF Ensure, Ensured, Shape, OpShape, NoOp, Typed, Op
<1>3. CASE Goto("ensured")
  <2>1. op'.kind = "source" /\ op'.pc = "ensured"
    BY <1>2, <1>3, GotoFields DEF Typed, Labels
  <2> QED BY <2>1 DEF Alone, Outside, SourceAlone, SelectAlone, AllAlone, Back, Early
<1>4. CASE Goto("list")
  <2>1. op'.kind = "source" /\ op'.pc = "list"
    BY <1>2, <1>4, GotoFields DEF Typed, Labels
  <2>2. SameRoutes /\ nodes' = Synced(nodes) /\ config' = config
    <3>1. CASE Ensure
      <4>1. ~Goto("ensured") /\ ~Quit
        BY <1>2, <2>1, GotoFields DEF Typed, Labels, Quit, NoOp
      <4> QED BY <3>1, <4>1 DEF Ensure
    <3>2. CASE Ensured
      <4>1. ~Quit
        BY <2>1 DEF Quit, NoOp
      <4> QED BY <3>2, <4>1 DEF Ensured
    <3> QED BY <3>1, <3>2
  <2>3. SameRoutes'
    BY <2>2, SyncedIsStore DEF SameRoutes, InPool, Configured, Typed
  <2> QED BY <2>1, <2>3 DEF Alone, Outside, SourceAlone, SelectAlone, AllAlone, Back, Early
<1> QED BY <1>1, <1>3, <1>4 DEF Ensure, Ensured

\* It reads the configuration.
LEMMA AloneList ==
    ASSUME Typed, Shape, Alone, op.alone, List
    PROVE  Alone'
<1>1. op.kind \in {"source", "select"} /\ op.pc = "list"
  BY DEF Typed, Shape, OpShape, Op, NoOp, List
<1>2. /\ op'.kind = op.kind /\ op'.pc = "plan" /\ op'.tags = op.tags /\ op'.names = op.names
      /\ UNCHANGED <<nodes, config>>
  BY DEF Typed, Op, List
<1>3. SameRoutes' = SameRoutes
  BY <1>2 DEF SameRoutes, InPool, Configured
<1> QED BY <1>1, <1>2, <1>3 DEF Alone, Outside, SourceAlone, SelectAlone, AllAlone, Back, Early

\* A source plans to promote only what is or will be out of the configuration.
LEMMA AlonePlan ==
    ASSUME Typed, Shape, Alone, op.alone, Plan
    PROVE  Alone'
<1>1. PICK T \in SUBSET Routes, in \in [Routes -> {"none", "passed", "failed"}], bad \in Bad :
           /\ op.kind = "source" /\ op.pc = "plan" /\ op.todo = {} /\ op.tags # {}
           /\ op'.kind = "source" /\ op'.pc = "remove" /\ op'.tags = op.tags /\ op'.cfg = op.cfg
           /\ op'.before = nodes /\ op'.touched = T /\ op'.todo = {} /\ op'.alone = op.alone
           /\ op'.names = {r \in InPool : Checked(r, in[r], bad).st # "pool"}
           /\ DOMAIN op'.plan = {r \in T : Written(r, in[r]) \/ Planned(r, in[r]) = Absent}
           /\ \A r \in DOMAIN op'.plan : op'.plan[r] = Checked(r, in[r], bad)
           /\ \A r \in Routes : in[r] # "none" \/ op.tags \cap nodes[r].src # {} => r \in T
  BY PlanFields
<1>2. UNCHANGED <<nodes, config>> /\ SameRoutes
  BY <1>1 DEF Plan, Alone, SourceAlone
<1>3. ASSUME NEW r \in DOMAIN op'.plan
      PROVE  /\ op'.plan[r].src \ op.tags = nodes[r].src \ op.tags
             /\ op'.plan[r].st = "passed" => r \in op'.names \/ config[r] = NoPort
  <2>1. r \in Routes /\ in[r] \in {"none", "passed", "failed"}
    BY <1>1
  <2>2. op'.plan[r].src = Planned(r, in[r]).src
    BY <1>1, <2>1, CheckedIsNode DEF Typed
  <2>3. op'.plan[r].src \ op.tags = nodes[r].src \ op.tags
    BY <2>1, <2>2, PlannedKeepsForeign DEF Typed, Foreign
  <2>4. op'.plan[r].st = "passed" /\ r \in InPool => r \in op'.names
    BY <1>1
  <2>5. r \notin InPool => config[r] = NoPort
    BY <1>2, <2>1 DEF SameRoutes, Configured
  <2> QED BY <2>3, <2>4, <2>5
<1> QED BY <1>1, <1>2, <1>3 DEF Alone, Outside, SourceAlone, SelectAlone, AllAlone, Back, Early, Foreign

\* What is left to show of a step that leaves the nodes as they are and goes on
\* past the plan.
LEMMA AloneOnward ==
    ASSUME Typed, Shape, Alone, op.kind # "none", op.alone, op.pc \notin Early, op'.pc \notin Early, nodes' = nodes,
           op'.kind = op.kind, op'.tags = op.tags, op'.before = op.before, op'.touched = op.touched,
           op'.plan = op.plan \/ op'.plan = <<>>
    PROVE  /\ Outside'
           /\ op.kind = "source" =>
                /\ \A r \in Routes : Foreign(nodes[r])' = Foreign(op.before[r])'
                /\ \A r \in DOMAIN op'.plan : Foreign(op.plan[r])' = Foreign(op.before[r])'
           /\ op.kind = "select" => \A r \in Routes : nodes'[r].src = op'.before[r].src
BY NoPlan DEF Alone, Outside, SourceAlone, SelectAlone, Foreign

\* Taking back begins with nodes that are or are not as before.
LEMMA AloneTakeBack ==
    ASSUME Typed, Shape, Alone, op.kind # "none", op.alone, op.pc \notin Early, nodes' = nodes,
           \/ TakeBack("undo")
           \/ TakeBack("undoconfig") /\ nodes = op.before
    PROVE  Alone'
<1>1. /\ op'.pc \in {"undo", "undoconfig"} /\ op'.pc \notin Early /\ op'.kind = op.kind /\ op'.tags = op.tags /\ op'.before = op.before
      /\ op'.touched = op.touched /\ op'.plan = <<>>
      /\ op'.pc = "undoconfig" => nodes' = op'.before
  BY TakeBackFields DEF Typed, Labels, Early
<1>2. /\ Outside'
      /\ op.kind = "source" =>
            /\ \A r \in Routes : Foreign(nodes[r])' = Foreign(op.before[r])'
            /\ \A r \in DOMAIN op'.plan : Foreign(op.plan[r])' = Foreign(op.before[r])'
      /\ op.kind = "select" => \A r \in Routes : nodes'[r].src = op'.before[r].src
  BY <1>1, AloneOnward
<1>3. SourceAlone'
  BY <1>1, <1>2 DEF SourceAlone
<1> QED BY <1>1, <1>2, <1>3 DEF Alone, SelectAlone, AllAlone, Back, Early

\* What leaves the pool has left the configuration.
LEMMA AloneRemoveNames ==
    ASSUME Typed, Shape, Alone, op.alone, RemoveNames
    PROVE  Alone'
<1>1. op.kind \in {"source", "select"} /\ op.pc = "remove" /\ op.pc \notin Early /\ nodes' = nodes
  BY DEF RemoveNames, Typed, Shape, OpShape, Op, NoOp, Early
<1>2. CASE TakeBack("undo")
  BY <1>1, <1>2, AloneTakeBack
<1>3. CASE ~TakeBack("undo")
  <2>1. /\ op'.kind = op.kind /\ op'.pc = "store" /\ op'.tags = op.tags /\ op'.before = op.before
        /\ op'.touched = op.touched /\ op'.plan = op.plan /\ op'.pc \notin Early
    BY <1>1, <1>3, GotoFields DEF RemoveNames, Typed, Labels, Op, Early
  <2>2. \A r \in Routes : r \in op.names \/ config[r] = NoPort => config'[r] = NoPort
    BY <1>3 DEF RemoveNames, Remove
  <2>3. /\ Outside'
        /\ op.kind = "source" =>
              /\ \A r \in Routes : Foreign(nodes[r])' = Foreign(op.before[r])'
              /\ \A r \in DOMAIN op'.plan : Foreign(op.plan[r])' = Foreign(op.before[r])'
    BY <1>1, <2>1, AloneOnward
  <2>4. DOMAIN op.plan \subseteq Routes
    BY PlanParts DEF Typed, Op
  <2>5. SourceAlone'
    <3>1. ASSUME op.kind = "source", NEW r \in DOMAIN op.plan, op.plan[r].st = "passed" PROVE config'[r] = NoPort
      <4>1. r \in op.names \/ config[r] = NoPort
        BY <1>1, <3>1 DEF Alone, SourceAlone
      <4> QED BY <2>2, <2>4, <4>1
    <3> QED BY <2>1, <2>3, <3>1 DEF SourceAlone
  <2>6. SelectAlone'
    BY <1>1, <2>1 DEF Alone, SelectAlone, Foreign
  <2> QED BY <2>1, <2>3, <2>5, <2>6, <1>1 DEF Alone, AllAlone, Back
<1> QED BY <1>2, <1>3

\* The store has what was planned.
LEMMA AloneStorePlan ==
    ASSUME Typed, Shape, Alone, op.alone, StorePlan
    PROVE  Alone'
<1>1. op.kind = "source" /\ op.pc = "store" /\ op.pc \notin Early /\ config' = config
  BY DEF StorePlan, At, Early
<1>2. CASE TakeBack("undo") /\ nodes' = nodes
  BY <1>1, <1>2, AloneTakeBack
<1>3. CASE ~(TakeBack("undo") /\ nodes' = nodes)
  <2> DEFINE passed == {r \in DOMAIN op.plan : op.plan[r].st = "passed"}
  <2>1. /\ nodes' = [r \in Routes |-> IF r \in DOMAIN op.plan THEN op.plan[r] ELSE nodes[r]]
        /\ \/ op' = [op EXCEPT !.pc = "reload", !.plan = <<>>]
           \/ op' = [op EXCEPT !.pc = "pick", !.plan = <<>>, !.todo = passed]
    BY <1>3 DEF StorePlan
  <2>2. \A r \in passed : config[r] = NoPort
    BY <1>1 DEF Alone, SourceAlone
  <2> HIDE DEF passed
  <2>3. /\ op'.kind = "source" /\ op'.pc \in {"reload", "pick"} /\ op'.tags = op.tags /\ op'.before = op.before
        /\ op'.plan = <<>> /\ op'.touched = op.touched
        /\ op'.pc = "pick" => op'.todo = passed
    BY <1>1, <2>1 DEF Typed, Op
  <2>4. \A r \in Routes : Foreign(nodes'[r]) = Foreign(op.before[r])
    BY <1>1, <2>1 DEF Alone, SourceAlone
  <2>5. \A r \in Routes \ op.touched : nodes'[r] = op.before[r]
    BY <1>1, <2>1 DEF Alone, Outside, Shape, OpShape
  <2>6. Outside'
    BY <2>3, <2>5 DEF Outside
  <2>7. SourceAlone'
    BY <1>1, <2>2, <2>3, <2>4, NoPlan DEF SourceAlone, Foreign, Early
  <2> QED BY <2>3, <2>6, <2>7 DEF Alone, SelectAlone, AllAlone, Back
<1> QED BY <1>2, <1>3

\* There are no duplicates: nothing is deleted.
LEMMA AlonePick ==
    ASSUME Typed, Shape, Alone, op.alone, Pick
    PROVE  Alone'
<1>1. op.kind = "source" /\ op.pc = "pick" /\ op.pc \notin Early /\ config' = config
  BY DEF Typed, Shape, OpShape, Op, NoOp, Pick, Early
<1> DEFINE open == {r \in op.todo : nodes[r].st = "passed"}
           double == open \cap Configured
<1>2. double = {}
  BY <1>1 DEF Alone, SourceAlone, Configured
<1>3. nodes' = nodes
  <2>1. nodes' = [r \in Routes |-> IF r \in double THEN Absent ELSE nodes[r]]
    BY DEF Pick
  <2> HIDE DEF double
  <2> QED BY <1>2, <2>1 DEF Typed, Store
<1>4. CASE TakeBack("undo")
  BY <1>1, <1>3, <1>4, AloneTakeBack
<1>5. CASE ~TakeBack("undo")
  <2>1. op' = [op EXCEPT !.todo = open \ double, !.pc = IF open \subseteq double THEN "reload" ELSE "create"]
    BY <1>5 DEF Pick
  <2>2. open \ double \subseteq op.todo
    OBVIOUS
  <2> HIDE DEF open, double
  <2>3. /\ op'.kind = "source" /\ op'.pc \in {"reload", "create"} /\ op'.tags = op.tags /\ op'.before = op.before
        /\ op'.plan = op.plan /\ op'.touched = op.touched /\ op'.todo \subseteq op.todo /\ op'.pc \notin Early
    BY <1>1, <2>1, <2>2 DEF Typed, Op, Early
  <2>4. /\ Outside'
        /\ \A r \in Routes : Foreign(nodes[r])' = Foreign(op.before[r])'
        /\ \A r \in DOMAIN op'.plan : Foreign(op.plan[r])' = Foreign(op.before[r])'
    BY <1>1, <1>3, <2>3, AloneOnward
  <2>5. SourceAlone'
    BY <1>1, <2>3, <2>4 DEF Alone, SourceAlone
  <2> QED BY <2>3, <2>4, <2>5 DEF Alone, SelectAlone, AllAlone, Back
<1> QED BY <1>4, <1>5

\* Nor here, and a failure leaves the nodes as they are.
LEMMA AloneCreate ==
    ASSUME Typed, Shape, Alone, op.alone, Create
    PROVE  Alone'
<1>1. op.kind = "source" /\ op.pc = "create" /\ op.pc \notin Early
  BY DEF Typed, Shape, OpShape, Op, NoOp, Create, Early
<1> DEFINE taken == op.todo \cap Configured
<1>2. taken = {}
  BY <1>1 DEF Alone, SourceAlone, Configured
<1>3. nodes' = nodes
  <2>1. nodes' = [r \in Routes |-> IF r \in taken THEN Absent ELSE nodes[r]]
    BY DEF Create
  <2> HIDE DEF taken
  <2> QED BY <1>2, <2>1 DEF Typed, Store
<1>4. CASE TakeBack("undo")
  BY <1>1, <1>3, <1>4, AloneTakeBack
<1>5. CASE ~TakeBack("undo")
  <2>1. PICK C : op' = [op EXCEPT !.pc = "mark", !.todo = C]
    BY <1>5 DEF Create
  <2>2. /\ op'.kind = "source" /\ op'.pc = "mark" /\ op'.tags = op.tags /\ op'.before = op.before
        /\ op'.plan = op.plan /\ op'.touched = op.touched /\ op'.pc \notin Early
    BY <1>1, <2>1 DEF Typed, Op, Early
  <2>3. /\ Outside'
        /\ \A r \in Routes : Foreign(nodes[r])' = Foreign(op.before[r])'
        /\ \A r \in DOMAIN op'.plan : Foreign(op.plan[r])' = Foreign(op.before[r])'
    BY <1>1, <1>3, <2>2, AloneOnward
  <2>4. SourceAlone'
    BY <2>2, <2>3 DEF SourceAlone, Early
  <2> QED BY <2>2, <2>3, <2>4 DEF Alone, SelectAlone, AllAlone, Back
<1> QED BY <1>4, <1>5

\* Marking keeps the sources.
LEMMA AloneMark ==
    ASSUME Typed, Shape, Alone, op.alone, Mark
    PROVE  Alone'
<1>1. op.kind = "source" /\ op.pc = "mark" /\ op.pc \notin Early
  <2>1. op.pc = "mark"
    BY DEF Mark
  <2> QED BY <2>1 DEF Typed, Shape, OpShape, Op, NoOp, Early
<1>2. CASE TakeBack("undo") /\ nodes' = nodes
  BY <1>1, <1>2, AloneTakeBack
<1>3. CASE ~(TakeBack("undo") /\ nodes' = nodes)
  <2>1. PICK b : op' = [op EXCEPT !.pc = "reload", !.todo = {}, !.made = b]
    BY <1>3 DEF Mark
  <2>2. nodes' = [r \in Routes |-> IF r \in op.todo \cap Present
                                        THEN [nodes[r] EXCEPT !.st = "pool", !.port = config[r]] ELSE nodes[r]]
    BY <1>3 DEF Mark
  <2>3. /\ op'.kind = "source" /\ op'.pc = "reload" /\ op'.tags = op.tags /\ op'.before = op.before
        /\ op'.plan = op.plan /\ op'.touched = op.touched /\ op'.pc \notin Early
    BY <1>1, <2>1 DEF Typed, Op, Early
  <2>4. ASSUME NEW r \in Routes PROVE nodes'[r].src = nodes[r].src /\ (r \notin op.touched => nodes'[r] = nodes[r])
    <3>1. CASE r \in op.todo \cap Present
      <4>1. nodes[r] \in [src : (SUBSET Tags) \ {{}}, st : States, port : PortOrNone]
        BY <3>1 DEF Typed, Store, Node, Present
      <4>2. [nodes[r] EXCEPT !.st = "pool", !.port = config[r]].src = nodes[r].src
        BY <4>1
      <4>3. r \in op.touched
        BY <1>1, <3>1 DEF Shape, OpShape
      <4> QED BY <2>2, <3>1, <4>2, <4>3
    <3>2. CASE r \notin op.todo \cap Present
      BY <2>2, <3>2
    <3> QED BY <3>1, <3>2
  <2>5. Outside'
    BY <1>1, <2>3, <2>4 DEF Alone, Outside
  <2>6. SourceAlone'
    BY <1>1, <2>3, <2>4 DEF Alone, SourceAlone, Foreign, Early
  <2> QED BY <2>3, <2>5, <2>6 DEF Alone, SelectAlone, AllAlone, Back
<1> QED BY <1>2, <1>3

\* A reload leaves the store alone.
LEMMA AloneReload ==
    ASSUME Typed, Shape, Alone, op.alone, Reload
    PROVE  Alone'
<1>1. op.kind \in {"source", "select"} /\ op.pc = "reload" /\ op.pc \notin Early /\ nodes' = nodes
  BY DEF Reload, Typed, Shape, OpShape, Op, NoOp, Early
<1>2. CASE TakeBack("undo")
  BY <1>1, <1>2, AloneTakeBack
<1>3. CASE ~TakeBack("undo")
  <2>1. Goto("verify") \/ (Goto("settle") /\ op.kind = "select")
    BY <1>1, <1>3 DEF Reload
  <2>2. /\ op'.kind = op.kind /\ op'.pc \in {"verify", "settle"} /\ op'.pc \notin Early /\ op'.tags = op.tags
        /\ op'.before = op.before /\ op'.touched = op.touched /\ op'.plan = op.plan
    BY <2>1, GotoFields DEF Typed, Labels, Early
  <2>3. /\ Outside'
        /\ op.kind = "source" =>
              /\ \A r \in Routes : Foreign(nodes[r])' = Foreign(op.before[r])'
              /\ \A r \in DOMAIN op'.plan : Foreign(op.plan[r])' = Foreign(op.before[r])'
    BY <1>1, <2>2, AloneOnward
  <2>4. SourceAlone'
    BY <2>2, <2>3 DEF SourceAlone, Early
  <2>5. SelectAlone'
    BY <1>1, <2>2 DEF Alone, SelectAlone, Foreign, Early
  <2> QED BY <1>1, <2>2, <2>3, <2>4, <2>5 DEF Alone, AllAlone, Back
<1> QED BY <1>2, <1>3

\* The operation is over or taken back.
LEMMA AloneVerify ==
    ASSUME Typed, Shape, Alone, op.alone, Verify
    PROVE  Alone'
<1>1. CASE Succeeds
  BY <1>1, NoOpAlone DEF Succeeds, Quit
<1>2. CASE nodes' = nodes /\ TakeBack("undo")
  <2>1. op.kind # "none" /\ op.pc \notin Early
    BY DEF Verify, Shape, OpShape, NoOp, Early
  <2> QED BY <1>2, <2>1, AloneTakeBack
<1> QED BY <1>1, <1>2 DEF Verify

\* The nodes touched are back, and no other had changed.
LEMMA AloneUndo ==
    ASSUME Typed, Shape, Alone, op.alone, Undo
    PROVE  Alone'
<1>1. op.kind # "none" /\ op.pc = "undo" /\ op.pc \notin Early /\ op.before \in Store
  BY DEF Undo, Typed, Shape, OpShape, NoOp, Early
<1>2. /\ op'.kind = op.kind /\ op'.pc = "undoconfig" /\ op'.pc \notin Early /\ op'.tags = op.tags
      /\ op'.before = op.before /\ op'.touched = op.touched /\ op'.plan = op.plan
  BY GotoFields DEF Undo, Typed, Labels, Early
<1>3. CASE nodes' = nodes /\ blame' = blame \cup {"rollback"}
  <2>1. /\ Outside'
        /\ op.kind = "source" =>
              /\ \A r \in Routes : Foreign(nodes[r])' = Foreign(op.before[r])'
              /\ \A r \in DOMAIN op'.plan : Foreign(op.plan[r])' = Foreign(op.before[r])'
        /\ op.kind = "select" => \A r \in Routes : nodes'[r].src = op'.before[r].src
    BY <1>1, <1>2, <1>3, AloneOnward
  <2>2. SourceAlone'
    BY <1>2, <2>1 DEF SourceAlone, Early
  <2> QED BY <1>2, <1>3, <2>1, <2>2 DEF Alone, SelectAlone, AllAlone, Back
<1>4. CASE nodes' = [r \in Routes |-> IF r \in op.touched THEN op.before[r] ELSE nodes[r]]
  <2>1. \A r \in Routes : nodes'[r] = op.before[r]
    BY <1>1, <1>4 DEF Alone, Outside
  <2>2. nodes' = op.before
    BY <1>1, <1>4, <2>1 DEF Store
  <2>3. SourceAlone'
    <3>1. ASSUME op.kind = "source", NEW r \in DOMAIN op.plan PROVE Foreign(op.plan[r]) = Foreign(op.before[r])
      BY <1>1, <3>1 DEF Alone, SourceAlone
    <3> QED BY <1>2, <2>1, <3>1 DEF SourceAlone, Early, Foreign
  <2> QED BY <1>2, <2>1, <2>2, <2>3 DEF Alone, Outside, SelectAlone, AllAlone, Back
<1> QED BY <1>3, <1>4 DEF Undo

\* All nodes are back.
LEMMA AloneUndoAll ==
    ASSUME Typed, Shape, Alone, op.alone, UndoAll
    PROVE  Alone'
<1>1. op.kind = "all"
  BY DEF UndoAll, At
<1>2. /\ op'.kind = "all" /\ op'.pc = "undoconfig" /\ op'.before = op.before /\ op'.touched = op.touched
  BY <1>1, GotoFields DEF UndoAll, Typed, Labels
<1>3. \/ nodes' = op.before
      \/ nodes' = nodes /\ "rollback" \in blame'
  BY DEF UndoAll
<1>4. Outside'
  BY <1>1, <1>2, <1>3 DEF Alone, Outside, UndoAll, At, Early
<1> QED BY <1>2, <1>3, <1>4 DEF Alone, SourceAlone, SelectAlone, AllAlone, Back

\* The configuration is back, and served.
LEMMA AloneUndoConfig ==
    ASSUME Typed, Shape, Alone, op.alone, UndoConfig
    PROVE  Alone'
<1>1. op.kind # "none" /\ op.pc = "undoconfig" /\ op.pc \notin Early /\ nodes' = nodes
  BY DEF UndoConfig, Shape, OpShape, NoOp, Early
<1>2. /\ op'.kind = op.kind /\ op'.pc = "failed" /\ op'.pc \notin Early /\ op'.tags = op.tags /\ op'.cfg = op.cfg
      /\ op'.before = op.before /\ op'.touched = op.touched /\ op'.plan = op.plan
  BY GotoFields DEF UndoConfig, Typed, Labels, Early
<1>3. /\ Outside'
      /\ op.kind = "source" =>
            /\ \A r \in Routes : Foreign(nodes[r])' = Foreign(op.before[r])'
            /\ \A r \in DOMAIN op'.plan : Foreign(op.plan[r])' = Foreign(op.before[r])'
      /\ op.kind = "select" => \A r \in Routes : nodes'[r].src = op'.before[r].src
  BY <1>1, <1>2, AloneOnward
<1>4. SourceAlone'
  BY <1>2, <1>3 DEF SourceAlone, Early
<1>5. Back'
  <2>1. CASE RestoreConfig(op.cfg) /\ Moved(op.cfg)
    <3>1. running' = config' /\ \A r \in Routes : config'[r] = NoPort <=> op.cfg[r] = NoPort
      BY <2>1 DEF RestoreConfig, Serves, Ported
    <3>2. "order" \notin blame' => config' = op.cfg
      BY <2>1 DEF Moved
    <3>3. "rollback" \notin blame' => nodes = op.before
      BY <1>1, <2>1 DEF Moved, Alone, Back
    <3> QED BY <1>1, <1>2, <3>1, <3>2, <3>3 DEF Back
  <2>2. CASE blame' = blame \cup {"rollback"}
    BY <2>2 DEF Back
  <2> QED BY <2>1, <2>2 DEF UndoConfig
<1> QED BY <1>2, <1>3, <1>4, <1>5 DEF Alone, SelectAlone, AllAlone

\* A connectivity job plans to fail only nodes of its tags.
LEMMA AlonePlanSelect ==
    ASSUME Typed, Shape, Alone, op.alone, PlanSelect
    PROVE  Alone'
<1>1. CASE Quit
  BY <1>1, NoOpAlone DEF Quit
<1>2. CASE ~Quit
  <2>1. PICK bad \in Bad, F \in SUBSET Present :
           /\ op.kind = "select" /\ op.pc = "plan"
           /\ op'.kind = "select" /\ op'.pc = "remove" /\ op'.tags = op.tags /\ op'.cfg = op.cfg
           /\ op'.before = nodes /\ op'.touched = Present /\ op'.alone = op.alone
           /\ op'.todo \subseteq Present
           /\ F \cap InPool \subseteq op.names
           /\ DOMAIN op'.plan = Present
           /\ \A r \in Present : op'.plan[r] = IF r \in F THEN Entry(nodes[r].src, "failed", NoPort) ELSE nodes[r]
    BY <1>2, SelectFields
  <2>2. nodes' = nodes
    BY DEF PlanSelect
  <2>3. ASSUME NEW r \in Present
        PROVE  /\ op'.plan[r].src = nodes[r].src
               /\ nodes[r].st = "pool" /\ nodes[r].src \ op.tags # {} => op'.plan[r].st = "pool"
    <3>1. CASE r \in F
      <4>1. op'.plan[r].src = nodes[r].src
        <5>1. op'.plan[r] = Entry(nodes[r].src, "failed", NoPort)
          BY <2>1, <3>1
        <5>2. Entry(nodes[r].src, "failed", NoPort).src = nodes[r].src
          BY DEF Entry
        <5> QED BY <5>1, <5>2
      <4>2. nodes[r].st = "pool" => nodes[r].src \subseteq op.tags
        BY <2>1, <3>1 DEF Alone, SelectAlone, Early, InPool, Present
      <4> QED BY <4>1, <4>2
    <3>2. CASE r \notin F
      BY <2>1, <3>2
    <3> QED BY <3>1, <3>2
  <2>4. \A r \in Routes : nodes[r] # Absent => r \in Present
    BY DEF Present
  <2> QED BY <2>1, <2>2, <2>3, <2>4 DEF Alone, Outside, SourceAlone, SelectAlone, AllAlone, Back, Early, Foreign
<1> QED BY <1>1, <1>2

\* Its new routes are in the configuration, the store is as it was.
LEMMA AloneCreateSelect ==
    ASSUME Typed, Shape, Alone, op.alone, CreateSelect
    PROVE  Alone'
<1>1. op.kind = "select" /\ op.pc = "store" /\ op.pc \notin Early /\ nodes' = nodes
  BY DEF CreateSelect, At, Early
<1>2. CASE TakeBack("undo")
  BY <1>1, <1>2, AloneTakeBack
<1>3. CASE ~TakeBack("undo")
  <2>1. PICK b, pc : op' = [op EXCEPT !.made = b, !.pc = pc] /\ pc \in {"settle", "reload"}
    BY <1>3 DEF CreateSelect
  <2>2. /\ op'.kind = "select" /\ op'.pc \in {"settle", "reload"} /\ op'.pc \notin Early /\ op'.tags = op.tags
        /\ op'.before = op.before /\ op'.touched = op.touched /\ op'.plan = op.plan
    BY <1>1, <2>1 DEF Typed, Op, Early
  <2>3. Outside'
    BY <1>1, <2>2, AloneOnward
  <2>4. SelectAlone'
    BY <1>1, <2>2 DEF Alone, SelectAlone, Foreign, Early
  <2> QED BY <2>2, <2>3, <2>4 DEF Alone, SourceAlone, AllAlone, Back
<1> QED BY <1>2, <1>3

\* The store has what the job planned.
LEMMA AloneSettle ==
    ASSUME Typed, Shape, Alone, op.alone, Settle
    PROVE  Alone'
<1>1. op.kind = "select" /\ op.pc = "settle" /\ op.pc \notin Early
  BY DEF Settle, At, Early
<1>2. CASE TakeBack("undo") /\ nodes' = nodes
  BY <1>1, <1>2, AloneTakeBack
<1>3. CASE ~(TakeBack("undo") /\ nodes' = nodes)
  <2>1. /\ Goto("verify")
        /\ nodes' = [r \in Routes |->
                          IF r \in op.todo THEN Entry(op.before[r].src, "pool", config[r])
                          ELSE IF r \in DOMAIN op.plan THEN op.plan[r] ELSE nodes[r]]
    BY <1>3 DEF Settle
  <2>2. /\ op'.kind = "select" /\ op'.pc = "verify" /\ op'.before = op.before /\ op'.touched = op.touched
    BY <1>1, <2>1, GotoFields DEF Typed, Labels
  <2>3. Outside'
    BY <1>1, <2>1, <2>2 DEF Alone, Outside, Shape, OpShape
  <2>4. ASSUME NEW r \in Routes PROVE nodes'[r].src = op.before[r].src
    <3>1. /\ nodes = op.before
          /\ \A s \in DOMAIN op.plan : op.plan[s].src = op.before[s].src
      BY <1>1 DEF Alone, SelectAlone
    <3>2. CASE r \in op.todo
      BY <2>1, <3>2 DEF Entry
    <3>3. CASE r \notin op.todo
      BY <2>1, <3>1, <3>3
    <3> QED BY <3>2, <3>3
  <2> QED BY <2>2, <2>3, <2>4 DEF Alone, SourceAlone, SelectAlone, AllAlone, Back, Early
<1> QED BY <1>2, <1>3

\* Until it empties the store, the deletion of everything leaves it alone.
LEMMA AloneAll ==
    ASSUME Typed, Shape, Alone, op.alone, RemoveAll \/ ReloadAll \/ DropNodes
    PROVE  Alone'
<1>1. /\ op.kind = "all" /\ op.pc \in {"remove", "reload", "drop"} /\ op.pc \notin Early /\ op.kind # "none"
      /\ op.before = nodes
  <2>1. op.kind = "all" /\ op.pc \in {"remove", "reload", "drop"}
    BY DEF RemoveAll, ReloadAll, DropNodes, At, Typed, Shape, OpShape, Op, NoOp
  <2> QED BY <2>1 DEF Early, Alone, AllAlone
<1>2. CASE nodes' = nodes /\ TakeBack("undoconfig")
  BY <1>1, <1>2, AloneTakeBack
<1>3. CASE nodes' = nodes /\ (Goto("drop") \/ Goto("reload"))
  <2>1. op'.kind = "all" /\ op'.pc \in {"drop", "reload"} /\ op'.before = op.before
    BY <1>1, <1>3, GotoFields DEF Typed, Labels
  <2> QED BY <1>1, <1>3, <2>1 DEF Alone, Outside, SourceAlone, SelectAlone, AllAlone, Back
<1>4. CASE Goto("verify") /\ nodes' = [r \in Routes |-> IF r \in op.touched THEN Absent ELSE nodes[r]]
  <2>1. op'.kind = "all" /\ op'.pc = "verify" /\ op'.before = op.before /\ op'.touched = op.touched
    BY <1>1, <1>4, GotoFields DEF Typed, Labels
  <2> QED BY <1>1, <1>4, <2>1 DEF Alone, Outside, SourceAlone, SelectAlone, AllAlone, Back
<1> QED BY <1>2, <1>3, <1>4 DEF RemoveAll, ReloadAll, DropNodes

\* Every step keeps what an undisturbed operation has.
LEMMA AloneKept ==
    ASSUME Typed, Shape, Apart, Alone, [Next]_vars
    PROVE  Alone'
<1>1. CASE UNCHANGED vars
  BY <1>1 DEF vars, Alone, Outside, SourceAlone, SelectAlone, AllAlone, Back, Foreign, SameRoutes, InPool, Configured
<1>2. CASE BeginSource \/ BeginSelect \/ BeginAll
  BY <1>2, AloneBegin
<1>3. CASE OpStep
  <2>1. CASE op' = NoOp
    BY <2>1, NoOpAlone
  <2>2. CASE op' # NoOp /\ ~op.alone
    BY <1>3, <2>2, OpStepFrame DEF Alone
  <2>3. CASE op.alone
    BY <1>3, <2>3, AloneEnsure, AloneList, AlonePlan, AloneRemoveNames, AloneStorePlan, AlonePick, AloneCreate,
       AloneMark, AloneReload, AloneVerify, AloneUndo, AloneUndoConfig, AlonePlanSelect, AloneCreateSelect,
       AloneSettle, AloneAll, AloneUndoAll, NoOpAlone DEF OpStep, Failed, Quit
  <2> QED BY <2>1, <2>2, <2>3
<1>4. CASE UserStep
  BY <1>4, UserStepFrame DEF Alone, Apart
<1>5. CASE BeginsUser
  BY <1>5, BeginUserFrame DEF Alone
<1>6. CASE \E r \in Routes : Exclude(r)
  BY <1>6, ExcludeFrame DEF Alone
<1> QED BY <1>1, <1>2, <1>3, <1>4, <1>5, <1>6 DEF Next, BeginsUser

-----------------------------------------------------------------------------
(* The pool and the configuration agree unless something is noted.         *)

\* Two nodes are as one to the pool; a route is in the pool of n on its port
\* in c, or in neither.
SamePool(n, m) == (n.st = "pool" <=> m.st = "pool") /\ (n.st = "pool" => n.port = m.port)
Match(n, p) == (n.st = "pool" <=> p # NoPort) /\ (n.st = "pool" => n.port = p)
Matches(s, c) == \A r \in Routes : Match(s[r], c[r])
Agree == Matches(nodes, config) /\ Listened

\* What is planned and taken back with nothing noted.
OpAgrees ==
    /\ op.pc \in Early => op.pc # "ensured" /\ Agree
    /\ op.pc = "plan" => op.cfg = config
    /\ op.pc \notin Early =>
          /\ Matches(op.before, op.cfg)
          /\ \A r \in Routes \ op.touched : SamePool(nodes[r], op.before[r])
    /\ (op.kind = "all" /\ op.pc \in {"remove", "reload", "drop"}) \/ op.pc = "undoconfig" =>
          \A r \in Routes : SamePool(nodes[r], op.before[r])
    /\ op.pc = "failed" => Agree

\* The routes that a user's operation takes out of the pool.
Leaving == user.drop \cup {r \in DOMAIN user.plan : user.plan[r].st # "pool"}

\* A user's operation takes a route out of the configuration first.
UserAgrees ==
    /\ user.pc \in {"create", "remove", "ports"} => Agree
    /\ user.pc = "create" => \A r \in user.r : nodes[r].st = "passed"
    /\ user.pc = "mark" =>
          \A r \in user.r : /\ config[r] = user.port /\ user.port # NoPort
                            /\ \A s \in Routes \ {r} : Match(nodes[s], config[s])
    /\ user.pc = "remove" => user.r = Leaving \cap InPool
    /\ user.pc \in {"reload", "detached", "store"} =>
          \A r \in Routes : IF r \in Leaving THEN config[r] = NoPort ELSE Match(nodes[r], config[r])
    /\ user.pc = "store" => Listened
    /\ \A r \in DOMAIN user.plan : user.plan[r].st = "pool" => SamePool(nodes[r], user.plan[r])

Blameless ==
    blame = {} =>
        /\ op.kind = "none" /\ user.kind = "none" => Agree
        /\ op.kind # "none" => OpAgrees
        /\ user.kind # "none" => UserAgrees

\* A pool that matches has the routes of the configuration.
LEMMA AgreeIs ==
    ASSUME Typed
    PROVE  Matches(nodes, config) => SameRoutes
BY DEF Matches, Match, SameRoutes, InPool, Configured

\* A store that has learnt the ports matches them.
LEMMA SyncedMatches ==
    ASSUME Typed, SameRoutes
    PROVE  Matches(Synced(nodes), config)
<1>1. ASSUME NEW r \in Routes PROVE Match(Synced(nodes)[r], config[r])
  <2>1. nodes[r].st = "pool" <=> config[r] # NoPort
    BY DEF SameRoutes, InPool, Configured
  <2>2. Synced(nodes)[r].st = nodes[r].st
    BY SyncedIsStore DEF Typed
  <2>3. CASE nodes[r].st = "pool"
    <3>1. nodes[r] \in Node /\ nodes[r] # Absent
      BY <2>3 DEF Typed, Store, Absent
    <3>2. nodes[r] \in [src : (SUBSET Tags) \ {{}}, st : States, port : PortOrNone]
      BY <3>1 DEF Node
    <3>3. Synced(nodes)[r] = [nodes[r] EXCEPT !.port = config[r]]
      BY <2>1, <2>3 DEF Synced
    <3>4. [nodes[r] EXCEPT !.port = config[r]].port = config[r]
      BY <3>2
    <3> QED BY <2>1, <2>2, <3>3, <3>4 DEF Match
  <2>4. CASE nodes[r].st # "pool"
    BY <2>1, <2>2, <2>4 DEF Match
  <2> QED BY <2>3, <2>4
<1> QED BY <1>1 DEF Matches

\* Nothing is noted while both sorts are at work.
LEMMA NotedApart ==
    ASSUME Typed, Shape, Apart, blame = {}
    PROVE  op.kind = "none" \/ user.kind = "none"
BY DEF Apart, Shape, UserShape, NoUser

\* The operation with the lock is over: what is left agrees.
LEMMA OverAgrees ==
    ASSUME Typed, Shape, Apart, op.kind # "none", op' = NoOp, user' = user,
           blame' = {} => Agree' /\ (blame = {} \/ user = NoUser)
    PROVE  Blameless'
<1> SUFFICES ASSUME blame' = {} PROVE Agree' /\ user'.kind = "none"
  BY DEF Blameless, NoOp
<1> QED BY DEF Apart, NoUser

\* A locked operation begins where all agrees.
LEMMA BlamelessBegin ==
    ASSUME Typed, Shape, Apart, Blameless, BeginSource \/ BeginSelect \/ BeginAll
    PROVE  Blameless'
<1> SUFFICES ASSUME blame' = {} PROVE OpAgrees' /\ user'.kind = "none"
  BY DEF Blameless, BeginSource, BeginSelect, BeginAll, Begin, NoOp
<1>1. /\ op = NoOp /\ user = NoUser /\ blame = {}
      /\ UNCHANGED <<nodes, config, running, user>>
  BY BeginsFrame
<1>2. Agree
  BY <1>1 DEF Blameless, NoOp, NoUser
<1>3. Agree' /\ user'.kind = "none"
  BY <1>1, <1>2 DEF Agree, Matches, Match, Listened, Used, NoUser
<1>4. CASE BeginSource \/ BeginSelect
  <2>1. op'.pc \in {"ensure", "list"}
    BY <1>4 DEF BeginSource, BeginSelect, Begin, NoOp
  <2> QED BY <1>3, <2>1 DEF OpAgrees, Early
<1>5. CASE BeginAll
  <2>1. op'.pc = "remove" /\ op'.before = nodes /\ op'.cfg = config
    BY <1>5 DEF BeginAll, Begin, NoOp
  <2> QED BY <1>1, <1>2, <1>3, <2>1 DEF OpAgrees, Early, Agree, SamePool
<1> QED BY <1>3, <1>4, <1>5

\* Until the plan all agrees, and what was read is what there is.
LEMMA BlamelessEarly ==
    ASSUME Typed, Shape, Apart, Blameless, Ensure \/ Ensured \/ List \/ Plan \/ PlanSelect
    PROVE  Blameless'
<1>1. op.kind # "none" /\ op.pc \in Early /\ user' = user /\ blame' = blame
  BY OpStepFrame DEF Ensure, Ensured, List, Plan, PlanSelect, At, Early, OpStep
<1> SUFFICES ASSUME blame = {} PROVE Blameless'
  BY <1>1 DEF Blameless
<1>2. op.pc # "ensured" /\ Agree /\ (op.pc = "plan" => op.cfg = config) /\ user.kind = "none"
  BY <1>1, NotedApart DEF Blameless, OpAgrees
<1>3. CASE Ensure
  <2>1. \/ nodes' = Synced(nodes) /\ Goto("list") /\ UNCHANGED <<config, running>>
        \/ UNCHANGED <<nodes, config, running>> /\ Quit
    BY <1>2, <1>3, AgreeIs DEF Ensure, Agree
  <2>2. CASE nodes' = Synced(nodes) /\ Goto("list") /\ UNCHANGED <<config, running>>
    <3>1. Agree'
      <4>1. Matches(nodes', config')
        BY <1>2, <2>2, AgreeIs, SyncedMatches DEF Agree
      <4>2. Listened'
        BY <1>2, <2>2 DEF Agree, Listened, Used
      <4> QED BY <4>1, <4>2 DEF Agree, Matches
    <3>2. op'.kind = op.kind /\ op'.pc = "list"
      BY <2>2, GotoFields DEF Typed, Labels
    <3> QED BY <1>1, <1>2, <3>1, <3>2 DEF Blameless, OpAgrees, Early
  <2>3. CASE UNCHANGED <<nodes, config, running>> /\ Quit
    <3>1. Agree'
      BY <1>2, <2>3 DEF Agree, Matches, Match, Listened, Used
    <3> QED BY <1>1, <2>3, <3>1, OverAgrees DEF Quit
  <2> QED BY <2>1, <2>2, <2>3
<1>4. CASE Ensured
  BY <1>2, <1>4 DEF Ensured
<1>5. CASE List
  <2>1. op'.kind = op.kind /\ op'.pc = "plan" /\ op'.cfg = config
    BY <1>5 DEF List, Typed, Op
  <2>2. Agree' /\ config' = config
    BY <1>2, <1>5 DEF List, Agree, Matches, Match, Listened, Used
  <2> QED BY <1>1, <1>2, <2>1, <2>2 DEF Blameless, OpAgrees, Early
<1>6. CASE Quit /\ PlanSelect
  <2>1. Agree'
    BY <1>2, <1>6 DEF PlanSelect, Agree, Matches, Match, Listened, Used
  <2> QED BY <1>1, <1>6, <2>1, OverAgrees DEF Quit
<1>7. CASE Plan \/ (PlanSelect /\ ~Quit)
  <2>1. op.pc = "plan" /\ op'.kind = op.kind /\ op'.pc = "remove" /\ op'.before = nodes /\ op'.cfg = op.cfg
    BY <1>7, PlanFields, SelectFields
  <2>2. nodes' = nodes /\ config' = config
    BY <1>7 DEF Plan, PlanSelect
  <2>3. op'.kind # "all"
    BY <1>7, <2>1 DEF Plan, PlanSelect, At
  <2> QED BY <1>1, <1>2, <2>1, <2>2, <2>3 DEF Blameless, OpAgrees, Early, Agree, SamePool
<1> QED BY <1>3, <1>4, <1>5, <1>6, <1>7

\* Past the plan the nodes change where they are touched.
LEMMA BlamelessOnward ==
    ASSUME Typed, Shape, Apart, Blameless, op.kind # "none", op.pc \notin Early, user' = user, blame' = blame,
           op'.pc \notin Early, op'.pc \notin {"undoconfig", "failed"},
           op'.kind = "all" => op'.pc \notin {"remove", "reload", "drop"},
           op'.kind = op.kind, op'.before = op.before, op'.cfg = op.cfg, op'.touched = op.touched,
           \A r \in Routes \ op.touched : nodes'[r] = nodes[r]
    PROVE  Blameless'
<1> SUFFICES ASSUME blame = {} PROVE OpAgrees' /\ user'.kind = "none"
  BY DEF Blameless
<1>1. OpAgrees /\ user.kind = "none"
  BY NotedApart DEF Blameless
<1>2. Matches(op'.before, op'.cfg)
  BY <1>1 DEF OpAgrees
<1>3. \A r \in Routes \ op'.touched : SamePool(nodes'[r], op'.before[r])
  BY <1>1 DEF OpAgrees
<1>4. (op'.pc \in Early => FALSE) /\ op'.pc # "plan" /\ op'.pc # "failed"
  BY DEF Early
<1>5. user'.kind = "none"
  BY <1>1
<1> QED BY <1>2, <1>3, <1>4, <1>5 DEF OpAgrees, Matches, Match, SamePool

\* Taking back begins with nodes that match, but for those touched.
LEMMA BlamelessTakeBack ==
    ASSUME Typed, Shape, Apart, Blameless, op.kind # "none", op.pc \notin Early, user' = user, blame' = blame,
           nodes' = nodes,
           \/ TakeBack("undo")
           \/ TakeBack("undoconfig") /\ op.kind = "all" /\ op.pc \in {"remove", "reload", "drop"}
    PROVE  Blameless'
<1>1. /\ op'.pc \in {"undo", "undoconfig"} /\ op'.pc \notin Early /\ op'.kind = op.kind
      /\ op'.before = op.before /\ op'.touched = op.touched /\ op'.cfg = op.cfg
  BY TakeBackFields DEF Typed, Labels, Early
<1>2. CASE op'.pc = "undo"
  BY <1>1, <1>2, BlamelessOnward
<1>3. CASE op'.pc = "undoconfig"
  <2> SUFFICES ASSUME blame = {} PROVE OpAgrees' /\ user'.kind = "none"
    BY <1>1 DEF Blameless
  <2>1. OpAgrees /\ user.kind = "none"
    BY NotedApart DEF Blameless
  <2>2. op.kind = "all" /\ op.pc \in {"remove", "reload", "drop"}
    BY <1>3, TakeBackFields DEF Typed, Labels
  <2> QED BY <1>1, <1>3, <2>1, <2>2 DEF OpAgrees
<1> QED BY <1>1, <1>2, <1>3

\* The steps of a source that write what was planned: what stays.
LEMMA SourceFrame ==
    ASSUME Typed, Shape, StorePlan \/ Pick \/ Create \/ Mark
    PROVE  /\ op.kind = "source" /\ op.pc \notin Early /\ user' = user /\ blame' = blame
           /\ \A r \in Routes \ op.touched : nodes'[r] = nodes[r]
           /\ op'.pc \in {"undo", "reload", "pick", "create", "mark"}
           /\ op'.kind = op.kind /\ op'.before = op.before /\ op'.cfg = op.cfg /\ op'.touched = op.touched
<1>1. op.kind = "source" /\ op.pc \notin Early
  <2>1. op.pc \in {"store", "pick", "create", "mark"} /\ (op.pc = "store" => op.kind = "source")
    BY DEF StorePlan, Pick, Create, Mark, At
  <2> QED BY <2>1 DEF Typed, Shape, OpShape, Op, NoOp, Early
<1>2. user' = user /\ blame' = blame
  BY DEF StorePlan, Pick, Create, Mark
<1>3. \A r \in Routes \ op.touched : nodes'[r] = nodes[r]
  <2>1. DOMAIN op.plan \subseteq op.touched /\ op.todo \subseteq op.touched
    BY <1>1 DEF Shape, OpShape
  <2>2. CASE StorePlan
    BY <2>1, <2>2 DEF StorePlan
  <2>3. CASE Pick
    BY <2>1, <2>3 DEF Pick
  <2>4. CASE Create
    BY <2>1, <2>4 DEF Create
  <2>5. CASE Mark
    <3>1. ASSUME NEW r \in Routes \ op.touched PROVE nodes'[r] = nodes[r]
      <4>1. r \notin op.todo \cap Present
        BY <2>1
      <4> QED BY <2>5, <4>1 DEF Mark
    <3> QED BY <3>1
  <2> QED BY <2>2, <2>3, <2>4, <2>5
<1>4. /\ op'.pc \in {"undo", "reload", "pick", "create", "mark"}
      /\ op'.kind = op.kind /\ op'.before = op.before /\ op'.cfg = op.cfg /\ op'.touched = op.touched
  <2>1. CASE TakeBack("undo")
    BY <2>1, TakeBackFields DEF Typed, Labels
  <2>2. CASE StorePlan /\ ~TakeBack("undo")
    <3> DEFINE passed == {r \in DOMAIN op.plan : op.plan[r].st = "passed"}
    <3>1. \/ op' = [op EXCEPT !.pc = "reload", !.plan = <<>>]
          \/ op' = [op EXCEPT !.pc = "pick", !.plan = <<>>, !.todo = passed]
      BY <2>2 DEF StorePlan
    <3> HIDE DEF passed
    <3> QED BY <3>1 DEF Typed, Op
  <2>3. CASE Pick /\ ~TakeBack("undo")
    <3>1. PICK T, pc : op' = [op EXCEPT !.todo = T, !.pc = pc] /\ pc \in {"reload", "create"}
      BY <2>3 DEF Pick
    <3> QED BY <3>1 DEF Typed, Op
  <2>4. CASE Create /\ ~TakeBack("undo")
    <3>1. PICK C : op' = [op EXCEPT !.pc = "mark", !.todo = C]
      BY <2>4 DEF Create
    <3> QED BY <3>1 DEF Typed, Op
  <2>5. CASE Mark /\ ~TakeBack("undo")
    <3>1. PICK b : op' = [op EXCEPT !.pc = "reload", !.todo = {}, !.made = b]
      BY <2>5 DEF Mark
    <3> QED BY <3>1 DEF Typed, Op
  <2> QED BY <2>1, <2>2, <2>3, <2>4, <2>5
<1> QED BY <1>1, <1>2, <1>3, <1>4

\* A source writes only what it can take back.
LEMMA BlamelessSource ==
    ASSUME Typed, Shape, Apart, Blameless, StorePlan \/ Pick \/ Create \/ Mark
    PROVE  Blameless'
BY SourceFrame, BlamelessOnward DEF Early

\* So do the steps it shares with a connectivity job, and the job's own.
LEMMA BlamelessShared ==
    ASSUME Typed, Shape, Apart, Blameless, RemoveNames \/ CreateSelect \/ Reload \/ Settle
    PROVE  Blameless'
<1>1. op.kind \in {"source", "select"} /\ op.pc \notin Early
  <2>1. op.pc \in {"remove", "store", "reload", "settle"} /\ (op.pc = "store" => op.kind = "select")
        /\ op.kind # "all"
    BY DEF RemoveNames, CreateSelect, Reload, Settle, At
  <2> QED BY <2>1 DEF Typed, Shape, OpShape, Op, NoOp, Early
<1>2. user' = user /\ blame' = blame
  BY DEF RemoveNames, CreateSelect, Reload, Settle
<1>3. \A r \in Routes \ op.touched : nodes'[r] = nodes[r]
  <2>1. CASE nodes' = nodes
    BY <2>1
  <2>2. CASE Settle
    <3>1. op.kind = "select"
      BY <2>2 DEF Settle, At
    <3>2. DOMAIN op.plan \subseteq op.touched /\ op.todo \subseteq op.touched
      BY <1>1, <3>1 DEF Shape, OpShape
    <3> QED BY <2>2, <3>2 DEF Settle
  <2> QED BY <2>1, <2>2 DEF RemoveNames, CreateSelect, Reload
<1>4. /\ op'.pc \in {"undo", "store", "reload", "settle", "verify"}
      /\ op'.kind = op.kind /\ op'.before = op.before /\ op'.cfg = op.cfg /\ op'.touched = op.touched
  <2>1. CASE TakeBack("undo") \/ Goto("store") \/ Goto("settle") \/ Goto("verify")
    BY <2>1, GotoFields, TakeBackFields DEF Typed, Labels
  <2>2. CASE op' = [op EXCEPT !.pc = "store", !.names = {}, !.made = TRUE]
    BY <2>2 DEF Typed, Op
  <2>3. CASE CreateSelect /\ ~TakeBack("undo")
    <3>1. PICK b, pc : op' = [op EXCEPT !.made = b, !.pc = pc] /\ pc \in {"settle", "reload"}
      BY <2>3 DEF CreateSelect
    <3> QED BY <3>1 DEF Typed, Op
  <2> QED BY <2>1, <2>2, <2>3 DEF RemoveNames, Reload, Settle
<1> QED BY <1>1, <1>2, <1>3, <1>4, BlamelessOnward DEF Early

\* Success is all agreeing, whatever was before.
LEMMA BlamelessVerify ==
    ASSUME Typed, Shape, Apart, Blameless, Verify
    PROVE  Blameless'
<1>1. op.kind # "none" /\ op.pc \notin Early /\ user' = user
  BY DEF Verify, Shape, OpShape, NoOp, Early
<1>2. CASE UNCHANGED <<nodes, blame>> /\ TakeBack("undo")
  BY <1>1, <1>2, BlamelessTakeBack
<1>3. CASE SameRoutes /\ Listened /\ nodes' = Synced(nodes) /\ Succeeds
  <2>1. UNCHANGED <<config, running>>
    BY DEF Verify
  <2>2. Matches(nodes', config)
    BY <1>3, SyncedMatches
  <2>3. Agree'
    BY <1>3, <2>1, <2>2 DEF Agree, Matches, Match, Listened, Used
  <2>4. blame' = {} => user = NoUser
    BY <1>3 DEF Succeeds
  <2> QED BY <1>1, <1>3, <2>3, <2>4, OverAgrees DEF Succeeds, Quit
<1> QED BY <1>2, <1>3 DEF Verify

\* What was touched is in the pool as before.
LEMMA BlamelessUndo ==
    ASSUME Typed, Shape, Apart, Blameless, Undo \/ UndoAll
    PROVE  Blameless'
<1>1. op.kind # "none" /\ op.pc = "undo" /\ op.pc \notin Early /\ user' = user
  BY DEF Undo, UndoAll, At, Shape, OpShape, NoOp, Early
<1>2. /\ op'.kind = op.kind /\ op'.pc = "undoconfig" /\ op'.pc \notin Early /\ op'.cfg = op.cfg
      /\ op'.before = op.before /\ op'.touched = op.touched
  BY GotoFields DEF Undo, UndoAll, Typed, Labels, Early
<1> SUFFICES ASSUME blame' = {} PROVE OpAgrees' /\ user'.kind = "none"
  BY <1>1, <1>2 DEF Blameless
<1>3. blame = {}
  BY DEF Undo, UndoAll
<1>4. OpAgrees /\ user.kind = "none"
  BY <1>1, <1>3, NotedApart DEF Blameless
<1>5. ASSUME NEW r \in Routes PROVE SamePool(nodes'[r], op.before[r])
  <2>1. CASE UndoAll
    <3>1. nodes' = op.before
      BY <2>1, <1>3 DEF UndoAll
    <3> QED BY <3>1 DEF SamePool
  <2>2. CASE Undo
    <3>1. nodes' = [x \in Routes |-> IF x \in op.touched THEN op.before[x] ELSE nodes[x]]
      BY <2>2, <1>3 DEF Undo
    <3>2. CASE r \in op.touched
      BY <3>1, <3>2 DEF SamePool
    <3>3. CASE r \notin op.touched
      BY <1>1, <1>4, <3>1, <3>3 DEF OpAgrees
    <3> QED BY <3>2, <3>3
  <2> QED BY <2>1, <2>2
<1> QED BY <1>1, <1>2, <1>4, <1>5 DEF OpAgrees

\* The configuration is served again: all agrees.
LEMMA BlamelessUndoConfig ==
    ASSUME Typed, Shape, Apart, Blameless, UndoConfig
    PROVE  Blameless'
<1>1. op.kind # "none" /\ op.pc = "undoconfig" /\ op.pc \notin Early /\ user' = user /\ nodes' = nodes
  BY DEF UndoConfig, Shape, OpShape, NoOp, Early
<1>2. /\ op'.kind = op.kind /\ op'.pc = "failed" /\ op'.pc \notin Early /\ op'.cfg = op.cfg
      /\ op'.before = op.before /\ op'.touched = op.touched
  BY GotoFields DEF UndoConfig, Typed, Labels, Early
<1> SUFFICES ASSUME blame' = {} PROVE OpAgrees' /\ user'.kind = "none"
  BY <1>1, <1>2 DEF Blameless
<1>3. blame = {} /\ RestoreConfig(op.cfg) /\ config' = op.cfg
  BY DEF UndoConfig, Moved
<1>4. OpAgrees /\ user.kind = "none"
  BY <1>1, <1>3, NotedApart DEF Blameless
<1>5. Matches(op.before, op.cfg) /\ \A r \in Routes : SamePool(nodes[r], op.before[r])
  BY <1>1, <1>4 DEF OpAgrees
<1>6. Matches(nodes, op.cfg)
  BY <1>5 DEF Matches, Match, SamePool
<1>7. running' = config'
  BY <1>3 DEF RestoreConfig, Serves
<1>8. Agree'
  BY <1>1, <1>3, <1>6, <1>7 DEF Agree, Matches, Match, Listened, Used
<1> QED BY <1>1, <1>2, <1>4, <1>5, <1>8 DEF OpAgrees, Matches, Match

\* So it does when the operation is over.
LEMMA BlamelessFailed ==
    ASSUME Typed, Shape, Apart, Blameless, Failed
    PROVE  Blameless'
<1>1. op.kind # "none" /\ op.pc = "failed" /\ op' = NoOp /\ UNCHANGED <<nodes, config, running, user, blame>>
  BY DEF Failed, Quit, Shape, OpShape, NoOp
<1>2. blame = {} => Agree
  BY <1>1 DEF Blameless, OpAgrees
<1>3. Agree' = Agree
  BY <1>1 DEF Agree, Matches, Match, Listened, Used
<1> QED BY <1>1, <1>2, <1>3, OverAgrees

\* The deletion of everything.
LEMMA BlamelessAll ==
    ASSUME Typed, Shape, Apart, Blameless, RemoveAll \/ ReloadAll \/ DropNodes
    PROVE  Blameless'
<1>1. op.kind = "all" /\ op.pc \in {"remove", "reload", "drop"} /\ op.pc \notin Early /\ user' = user /\ blame' = blame
  BY DEF RemoveAll, ReloadAll, DropNodes, At, Typed, Shape, OpShape, Op, NoOp, Early
<1>2. CASE nodes' = nodes /\ TakeBack("undoconfig")
  BY <1>1, <1>2, BlamelessTakeBack
<1>3. CASE nodes' = nodes /\ (Goto("drop") \/ Goto("reload"))
  <2>1. /\ op'.kind = "all" /\ op'.pc \in {"drop", "reload"} /\ op'.pc \notin Early /\ op'.cfg = op.cfg
        /\ op'.before = op.before /\ op'.touched = op.touched
    BY <1>1, <1>3, GotoFields DEF Typed, Labels, Early
  <2> SUFFICES ASSUME blame = {} PROVE OpAgrees' /\ user'.kind = "none"
    BY <1>1, <2>1 DEF Blameless
  <2>2. OpAgrees /\ user.kind = "none"
    BY <1>1, NotedApart DEF Blameless
  <2> QED BY <1>1, <1>3, <2>1, <2>2 DEF OpAgrees
<1>4. CASE Goto("verify") /\ nodes' = [r \in Routes |-> IF r \in op.touched THEN Absent ELSE nodes[r]]
  <2>1. /\ op'.kind = "all" /\ op'.pc = "verify" /\ op'.pc \notin Early /\ op'.cfg = op.cfg
        /\ op'.before = op.before /\ op'.touched = op.touched
    BY <1>1, <1>4, GotoFields DEF Typed, Labels, Early
  <2> QED BY <1>1, <1>4, <2>1, BlamelessOnward
<1> QED BY <1>2, <1>3, <1>4 DEF RemoveAll, ReloadAll, DropNodes

\* A step of a user's operation with nothing noted has the lock free.
LEMMA BlamelessUser ==
    ASSUME Typed, Shape, Apart, Blameless, UserStep, blame' = {}
    PROVE  /\ blame = {} /\ op.kind = "none" /\ op'.kind = "none" /\ user.kind # "none"
           /\ UserAgrees
<1>1. user # NoUser /\ op' = op /\ blame = {}
  BY UserStepFrame
<1>2. user.kind # "none"
  BY <1>1 DEF Shape, UserShape
<1>3. op.kind = "none"
  BY <1>1, <1>2, NotedApart
<1> QED BY <1>1, <1>2, <1>3 DEF Blameless

\* Promote creates a port for the one node that does not match yet.
LEMMA BlamelessPromoteCreate ==
    ASSUME Typed, Shape, Apart, Blameless, PromoteCreate
    PROVE  Blameless'
<1> SUFFICES ASSUME blame' = {}
             PROVE  /\ user'.kind = "none" => Agree'
                    /\ user'.kind # "none" => UserAgrees'
                    /\ op'.kind = "none"
  BY DEF Blameless
<1>1. op'.kind = "none" /\ UserAgrees
  BY BlamelessUser DEF UserStep
<1>2. Agree /\ user.kind = "promote" /\ user.pc = "create" /\ running' = running
  BY <1>1 DEF UserAgrees, PromoteCreate, UserAt
<1>3. PICK r \in user.r :
       \/ /\ config[r] = NoPort
          /\ \E p \in Ports \ Used(config) :
                config' = [config EXCEPT ![r] = p] /\ user' = [user EXCEPT !.pc = "mark", !.port = p]
          /\ UNCHANGED nodes
       \/ config[r] # NoPort /\ nodes' = [nodes EXCEPT ![r] = Absent] /\ user' = NoUser /\ UNCHANGED config
       \/ user' = NoUser /\ UNCHANGED <<nodes, config>>
  BY DEF PromoteCreate
<1>4. user.r = {r} /\ r \in Routes /\ user.drop = {} /\ user.plan = <<>>
  BY <1>2, <1>3 DEF Shape, UserShape
<1>5. config[r] = NoPort
  <2>1. nodes[r].st = "passed"
    BY <1>1, <1>2, <1>4 DEF UserAgrees
  <2> QED BY <1>2, <1>4, <2>1 DEF Agree, Matches, Match
<1>6. CASE user' = NoUser /\ UNCHANGED <<nodes, config>>
  <2>1. Agree'
    BY <1>2, <1>6 DEF Agree, Matches, Match, Listened, Used
  <2> QED BY <1>1, <1>6, <2>1 DEF NoUser
<1>7. CASE nodes' = nodes /\ \E p \in Ports : config' = [config EXCEPT ![r] = p] /\ user' = [user EXCEPT !.pc = "mark", !.port = p]
  <2>1. PICK p \in Ports : config' = [config EXCEPT ![r] = p] /\ user' = [user EXCEPT !.pc = "mark", !.port = p]
    BY <1>7
  <2>2. /\ user'.kind = "promote" /\ user'.pc = "mark" /\ user'.r = {r} /\ user'.port = p
        /\ user'.plan = <<>>
    BY <1>2, <1>4, <2>1 DEF Typed, User
  <2>3. config'[r] = p /\ p # NoPort /\ \A s \in Routes \ {r} : config'[s] = config[s]
    BY <1>4, <2>1, PortsAssumption DEF Typed, Config
  <2>4. \A s \in Routes \ {r} : Match(nodes'[s], config'[s])
    BY <1>2, <1>7, <2>3 DEF Agree, Matches, Match
  <2> QED BY <1>1, <2>2, <2>3, <2>4, NoPlan DEF UserAgrees, Match
<1> QED BY <1>3, <1>5, <1>6, <1>7

\* Marked with it, it does.
LEMMA BlamelessPromoteMark ==
    ASSUME Typed, Shape, Apart, Blameless, PromoteMark
    PROVE  Blameless'
<1> SUFFICES ASSUME blame' = {} PROVE user'.kind # "none" /\ UserAgrees' /\ op'.kind = "none"
  BY DEF Blameless
<1>1. op'.kind = "none" /\ UserAgrees
  BY BlamelessUser DEF UserStep
<1>2. user.kind = "promote" /\ user.pc = "mark" /\ UNCHANGED <<config, running>>
  BY DEF PromoteMark, UserAt
<1>3. PICK r \in user.r :
          /\ r \in Present
          /\ nodes' = [nodes EXCEPT ![r].st = "pool", ![r].port = user.port]
          /\ UserGoto("reload")
  BY DEF PromoteMark, Fault
<1>4. user.r = {r} /\ r \in Routes /\ user.drop = {} /\ user.plan = <<>>
  BY <1>2, <1>3 DEF Shape, UserShape
<1>5. user'.kind = "promote" /\ user'.pc = "reload" /\ user'.drop = {} /\ user'.plan = <<>>
  BY <1>2, <1>3, <1>4, UserGotoFields DEF Typed, UserLabels
<1>6. nodes[r] \in Node /\ nodes[r] # Absent
  BY <1>3, <1>4 DEF Typed, Store, Present
<1>7. nodes'[r].st = "pool" /\ nodes'[r].port = user.port /\ \A s \in Routes \ {r} : nodes'[s] = nodes[s]
  <2>1. nodes[r] \in [src : (SUBSET Tags) \ {{}}, st : States, port : PortOrNone]
    BY <1>6 DEF Node
  <2>2. nodes' = [nodes EXCEPT ![r] = [nodes[r] EXCEPT !.st = "pool", !.port = user.port]]
    BY <1>3, <1>4 DEF Typed, Store
  <2> QED BY <1>4, <2>1, <2>2 DEF Typed, Store
<1>8. \A s \in Routes : Match(nodes'[s], config'[s])
  <2>1. config[r] = user.port /\ user.port # NoPort /\ \A s \in Routes \ {r} : Match(nodes[s], config[s])
    BY <1>1, <1>2, <1>4 DEF UserAgrees
  <2> QED BY <1>2, <1>7, <2>1 DEF Match
<1>9. Leaving' = {}
  BY <1>5, NoPlan DEF Leaving
<1> QED BY <1>1, <1>5, <1>8, <1>9, NoPlan DEF UserAgrees, Match

\* What is to leave the pool leaves the configuration.
LEMMA RemovedAgrees ==
    ASSUME Typed, Agree, user.r = Leaving \cap InPool, Remove(user.r)
    PROVE  \A r \in Routes : IF r \in Leaving THEN config'[r] = NoPort ELSE Match(nodes[r], config'[r])
<1>1. \A r \in Routes : config'[r] = IF r \in user.r THEN NoPort ELSE config[r]
  BY DEF Remove
<1> QED BY <1>1 DEF Agree, Matches, Match, InPool

\* The routes are out of the configuration, or nothing has changed.
LEMMA BlamelessUserRemove ==
    ASSUME Typed, Shape, Apart, Blameless, UserRemove \/ DetachRemove
    PROVE  Blameless'
<1> SUFFICES ASSUME blame' = {}
             PROVE  /\ user'.kind = "none" => Agree'
                    /\ user'.kind # "none" => UserAgrees'
                    /\ op'.kind = "none"
  BY DEF Blameless
<1>1. op'.kind = "none" /\ UserAgrees /\ user.kind # "none"
  BY BlamelessUser DEF UserStep
<1>2. user.pc = "remove" /\ nodes' = nodes /\ running' = running
  BY DEF UserRemove, DetachRemove, UserAt
<1>3. Agree /\ user.r = Leaving \cap InPool
  BY <1>1, <1>2 DEF UserAgrees
<1>4. CASE user' = NoUser /\ config' = config
  <2>1. Agree'
    BY <1>2, <1>3, <1>4 DEF Agree, Matches, Match, Listened, Used
  <2> QED BY <1>1, <1>4, <2>1 DEF NoUser
<1>5. CASE Remove(user.r) /\ (UserGoto("reload") \/ UserGoto("detached"))
  <2>1. user'.kind = user.kind /\ user'.pc \in {"reload", "detached"} /\ user'.drop = user.drop /\ user'.plan = user.plan
    BY <1>5, UserGotoFields DEF Typed, UserLabels
  <2>2. Leaving' = Leaving
    BY <2>1 DEF Leaving
  <2>3. \A r \in Routes : IF r \in Leaving THEN config'[r] = NoPort ELSE Match(nodes[r], config'[r])
    BY <1>3, <1>5, RemovedAgrees
  <2>4. \A r \in DOMAIN user'.plan : user'.plan[r].st = "pool" => SamePool(nodes'[r], user'.plan[r])
    BY <1>1, <1>2, <2>1 DEF UserAgrees
  <2>5. \A r \in Routes : IF r \in Leaving' THEN config'[r] = NoPort ELSE Match(nodes'[r], config'[r])
    BY <1>2, <2>2, <2>3
  <2> QED BY <1>1, <2>1, <2>4, <2>5 DEF UserAgrees, Match, SamePool
<1> QED BY <1>4, <1>5 DEF UserRemove, DetachRemove, Fault

\* What is configured is served.
LEMMA BlamelessUserReload ==
    ASSUME Typed, Shape, Apart, Blameless, UserReload \/ DetachReload
    PROVE  Blameless'
<1> SUFFICES ASSUME blame' = {}
             PROVE  /\ user'.kind = "none" => Agree'
                    /\ user'.kind # "none" => UserAgrees'
                    /\ op'.kind = "none"
  BY DEF Blameless
<1>1. op'.kind = "none" /\ UserAgrees /\ user.kind # "none"
  BY BlamelessUser DEF UserStep
<1>2. user.pc \in {"reload", "detached"} /\ nodes' = nodes
  BY DEF UserReload, DetachReload, UserAt
<1>3. config' = config /\ running' = config'
  BY DEF UserReload, DetachReload, Fault, Moved, ReloadOk, Serves
<1>4. \A r \in Routes : IF r \in Leaving THEN config'[r] = NoPort ELSE Match(nodes'[r], config'[r])
  BY <1>1, <1>2, <1>3 DEF UserAgrees, Match
<1>5. Listened'
  BY <1>3 DEF Listened, Used
<1>6. CASE user' = NoUser
  <2>1. user.drop = {} /\ user.plan = <<>>
    BY <1>6 DEF UserReload, DetachReload, Fault, UserGoto, NoUser, Typed, User
  <2>2. Leaving = {}
    BY <2>1, NoPlan DEF Leaving
  <2>3. Agree'
    BY <1>4, <1>5, <2>2 DEF Agree, Matches, Match
  <2> QED BY <1>1, <1>6, <2>3 DEF NoUser
<1>7. CASE user' # NoUser
  <2>1. user'.kind = user.kind /\ user'.pc = "store" /\ user'.drop = user.drop /\ user'.plan = user.plan
    BY <1>7 DEF UserReload, DetachReload, UserGoto, Typed, User
  <2>2. Leaving' = Leaving
    BY <2>1 DEF Leaving
  <2>3. \A r \in DOMAIN user'.plan : user'.plan[r].st = "pool" => SamePool(nodes'[r], user'.plan[r])
    BY <1>1, <1>2, <2>1 DEF UserAgrees
  <2>4. \A r \in Routes : IF r \in Leaving' THEN config'[r] = NoPort ELSE Match(nodes'[r], config'[r])
    BY <1>4, <2>2
  <2> QED BY <1>1, <1>5, <2>1, <2>3, <2>4 DEF UserAgrees, Match, SamePool
<1> QED BY <1>6, <1>7

\* The nodes that left the configuration leave the pool.
LEMMA BlamelessUserStore ==
    ASSUME Typed, Shape, Apart, Blameless, UserStore
    PROVE  Blameless'
<1> SUFFICES ASSUME blame' = {} PROVE Agree' /\ user'.kind = "none" /\ op'.kind = "none"
  BY DEF Blameless
<1>1. op'.kind = "none" /\ UserAgrees
  BY BlamelessUser DEF UserStep
<1>2. user.pc = "store" /\ user'.kind = "none" /\ UNCHANGED <<config, running>>
  BY DEF UserStore, NoUser
<1>3. nodes' = [r \in Routes |-> IF r \in user.drop THEN Absent
                                 ELSE IF r \in DOMAIN user.plan THEN user.plan[r] ELSE nodes[r]]
  BY DEF UserStore, Fault
<1>4. ASSUME NEW r \in Routes PROVE Match(nodes'[r], config[r])
  <2>1. IF r \in Leaving THEN config[r] = NoPort ELSE Match(nodes[r], config[r])
    BY <1>1, <1>2 DEF UserAgrees
  <2>2. CASE r \in user.drop
    BY <1>3, <2>1, <2>2 DEF Leaving, Match, Absent
  <2>3. CASE r \notin user.drop /\ r \in DOMAIN user.plan
    <3>1. nodes'[r] = user.plan[r]
      BY <1>3, <2>3
    <3>2. CASE user.plan[r].st = "pool"
      <4>1. r \notin Leaving
        BY <2>3, <3>2 DEF Leaving
      <4>2. SamePool(nodes[r], user.plan[r])
        BY <1>1, <2>3, <3>2 DEF UserAgrees
      <4> QED BY <2>1, <3>1, <4>1, <4>2 DEF Match, SamePool
    <3>3. CASE user.plan[r].st # "pool"
      <4>1. r \in Leaving
        BY <2>3, <3>3 DEF Leaving
      <4> QED BY <2>1, <3>1, <3>3, <4>1 DEF Match
    <3> QED BY <3>2, <3>3
  <2>4. CASE r \notin user.drop /\ r \notin DOMAIN user.plan
    <3>1. r \notin Leaving
      BY <2>4 DEF Leaving
    <3> QED BY <1>3, <2>1, <2>4, <3>1
  <2> QED BY <2>2, <2>3, <2>4
<1>5. Listened'
  BY <1>1, <1>2 DEF UserAgrees, Listened, Used
<1> QED BY <1>1, <1>2, <1>4, <1>5 DEF Agree, Matches, Match

\* A user's operation begins with nothing noted where all agrees.
LEMMA BlamelessAtBegin ==
    ASSUME Typed, Shape, Apart, Blameless, BeginsUser, blame' = {}
    PROVE  op'.kind = "none" /\ Agree /\ Agree' /\ UNCHANGED <<nodes, config, running>>
<1>1. user = NoUser /\ UNCHANGED <<nodes, config, running>>
  BY BeginUserFrame
<1>2. op.kind = "none" /\ op' = op /\ blame = {}
  BY BeginUserFrame
<1>3. Agree
  BY <1>1, <1>2 DEF Blameless, NoUser
<1> QED BY <1>1, <1>2, <1>3 DEF Agree, Matches, Match, Listened, Used

\* Promote begins with a node that passed.
LEMMA BlamelessPromote ==
    ASSUME Typed, Shape, Apart, Blameless, NEW r \in Routes, Promote(r)
    PROVE  Blameless'
<1> SUFFICES ASSUME blame' = {} PROVE user'.kind # "none" /\ UserAgrees' /\ op'.kind = "none"
  BY DEF Blameless
<1>1. op'.kind = "none" /\ Agree' /\ nodes' = nodes
  BY BlamelessAtBegin DEF BeginsUser
<1>2. user'.kind = "promote" /\ user'.pc = "create" /\ user'.r = {r} /\ user'.plan = <<>> /\ nodes[r].st = "passed"
  BY DEF Promote, BeginUser, NoUser
<1> QED BY <1>1, <1>2, NoPlan DEF UserAgrees

\* Two ports are to change hands.
LEMMA BlamelessReorder ==
    ASSUME Typed, Shape, Apart, Blameless, NEW r \in Routes, NEW s \in Routes, Reorder(r, s)
    PROVE  Blameless'
<1> SUFFICES ASSUME blame' = {} PROVE user'.kind # "none" /\ UserAgrees' /\ op'.kind = "none"
  BY DEF Blameless
<1>1. op'.kind = "none" /\ Agree'
  BY BlamelessAtBegin DEF BeginsUser
<1>2. user'.kind = "reorder" /\ user'.pc = "ports" /\ user'.plan = <<>>
  BY DEF Reorder, BeginUser, NoUser
<1> QED BY <1>1, <1>2, NoPlan DEF UserAgrees

\* The routes that leave the pool are taken from the configuration first, when
\* there are any.
LEMMA BlamelessTaking ==
    ASSUME Typed, Shape, Apart, Blameless, BeginsUser,
           user'.kind # "none", user'.pc = IF Leaving' \cap InPool # {} THEN "remove" ELSE "store",
           user'.r = Leaving' \cap InPool,
           \A r \in DOMAIN user'.plan : user'.plan[r].st = "pool" => SamePool(nodes[r], user'.plan[r])
    PROVE  Blameless'
<1> SUFFICES ASSUME blame' = {} PROVE UserAgrees' /\ op'.kind = "none"
  BY DEF Blameless
<1>1. op'.kind = "none" /\ Agree /\ Agree' /\ UNCHANGED <<nodes, config, running>>
  BY BlamelessAtBegin
<1>2. \A r \in DOMAIN user'.plan : user'.plan[r].st = "pool" => SamePool(nodes'[r], user'.plan[r])
  BY <1>1
<1>3. CASE Leaving' \cap InPool # {}
  <2>1. user'.pc = "remove" /\ user'.r = (Leaving \cap InPool)'
    BY <1>1, <1>3 DEF InPool
  <2> QED BY <1>1, <1>2, <2>1 DEF UserAgrees, Agree, Matches, Match, SamePool
<1>4. CASE Leaving' \cap InPool = {}
  <2>1. user'.pc = "store"
    BY <1>4
  <2>2. \A r \in Routes : IF r \in Leaving' THEN config'[r] = NoPort ELSE Match(nodes'[r], config'[r])
    BY <1>1, <1>4 DEF Agree, Matches, Match, InPool
  <2>3. Listened'
    BY <1>1 DEF Agree
  <2> QED BY <1>1, <1>2, <2>1, <2>2, <2>3 DEF UserAgrees, Match, SamePool
<1> QED BY <1>3, <1>4

\* DeleteMany begins so.
LEMMA BlamelessDeleteMany ==
    ASSUME Typed, Shape, Apart, Blameless, NEW R \in SUBSET Routes, DeleteMany(R)
    PROVE  Blameless'
<1> DEFINE pc == IF R \cap InPool # {} THEN "remove" ELSE "store"
<1>1. BeginUser([NoUser EXCEPT !.kind = "delete", !.pc = pc, !.r = R \cap InPool, !.drop = R])
  BY DEF DeleteMany
<1> HIDE DEF pc
<1>2. user'.kind = "delete" /\ user'.pc = pc /\ user'.r = R \cap InPool /\ user'.drop = R /\ user'.plan = <<>>
  BY <1>1 DEF BeginUser, NoUser
<1>3. Leaving' = R
  BY <1>2, NoPlan DEF Leaving
<1>4. BeginsUser
  BY DEF BeginsUser
<1> QED BY <1>2, <1>3, <1>4, NoPlan, BlamelessTaking DEF pc

\* So does MarkSubscriptionFailed.
LEMMA BlamelessMarkFailed ==
    ASSUME Typed, Shape, Apart, Blameless, NEW t \in Tags, MarkFailed(t)
    PROVE  Blameless'
<1> DEFINE R    == {r \in Present : nodes[r].src = {t}}
           pc   == IF R \cap InPool # {} THEN "remove" ELSE "store"
           plan == [r \in R |-> Entry(nodes[r].src, "failed", NoPort)]
<1>1. BeginUser([NoUser EXCEPT !.kind = "fail", !.pc = pc, !.r = R \cap InPool, !.plan = plan])
  BY DEF MarkFailed
<1>2. DOMAIN plan = R /\ \A r \in R : plan[r].st # "pool"
  BY DEF Entry
<1> HIDE DEF pc, R, plan
<1>3. user'.kind = "fail" /\ user'.pc = pc /\ user'.r = R \cap InPool /\ user'.drop = {} /\ user'.plan = plan
  BY <1>1 DEF BeginUser, NoUser
<1>4. Leaving' = R
  BY <1>2, <1>3 DEF Leaving
<1>5. BeginsUser
  BY DEF BeginsUser
<1> QED BY <1>2, <1>3, <1>4, <1>5, BlamelessTaking DEF pc

\* So does detachSources, whose other nodes stay in the pool on their ports.
LEMMA BlamelessDetach ==
    ASSUME Typed, Shape, Apart, Blameless, NEW t \in Tags, Detach(t)
    PROVE  Blameless'
<1> DEFINE gone == {r \in Present : nodes[r].src = {t}}
           keep == {r \in Present : t \in nodes[r].src} \ gone
           pc   == IF gone \cap InPool # {} THEN "remove" ELSE "store"
           plan == [r \in keep |-> [nodes[r] EXCEPT !.src = @ \ {t}]]
<1>1. BeginUser([NoUser EXCEPT !.kind = "detach", !.pc = pc, !.r = gone \cap InPool, !.drop = gone, !.plan = plan])
  BY DEF Detach
<1>2. DOMAIN plan = keep /\ \A r \in keep : plan[r].st = nodes[r].st /\ plan[r].port = nodes[r].port
  <2>1. ASSUME NEW r \in keep
        PROVE  [nodes[r] EXCEPT !.src = @ \ {t}].st = nodes[r].st /\ [nodes[r] EXCEPT !.src = @ \ {t}].port = nodes[r].port
    <3>1. nodes[r] \in Node /\ nodes[r] # Absent
      BY DEF Typed, Store, Present
    <3>2. nodes[r] \in [src : (SUBSET Tags) \ {{}}, st : States, port : PortOrNone]
      BY <3>1 DEF Node
    <3> QED BY <3>2
  <2> QED BY <2>1
<1>3. keep \subseteq Routes
  BY DEF Present
<1> HIDE DEF gone, keep, pc, plan
<1>4. user'.kind = "detach" /\ user'.pc = pc /\ user'.r = gone \cap InPool /\ user'.drop = gone /\ user'.plan = plan
  BY <1>1 DEF BeginUser, NoUser
<1>5. Leaving' \cap InPool = gone \cap InPool
  BY <1>2, <1>4 DEF Leaving, InPool
<1>6. \A r \in keep : plan[r].st = "pool" => SamePool(nodes[r], plan[r])
  BY <1>2 DEF SamePool
<1>7. BeginsUser
  BY DEF BeginsUser
<1> QED BY <1>2, <1>4, <1>5, <1>6, <1>7, BlamelessTaking DEF pc

\* A node that is excluded is none of the pool, or it is noted.
LEMMA BlamelessExclude ==
    ASSUME Typed, Shape, Apart, Blameless, NEW r \in Routes, Exclude(r)
    PROVE  Blameless'
<1> SUFFICES ASSUME blame' = {} PROVE Blameless'
  BY DEF Blameless
<1>1. /\ user = NoUser /\ user' = user /\ UNCHANGED <<config, running>> /\ blame = {} /\ nodes[r].st # "pool"
      /\ nodes' = [nodes EXCEPT ![r].st = "excluded"]
  BY ExcludeFrame
<1>2. \A s \in Routes : SamePool(nodes'[s], nodes[s])
  <2>1. nodes[r] \in Node /\ nodes[r] # Absent
    BY DEF Exclude, Present, Typed, Store
  <2>2. nodes[r] \in [src : (SUBSET Tags) \ {{}}, st : States, port : PortOrNone]
    BY <2>1 DEF Node
  <2>3. nodes'[r].st = "excluded" /\ \A s \in Routes \ {r} : nodes'[s] = nodes[s]
    BY <1>1, <2>2 DEF Typed, Store
  <2> QED BY <1>1, <2>3 DEF SamePool
<1>3. Agree => Agree'
  BY <1>1, <1>2 DEF Agree, Matches, Match, SamePool, Listened, Used
<1>4. CASE op.kind = "none"
  BY <1>1, <1>3, <1>4, ExcludeFrame DEF Blameless, NoUser
<1>5. CASE op.kind # "none"
  <2>1. /\ op'.kind = op.kind /\ op'.pc = op.pc /\ op'.before = op.before /\ op'.cfg = op.cfg /\ op'.touched = op.touched
    BY <1>5, ExcludeFrame
  <2>2. OpAgrees
    BY <1>1, <1>5 DEF Blameless
  <2>3. \A n : \A s \in Routes : SamePool(nodes[s], n) => SamePool(nodes'[s], n)
    BY <1>2 DEF SamePool
  <2>4. OpAgrees'
    <3>1. op'.pc \in Early => op'.pc # "ensured" /\ Agree'
      BY <1>3, <2>1, <2>2 DEF OpAgrees
    <3>2. op'.pc = "plan" => op'.cfg = config'
      BY <1>1, <2>1, <2>2 DEF OpAgrees
    <3>3. op'.pc \notin Early => /\ Matches(op'.before, op'.cfg)
                                 /\ \A s \in Routes \ op'.touched : SamePool(nodes'[s], op'.before[s])
      BY <2>1, <2>2, <2>3 DEF OpAgrees
    <3>4. (op'.kind = "all" /\ op'.pc \in {"remove", "reload", "drop"}) \/ op'.pc = "undoconfig" =>
             \A s \in Routes : SamePool(nodes'[s], op'.before[s])
      BY <2>1, <2>2, <2>3 DEF OpAgrees
    <3>5. op'.pc = "failed" => Agree'
      BY <1>3, <2>1, <2>2 DEF OpAgrees
    <3> QED BY <3>1, <3>2, <3>3, <3>4, <3>5 DEF OpAgrees, Matches, Match, SamePool
  <2> QED BY <1>1, <1>5, <2>1, <2>4 DEF Blameless, NoUser
<1> QED BY <1>4, <1>5

\* Nothing noted, and nothing out of step.
LEMMA BlamelessKept ==
    ASSUME Typed, Shape, Apart, Blameless, [Next]_vars
    PROVE  Blameless'
<1>1. CASE UNCHANGED vars
  BY <1>1 DEF vars, Blameless, Agree, Matches, Match, Listened, Used, OpAgrees, SamePool, UserAgrees, Leaving, InPool
<1>2. CASE BeginSource \/ BeginSelect \/ BeginAll
  BY <1>2, BlamelessBegin
<1>3. CASE OpStep
  BY <1>3, BlamelessEarly, BlamelessSource, BlamelessShared, BlamelessVerify, BlamelessUndo, BlamelessUndoConfig,
     BlamelessFailed, BlamelessAll DEF OpStep
<1>4. CASE UserStep
  <2>1. CASE ReorderPorts
    <3>1. blame' # {}
      BY <2>1 DEF ReorderPorts, Fault
    <3> QED BY <3>1 DEF Blameless
  <2> QED BY <1>4, <2>1, BlamelessPromoteCreate, BlamelessPromoteMark, BlamelessUserRemove, BlamelessUserReload,
             BlamelessUserStore DEF UserStep
<1>5. CASE BeginsUser
  BY <1>5, BlamelessPromote, BlamelessReorder, BlamelessDeleteMany, BlamelessMarkFailed, BlamelessDetach DEF BeginsUser
<1>6. CASE \E r \in Routes : Exclude(r)
  BY <1>6, BlamelessExclude
<1> QED BY <1>1, <1>2, <1>3, <1>4, <1>5, <1>6 DEF Next, BeginsUser

-----------------------------------------------------------------------------
(* The theorems.                                                           *)

\* The inductive invariant.
IInv == Typed /\ Shape /\ OnePortEach /\ Apart /\ Alone /\ Blameless

\* It holds at first.
LEMMA IInvInit == Init => IInv
<1> SUFFICES ASSUME Init PROVE IInv
  OBVIOUS
<1>1. PICK src \in [Routes -> SUBSET Tags], out \in [Routes -> {"passed", "failed"}] :
          /\ \A r \in Routes : config[r] # NoPort => src[r] # {} /\ out[r] = "passed"
          /\ \A r \in Routes : src[r] = {} => out[r] = "passed"
          /\ nodes = [r \in Routes |-> IF config[r] # NoPort THEN Entry(src[r], "pool", config[r])
                                       ELSE IF src[r] # {} THEN Entry(src[r], out[r], NoPort) ELSE Absent]
  BY DEF Init
<1>2. /\ config \in Config /\ running = config /\ Distinct(config)
      /\ op = NoOp /\ user = NoUser /\ blame = {}
  BY DEF Init, Config, PortOrNone
<1>3. ASSUME NEW r \in Routes PROVE nodes[r] \in Node /\ Match(nodes[r], config[r])
  <2>1. CASE config[r] # NoPort
    <3>1. nodes[r] = Entry(src[r], "pool", config[r]) /\ src[r] \in SUBSET Tags /\ src[r] # {}
      BY <1>1, <2>1
    <3>2. config[r] \in PortOrNone
      BY <1>2 DEF Config
    <3>3. "pool" \in States
      BY DEF States
    <3>4. nodes[r] \in Node /\ nodes[r].st = "pool" /\ nodes[r].port = config[r]
      BY <3>1, <3>2, <3>3, EntryIsNode
    <3> QED BY <2>1, <3>4 DEF Match
  <2>2. CASE config[r] = NoPort /\ src[r] # {}
    <3>1. nodes[r] = Entry(src[r], out[r], NoPort) /\ src[r] \in SUBSET Tags /\ out[r] \in {"passed", "failed"}
      BY <1>1, <2>2
    <3>2. out[r] \in States /\ out[r] # "pool" /\ NoPort \in PortOrNone
      BY <3>1 DEF States, PortOrNone
    <3>3. nodes[r] \in Node /\ nodes[r].st = out[r]
      BY <2>2, <3>1, <3>2, EntryIsNode
    <3> QED BY <2>2, <3>2, <3>3 DEF Match
  <2>3. CASE config[r] = NoPort /\ src[r] = {}
    BY <1>1, <2>3 DEF Match, Absent, Node
  <2> QED BY <2>1, <2>2, <2>3
<1>4. nodes \in Store
  BY <1>1, <1>3 DEF Store
<1>5. Typed
  BY <1>2, <1>4, NoOpIsOp, NoUserIsUser DEF Typed
<1>6. Shape
  BY <1>2 DEF Shape, OpShape, UserShape, NoOp, NoUser, Early
<1>7. Agree
  BY <1>2, <1>3 DEF Agree, Matches, Listened
<1>8. OnePortEach /\ Apart /\ Alone /\ Blameless
  BY <1>2, <1>7 DEF OnePortEach, Apart, Alone, Blameless, NoOp, NoUser
<1> QED BY <1>5, <1>6, <1>8 DEF IInv

\* Every step keeps it.
LEMMA IInvKept == IInv /\ [Next]_vars => IInv'
BY TypedShape, OnePortKept, ApartKept, AloneKept, BlamelessKept DEF IInv

\* It always holds.
LEMMA IInvAlways == Spec => []IInv
<1>1. Init => IInv
  BY IInvInit
<1>2. IInv /\ [Next]_vars => IInv'
  BY IInvKept
<1> QED BY <1>1, <1>2, PTL DEF Spec

\* The store, the configuration, what runs, and the operation in hand are what
\* the service can hold, whatever step of it failed.
THEOREM TypeCorrect == Spec => []TypeOK
<1>1. IInv => TypeOK
  <2> SUFFICES ASSUME IInv PROVE TypeOK
    OBVIOUS
  <2>1. \A r \in Routes : nodes[r] = Absent \/ (nodes[r].st \in States /\ nodes[r].src \in (SUBSET Tags) \ {{}})
    BY DEF IInv, Typed, Store, Node
  <2>2. config \in [Routes -> Ports \cup {NoPort}] /\ running \in [Routes -> Ports \cup {NoPort}]
    BY DEF IInv, Typed, Config, PortOrNone
  <2>3. op.kind \in {"none"} \cup Kinds /\ user.kind \in {"none"} \cup UserKinds
    BY DEF IInv, Shape, OpShape, UserShape
  <2>4. op.touched \subseteq Routes /\ op.names \subseteq Routes /\ op.todo \subseteq Routes
    BY DEF IInv, Typed, Op
  <2>5. blame \subseteq {"overlap", "rollback", "ignored", "partial", "excluded", "order"}
    BY DEF IInv, Typed, Blames
  <2> QED BY <2>1, <2>2, <2>3, <2>4, <2>5 DEF TypeOK
<1> QED BY <1>1, IInvAlways, PTL

\* At rest the pool of the store is what the configuration has, port by port,
\* and what the instance listens on, and no two routes share a port: through
\* every failure of applyStagedNodes, ApplyConnectivityPool and
\* DeleteAllImportSources and what they take back, as long as no error was
\* ignored and nobody went past applyMu; and Verify makes good what was.
THEOREM PoolIsServedCorrect == Spec => []PoolIsServed
<1>1. IInv => OnePortEach /\ AtRestAgree
  <2> SUFFICES ASSUME IInv, op = NoOp, user = NoUser, blame = {}
               PROVE  SameRoutes /\ Listened /\ \A r \in InPool : nodes[r].port = config[r]
    BY DEF IInv, AtRestAgree
  <2>1. Agree
    BY DEF IInv, Blameless, NoOp, NoUser
  <2>2. SameRoutes
    BY <2>1, AgreeIs DEF IInv, Agree
  <2> QED BY <2>1, <2>2 DEF Agree, Matches, Match, InPool
<1> QED BY <1>1, TypeCorrect, IInvAlways, PTL DEF PoolIsServed

\* A locked operation that fails and can take back its work leaves the store,
\* the configuration and the listeners as it found them: no step in the middle
\* of promoteMany, of a reload or of settling escapes the rollback.
THEOREM RolledBackCorrect == Spec => []RolledBack
<1>1. IInv => RolledBack
  <2> SUFFICES ASSUME IInv, op.pc = "failed", op.alone, "rollback" \notin blame
               PROVE  /\ \A r \in Routes : config[r] = NoPort <=> op.cfg[r] = NoPort
                      /\ "order" \notin blame => config = op.cfg
                      /\ running = config
                      /\ op.before # <<>> => nodes = op.before
    BY DEF RolledBack
  <2>1. op.kind # "none"
    BY DEF IInv, Shape, OpShape, NoOp
  <2> QED BY <2>1 DEF IInv, Alone, Back
<1> QED BY <1>1, IInvAlways, PTL

-----------------------------------------------------------------------------
(* What others have.                                                       *)

\* A store that learns the ports keeps all else.
LEMMA SyncedKeeps ==
    ASSUME Typed, NEW r \in Routes
    PROVE  /\ Synced(nodes)[r].src = nodes[r].src /\ Synced(nodes)[r].st = nodes[r].st
           /\ [Synced(nodes)[r] EXCEPT !.port = 0] = [nodes[r] EXCEPT !.port = 0]
<1>1. Synced(nodes)[r].src = nodes[r].src /\ Synced(nodes)[r].st = nodes[r].st
  BY SyncedIsStore DEF Typed
<1>2. Synced(nodes)[r] = nodes[r] \/ Synced(nodes)[r] = [nodes[r] EXCEPT !.port = config[r]]
  BY DEF Synced
<1>3. [[nodes[r] EXCEPT !.port = config[r]] EXCEPT !.port = 0] = [nodes[r] EXCEPT !.port = 0]
  <2>1. nodes[r] \in Node
    BY DEF Typed, Store
  <2>2. CASE nodes[r] = Absent
    BY <2>2 DEF Absent
  <2>3. CASE nodes[r] # Absent
    <3>1. nodes[r] \in [src : (SUBSET Tags) \ {{}}, st : States, port : PortOrNone]
      BY <2>1, <2>3 DEF Node
    <3> QED BY <3>1
  <2> QED BY <2>2, <2>3
<1> QED BY <1>1, <1>2, <1>3

\* The steps of a source or of a connectivity job that change the store.
LEMMA WritesNodes ==
    ASSUME Typed, Shape, OpStep, op.kind \in {"source", "select"}
    PROVE  \/ nodes' = nodes \/ nodes' = Synced(nodes)
           \/ op.kind = "source" /\ (StorePlan \/ Pick \/ Create \/ Mark)
           \/ op.kind = "select" /\ Settle
           \/ Undo
<1>1. CASE StorePlan \/ Pick \/ Create \/ Mark
  BY <1>1, SourceFrame
<1>2. CASE Settle
  BY <1>2 DEF Settle, At
<1>3. CASE DropNodes \/ UndoAll
  BY <1>3 DEF DropNodes, UndoAll, At, Shape, OpShape, Labels
<1>4. CASE Ensure \/ Ensured \/ List \/ Plan \/ RemoveNames \/ Reload \/ Verify \/ UndoConfig \/ Failed
           \/ PlanSelect \/ CreateSelect \/ RemoveAll \/ ReloadAll
  BY <1>4 DEF Ensure, Ensured, List, Plan, RemoveNames, Reload, Verify, UndoConfig, Failed,
              PlanSelect, CreateSelect, RemoveAll, ReloadAll
<1> QED BY <1>1, <1>2, <1>3, <1>4 DEF OpStep

\* Taking back goes to the nodes that were touched.
LEMMA UndoFrame ==
    ASSUME Typed, Shape, Undo
    PROVE  /\ op.kind # "none" /\ op.pc = "undo" /\ op.pc \notin Early
           /\ op'.kind = op.kind /\ op'.alone = op.alone /\ op'.tags = op.tags /\ op'.before = op.before
           /\ op'.touched = op.touched /\ op'.pc = "undoconfig"
           /\ \A r \in Routes \ op.touched : nodes'[r] = nodes[r]
<1>1. op.kind # "none" /\ op.pc = "undo" /\ op.pc \notin Early
  BY DEF Undo, Shape, OpShape, NoOp, Early
<1>2. /\ op'.kind = op.kind /\ op'.alone = op.alone /\ op'.tags = op.tags /\ op'.before = op.before
      /\ op'.touched = op.touched /\ op'.pc = "undoconfig"
  BY GotoFields DEF Undo, Typed, Labels
<1>3. \A r \in Routes \ op.touched : nodes'[r] = nodes[r]
  BY DEF Undo
<1> QED BY <1>1, <1>2, <1>3

\* What another source has of a node that stays, and that it stays in the pool.
Stays(r) ==
    /\ nodes'[r].src \ op.tags = nodes[r].src \ op.tags
    /\ op.kind = "select" /\ op.pc # "undo" /\ nodes[r].st = "pool" => nodes'[r].st = "pool"

\* A step of the operation leaves other sources what they have.
LEMMA SharedStays ==
    ASSUME Typed, Shape, Apart, Alone, OpStep, op.kind \in {"source", "select"}, op.alone, Alone',
           NEW r \in Present, nodes[r].src \ op.tags # {}
    PROVE  Stays(r)
<1>0. r \in Routes /\ nodes[r] # Absent
  BY DEF Present
<1>1. CASE nodes' = nodes
  BY <1>1 DEF Stays
<1>2. CASE nodes' = Synced(nodes)
  BY <1>0, <1>2, SyncedKeeps DEF Stays
<1>3. CASE op.kind = "source" /\ (StorePlan \/ Pick \/ Create \/ Mark)
  <2>1. /\ op.pc \notin Early /\ op'.pc \in {"undo", "reload", "pick", "create", "mark"}
        /\ op'.kind = op.kind /\ op'.before = op.before
    BY <1>3, SourceFrame
  <2>2. op'.alone = op.alone /\ op'.tags = op.tags
    <3>1. op' # NoOp
      BY <1>3, <2>1 DEF NoOp
    <3> QED BY <3>1, OpStepFrame
  <2>3. Foreign(nodes[r]) = Foreign(op.before[r])
    BY <1>0, <1>3, <2>1 DEF Alone, SourceAlone
  <2>4. nodes'[r].src \ op'.tags = op'.before[r].src \ op'.tags
    BY <1>0, <1>3, <2>1, <2>2 DEF Alone, SourceAlone, Early, Foreign
  <2> QED BY <1>3, <2>1, <2>2, <2>3, <2>4 DEF Stays, Foreign
<1>4. CASE op.kind = "select" /\ Settle
  <2>1. CASE nodes' = nodes
    BY <2>1 DEF Stays
  <2>2. CASE nodes' = [s \in Routes |-> IF s \in op.todo THEN Entry(op.before[s].src, "pool", config[s])
                                        ELSE IF s \in DOMAIN op.plan THEN op.plan[s] ELSE nodes[s]]
    <3>1. /\ nodes = op.before
          /\ r \in DOMAIN op.plan
          /\ op.plan[r].src = op.before[r].src
          /\ op.before[r].st = "pool" => op.plan[r].st = "pool"
      BY <1>0, <1>4 DEF Settle, At, Alone, SelectAlone, Foreign
    <3>2. CASE r \in op.todo
      <4>1. nodes'[r] = Entry(nodes[r].src, "pool", config[r])
        BY <1>0, <2>2, <3>1, <3>2
      <4> QED BY <4>1 DEF Entry, Stays
    <3>3. CASE r \notin op.todo
      <4>1. nodes'[r] = op.plan[r]
        BY <1>0, <2>2, <3>1, <3>3
      <4> QED BY <3>1, <4>1 DEF Stays
    <3> QED BY <3>2, <3>3
  <2> QED BY <1>4, <2>1, <2>2 DEF Settle
<1>5. CASE Undo
  <2>1. /\ op.pc = "undo" /\ op.pc \notin Early /\ op'.pc \notin Early /\ op'.kind = op.kind /\ op'.alone = op.alone
        /\ op'.tags = op.tags /\ op'.before = op.before
    BY <1>5, UndoFrame DEF Early
  <2>2. CASE op.kind = "source"
    <3>1. Foreign(nodes[r]) = Foreign(op.before[r])
      BY <1>0, <2>1, <2>2 DEF Alone, SourceAlone
    <3>2. nodes'[r].src \ op'.tags = op'.before[r].src \ op'.tags
      BY <1>0, <2>1, <2>2 DEF Alone, SourceAlone, Foreign
    <3> QED BY <2>1, <2>2, <3>1, <3>2 DEF Stays, Foreign
  <2>3. CASE op.kind = "select"
    <3>1. nodes[r].src = op.before[r].src
      BY <1>0, <2>1, <2>3 DEF Alone, SelectAlone
    <3>2. nodes'[r].src = op'.before[r].src
      BY <1>0, <2>1, <2>3 DEF Alone, SelectAlone
    <3> QED BY <2>1, <3>1, <3>2 DEF Stays
  <2> QED BY <2>2, <2>3
<1> QED BY <1>1, <1>2, <1>3, <1>4, <1>5, WritesNodes

\* Only a step of its own of an operation that is alone changes the store.
LEMMA AloneSteps ==
    ASSUME Typed, Shape, Apart, [Next]_vars, op.kind # "none", op.alone, op'.alone
    PROVE  nodes' = nodes \/ OpStep
<1>1. CASE UNCHANGED vars
  BY <1>1 DEF vars
<1>2. CASE BeginSource \/ BeginSelect \/ BeginAll
  BY <1>2, BeginsFrame
<1>3. CASE UserStep
  BY <1>3, UserStepFrame DEF Apart
<1>4. CASE BeginsUser
  BY <1>4, BeginUserFrame
<1>5. CASE \E r \in Routes : Exclude(r)
  BY <1>5, ExcludeFrame
<1> QED BY <1>1, <1>2, <1>3, <1>4, <1>5 DEF Next, BeginsUser

\* A user's operation that goes on is at another step, or over.
LEMMA UserMoves ==
    ASSUME Typed, Shape, UserStep
    PROVE  user' # user
<1>1. CASE user' = NoUser
  BY <1>1, UserStepFrame
<1>2. CASE user' # NoUser
  <2>1. CASE PromoteCreate
    <3>1. user.pc = "create" /\ \E p : user' = [user EXCEPT !.pc = "mark", !.port = p]
      BY <1>2, <2>1 DEF PromoteCreate, UserAt
    <3> QED BY <3>1 DEF Typed, User
  <2>2. CASE UserReload
    <3>1. user.pc = "reload" /\ user' = [user EXCEPT !.pc = "store", !.r = {}]
      BY <1>2, <2>2 DEF UserReload
    <3> QED BY <3>1 DEF Typed, User
  <2>3. CASE PromoteMark \/ UserRemove \/ DetachRemove \/ DetachReload \/ UserStore \/ ReorderPorts
    <3>1. \E pc \in UserLabels \ {user.pc} : UserGoto(pc)
      BY <1>2, <2>3 DEF PromoteMark, UserRemove, DetachRemove, DetachReload, UserStore, ReorderPorts, UserAt, UserLabels
    <3> QED BY <3>1, UserGotoFields DEF Typed
  <2> QED BY <2>1, <2>2, <2>3 DEF UserStep
<1> QED BY <1>1, <1>2

\* Operations are counted.
Counted == count \in [1..2 -> Nat]

\* It is always so.
LEMMA CountedAlways == Spec => []Counted
<1>1. Init => Counted
  BY DEF Init, Counted
<1>2. Counted /\ [Next]_vars => Counted'
  <2> SUFFICES ASSUME Counted, [Next]_vars PROVE Counted'
    OBVIOUS
  <2>1. \/ count' = count
        \/ count' = [count EXCEPT ![1] = @ + 1]
        \/ count' = [count EXCEPT ![2] = @ + 1]
    BY DEF vars, Next, OpStep, UserStep, BeginSource, BeginSelect, BeginAll, Begin, Ensure, Ensured, List, Plan,
           RemoveNames, StorePlan, Pick, Create, Mark, Reload, Verify, Undo, UndoConfig, Failed, PlanSelect,
           CreateSelect, Settle, RemoveAll, ReloadAll, DropNodes, UndoAll, Promote, Exclude, DeleteMany, Detach,
           MarkFailed, Reorder, BeginUser, PromoteCreate, PromoteMark, UserRemove, UserReload, DetachRemove,
           DetachReload, UserStore, ReorderPorts
  <2> QED BY <2>1 DEF Counted
<1> QED BY <1>1, <1>2, PTL DEF Spec

\* A step with no user's in it leaves what is not touched, but for its port.
LEMMA OthersSame ==
    ASSUME Typed, Shape, Counted, [Next]_vars, op.kind = "source", user' = user, count' = count,
           NEW r \in Routes, r \notin op.touched
    PROVE  [nodes'[r] EXCEPT !.port = 0] = [nodes[r] EXCEPT !.port = 0]
<1>1. CASE UNCHANGED vars
  BY <1>1 DEF vars
<1>2. CASE BeginSource \/ BeginSelect \/ BeginAll
  BY <1>2, BeginsFrame
<1>3. CASE UserStep
  BY <1>3, UserMoves
<1>4. CASE BeginsUser
  BY <1>4, BeginUserFrame
<1>5. CASE \E s \in Routes : Exclude(s)
  <2>1. count' = [count EXCEPT ![2] = @ + 1]
    BY <1>5 DEF Exclude
  <2> QED BY <2>1 DEF Counted
<1>6. CASE OpStep
  <2>1. CASE nodes' = Synced(nodes)
    BY <2>1, SyncedKeeps
  <2>2. CASE nodes' # Synced(nodes)
    BY <1>6, <2>2, WritesNodes, SourceFrame, UndoFrame
  <2> QED BY <2>1, <2>2
<1> QED BY <1>1, <1>2, <1>3, <1>4, <1>5, <1>6 DEF Next, BeginsUser

\* applyStagedNodes and ApplyConnectivityPool take no node away from another
\* source, and delete none that it has; what another tag has in the pool stays
\* there; and a node that is neither new nor of the tag is not written, whoever
\* runs beside and whatever is taken back.
THEOREM OthersKeptCorrect == Spec => OthersKept
<1>1. IInv /\ [Next]_vars =>
         [op.kind \in {"source", "select"} /\ op.alone /\ op'.alone =>
             \A r \in Present : nodes[r].src \ op.tags # {} =>
                 /\ nodes'[r].src \ op.tags = nodes[r].src \ op.tags
                 /\ op.kind = "select" /\ op.pc # "undo" /\ nodes[r].st = "pool" => nodes'[r].st = "pool"]_vars
  <2> SUFFICES ASSUME IInv, [Next]_vars, op.kind \in {"source", "select"}, op.alone, op'.alone,
                      NEW r \in Present, nodes[r].src \ op.tags # {}
               PROVE  Stays(r)
    BY DEF Stays
  <2>1. Alone'
    BY IInvKept DEF IInv
  <2>2. CASE nodes' = nodes
    BY <2>2 DEF Stays
  <2>3. CASE OpStep
    BY <2>1, <2>3, SharedStays DEF IInv
  <2> QED BY <2>2, <2>3, AloneSteps DEF IInv
<1>2. IInv /\ Counted /\ [Next]_vars =>
         [op.kind = "source" /\ op.pc # "idle" /\ user' = user /\ count' = count =>
             \A r \in Routes : op.tags \cap nodes[r].src = {} /\ r \notin op.touched
                               => [nodes'[r] EXCEPT !.port = 0] = [nodes[r] EXCEPT !.port = 0]]_vars
  BY OthersSame DEF IInv
<1>3. Spec => SharedNodesStay
  BY <1>1, IInvAlways, PTL DEF Spec, SharedNodesStay
<1>4. Spec => OthersUntouched
  BY <1>2, IInvAlways, CountedAlways, PTL DEF Spec, OthersUntouched
<1> QED BY <1>3, <1>4 DEF OthersKept
=============================================================================
