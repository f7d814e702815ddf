-------------------------- MODULE BoxManagerProofs --------------------------
(* Theorems about BoxManager for all sets of nodes; and, at the end, about *)
(* the members of the pools that its instances run, PoolHealth, for every  *)
(* set of members, number of operations and threshold.                     *)
EXTENDS BoxManager, PoolHealth, TLAPS

\* The labels at which the operation holds an instance that is not the current
\* one, and those without a current one.
Owning == {"save", "publish", "republish", "stop"}
Boxless == Owning \cup {"create", "rollback", "restart"}

\* What an operation has at hand at each of its steps.
Shape ==
    /\ pc \in {"idle", "start", "reload", "reconcile", "empty", "putback"} => old = NoCfg
    /\ pc \in {"stop", "rollback", "restart", "republish"} => old # NoCfg
    /\ old # NoCfg \/ pc \in {"reload", "reconcile", "empty"} => new # NoCfg
    /\ pc \in {"save", "publish", "republish"} => built # NoCfg
    /\ pc = "putback" => putback # NoCfg
    /\ pc \in {"reconcile", "settle", "router", "serve"} => box # NoCfg
    /\ pc \in Boxless => box = NoCfg
    /\ box # NoCfg => runtimeCfg # NoCfg

\* Every instance that is open is the current one or the operation's.
Instances ==
    live = (IF box = NoCfg THEN 0 ELSE 1) + (IF pc \in Owning THEN 1 ELSE 0)

\* After the end only a Restore that failed still has a step to take.
Quiet ==
    done => /\ closing /\ pc \in {"idle", "putback"}
            /\ box = NoCfg /\ router # "up" /\ ~health

\* Two configurations with the same nodes at the same ports.
Same(c, d) == c.nodes = d.nodes /\ c.ports = d.ports
Published ==
    /\ box # NoCfg => Same(runtimeCfg, box) /\ Same(index, box)
    /\ pc \in {"save", "publish"} => Same(built, Applied)
    /\ pc = "republish" => built = old

Routed == router = "up" => box # NoCfg \/ pc = "stop"

\* The health check is that of the instance that runs, or that an operation
\* returns to, unless a setting was saved in the middle of a start: then the
\* configuration that is published may have another mode than the instance.
Healthy(c) == health <=> ~Multi(c)
Watched ==
    /\ box # NoCfg /\ pc # "settle" /\ ~torn => Healthy(box)
    /\ pc \in Boxless /\ old # NoCfg /\ ~torn => Healthy(old)
    /\ box # NoCfg /\ ~torn => runtimeCfg.mode = box.mode
    /\ pc \in {"save", "publish"} /\ (old # NoCfg \/ ~torn) => built.mode = Applied.mode
    /\ pc = "settle" /\ (old # NoCfg \/ ~torn) =>
        box.mode = Applied.mode /\ runtimeCfg.mode = Applied.mode
    /\ pc = "republish" => built = old
    /\ pc = "reconcile" => Multi(new)

\* Where pool outbounds run their members are in the monitor.
Listed ==
    /\ box # NoCfg /\ ~Multi(box) => box.nodes \subseteq monitored
    /\ built # NoCfg => pc \in {"save", "publish", "republish"}
    /\ built # NoCfg /\ ~Multi(built) => built.nodes \subseteq monitored

\* The nodes and ports on disk are those of the configuration that is applied
\* next, or, unless a rollback could not write them, of the instance that runs.
\* Two operations leave them: Restore until it has put the old file back, and a
\* retry with a moved port until SavePorts.
Stored ==
    /\ box # NoCfg /\ Multi(box) /\ ~unsaved
            /\ (pc \in {"start", "reload", "empty", "putback"} => putback = NoCfg)
        => Same(file, cfg)
    /\ pc = "reconcile" /\ Multi(box) /\ ~unsaved => Same(file, new)
    /\ pc \in {"restart", "republish"} /\ ~unsaved => Same(file, old)
    /\ pc \in {"start", "create"} /\ tries = 0 /\ ~unsaved
            /\ (old # NoCfg \/ synced \/ Multi(cfg))
        => Same(file, Applied)
    /\ pc = "create" /\ tries # 0 => Applied.ports = "moved"
    /\ pc = "publish" /\ Multi(built) /\ ~unsaved => Same(file, Applied)
    /\ tries # 0 =>
        pc \in {"create", "save", "publish", "settle", "router", "serve", "rollback", "restart", "republish"}

-----------------------------------------------------------------------------
\* Changing a part of a configuration gives a configuration.
LEMMA ConfigFacts ==
    ASSUME NEW c \in Configs
    PROVE  /\ c.nodes \in NodeSets /\ c.mode \in Modes
           /\ Rebuilt(c) \in Configs
           /\ [c EXCEPT !.ports = "moved"] \in Configs
           /\ \A ns \in NodeSets : [c EXCEPT !.nodes = ns] \in Configs
           /\ \A mode \in Modes : [c EXCEPT !.mode = mode] \in Configs
  BY DEF Configs, Rebuilt

LEMMA SaveFact ==
    ASSUME NEW c \in Configs, file \in Configs, Save(c)
    PROVE  file' \in Configs /\ unsaved' \in BOOLEAN
  BY ConfigFacts DEF Save

LEMMA RegisteredFact ==
    ASSUME NEW c \in Configs, monitored \subseteq UNION NodeSets
    PROVE  Registered(c) \subseteq UNION NodeSets
  BY ConfigFacts DEF Registered

\* An instance that is closed is counted in live.
LEMMA LiveFacts ==
    ASSUME TypeOK, Shape, Instances
    PROVE  /\ live + 1 \in Nat
           /\ pc \in Owning \/ box # NoCfg => live - 1 \in Nat
           /\ Closed \in Nat
  BY DEF TypeOK, Shape, Instances, Owning, Boxless, Closed

\* What a start or a reload is about to run is a configuration.
LEMMA AppliedFact ==
    ASSUME TypeOK, Shape
    PROVE  Applied \in Configs
  BY DEF TypeOK, Shape, Applied

\* Every step keeps the types.
LEMMA TypeStep ==
    ASSUME TypeOK, Shape, Instances, [Next]_vars
    PROVE  TypeOK'
<1> USE NoCfgAssumption DEF TypeOK
<1>1. CASE \E ns \in NodeSets : Edit(ns)
  <2>1. PICK ns \in NodeSets : Edit(ns)
    BY <1>1
  <2>2. cfg' \in Configs
    BY <2>1, ConfigFacts DEF Edit
  <2>3. file' \in Configs /\ unsaved' \in BOOLEAN
    BY <2>1, <2>2, SaveFact DEF Edit
  <2> QED BY <2>1, <2>2, <2>3 DEF Edit, boxVars, auxVars, endVars, opVars
<1>2. CASE TriggerReload
  BY <1>2 DEF TriggerReload, Goto, Reconcilable, cfgVars, fileVars, boxVars, auxVars, endVars, Shape
<1>3. CASE TriggerStart
  BY <1>3, ConfigFacts, SaveFact DEF TriggerStart, Goto, fileVars, boxVars, auxVars, endVars, opVars, Shape
<1>4. CASE \E c \in Configs : ApplyRestoredConfig(c)
  BY <1>4 DEF ApplyRestoredConfig, Goto, boxVars, auxVars, endVars, Shape
<1>5. CASE BeginStart
  BY <1>5 DEF BeginStart, Goto, Clear, Abort, fileVars, boxVars, auxVars, endVars, Shape
<1>6. CASE CreateFails
  BY <1>6, AppliedFact, RegisteredFact DEF CreateFails, Goto, Clear, Abort, Booting, Fail, cfgVars, fileVars, boxVars, opVars, Shape
<1>7. CASE CreateConflicts
  BY <1>7, ConfigFacts, AppliedFact DEF CreateConflicts, MayRetry, fileVars, boxVars, auxVars, endVars, Shape
<1>8. CASE CreateSucceeds
  BY <1>8, AppliedFact, RegisteredFact, LiveFacts DEF CreateSucceeds, Retried, Goto, cfgVars, fileVars, endVars, opVars, Shape
<1>9. CASE SavePorts
  BY <1>9, AppliedFact, SaveFact DEF SavePorts, Goto, cfgVars, boxVars, auxVars, endVars, opVars, Shape
<1>10. CASE SavePortsFails
  BY <1>10, LiveFacts DEF SavePortsFails, Goto, Clear, Abort, Booting, Fail, cfgVars, fileVars, auxVars, opVars, Shape, Owning
<1>11. CASE Publish
  BY <1>11, AppliedFact, LiveFacts DEF Publish, Goto, Clear, Abort, Refused, IndexAfterStart, fileVars, auxVars, endVars, opVars, Shape, Owning
<1>12. CASE Settle
  BY <1>12 DEF Settle, Applied, Goto, Clear, Return, HealthAfter, fileVars, boxVars, endVars, opVars, Shape
<1>13. CASE StartRouter
  BY <1>13 DEF StartRouter, Goto, Clear, Return, cfgVars, fileVars, boxVars, endVars, opVars, Shape
<1>14. CASE PublishRouter
  BY <1>14 DEF PublishRouter, Goto, Clear, Return, cfgVars, fileVars, boxVars, endVars, Shape
<1>15. CASE BeginReload
  BY <1>15 DEF BeginReload, Goto, Clear, Abort, cfgVars, fileVars, auxVars, endVars, Shape
<1>16. CASE Stop
  <2>1. new' \in Configs /\ live' \in Nat
    BY <1>16, ConfigFacts, LiveFacts DEF Stop, Shape, Owning
  <2>2. file' \in Configs /\ unsaved' \in BOOLEAN
    BY <1>16, <2>1, SaveFact DEF Stop, fileVars
  <2> QED BY <1>16, <2>1, <2>2 DEF Stop, Goto, RouterStopped, cfgVars, endVars
<1>17. CASE Rollback
  <2>1. old \in Configs
    BY <1>17 DEF Rollback, Shape
  <2>2. file' \in Configs /\ unsaved' \in BOOLEAN
    BY <1>17, <2>1, SaveFact DEF Rollback, fileVars
  <2> QED BY <1>17, <2>2 DEF Rollback, Goto, Clear, Abort, cfgVars, fileVars, boxVars, auxVars, endVars, opVars, Shape
<1>18. CASE RestartFails
  BY <1>18, RegisteredFact DEF RestartFails, Goto, Clear, Abort, cfgVars, fileVars, boxVars, endVars, Shape
<1>19. CASE RestartSucceeds
  BY <1>19, RegisteredFact, LiveFacts DEF RestartSucceeds, Goto, cfgVars, fileVars, endVars, opVars, Shape
<1>20. CASE Republish
  BY <1>20, LiveFacts DEF Republish, Goto, Clear, Abort, Refused, cfgVars, fileVars, auxVars, endVars, Shape, Owning
<1>21. CASE ReconcileSucceeds
  BY <1>21 DEF ReconcileSucceeds, Goto, Clear, Return, fileVars, auxVars, endVars, Shape
<1>22. CASE ReconcileFails
  BY <1>22 DEF ReconcileFails, Goto, cfgVars, fileVars, boxVars, auxVars, endVars, opVars, Shape
<1>23. CASE EnterEmptyRuntime
  BY <1>23, LiveFacts DEF EnterEmptyRuntime, Goto, Clear, Return, RouterStopped, fileVars, endVars, Shape
<1>24. CASE PutBack
  BY <1>24 DEF PutBack, Goto, Clear, Return, cfgVars, boxVars, auxVars, endVars, Shape
<1>25. CASE \E mode \in Modes : UpdateSettings(mode)
  <2>1. PICK mode \in Modes : UpdateSettings(mode)
    BY <1>25
  <2>2. cfg' \in Configs /\ file' \in Configs
    BY <2>1, ConfigFacts DEF UpdateSettings
  <2> QED BY <2>1, <2>2 DEF UpdateSettings, boxVars, auxVars, endVars, opVars
<1>26. CASE CloseContext
  BY <1>26 DEF CloseContext, cfgVars, fileVars, boxVars, auxVars, opVars, Shape
<1>27. CASE Shutdown
  BY <1>27, LiveFacts DEF Shutdown, ShutdownAllowed, cfgVars, fileVars, opVars, Shape
<1>28. CASE UNCHANGED vars
  BY <1>28 DEF vars, cfgVars, fileVars, boxVars, auxVars, endVars, opVars
<1> QED
  BY <1>1, <1>2, <1>3, <1>4, <1>5, <1>6, <1>7, <1>8, <1>9, <1>10, <1>11, <1>12, <1>13, <1>14, <1>15, <1>16, <1>17, <1>18, <1>19, <1>20, <1>21, <1>22, <1>23, <1>24, <1>25, <1>26, <1>27, <1>28 DEF Next, Work

\* Every step leaves the next one what it needs.
LEMMA ShapeStep ==
    ASSUME TypeOK, Shape, [Next]_vars
    PROVE  Shape'
<1> USE NoCfgAssumption DEF TypeOK, Shape, Owning, Boxless, Configs
<1>1. CASE \E ns \in NodeSets : Edit(ns)
  BY <1>1 DEF Edit, Save, boxVars, auxVars, endVars, opVars
<1>2. CASE TriggerReload
  BY <1>2 DEF TriggerReload, Goto, Reconcilable, cfgVars, fileVars, boxVars, auxVars, endVars
<1>3. CASE TriggerStart
  BY <1>3 DEF TriggerStart, Save, Goto, Rebuilt, fileVars, boxVars, auxVars, endVars, opVars
<1>4. CASE \E c \in Configs : ApplyRestoredConfig(c)
  BY <1>4 DEF ApplyRestoredConfig, Goto, boxVars, auxVars, endVars
<1>5. CASE BeginStart
  BY <1>5 DEF BeginStart, Goto, Clear, Abort, fileVars, boxVars, auxVars, endVars
<1>6. CASE CreateFails
  BY <1>6 DEF CreateFails, Applied, Goto, Clear, Abort, Registered, Booting, Fail, cfgVars, fileVars, boxVars, opVars
<1>7. CASE CreateConflicts
  BY <1>7 DEF CreateConflicts, Applied, MayRetry, fileVars, boxVars, auxVars, endVars
<1>8. CASE CreateSucceeds
  BY <1>8 DEF CreateSucceeds, Applied, Retried, Goto, Registered, cfgVars, fileVars, endVars, opVars
<1>9. CASE SavePorts
  BY <1>9 DEF SavePorts, Applied, Save, Goto, cfgVars, boxVars, auxVars, endVars, opVars
<1>10. CASE SavePortsFails
  BY <1>10 DEF SavePortsFails, Goto, Clear, Abort, Booting, Fail, cfgVars, fileVars, auxVars, opVars
<1>11. CASE Publish
  BY <1>11 DEF Publish, Applied, Goto, Clear, Abort, Refused, IndexAfterStart, fileVars, auxVars, endVars, opVars
<1>12. CASE Settle
  BY <1>12 DEF Settle, Applied, Goto, Clear, Return, HealthAfter, fileVars, boxVars, endVars, opVars
<1>13. CASE StartRouter
  BY <1>13 DEF StartRouter, Goto, Clear, Return, cfgVars, fileVars, boxVars, endVars, opVars
<1>14. CASE PublishRouter
  BY <1>14 DEF PublishRouter, Goto, Clear, Return, cfgVars, fileVars, boxVars, endVars
<1>15. CASE BeginReload
  BY <1>15 DEF BeginReload, Goto, Clear, Abort, cfgVars, fileVars, auxVars, endVars
<1>16. CASE Stop
  BY <1>16 DEF Stop, Save, Goto, Rebuilt, RouterStopped, cfgVars, fileVars, endVars
<1>17. CASE Rollback
  BY <1>17 DEF Rollback, Save, Goto, Clear, Abort, cfgVars, fileVars, boxVars, auxVars, endVars, opVars
<1>18. CASE RestartFails
  BY <1>18 DEF RestartFails, Goto, Clear, Abort, Registered, cfgVars, fileVars, boxVars, endVars
<1>19. CASE RestartSucceeds
  BY <1>19 DEF RestartSucceeds, Goto, Registered, cfgVars, fileVars, endVars, opVars
<1>20. CASE Republish
  BY <1>20 DEF Republish, Goto, Clear, Abort, Refused, cfgVars, fileVars, auxVars, endVars
<1>21. CASE ReconcileSucceeds
  BY <1>21 DEF ReconcileSucceeds, Goto, Clear, Return, fileVars, auxVars, endVars
<1>22. CASE ReconcileFails
  BY <1>22 DEF ReconcileFails, Goto, cfgVars, fileVars, boxVars, auxVars, endVars, opVars
<1>23. CASE EnterEmptyRuntime
  BY <1>23 DEF EnterEmptyRuntime, Goto, Clear, Return, Closed, RouterStopped, fileVars, endVars
<1>24. CASE PutBack
  BY <1>24 DEF PutBack, Goto, Clear, Return, cfgVars, boxVars, auxVars, endVars
<1>25. CASE \E mode \in Modes : UpdateSettings(mode)
  BY <1>25 DEF UpdateSettings, boxVars, auxVars, endVars, opVars
<1>26. CASE CloseContext
  BY <1>26 DEF CloseContext, cfgVars, fileVars, boxVars, auxVars, opVars
<1>27. CASE Shutdown
  BY <1>27 DEF Shutdown, Closed, ShutdownAllowed, cfgVars, fileVars, opVars
<1>28. CASE UNCHANGED vars
  BY <1>28 DEF vars, cfgVars, fileVars, boxVars, auxVars, endVars, opVars, Applied
<1> QED
  BY <1>1, <1>2, <1>3, <1>4, <1>5, <1>6, <1>7, <1>8, <1>9, <1>10, <1>11, <1>12, <1>13, <1>14, <1>15, <1>16, <1>17, <1>18, <1>19, <1>20, <1>21, <1>22, <1>23, <1>24, <1>25, <1>26, <1>27, <1>28 DEF Next, Work

\* Every step accounts for the instance it opens or closes.
LEMMA InstancesStep ==
    ASSUME TypeOK, Shape, Instances, [Next]_vars
    PROVE  Instances'
<1> USE NoCfgAssumption DEF TypeOK, Shape, Instances, Owning, Boxless, Configs
<1>1. CASE \E ns \in NodeSets : Edit(ns)
  BY <1>1 DEF Edit, Save, boxVars, auxVars, endVars, opVars
<1>2. CASE TriggerReload
  BY <1>2 DEF TriggerReload, Goto, Reconcilable, cfgVars, fileVars, boxVars, auxVars, endVars
<1>3. CASE TriggerStart
  BY <1>3 DEF TriggerStart, Save, Goto, Rebuilt, fileVars, boxVars, auxVars, endVars, opVars
<1>4. CASE \E c \in Configs : ApplyRestoredConfig(c)
  BY <1>4 DEF ApplyRestoredConfig, Goto, boxVars, auxVars, endVars
<1>5. CASE BeginStart
  BY <1>5 DEF BeginStart, Goto, Clear, Abort, fileVars, boxVars, auxVars, endVars
<1>6. CASE CreateFails
  BY <1>6 DEF CreateFails, Applied, Goto, Clear, Abort, Registered, Booting, Fail, cfgVars, fileVars, boxVars, opVars
<1>7. CASE CreateConflicts
  BY <1>7 DEF CreateConflicts, Applied, MayRetry, fileVars, boxVars, auxVars, endVars
<1>8. CASE CreateSucceeds
  BY <1>8 DEF CreateSucceeds, Applied, Retried, Goto, Registered, cfgVars, fileVars, endVars, opVars
<1>9. CASE SavePorts
  BY <1>9 DEF SavePorts, Applied, Save, Goto, cfgVars, boxVars, auxVars, endVars, opVars
<1>10. CASE SavePortsFails
  BY <1>10 DEF SavePortsFails, Goto, Clear, Abort, Booting, Fail, cfgVars, fileVars, auxVars, opVars
<1>11. CASE Publish
  BY <1>11 DEF Publish, Applied, Goto, Clear, Abort, Refused, IndexAfterStart, fileVars, auxVars, endVars, opVars
<1>12. CASE Settle
  BY <1>12 DEF Settle, Applied, Goto, Clear, Return, HealthAfter, fileVars, boxVars, endVars, opVars
<1>13. CASE StartRouter
  BY <1>13 DEF StartRouter, Goto, Clear, Return, cfgVars, fileVars, boxVars, endVars, opVars
<1>14. CASE PublishRouter
  BY <1>14 DEF PublishRouter, Goto, Clear, Return, cfgVars, fileVars, boxVars, endVars
<1>15. CASE BeginReload
  BY <1>15 DEF BeginReload, Goto, Clear, Abort, cfgVars, fileVars, auxVars, endVars
<1>16. CASE Stop
  BY <1>16 DEF Stop, Save, Goto, Rebuilt, RouterStopped, cfgVars, fileVars, endVars
<1>17. CASE Rollback
  BY <1>17 DEF Rollback, Save, Goto, Clear, Abort, cfgVars, fileVars, boxVars, auxVars, endVars, opVars
<1>18. CASE RestartFails
  BY <1>18 DEF RestartFails, Goto, Clear, Abort, Registered, cfgVars, fileVars, boxVars, endVars
<1>19. CASE RestartSucceeds
  BY <1>19 DEF RestartSucceeds, Goto, Registered, cfgVars, fileVars, endVars, opVars
<1>20. CASE Republish
  BY <1>20 DEF Republish, Goto, Clear, Abort, Refused, cfgVars, fileVars, auxVars, endVars
<1>21. CASE ReconcileSucceeds
  BY <1>21 DEF ReconcileSucceeds, Goto, Clear, Return, fileVars, auxVars, endVars
<1>22. CASE ReconcileFails
  BY <1>22 DEF ReconcileFails, Goto, cfgVars, fileVars, boxVars, auxVars, endVars, opVars
<1>23. CASE EnterEmptyRuntime
  BY <1>23 DEF EnterEmptyRuntime, Goto, Clear, Return, Closed, RouterStopped, fileVars, endVars
<1>24. CASE PutBack
  BY <1>24 DEF PutBack, Goto, Clear, Return, cfgVars, boxVars, auxVars, endVars
<1>25. CASE \E mode \in Modes : UpdateSettings(mode)
  BY <1>25 DEF UpdateSettings, boxVars, auxVars, endVars, opVars
<1>26. CASE CloseContext
  BY <1>26 DEF CloseContext, cfgVars, fileVars, boxVars, auxVars, opVars
<1>27. CASE Shutdown
  BY <1>27 DEF Shutdown, Closed, ShutdownAllowed, cfgVars, fileVars, opVars
<1>28. CASE UNCHANGED vars
  BY <1>28 DEF vars, cfgVars, fileVars, boxVars, auxVars, endVars, opVars, Applied
<1> QED
  BY <1>1, <1>2, <1>3, <1>4, <1>5, <1>6, <1>7, <1>8, <1>9, <1>10, <1>11, <1>12, <1>13, <1>14, <1>15, <1>16, <1>17, <1>18, <1>19, <1>20, <1>21, <1>22, <1>23, <1>24, <1>25, <1>26, <1>27, <1>28 DEF Next, Work

\* Nothing comes back after the end.
LEMMA QuietStep ==
    ASSUME TypeOK, Shape, Quiet, [Next]_vars
    PROVE  Quiet'
<1> USE DEF TypeOK, Shape, Quiet, Owning, Boxless
<1>1. CASE \E ns \in NodeSets : Edit(ns)
  BY <1>1 DEF Edit, Save, boxVars, auxVars, endVars, opVars
<1>2. CASE TriggerReload
  BY <1>2 DEF TriggerReload, Goto, Reconcilable, cfgVars, fileVars, boxVars, auxVars, endVars
<1>3. CASE TriggerStart
  BY <1>3 DEF TriggerStart, Save, Goto, Rebuilt, fileVars, boxVars, auxVars, endVars, opVars
<1>4. CASE \E c \in Configs : ApplyRestoredConfig(c)
  BY <1>4 DEF ApplyRestoredConfig, Goto, boxVars, auxVars, endVars
<1>5. CASE BeginStart
  BY <1>5 DEF BeginStart, Goto, Clear, Abort, fileVars, boxVars, auxVars, endVars
<1>6. CASE CreateFails
  BY <1>6 DEF CreateFails, Applied, Goto, Clear, Abort, Registered, Booting, Fail, cfgVars, fileVars, boxVars, opVars
<1>7. CASE CreateConflicts
  BY <1>7 DEF CreateConflicts, Applied, MayRetry, fileVars, boxVars, auxVars, endVars
<1>8. CASE CreateSucceeds
  BY <1>8 DEF CreateSucceeds, Applied, Retried, Goto, Registered, cfgVars, fileVars, endVars, opVars
<1>9. CASE SavePorts
  BY <1>9 DEF SavePorts, Applied, Save, Goto, cfgVars, boxVars, auxVars, endVars, opVars
<1>10. CASE SavePortsFails
  BY <1>10 DEF SavePortsFails, Goto, Clear, Abort, Booting, Fail, cfgVars, fileVars, auxVars, opVars
<1>11. CASE Publish
  BY <1>11 DEF Publish, Applied, Goto, Clear, Abort, Refused, IndexAfterStart, fileVars, auxVars, endVars, opVars
<1>12. CASE Settle
  BY <1>12 DEF Settle, Applied, Goto, Clear, Return, HealthAfter, fileVars, boxVars, endVars, opVars
<1>13. CASE StartRouter
  BY <1>13 DEF StartRouter, Goto, Clear, Return, cfgVars, fileVars, boxVars, endVars, opVars
<1>14. CASE PublishRouter
  BY <1>14 DEF PublishRouter, Goto, Clear, Return, cfgVars, fileVars, boxVars, endVars
<1>15. CASE BeginReload
  BY <1>15 DEF BeginReload, Goto, Clear, Abort, cfgVars, fileVars, auxVars, endVars
<1>16. CASE Stop
  BY <1>16 DEF Stop, Save, Goto, Rebuilt, RouterStopped, cfgVars, fileVars, endVars
<1>17. CASE Rollback
  BY <1>17 DEF Rollback, Save, Goto, Clear, Abort, cfgVars, fileVars, boxVars, auxVars, endVars, opVars
<1>18. CASE RestartFails
  BY <1>18 DEF RestartFails, Goto, Clear, Abort, Registered, cfgVars, fileVars, boxVars, endVars
<1>19. CASE RestartSucceeds
  BY <1>19 DEF RestartSucceeds, Goto, Registered, cfgVars, fileVars, endVars, opVars
<1>20. CASE Republish
  BY <1>20 DEF Republish, Goto, Clear, Abort, Refused, cfgVars, fileVars, auxVars, endVars
<1>21. CASE ReconcileSucceeds
  BY <1>21 DEF ReconcileSucceeds, Goto, Clear, Return, fileVars, auxVars, endVars
<1>22. CASE ReconcileFails
  BY <1>22 DEF ReconcileFails, Goto, cfgVars, fileVars, boxVars, auxVars, endVars, opVars
<1>23. CASE EnterEmptyRuntime
  BY <1>23 DEF EnterEmptyRuntime, Goto, Clear, Return, Closed, RouterStopped, fileVars, endVars
<1>24. CASE PutBack
  BY <1>24 DEF PutBack, Goto, Clear, Return, cfgVars, boxVars, auxVars, endVars
<1>25. CASE \E mode \in Modes : UpdateSettings(mode)
  BY <1>25 DEF UpdateSettings, boxVars, auxVars, endVars, opVars
<1>26. CASE CloseContext
  BY <1>26 DEF CloseContext, cfgVars, fileVars, boxVars, auxVars, opVars
<1>27. CASE Shutdown
  BY <1>27 DEF Shutdown, Closed, ShutdownAllowed, cfgVars, fileVars, opVars
<1>28. CASE UNCHANGED vars
  BY <1>28 DEF vars, cfgVars, fileVars, boxVars, auxVars, endVars, opVars, Applied
<1> QED
  BY <1>1, <1>2, <1>3, <1>4, <1>5, <1>6, <1>7, <1>8, <1>9, <1>10, <1>11, <1>12, <1>13, <1>14, <1>15, <1>16, <1>17, <1>18, <1>19, <1>20, <1>21, <1>22, <1>23, <1>24, <1>25, <1>26, <1>27, <1>28 DEF Next, Work

\* What is published is what runs.
LEMMA PublishedStep ==
    ASSUME TypeOK, Shape, Published, [Next]_vars
    PROVE  Published'
<1> USE NoCfgAssumption DEF TypeOK, Shape, Published, Same, Owning, Boxless, Configs, Applied
<1>1. CASE \E ns \in NodeSets : Edit(ns)
  BY <1>1 DEF Edit, Save, boxVars, auxVars, endVars, opVars
<1>2. CASE TriggerReload
  BY <1>2 DEF TriggerReload, Goto, Reconcilable, cfgVars, fileVars, boxVars, auxVars, endVars
<1>3. CASE TriggerStart
  BY <1>3 DEF TriggerStart, Save, Goto, Rebuilt, fileVars, boxVars, auxVars, endVars, opVars
<1>4. CASE \E c \in Configs : ApplyRestoredConfig(c)
  BY <1>4 DEF ApplyRestoredConfig, Goto, boxVars, auxVars, endVars
<1>5. CASE BeginStart
  BY <1>5 DEF BeginStart, Goto, Clear, Abort, fileVars, boxVars, auxVars, endVars
<1>6. CASE CreateFails
  BY <1>6 DEF CreateFails, Applied, Goto, Clear, Abort, Registered, Booting, Fail, cfgVars, fileVars, boxVars, opVars
<1>7. CASE CreateConflicts
  BY <1>7 DEF CreateConflicts, Applied, MayRetry, fileVars, boxVars, auxVars, endVars
<1>8. CASE CreateSucceeds
  BY <1>8 DEF CreateSucceeds, Applied, Retried, Goto, Registered, cfgVars, fileVars, endVars, opVars
<1>9. CASE SavePorts
  BY <1>9 DEF SavePorts, Applied, Save, Goto, cfgVars, boxVars, auxVars, endVars, opVars
<1>10. CASE SavePortsFails
  BY <1>10 DEF SavePortsFails, Goto, Clear, Abort, Booting, Fail, cfgVars, fileVars, auxVars, opVars
<1>11. CASE Publish
  BY <1>11 DEF Publish, Applied, Goto, Clear, Abort, Refused, IndexAfterStart, fileVars, auxVars, endVars, opVars
<1>12. CASE Settle
  BY <1>12 DEF Settle, Applied, Goto, Clear, Return, HealthAfter, fileVars, boxVars, endVars, opVars
<1>13. CASE StartRouter
  BY <1>13 DEF StartRouter, Goto, Clear, Return, cfgVars, fileVars, boxVars, endVars, opVars
<1>14. CASE PublishRouter
  BY <1>14 DEF PublishRouter, Goto, Clear, Return, cfgVars, fileVars, boxVars, endVars
<1>15. CASE BeginReload
  BY <1>15 DEF BeginReload, Goto, Clear, Abort, cfgVars, fileVars, auxVars, endVars
<1>16. CASE Stop
  BY <1>16 DEF Stop, Save, Goto, Rebuilt, RouterStopped, cfgVars, fileVars, endVars
<1>17. CASE Rollback
  BY <1>17 DEF Rollback, Save, Goto, Clear, Abort, cfgVars, fileVars, boxVars, auxVars, endVars, opVars
<1>18. CASE RestartFails
  BY <1>18 DEF RestartFails, Goto, Clear, Abort, Registered, cfgVars, fileVars, boxVars, endVars
<1>19. CASE RestartSucceeds
  BY <1>19 DEF RestartSucceeds, Goto, Registered, cfgVars, fileVars, endVars, opVars
<1>20. CASE Republish
  BY <1>20 DEF Republish, Goto, Clear, Abort, Refused, cfgVars, fileVars, auxVars, endVars
<1>21. CASE ReconcileSucceeds
  BY <1>21 DEF ReconcileSucceeds, Goto, Clear, Return, fileVars, auxVars, endVars
<1>22. CASE ReconcileFails
  BY <1>22 DEF ReconcileFails, Goto, cfgVars, fileVars, boxVars, auxVars, endVars, opVars
<1>23. CASE EnterEmptyRuntime
  BY <1>23 DEF EnterEmptyRuntime, Goto, Clear, Return, Closed, RouterStopped, fileVars, endVars
<1>24. CASE PutBack
  BY <1>24 DEF PutBack, Goto, Clear, Return, cfgVars, boxVars, auxVars, endVars
<1>25. CASE \E mode \in Modes : UpdateSettings(mode)
  BY <1>25 DEF UpdateSettings, boxVars, auxVars, endVars, opVars
<1>26. CASE CloseContext
  BY <1>26 DEF CloseContext, cfgVars, fileVars, boxVars, auxVars, opVars
<1>27. CASE Shutdown
  BY <1>27 DEF Shutdown, Closed, ShutdownAllowed, cfgVars, fileVars, opVars
<1>28. CASE UNCHANGED vars
  BY <1>28 DEF vars, cfgVars, fileVars, boxVars, auxVars, endVars, opVars, Applied
<1> QED
  BY <1>1, <1>2, <1>3, <1>4, <1>5, <1>6, <1>7, <1>8, <1>9, <1>10, <1>11, <1>12, <1>13, <1>14, <1>15, <1>16, <1>17, <1>18, <1>19, <1>20, <1>21, <1>22, <1>23, <1>24, <1>25, <1>26, <1>27, <1>28 DEF Next, Work

\* The router stops with its instance.
LEMMA RoutedStep ==
    ASSUME TypeOK, Shape, Routed, [Next]_vars
    PROVE  Routed'
<1> USE DEF TypeOK, Shape, Routed, Owning, Boxless
<1>1. CASE \E ns \in NodeSets : Edit(ns)
  BY <1>1 DEF Edit, Save, boxVars, auxVars, endVars, opVars
<1>2. CASE TriggerReload
  BY <1>2 DEF TriggerReload, Goto, Reconcilable, cfgVars, fileVars, boxVars, auxVars, endVars
<1>3. CASE TriggerStart
  BY <1>3 DEF TriggerStart, Save, Goto, Rebuilt, fileVars, boxVars, auxVars, endVars, opVars
<1>4. CASE \E c \in Configs : ApplyRestoredConfig(c)
  BY <1>4 DEF ApplyRestoredConfig, Goto, boxVars, auxVars, endVars
<1>5. CASE BeginStart
  BY <1>5 DEF BeginStart, Goto, Clear, Abort, fileVars, boxVars, auxVars, endVars
<1>6. CASE CreateFails
  BY <1>6 DEF CreateFails, Applied, Goto, Clear, Abort, Registered, Booting, Fail, cfgVars, fileVars, boxVars, opVars
<1>7. CASE CreateConflicts
  BY <1>7 DEF CreateConflicts, Applied, MayRetry, fileVars, boxVars, auxVars, endVars
<1>8. CASE CreateSucceeds
  BY <1>8 DEF CreateSucceeds, Applied, Retried, Goto, Registered, cfgVars, fileVars, endVars, opVars
<1>9. CASE SavePorts
  BY <1>9 DEF SavePorts, Applied, Save, Goto, cfgVars, boxVars, auxVars, endVars, opVars
<1>10. CASE SavePortsFails
  BY <1>10 DEF SavePortsFails, Goto, Clear, Abort, Booting, Fail, cfgVars, fileVars, auxVars, opVars
<1>11. CASE Publish
  BY <1>11 DEF Publish, Applied, Goto, Clear, Abort, Refused, IndexAfterStart, fileVars, auxVars, endVars, opVars
<1>12. CASE Settle
  BY <1>12 DEF Settle, Applied, Goto, Clear, Return, HealthAfter, fileVars, boxVars, endVars, opVars
<1>13. CASE StartRouter
  BY <1>13 DEF StartRouter, Goto, Clear, Return, cfgVars, fileVars, boxVars, endVars, opVars
<1>14. CASE PublishRouter
  BY <1>14 DEF PublishRouter, Goto, Clear, Return, cfgVars, fileVars, boxVars, endVars
<1>15. CASE BeginReload
  BY <1>15 DEF BeginReload, Goto, Clear, Abort, cfgVars, fileVars, auxVars, endVars
<1>16. CASE Stop
  BY <1>16 DEF Stop, Save, Goto, Rebuilt, RouterStopped, cfgVars, fileVars, endVars
<1>17. CASE Rollback
  BY <1>17 DEF Rollback, Save, Goto, Clear, Abort, cfgVars, fileVars, boxVars, auxVars, endVars, opVars
<1>18. CASE RestartFails
  BY <1>18 DEF RestartFails, Goto, Clear, Abort, Registered, cfgVars, fileVars, boxVars, endVars
<1>19. CASE RestartSucceeds
  BY <1>19 DEF RestartSucceeds, Goto, Registered, cfgVars, fileVars, endVars, opVars
<1>20. CASE Republish
  BY <1>20 DEF Republish, Goto, Clear, Abort, Refused, cfgVars, fileVars, auxVars, endVars
<1>21. CASE ReconcileSucceeds
  BY <1>21 DEF ReconcileSucceeds, Goto, Clear, Return, fileVars, auxVars, endVars
<1>22. CASE ReconcileFails
  BY <1>22 DEF ReconcileFails, Goto, cfgVars, fileVars, boxVars, auxVars, endVars, opVars
<1>23. CASE EnterEmptyRuntime
  BY <1>23 DEF EnterEmptyRuntime, Goto, Clear, Return, Closed, RouterStopped, fileVars, endVars
<1>24. CASE PutBack
  BY <1>24 DEF PutBack, Goto, Clear, Return, cfgVars, boxVars, auxVars, endVars
<1>25. CASE \E mode \in Modes : UpdateSettings(mode)
  BY <1>25 DEF UpdateSettings, boxVars, auxVars, endVars, opVars
<1>26. CASE CloseContext
  BY <1>26 DEF CloseContext, cfgVars, fileVars, boxVars, auxVars, opVars
<1>27. CASE Shutdown
  BY <1>27 DEF Shutdown, Closed, ShutdownAllowed, cfgVars, fileVars, opVars
<1>28. CASE UNCHANGED vars
  BY <1>28 DEF vars, cfgVars, fileVars, boxVars, auxVars, endVars, opVars, Applied
<1> QED
  BY <1>1, <1>2, <1>3, <1>4, <1>5, <1>6, <1>7, <1>8, <1>9, <1>10, <1>11, <1>12, <1>13, <1>14, <1>15, <1>16, <1>17, <1>18, <1>19, <1>20, <1>21, <1>22, <1>23, <1>24, <1>25, <1>26, <1>27, <1>28 DEF Next, Work

\* The health check is started with an instance and kept by a rollback.
LEMMA WatchedStep ==
    ASSUME TypeOK, Shape, Watched, [Next]_vars
    PROVE  Watched'
<1> USE NoCfgAssumption DEF TypeOK, Shape, Watched, Healthy, Multi, Owning, Boxless, Configs, Applied
<1>1. CASE \E ns \in NodeSets : Edit(ns)
  BY <1>1 DEF Edit, Save, boxVars, auxVars, endVars, opVars
<1>2. CASE TriggerReload
  BY <1>2 DEF TriggerReload, Goto, Reconcilable, cfgVars, fileVars, boxVars, auxVars, endVars
<1>3. CASE TriggerStart
  BY <1>3 DEF TriggerStart, Save, Goto, Rebuilt, fileVars, boxVars, auxVars, endVars, opVars
<1>4. CASE \E c \in Configs : ApplyRestoredConfig(c)
  BY <1>4 DEF ApplyRestoredConfig, Goto, boxVars, auxVars, endVars
<1>5. CASE BeginStart
  BY <1>5 DEF BeginStart, Goto, Clear, Abort, fileVars, boxVars, auxVars, endVars
<1>6. CASE CreateFails
  BY <1>6 DEF CreateFails, Applied, Goto, Clear, Abort, Registered, Booting, Fail, cfgVars, fileVars, boxVars, opVars
<1>7. CASE CreateConflicts
  BY <1>7 DEF CreateConflicts, Applied, MayRetry, fileVars, boxVars, auxVars, endVars
<1>8. CASE CreateSucceeds
  BY <1>8 DEF CreateSucceeds, Applied, Retried, Goto, Registered, cfgVars, fileVars, endVars, opVars
<1>9. CASE SavePorts
  BY <1>9 DEF SavePorts, Applied, Save, Goto, cfgVars, boxVars, auxVars, endVars, opVars
<1>10. CASE SavePortsFails
  BY <1>10 DEF SavePortsFails, Goto, Clear, Abort, Booting, Fail, cfgVars, fileVars, auxVars, opVars
<1>11. CASE Publish
  BY <1>11 DEF Publish, Applied, Goto, Clear, Abort, Refused, IndexAfterStart, fileVars, auxVars, endVars, opVars
<1>12. CASE Settle
  BY <1>12 DEF Settle, Applied, Goto, Clear, Return, HealthAfter, fileVars, boxVars, endVars, opVars
<1>13. CASE StartRouter
  BY <1>13 DEF StartRouter, Goto, Clear, Return, cfgVars, fileVars, boxVars, endVars, opVars
<1>14. CASE PublishRouter
  BY <1>14 DEF PublishRouter, Goto, Clear, Return, cfgVars, fileVars, boxVars, endVars
<1>15. CASE BeginReload
  BY <1>15 DEF BeginReload, Goto, Clear, Abort, cfgVars, fileVars, auxVars, endVars
<1>16. CASE Stop
  BY <1>16 DEF Stop, Save, Goto, Rebuilt, RouterStopped, cfgVars, fileVars, endVars
<1>17. CASE Rollback
  BY <1>17 DEF Rollback, Save, Goto, Clear, Abort, cfgVars, fileVars, boxVars, auxVars, endVars, opVars
<1>18. CASE RestartFails
  BY <1>18 DEF RestartFails, Goto, Clear, Abort, Registered, cfgVars, fileVars, boxVars, endVars
<1>19. CASE RestartSucceeds
  BY <1>19 DEF RestartSucceeds, Goto, Registered, cfgVars, fileVars, endVars, opVars
<1>20. CASE Republish
  BY <1>20 DEF Republish, Goto, Clear, Abort, Refused, cfgVars, fileVars, auxVars, endVars
<1>21. CASE ReconcileSucceeds
  BY <1>21 DEF ReconcileSucceeds, Goto, Clear, Return, fileVars, auxVars, endVars
<1>22. CASE ReconcileFails
  BY <1>22 DEF ReconcileFails, Goto, cfgVars, fileVars, boxVars, auxVars, endVars, opVars
<1>23. CASE EnterEmptyRuntime
  BY <1>23 DEF EnterEmptyRuntime, Goto, Clear, Return, Closed, RouterStopped, fileVars, endVars
<1>24. CASE PutBack
  BY <1>24 DEF PutBack, Goto, Clear, Return, cfgVars, boxVars, auxVars, endVars
<1>25. CASE \E mode \in Modes : UpdateSettings(mode)
  BY <1>25 DEF UpdateSettings, boxVars, auxVars, endVars, opVars
<1>26. CASE CloseContext
  BY <1>26 DEF CloseContext, cfgVars, fileVars, boxVars, auxVars, opVars
<1>27. CASE Shutdown
  BY <1>27 DEF Shutdown, Closed, ShutdownAllowed, cfgVars, fileVars, opVars
<1>28. CASE UNCHANGED vars
  BY <1>28 DEF vars, cfgVars, fileVars, boxVars, auxVars, endVars, opVars, Applied
<1> QED
  BY <1>1, <1>2, <1>3, <1>4, <1>5, <1>6, <1>7, <1>8, <1>9, <1>10, <1>11, <1>12, <1>13, <1>14, <1>15, <1>16, <1>17, <1>18, <1>19, <1>20, <1>21, <1>22, <1>23, <1>24, <1>25, <1>26, <1>27, <1>28 DEF Next, Work

\* A reload saves before it creates, a moved port is saved before its instance
\* is published, and a rollback saves the old ports or says that it could not.
LEMMA StoredStep ==
    ASSUME TypeOK, Shape, Published, Watched, Stored, [Next]_vars
    PROVE  Stored'
<1> USE NoCfgAssumption DEF TypeOK, Shape, Published, Watched, Stored, Same, Save, Multi, Owning, Boxless, Configs, Applied
<1>1. CASE \E ns \in NodeSets : Edit(ns)
  BY <1>1 DEF Edit, Save, boxVars, auxVars, endVars, opVars
<1>2. CASE TriggerReload
  BY <1>2 DEF TriggerReload, Goto, Reconcilable, cfgVars, fileVars, boxVars, auxVars, endVars
<1>3. CASE TriggerStart
  BY <1>3 DEF TriggerStart, Save, Goto, Rebuilt, fileVars, boxVars, auxVars, endVars, opVars
<1>4. CASE \E c \in Configs : ApplyRestoredConfig(c)
  BY <1>4 DEF ApplyRestoredConfig, Goto, boxVars, auxVars, endVars
<1>5. CASE BeginStart
  BY <1>5 DEF BeginStart, Goto, Clear, Abort, fileVars, boxVars, auxVars, endVars
<1>6. CASE CreateFails
  BY <1>6 DEF CreateFails, Applied, Goto, Clear, Abort, Registered, Booting, Fail, cfgVars, fileVars, boxVars, opVars
<1>7. CASE CreateConflicts
  BY <1>7 DEF CreateConflicts, Applied, MayRetry, fileVars, boxVars, auxVars, endVars
<1>8. CASE CreateSucceeds
  BY <1>8 DEF CreateSucceeds, Applied, Retried, Goto, Registered, cfgVars, fileVars, endVars, opVars
<1>9. CASE SavePorts
  BY <1>9 DEF SavePorts, Applied, Save, Goto, cfgVars, boxVars, auxVars, endVars, opVars
<1>10. CASE SavePortsFails
  BY <1>10 DEF SavePortsFails, Goto, Clear, Abort, Booting, Fail, cfgVars, fileVars, auxVars, opVars
<1>11. CASE Publish
  BY <1>11 DEF Publish, Applied, Goto, Clear, Abort, Refused, IndexAfterStart, fileVars, auxVars, endVars, opVars
<1>12. CASE Settle
  BY <1>12 DEF Settle, Applied, Goto, Clear, Return, HealthAfter, fileVars, boxVars, endVars, opVars
<1>13. CASE StartRouter
  BY <1>13 DEF StartRouter, Goto, Clear, Return, cfgVars, fileVars, boxVars, endVars, opVars
<1>14. CASE PublishRouter
  BY <1>14 DEF PublishRouter, Goto, Clear, Return, cfgVars, fileVars, boxVars, endVars
<1>15. CASE BeginReload
  BY <1>15 DEF BeginReload, Goto, Clear, Abort, cfgVars, fileVars, auxVars, endVars
<1>16. CASE Stop
  BY <1>16 DEF Stop, Save, Goto, Rebuilt, RouterStopped, cfgVars, fileVars, endVars
<1>17. CASE Rollback
  BY <1>17 DEF Rollback, Save, Goto, Clear, Abort, cfgVars, fileVars, boxVars, auxVars, endVars, opVars
<1>18. CASE RestartFails
  BY <1>18 DEF RestartFails, Goto, Clear, Abort, Registered, cfgVars, fileVars, boxVars, endVars
<1>19. CASE RestartSucceeds
  BY <1>19 DEF RestartSucceeds, Goto, Registered, cfgVars, fileVars, endVars, opVars
<1>20. CASE Republish
  BY <1>20 DEF Republish, Goto, Clear, Abort, Refused, cfgVars, fileVars, auxVars, endVars
<1>21. CASE ReconcileSucceeds
  BY <1>21 DEF ReconcileSucceeds, Goto, Clear, Return, fileVars, auxVars, endVars
<1>22. CASE ReconcileFails
  BY <1>22 DEF ReconcileFails, Goto, cfgVars, fileVars, boxVars, auxVars, endVars, opVars
<1>23. CASE EnterEmptyRuntime
  BY <1>23 DEF EnterEmptyRuntime, Goto, Clear, Return, Closed, RouterStopped, fileVars, endVars
<1>24. CASE PutBack
  BY <1>24 DEF PutBack, Goto, Clear, Return, cfgVars, boxVars, auxVars, endVars
<1>25. CASE \E mode \in Modes : UpdateSettings(mode)
  BY <1>25 DEF UpdateSettings, boxVars, auxVars, endVars, opVars
<1>26. CASE CloseContext
  BY <1>26 DEF CloseContext, cfgVars, fileVars, boxVars, auxVars, opVars
<1>27. CASE Shutdown
  BY <1>27 DEF Shutdown, Closed, ShutdownAllowed, cfgVars, fileVars, opVars
<1>28. CASE UNCHANGED vars
  BY <1>28 DEF vars, cfgVars, fileVars, boxVars, auxVars, endVars, opVars, Applied
<1> QED
  BY <1>1, <1>2, <1>3, <1>4, <1>5, <1>6, <1>7, <1>8, <1>9, <1>10, <1>11, <1>12, <1>13, <1>14, <1>15, <1>16, <1>17, <1>18, <1>19, <1>20, <1>21, <1>22, <1>23, <1>24, <1>25, <1>26, <1>27, <1>28 DEF Next, Work

\* An instance is started after its members are registered, and the list is
\* cleared only while none runs.
LEMMA ListedStep ==
    ASSUME TypeOK, Shape, Watched, Listed, [Next]_vars
    PROVE  Listed'
<1> USE NoCfgAssumption DEF TypeOK, Shape, Listed, Registered, Multi, Owning, Boxless, Configs, Applied
<1>1. CASE \E ns \in NodeSets : Edit(ns)
  BY <1>1 DEF Edit, Save, boxVars, auxVars, endVars, opVars
<1>2. CASE TriggerReload
  BY <1>2 DEF TriggerReload, Goto, Reconcilable, cfgVars, fileVars, boxVars, auxVars, endVars
<1>3. CASE TriggerStart
  BY <1>3 DEF TriggerStart, Save, Goto, Rebuilt, fileVars, boxVars, auxVars, endVars, opVars
<1>4. CASE \E c \in Configs : ApplyRestoredConfig(c)
  BY <1>4 DEF ApplyRestoredConfig, Goto, boxVars, auxVars, endVars
<1>5. CASE BeginStart
  BY <1>5 DEF BeginStart, Goto, Clear, Abort, fileVars, boxVars, auxVars, endVars
<1>6. CASE CreateFails
  BY <1>6 DEF CreateFails, Applied, Goto, Clear, Abort, Registered, Booting, Fail, cfgVars, fileVars, boxVars, opVars
<1>7. CASE CreateConflicts
  BY <1>7 DEF CreateConflicts, Applied, MayRetry, fileVars, boxVars, auxVars, endVars
<1>8. CASE CreateSucceeds
  BY <1>8 DEF CreateSucceeds, Applied, Retried, Goto, Registered, cfgVars, fileVars, endVars, opVars
<1>9. CASE SavePorts
  BY <1>9 DEF SavePorts, Applied, Save, Goto, cfgVars, boxVars, auxVars, endVars, opVars
<1>10. CASE SavePortsFails
  BY <1>10 DEF SavePortsFails, Goto, Clear, Abort, Booting, Fail, cfgVars, fileVars, auxVars, opVars
<1>11. CASE Publish
  BY <1>11 DEF Publish, Applied, Goto, Clear, Abort, Refused, IndexAfterStart, fileVars, auxVars, endVars, opVars
<1>12. CASE Settle
  BY <1>12 DEF Settle, Applied, Goto, Clear, Return, HealthAfter, fileVars, boxVars, endVars, opVars
<1>13. CASE StartRouter
  BY <1>13 DEF StartRouter, Goto, Clear, Return, cfgVars, fileVars, boxVars, endVars, opVars
<1>14. CASE PublishRouter
  BY <1>14 DEF PublishRouter, Goto, Clear, Return, cfgVars, fileVars, boxVars, endVars
<1>15. CASE BeginReload
  BY <1>15 DEF BeginReload, Goto, Clear, Abort, cfgVars, fileVars, auxVars, endVars
<1>16. CASE Stop
  BY <1>16 DEF Stop, Save, Goto, Rebuilt, RouterStopped, cfgVars, fileVars, endVars
<1>17. CASE Rollback
  BY <1>17 DEF Rollback, Save, Goto, Clear, Abort, cfgVars, fileVars, boxVars, auxVars, endVars, opVars
<1>18. CASE RestartFails
  BY <1>18 DEF RestartFails, Goto, Clear, Abort, Registered, cfgVars, fileVars, boxVars, endVars
<1>19. CASE RestartSucceeds
  BY <1>19 DEF RestartSucceeds, Goto, Registered, cfgVars, fileVars, endVars, opVars
<1>20. CASE Republish
  BY <1>20 DEF Republish, Goto, Clear, Abort, Refused, cfgVars, fileVars, auxVars, endVars
<1>21. CASE ReconcileSucceeds
  BY <1>21 DEF Watched, ReconcileSucceeds, Goto, Clear, Return, fileVars, auxVars, endVars
<1>22. CASE ReconcileFails
  BY <1>22 DEF ReconcileFails, Goto, cfgVars, fileVars, boxVars, auxVars, endVars, opVars
<1>23. CASE EnterEmptyRuntime
  BY <1>23 DEF EnterEmptyRuntime, Goto, Clear, Return, Closed, RouterStopped, fileVars, endVars
<1>24. CASE PutBack
  BY <1>24 DEF PutBack, Goto, Clear, Return, cfgVars, boxVars, auxVars, endVars
<1>25. CASE \E mode \in Modes : UpdateSettings(mode)
  BY <1>25 DEF UpdateSettings, boxVars, auxVars, endVars, opVars
<1>26. CASE CloseContext
  BY <1>26 DEF CloseContext, cfgVars, fileVars, boxVars, auxVars, opVars
<1>27. CASE Shutdown
  BY <1>27 DEF Shutdown, Closed, ShutdownAllowed, cfgVars, fileVars, opVars
<1>28. CASE UNCHANGED vars
  BY <1>28 DEF vars, cfgVars, fileVars, boxVars, auxVars, endVars, opVars, Applied
<1> QED
  BY <1>1, <1>2, <1>3, <1>4, <1>5, <1>6, <1>7, <1>8, <1>9, <1>10, <1>11, <1>12, <1>13, <1>14, <1>15, <1>16, <1>17, <1>18, <1>19, <1>20, <1>21, <1>22, <1>23, <1>24, <1>25, <1>26, <1>27, <1>28 DEF Next, Work

-----------------------------------------------------------------------------
(* The conjunction is inductive: the counts of Instances need Shape to     *)
(* know which steps own an instance, and TypeOK needs both.                *)
IInv == TypeOK /\ Shape /\ Instances /\ Quiet /\ Published /\ Routed /\ Watched /\ Listed /\ Stored

LEMMA InvariantCorrect == Spec => []IInv
<1>1. Init => IInv
  <2>1. ASSUME Init PROVE TypeOK /\ Shape /\ Instances
    <3>1. cfg \in Configs
      BY <2>1 DEF Init, Configs
    <3>2. TypeOK
      BY <2>1, <3>1 DEF Init, TypeOK
    <3>3. Shape /\ Instances
      BY <2>1 DEF Init, Shape, Instances, Owning, Boxless
    <3> QED BY <3>2, <3>3
  <2>2. Init => Quiet /\ Published /\ Routed /\ Watched /\ Listed /\ Stored
    BY DEF Init, Quiet, Published, Routed, Watched, Listed, Stored, Same, Applied, Boxless, Owning
  <2> QED BY <2>1, <2>2 DEF IInv
<1>2. IInv /\ [Next]_vars => IInv'
  BY TypeStep, ShapeStep, InstancesStep, QuietStep, PublishedStep, RoutedStep, WatchedStep, ListedStep, StoredStep DEF IInv
<1> QED BY <1>1, <1>2, PTL DEF Spec

(* The types of the manager's state and of what each step has at hand.     *)
THEOREM TypeCorrect == Spec => []TypeOK
<1>1. IInv => TypeOK
  BY DEF IInv
<1> QED BY <1>1, InvariantCorrect, PTL

(* No error path of a start, a reload or a rollback leaks an instance or   *)
(* starts a second one.                                                    *)
THEOREM OneInstanceCorrect == Spec => []OneInstance
<1>1. IInv => OneInstance
  BY DEF IInv, TypeOK, Shape, Instances, OneInstance, AtRest, Owning, Boxless
<1> QED BY <1>1, InvariantCorrect, PTL

(* Nothing runs once CloseContext has reported the end, and no operation   *)
(* brings anything back.                                                   *)
THEOREM ClosedIsQuietCorrect == Spec => []ClosedIsQuiet
<1>1. IInv => ClosedIsQuiet
  BY DEF IInv, TypeOK, Instances, Quiet, ClosedIsQuiet, Owning
<1> QED BY <1>1, InvariantCorrect, PTL

(* The nodes and ports that are published are those that run, whichever    *)
(* of start, reload, reconcile and rollback published them.                *)
THEOREM RuntimeIsPublishedCorrect == Spec => []RuntimeIsPublished
<1>1. IInv => RuntimeIsPublished
  BY DEF IInv, Published, Same, RuntimeIsPublished, Running
<1> QED BY <1>1, InvariantCorrect, PTL

(* A failed start, a moved port, a rollback and an aborted Restore leave on *)
(* disk the ports that listen, unless the rollback could not write them.   *)
THEOREM PortsArePersistedCorrect == Spec => []PortsArePersisted
<1>1. IInv => PortsArePersisted
  BY DEF IInv, Stored, Same, PortsArePersisted, Running, AtRest
<1> QED BY <1>1, InvariantCorrect, PTL

(* The GeoIP router never survives the instance it forwards to.            *)
THEOREM RouterHasPoolsCorrect == Spec => []RouterHasPools
<1>1. IInv => RouterHasPools
  BY DEF IInv, Routed, RouterHasPools, AtRest
<1> QED BY <1>1, InvariantCorrect, PTL

(* The periodic check fits the instance after a start, a change of mode, a *)
(* rollback and an empty runtime.                                          *)
THEOREM HealthIsCheckedCorrect == Spec => []HealthIsChecked
<1>1. IInv => HealthIsChecked
  BY DEF IInv, TypeOK, Watched, Healthy, HealthIsChecked, Running, AtRest
<1> QED BY <1>1, InvariantCorrect, PTL

(* Every node that pool outbounds serve is in the monitor.                 *)
THEOREM RunningIsMonitoredCorrect == Spec => []RunningIsMonitored
<1>1. IInv => RunningIsMonitored
  BY DEF IInv, Listed, RunningIsMonitored, Running
<1> QED BY <1>1, InvariantCorrect, PTL

(* Router, health checks and monitor follow the instance.                  *)
THEOREM ServicesFollowCorrect == Spec => []ServicesFollow
<1>1. RouterHasPools /\ HealthIsChecked /\ RunningIsMonitored => ServicesFollow
  BY DEF ServicesFollow
<1> QED BY <1>1, RouterHasPoolsCorrect, HealthIsCheckedCorrect, RunningIsMonitoredCorrect, PTL

-----------------------------------------------------------------------------
(* PoolHealth.                                                             *)

PCs == {"idle", "second", "dial", "probe", "mirror"}

\* The types of the shared state, and of an operation's own state.
SharedOK ==
    /\ failures \in [Tags -> 0 .. Threshold - 1]
    /\ blacklisted \in [Tags -> BOOLEAN]
    /\ due \in [Tags -> BOOLEAN]
    /\ halfOpen \in [Tags -> BOOLEAN]
LocalOK ==
    /\ at \in [Ops -> PCs]
    /\ target \in [Ops -> Tags \cup {NoTag}]
    /\ \A o \in Ops : target[o] = NoTag <=> at[o] = "idle"
    /\ todo \in [Ops -> {"none", "ban", "clear"}]
ShownOK == shown \in [Tags -> BOOLEAN] /\ balance \in BOOLEAN

\* HealthTypeOK is these parts.
LEMMA TypeParts == HealthTypeOK <=> SharedOK /\ LocalOK /\ ShownOK
  BY DEF HealthTypeOK, SharedOK, LocalOK, ShownOK, PCs

-----------------------------------------------------------------------------
(* What the critical sections of a member do.                              *)

\* tryAcquire, the two ways of setting the state, and the failure that only
\* counts keep the types and the half-open mark on expired members.
LEMMA SharedStep ==
    ASSUME SharedOK, HalfOpenIsDue, NEW t \in Tags, Acquire(t) \/ Open(t) \/ Close(t)
    PROVE  SharedOK' /\ HalfOpenIsDue'
<1> USE ThresholdAssumption DEF SharedOK, HalfOpenIsDue
<1>1. CASE Acquire(t)
  BY <1>1 DEF Acquire, Available
<1>2. CASE Open(t)
  BY <1>2 DEF Open
<1>3. CASE Close(t)
  BY <1>3 DEF Close
<1> QED BY <1>1, <1>2, <1>3

LEMMA CountStep ==
    ASSUME SharedOK, HalfOpenIsDue, NEW t \in Tags, ~Trips(t),
           failures' = [failures EXCEPT ![t] = @ + 1],
           halfOpen' = [halfOpen EXCEPT ![t] = FALSE],
           UNCHANGED <<blacklisted, due>>
    PROVE  SharedOK' /\ HalfOpenIsDue'
<1>1. failures[t] + 1 \in 0 .. Threshold - 1
  BY ThresholdAssumption DEF SharedOK, Trips
<1> QED BY <1>1 DEF SharedOK, HalfOpenIsDue

\* Moving an operation keeps its types.
LEMMA LocalStep ==
    ASSUME LocalOK, NEW o \in Ops, NEW l \in PCs, NEW t \in Tags \cup {NoTag},
           NEW m \in {"none", "ban", "clear"}, t = NoTag <=> l = "idle", Step(o, l, t, m)
    PROVE  LocalOK'
  BY DEF LocalOK, Step

\* So does the end of an operation.
LEMMA SettleStep ==
    ASSUME LocalOK, NEW o \in Ops, at[o] # "idle", NEW m \in {"none", "ban", "clear"}, Finish(o, m)
    PROVE  LocalOK'
<1>1. target[o] \in Tags \cup {NoTag} /\ target[o] # NoTag
  BY DEF LocalOK
<1>2. CASE m = "none"
  BY <1>2, LocalStep DEF Finish, PCs
<1>3. CASE m # "none"
  BY <1>1, <1>3, LocalStep DEF Finish, PCs
<1> QED BY <1>2, <1>3

-----------------------------------------------------------------------------
(* The inductive invariant of the marks.                                   *)

Marks == SharedOK /\ LocalOK /\ ShownOK /\ HalfOpenIsDue

\* Picking a member keeps it.
LEMMA PickMarks == ASSUME Marks, NEW o \in Ops, NEW t \in Tags, Pick(o, t) PROVE Marks'
<1>0. Acquire(t) /\ UNCHANGED <<shown, balance>>
  BY DEF Pick, PickOne, PickTrial, PickFirst, PickSecond
<1>1. SharedOK' /\ HalfOpenIsDue'
  BY <1>0, SharedStep DEF Marks
<1>2. PICK l \in {"dial", "second"}, u \in Tags : Step(o, l, u, "none")
  <2>1. CASE PickOne(o, t)
    BY <2>1 DEF PickOne
  <2>2. CASE PickTrial(o, t)
    BY <2>2 DEF PickTrial
  <2>3. CASE PickFirst(o, t)
    BY <2>3 DEF PickFirst
  <2>4. CASE PickSecond(o, t)
    <3>1. target[o] \in Tags
      BY <2>4 DEF PickSecond, Marks, LocalOK, PCs
    <3> QED BY <2>4, <3>1 DEF PickSecond
  <2> QED BY <2>1, <2>2, <2>3, <2>4 DEF Pick
<1>3. LocalOK'
  BY <1>2, LocalStep, TagsAssumption DEF Marks, PCs
<1> QED BY <1>0, <1>1, <1>3 DEF Marks, ShownOK

\* Starting a probe, a release and a ban keep it.
LEMMA ManualMarks == ASSUME Marks, NEW o \in Ops, NEW t \in Tags, Manual(o, t) PROVE Marks'
<1> USE TagsAssumption DEF Marks, PCs
<1>1. CASE ProbeStarts(o, t)
  <2>1. LocalOK'
    BY <1>1, LocalStep DEF ProbeStarts
  <2> QED BY <1>1, <2>1 DEF ProbeStarts, shared, SharedOK, ShownOK, HalfOpenIsDue
<1>2. CASE Release(o, t)
  <2>1. LocalOK'
    BY <1>2, LocalStep DEF Release
  <2> QED BY <1>2, <2>1, SharedStep DEF Release, ShownOK
<1>3. CASE Ban(o, t)
  <2>1. LocalOK'
    BY <1>3, LocalStep DEF Ban
  <2> QED BY <1>3, <2>1, SharedStep DEF Ban, ShownOK
<1> QED BY <1>1, <1>2, <1>3 DEF Manual

\* Ending a dial or a probe and updating the mirror keep it.
LEMMA CompleteMarks == ASSUME Marks, NEW o \in Ops, Complete(o) PROVE Marks'
<1> DEFINE t == target[o]
<1>0. t \in Tags
  BY DEF Complete, PickOnlyFirst, DialFails, DialSucceeds, ProbeFails, ProbeSucceeds, Mirror, Marks, LocalOK, PCs
<1>1. CASE PickOnlyFirst(o)
  <2>1. LocalOK'
    BY <1>0, <1>1, LocalStep, TagsAssumption DEF PickOnlyFirst, Marks, PCs
  <2> QED BY <1>1, <2>1 DEF PickOnlyFirst, shared, Marks, SharedOK, ShownOK, HalfOpenIsDue
<1>2. CASE DialFails(o)
  <2>1. LocalOK'
    BY <1>2, SettleStep DEF DialFails, Marks
  <2>2. SharedOK' /\ HalfOpenIsDue'
    <3>1. CASE Trips(t)
      BY <1>0, <1>2, <3>1, SharedStep DEF DialFails, Marks
    <3>2. CASE ~Trips(t)
      BY <1>0, <1>2, <3>2, CountStep DEF DialFails, Marks
    <3> QED BY <3>1, <3>2
  <2> QED BY <1>2, <2>1, <2>2 DEF DialFails, Marks, ShownOK
<1>3. CASE DialSucceeds(o)
  <2>1. LocalOK'
    BY <1>3, SettleStep DEF DialSucceeds, Marks
  <2> QED BY <1>0, <1>3, <2>1, SharedStep DEF DialSucceeds, Marks, ShownOK
<1>4. CASE ProbeFails(o)
  <2>1. LocalOK'
    BY <1>4, SettleStep DEF ProbeFails, Marks
  <2> QED BY <1>4, <2>1 DEF ProbeFails, shared, Marks, SharedOK, ShownOK, HalfOpenIsDue
<1>5. CASE ProbeSucceeds(o)
  <2>1. LocalOK'
    BY <1>5, SettleStep DEF ProbeSucceeds, Marks
  <2> QED BY <1>0, <1>5, <2>1, SharedStep DEF ProbeSucceeds, Marks, ShownOK
<1>6. CASE Mirror(o)
  <2>1. LocalOK'
    BY <1>6, LocalStep DEF Mirror, Marks, PCs
  <2> QED BY <1>6, <2>1 DEF Mirror, shared, Marks, SharedOK, ShownOK, HalfOpenIsDue
<1> QED BY <1>1, <1>2, <1>3, <1>4, <1>5, <1>6 DEF Complete

\* The marks hold throughout.
LEMMA MarksCorrect == HealthSpec => []Marks
<1>1. HealthInit => Marks
  BY ThresholdAssumption, TagsAssumption DEF HealthInit, Marks, SharedOK, LocalOK, ShownOK, PCs, HalfOpenIsDue
<1>2. Marks /\ [HealthNext]_healthVars => Marks'
  <2> SUFFICES ASSUME Marks, [HealthNext]_healthVars PROVE Marks'
    OBVIOUS
  <2>1. ASSUME NEW t \in Tags, Expire(t) PROVE Marks'
    BY <2>1 DEF Expire, local, Marks, SharedOK, LocalOK, ShownOK, HalfOpenIsDue
  <2>2. CASE UNCHANGED healthVars
    BY <2>2 DEF healthVars, shared, local, Marks, SharedOK, LocalOK, ShownOK, HalfOpenIsDue
  <2> QED BY <2>1, <2>2, PickMarks, ManualMarks, CompleteMarks DEF HealthNext
<1> QED BY <1>1, <1>2, PTL DEF HealthSpec

(* The counter of failures is below the threshold in every state of every  *)
(* pool, however many dials fail at the same time.                         *)
THEOREM HealthTypeCorrect == HealthSpec => []HealthTypeOK
<1>1. Marks => HealthTypeOK
  BY TypeParts DEF Marks
<1> QED BY <1>1, MarksCorrect, PTL

(* A half-open mark is only on a member whose blacklist has expired, in    *)
(* every mode.                                                             *)
THEOREM HalfOpenIsDueCorrect == HealthSpec => []HalfOpenIsDue
<1>1. Marks => HalfOpenIsDue
  BY DEF Marks
<1> QED BY <1>1, MarksCorrect, PTL

-----------------------------------------------------------------------------
(* Trials, outside balance mode.                                           *)

NobodyChooses == \A o \in Ops : at[o] # "second"

Dialled(t) == \E o \in Ops : target[o] = t /\ at[o] = "dial"
Trials == NobodyChooses /\ \A t \in Tags : halfOpen[t] => Dialled(t)

\* The mode of a pool does not change.
LEMMA ModeKept == ASSUME [HealthNext]_healthVars PROVE balance' = balance
  BY DEF HealthNext, Pick, Manual, Complete, PickOne, PickTrial, PickFirst, PickSecond, ProbeStarts, Release, Ban,
         PickOnlyFirst, DialFails, DialSucceeds, ProbeFails, ProbeSucceeds, Mirror, Expire, healthVars

\* An operation that was not dialing takes no trial away.
LEMMA OthersDial ==
    ASSUME LocalOK, NEW o \in Ops, NEW l \in PCs, NEW u, NEW m, Step(o, l, u, m),
           NEW t \in Tags, Dialled(t), ~(at[o] = "dial" /\ target[o] = t)
    PROVE  Dialled(t)'
  BY DEF LocalOK, Step, Dialled

\* The end of a dial takes no trial of another member away.
LEMMA OthersSettle ==
    ASSUME LocalOK, NEW o \in Ops, NEW m, Finish(o, m),
           NEW t \in Tags, Dialled(t), ~(at[o] = "dial" /\ target[o] = t)
    PROVE  Dialled(t)'
<1>1. PICK l \in PCs : \E u, n : Step(o, l, u, n)
  BY DEF Finish, PCs
<1> QED BY <1>1, OthersDial

\* No step leaves a trial that nobody dials.
LEMMA TrialsKept ==
    ASSUME ~balance, Marks, Trials, [HealthNext]_healthVars
    PROVE  Trials'
<1> USE DEF Marks
<1>1. NobodyChooses'
  BY DEF HealthNext, Pick, Manual, Complete, PickOne, PickTrial, PickFirst, PickSecond, ProbeStarts, Release, Ban,
         PickOnlyFirst, DialFails, DialSucceeds, ProbeFails, ProbeSucceeds, Mirror, Expire, Finish, Step,
         healthVars, local, Trials, NobodyChooses, LocalOK
<1>2. ASSUME NEW t \in Tags, halfOpen'[t] PROVE Dialled(t)'
  <2>1. ASSUME NEW o \in Ops, NEW u \in Tags, PickOne(o, u) PROVE Dialled(t)'
    <3>1. CASE t = u
      BY <2>1, <3>1 DEF PickOne, Step, Dialled, LocalOK
    <3>2. CASE t # u
      <4>1. Dialled(t)
        BY <1>2, <2>1, <3>2 DEF PickOne, Acquire, Trials, SharedOK
      <4> QED BY <2>1, <4>1, OthersDial DEF PickOne, PCs
    <3> QED BY <3>1, <3>2
  <2>2. ASSUME NEW o \in Ops, NEW u \in Tags, Manual(o, u) PROVE Dialled(t)'
    <3>1. Dialled(t)
      BY <1>2, <2>2 DEF Manual, ProbeStarts, Release, Ban, Open, Close, shared, Trials, SharedOK
    <3> QED BY <2>2, <3>1, OthersDial DEF Manual, ProbeStarts, Release, Ban, PCs
  <2>3. ASSUME NEW o \in Ops, DialFails(o) \/ DialSucceeds(o) PROVE Dialled(t)'
    <3>1. target[o] # t /\ halfOpen[t]
      BY <1>2, <2>3 DEF DialFails, DialSucceeds, Open, Close, SharedOK
    <3> QED BY <2>3, <3>1, OthersSettle DEF DialFails, DialSucceeds, Trials
  <2>4. ASSUME NEW o \in Ops, ProbeFails(o) \/ ProbeSucceeds(o) PROVE Dialled(t)'
    <3>1. Dialled(t)
      BY <1>2, <2>4 DEF ProbeFails, ProbeSucceeds, Close, shared, Trials, SharedOK
    <3> QED BY <2>4, <3>1, OthersSettle DEF ProbeFails, ProbeSucceeds
  <2>5. ASSUME NEW o \in Ops, Mirror(o) PROVE Dialled(t)'
    <3>1. Dialled(t)
      BY <1>2, <2>5 DEF Mirror, shared, Trials
    <3> QED BY <2>5, <3>1, OthersDial DEF Mirror, PCs
  <2>6. ASSUME NEW u \in Tags, Expire(u) PROVE Dialled(t)'
    BY <1>2, <2>6 DEF Expire, local, Trials, Dialled
  <2>7. CASE UNCHANGED healthVars
    BY <1>2, <2>7 DEF healthVars, shared, local, Trials, Dialled
  <2>8. \A o \in Ops : ~PickOnlyFirst(o) /\ \A u \in Tags : Pick(o, u) => PickOne(o, u)
    BY DEF Pick, PickTrial, PickFirst, PickSecond, PickOnlyFirst, Trials, NobodyChooses
  <2> QED BY <2>1, <2>2, <2>3, <2>4, <2>5, <2>6, <2>7, <2>8 DEF HealthNext, Complete
<1> QED BY <1>1, <1>2 DEF Trials

(* In the modes that try one member at a time a trial is never lost: as    *)
(* long as the mark stands somebody dials the member, and the end of that  *)
(* dial takes it off.  In balance mode this does not hold.                 *)
THEOREM TrialIsDialledCorrect == HealthSpec => []TrialIsDialled
<1>1. HealthInit => Trials
  BY DEF HealthInit, Trials, NobodyChooses
<1>2. Marks /\ (~balance => Trials) /\ [HealthNext]_healthVars => (~balance => Trials)'
  BY TrialsKept, ModeKept
<1>3. (~balance => Trials) => TrialIsDialled
  BY DEF Trials, Dialled, TrialIsDialled, OnItsWay
<1> QED BY <1>1, <1>2, <1>3, MarksCorrect, PTL DEF HealthSpec

(* A half-open mark stands for a due trial that somebody makes.            *)
THEOREM TrialsAreMadeCorrect == HealthSpec => []TrialsAreMade
<1>1. HalfOpenIsDue /\ TrialIsDialled => TrialsAreMade
  BY DEF TrialsAreMade
<1> QED BY <1>1, HalfOpenIsDueCorrect, TrialIsDialledCorrect, PTL
=============================================================================
