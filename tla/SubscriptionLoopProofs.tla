------------------------ MODULE SubscriptionLoopProofs ------------------------
(* Theorems about SubscriptionLoop for every set of loops and callers and     *)
(* any number of reconfigurations.                                            *)
EXTENDS SubscriptionLoop, TLAPS

\* What the holder of lifecycleMu relies on from its first step to its last.
Held ==
    /\ op \in {"update", "renewed"} <=> opOf \in Callers
    /\ op \in {"update", "restore"} => gen < MaxGen
    /\ op = "renewed" => loopDone = NoLoop
    /\ stopped => op \in {"free", "stop"}
    /\ op = "stop" => stopped

\* The one goroutine, and when its context is alive.
Single == \A l \in Loops : loop[l] # "none" => l = loopDone /\ runsOn[l] = gen
Alive ==
    /\ ~stopped /\ op \in {"free", "renewed"} => gen \notin canceled
    /\ stopped /\ op # "stop" => loopDone = NoLoop

\* A caller for whom RefreshCount has moved since his update owes that to a
\* refresh of his generation or a later one.
Counts ==
    \A c \in Callers :
        /\ c \in counted /\ caller[c] = "update wait" => attempted >= waitsOn[c]
        /\ caller[c] = "update ok" => attempted >= waitsOn[c]
        /\ c \in counted => op # "renewed" \/ opOf # c

\* The generations that are over are cancelled, and the current one is while it
\* is being replaced.
Passed ==
    /\ \A g \in 0..gen : g # gen => g \in canceled
    /\ op \in {"update", "restore"} => gen \in canceled

\* No error is known after a refresh only if it has ended well, or was cancelled.
Proven ==
    /\ \A l \in Loops : loop[l] = "finish" /\ ~Done(runsOn[l]) /\ ~lastError => applied >= runsOn[l]
    /\ \A c \in Callers :
           /\ c \in counted /\ caller[c] = "update wait" /\ ~Done(waitsOn[c]) /\ ~lastError
                 => applied >= waitsOn[c]
           /\ caller[c] = "update ok" /\ ~Done(waitsOn[c]) => applied >= waitsOn[c]

IInv == TypeOK /\ Held /\ Single /\ Alive /\ Counts /\ Passed /\ Proven

-----------------------------------------------------------------------------
\* The initial states satisfy the invariant.
LEMMA InitIInv == Init => IInv
<1> SUFFICES ASSUME Init PROVE IInv
  OBVIOUS
<1>1. FlagsOK
  BY DEF Init, FlagsOK
<1>2. PlacesOK
  BY CallersAssumption DEF Init, PlacesOK
<1>3. GenerationsOK
  BY GenAssumption DEF Init, GenerationsOK
<1>4. Held /\ Single /\ Alive /\ Counts
  BY CallersAssumption DEF Init, Held, Single, Alive, Counts
<1>5. Passed /\ Proven
  BY DEF Init, Passed, Proven
<1> QED BY <1>1, <1>2, <1>3, <1>4, <1>5 DEF IInv, TypeOK

-----------------------------------------------------------------------------
(* What kinds of steps leave alone.                                        *)

\* A step of a goroutine moves that goroutine, and only Finish counts.
LEMMA LoopFrame ==
    ASSUME NEW l \in Loops, LoopStep(l)
    PROVE  /\ UNCHANGED <<stopped, loopDone, gen, canceled, op, opOf, caller, waitsOn, runsOn>>
           /\ Finish(l) \/ UNCHANGED <<counted, attempted>>
           /\ loop[l] # "none"
           /\ \E label \in {"none", "select", "refresh", "managed", "fetch", "finish"} :
                 loop' = [loop EXCEPT ![l] = label]
  BY DEF LoopStep, LoopEnds, Ticked, TakeRequest, SkipRefresh, StartManaged, StartFetch, JobEnded,
         JobAbandoned, Fetched, FetchAborted, Finish, AtGo, config, ctx, loops, clients, holder, history

\* The steps of a caller that does not reconfigure.
Poll(c) == Request(c) \/ Refused(c) \/ Ask(c) \/ GiveUp(c) \/ Answered(c) \/ Leave(c)

\* A poll moves its caller, and succeeds for an update only if it was counted.
LEMMA PollFrame ==
    ASSUME NEW c \in Callers, Poll(c)
    PROVE  /\ UNCHANGED <<stopped, loopDone, gen, canceled, op, opOf, loop, runsOn,
                          active, polled, attempted, applied>>
           /\ caller[c] # "update" /\ counted' \subseteq counted
           /\ \E label \in {"out", "ask", "wait", "update ok"} :
                 /\ caller' = [caller EXCEPT ![c] = label]
                 /\ label = "update ok" =>
                       /\ caller[c] \in {"update wait", "update ok"}
                       /\ c \in counted /\ waitsOn' = waitsOn
           /\ \/ waitsOn' = waitsOn
              \/ waitsOn' = [waitsOn EXCEPT ![c] = 0]
              \/ waitsOn' = [waitsOn EXCEPT ![c] = gen]
<1> USE DEF config, ctx, loops, holder, jobs, history
<1>1. CASE Request(c)
  BY <1>1 DEF Request
<1>2. CASE Ask(c)
  BY <1>2 DEF Ask
<1>3. CASE Refused(c)
  BY <1>3 DEF Refused, Return
<1>4. CASE GiveUp(c)
  BY <1>4 DEF GiveUp, Return, Waiting
<1>5. CASE Answered(c)
  BY <1>5 DEF Answered, Return, Waiting
<1>6. CASE Leave(c)
  BY <1>6 DEF Leave, Return
<1> QED BY <1>1, <1>2, <1>3, <1>4, <1>5, <1>6 DEF Poll

\* An update either takes lifecycleMu or, after Stop, only waits.
LEMMA BeginUpdateFacts ==
    ASSUME NEW c \in Callers, BeginUpdate(c)
    PROVE  /\ UNCHANGED <<stopped, loopDone, gen, loop, runsOn, active, polled,
                          attempted, applied>>
           /\ op = "free" /\ caller[c] = "out" /\ gen < MaxGen /\ counted' = counted \ {c}
           /\ \/ /\ ~stopped /\ op' = "update" /\ opOf' = c /\ canceled' = canceled \cup {gen}
                 /\ caller' = [caller EXCEPT ![c] = "update"] /\ waitsOn' = waitsOn
              \/ /\ stopped /\ UNCHANGED <<op, opOf, canceled>>
                 /\ caller' = [caller EXCEPT ![c] = "update wait"]
                 /\ waitsOn' = [waitsOn EXCEPT ![c] = gen]
<1>1. CASE MayReconfigure
  BY <1>1 DEF BeginUpdate, Begin, Free, MayReconfigure, loops, jobs, history
<1>2. CASE ~MayReconfigure
  BY <1>2 DEF BeginUpdate, Free, MayReconfigure, holder, ctx, loops, jobs, history
<1> QED BY <1>1, <1>2

\* A new goroutine is the one that is waited for, on the current context.
LEMMA SpawnFacts ==
    ASSUME NEW l \in Loops, Spawn(l)
    PROVE  /\ loop[l] = "none" /\ loop' = [loop EXCEPT ![l] = "select"]
           /\ runsOn' = [runsOn EXCEPT ![l] = gen'] /\ loopDone' = l
  BY DEF Spawn

\* The end of an update.
LEMMA ServeFacts ==
    ASSUME NEW c \in Callers, Serve(c)
    PROVE  /\ UNCHANGED <<stopped, gen, canceled, counted, active, polled,
                          attempted, applied>>
           /\ op = "renewed" /\ opOf = c /\ op' = "free" /\ opOf' = NoCaller
           /\ \/ caller' = [caller EXCEPT ![c] = "update wait"] /\ waitsOn' = waitsOn
              \/ caller' = [caller EXCEPT ![c] = "out"] /\ waitsOn' = [waitsOn EXCEPT ![c] = 0]
           /\ (\E l \in Loops : Spawn(l)) \/ UNCHANGED <<loop, runsOn, loopDone>>
<1>1. CASE urls
  BY <1>1 DEF Serve, Dismiss, Release, jobs, history
<1>2. CASE ~urls
  BY <1>2 DEF Serve, Dismiss, Release, loops, jobs, history
<1> QED BY <1>1, <1>2

-----------------------------------------------------------------------------
(* Every conjunct is inductive relative to the others.                     *)

\* Every step keeps the flags Boolean.
LEMMA FlagsStep ==
    ASSUME FlagsOK, [Next]_vars
    PROVE  FlagsOK'
<1> USE DEF FlagsOK,
       config, ctx, loops, clients, holder, jobs, history
<1>1. CASE \E l \in Loops : LoopEnds(l)
  BY <1>1 DEF LoopEnds, AtGo
<1>2. CASE \E l \in Loops : Ticked(l)
  BY <1>2 DEF Ticked, AtGo
<1>3. CASE \E l \in Loops : TakeRequest(l)
  BY <1>3 DEF TakeRequest, AtGo
<1>4. CASE \E l \in Loops : SkipRefresh(l)
  BY <1>4 DEF SkipRefresh, AtGo
<1>5. CASE \E l \in Loops : StartManaged(l)
  BY <1>5 DEF StartManaged, AtGo
<1>6. CASE \E l \in Loops : StartFetch(l)
  BY <1>6 DEF StartFetch, AtGo
<1>7. CASE \E l \in Loops : JobEnded(l)
  BY <1>7 DEF JobEnded, AtGo, Reach, Forget
<1>8. CASE \E l \in Loops : JobAbandoned(l)
  BY <1>8 DEF JobAbandoned, AtGo, Forget
<1>9. CASE \E l \in Loops : Fetched(l)
  BY <1>9 DEF Fetched, AtGo, Reach
<1>10. CASE \E l \in Loops : FetchAborted(l)
  BY <1>10 DEF FetchAborted, AtGo
<1>11. CASE \E l \in Loops : Finish(l)
  BY <1>11 DEF Finish, AtGo
<1>12. CASE \E c \in Callers : BeginUpdate(c)
  BY <1>12 DEF BeginUpdate, Begin, Free, MayReconfigure
<1>13. CASE \E c \in Callers : Renew(c)
  BY <1>13 DEF Renew, NewContext, Recount, Drained
<1>14. CASE \E c \in Callers : Serve(c)
  <2>1. PICK c \in Callers : Serve(c)
    BY <1>14
  <2>2. enabled' = enabled /\ auto \in [Loops -> BOOLEAN] /\ enabled \in BOOLEAN
    BY <2>1 DEF Serve
  <2>3. auto' \in [Loops -> BOOLEAN]
    <3>1. CASE \E l \in Loops : Spawn(l)
      BY <2>2, <3>1 DEF Spawn
    <3>2. CASE UNCHANGED auto
      BY <2>2, <3>2
    <3> QED BY <2>1, <3>1, <3>2 DEF Serve
  <2>4. manual' \in BOOLEAN
    BY <2>1 DEF Serve
  <2> QED BY <2>1, <2>2, <2>3, <2>4 DEF Serve
<1>15. CASE \E c \in Callers : Request(c)
  BY <1>15 DEF Request
<1>16. CASE \E c \in Callers : Refused(c)
  BY <1>16 DEF Refused, Return
<1>17. CASE \E c \in Callers : Ask(c)
  BY <1>17 DEF Ask
<1>18. CASE \E c \in Callers : GiveUp(c)
  BY <1>18 DEF GiveUp, Return, Waiting
<1>19. CASE \E c \in Callers : Answered(c)
  BY <1>19 DEF Answered, Return, Waiting
<1>20. CASE \E c \in Callers : Leave(c)
  BY <1>20 DEF Leave, Return
<1>21. CASE JobEnds
  BY <1>21 DEF JobEnds
<1>22. CASE JobStarts
  BY <1>22 DEF JobStarts
<1>23. CASE Start
  BY <1>23 DEF Start, Spawn, Free, StartAllowed
<1>24. CASE BeginStop
  BY <1>24 DEF BeginStop, Begin, Free
<1>25. CASE EndStop
  BY <1>25 DEF EndStop, Release, Drained
<1>26. CASE BeginRestore
  BY <1>26 DEF BeginRestore, Begin, Free, MayReconfigure
<1>27. CASE Restore
  BY <1>27 DEF Restore, Spawn, NewContext, Release, Drained
<1>28. CASE UNCHANGED vars
  BY <1>28 DEF vars
<1> QED
  BY <1>1, <1>2, <1>3, <1>4, <1>5, <1>6, <1>7, <1>8, <1>9, <1>10, <1>11, <1>12, <1>13, <1>14,
     <1>15, <1>16, <1>17, <1>18, <1>19, <1>20, <1>21, <1>22, <1>23, <1>24, <1>25, <1>26, <1>27, <1>28
  DEF Next, LoopStep, CallerStep

\* Every step keeps the places, and one caller at most in an update.
LEMMA PlacesStep ==
    ASSUME PlacesOK, Held, [Next]_vars
    PROVE  PlacesOK'
<1> USE CallersAssumption DEF PlacesOK, Held
<1>1. CASE \E l \in Loops : LoopEnds(l)
  BY <1>1 DEF LoopEnds, AtGo, config, ctx, loops, clients, holder, jobs, history
<1>2. CASE \E l \in Loops : Ticked(l)
  BY <1>2 DEF Ticked, AtGo, config, ctx, loops, clients, holder, jobs, history
<1>3. CASE \E l \in Loops : TakeRequest(l)
  BY <1>3 DEF TakeRequest, AtGo, config, ctx, loops, clients, holder, jobs, history
<1>4. CASE \E l \in Loops : SkipRefresh(l)
  BY <1>4 DEF SkipRefresh, AtGo, config, ctx, loops, clients, holder, jobs, history
<1>5. CASE \E l \in Loops : StartManaged(l)
  BY <1>5 DEF StartManaged, AtGo, config, ctx, loops, clients, holder, jobs, history
<1>6. CASE \E l \in Loops : StartFetch(l)
  BY <1>6 DEF StartFetch, AtGo, config, ctx, loops, clients, holder, jobs, history
<1>7. CASE \E l \in Loops : JobEnded(l)
  <2>1. PICK l \in Loops : JobEnded(l)
    BY <1>7
  <2>2. polled' = "none" /\ UNCHANGED counted
    BY <2>1 DEF JobEnded, Forget
  <2>3. PICK label \in {"none", "select", "refresh", "managed", "fetch", "finish"} :
           loop' = [loop EXCEPT ![l] = label]
    BY <2>1 DEF JobEnded, AtGo
  <2> QED BY <2>1, <2>2, <2>3 DEF JobEnded, holder, clients
<1>8. CASE \E l \in Loops : JobAbandoned(l)
  BY <1>8 DEF JobAbandoned, AtGo, Forget, config, ctx, loops, clients, holder, jobs, history
<1>9. CASE \E l \in Loops : Fetched(l)
  BY <1>9 DEF Fetched, AtGo, config, ctx, loops, clients, holder, jobs, history
<1>10. CASE \E l \in Loops : FetchAborted(l)
  BY <1>10 DEF FetchAborted, AtGo, config, ctx, loops, clients, holder, jobs, history
<1>11. CASE \E l \in Loops : Finish(l)
  BY <1>11 DEF Finish, AtGo, config, ctx, loops, clients, holder, jobs, history
<1>12. CASE \E c \in Callers : Poll(c)
  <2>1. PICK c \in Callers : Poll(c)
    BY <1>12
  <2>2. /\ UNCHANGED <<loopDone, loop, op, opOf, polled>>
        /\ counted' \subseteq Callers /\ opOf # c
    BY <2>1, PollFrame
  <2>3. PICK label \in {"out", "ask", "wait", "update ok"} : caller' = [caller EXCEPT ![c] = label]
    BY <2>1, PollFrame
  <2> QED BY <2>2, <2>3
<1>13. CASE \E c \in Callers : BeginUpdate(c)
  <2>1. PICK c \in Callers : BeginUpdate(c)
    BY <1>13
  <2>2. /\ UNCHANGED <<loopDone, loop, polled>>
        /\ counted' \subseteq Callers /\ caller[c] = "out" /\ op = "free"
    BY <2>1, BeginUpdateFacts
  <2>3. CASE op' = "update" /\ opOf' = c /\ caller' = [caller EXCEPT ![c] = "update"]
    BY <2>2, <2>3
  <2>4. CASE UNCHANGED <<op, opOf>> /\ caller' = [caller EXCEPT ![c] = "update wait"]
    BY <2>2, <2>4
  <2> QED BY <2>1, <2>3, <2>4, BeginUpdateFacts
<1>14. CASE \E c \in Callers : Renew(c)
  BY <1>14 DEF Renew, NewContext, Recount, Drained, config, ctx, loops, clients, holder, jobs, history
<1>15. CASE \E c \in Callers : Serve(c)
  BY <1>15 DEF Serve, Spawn, Release, Dismiss, config, ctx, loops, clients, holder, jobs, history
<1>16. CASE JobEnds
  BY <1>16 DEF JobEnds, config, ctx, loops, clients, holder, jobs, history
<1>17. CASE JobStarts
  BY <1>17 DEF JobStarts, config, ctx, loops, clients, holder, jobs, history
<1>18. CASE Start
  BY <1>18 DEF Start, Spawn, Free, StartAllowed, config, ctx, loops, clients, holder, jobs, history
<1>19. CASE BeginStop
  BY <1>19 DEF BeginStop, Begin, Free, config, ctx, loops, clients, holder, jobs, history
<1>20. CASE EndStop
  BY <1>20 DEF EndStop, Release, Drained, config, ctx, loops, clients, holder, jobs, history
<1>21. CASE BeginRestore
  BY <1>21 DEF BeginRestore, Begin, Free, MayReconfigure, config, ctx, loops, clients, holder, jobs, history
<1>22. CASE Restore
  BY <1>22 DEF Restore, Spawn, NewContext, Release, Drained, config, ctx, loops, clients, holder, jobs, history
<1>23. CASE UNCHANGED vars
  BY <1>23 DEF vars, config, ctx, loops, clients, holder, jobs, history
<1> QED
  BY <1>1, <1>2, <1>3, <1>4, <1>5, <1>6, <1>7, <1>8, <1>9, <1>10, <1>11, <1>12, <1>13, <1>14, <1>15, <1>16, <1>17, <1>18, <1>19, <1>20, <1>21, <1>22, <1>23
  DEF Next, CallerStep, Poll, LoopStep

\* Every step keeps the generations within those there are.
LEMMA GenerationsStep ==
    ASSUME GenerationsOK, Held, [Next]_vars
    PROVE  GenerationsOK'
<1> USE GenAssumption DEF GenerationsOK, Held
<1>1. CASE \E l \in Loops : LoopEnds(l)
  BY <1>1 DEF LoopEnds, AtGo, config, ctx, loops, clients, holder, jobs, history
<1>2. CASE \E l \in Loops : Ticked(l)
  BY <1>2 DEF Ticked, AtGo, config, ctx, loops, clients, holder, jobs, history
<1>3. CASE \E l \in Loops : TakeRequest(l)
  BY <1>3 DEF TakeRequest, AtGo, config, ctx, loops, clients, holder, jobs, history
<1>4. CASE \E l \in Loops : SkipRefresh(l)
  BY <1>4 DEF SkipRefresh, AtGo, config, ctx, loops, clients, holder, jobs, history
<1>5. CASE \E l \in Loops : StartManaged(l)
  BY <1>5 DEF StartManaged, AtGo, config, ctx, loops, clients, holder, jobs, history
<1>6. CASE \E l \in Loops : StartFetch(l)
  BY <1>6 DEF StartFetch, AtGo, config, ctx, loops, clients, holder, jobs, history
<1>7. CASE \E l \in Loops : JobEnded(l)
  BY <1>7 DEF JobEnded, AtGo, Reach, Forget, config, ctx, loops, clients, holder, jobs, history
<1>8. CASE \E l \in Loops : JobAbandoned(l)
  BY <1>8 DEF JobAbandoned, AtGo, Forget, config, ctx, loops, clients, holder, jobs, history
<1>9. CASE \E l \in Loops : Fetched(l)
  BY <1>9 DEF Fetched, AtGo, Reach, config, ctx, loops, clients, holder, jobs, history
<1>10. CASE \E l \in Loops : FetchAborted(l)
  BY <1>10 DEF FetchAborted, AtGo, config, ctx, loops, clients, holder, jobs, history
<1>11. CASE \E l \in Loops : Finish(l)
  BY <1>11 DEF Finish, AtGo, config, ctx, loops, clients, holder, jobs, history
<1>12. CASE \E c \in Callers : Poll(c)
  <2>1. PICK c \in Callers : Poll(c)
    BY <1>12
  <2>2. /\ UNCHANGED <<gen, canceled, runsOn, attempted, applied>>
        /\ \/ waitsOn' = waitsOn
           \/ waitsOn' = [waitsOn EXCEPT ![c] = 0]
           \/ waitsOn' = [waitsOn EXCEPT ![c] = gen]
    BY <2>1, PollFrame
  <2> QED BY <2>2
<1>13. CASE \E c \in Callers : BeginUpdate(c)
  <2>1. PICK c \in Callers : BeginUpdate(c)
    BY <1>13
  <2>2. /\ UNCHANGED <<gen, runsOn, attempted, applied>>
        /\ canceled' \in {canceled, canceled \cup {gen}}
        /\ waitsOn' = waitsOn \/ waitsOn' = [waitsOn EXCEPT ![c] = gen]
    BY <2>1, BeginUpdateFacts
  <2> QED BY <2>2
<1>14. CASE \E c \in Callers : Renew(c)
  BY <1>14 DEF Renew, NewContext, Recount, Drained, config, ctx, loops, clients, holder, jobs, history
<1>15. CASE \E c \in Callers : Serve(c)
  <2>1. PICK c \in Callers : Serve(c)
    BY <1>15
  <2>2. /\ UNCHANGED <<gen, canceled, attempted, applied>>
        /\ waitsOn' = waitsOn \/ waitsOn' = [waitsOn EXCEPT ![c] = 0]
        /\ (\E l \in Loops : Spawn(l)) \/ UNCHANGED runsOn
    BY <2>1, ServeFacts
  <2>3. waitsOn' \in [Callers -> 0..gen]
    BY <2>2
  <2>4. runsOn' \in [Loops -> 0..gen]
    <3>1. CASE UNCHANGED runsOn
      BY <3>1
    <3>2. ASSUME NEW l \in Loops, Spawn(l) PROVE runsOn' \in [Loops -> 0..gen]
      <4>1. runsOn' = [runsOn EXCEPT ![l] = gen]
        BY <3>2, <2>2, SpawnFacts
      <4> QED BY <4>1
    <3> QED BY <2>2, <3>1, <3>2
  <2> QED BY <2>2, <2>3, <2>4
<1>16. CASE JobEnds
  BY <1>16 DEF JobEnds, config, ctx, loops, clients, holder, jobs, history
<1>17. CASE JobStarts
  BY <1>17 DEF JobStarts, config, ctx, loops, clients, holder, jobs, history
<1>18. CASE Start
  BY <1>18 DEF Start, Spawn, Free, StartAllowed, config, ctx, loops, clients, holder, jobs, history
<1>19. CASE BeginStop
  BY <1>19 DEF BeginStop, Begin, Free, config, ctx, loops, clients, holder, jobs, history
<1>20. CASE EndStop
  BY <1>20 DEF EndStop, Release, Drained, config, ctx, loops, clients, holder, jobs, history
<1>21. CASE BeginRestore
  BY <1>21 DEF BeginRestore, Begin, Free, MayReconfigure, config, ctx, loops, clients, holder, jobs, history
<1>22. CASE Restore
  BY <1>22 DEF Restore, Spawn, NewContext, Release, Drained, config, ctx, loops, clients, holder, jobs, history
<1>23. CASE UNCHANGED vars
  BY <1>23 DEF vars, config, ctx, loops, clients, holder, jobs, history
<1> QED
  BY <1>1, <1>2, <1>3, <1>4, <1>5, <1>6, <1>7, <1>8, <1>9, <1>10, <1>11, <1>12, <1>13, <1>14, <1>15, <1>16, <1>17, <1>18, <1>19, <1>20, <1>21, <1>22, <1>23
  DEF Next, CallerStep, Poll, LoopStep

\* Every step keeps what the holder of lifecycleMu relies on.
LEMMA HeldStep ==
    ASSUME PlacesOK, GenerationsOK, Held, [Next]_vars
    PROVE  Held'
<1> USE CallersAssumption, GenAssumption DEF PlacesOK, GenerationsOK, Held
<1>1. CASE \E l \in Loops : LoopStep(l)
  <2>1. PICK l \in Loops : LoopStep(l)
    BY <1>1
  <2> QED BY <2>1, LoopFrame
<1>2. CASE \E c \in Callers : Poll(c)
  <2>1. PICK c \in Callers : Poll(c)
    BY <1>2
  <2> QED BY <2>1, PollFrame
<1>3. CASE \E c \in Callers : BeginUpdate(c)
  <2>1. PICK c \in Callers : BeginUpdate(c)
    BY <1>3
  <2> QED BY <2>1, BeginUpdateFacts
<1>4. CASE \E c \in Callers : Renew(c)
  <2>1. PICK c \in Callers : Renew(c)
    BY <1>4
  <2> QED BY <2>1 DEF Renew, NewContext, Drained
<1>5. CASE \E c \in Callers : Serve(c)
  <2>1. PICK c \in Callers : Serve(c)
    BY <1>5
  <2> QED BY <2>1, ServeFacts
<1>6. CASE JobEnds
  BY <1>6 DEF JobEnds, config, ctx, loops, clients, holder, jobs, history
<1>7. CASE JobStarts
  BY <1>7 DEF JobStarts, config, ctx, loops, clients, holder, jobs, history
<1>8. CASE Start
  BY <1>8 DEF Start, Spawn, Free, StartAllowed, config, ctx, loops, clients, holder, jobs, history
<1>9. CASE BeginStop
  BY <1>9 DEF BeginStop, Begin, Free, config, ctx, loops, clients, holder, jobs, history
<1>10. CASE EndStop
  BY <1>10 DEF EndStop, Release, Drained, config, ctx, loops, clients, holder, jobs, history
<1>11. CASE BeginRestore
  BY <1>11 DEF BeginRestore, Begin, Free, MayReconfigure, config, ctx, loops, clients, holder, jobs, history
<1>12. CASE Restore
  BY <1>12 DEF Restore, Spawn, NewContext, Release, Drained, config, ctx, loops, clients, holder, jobs, history
<1>13. CASE UNCHANGED vars
  BY <1>13 DEF vars, config, ctx, loops, clients, holder, jobs, history
<1> QED
  BY <1>1, <1>2, <1>3, <1>4, <1>5, <1>6, <1>7, <1>8, <1>9, <1>10, <1>11, <1>12, <1>13
  DEF Next, CallerStep, Poll

\* Every step keeps the one goroutine.
LEMMA SingleStep ==
    ASSUME PlacesOK, GenerationsOK, Held, Single, [Next]_vars
    PROVE  Single'
<1> USE LoopsAssumption, GenAssumption DEF PlacesOK, GenerationsOK, Held, Single
<1>1. CASE \E l \in Loops : LoopStep(l)
  <2>1. PICK l \in Loops : LoopStep(l)
    BY <1>1
  <2> QED BY <2>1, LoopFrame
<1>2. CASE \E c \in Callers : Poll(c)
  <2>1. PICK c \in Callers : Poll(c)
    BY <1>2
  <2> QED BY <2>1, PollFrame
<1>3. CASE \E c \in Callers : BeginUpdate(c)
  <2>1. PICK c \in Callers : BeginUpdate(c)
    BY <1>3
  <2> QED BY <2>1, BeginUpdateFacts
<1>4. CASE \E c \in Callers : Renew(c)
  <2>1. PICK c \in Callers : Renew(c)
    BY <1>4
  <2> QED BY <2>1 DEF Renew, NewContext, Drained, loops
<1>5. CASE \E c \in Callers : Serve(c)
  <2>1. PICK c \in Callers : Serve(c)
    BY <1>5
  <2>2. gen' = gen /\ op = "renewed"
    BY <2>1, ServeFacts
  <2>3. CASE UNCHANGED <<loop, runsOn, loopDone>>
    BY <2>2, <2>3
  <2>4. ASSUME NEW l \in Loops, Spawn(l) PROVE Single'
    <3>1. /\ loop' = [loop EXCEPT ![l] = "select"] /\ loopDone' = l
          /\ runsOn' = [runsOn EXCEPT ![l] = gen]
      BY <2>2, <2>4, SpawnFacts
    <3>2. \A k \in Loops : loop[k] = "none"
      BY <2>2
    <3> QED BY <3>1, <3>2, <2>2
  <2> QED BY <2>1, <2>3, <2>4, ServeFacts
<1>6. CASE JobEnds
  BY <1>6 DEF JobEnds, config, ctx, loops, clients, holder, jobs, history
<1>7. CASE JobStarts
  BY <1>7 DEF JobStarts, config, ctx, loops, clients, holder, jobs, history
<1>8. CASE Start
  <2>1. gen' = gen
    BY <1>8 DEF Start
  <2>2. CASE UNCHANGED <<loop, runsOn, loopDone>>
    BY <2>1, <2>2
  <2>3. ASSUME loopDone = NoLoop, NEW l \in Loops, Spawn(l) PROVE Single'
    <3>1. /\ loop' = [loop EXCEPT ![l] = "select"] /\ loopDone' = l
          /\ runsOn' = [runsOn EXCEPT ![l] = gen]
      BY <2>1, <2>3, SpawnFacts
    <3>2. \A k \in Loops : loop[k] = "none"
      BY <2>3
    <3> QED BY <3>1, <3>2, <2>1
  <2> QED BY <1>8, <2>2, <2>3 DEF Start, StartAllowed, loops
<1>9. CASE BeginStop
  BY <1>9 DEF BeginStop, Begin, Free, config, ctx, loops, clients, holder, jobs, history
<1>10. CASE EndStop
  BY <1>10 DEF EndStop, Release, Drained, config, ctx, loops, clients, holder, jobs, history
<1>11. CASE BeginRestore
  BY <1>11 DEF BeginRestore, Begin, Free, MayReconfigure, config, ctx, loops, clients, holder, jobs, history
<1>12. CASE Restore
  <2>1. gen' = gen + 1 /\ \A k \in Loops : loop[k] = "none"
    BY <1>12 DEF Restore, NewContext, Drained
  <2>2. CASE UNCHANGED loops
    BY <2>1, <2>2 DEF loops
  <2>3. ASSUME NEW l \in Loops, Spawn(l) PROVE Single'
    <3>1. /\ loop' = [loop EXCEPT ![l] = "select"] /\ loopDone' = l
          /\ runsOn' = [runsOn EXCEPT ![l] = gen']
      BY <2>3, SpawnFacts
    <3> QED BY <2>1, <3>1
  <2> QED BY <1>12, <2>2, <2>3 DEF Restore
<1>13. CASE UNCHANGED vars
  BY <1>13 DEF vars, config, ctx, loops, clients, holder, jobs, history
<1> QED
  BY <1>1, <1>2, <1>3, <1>4, <1>5, <1>6, <1>7, <1>8, <1>9, <1>10, <1>11, <1>12, <1>13
  DEF Next, CallerStep, Poll

\* The generations are numbers up to the current one.
LEMMA NumberFacts ==
    GenerationsOK => /\ gen \in Nat /\ attempted \in Nat /\ attempted <= gen
                     /\ \A c \in Callers : waitsOn[c] \in Nat /\ waitsOn[c] <= gen
  BY GenAssumption DEF GenerationsOK

\* The context of the next generation has not been cancelled.
LEMMA NextIsNew == GenerationsOK => gen + 1 \notin canceled
  BY GenAssumption DEF GenerationsOK

\* Every step keeps the current context alive.
LEMMA AliveStep ==
    ASSUME GenerationsOK, Held, Alive, [Next]_vars
    PROVE  Alive'
<1> USE LoopsAssumption DEF Held, Alive
<1>1. CASE \E l \in Loops : LoopStep(l)
  <2>1. PICK l \in Loops : LoopStep(l)
    BY <1>1
  <2>2. UNCHANGED <<stopped, op, gen, canceled, loopDone>>
    BY <2>1, LoopFrame
  <2> QED BY <2>2
<1>2. CASE \E c \in Callers : Poll(c)
  <2>1. PICK c \in Callers : Poll(c)
    BY <1>2
  <2>2. UNCHANGED <<stopped, op, gen, canceled, loopDone>>
    BY <2>1, PollFrame
  <2> QED BY <2>2
<1>3. CASE \E c \in Callers : BeginUpdate(c)
  <2>1. PICK c \in Callers : BeginUpdate(c)
    BY <1>3
  <2>2. CASE op' = "update" /\ ~stopped'
    BY <2>2
  <2>3. CASE UNCHANGED <<stopped, op, gen, canceled, loopDone>>
    BY <2>3
  <2> QED BY <2>1, <2>2, <2>3, BeginUpdateFacts
<1>4. CASE \E c \in Callers : Renew(c)
  <2>1. PICK c \in Callers : Renew(c)
    BY <1>4
  <2>2. UNCHANGED <<stopped, canceled>> /\ gen' = gen + 1 /\ op = "update"
    BY <2>1 DEF Renew, NewContext
  <2>3. gen' \notin canceled' /\ ~stopped'
    BY <2>2, NextIsNew
  <2> QED BY <2>3
<1>5. CASE \E c \in Callers : Serve(c)
  <2>1. PICK c \in Callers : Serve(c)
    BY <1>5
  <2>2. UNCHANGED <<stopped, gen, canceled>> /\ op = "renewed"
    BY <2>1, ServeFacts
  <2> QED BY <2>2
<1>6. CASE JobEnds
  BY <1>6 DEF JobEnds, config, ctx, loops, clients, holder, jobs, history
<1>7. CASE JobStarts
  BY <1>7 DEF JobStarts, config, ctx, loops, clients, holder, jobs, history
<1>8. CASE Start
  BY <1>8 DEF Start, Spawn, Free, StartAllowed, config, ctx, loops, clients, holder, jobs, history
<1>9. CASE BeginStop
  BY <1>9 DEF BeginStop, Begin, Free, config, ctx, loops, clients, holder, jobs, history
<1>10. CASE EndStop
  <2>1. stopped' = stopped /\ gen' = gen /\ canceled' = canceled /\ loopDone' = NoLoop
    BY <1>10 DEF EndStop, ctx
  <2>2. stopped
    BY <1>10 DEF EndStop
  <2> QED BY <2>1, <2>2
<1>11. CASE BeginRestore
  BY <1>11 DEF BeginRestore, Begin, Free, MayReconfigure, config, ctx, loops, clients, holder, jobs, history
<1>12. CASE Restore
  <2>1. UNCHANGED <<stopped, canceled>> /\ gen' = gen + 1 /\ op = "restore"
    BY <1>12 DEF Restore, NewContext
  <2>2. gen' \notin canceled' /\ ~stopped'
    BY <2>1, NextIsNew
  <2> QED BY <2>2
<1>13. CASE UNCHANGED vars
  BY <1>13 DEF vars, config, ctx, loops, clients, holder, jobs, history
<1> QED
  BY <1>1, <1>2, <1>3, <1>4, <1>5, <1>6, <1>7, <1>8, <1>9, <1>10, <1>11, <1>12, <1>13
  DEF Next, CallerStep, Poll

\* Every step keeps the meaning of counted.
LEMMA CountsStep ==
    ASSUME PlacesOK, GenerationsOK, Held, Single, Counts, [Next]_vars
    PROVE  Counts'
<1> USE LoopsAssumption, CallersAssumption, GenAssumption DEF PlacesOK, GenerationsOK, Held, Single, Counts
<1>1. CASE \E l \in Loops : LoopStep(l)
  <2>1. PICK l \in Loops : LoopStep(l)
    BY <1>1
  <2>2. CASE Finish(l)
    <3>1. UNCHANGED <<caller, waitsOn, op, opOf>> /\ loop[l] # "none"
      BY <2>1, LoopFrame
    <3>2. runsOn[l] = gen /\ op # "renewed"
      BY <3>1, LoopsAssumption
    <3>3. attempted' = gen
      <4>1. attempted' = IF gen > attempted THEN gen ELSE attempted
        BY <2>2, <3>2 DEF Finish
      <4>2. gen \in Nat /\ attempted \in Nat /\ attempted <= gen
        BY NumberFacts
      <4> QED BY ONLY <4>1, <4>2
    <3>4. \A c \in Callers : waitsOn[c] <= gen
      BY NumberFacts
    <3> QED BY <3>1, <3>2, <3>3, <3>4, NumberFacts
  <2>3. CASE UNCHANGED <<counted, attempted>>
    BY <2>1, <2>3, LoopFrame
  <2> QED BY <2>1, <2>2, <2>3, LoopFrame
<1>2. CASE \E c \in Callers : Poll(c)
  <2>1. PICK c \in Callers : Poll(c)
    BY <1>2
  <2>2. UNCHANGED <<op, opOf, attempted>> /\ counted' \subseteq counted
    BY <2>1, PollFrame
  <2>3. PICK label \in {"out", "ask", "wait", "update ok"} :
           /\ caller' = [caller EXCEPT ![c] = label]
           /\ label = "update ok" => /\ caller[c] \in {"update wait", "update ok"}
                                     /\ c \in counted /\ waitsOn' = waitsOn
    BY <2>1, PollFrame
  <2>4. \A d \in Callers \ {c} : waitsOn'[d] = waitsOn[d] /\ caller'[d] = caller[d]
    <3>1. \/ waitsOn' = waitsOn
          \/ waitsOn' = [waitsOn EXCEPT ![c] = 0]
          \/ waitsOn' = [waitsOn EXCEPT ![c] = gen]
      BY <2>1, PollFrame
    <3> QED BY <3>1, <2>3
  <2>5. caller'[c] = label
    BY <2>3
  <2>6. label = "update ok" => attempted >= waitsOn'[c]
    BY <2>3
  <2> QED BY <2>2, <2>4, <2>5, <2>6
<1>3. CASE \E c \in Callers : BeginUpdate(c)
  <2>1. PICK c \in Callers : BeginUpdate(c)
    BY <1>3
  <2>2. /\ UNCHANGED attempted /\ counted' = counted \ {c}
        /\ op = "free" /\ op' \in {"free", "update"}
    BY <2>1, BeginUpdateFacts
  <2>3. PICK label \in {"update", "update wait"} : caller' = [caller EXCEPT ![c] = label]
    BY <2>1, BeginUpdateFacts
  <2>4. waitsOn' = waitsOn \/ waitsOn' = [waitsOn EXCEPT ![c] = gen]
    BY <2>1, BeginUpdateFacts
  <2>5. \A d \in Callers \ {c} : waitsOn'[d] = waitsOn[d] /\ caller'[d] = caller[d]
    BY <2>3, <2>4
  <2>6. caller'[c] \in {"update", "update wait"}
    BY <2>3
  <2> QED BY <2>2, <2>5, <2>6
<1>4. CASE \E c \in Callers : Renew(c)
  <2>1. PICK c \in Callers : Renew(c)
    BY <1>4
  <2> QED BY <2>1 DEF Renew, Recount, history
<1>5. CASE \E c \in Callers : Serve(c)
  <2>1. PICK c \in Callers : Serve(c)
    BY <1>5
  <2>2. /\ UNCHANGED <<attempted, counted>> /\ op = "renewed" /\ opOf = c /\ op' = "free"
    BY <2>1, ServeFacts
  <2>3. caller'[c] \in {"out", "update wait"} /\ c \notin counted'
    BY <2>1, <2>2, ServeFacts
  <2>4. \A d \in Callers \ {c} : waitsOn'[d] = waitsOn[d] /\ caller'[d] = caller[d]
    BY <2>1, ServeFacts
  <2> QED BY <2>2, <2>3, <2>4
<1>6. CASE JobEnds
  BY <1>6 DEF JobEnds, config, ctx, loops, clients, holder, jobs, history
<1>7. CASE JobStarts
  BY <1>7 DEF JobStarts, config, ctx, loops, clients, holder, jobs, history
<1>8. CASE Start
  BY <1>8 DEF Start, Spawn, Free, StartAllowed, config, ctx, loops, clients, holder, jobs, history
<1>9. CASE BeginStop
  BY <1>9 DEF BeginStop, Begin, Free, config, ctx, loops, clients, holder, jobs, history
<1>10. CASE EndStop
  BY <1>10 DEF EndStop, Release, Drained, config, ctx, loops, clients, holder, jobs, history
<1>11. CASE BeginRestore
  BY <1>11 DEF BeginRestore, Begin, Free, MayReconfigure, config, ctx, loops, clients, holder, jobs, history
<1>12. CASE Restore
  BY <1>12 DEF Restore, Spawn, NewContext, Release, Drained, config, ctx, loops, clients, holder, jobs, history
<1>13. CASE UNCHANGED vars
  BY <1>13 DEF vars, config, ctx, loops, clients, holder, jobs, history
<1> QED
  BY <1>1, <1>2, <1>3, <1>4, <1>5, <1>6, <1>7, <1>8, <1>9, <1>10, <1>11, <1>12, <1>13
  DEF Next, CallerStep, Poll

\* Every step keeps the generations that are over cancelled.
LEMMA PassedStep ==
    ASSUME GenerationsOK, Passed, [Next]_vars
    PROVE  Passed'
<1> USE GenAssumption DEF GenerationsOK, Passed
<1>1. CASE \E l \in Loops : LoopStep(l)
  BY <1>1, LoopFrame
<1>2. CASE \E c \in Callers : Poll(c)
  BY <1>2, PollFrame
<1>3. CASE \E c \in Callers : BeginUpdate(c)
  <2>1. PICK c \in Callers : BeginUpdate(c)
    BY <1>3
  <2>2. gen' = gen /\ op = "free"
    BY <2>1, BeginUpdateFacts
  <2>3. CASE op' = "update" /\ canceled' = canceled \cup {gen}
    BY <2>2, <2>3
  <2>4. CASE UNCHANGED <<op, canceled>>
    BY <2>2, <2>4
  <2> QED BY <2>1, <2>3, <2>4, BeginUpdateFacts
<1>4. CASE \E c \in Callers : Renew(c)
  <2>1. gen' = gen + 1 /\ canceled' = canceled /\ op = "update" /\ op' = "renewed"
    BY <1>4 DEF Renew, NewContext
  <2> QED BY <2>1
<1>5. CASE \E c \in Callers : Serve(c)
  BY <1>5, ServeFacts
<1>6. CASE JobEnds \/ JobStarts
  BY <1>6 DEF JobEnds, JobStarts, ctx, holder
<1>7. CASE Start
  BY <1>7 DEF Start, holder
<1>8. CASE BeginStop \/ BeginRestore
  BY <1>8 DEF BeginStop, BeginRestore, Begin
<1>9. CASE EndStop
  BY <1>9 DEF EndStop, Release, ctx
<1>10. CASE Restore
  <2>1. gen' = gen + 1 /\ canceled' = canceled /\ op = "restore" /\ op' = "free"
    BY <1>10 DEF Restore, NewContext, Release
  <2> QED BY <2>1
<1>11. CASE UNCHANGED vars
  BY <1>11 DEF vars, ctx, holder
<1> QED
  BY <1>1, <1>2, <1>3, <1>4, <1>5, <1>6, <1>7, <1>8, <1>9, <1>10, <1>11 DEF Next, CallerStep, Poll

\* The error of a refresh is taken off only by one that ends well, and a refresh
\* ends without an error only then or when it is cancelled.
LEMMA RefreshFrame ==
    ASSUME GenerationsOK, PlacesOK, NEW l \in Loops, LoopStep(l)
    PROVE  /\ applied' >= applied
           /\ ~lastError' => \/ applied' >= runsOn[l]
                             \/ /\ ~lastError /\ applied' = applied
                                /\ loop'[l] = "finish" => Done(runsOn[l])
           /\ Finish(l) => /\ loop[l] = "finish" /\ loop'[l] = "select"
                           /\ UNCHANGED <<lastError, applied>>
<1>0. runsOn[l] \in Nat /\ applied \in Nat
  BY GenAssumption DEF GenerationsOK
<1>00. \E S : loop \in [Loops -> S]
  BY DEF PlacesOK
<1> USE <1>0, <1>00
<1>1. CASE JobEnded(l)
  <2>1. CASE polled = "finished"
    <3>1. applied' = IF runsOn[l] > applied THEN runsOn[l] ELSE applied
      BY <1>1, <2>1 DEF JobEnded, Reach
    <3> QED BY <3>1, <1>1 DEF JobEnded, Finish, AtGo
  <2>2. CASE polled = "failed"
    <3>1. lastError' /\ applied' = applied /\ loop[l] = "managed"
      BY <1>1, <2>2 DEF JobEnded
    <3> QED BY <3>1 DEF Finish
  <2> QED BY <1>1, <2>1, <2>2 DEF JobEnded
<1>12. CASE Fetched(l)
  <2>1. \/ lastError' = FALSE /\ applied' = IF runsOn[l] > applied THEN runsOn[l] ELSE applied
        \/ lastError' = TRUE /\ applied' = applied
    BY <1>12 DEF Fetched, Reach
  <2> QED BY <2>1, <1>12 DEF Fetched, Finish, AtGo
<1>2. CASE JobAbandoned(l)
  BY <1>2 DEF JobAbandoned, Finish, AtGo, history
<1>3. CASE StartManaged(l)
  BY <1>3 DEF StartManaged, Finish, AtGo, history
<1>4. CASE FetchAborted(l)
  BY <1>4 DEF FetchAborted, Finish, AtGo, history
<1>5. CASE Finish(l)
  BY <1>5 DEF Finish, AtGo
<1>6. CASE LoopEnds(l) \/ Ticked(l) \/ TakeRequest(l) \/ SkipRefresh(l) \/ StartFetch(l)
  BY <1>6 DEF LoopEnds, Ticked, TakeRequest, SkipRefresh, StartFetch, Finish, AtGo, history
<1> QED BY <1>1, <1>12, <1>2, <1>3, <1>4, <1>5, <1>6 DEF LoopStep

\* Every step keeps what the absence of an error says.
LEMMA ProvenStep ==
    ASSUME TypeOK, Held, Single, Counts, Passed, Proven, [Next]_vars
    PROVE  Proven'
<1>t. PlacesOK /\ GenerationsOK
  BY DEF TypeOK
<1>0. /\ PlacesOK /\ GenerationsOK /\ gen \in Nat /\ applied \in Nat
      /\ \A c \in Callers : waitsOn[c] \in Nat /\ waitsOn[c] <= gen
      /\ \E S : loop \in [Loops -> S]
      /\ \E S : runsOn \in [Loops -> S]
  <2>1. gen \in Nat /\ applied \in Nat
    BY <1>t, GenAssumption DEF GenerationsOK
  <2>2. \A c \in Callers : waitsOn[c] \in Nat /\ waitsOn[c] <= gen
    BY <1>t, NumberFacts
  <2>3. (\E S : loop \in [Loops -> S]) /\ \E S : runsOn \in [Loops -> S]
    BY <1>t DEF PlacesOK, GenerationsOK
  <2> QED BY <1>t, <2>1, <2>2, <2>3
<1>old. \A c \in Callers : waitsOn[c] # gen => Done(waitsOn[c])
  BY <1>0 DEF Passed, Done
<1> USE DEF Proven, Done
<1>1. CASE \E l \in Loops : LoopStep(l)
  <2>1. PICK l \in Loops : LoopStep(l)
    BY <1>1
  <2>2. UNCHANGED <<gen, canceled, caller, waitsOn, runsOn>> /\ runsOn[l] = gen
    BY <2>1, LoopFrame DEF Single
  <2>3. \A k \in Loops \ {l} : loop[k] = "none" /\ loop'[k] = "none"
    <3>1. \A k \in Loops \ {l} : loop[k] = "none"
      BY <2>1, LoopFrame DEF Single
    <3> QED BY <3>1, <2>1, LoopFrame, <1>0
  <2>4. applied' \in Nat
    <3>1. GenerationsOK'
      BY GenerationsStep, <1>0
    <3>2. applied' \in 0..gen' /\ gen' = gen
      BY <3>1, <2>2 DEF GenerationsOK
    <3>3. gen \in Nat
      BY <1>0
    <3> QED BY ONLY <3>2, <3>3
  <2>5. \A k \in Loops : loop'[k] = "finish" /\ ~Done(runsOn[k]) /\ ~lastError' => applied' >= runsOn[k]
    <3>1. ~Done(runsOn[l]) /\ loop'[l] = "finish" /\ ~lastError' => applied' >= runsOn[l]
      BY <2>1, <1>0, RefreshFrame
    <3> QED BY <3>1, <2>3
  <2>6. ASSUME NEW c \in Callers, caller[c] = "update ok", ~Done(waitsOn[c])
        PROVE  applied' >= waitsOn[c]
    <3>1. applied >= waitsOn[c] /\ applied' >= applied
      BY <2>6, <2>1, <1>0, RefreshFrame
    <3>2. waitsOn[c] \in Nat /\ applied \in Nat
      BY <1>0
    <3> QED BY ONLY <3>1, <3>2, <2>4
  <2>7. ASSUME NEW c \in Callers, c \in counted', caller[c] = "update wait", ~Done(waitsOn[c]), ~lastError'
        PROVE  applied' >= waitsOn[c]
    <3>1. waitsOn[c] = gen
      BY <1>old, <2>7
    <3>2. CASE applied' >= runsOn[l]
      BY <3>1, <3>2, <2>2
    <3>3. CASE ~lastError /\ applied' = applied /\ ~Finish(l)
      BY <3>3, <2>7, <2>1, LoopFrame
    <3>4. CASE Finish(l)
      <4>1. loop[l] = "finish" /\ UNCHANGED <<lastError, applied>>
        BY <3>4, <2>1, <1>0, RefreshFrame
      <4> QED BY <4>1, <3>1, <2>2, <2>7
    <3> QED BY <3>2, <3>3, <3>4, <2>1, <2>7, <1>0, RefreshFrame
  <2> QED BY <2>2, <2>5, <2>6, <2>7
<1>2. CASE \E c \in Callers : Poll(c)
  <2>1. PICK c \in Callers : Poll(c)
    BY <1>2
  <2>2. UNCHANGED <<canceled, loop, runsOn, applied, lastError>> /\ counted' \subseteq counted
    <3>1. UNCHANGED lastError
      BY <2>1 DEF Poll, Request, Refused, Ask, GiveUp, Answered, Leave, Return
    <3> QED BY <2>1, <3>1, PollFrame
  <2>3. \A d \in Callers \ {c} : waitsOn'[d] = waitsOn[d] /\ caller'[d] = caller[d]
    BY <2>1, <1>0, PollFrame DEF PlacesOK, GenerationsOK
  <2>4. caller'[c] # "update wait"
    BY <2>1, <1>0, PollFrame DEF PlacesOK
  <2>5. ASSUME caller'[c] = "update ok", ~Done(waitsOn'[c]) PROVE applied >= waitsOn'[c]
    <3>1. waitsOn' = waitsOn /\ c \in counted /\ caller[c] \in {"update wait", "update ok"}
      BY <2>1, <2>5, <1>0, PollFrame DEF PlacesOK
    <3>2. caller[c] = "update wait" => ~lastError
      BY <2>1, <2>5, <1>0
      DEF Poll, Request, Refused, Ask, GiveUp, Answered, Leave, Return, PlacesOK
    <3> QED BY <3>1, <3>2, <2>5
  <2> QED BY <2>2, <2>3, <2>4, <2>5
<1>3. CASE \E c \in Callers : BeginUpdate(c)
  <2>1. PICK c \in Callers : BeginUpdate(c)
    BY <1>3
  <2>2. /\ UNCHANGED <<loop, runsOn, applied, lastError>> /\ counted' = counted \ {c}
        /\ canceled \subseteq canceled'
    BY <2>1, BeginUpdateFacts DEF BeginUpdate
  <2>3. \A d \in Callers \ {c} : waitsOn'[d] = waitsOn[d] /\ caller'[d] = caller[d]
    BY <2>1, <1>0, BeginUpdateFacts DEF PlacesOK, GenerationsOK
  <2>4. caller'[c] \in {"update", "update wait"}
    BY <2>1, <1>0, BeginUpdateFacts DEF PlacesOK
  <2> QED BY <2>2, <2>3, <2>4
<1>4. CASE \E c \in Callers : Renew(c)
  <2>1. PICK c \in Callers : Renew(c)
    BY <1>4
  <2>2. /\ UNCHANGED <<loop, runsOn, applied, lastError, canceled, caller>>
        /\ counted' = counted \ {c} /\ waitsOn' = [waitsOn EXCEPT ![c] = gen'] /\ caller[c] = "update"
    BY <2>1, <1>0 DEF Renew, NewContext, Recount, loops, history, PlacesOK
  <2> QED BY <2>2, <1>0 DEF PlacesOK, GenerationsOK
<1>5. CASE \E c \in Callers : Serve(c)
  <2>1. PICK c \in Callers : Serve(c)
    BY <1>5
  <2>2. UNCHANGED <<canceled, counted, applied, lastError>> /\ c \notin counted
    BY <2>1, ServeFacts DEF Serve, Counts
  <2>3. \A d \in Callers \ {c} : waitsOn'[d] = waitsOn[d] /\ caller'[d] = caller[d]
    BY <2>1, <1>0, ServeFacts DEF PlacesOK, GenerationsOK
  <2>4. caller'[c] \in {"out", "update wait"}
    BY <2>1, <1>0, ServeFacts DEF PlacesOK
  <2>5. \A l \in Loops : loop'[l] = "finish" => loop[l] = "finish" /\ runsOn'[l] = runsOn[l]
    BY <2>1, <1>0, ServeFacts, SpawnFacts DEF GenerationsOK
  <2> QED BY <2>2, <2>3, <2>4, <2>5
<1>6. CASE JobEnds
  BY <1>6 DEF JobEnds, ctx, loops, clients, history
<1>12. CASE JobStarts
  BY <1>12 DEF JobStarts, ctx, loops, clients, history
<1>7. CASE Start
  <2>1. UNCHANGED <<canceled, counted, lastError, clients, applied>>
    BY <1>7 DEF Start, history
  <2>2. \A l \in Loops : loop'[l] = "finish" => loop[l] = "finish" /\ runsOn'[l] = runsOn[l]
    BY <1>7, <1>0, SpawnFacts DEF Start, loops, GenerationsOK
  <2> QED BY <2>1, <2>2 DEF clients
<1>8. CASE BeginStop
  BY <1>8 DEF BeginStop, Begin, loops, clients, history
<1>13. CASE BeginRestore
  BY <1>13 DEF BeginRestore, Begin, loops, clients, history
<1>9. CASE EndStop
  BY <1>9 DEF EndStop, ctx, loops, clients, history
<1>10. CASE Restore
  <2>1. UNCHANGED <<canceled, counted, lastError, clients, applied>>
    BY <1>10 DEF Restore, NewContext, history
  <2>2. \A l \in Loops : loop'[l] = "finish" => loop[l] = "finish" /\ runsOn'[l] = runsOn[l]
    BY <1>10, <1>0, SpawnFacts DEF Restore, loops, GenerationsOK
  <2> QED BY <2>1, <2>2 DEF clients
<1>11. CASE UNCHANGED vars
  BY <1>11 DEF vars, ctx, loops, clients, history
<1> QED
  BY <1>1, <1>2, <1>3, <1>4, <1>5, <1>6, <1>7, <1>8, <1>9, <1>10, <1>11, <1>12, <1>13
  DEF Next, CallerStep, Poll

LEMMA IInvStep == IInv /\ [Next]_vars => IInv'
  BY FlagsStep, PlacesStep, GenerationsStep, HeldStep, SingleStep, AliveStep,
     CountsStep, PassedStep, ProvenStep DEF IInv, TypeOK

\* The inductive invariant holds in every reachable state.
THEOREM Invariance == Spec => []IInv
  BY InitIInv, IInvStep, PTL DEF Spec

\* The manager's state is well formed, and a caller is in the middle of an
\* update exactly when he holds lifecycleMu.
THEOREM TypeCorrect == Spec => []TypeOK
<1>1. IInv => TypeOK
  BY DEF IInv
<1> QED BY <1>1, Invariance, PTL

\* stopLoopLocked always waits for the only goroutine there is, so no
\* interleaving of Start, Stop, updates and restores leaves two refreshing.
THEOREM LoopIsCurrentCorrect == Spec => []LoopIsCurrent
<1>1. IInv => LoopIsCurrent
  BY LoopsAssumption DEF IInv, LoopIsCurrent, TypeOK, PlacesOK, Single, Alive, Held
<1> QED BY <1>1, Invariance, PTL

\* After Stop has returned no goroutine refreshes any more.
THEOREM StoppedIsQuietCorrect == Spec => []StoppedIsQuiet
<1>1. IInv => StoppedIsQuiet
  BY LoopsAssumption DEF IInv, StoppedIsQuiet, TypeOK, PlacesOK, Single, Alive, Held
<1> QED BY <1>1, Invariance, PTL

\* UpdateConfigAndRefresh succeeds only after the end of a refresh of the
\* generation that its update made.
THEOREM GenerationIsCountedCorrect == Spec => []GenerationIsCounted
<1>1. IInv => GenerationIsCounted
  BY DEF IInv, GenerationIsCounted, Counts
<1> QED BY <1>1, Invariance, PTL

\* UpdateConfigAndRefresh succeeds only if a refresh of the generation of its
\* update has ended well, unless that generation is over by then.
THEOREM SuccessIsRealCorrect == Spec => []SuccessIsReal
<1>1. IInv => SuccessIsReal
  BY DEF IInv, SuccessIsReal, Proven
<1> QED BY <1>1, Invariance, PTL

\* The loop is the one that the settings and Stop allow.
THEOREM LoopIsOwnedCorrect == Spec => []LoopIsOwned
<1>1. LoopIsCurrent /\ StoppedIsQuiet => LoopIsOwned
  BY DEF LoopIsOwned
<1> QED BY <1>1, LoopIsCurrentCorrect, StoppedIsQuietCorrect, PTL
=============================================================================
