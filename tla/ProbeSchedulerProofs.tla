------------------------ MODULE ProbeSchedulerProofs ------------------------
(***************************************************************************)
(* Theorems about ProbeScheduler for every number of calls, keys, workers  *)
(* and slots: its types and executions, what Close answers, and then its   *)
(* books: slots, counters and the room in its channels; that no waiter is  *)
(* lost; and that it implements ProbeService.                              *)
(***************************************************************************)
EXTENDS ProbeScheduler, FiniteSetTheorems, TLAPS

-----------------------------------------------------------------------------
(* Type correctness.                                                       *)

\* What the channels give and take.
LEMMA ChannelType ==
    ASSUME NEW s \in Seq(Callers)
    PROVE  /\ s # <<>> => Head(s) \in Callers /\ Tail(s) \in Seq(Callers)
           /\ \A t \in Callers : Append(s, t) \in Seq(Callers)
  OBVIOUS

\* A worker past its receive holds a task.
LEMMA HandType ==
    ASSUME TypeOK, NEW w \in Workers, wpc[w] \in {"start", "exec", "finish", "requeue", "undo"}
    PROVE  hand[w] \in Callers
  BY DEF TypeOK

\* Attaching a call keeps the types.
LEMMA AttachType ==
    ASSUME TypeOK, NEW t \in Callers, NEW c \in Callers, NEW p \in Priorities, Attach(t, c, p)
    PROVE  /\ waiters' \in [Callers -> SUBSET Callers]
           /\ follow' \in [Callers -> SUBSET Callers]
           /\ nextLane' \in [Callers -> Priorities]
<1>1. CASE Late(t)
  <2>1. Higher(nextLane[t], p) \in Priorities
    BY DEF Higher, Priorities
  <2>2. /\ follow' = [follow EXCEPT ![t] = @ \cup {c}]
        /\ nextLane' = [nextLane EXCEPT ![t] = Higher(@, p)]
        /\ waiters' = waiters
    BY <1>1 DEF Attach
  <2>3. follow' \in [Callers -> SUBSET Callers]
    BY <2>2 DEF TypeOK
  <2>4. nextLane' \in [Callers -> Priorities]
    BY <2>1, <2>2 DEF TypeOK
  <2> QED BY <2>2, <2>3, <2>4 DEF TypeOK
<1>2. CASE ~Late(t)
  BY <1>2 DEF TypeOK, Attach
<1> QED BY <1>1, <1>2

\* Dropping a task keeps the types.
LEMMA ForgetType ==
    ASSUME TypeOK, NEW t \in Callers, Forget(t)
    PROVE  /\ table' \in [Keys -> Callers \cup {NoTask}]
           /\ waiters' \in [Callers -> SUBSET Callers]
           /\ follow' \in [Callers -> SUBSET Callers]
           /\ lane' \in [Callers -> Priorities]
           /\ nextLane' \in [Callers -> Priorities]
  BY DEF TypeOK, Forget, Priorities

\* Sending a task keeps the types.
LEMMA PushType ==
    ASSUME TypeOK, NEW t \in Callers, Push(t)
    PROVE  high' \in Seq(Callers) /\ normal' \in Seq(Callers)
  BY ChannelType DEF TypeOK, Push

\* Calls keep the types.
LEMMA CallType == ASSUME TypeOK, NEW c \in Callers, Call(c) PROVE TypeOK'
<1> USE CallersAssumption, CapacityAssumption DEF Goto, callVars, taskVars, chanVars, countVars, workVars
<1>1. CASE \E k \in Keys : Submit(c, k)
  BY <1>1 DEF TypeOK, Submit, CallerPC, Answers
<1>2. ASSUME NEW p \in Priorities, AttachExisting(c, p) PROVE TypeOK'
  <2>1. CASE Occupied(key[c])
    <3>1. table[key[c]] \in Callers /\ Attach(table[key[c]], c, p)
      BY <1>2, <2>1 DEF AttachExisting, Occupied, TypeOK
    <3> QED BY <1>2, <2>1, <3>1, AttachType DEF TypeOK, AttachExisting, CallerPC
  <2>2. CASE ~Occupied(key[c])
    BY <1>2, <2>2 DEF TypeOK, AttachExisting, CallerPC
  <2> QED BY <2>1, <2>2
<1>3. ASSUME NEW p \in Priorities, RegisterLate(c, p) PROVE TypeOK'
  <2>1. table[key[c]] \in Callers /\ Attach(table[key[c]], c, p)
    BY <1>3 DEF RegisterLate, Occupied, TypeOK
  <2> QED BY <1>3, <2>1, AttachType DEF TypeOK, RegisterLate, CallerPC, SlotsReturned
<1>4. ASSUME NEW p \in Priorities, Register(c, p) PROVE TypeOK'
  BY <1>4 DEF TypeOK, Register, CallerPC, Priorities
<1>5. CASE AcquireSlot(c)
  BY <1>5 DEF TypeOK, AcquireSlot, SlotFree, CallerPC
<1>6. CASE GiveUp(c)
  BY <1>6 DEF TypeOK, GiveUp, CallerPC
<1>7. CASE Enqueue(c)
  BY <1>7, PushType DEF TypeOK, Enqueue, CallerPC
<1>8. CASE EnqueueRefused(c)
  BY <1>8 DEF TypeOK, EnqueueRefused, CallerPC
<1>9. CASE UndoRegister(c)
  BY <1>9, ForgetType DEF TypeOK, UndoRegister, CallerPC, Dequeued, SlotsReturned
<1>10. CASE Receive(c)
  BY <1>10 DEF TypeOK, Receive, CallerPC, Answers
<1>11. CASE Cancel(c)
  BY <1>11 DEF TypeOK, Cancel
<1> QED BY <1>1, <1>2, <1>3, <1>4, <1>5, <1>6, <1>7, <1>8, <1>9, <1>10, <1>11 DEF Call

\* The workers keep the types: taking a task, running it, ending a round.
LEMMA WorkType == ASSUME TypeOK, NEW w \in Workers, Work(w) PROVE TypeOK'
<1> USE CallersAssumption, CapacityAssumption DEF Move, callVars, taskVars, chanVars, countVars, workVars
<1>1. CASE PollHigh(w)
  <2>1. CASE high = <<>>
    BY <1>1, <2>1 DEF TypeOK, PollHigh, WorkerPC
  <2>2. CASE high # <<>>
    BY ZenonT(40), <1>1, <2>2, ChannelType DEF TypeOK, PollHigh, Take, WorkerPC
  <2> QED BY <2>1, <2>2
<1>2. CASE SelectHigh(w)
  BY <1>2, ChannelType DEF TypeOK, SelectHigh, Take, WorkerPC
<1>3. CASE SelectNormal(w)
  BY <1>3, ChannelType DEF TypeOK, SelectNormal, Take, WorkerPC
<1>4. CASE SelectDone(w)
  BY <1>4 DEF TypeOK, SelectDone, WorkerPC
<1>5. CASE DropAbandoned(w)
  <2>1. hand[w] \in Callers
    BY <1>5, HandType DEF DropAbandoned
  <2> QED BY <1>5, <2>1, ForgetType DEF TypeOK, DropAbandoned, WorkerPC, Dequeued, SlotsReturned
<1>6. CASE Start(w)
  <2>1. hand[w] \in Callers
    BY <1>6, HandType DEF Start
  <2> QED BY <1>6, <2>1 DEF TypeOK, Start, Active, WorkerPC, Dequeued
<1>7. CASE Deliver(w)
  BY <1>7 DEF TypeOK, Deliver, Recipients, Answers, WorkerPC
<1>8. CASE Finish(w)
  <2>1. hand[w] \in Callers
    BY <1>8, HandType DEF Finish
  <2> QED BY <1>8, <2>1, ForgetType DEF TypeOK, Finish, WorkerPC, SlotsReturned
<1>9. CASE Prepare(w)
  <2>1. hand[w] \in Callers
    BY <1>9, HandType DEF Prepare
  <2>2. NextRound(hand[w]) \in SUBSET Callers
    BY <2>1 DEF NextRound, Active, TypeOK
  <2> QED BY <1>9, <2>1, <2>2 DEF TypeOK, Prepare, WorkerPC, Priorities
<1>10. CASE Requeue(w)
  <2>1. hand[w] \in Callers
    BY <1>10, HandType DEF Requeue
  <2> QED BY <1>10, <2>1, PushType DEF TypeOK, Requeue, WorkerPC
<1>11. CASE RequeueRefused(w)
  BY <1>11 DEF TypeOK, RequeueRefused, WorkerPC
<1>12. CASE UndoRequeue(w)
  <2>1. hand[w] \in Callers
    BY <1>12, HandType DEF UndoRequeue
  <2> QED BY <1>12, <2>1, ForgetType
           DEF TypeOK, UndoRequeue, Cancelled, Answers, WorkerPC, Dequeued, SlotsReturned
<1> QED BY <1>1, <1>2, <1>3, <1>4, <1>5, <1>6, <1>7, <1>8, <1>9, <1>10, <1>11, <1>12 DEF Work

(* Every variable keeps its type, and the slots in use never exceed the    *)
(* capacity newProbeScheduler was given.                                   *)
THEOREM TypeCorrect == Spec => []TypeOK
<1>1. Init => TypeOK
  BY CallersAssumption, CapacityAssumption DEF Init, TypeOK, CallerPC, WorkerPC, Answers, Priorities
<1>2. TypeOK /\ [Next]_vars => TypeOK'
  <2> SUFFICES ASSUME TypeOK, [Next]_vars PROVE TypeOK'
    OBVIOUS
  <2>1. CASE \E c \in Callers : Call(c)
    BY <2>1, CallType
  <2>2. CASE \E w \in Workers : Work(w)
    BY <2>2, WorkType
  <2>3. CASE BeginClose
    BY <2>3 DEF BeginClose, TypeOK, callVars, taskVars, chanVars, countVars, workVars
  <2>4. CASE Drain
    BY <2>4 DEF Drain, DrainAnswer, Cancelled, Answers, TypeOK, chanVars, countVars, workVars
  <2>5. CASE UNCHANGED vars
    BY <2>5 DEF vars, TypeOK, callVars, taskVars, chanVars, countVars, workVars
  <2> QED BY <2>1, <2>2, <2>3, <2>4, <2>5 DEF Next
<1> QED BY <1>1, <1>2, PTL DEF Spec

-----------------------------------------------------------------------------
(* Single flight.                                                          *)

\* Appending a new task and taking the oldest one, as sets.
LEMMA AppendMembers ==
    ASSUME NEW s \in Seq(Callers), NEW t \in Callers
    PROVE  /\ Members(Append(s, t)) = Members(s) \cup {t}
           /\ NoRepeat(s) /\ t \notin Members(s) => NoRepeat(Append(s, t))
  BY DEF Members, NoRepeat

LEMMA TailMembers ==
    ASSUME NEW s \in Seq(Callers), s # <<>>, NoRepeat(s)
    PROVE  /\ Head(s) \in Members(s)
           /\ Members(Tail(s)) = Members(s) \ {Head(s)}
           /\ NoRepeat(Tail(s))
<1>1. Len(s) \in Nat \ {0} /\ Head(s) = s[1] /\ Len(Tail(s)) = Len(s) - 1
  OBVIOUS
<1>2. \A i \in 1 .. Len(s) - 1 : Tail(s)[i] = s[i + 1]
  OBVIOUS
<1>3. Head(s) \in Members(s)
  BY <1>1 DEF Members
<1>4. ASSUME NEW x \in Members(Tail(s)) PROVE x \in Members(s) \ {Head(s)}
  BY <1>1, <1>2 DEF Members, NoRepeat
<1>5. ASSUME NEW x \in Members(s) \ {Head(s)} PROVE x \in Members(Tail(s))
  <2>1. PICK i \in 1 .. Len(s) : x = s[i]
    BY DEF Members
  <2>2. i - 1 \in 1 .. Len(s) - 1 /\ Tail(s)[i - 1] = x
    BY <1>1, <1>2, <1>5, <2>1
  <2> QED BY <1>1, <2>2 DEF Members
<1>6. NoRepeat(Tail(s))
  BY <1>1, <1>2 DEF NoRepeat
<1> QED BY <1>3, <1>4, <1>5, <1>6

\* Calls keep the inductive invariant.
LEMMA CallInductive == ASSUME Inductive, NEW c \in Callers, Call(c) PROVE Inductive'
<1> USE CallersAssumption DEF Inductive, Goto, callVars, taskVars, chanVars, countVars, workVars
<1>0. TypeOK'
  BY CallType
<1>1. CASE \E k \in Keys : Submit(c, k)
  <2>1. TaskInOnePlace'
    BY <1>1 DEF TypeOK, TaskInOnePlace, TableHasTasks, Queued, Held, Occupied, Submit, Unreferenced
  <2>2. TableHasTasks'
    BY <1>1 DEF TypeOK, TaskInOnePlace, TableHasTasks, Queued, Held, Occupied, Submit, Unreferenced
  <2>3. BusyIsExecuting'
    BY <1>1 DEF TypeOK, TaskInOnePlace, BusyIsExecuting, Executing, Submit, Unreferenced
  <2> QED BY <1>0, <2>1, <2>2, <2>3
<1>2. CASE \E p \in Priorities : AttachExisting(c, p)
  <2>1. TaskInOnePlace'
    BY <1>2 DEF TypeOK, TaskInOnePlace, TableHasTasks, Queued, Held, Occupied, AttachExisting, Attach
  <2>2. TableHasTasks'
    BY <1>2 DEF TypeOK, TaskInOnePlace, TableHasTasks, Queued, Held, Occupied, AttachExisting, Attach
  <2>3. BusyIsExecuting'
    BY <1>2 DEF TypeOK, TaskInOnePlace, BusyIsExecuting, Executing, AttachExisting, Attach
  <2> QED BY <1>0, <2>1, <2>2, <2>3
<1>3. CASE \E p \in Priorities : RegisterLate(c, p)
  <2>1. TaskInOnePlace'
    BY <1>3 DEF TypeOK, TaskInOnePlace, TableHasTasks, Queued, Held, Occupied, RegisterLate, Attach
  <2>2. TableHasTasks'
    BY <1>3 DEF TypeOK, TaskInOnePlace, TableHasTasks, Queued, Held, Occupied, RegisterLate, Attach
  <2>3. BusyIsExecuting'
    BY <1>3 DEF TypeOK, TaskInOnePlace, BusyIsExecuting, Executing, RegisterLate, Attach
  <2> QED BY <1>0, <2>1, <2>2, <2>3
<1>4. CASE \E p \in Priorities : Register(c, p)
  <2>1. TaskInOnePlace'
    BY <1>4 DEF TypeOK, TaskInOnePlace, TableHasTasks, Queued, Held, Occupied, Register
  <2>2. TableHasTasks'
    BY <1>4 DEF TypeOK, TaskInOnePlace, TableHasTasks, Queued, Held, Occupied, Register
  <2>3. BusyIsExecuting'
    BY <1>4 DEF TypeOK, TaskInOnePlace, BusyIsExecuting, Executing, Register
  <2> QED BY <1>0, <2>1, <2>2, <2>3
<1>5. CASE AcquireSlot(c)
  <2>1. TaskInOnePlace'
    BY <1>5 DEF TypeOK, TaskInOnePlace, TableHasTasks, Queued, Held, Occupied, AcquireSlot
  <2>2. TableHasTasks'
    BY <1>5 DEF TypeOK, TaskInOnePlace, TableHasTasks, Queued, Held, Occupied, AcquireSlot
  <2>3. BusyIsExecuting'
    BY <1>5 DEF TypeOK, TaskInOnePlace, BusyIsExecuting, Executing, AcquireSlot
  <2> QED BY <1>0, <2>1, <2>2, <2>3
<1>6. CASE GiveUp(c)
  <2>1. TaskInOnePlace'
    BY <1>6 DEF TypeOK, TaskInOnePlace, TableHasTasks, Queued, Held, Occupied, GiveUp
  <2>2. TableHasTasks'
    BY <1>6 DEF TypeOK, TaskInOnePlace, TableHasTasks, Queued, Held, Occupied, GiveUp
  <2>3. BusyIsExecuting'
    BY <1>6 DEF TypeOK, TaskInOnePlace, BusyIsExecuting, Executing, GiveUp
  <2> QED BY <1>0, <2>1, <2>2, <2>3
<1>7. CASE Enqueue(c)
  <2>0. /\ pc' = [pc EXCEPT ![c] = "waiting"] /\ pc[c] = "enqueue"
        /\ \A t \in Callers : Queued(t)' <=> Queued(t) \/ t = c
        /\ NoRepeat(high') /\ NoRepeat(normal') /\ Members(high') \cap Members(normal') = {}
        /\ UNCHANGED <<key, table, hand, wpc, closing>>
    <3>1. ~Queued(c)
      BY <1>7 DEF TaskInOnePlace, Enqueue
    <3>2. CASE high' = Append(high, c) /\ normal' = normal
      BY <1>7, <3>1, <3>2, AppendMembers DEF TypeOK, TaskInOnePlace, Queued, Enqueue
    <3>3. CASE normal' = Append(normal, c) /\ high' = high
      BY <1>7, <3>1, <3>3, AppendMembers DEF TypeOK, TaskInOnePlace, Queued, Enqueue
    <3> QED BY <1>7, <3>2, <3>3 DEF Enqueue, Push
  <2>1. TaskInOnePlace'
    <3>1. \A w \in Workers : hand[w] # NoTask => ~Queued(hand[w]) /\ hand[w] # c
      BY <1>7 DEF TypeOK, TaskInOnePlace, Enqueue, Held
    <3> QED BY <2>0, <3>1 DEF TypeOK, TaskInOnePlace, Held
  <2>2. TableHasTasks'
    BY <2>0 DEF TypeOK, TaskInOnePlace, TableHasTasks, Held, Occupied
  <2>3. BusyIsExecuting'
    BY <1>7, AppendMembers DEF TypeOK, TaskInOnePlace, BusyIsExecuting, Executing, Enqueue, Push
  <2> QED BY <1>0, <2>1, <2>2, <2>3
<1>8. CASE EnqueueRefused(c)
  <2>1. TaskInOnePlace'
    BY <1>8 DEF TypeOK, TaskInOnePlace, TableHasTasks, Queued, Held, Occupied, EnqueueRefused
  <2>2. TableHasTasks'
    BY <1>8 DEF TypeOK, TaskInOnePlace, TableHasTasks, Queued, Held, Occupied, EnqueueRefused
  <2>3. BusyIsExecuting'
    BY <1>8 DEF TypeOK, TaskInOnePlace, BusyIsExecuting, Executing, EnqueueRefused
  <2> QED BY <1>0, <2>1, <2>2, <2>3
<1>9. CASE UndoRegister(c)
  <2>1. TaskInOnePlace'
    BY <1>9 DEF TypeOK, TaskInOnePlace, TableHasTasks, Queued, Held, Occupied, UndoRegister, Forget
  <2>2. TableHasTasks'
    BY <1>9 DEF TypeOK, TaskInOnePlace, TableHasTasks, Queued, Held, Occupied, UndoRegister, Forget
  <2>3. BusyIsExecuting'
    BY <1>9 DEF TypeOK, TaskInOnePlace, BusyIsExecuting, Executing, UndoRegister, Forget
  <2> QED BY <1>0, <2>1, <2>2, <2>3
<1>10. CASE Receive(c)
  <2>1. TaskInOnePlace'
    BY <1>10 DEF TypeOK, TaskInOnePlace, TableHasTasks, Queued, Held, Occupied, Receive
  <2>2. TableHasTasks'
    BY <1>10 DEF TypeOK, TaskInOnePlace, TableHasTasks, Queued, Held, Occupied, Receive
  <2>3. BusyIsExecuting'
    BY <1>10 DEF TypeOK, TaskInOnePlace, BusyIsExecuting, Executing, Receive
  <2> QED BY <1>0, <2>1, <2>2, <2>3
<1>11. CASE Cancel(c)
  <2>1. TaskInOnePlace'
    BY <1>11 DEF TypeOK, TaskInOnePlace, TableHasTasks, Queued, Held, Occupied, Cancel
  <2>2. TableHasTasks'
    BY <1>11 DEF TypeOK, TaskInOnePlace, TableHasTasks, Queued, Held, Occupied, Cancel
  <2>3. BusyIsExecuting'
    BY <1>11 DEF TypeOK, TaskInOnePlace, BusyIsExecuting, Executing, Cancel
  <2> QED BY <1>0, <2>1, <2>2, <2>3
<1> QED BY <1>1, <1>2, <1>3, <1>4, <1>5, <1>6, <1>7, <1>8, <1>9, <1>10, <1>11 DEF Call


\* Workers keep the inductive invariant.
LEMMA WorkInductive == ASSUME Inductive, NEW w \in Workers, Work(w) PROVE Inductive'
<1> USE CallersAssumption DEF Inductive, Move, callVars, taskVars, chanVars, countVars, workVars
<1>0. TypeOK'
  BY WorkType
<1>1. CASE PollHigh(w)
  <2>1. CASE high = <<>>
    <3>1. TaskInOnePlace'
      BY <1>1, <2>1 DEF TypeOK, TaskInOnePlace, TableHasTasks, Queued, Held, Occupied, PollHigh
    <3>2. TableHasTasks'
      BY <1>1, <2>1 DEF TypeOK, TaskInOnePlace, TableHasTasks, Queued, Held, Occupied, PollHigh
    <3>3. BusyIsExecuting'
      BY <1>1, <2>1 DEF TypeOK, TaskInOnePlace, BusyIsExecuting, Executing, PollHigh
    <3> QED BY <1>0, <3>1, <3>2, <3>3
  <2>2. CASE high # <<>>
    <3> DEFINE t == Head(high)
    <3>0. /\ hand' = [hand EXCEPT ![w] = t] /\ wpc' = [wpc EXCEPT ![w] = "start"]
          /\ wpc[w] = "poll" /\ high' = Tail(high)
          /\ UNCHANGED <<pc, key, table, normal, closing>>
      BY <1>1, <2>2 DEF PollHigh, Take
    <3>1. /\ t \in Members(high) /\ t \in Callers
          /\ Members(high') = Members(high) \ {t} /\ NoRepeat(high')
      BY <2>2, <3>0, TailMembers, ChannelType DEF TypeOK, TaskInOnePlace
    <3>2. TaskInOnePlace'
      BY <3>0, <3>1 DEF TypeOK, TaskInOnePlace, Queued, Held
    <3>3. TableHasTasks'
      BY <3>0, <3>1 DEF TypeOK, TaskInOnePlace, TableHasTasks, Queued, Held, Occupied
    <3>4. BusyIsExecuting'
      <4>1. busy' = busy /\ hand[w] = NoTask
        BY <1>1, <3>0 DEF PollHigh, TypeOK
      <4> QED BY <3>0, <3>1, <4>1 DEF TypeOK, BusyIsExecuting, Executing
    <3> QED BY <1>0, <3>2, <3>3, <3>4
  <2> QED BY <2>1, <2>2
<1>2. CASE SelectHigh(w)
  <2>1. TaskInOnePlace'
    BY <1>2, TailMembers DEF TypeOK, TaskInOnePlace, TableHasTasks, Queued, Held, Occupied, SelectHigh, Take
  <2>2. TableHasTasks'
    BY <1>2, TailMembers DEF TypeOK, TaskInOnePlace, TableHasTasks, Queued, Held, Occupied, SelectHigh, Take
  <2>3. BusyIsExecuting'
    BY <1>2, TailMembers DEF TypeOK, TaskInOnePlace, BusyIsExecuting, Executing, SelectHigh, Take
  <2> QED BY <1>0, <2>1, <2>2, <2>3
<1>3. CASE SelectNormal(w)
  <2>1. TaskInOnePlace'
    BY <1>3, TailMembers DEF TypeOK, TaskInOnePlace, TableHasTasks, Queued, Held, Occupied, SelectNormal, Take
  <2>2. TableHasTasks'
    BY <1>3, TailMembers DEF TypeOK, TaskInOnePlace, TableHasTasks, Queued, Held, Occupied, SelectNormal, Take
  <2>3. BusyIsExecuting'
    BY <1>3, TailMembers DEF TypeOK, TaskInOnePlace, BusyIsExecuting, Executing, SelectNormal, Take
  <2> QED BY <1>0, <2>1, <2>2, <2>3
<1>4. CASE SelectDone(w)
  <2>1. TaskInOnePlace'
    BY <1>4 DEF TypeOK, TaskInOnePlace, TableHasTasks, Queued, Held, Occupied, SelectDone
  <2>2. TableHasTasks'
    BY <1>4 DEF TypeOK, TaskInOnePlace, TableHasTasks, Queued, Held, Occupied, SelectDone
  <2>3. BusyIsExecuting'
    BY <1>4 DEF TypeOK, TaskInOnePlace, BusyIsExecuting, Executing, SelectDone
  <2> QED BY <1>0, <2>1, <2>2, <2>3
<1>5. CASE DropAbandoned(w)
  <2>1. TaskInOnePlace'
    BY <1>5 DEF TypeOK, TaskInOnePlace, TableHasTasks, Queued, Held, Occupied, DropAbandoned, Forget
  <2>2. TableHasTasks'
    BY <1>5 DEF TypeOK, TaskInOnePlace, TableHasTasks, Queued, Held, Occupied, DropAbandoned, Forget
  <2>3. BusyIsExecuting'
    BY <1>5 DEF TypeOK, TaskInOnePlace, BusyIsExecuting, Executing, DropAbandoned, Forget
  <2> QED BY <1>0, <2>1, <2>2, <2>3
<1>6. CASE Start(w)
  <2>1. TaskInOnePlace'
    BY <1>6 DEF TypeOK, TaskInOnePlace, TableHasTasks, Queued, Held, Occupied, Start
  <2>2. TableHasTasks'
    BY <1>6 DEF TypeOK, TaskInOnePlace, TableHasTasks, Queued, Held, Occupied, Start
  <2>3. BusyIsExecuting'
    BY <1>6 DEF TypeOK, TaskInOnePlace, BusyIsExecuting, Executing, Start
  <2> QED BY <1>0, <2>1, <2>2, <2>3
<1>7. CASE Deliver(w)
  <2>1. TaskInOnePlace'
    BY <1>7 DEF TypeOK, TaskInOnePlace, TableHasTasks, Queued, Held, Occupied, Deliver
  <2>2. TableHasTasks'
    BY <1>7 DEF TypeOK, TaskInOnePlace, TableHasTasks, Queued, Held, Occupied, Deliver
  <2>3. BusyIsExecuting'
    BY <1>7 DEF TypeOK, TaskInOnePlace, BusyIsExecuting, Executing, Deliver
  <2> QED BY <1>0, <2>1, <2>2, <2>3
<1>8. CASE Finish(w)
  <2>1. TaskInOnePlace'
    BY <1>8 DEF TypeOK, TaskInOnePlace, TableHasTasks, Queued, Held, Occupied, Finish, Forget
  <2>2. TableHasTasks'
    BY <1>8 DEF TypeOK, TaskInOnePlace, TableHasTasks, Queued, Held, Occupied, Finish, Forget
  <2>3. BusyIsExecuting'
    BY <1>8 DEF TypeOK, TaskInOnePlace, BusyIsExecuting, Executing, Finish, Forget
  <2> QED BY <1>0, <2>1, <2>2, <2>3
<1>9. CASE Prepare(w)
  <2>1. TaskInOnePlace'
    BY <1>9 DEF TypeOK, TaskInOnePlace, TableHasTasks, Queued, Held, Occupied, Prepare
  <2>2. TableHasTasks'
    BY <1>9 DEF TypeOK, TaskInOnePlace, TableHasTasks, Queued, Held, Occupied, Prepare
  <2>3. BusyIsExecuting'
    BY <1>9 DEF TypeOK, TaskInOnePlace, BusyIsExecuting, Executing, Prepare
  <2> QED BY <1>0, <2>1, <2>2, <2>3
<1>10. CASE Requeue(w)
  <2> DEFINE t == hand[w]
  <2>0. /\ hand' = [hand EXCEPT ![w] = NoTask] /\ t \in Callers
        /\ \A u \in Callers : Queued(u)' <=> Queued(u) \/ u = t
        /\ NoRepeat(high') /\ NoRepeat(normal') /\ Members(high') \cap Members(normal') = {}
        /\ UNCHANGED <<pc, key, table, closing>>
    <3>1. t \in Callers /\ ~Queued(t)
      BY <1>10, HandType DEF TaskInOnePlace, Requeue
    <3>2. CASE high' = Append(high, t) /\ normal' = normal
      BY <1>10, <3>1, <3>2, AppendMembers DEF TypeOK, TaskInOnePlace, Queued, Requeue
    <3>3. CASE normal' = Append(normal, t) /\ high' = high
      BY <1>10, <3>1, <3>3, AppendMembers DEF TypeOK, TaskInOnePlace, Queued, Requeue
    <3> QED BY <1>10, <3>1, <3>2, <3>3 DEF Requeue, Push
  <2>1. TaskInOnePlace'
    BY <1>10, <2>0 DEF TypeOK, TaskInOnePlace, TableHasTasks, Held, Occupied, Requeue
  <2>2. TableHasTasks'
    BY <1>10, <2>0 DEF TypeOK, TaskInOnePlace, TableHasTasks, Held, Occupied, Requeue
  <2>3. BusyIsExecuting'
    BY <1>10, AppendMembers DEF TypeOK, TaskInOnePlace, BusyIsExecuting, Executing, Requeue, Push
  <2> QED BY <1>0, <2>1, <2>2, <2>3
<1>11. CASE RequeueRefused(w)
  <2>1. TaskInOnePlace'
    BY <1>11 DEF TypeOK, TaskInOnePlace, TableHasTasks, Queued, Held, Occupied, RequeueRefused
  <2>2. TableHasTasks'
    BY <1>11 DEF TypeOK, TaskInOnePlace, TableHasTasks, Queued, Held, Occupied, RequeueRefused
  <2>3. BusyIsExecuting'
    BY <1>11 DEF TypeOK, TaskInOnePlace, BusyIsExecuting, Executing, RequeueRefused
  <2> QED BY <1>0, <2>1, <2>2, <2>3
<1>12. CASE UndoRequeue(w)
  <2>1. TaskInOnePlace'
    BY <1>12 DEF TypeOK, TaskInOnePlace, TableHasTasks, Queued, Held, Occupied, UndoRequeue, Forget
  <2>2. TableHasTasks'
    BY SMTT(30), <1>12 DEF TypeOK, TaskInOnePlace, TableHasTasks, Queued, Held, Occupied, UndoRequeue, Forget
  <2>3. BusyIsExecuting'
    BY <1>12 DEF TypeOK, TaskInOnePlace, BusyIsExecuting, Executing, UndoRequeue, Forget
  <2> QED BY <1>0, <2>1, <2>2, <2>3
<1> QED BY <1>1, <1>2, <1>3, <1>4, <1>5, <1>6, <1>7, <1>8, <1>9, <1>10, <1>11, <1>12 DEF Work

\* Close keeps the inductive invariant.
LEMMA CloseInductive == ASSUME Inductive, BeginClose \/ Drain PROVE Inductive'
<1> USE CallersAssumption DEF Inductive, callVars, taskVars, chanVars, countVars, workVars
<1>1. CASE BeginClose
  BY <1>1 DEF BeginClose, Closed, TypeOK, TaskInOnePlace, TableHasTasks, BusyIsExecuting,
              Queued, Held, Occupied, Executing
<1>2. CASE Drain
  BY <1>2 DEF Drain, DrainAnswer, Cancelled, Answers, TypeOK, TaskInOnePlace, TableHasTasks,
              BusyIsExecuting, Queued, Held, Occupied, Executing
<1> QED BY <1>1, <1>2

LEMMA InitInductive == ASSUME Init PROVE Inductive
<1>1. TypeOK
  BY CallersAssumption, CapacityAssumption DEF Init, TypeOK, CallerPC, WorkerPC, Answers, Priorities
<1>2. Members(<<>>) = {} /\ NoRepeat(<<>>)
  BY DEF Members, NoRepeat
<1> QED BY <1>1, <1>2 DEF Init, Inductive, TaskInOnePlace, TableHasTasks, BusyIsExecuting,
                          Queued, Held, Occupied, Executing

LEMMA StepInductive == ASSUME Inductive, [Next]_vars PROVE Inductive'
<1>1. CASE UNCHANGED vars
  BY <1>1 DEF vars, callVars, taskVars, chanVars, countVars, workVars, Inductive, TypeOK,
              TaskInOnePlace, TableHasTasks, BusyIsExecuting, Queued, Held, Occupied, Executing
<1> QED BY <1>1, CallInductive, WorkInductive, CloseInductive DEF Next

(* The inductive invariant holds throughout: a registered task is in one   *)
(* place, a channel or a worker's hand, and the busy ones are executing.   *)
THEOREM InductiveCorrect == Spec => []Inductive
<1>1. Init => Inductive
  BY InitInductive
<1>2. Inductive /\ [Next]_vars => Inductive'
  BY StepInductive
<1> QED BY <1>1, <1>2, PTL DEF Spec

(* Two workers never probe the same key at the same time.  The task being  *)
(* executed is the one the table has for its key (TableHasTasks) and is in *)
(* one worker's hand only (TaskInOnePlace).                                *)
THEOREM SingleFlightCorrect == Spec => []SingleFlight
<1>1. Inductive => SingleFlight
  BY SMTT(30), CallersAssumption DEF Inductive, TypeOK, TaskInOnePlace, TableHasTasks, SingleFlight, Executing, Held
<1> QED BY <1>1, InductiveCorrect, PTL

(* The early return at the top of run is unreachable.                      *)
THEOREM HandIsKnownCorrect == Spec => []HandIsKnown
<1>1. Inductive => HandIsKnown
  <2> SUFFICES ASSUME Inductive, NEW w \in Workers, wpc[w] = "start"
               PROVE  table[key[hand[w]]] = hand[w] /\ hand[w] \notin busy
    BY DEF HandIsKnown
  <2>1. hand[w] \in Callers /\ Held(hand[w]) /\ closing # "drained"
    BY HandType DEF Inductive, Held, TableHasTasks
  <2>2. \A v \in Workers : hand[v] = hand[w] => v = w
    BY <2>1, CallersAssumption DEF Inductive, TaskInOnePlace
  <2> QED BY <2>1, <2>2 DEF Inductive, TableHasTasks, BusyIsExecuting, Executing
<1> QED BY <1>1, InductiveCorrect, PTL

(* Close answers whoever is attached to a task when it drains the table,   *)
(* and nobody else's answer is taken back.                                 *)
THEOREM DrainAnswersCorrect == Spec => DrainAnswers
<1>1. TypeOK /\ [Next]_vars =>
        [closing' = "drained" /\ closing = "cancelled" =>
            \A t \in Known : \A c \in Attached(t) : answer'[c] # "none"]_vars
  <2> SUFFICES ASSUME TypeOK, [Next]_vars, closing' = "drained", closing = "cancelled",
                      NEW t \in Known, NEW c \in Attached(t)
               PROVE  answer'[c] # "none"
    OBVIOUS
  <2>1. Drain
    BY DEF Next, Call, Work, Submit, AttachExisting, RegisterLate, Register, AcquireSlot, GiveUp, Enqueue,
           EnqueueRefused, UndoRegister, Receive, Cancel, PollHigh, SelectHigh, SelectNormal, SelectDone,
           DropAbandoned, Start, Deliver, Finish, Prepare, Requeue, RequeueRefused, UndoRequeue, BeginClose, vars
  <2>2. t \in Callers
    BY DEF Known, TypeOK
  <2>3. c \in Callers
    BY <2>2 DEF Attached, TypeOK
  <2>4. c \in UNION {Attached(u) : u \in Known}
    OBVIOUS
  <2> QED BY <2>1, <2>3, <2>4 DEF Drain, DrainAnswer, Cancelled, TypeOK
<1> QED BY <1>1, TypeCorrect, PTL DEF Spec, DrainAnswers

-----------------------------------------------------------------------------
(* The books of the scheduler.                                             *)

\* The tasks under way, those that nobody executes, and the calls between
\* their slot and their registration.
Pending(t) == Queued(t) \/ Held(t) \/ pc[t] \in {"enqueue", "undo"}
Due        == {t \in Callers : Pending(t) /\ t \notin busy}
Entering   == {c \in Callers : pc[c] = "register"}

\* The books: queued counts the tasks that wait, running those that are
\* executed, and a slot is held by each of them and by each call that enters.
Accounts ==
    /\ queued = Cardinality(Due)
    /\ running = Cardinality(busy)
    /\ slots = queued + running + Cardinality(Entering)

\* The table has no task that is not under way.
Listed == \A k \in Keys : Occupied(k) => Pending(table[k])

Books == Inductive /\ Accounts /\ Listed

-----------------------------------------------------------------------------
\* A call that waits: it is attached, has no answer, and its context is alive.
Open(c) == pc[c] = "waiting" /\ c \notin cancelled /\ answer[c] = "none"

\* A call that enters is attached nowhere, one that enqueues a task to that task
\* alone, and a task has follow-ups only while it runs.
AttachedInTurn ==
    /\ \A c, t \in Callers : c \in Attached(t) =>
           pc[c] \notin {"attach", "slot", "register"} /\ (pc[c] = "enqueue" => t = c)
    /\ \A t \in Callers : follow[t] # {} => t \in busy

\* The waiters of a task that is executed are in the batch of its worker, and
\* have their answer when the execution is over.
WaitersInBatch ==
    \A w \in Workers :
        /\ wpc[w] = "exec" => \A c \in waiters[hand[w]] : Open(c) => c \in batch[w]
        /\ wpc[w] = "finish" => \A c \in waiters[hand[w]] : ~Open(c)

\* A task is taken back only when the scheduler closes.
UndoneWhenClosed ==
    /\ \A c \in Callers : pc[c] = "undo" => Closed
    /\ \A w \in Workers : wpc[w] = "undo" => Closed

Attended == Inductive /\ AttachedInTurn /\ WaitersInBatch /\ UndoneWhenClosed /\ NoWaiterLost

-----------------------------------------------------------------------------
(* The books.                                                              *)

LEMMA Finite ==
    ASSUME TypeOK
    PROVE  /\ IsFiniteSet(Due) /\ IsFiniteSet(busy) /\ IsFiniteSet(Entering)
           /\ Cardinality(Due) \in Nat /\ Cardinality(busy) \in Nat /\ Cardinality(Entering) \in Nat
<1>1. Due \in SUBSET Callers /\ busy \in SUBSET Callers /\ Entering \in SUBSET Callers
  BY DEF Due, Entering, TypeOK
<1>2. IsFiniteSet(Due) /\ IsFiniteSet(busy) /\ IsFiniteSet(Entering)
  BY <1>1, CallersAssumption, FS_Subset
<1> QED BY <1>2, FS_CardinalityType

\* The task in a worker's hand is nowhere else, and it is busy exactly while it
\* is executed.
LEMMA InHand ==
    ASSUME Inductive, NEW w \in Workers, wpc[w] \in {"start", "exec", "finish", "requeue", "undo"}
    PROVE  /\ hand[w] \in Callers /\ Held(hand[w]) /\ ~Queued(hand[w])
           /\ pc[hand[w]] \notin {"attach", "slot", "register", "enqueue", "undo"}
           /\ \A v \in Workers : hand[v] = hand[w] => v = w
           /\ hand[w] \in busy <=> wpc[w] \in {"exec", "finish"}
           /\ \A k \in Keys : table[k] = hand[w] => key[hand[w]] = k
<1>1. hand[w] \in Callers /\ hand[w] # NoTask
  BY HandType, CallersAssumption DEF Inductive
<1>2. \A v \in Workers : hand[v] = hand[w] => v = w
  BY <1>1 DEF Inductive, TaskInOnePlace
<1>3. Held(hand[w]) /\ ~Queued(hand[w])
  BY <1>1 DEF Inductive, TaskInOnePlace, Held
<1>4. pc[hand[w]] \notin {"attach", "slot", "register", "enqueue", "undo"}
  BY <1>1, <1>3 DEF Inductive, TaskInOnePlace
<1>5. hand[w] \in busy <=> wpc[w] \in {"exec", "finish"}
  BY <1>1, <1>2 DEF Inductive, BusyIsExecuting, Executing
<1>6. \A k \in Keys : table[k] = hand[w] => key[hand[w]] = k
  BY <1>1 DEF Inductive, TableHasTasks, Occupied
<1> QED BY <1>1, <1>2, <1>3, <1>4, <1>5, <1>6

\* A step that moves no task and no call in or out of the books.
LEMMA BooksKept ==
    ASSUME Accounts, Due' = Due, busy' = busy, Entering' = Entering, queued' = queued, running' = running, slots' = slots
    PROVE  Accounts'
  BY DEF Accounts

\* A send puts the task into one of the channels.
LEMMA PushQueues ==
    ASSUME TypeOK, NEW t \in Callers, Push(t)
    PROVE  \A u \in Callers : Queued(u)' <=> Queued(u) \/ u = t
<1>1. CASE high' = Append(high, t) /\ normal' = normal
  BY <1>1, AppendMembers DEF Queued, TypeOK
<1>2. CASE normal' = Append(normal, t) /\ high' = high
  BY <1>2, AppendMembers DEF Queued, TypeOK
<1> QED BY <1>1, <1>2 DEF Push

\* Calls keep the books.
LEMMA CallBooks == ASSUME Books, NEW c \in Callers, Call(c) PROVE Accounts' /\ Listed'
<1> USE CallersAssumption DEF Books, Inductive, Goto, callVars, taskVars, chanVars, countVars, workVars
<1>0. /\ IsFiniteSet(Due) /\ IsFiniteSet(busy) /\ IsFiniteSet(Entering)
      /\ Cardinality(Due) \in Nat /\ Cardinality(busy) \in Nat /\ Cardinality(Entering) \in Nat
  BY Finite
<1>1. CASE \E k \in Keys : Submit(c, k)
  <2>1. Due' = Due /\ Entering' = Entering
    BY <1>1 DEF Submit, Due, Entering, Pending, Queued, Held, TypeOK
  <2>2. Accounts'
    BY <1>1, <2>1, BooksKept DEF Submit
  <2>3. Listed'
    BY <1>1 DEF Submit, Listed, Occupied, Pending, Queued, Held, TypeOK
  <2> QED BY <2>2, <2>3
<1>2. CASE \E p \in Priorities : AttachExisting(c, p)
  <2>1. Due' = Due /\ Entering' = Entering
    BY <1>2 DEF AttachExisting, Due, Entering, Pending, Queued, Held, TypeOK
  <2>2. Accounts'
    BY <1>2, <2>1, BooksKept DEF AttachExisting
  <2>3. Listed'
    BY <1>2 DEF AttachExisting, Listed, Occupied, Pending, Queued, Held, TypeOK
  <2> QED BY <2>2, <2>3
<1>3. CASE \E p \in Priorities : RegisterLate(c, p)
  <2>1. Due' = Due /\ Entering' = Entering \ {c} /\ c \in Entering
    BY <1>3 DEF RegisterLate, Due, Entering, Pending, Queued, Held, TypeOK
  <2>2. Accounts'
    <3>1. Cardinality(Entering') = Cardinality(Entering) - 1
      BY <1>0, <2>1, FS_RemoveElement
    <3> QED BY <1>0, <1>3, <2>1, <3>1 DEF RegisterLate, Accounts, SlotsReturned
  <2>3. Listed'
    BY <1>3 DEF RegisterLate, Listed, Occupied, Pending, Queued, Held, TypeOK
  <2> QED BY <2>2, <2>3
<1>4. CASE \E p \in Priorities : Register(c, p)
  <2>1. c \notin busy /\ c \notin Due
    BY <1>4 DEF Register, Due, Pending, TaskInOnePlace, BusyIsExecuting, Held
  <2>2. Due' = Due \cup {c} /\ Entering' = Entering \ {c} /\ c \in Entering
    BY <1>4, <2>1 DEF Register, Due, Entering, Pending, Queued, Held, TypeOK
  <2>3. Accounts'
    <3>1. Cardinality(Due') = Cardinality(Due) + 1
      BY <1>0, <2>1, <2>2, FS_AddElement
    <3>2. Cardinality(Entering') = Cardinality(Entering) - 1
      BY <1>0, <2>2, FS_RemoveElement
    <3> QED BY <1>0, <1>4, <3>1, <3>2 DEF Register, Accounts
  <2>4. Listed'
    BY <1>4 DEF Register, Listed, Occupied, Pending, Queued, Held, TypeOK
  <2> QED BY <2>3, <2>4
<1>5. CASE AcquireSlot(c)
  <2>1. Due' = Due /\ Entering' = Entering \cup {c} /\ c \notin Entering
    BY <1>5 DEF AcquireSlot, Due, Entering, Pending, Queued, Held, TypeOK
  <2>2. Accounts'
    <3>1. Cardinality(Entering') = Cardinality(Entering) + 1
      BY <1>0, <2>1, FS_AddElement
    <3> QED BY <1>0, <1>5, <2>1, <3>1 DEF AcquireSlot, Accounts
  <2>3. Listed'
    BY <1>5 DEF AcquireSlot, Listed, Occupied, Pending, Queued, Held, TypeOK
  <2> QED BY <2>2, <2>3
<1>6. CASE GiveUp(c)
  <2>1. Due' = Due /\ Entering' = Entering
    BY <1>6 DEF GiveUp, Due, Entering, Pending, Queued, Held, TypeOK
  <2>2. Accounts'
    BY <1>6, <2>1, BooksKept DEF GiveUp
  <2>3. Listed'
    BY <1>6 DEF GiveUp, Listed, Occupied, Pending, Queued, Held, TypeOK
  <2> QED BY <2>2, <2>3
<1>7. CASE Enqueue(c)
  <2>1. \A t \in Callers : Queued(t)' <=> Queued(t) \/ t = c
    BY <1>7, PushQueues DEF Enqueue
  <2>2. \A t \in Callers : Pending(t)' <=> Pending(t)
    BY <1>7, <2>1 DEF Enqueue, Pending, Held, TypeOK
  <2>3. Due' = Due /\ Entering' = Entering
    BY <1>7, <2>2 DEF Enqueue, Due, Entering, TypeOK
  <2>4. Accounts'
    BY <1>7, <2>3, BooksKept DEF Enqueue, Push
  <2>5. Listed'
    BY <1>7, <2>2 DEF Enqueue, Listed, Occupied, TypeOK
  <2> QED BY <2>4, <2>5
<1>8. CASE EnqueueRefused(c)
  <2>1. Due' = Due /\ Entering' = Entering
    BY <1>8 DEF EnqueueRefused, Due, Entering, Pending, Queued, Held, TypeOK
  <2>2. Accounts'
    BY <1>8, <2>1, BooksKept DEF EnqueueRefused
  <2>3. Listed'
    BY <1>8 DEF EnqueueRefused, Listed, Occupied, Pending, Queued, Held, TypeOK
  <2> QED BY <2>2, <2>3
<1>9. CASE UndoRegister(c)
  <2>1. c \notin busy /\ c \in Due /\ ~Queued(c) /\ ~Held(c)
    BY <1>9 DEF UndoRegister, Due, Pending, TaskInOnePlace, BusyIsExecuting, Held
  <2>2. Due' = Due \ {c} /\ Entering' = Entering
    BY <1>9, <2>1 DEF UndoRegister, Due, Entering, Pending, Queued, Held, TypeOK
  <2>3. Accounts'
    <3>1. Cardinality(Due') = Cardinality(Due) - 1
      BY <1>0, <2>1, <2>2, FS_RemoveElement
    <3> QED BY <1>0, <1>9, <2>2, <3>1 DEF UndoRegister, Accounts, Dequeued, SlotsReturned
  <2>4. \A k \in Keys : Occupied(k)' => table'[k] = table[k] /\ Occupied(k) /\ table[k] # c
    BY <1>9 DEF UndoRegister, Forget, Occupied, TableHasTasks, TypeOK
  <2>5. Listed'
    BY <1>9, <2>4 DEF UndoRegister, Listed, Pending, Queued, Held, TypeOK, Occupied
  <2> QED BY <2>3, <2>5
<1>10. CASE Receive(c)
  <2>1. Due' = Due /\ Entering' = Entering
    BY <1>10 DEF Receive, Due, Entering, Pending, Queued, Held, TypeOK
  <2>2. Accounts'
    BY <1>10, <2>1, BooksKept DEF Receive
  <2>3. Listed'
    BY <1>10 DEF Receive, Listed, Occupied, Pending, Queued, Held, TypeOK
  <2> QED BY <2>2, <2>3
<1>11. CASE Cancel(c)
  <2>1. Due' = Due /\ Entering' = Entering
    BY <1>11 DEF Cancel, Due, Entering, Pending, Queued, Held
  <2> QED BY <1>11, <2>1 DEF Cancel, Accounts, Listed, Occupied, Pending, Queued, Held
<1> QED BY <1>1, <1>2, <1>3, <1>4, <1>5, <1>6, <1>7, <1>8, <1>9, <1>10, <1>11 DEF Call

\* A worker's receive: the task goes from the channel into its hand.
LEMMA TakeBooks ==
    ASSUME Books, NEW w \in Workers, hand[w] = NoTask,
           NEW t \in Callers, hand' = [hand EXCEPT ![w] = t],
           \A u \in Callers : Queued(u)' \/ u = t <=> Queued(u),
           pc' = pc, table' = table, busy' = busy, countVars' = countVars, slots' = slots
    PROVE  Accounts' /\ Listed'
<1> USE CallersAssumption DEF Books, Inductive
<1>1. \A u \in Callers : Pending(u)' <=> Pending(u)
  BY DEF Pending, Held, TypeOK
<1>2. Due' = Due /\ Entering' = Entering
  BY <1>1 DEF Due, Entering
<1>3. Accounts'
  BY <1>2, BooksKept DEF countVars
<1>4. Listed'
  BY <1>1 DEF Listed, Occupied, TypeOK
<1> QED BY <1>3, <1>4

\* Workers keep the books.
LEMMA WorkBooks == ASSUME Books, NEW w \in Workers, Work(w) PROVE Accounts' /\ Listed'
<1> DEFINE t == hand[w]
<1> USE CallersAssumption DEF Books, Inductive, Move, callVars, taskVars, chanVars, countVars, workVars
<1>0. /\ IsFiniteSet(Due) /\ IsFiniteSet(busy) /\ IsFiniteSet(Entering)
      /\ Cardinality(Due) \in Nat /\ Cardinality(busy) \in Nat /\ Cardinality(Entering) \in Nat
  BY Finite
<1>1. ASSUME high # <<>>, Take(w, Head(high)), high' = Tail(high), wpc[w] \in {"poll", "select"},
             UNCHANGED <<callVars, taskVars, normal, slots, countVars, batch, closing>>
      PROVE  Accounts' /\ Listed'
  <2>1. Head(high) \in Callers /\ hand[w] = NoTask
    BY <1>1, ChannelType DEF TypeOK
  <2>2. \A u \in Callers : Queued(u)' \/ u = Head(high) <=> Queued(u)
    BY <1>1, TailMembers DEF Queued, TaskInOnePlace, TypeOK
  <2> QED BY <1>1, <2>1, <2>2, TakeBooks DEF Take
<1>2. CASE PollHigh(w)
  <2>1. CASE high = <<>>
    <3>1. Due' = Due /\ Entering' = Entering
      BY <1>2, <2>1 DEF PollHigh, Due, Entering, Pending, Queued, Held
    <3> QED BY <1>2, <2>1, <3>1 DEF PollHigh, Accounts, Listed, Occupied, Pending, Queued, Held
  <2>2. CASE high # <<>>
    BY <1>1, <1>2, <2>2 DEF PollHigh
  <2> QED BY <2>1, <2>2
<1>3. CASE SelectHigh(w)
  BY <1>1, <1>3 DEF SelectHigh
<1>4. CASE SelectNormal(w)
  <2>1. Head(normal) \in Callers /\ hand[w] = NoTask
    BY <1>4, ChannelType DEF SelectNormal, TypeOK
  <2>2. \A u \in Callers : Queued(u)' \/ u = Head(normal) <=> Queued(u)
    BY <1>4, TailMembers DEF SelectNormal, Queued, TaskInOnePlace, TypeOK
  <2> QED BY <1>4, <2>1, <2>2, TakeBooks DEF SelectNormal, Take
<1>5. CASE SelectDone(w)
  <2>1. Due' = Due /\ Entering' = Entering
    BY <1>5 DEF SelectDone, Due, Entering, Pending, Queued, Held
  <2> QED BY <1>5, <2>1 DEF SelectDone, Accounts, Listed, Occupied, Pending, Queued, Held
<1>6. ASSUME t \in Callers, Forget(t), hand' = [hand EXCEPT ![w] = NoTask], UNCHANGED <<pc, key, high, normal>>,
             wpc[w] \in {"start", "exec", "finish", "requeue", "undo"}
      PROVE  /\ \A u \in Callers : Pending(u)' <=> Pending(u) /\ u # t
             /\ Entering' = Entering /\ Listed'
  <2>1. \A u \in Callers : Pending(u)' <=> Pending(u) /\ u # t
    BY <1>6, InHand DEF Pending, Queued, Held, TypeOK
  <2>2. \A k \in Keys : Occupied(k)' => table'[k] = table[k] /\ Occupied(k) /\ table[k] # t
    BY <1>6, InHand DEF Forget, Occupied, TypeOK
  <2>3. Listed'
    BY <2>1, <2>2 DEF Listed, Occupied, TypeOK
  <2> QED BY <1>6, <2>1, <2>3 DEF Entering
<1>7. CASE DropAbandoned(w)
  <2>1. t \in Callers /\ t \notin busy /\ t \in Due
    BY <1>7, InHand DEF DropAbandoned, Due, Pending
  <2>2. (\A u \in Callers : Pending(u)' <=> Pending(u) /\ u # t) /\ Entering' = Entering /\ Listed'
    BY <1>6, <1>7, <2>1 DEF DropAbandoned
  <2>3. Due' = Due \ {t}
    BY <1>7, <2>2 DEF DropAbandoned, Due
  <2>4. Cardinality(Due') = Cardinality(Due) - 1
    BY <1>0, <2>1, <2>3, FS_RemoveElement
  <2> QED BY <1>0, <1>7, <2>2, <2>4 DEF DropAbandoned, Accounts, Dequeued, SlotsReturned
<1>8. CASE Start(w)
  <2>1. t \in Callers /\ t \notin busy /\ t \in Due
    BY <1>8, InHand DEF Start, Due, Pending
  <2>2. Due' = Due \ {t} /\ busy' = busy \cup {t} /\ Entering' = Entering
    BY <1>8, <2>1 DEF Start, Due, Entering, Pending, Queued, Held
  <2>3. Accounts'
    <3>1. Cardinality(Due') = Cardinality(Due) - 1
      BY <1>0, <2>1, <2>2, FS_RemoveElement
    <3>2. Cardinality(busy') = Cardinality(busy) + 1
      BY <1>0, <2>1, <2>2, FS_AddElement
    <3> QED BY <1>0, <1>8, <2>2, <3>1, <3>2 DEF Start, Accounts, Dequeued
  <2>4. Listed'
    BY <1>8 DEF Start, Listed, Occupied, Pending, Queued, Held
  <2> QED BY <2>3, <2>4
<1>9. CASE Deliver(w)
  <2>1. Due' = Due /\ Entering' = Entering
    BY <1>9 DEF Deliver, Due, Entering, Pending, Queued, Held
  <2> QED BY <1>9, <2>1 DEF Deliver, Accounts, Listed, Occupied, Pending, Queued, Held
<1>10. CASE Finish(w)
  <2>1. t \in Callers /\ t \in busy
    BY <1>10, InHand DEF Finish
  <2>2. (\A u \in Callers : Pending(u)' <=> Pending(u) /\ u # t) /\ Entering' = Entering /\ Listed'
    BY <1>6, <1>10, <2>1 DEF Finish
  <2>3. Due' = Due /\ busy' = busy \ {t}
    BY <1>10, <2>1, <2>2 DEF Finish, Due
  <2>4. Cardinality(busy') = Cardinality(busy) - 1
    BY <1>0, <2>1, <2>3, FS_RemoveElement
  <2> QED BY <1>0, <1>10, <2>2, <2>3, <2>4 DEF Finish, Accounts, SlotsReturned
<1>11. CASE Prepare(w)
  <2>1. t \in Callers /\ t \in busy /\ Held(t) /\ t \notin Due
    BY <1>11, InHand DEF Prepare, Due
  <2>2. Due' = Due \cup {t} /\ busy' = busy \ {t} /\ Entering' = Entering
    BY <1>11, <2>1 DEF Prepare, Due, Entering, Pending, Queued, Held
  <2>3. Accounts'
    <3>1. Cardinality(Due') = Cardinality(Due) + 1
      BY <1>0, <2>1, <2>2, FS_AddElement
    <3>2. Cardinality(busy') = Cardinality(busy) - 1
      BY <1>0, <2>1, <2>2, FS_RemoveElement
    <3> QED BY <1>0, <1>11, <2>2, <3>1, <3>2 DEF Prepare, Accounts
  <2>4. Listed'
    BY <1>11 DEF Prepare, Listed, Occupied, Pending, Queued, Held
  <2> QED BY <2>3, <2>4
<1>12. CASE Requeue(w)
  <2>0. t \in Callers
    BY <1>12, InHand DEF Requeue
  <2>1. \A u \in Callers : Queued(u)' <=> Queued(u) \/ u = t
    BY <1>12, <2>0, PushQueues DEF Requeue
  <2>2. \A u \in Callers : Held(u)' \/ u = t <=> Held(u)
    BY <1>12, <2>0, InHand DEF Requeue, Held, TypeOK
  <2>3. \A u \in Callers : Pending(u)' <=> Pending(u)
    BY <1>12, <2>1, <2>2 DEF Requeue, Pending
  <2>4. Due' = Due /\ Entering' = Entering
    BY <1>12, <2>3 DEF Requeue, Due, Entering
  <2>5. Accounts'
    BY <1>12, <2>4, BooksKept DEF Requeue, Push
  <2>6. Listed'
    BY <1>12, <2>3 DEF Requeue, Listed, Occupied, TypeOK
  <2> QED BY <2>5, <2>6
<1>13. CASE RequeueRefused(w)
  <2>1. Due' = Due /\ Entering' = Entering
    BY <1>13 DEF RequeueRefused, Due, Entering, Pending, Queued, Held
  <2> QED BY <1>13, <2>1 DEF RequeueRefused, Accounts, Listed, Occupied, Pending, Queued, Held
<1>14. CASE UndoRequeue(w)
  <2>1. t \in Callers /\ t \notin busy /\ t \in Due
    BY <1>14, InHand DEF UndoRequeue, Due, Pending
  <2>2. (\A u \in Callers : Pending(u)' <=> Pending(u) /\ u # t) /\ Entering' = Entering /\ Listed'
    BY <1>6, <1>14, <2>1 DEF UndoRequeue
  <2>3. Due' = Due \ {t}
    BY <1>14, <2>2 DEF UndoRequeue, Due
  <2>4. Cardinality(Due') = Cardinality(Due) - 1
    BY <1>0, <2>1, <2>3, FS_RemoveElement
  <2> QED BY <1>0, <1>14, <2>2, <2>4 DEF UndoRequeue, Accounts, Dequeued, SlotsReturned
<1> QED BY <1>2, <1>3, <1>4, <1>5, <1>7, <1>8, <1>9, <1>10, <1>11, <1>12, <1>13, <1>14 DEF Work

\* Close keeps the books: it empties the table and returns no slot.
LEMMA CloseBooks == ASSUME Books, BeginClose \/ Drain PROVE Accounts' /\ Listed'
<1>1. Due' = Due /\ Entering' = Entering
  BY DEF BeginClose, Drain, Due, Entering, Pending, Queued, Held, callVars, taskVars, chanVars, workVars
<1> QED BY <1>1 DEF Books, Accounts, Listed, Occupied, Pending, Queued, Held, BeginClose, Drain,
            callVars, taskVars, chanVars, countVars, workVars

\* The books are right at all times.
LEMMA BooksCorrect == Spec => []Books
<1>1. Init => Books
  <2> SUFFICES ASSUME Init PROVE Books
    OBVIOUS
  <2>1. Inductive
    BY InitInductive
  <2>2. Due = {} /\ Entering = {} /\ busy = {}
    BY CallersAssumption DEF Init, Due, Entering, Pending, Queued, Held, Members
  <2> QED BY <2>1, <2>2, FS_EmptySet DEF Init, Books, Accounts, Listed, Occupied
<1>2. Books /\ [Next]_vars => Books'
  <2> SUFFICES ASSUME Books, [Next]_vars PROVE Books'
    OBVIOUS
  <2>1. Inductive'
    BY StepInductive DEF Books
  <2>2. CASE UNCHANGED vars
    BY <2>1, <2>2 DEF Books, Accounts, Listed, Due, Entering, Occupied, Pending, Queued, Held,
                      vars, callVars, taskVars, chanVars, countVars, workVars
  <2> QED BY <2>1, <2>2, CallBooks, WorkBooks, CloseBooks DEF Next, Books
<1> QED BY <1>1, <1>2, PTL DEF Spec

\* Before Close has drained it, the table has the tasks under way and no others.
LEMMA KnownTasks ==
    ASSUME Books, closing # "drained"
    PROVE  Known \ busy = Due /\ Known \cap busy = busy /\ Known = Due \cup busy /\ Due \cap busy = {}
<1> USE CallersAssumption DEF Books, Inductive
<1>1. \A t \in Callers : Pending(t) => t \in Known
  BY DEF Pending, TableHasTasks, Known, TypeOK
<1>2. \A t \in Known : t \in Callers /\ Pending(t)
  BY DEF Listed, Occupied, Known, TypeOK
<1>3. \A t \in busy : t \in Callers /\ Pending(t)
  BY DEF BusyIsExecuting, Held, Pending, TypeOK
<1> QED BY <1>1, <1>2, <1>3 DEF Due

(* Until Close has drained the table, each task in it holds exactly one    *)
(* slot, and so does each call between its slot and its registration: no   *)
(* path of Submit or run leaks a slot or returns one twice.                *)
THEOREM SlotsMatchTasksCorrect == Spec => []SlotsMatchTasks
<1>1. Books => SlotsMatchTasks
  <2> SUFFICES ASSUME Books, closing # "drained"
               PROVE  slots = Cardinality(Known) + Cardinality(Entering)
    BY DEF SlotsMatchTasks, Entering
  <2>1. IsFiniteSet(Due) /\ IsFiniteSet(busy)
    BY Finite DEF Books, Inductive
  <2>2. Cardinality(Due \cup busy) = Cardinality(Due) + Cardinality(busy) - Cardinality(Due \cap busy)
    BY <2>1, FS_Union
  <2>3. Cardinality(Due \cap busy) = 0
    BY KnownTasks, FS_EmptySet
  <2> QED BY <2>2, <2>3, KnownTasks, Finite DEF Books, Inductive, Accounts
<1> QED BY <1>1, BooksCorrect, PTL

(* The counters that Stats reports are exact until Close has drained the   *)
(* table: follow-ups and undone submissions leave no trace in them.        *)
THEOREM CountersExactCorrect == Spec => []CountersExact
<1>1. Books => CountersExact
  BY KnownTasks DEF CountersExact, Books, Accounts
<1> QED BY <1>1, BooksCorrect, PTL

\* A channel without repetition is as long as the set of its tasks is large.
LEMMA ChannelLength ==
    ASSUME NEW s \in Seq(Callers), NoRepeat(s)
    PROVE  Len(s) = Cardinality(Members(s))
<1> DEFINE f == [i \in 1 .. Len(s) |-> s[i]]
<1>1. Len(s) \in Nat
  OBVIOUS
<1>2. f \in Bijection(1 .. Len(s), Members(s))
  <2>1. f \in [1 .. Len(s) -> Members(s)]
    BY DEF Members
  <2>2. \A i, j \in 1 .. Len(s) : f[i] = f[j] => i = j
    BY DEF NoRepeat
  <2>3. \A x \in Members(s) : \E i \in 1 .. Len(s) : f[i] = x
    BY DEF Members
  <2> HIDE DEF f
  <2> QED BY <2>1, <2>2, <2>3 DEF Bijection, Injection, Surjection, IsInjective
<1>3. ExistsBijection(1 .. Len(s), Members(s))
  BY <1>2 DEF ExistsBijection
<1> QED BY <1>1, <1>3, FS_CountingElements

\* There is room for a task that is due and not in the channel: the others in
\* it are due as well, and each has its slot.
LEMMA RoomForDue ==
    ASSUME Books, NEW t \in Due, ~Queued(t), NEW s \in {high, normal}
    PROVE  Len(s) < Capacity
<1>1. s \in Seq(Callers) /\ NoRepeat(s)
  BY DEF Books, Inductive, TypeOK, TaskInOnePlace
<1>2. Members(s) \subseteq Due
  <2> SUFFICES ASSUME NEW u \in Members(s) PROVE u \in Due
    OBVIOUS
  <2>1. u \in Callers /\ Queued(u)
    BY <1>1 DEF Members, Queued
  <2>2. ~Held(u)
    BY <2>1, CallersAssumption DEF Books, Inductive, TaskInOnePlace, Held
  <2>3. u \notin busy
    BY <2>1, <2>2 DEF Books, Inductive, BusyIsExecuting, Held
  <2> QED BY <2>1, <2>3 DEF Due, Pending
<1>3. Members(s) \cup {t} \in SUBSET Due /\ t \notin Members(s)
  BY <1>2 DEF Queued
<1>4. IsFiniteSet(Due) /\ Cardinality(Due) \in Nat /\ Cardinality(busy) \in Nat /\ Cardinality(Entering) \in Nat
  BY Finite DEF Books, Inductive
<1>5. IsFiniteSet(Members(s))
  BY <1>2, <1>4, FS_Subset
<1>6. Cardinality(Members(s) \cup {t}) = Cardinality(Members(s)) + 1
  BY <1>3, <1>5, FS_AddElement
<1>7. Cardinality(Members(s) \cup {t}) <= Cardinality(Due)
  BY <1>3, <1>4, FS_Subset
<1>8. Len(s) = Cardinality(Members(s)) /\ Len(s) \in Nat
  BY <1>1, ChannelLength
<1>9. Cardinality(Due) <= Capacity
  BY <1>4, CapacityAssumption DEF Books, Accounts, Inductive, TypeOK
<1> QED BY <1>4, <1>6, <1>7, <1>8, <1>9, CapacityAssumption

(* A full channel never parks a call or a worker: whoever is about to send *)
(* a task finds room for it in its lane.                                   *)
THEOREM PushNeverBlocksCorrect == Spec => []PushNeverBlocks
<1>1. Books => PushNeverBlocks
  <2> SUFFICES ASSUME Books, NEW t \in Callers,
                      pc[t] = "enqueue" \/ \E w \in Workers : wpc[w] = "requeue" /\ hand[w] = t
               PROVE  HasRoom(t)
    BY DEF PushNeverBlocks
  <2>1. t \in Due /\ ~Queued(t)
    <3>1. CASE pc[t] = "enqueue"
      BY <3>1 DEF Books, Inductive, TaskInOnePlace, BusyIsExecuting, Held, Due, Pending
    <3>2. ASSUME NEW w \in Workers, wpc[w] = "requeue", hand[w] = t PROVE t \in Due /\ ~Queued(t)
      BY <3>2, InHand DEF Books, Due, Pending
    <3> QED BY <3>1, <3>2
  <2> QED BY <2>1, RoomForDue DEF HasRoom
<1> QED BY <1>1, BooksCorrect, PTL

-----------------------------------------------------------------------------
(* No waiter is lost.                                                      *)

\* Calls lose no waiter.
LEMMA CallAttends ==
    ASSUME Attended, NEW c \in Callers, Call(c)
    PROVE  AttachedInTurn' /\ WaitersInBatch' /\ UndoneWhenClosed' /\ NoWaiterLost'
<1> USE CallersAssumption DEF Attended, Inductive, Goto, callVars, taskVars, chanVars, countVars, workVars
<1>0. \A v \in Workers : wpc[v] \in {"start", "exec", "finish", "requeue", "undo"} =>
        hand[v] \in Callers /\ Held(hand[v]) /\ (hand[v] \in busy <=> wpc[v] \in {"exec", "finish"})
  BY InHand
<1>1. CASE \E k \in Keys : Submit(c, k)
  <2>1. AttachedInTurn'
    BY <1>1 DEF TypeOK, Attached, AttachedInTurn, Submit, Unreferenced
  <2>2. WaitersInBatch'
    BY <1>1, <1>0 DEF TypeOK, Attached, Open, AttachedInTurn, WaitersInBatch, Submit, Unreferenced
  <2>3. UndoneWhenClosed'
    BY <1>1 DEF TypeOK, Closed, UndoneWhenClosed, Submit, Unreferenced
  <2>4. NoWaiterLost'
    BY <1>1 DEF TypeOK, Attached, Closed, Occupied, NoWaiterLost, Submit, Unreferenced
  <2> QED BY <2>1, <2>2, <2>3, <2>4
<1>2. CASE \E p \in Priorities : AttachExisting(c, p)
  <2>1. AttachedInTurn'
    <3>1. CASE ~Occupied(key[c])
      BY <1>2, <3>1 DEF TypeOK, Attached, AttachedInTurn, AttachExisting
    <3>2. CASE Occupied(key[c]) /\ Late(table[key[c]])
      BY <1>2, <3>2 DEF TypeOK, Attached, Occupied, AttachedInTurn, AttachExisting, Attach, Late
    <3>3. CASE Occupied(key[c]) /\ ~Late(table[key[c]])
      BY <1>2, <3>3 DEF TypeOK, Attached, Occupied, AttachedInTurn, AttachExisting, Attach, Late
    <3> QED BY <3>1, <3>2, <3>3
  <2>2. WaitersInBatch'
    BY <1>2, <1>0
    DEF TypeOK, Attached, Open, AttachedInTurn, WaitersInBatch, AttachExisting, Attach, Late,
        BusyIsExecuting, Executing
  <2>3. UndoneWhenClosed'
    BY <1>2 DEF TypeOK, Closed, UndoneWhenClosed, AttachExisting, Attach, Late, BusyIsExecuting, Executing
  <2>4. NoWaiterLost'
    <3>1. CASE ~Occupied(key[c])
      BY <1>2, <3>1 DEF TypeOK, Attached, Closed, Occupied, NoWaiterLost, AttachExisting
    <3>2. CASE Occupied(key[c]) /\ Late(table[key[c]])
      <4>1. table[key[c]] \in Callers
        BY <3>2 DEF Occupied, TypeOK
      <4>2. /\ pc' = [pc EXCEPT ![c] = "waiting"] /\ UNCHANGED <<key, cancelled, answer, table, waiters, closing>>
            /\ follow' = [follow EXCEPT ![table[key[c]]] = @ \cup {c}]
        BY <1>2, <3>2 DEF AttachExisting, Attach
      <4>3. \A t \in Callers : Attached(t)' = Attached(t) \cup (IF t = table[key[c]] THEN {c} ELSE {})
        BY <4>1, <4>2 DEF Attached, TypeOK
      <4> QED BY <3>2, <4>1, <4>2, <4>3 DEF Closed, Occupied, NoWaiterLost, TypeOK
    <3>3. CASE Occupied(key[c]) /\ ~Late(table[key[c]])
      BY <1>2, <3>3 DEF TypeOK, Attached, Closed, Occupied, NoWaiterLost, AttachExisting, Attach, Late
    <3> QED BY <3>1, <3>2, <3>3
  <2> QED BY <2>1, <2>2, <2>3, <2>4
<1>3. CASE \E p \in Priorities : RegisterLate(c, p)
  <2>1. AttachedInTurn'
    BY <1>3, <1>0
    DEF TypeOK, TaskInOnePlace, TableHasTasks, Attached, Open, Closed, Occupied, AttachedInTurn,
        RegisterLate, Attach, Late, BusyIsExecuting, Executing
  <2>2. WaitersInBatch'
    BY <1>3, <1>0
    DEF TypeOK, Attached, Open, AttachedInTurn, WaitersInBatch, RegisterLate, Attach, Late,
        BusyIsExecuting, Executing
  <2>3. UndoneWhenClosed'
    BY <1>3 DEF TypeOK, Closed, UndoneWhenClosed, RegisterLate, Attach, Late, BusyIsExecuting, Executing
  <2>4. NoWaiterLost'
    BY <1>3, <1>0
    DEF TypeOK, TaskInOnePlace, TableHasTasks, Attached, Open, Closed, Occupied, NoWaiterLost,
        AttachedInTurn, RegisterLate, Attach, Late, BusyIsExecuting, Executing
  <2> QED BY <2>1, <2>2, <2>3, <2>4
<1>4. CASE \E p \in Priorities : Register(c, p)
  <2>1. AttachedInTurn'
    BY <1>4 DEF TypeOK, Attached, AttachedInTurn, Register, Held
  <2>2. WaitersInBatch'
    BY <1>4, <1>0 DEF TypeOK, Attached, Open, AttachedInTurn, WaitersInBatch, Register, Held
  <2>3. UndoneWhenClosed'
    BY <1>4 DEF TypeOK, Closed, UndoneWhenClosed, Register, Held
  <2>4. NoWaiterLost'
    BY <1>4, <1>0
    DEF TypeOK, TaskInOnePlace, TableHasTasks, Attached, Open, Closed, Occupied, NoWaiterLost,
        AttachedInTurn, Register, Held
  <2> QED BY <2>1, <2>2, <2>3, <2>4
<1>5. CASE AcquireSlot(c)
  <2>1. AttachedInTurn'
    BY <1>5 DEF TypeOK, Attached, AttachedInTurn, AcquireSlot
  <2>2. WaitersInBatch'
    BY <1>5, <1>0 DEF TypeOK, Attached, Open, AttachedInTurn, WaitersInBatch, AcquireSlot
  <2>3. UndoneWhenClosed'
    BY <1>5 DEF TypeOK, Closed, UndoneWhenClosed, AcquireSlot
  <2>4. NoWaiterLost'
    BY <1>5 DEF TypeOK, Attached, Closed, Occupied, NoWaiterLost, AcquireSlot
  <2> QED BY <2>1, <2>2, <2>3, <2>4
<1>6. CASE GiveUp(c)
  <2>1. AttachedInTurn'
    BY <1>6 DEF TypeOK, Attached, AttachedInTurn, GiveUp
  <2>2. WaitersInBatch'
    BY <1>6, <1>0 DEF TypeOK, Attached, Open, AttachedInTurn, WaitersInBatch, GiveUp
  <2>3. UndoneWhenClosed'
    BY <1>6 DEF TypeOK, Closed, UndoneWhenClosed, GiveUp
  <2>4. NoWaiterLost'
    BY <1>6 DEF TypeOK, Attached, Closed, Occupied, NoWaiterLost, GiveUp
  <2> QED BY <2>1, <2>2, <2>3, <2>4
<1>7. CASE Enqueue(c)
  <2>1. AttachedInTurn'
    BY <1>7 DEF TypeOK, Attached, AttachedInTurn, Enqueue, Push, Held
  <2>2. WaitersInBatch'
    BY <1>7, <1>0
    DEF TypeOK, TaskInOnePlace, TableHasTasks, Attached, Open, Closed, Occupied, WaitersInBatch,
        AttachedInTurn, Enqueue, Push, Held
  <2>3. UndoneWhenClosed'
    BY <1>7 DEF TypeOK, Closed, UndoneWhenClosed, Enqueue, Push, Held
  <2>4. NoWaiterLost'
    BY <1>7 DEF TypeOK, Attached, Closed, Occupied, NoWaiterLost, Enqueue, Push, Held
  <2> QED BY <2>1, <2>2, <2>3, <2>4
<1>8. CASE EnqueueRefused(c)
  <2>1. AttachedInTurn'
    BY <1>8 DEF TypeOK, Attached, AttachedInTurn, EnqueueRefused
  <2>2. WaitersInBatch'
    BY <1>8, <1>0 DEF TypeOK, Attached, Open, AttachedInTurn, WaitersInBatch, EnqueueRefused
  <2>3. UndoneWhenClosed'
    BY <1>8 DEF TypeOK, Closed, UndoneWhenClosed, EnqueueRefused
  <2>4. NoWaiterLost'
    BY <1>8 DEF TypeOK, Attached, Closed, Occupied, NoWaiterLost, EnqueueRefused
  <2> QED BY <2>1, <2>2, <2>3, <2>4
<1>9. CASE UndoRegister(c)
  <2>1. AttachedInTurn'
    BY <1>9 DEF TypeOK, Attached, AttachedInTurn, UndoRegister, Forget, Held, BusyIsExecuting
  <2>2. WaitersInBatch'
    BY <1>9, <1>0
    DEF TypeOK, Attached, Open, AttachedInTurn, WaitersInBatch, UndoRegister, Forget, Held,
        BusyIsExecuting
  <2>3. UndoneWhenClosed'
    BY <1>9 DEF TypeOK, Closed, UndoneWhenClosed, UndoRegister, Forget, Held, BusyIsExecuting
  <2>4. NoWaiterLost'
    BY <1>9 DEF Closed, NoWaiterLost, UndoneWhenClosed, UndoRegister
  <2> QED BY <2>1, <2>2, <2>3, <2>4
<1>10. CASE Receive(c)
  <2>1. AttachedInTurn'
    BY <1>10 DEF TypeOK, Attached, AttachedInTurn, Receive
  <2>2. WaitersInBatch'
    BY <1>10, <1>0 DEF TypeOK, Attached, Open, AttachedInTurn, WaitersInBatch, Receive
  <2>3. UndoneWhenClosed'
    BY <1>10 DEF TypeOK, Closed, UndoneWhenClosed, Receive
  <2>4. NoWaiterLost'
    BY <1>10 DEF TypeOK, Attached, Closed, Occupied, NoWaiterLost, Receive
  <2> QED BY <2>1, <2>2, <2>3, <2>4
<1>11. CASE Cancel(c)
  <2>1. AttachedInTurn'
    BY <1>11 DEF TypeOK, Attached, AttachedInTurn, Cancel
  <2>2. WaitersInBatch'
    BY <1>11, <1>0 DEF TypeOK, Attached, Open, AttachedInTurn, WaitersInBatch, Cancel
  <2>3. UndoneWhenClosed'
    BY <1>11 DEF TypeOK, Closed, UndoneWhenClosed, Cancel
  <2>4. NoWaiterLost'
    BY <1>11 DEF TypeOK, Attached, Closed, Occupied, NoWaiterLost, Cancel
  <2> QED BY <2>1, <2>2, <2>3, <2>4
<1> QED BY <1>1, <1>2, <1>3, <1>4, <1>5, <1>6, <1>7, <1>8, <1>9, <1>10, <1>11 DEF Call

\* Workers lose no waiter.
LEMMA WorkAttends ==
    ASSUME Attended, NEW w \in Workers, Work(w)
    PROVE  AttachedInTurn' /\ WaitersInBatch' /\ UndoneWhenClosed' /\ NoWaiterLost'
<1> USE CallersAssumption DEF Attended, Inductive, Move, callVars, taskVars, chanVars, countVars, workVars
<1>0. \A v \in Workers : wpc[v] \in {"start", "exec", "finish", "requeue", "undo"} =>
        hand[v] \in Callers /\ Held(hand[v]) /\ (hand[v] \in busy <=> wpc[v] \in {"exec", "finish"})
  BY InHand
<1>1. CASE PollHigh(w)
  <2>1. AttachedInTurn'
    BY <1>1 DEF TypeOK, Attached, AttachedInTurn, PollHigh, Take
  <2>2. WaitersInBatch'
    BY <1>1, <1>0 DEF TypeOK, Attached, Open, AttachedInTurn, WaitersInBatch, PollHigh, Take
  <2>3. UndoneWhenClosed'
    BY <1>1 DEF TypeOK, Closed, UndoneWhenClosed, PollHigh, Take
  <2>4. NoWaiterLost'
    BY <1>1 DEF TypeOK, Attached, Closed, Occupied, NoWaiterLost, PollHigh, Take
  <2> QED BY <2>1, <2>2, <2>3, <2>4
<1>2. CASE SelectHigh(w)
  <2>1. AttachedInTurn'
    BY <1>2 DEF TypeOK, Attached, AttachedInTurn, SelectHigh, Take
  <2>2. WaitersInBatch'
    BY <1>2, <1>0 DEF TypeOK, Attached, Open, AttachedInTurn, WaitersInBatch, SelectHigh, Take
  <2>3. UndoneWhenClosed'
    BY <1>2 DEF TypeOK, Closed, UndoneWhenClosed, SelectHigh, Take
  <2>4. NoWaiterLost'
    BY <1>2 DEF TypeOK, Attached, Closed, Occupied, NoWaiterLost, SelectHigh, Take
  <2> QED BY <2>1, <2>2, <2>3, <2>4
<1>3. CASE SelectNormal(w)
  <2>1. AttachedInTurn'
    BY <1>3 DEF TypeOK, Attached, AttachedInTurn, SelectNormal, Take
  <2>2. WaitersInBatch'
    BY <1>3, <1>0 DEF TypeOK, Attached, Open, AttachedInTurn, WaitersInBatch, SelectNormal, Take
  <2>3. UndoneWhenClosed'
    BY <1>3 DEF TypeOK, Closed, UndoneWhenClosed, SelectNormal, Take
  <2>4. NoWaiterLost'
    BY <1>3 DEF TypeOK, Attached, Closed, Occupied, NoWaiterLost, SelectNormal, Take
  <2> QED BY <2>1, <2>2, <2>3, <2>4
<1>4. CASE SelectDone(w)
  <2>1. AttachedInTurn'
    BY <1>4 DEF TypeOK, Attached, AttachedInTurn, SelectDone
  <2>2. WaitersInBatch'
    BY <1>4, <1>0 DEF TypeOK, Attached, Open, AttachedInTurn, WaitersInBatch, SelectDone
  <2>3. UndoneWhenClosed'
    BY <1>4 DEF TypeOK, Closed, UndoneWhenClosed, SelectDone
  <2>4. NoWaiterLost'
    BY <1>4 DEF TypeOK, Attached, Closed, Occupied, NoWaiterLost, SelectDone
  <2> QED BY <2>1, <2>2, <2>3, <2>4
<1>5. CASE DropAbandoned(w)
  <2>1. AttachedInTurn'
    BY <1>5 DEF TypeOK, Attached, AttachedInTurn, DropAbandoned, Forget, Active
  <2>2. WaitersInBatch'
    BY <1>5, <1>0
    DEF TypeOK, Attached, Open, AttachedInTurn, WaitersInBatch, DropAbandoned, Forget, Active
  <2>3. UndoneWhenClosed'
    BY <1>5 DEF TypeOK, Closed, UndoneWhenClosed, DropAbandoned, Forget, Active
  <2>4. NoWaiterLost'
    BY <1>5, <1>0
    DEF TypeOK, TaskInOnePlace, TableHasTasks, Attached, Open, Closed, Occupied, NoWaiterLost,
        AttachedInTurn, DropAbandoned, Forget, Active
  <2> QED BY <2>1, <2>2, <2>3, <2>4
<1>6. CASE Start(w)
  <2>1. AttachedInTurn'
    BY <1>6 DEF TypeOK, Attached, AttachedInTurn, Start, Active
  <2>2. WaitersInBatch'
    BY <1>6, <1>0 DEF TypeOK, Attached, Open, AttachedInTurn, WaitersInBatch, Start, Active
  <2>3. UndoneWhenClosed'
    BY <1>6 DEF TypeOK, Closed, UndoneWhenClosed, Start, Active
  <2>4. NoWaiterLost'
    BY <1>6 DEF TypeOK, Attached, Closed, Occupied, NoWaiterLost, Start, Active
  <2> QED BY <2>1, <2>2, <2>3, <2>4
<1>7. CASE Deliver(w)
  <2>1. AttachedInTurn'
    BY <1>7 DEF TypeOK, Attached, AttachedInTurn, Deliver, Recipients
  <2>2. WaitersInBatch'
    BY <1>7, <1>0 DEF TypeOK, Attached, Open, AttachedInTurn, WaitersInBatch, Deliver, Recipients
  <2>3. UndoneWhenClosed'
    BY <1>7 DEF TypeOK, Closed, UndoneWhenClosed, Deliver, Recipients
  <2>4. NoWaiterLost'
    BY <1>7 DEF TypeOK, Attached, Closed, Occupied, NoWaiterLost, Deliver, Recipients
  <2> QED BY <2>1, <2>2, <2>3, <2>4
<1>8. CASE Finish(w)
  <2>1. AttachedInTurn'
    BY <1>8 DEF TypeOK, Attached, AttachedInTurn, Finish, Forget, NextRound, Active
  <2>2. WaitersInBatch'
    BY <1>8, <1>0
    DEF TypeOK, Attached, Open, AttachedInTurn, WaitersInBatch, Finish, Forget, NextRound, Active
  <2>3. UndoneWhenClosed'
    BY <1>8 DEF TypeOK, Closed, UndoneWhenClosed, Finish, Forget, NextRound, Active
  <2>4. NoWaiterLost'
    <3> DEFINE t == hand[w]
    <3>1. t \in Callers /\ Held(t) /\ pc[t] # "enqueue" /\ \A k \in Keys : table[k] = t => key[t] = k
      BY <1>8, InHand DEF Finish
    <3>2. table' = [table EXCEPT ![key[t]] = NoTask] /\ waiters' = [waiters EXCEPT ![t] = {}]
          /\ follow' = [follow EXCEPT ![t] = {}] /\ UNCHANGED <<pc, key, cancelled, answer, closing>>
      BY <1>8 DEF Finish, Forget
    <3> SUFFICES ASSUME NEW c \in Callers, ~Closed, pc[c] \in {"enqueue", "waiting"}, c \notin cancelled, answer[c] = "none"
                 PROVE  Occupied(key[c])' /\ c \in Attached(table[key[c]])'
      BY <3>2 DEF NoWaiterLost, Closed
    <3>3. Occupied(key[c]) /\ c \in Attached(table[key[c]]) /\ table[key[c]] \in Callers /\ key[c] \in Keys
      BY DEF NoWaiterLost, Occupied, TypeOK
    <3>4. CASE table[key[c]] = t
      <4>1. pc[c] = "waiting" /\ Open(c)
        BY <3>1, <3>3, <3>4 DEF AttachedInTurn, Open
      <4>2. c \notin waiters[t]
        BY <1>8, <4>1 DEF Finish, WaitersInBatch
      <4>3. c \notin follow[t]
        BY <1>8 DEF Finish, NextRound, Active
      <4> QED BY <3>3, <3>4, <4>2, <4>3 DEF Attached
    <3>5. CASE table[key[c]] # t
      <4>1. table[key[t]] = t
        BY <1>8, <3>1 DEF TableHasTasks, Finish
      <4>2. key[c] # key[t]
        BY <3>5, <4>1
      <4> QED BY <3>1, <3>2, <3>3, <3>5, <4>2 DEF Attached, Occupied, TypeOK
    <3> QED BY <3>4, <3>5
  <2> QED BY <2>1, <2>2, <2>3, <2>4
<1>9. CASE Prepare(w)
  <2>1. AttachedInTurn'
    BY <1>9 DEF TypeOK, Attached, AttachedInTurn, Prepare, NextRound, Active
  <2>2. WaitersInBatch'
    BY <1>9, <1>0
    DEF TypeOK, TaskInOnePlace, TableHasTasks, Attached, Open, Closed, Occupied, WaitersInBatch,
        AttachedInTurn, Prepare, NextRound, Active
  <2>3. UndoneWhenClosed'
    BY <1>9 DEF TypeOK, Closed, UndoneWhenClosed, Prepare, NextRound, Active
  <2>4. NoWaiterLost'
    <3> DEFINE t == hand[w]
    <3>1. t \in Callers /\ pc[t] # "enqueue"
      BY <1>9, InHand DEF Prepare
    <3>2. waiters' = [waiters EXCEPT ![t] = NextRound(t)] /\ follow' = [follow EXCEPT ![t] = {}]
          /\ UNCHANGED <<pc, key, cancelled, answer, closing, table>>
      BY <1>9 DEF Prepare
    <3> SUFFICES ASSUME NEW c \in Callers, ~Closed, pc[c] \in {"enqueue", "waiting"}, c \notin cancelled, answer[c] = "none"
                 PROVE  Occupied(key[c])' /\ c \in Attached(table[key[c]])'
      BY <3>2 DEF NoWaiterLost, Closed
    <3>3. Occupied(key[c]) /\ c \in Attached(table[key[c]]) /\ table[key[c]] \in Callers
      BY DEF NoWaiterLost, Occupied, TypeOK
    <3>4. CASE table[key[c]] = t
      <4>1. pc[c] = "waiting" /\ Open(c)
        BY <3>1, <3>3, <3>4 DEF AttachedInTurn, Open
      <4>2. c \notin waiters[t]
        BY <1>9, <4>1 DEF Prepare, WaitersInBatch
      <4>3. c \in NextRound(t)
        BY <3>3, <3>4, <4>2 DEF Attached, NextRound, Active
      <4> QED BY <3>1, <3>2, <3>3, <3>4, <4>3 DEF Attached, Occupied, TypeOK
    <3>5. CASE table[key[c]] # t
      BY <3>1, <3>2, <3>3, <3>5 DEF Attached, Occupied, TypeOK
    <3> QED BY <3>4, <3>5
  <2> QED BY <2>1, <2>2, <2>3, <2>4
<1>10. CASE Requeue(w)
  <2>1. AttachedInTurn'
    BY <1>10 DEF TypeOK, Attached, AttachedInTurn, Requeue, Push
  <2>2. WaitersInBatch'
    BY <1>10, <1>0 DEF TypeOK, Attached, Open, AttachedInTurn, WaitersInBatch, Requeue, Push
  <2>3. UndoneWhenClosed'
    BY <1>10 DEF TypeOK, Closed, UndoneWhenClosed, Requeue, Push
  <2>4. NoWaiterLost'
    BY <1>10 DEF TypeOK, Attached, Closed, Occupied, NoWaiterLost, Requeue, Push
  <2> QED BY <2>1, <2>2, <2>3, <2>4
<1>11. CASE RequeueRefused(w)
  <2>1. AttachedInTurn'
    BY <1>11 DEF TypeOK, Attached, AttachedInTurn, RequeueRefused
  <2>2. WaitersInBatch'
    BY <1>11, <1>0 DEF TypeOK, Attached, Open, AttachedInTurn, WaitersInBatch, RequeueRefused
  <2>3. UndoneWhenClosed'
    BY <1>11 DEF TypeOK, Closed, UndoneWhenClosed, RequeueRefused
  <2>4. NoWaiterLost'
    BY <1>11 DEF TypeOK, Attached, Closed, Occupied, NoWaiterLost, RequeueRefused
  <2> QED BY <2>1, <2>2, <2>3, <2>4
<1>12. CASE UndoRequeue(w)
  <2>1. AttachedInTurn'
    BY <1>12 DEF TypeOK, Attached, AttachedInTurn, UndoRequeue, Forget, Cancelled
  <2>2. WaitersInBatch'
    BY <1>12, <1>0
    DEF TypeOK, Attached, Open, AttachedInTurn, WaitersInBatch, UndoRequeue, Forget, Cancelled
  <2>3. UndoneWhenClosed'
    BY <1>12 DEF TypeOK, Closed, UndoneWhenClosed, UndoRequeue, Forget, Cancelled
  <2>4. NoWaiterLost'
    BY <1>12 DEF Closed, NoWaiterLost, UndoneWhenClosed, UndoRequeue
  <2> QED BY <2>1, <2>2, <2>3, <2>4
<1> QED BY <1>1, <1>2, <1>3, <1>4, <1>5, <1>6, <1>7, <1>8, <1>9, <1>10, <1>11, <1>12 DEF Work
\* Close loses no waiter: what it drains is answered, and afterwards it is closed.
LEMMA CloseAttends ==
    ASSUME Attended, BeginClose \/ Drain
    PROVE  AttachedInTurn' /\ WaitersInBatch' /\ UndoneWhenClosed' /\ NoWaiterLost'
<1> USE DEF callVars, taskVars, chanVars, countVars, workVars
<1>1. AttachedInTurn'
  BY DEF Attended, AttachedInTurn, Attached, BeginClose, Drain
<1>2. WaitersInBatch'
  <2>1. CASE BeginClose
    BY <2>1 DEF Attended, WaitersInBatch, Open, BeginClose
  <2>2. CASE Drain
    BY <2>2 DEF WaitersInBatch, Drain
  <2> QED BY <2>1, <2>2
<1>3. Closed'
  BY DEF BeginClose, Drain, Closed
<1>4. UndoneWhenClosed' /\ NoWaiterLost'
  BY <1>3 DEF UndoneWhenClosed, NoWaiterLost
<1> QED BY <1>1, <1>2, <1>4

\* No step loses a waiter.
LEMMA InitAttends == ASSUME Init PROVE Attended
<1>1. Inductive
  BY InitInductive
<1> QED BY <1>1 DEF Init, Attended, AttachedInTurn, WaitersInBatch, UndoneWhenClosed, NoWaiterLost, Attached

LEMMA StepAttends == ASSUME Attended, [Next]_vars PROVE Attended'
<1>1. Inductive'
  BY StepInductive DEF Attended
<1>2. CASE UNCHANGED vars
  BY <1>1, <1>2
  DEF Attended, AttachedInTurn, WaitersInBatch, UndoneWhenClosed, NoWaiterLost, Attached, Open,
                    Closed, Occupied, vars, callVars, taskVars, chanVars, countVars, workVars
<1> QED BY <1>1, <1>2, CallAttends, WorkAttends, CloseAttends DEF Next, Attended

(* While the scheduler is open a call that waits is attached to the task   *)
(* of its own key: no interleaving of attachLocked with the end of a run,  *)
(* a follow-up or a withdrawn submission drops it.                         *)
THEOREM NoWaiterLostCorrect == Spec => []NoWaiterLost
<1>1. Init => Attended
  BY InitAttends
<1>2. Attended /\ [Next]_vars => Attended'
  BY StepAttends
<1>3. Attended => NoWaiterLost
  BY DEF Attended
<1> QED BY <1>1, <1>2, <1>3, PTL DEF Spec

(* Slots, counters and channels agree on the tasks of the table.           *)
THEOREM AccountingCorrect == Spec => []Accounting
<1>1. SlotsMatchTasks /\ CountersExact /\ PushNeverBlocks => Accounting
  BY DEF Accounting
<1> QED BY <1>1, SlotsMatchTasksCorrect, CountersExactCorrect, PushNeverBlocksCorrect, PTL

-----------------------------------------------------------------------------
(* The refinement: ProbeScheduler implements ProbeService, for any numbers  *)
(* of calls, keys, workers and slots.                                      *)

\* Until Close drains it, a task that anybody is attached to is the one in the
\* table, and those attached to it have its key.
AttachedByKey ==
    closing # "drained" =>
        \A c, t \in Callers : c \in Attached(t) => key[c] = key[t] /\ table[key[t]] = t

\* A call is attached to one task, for this execution or for the next one.
AttachedOnce ==
    /\ \A c, t, u \in Callers : c \in Attached(t) /\ c \in Attached(u) => t = u
    /\ \A c, t \in Callers : ~(c \in waiters[t] /\ c \in follow[t])

\* A batch is taken from the waiters of the task in hand.
BatchOfWaiters ==
    \A w \in Workers :
        /\ wpc[w] \in {"exec", "requeue", "undo"} => batch[w] \subseteq waiters[hand[w]]
        /\ wpc[w] \in {"poll", "select", "start", "finish", "stopped"} => batch[w] = {}

\* No call has its answer early: until Close drains the table, one that has it and
\* is still attached was a waiter of an execution that has just ended.
AnsweredInTurn ==
    /\ closing # "drained" =>
         \A c, t \in Callers :
             c \in Attached(t) /\ pc[c] # "idle" /\ answer[c] # "none" =>
                 c \in waiters[t] /\ \E w \in Workers : hand[w] = t /\ wpc[w] = "finish"
    /\ \A c \in Callers : pc[c] \in {"attach", "slot", "register"} => answer[c] = "none"

Serving == Attended /\ AttachedByKey /\ AttachedOnce /\ BatchOfWaiters /\ AnsweredInTurn

-----------------------------------------------------------------------------
\* Joining a task of the table, for this execution or the next, keeps the invariant.
LEMMA JoinServes ==
    ASSUME Serving, NEW c \in Callers, pc[c] \in {"attach", "register"}, Occupied(key[c]),
           NEW p \in Priorities, Attach(table[key[c]], c, p), Goto(c, "waiting"),
           UNCHANGED <<key, answer, table, closing, workVars>>
    PROVE  AttachedByKey' /\ AttachedOnce' /\ BatchOfWaiters' /\ AnsweredInTurn'
<1> DEFINE t == table[key[c]]
<1> USE DEF Serving, Attended, Inductive, workVars, Goto
<1>1. /\ t \in Callers /\ key[t] = key[c] /\ key[c] \in Keys
      /\ \A u \in Callers : c \notin waiters[u] /\ c \notin follow[u]
      /\ answer[c] = "none"
  BY DEF Occupied, TypeOK, TableHasTasks, AttachedInTurn, Attached, AnsweredInTurn
<1>2. /\ pc' = [pc EXCEPT ![c] = "waiting"]
      /\ pc \in [Callers -> CallerPC] /\ waiters \in [Callers -> SUBSET Callers]
      /\ follow \in [Callers -> SUBSET Callers]
  BY DEF TypeOK
<1>3. \/ waiters' = waiters /\ follow' = [follow EXCEPT ![t] = @ \cup {c}]
      \/ follow' = follow /\ waiters' = [waiters EXCEPT ![t] = @ \cup {c}]
  BY DEF Attach
<1>4. \A u \in Callers :
        /\ waiters[u] \subseteq waiters'[u]
        /\ \A a \in Callers \ {c} : /\ a \in waiters'[u] <=> a \in waiters[u]
                                    /\ a \in follow'[u] <=> a \in follow[u]
        /\ c \in waiters'[u] \cup follow'[u] <=> u = t
        /\ ~(c \in waiters'[u] /\ c \in follow'[u])
  BY <1>1, <1>2, <1>3
<1>5. \A a, u \in Callers : a \in Attached(u)' <=> a \in Attached(u) \/ (a = c /\ u = t)
  BY <1>1, <1>4 DEF Attached
<1> HIDE DEF t
<1>6. AttachedByKey'
  <2>1. table[key[t]] = t
    BY <1>1 DEF t
  <2> QED BY <1>1, <1>5, <2>1 DEF AttachedByKey
<1>7. AttachedOnce'
  <2>1. \A a, u, v \in Callers : a \in Attached(u)' /\ a \in Attached(v)' => u = v
    BY <1>1, <1>5 DEF AttachedOnce, Attached
  <2> QED BY <1>4, <2>1 DEF AttachedOnce
<1>8. BatchOfWaiters'
  <2>1. \A w \in Workers : wpc[w] \in {"exec", "requeue", "undo"} => hand[w] \in Callers
    BY DEF TypeOK
  <2> QED BY <1>4, <2>1 DEF BatchOfWaiters
<1>9. AnsweredInTurn'
  <2>1. \A a \in Callers : a # c => pc'[a] = pc[a]
    BY <1>2
  <2>2. pc'[c] = "waiting"
    BY <1>2
  <2>3. ASSUME closing # "drained", NEW a \in Callers, NEW u \in Callers,
               a \in Attached(u)', pc'[a] # "idle", answer[a] # "none"
        PROVE  a \in waiters'[u] /\ \E w \in Workers : hand[w] = u /\ wpc[w] = "finish"
    <3>1. a # c /\ a \in Attached(u) /\ pc[a] # "idle"
      BY <1>1, <1>5, <2>1, <2>3
    <3> QED BY <1>4, <2>3, <3>1 DEF AnsweredInTurn
  <2>4. \A a \in Callers : pc'[a] \in {"attach", "slot", "register"} => answer[a] = "none"
    BY <2>1, <2>2 DEF AnsweredInTurn
  <2> QED BY <2>3, <2>4 DEF AnsweredInTurn
<1> QED BY <1>6, <1>7, <1>8, <1>9

\* Calls keep the invariant.
LEMMA CallServes ==
    ASSUME Serving, NEW c \in Callers, Call(c)
    PROVE  AttachedByKey' /\ AttachedOnce' /\ BatchOfWaiters' /\ AnsweredInTurn'
<1> USE CallersAssumption DEF Serving, Attended, Inductive, Goto, callVars, taskVars, chanVars, countVars, workVars
<1>0. \A w \in Workers : wpc[w] \in {"start", "exec", "finish", "requeue", "undo"} =>
        /\ hand[w] \in Callers /\ Held(hand[w])
        /\ pc[hand[w]] \notin {"attach", "slot", "register", "enqueue", "undo"}
  BY InHand
<1>1. CASE \E k \in Keys : Submit(c, k)
  <2>1. AttachedByKey'
    BY <1>1, <1>0 DEF TypeOK, Attached, AttachedByKey, Submit, Unreferenced
  <2>2. AttachedOnce'
    BY <1>1, <1>0 DEF TypeOK, Attached, AttachedOnce, Submit, Unreferenced
  <2>3. BatchOfWaiters'
    BY <1>1, <1>0 DEF TypeOK, BatchOfWaiters, Submit, Unreferenced
  <2>4. AnsweredInTurn'
    BY <1>1, <1>0 DEF TypeOK, Attached, AnsweredInTurn, Submit, Unreferenced
  <2> QED BY <2>1, <2>2, <2>3, <2>4
<1>2. CASE \E p \in Priorities : AttachExisting(c, p)
  <2> PICK p \in Priorities : AttachExisting(c, p)
    BY <1>2
  <2>1. CASE Occupied(key[c])
    BY <2>1, JoinServes DEF AttachExisting
  <2>2. CASE ~Occupied(key[c])
    <3>1. AttachedByKey' /\ AttachedOnce' /\ BatchOfWaiters'
      BY <2>2 DEF AttachExisting, Attached, AttachedByKey, AttachedOnce, BatchOfWaiters
    <3>2. AnsweredInTurn'
      BY <2>2 DEF AttachExisting, TypeOK, Attached, AnsweredInTurn
    <3> QED BY <3>1, <3>2
  <2> QED BY <2>1, <2>2
<1>3. CASE \E p \in Priorities : RegisterLate(c, p)
  <2> PICK p \in Priorities : RegisterLate(c, p)
    BY <1>3
  <2> QED BY JoinServes DEF RegisterLate
<1>4. CASE \E p \in Priorities : Register(c, p)
  <2>1. AttachedByKey'
    BY <1>4, <1>0
    DEF TypeOK, Attached, AttachedByKey, Register, Occupied, AttachedInTurn, TaskInOnePlace, Held
  <2>2. AttachedOnce'
    BY <1>4, <1>0
    DEF TypeOK, Attached, AttachedOnce, Register, Occupied, AttachedInTurn, TaskInOnePlace, Held
  <2>3. BatchOfWaiters'
    BY <1>4, <1>0 DEF TypeOK, BatchOfWaiters, Register, Occupied, AttachedInTurn, TaskInOnePlace, Held
  <2>4. AnsweredInTurn'
    BY <1>4, <1>0
    DEF TypeOK, Attached, AnsweredInTurn, Register, Occupied, AttachedInTurn, TaskInOnePlace, Held
  <2> QED BY <2>1, <2>2, <2>3, <2>4
<1>5. CASE AcquireSlot(c)
  <2>1. AttachedByKey'
    BY <1>5, <1>0 DEF TypeOK, Attached, AttachedByKey, AcquireSlot
  <2>2. AttachedOnce'
    BY <1>5, <1>0 DEF TypeOK, Attached, AttachedOnce, AcquireSlot
  <2>3. BatchOfWaiters'
    BY <1>5, <1>0 DEF TypeOK, BatchOfWaiters, AcquireSlot
  <2>4. AnsweredInTurn'
    BY <1>5, <1>0 DEF TypeOK, Attached, AnsweredInTurn, AcquireSlot
  <2> QED BY <2>1, <2>2, <2>3, <2>4
<1>6. CASE GiveUp(c)
  <2>1. AttachedByKey'
    BY <1>6, <1>0 DEF TypeOK, Attached, AttachedByKey, GiveUp
  <2>2. AttachedOnce'
    BY <1>6, <1>0 DEF TypeOK, Attached, AttachedOnce, GiveUp
  <2>3. BatchOfWaiters'
    BY <1>6, <1>0 DEF TypeOK, BatchOfWaiters, GiveUp
  <2>4. AnsweredInTurn'
    BY <1>6, <1>0 DEF TypeOK, Attached, AnsweredInTurn, GiveUp
  <2> QED BY <2>1, <2>2, <2>3, <2>4
<1>7. CASE Enqueue(c)
  <2>1. AttachedByKey'
    BY <1>7, <1>0 DEF TypeOK, Attached, AttachedByKey, Enqueue, Push
  <2>2. AttachedOnce'
    BY <1>7, <1>0 DEF TypeOK, Attached, AttachedOnce, Enqueue, Push
  <2>3. BatchOfWaiters'
    BY <1>7, <1>0 DEF TypeOK, BatchOfWaiters, Enqueue, Push
  <2>4. AnsweredInTurn'
    BY <1>7, <1>0 DEF TypeOK, Attached, AnsweredInTurn, Enqueue, Push
  <2> QED BY <2>1, <2>2, <2>3, <2>4
<1>8. CASE EnqueueRefused(c)
  <2>1. AttachedByKey'
    BY <1>8, <1>0 DEF TypeOK, Attached, AttachedByKey, EnqueueRefused
  <2>2. AttachedOnce'
    BY <1>8, <1>0 DEF TypeOK, Attached, AttachedOnce, EnqueueRefused
  <2>3. BatchOfWaiters'
    BY <1>8, <1>0 DEF TypeOK, BatchOfWaiters, EnqueueRefused
  <2>4. AnsweredInTurn'
    BY <1>8, <1>0 DEF TypeOK, Attached, AnsweredInTurn, EnqueueRefused
  <2> QED BY <2>1, <2>2, <2>3, <2>4
<1>9. CASE UndoRegister(c)
  <2>1. AttachedByKey'
    BY <1>9, <1>0
    DEF TypeOK, Attached, AttachedByKey, UndoRegister, Forget, TaskInOnePlace, TableHasTasks, Held
  <2>2. AttachedOnce'
    BY <1>9, <1>0
    DEF TypeOK, Attached, AttachedOnce, UndoRegister, Forget, TaskInOnePlace, TableHasTasks, Held
  <2>3. BatchOfWaiters'
    BY <1>9, <1>0 DEF TypeOK, BatchOfWaiters, UndoRegister, Forget, TaskInOnePlace, TableHasTasks, Held
  <2>4. AnsweredInTurn'
    BY <1>9, <1>0
    DEF TypeOK, Attached, AnsweredInTurn, UndoRegister, Forget, TaskInOnePlace, TableHasTasks, Held
  <2> QED BY <2>1, <2>2, <2>3, <2>4
<1>10. CASE Receive(c)
  <2>1. AttachedByKey'
    BY <1>10, <1>0 DEF TypeOK, Attached, AttachedByKey, Receive
  <2>2. AttachedOnce'
    BY <1>10, <1>0 DEF TypeOK, Attached, AttachedOnce, Receive
  <2>3. BatchOfWaiters'
    BY <1>10, <1>0 DEF TypeOK, BatchOfWaiters, Receive
  <2>4. AnsweredInTurn'
    BY <1>10, <1>0 DEF TypeOK, Attached, AnsweredInTurn, Receive
  <2> QED BY <2>1, <2>2, <2>3, <2>4
<1>11. CASE Cancel(c)
  <2>1. AttachedByKey'
    BY <1>11, <1>0 DEF TypeOK, Attached, AttachedByKey, Cancel
  <2>2. AttachedOnce'
    BY <1>11, <1>0 DEF TypeOK, Attached, AttachedOnce, Cancel
  <2>3. BatchOfWaiters'
    BY <1>11, <1>0 DEF TypeOK, BatchOfWaiters, Cancel
  <2>4. AnsweredInTurn'
    BY <1>11, <1>0 DEF TypeOK, Attached, AnsweredInTurn, Cancel
  <2> QED BY <2>1, <2>2, <2>3, <2>4
<1> QED BY <1>1, <1>2, <1>3, <1>4, <1>5, <1>6, <1>7, <1>8, <1>9, <1>10, <1>11 DEF Call

\* Workers keep the invariant.
LEMMA WorkServes ==
    ASSUME Serving, NEW w \in Workers, Work(w)
    PROVE  AttachedByKey' /\ AttachedOnce' /\ BatchOfWaiters' /\ AnsweredInTurn'
<1> USE CallersAssumption DEF Serving, Attended, Inductive, Move, callVars, taskVars, chanVars, countVars, workVars
<1>0. /\ wpc[w] \in {"start", "exec", "finish", "requeue", "undo"} =>
            /\ hand[w] \in Callers /\ Held(hand[w])
            /\ pc[hand[w]] \notin {"attach", "slot", "register", "enqueue", "undo"}
            /\ \A v \in Workers : hand[v] = hand[w] => v = w
      /\ closing = "drained" => wpc[w] = "stopped"
  BY InHand DEF TableHasTasks
<1>1. CASE PollHigh(w)
  <2>1. AttachedByKey'
    BY <1>1, <1>0 DEF TypeOK, Attached, AttachedByKey, PollHigh, Take
  <2>2. AttachedOnce'
    BY <1>1, <1>0 DEF TypeOK, Attached, AttachedOnce, PollHigh, Take
  <2>3. BatchOfWaiters'
    BY <1>1, <1>0 DEF TypeOK, BatchOfWaiters, PollHigh, Take
  <2>4. AnsweredInTurn'
    BY <1>1, <1>0 DEF TypeOK, Attached, AnsweredInTurn, PollHigh, Take
  <2> QED BY <2>1, <2>2, <2>3, <2>4
<1>2. CASE SelectHigh(w)
  <2>1. AttachedByKey'
    BY <1>2, <1>0 DEF TypeOK, Attached, AttachedByKey, SelectHigh, Take
  <2>2. AttachedOnce'
    BY <1>2, <1>0 DEF TypeOK, Attached, AttachedOnce, SelectHigh, Take
  <2>3. BatchOfWaiters'
    BY <1>2, <1>0 DEF TypeOK, BatchOfWaiters, SelectHigh, Take
  <2>4. AnsweredInTurn'
    BY <1>2, <1>0 DEF TypeOK, Attached, AnsweredInTurn, SelectHigh, Take
  <2> QED BY <2>1, <2>2, <2>3, <2>4
<1>3. CASE SelectNormal(w)
  <2>1. AttachedByKey'
    BY <1>3, <1>0 DEF TypeOK, Attached, AttachedByKey, SelectNormal, Take
  <2>2. AttachedOnce'
    BY <1>3, <1>0 DEF TypeOK, Attached, AttachedOnce, SelectNormal, Take
  <2>3. BatchOfWaiters'
    BY <1>3, <1>0 DEF TypeOK, BatchOfWaiters, SelectNormal, Take
  <2>4. AnsweredInTurn'
    BY <1>3, <1>0 DEF TypeOK, Attached, AnsweredInTurn, SelectNormal, Take
  <2> QED BY <2>1, <2>2, <2>3, <2>4
<1>4. CASE SelectDone(w)
  <2>1. AttachedByKey'
    BY <1>4, <1>0 DEF TypeOK, Attached, AttachedByKey, SelectDone
  <2>2. AttachedOnce'
    BY <1>4, <1>0 DEF TypeOK, Attached, AttachedOnce, SelectDone
  <2>3. BatchOfWaiters'
    BY <1>4, <1>0 DEF TypeOK, BatchOfWaiters, SelectDone
  <2>4. AnsweredInTurn'
    BY <1>4, <1>0 DEF TypeOK, Attached, AnsweredInTurn, SelectDone
  <2> QED BY <2>1, <2>2, <2>3, <2>4
<1>5. CASE DropAbandoned(w)
  <2>1. AttachedByKey'
    BY <1>5, <1>0 DEF TypeOK, Attached, AttachedByKey, DropAbandoned, Forget, TableHasTasks
  <2>2. AttachedOnce'
    BY <1>5, <1>0 DEF TypeOK, Attached, AttachedOnce, DropAbandoned, Forget, TableHasTasks
  <2>3. BatchOfWaiters'
    BY <1>5, <1>0 DEF TypeOK, BatchOfWaiters, DropAbandoned, Forget, TableHasTasks
  <2>4. AnsweredInTurn'
    BY <1>5, <1>0 DEF TypeOK, Attached, AnsweredInTurn, DropAbandoned, Forget, TableHasTasks
  <2> QED BY <2>1, <2>2, <2>3, <2>4
<1>6. CASE Start(w)
  <2>1. AttachedByKey'
    BY <1>6, <1>0 DEF TypeOK, Attached, AttachedByKey, Start, Active
  <2>2. AttachedOnce'
    BY <1>6, <1>0 DEF TypeOK, Attached, AttachedOnce, Start, Active
  <2>3. BatchOfWaiters'
    BY <1>6, <1>0 DEF TypeOK, BatchOfWaiters, Start, Active
  <2>4. AnsweredInTurn'
    BY <1>6, <1>0 DEF TypeOK, Attached, AnsweredInTurn, Start, Active
  <2> QED BY <2>1, <2>2, <2>3, <2>4
<1>7. CASE Deliver(w)
  <2>1. AttachedByKey'
    BY <1>7, <1>0
    DEF TypeOK, Attached, AttachedByKey, Deliver, Recipients, AttachedInTurn, AttachedOnce,
        BatchOfWaiters
  <2>2. AttachedOnce'
    BY <1>7, <1>0
    DEF TypeOK, Attached, AttachedOnce, Deliver, Recipients, AttachedInTurn, AttachedOnce,
        BatchOfWaiters
  <2>3. BatchOfWaiters'
    BY <1>7, <1>0
    DEF TypeOK, BatchOfWaiters, Deliver, Recipients, AttachedInTurn, AttachedOnce, BatchOfWaiters
  <2>4. AnsweredInTurn'
    BY <1>7, <1>0
    DEF TypeOK, Attached, AnsweredInTurn, Deliver, Recipients, AttachedInTurn, AttachedOnce,
        BatchOfWaiters
  <2> QED BY <2>1, <2>2, <2>3, <2>4
<1>8. CASE Finish(w)
  <2>1. AttachedByKey'
    BY <1>8, <1>0 DEF TypeOK, Attached, AttachedByKey, Finish, Forget, TableHasTasks
  <2>2. AttachedOnce'
    BY <1>8, <1>0 DEF TypeOK, Attached, AttachedOnce, Finish, Forget, TableHasTasks
  <2>3. BatchOfWaiters'
    BY <1>8, <1>0 DEF TypeOK, BatchOfWaiters, Finish, Forget, TableHasTasks
  <2>4. AnsweredInTurn'
    BY <1>8, <1>0 DEF TypeOK, Attached, AnsweredInTurn, Finish, Forget, TableHasTasks
  <2> QED BY <2>1, <2>2, <2>3, <2>4
<1>9. CASE Prepare(w)
  <2>1. AttachedByKey'
    BY <1>9, <1>0 DEF TypeOK, Attached, AttachedByKey, Prepare, NextRound, Active, AttachedOnce
  <2>2. AttachedOnce'
    BY <1>9, <1>0 DEF TypeOK, Attached, AttachedOnce, Prepare, NextRound, Active, AttachedOnce
  <2>3. BatchOfWaiters'
    BY <1>9, <1>0 DEF TypeOK, BatchOfWaiters, Prepare, NextRound, Active, AttachedOnce
  <2>4. AnsweredInTurn'
    BY <1>9, <1>0 DEF TypeOK, Attached, AnsweredInTurn, Prepare, NextRound, Active, AttachedOnce
  <2> QED BY <2>1, <2>2, <2>3, <2>4
<1>10. CASE Requeue(w)
  <2>1. AttachedByKey'
    BY <1>10, <1>0 DEF TypeOK, Attached, AttachedByKey, Requeue, Push
  <2>2. AttachedOnce'
    BY <1>10, <1>0 DEF TypeOK, Attached, AttachedOnce, Requeue, Push
  <2>3. BatchOfWaiters'
    BY <1>10, <1>0 DEF TypeOK, BatchOfWaiters, Requeue, Push
  <2>4. AnsweredInTurn'
    BY <1>10, <1>0 DEF TypeOK, Attached, AnsweredInTurn, Requeue, Push
  <2> QED BY <2>1, <2>2, <2>3, <2>4
<1>11. CASE RequeueRefused(w)
  <2>1. AttachedByKey'
    BY <1>11, <1>0 DEF TypeOK, Attached, AttachedByKey, RequeueRefused
  <2>2. AttachedOnce'
    BY <1>11, <1>0 DEF TypeOK, Attached, AttachedOnce, RequeueRefused
  <2>3. BatchOfWaiters'
    BY <1>11, <1>0 DEF TypeOK, BatchOfWaiters, RequeueRefused
  <2>4. AnsweredInTurn'
    BY <1>11, <1>0 DEF TypeOK, Attached, AnsweredInTurn, RequeueRefused
  <2> QED BY <2>1, <2>2, <2>3, <2>4
<1>12. CASE UndoRequeue(w)
  <2>1. AttachedByKey'
    BY <1>12, <1>0
    DEF TypeOK, Attached, AttachedByKey, UndoRequeue, Forget, Cancelled, TableHasTasks,
        AttachedInTurn, AttachedOnce, BatchOfWaiters
  <2>2. AttachedOnce'
    BY <1>12, <1>0
    DEF TypeOK, Attached, AttachedOnce, UndoRequeue, Forget, Cancelled, TableHasTasks,
        AttachedInTurn, AttachedOnce, BatchOfWaiters
  <2>3. BatchOfWaiters'
    BY <1>12, <1>0
    DEF TypeOK, BatchOfWaiters, UndoRequeue, Forget, Cancelled, TableHasTasks, AttachedInTurn,
        AttachedOnce, BatchOfWaiters
  <2>4. AnsweredInTurn'
    BY <1>12, <1>0
    DEF TypeOK, Attached, AnsweredInTurn, UndoRequeue, Forget, Cancelled, TableHasTasks,
        AttachedInTurn, AttachedOnce, BatchOfWaiters
  <2> QED BY <2>1, <2>2, <2>3, <2>4
<1> QED BY <1>1, <1>2, <1>3, <1>4, <1>5, <1>6, <1>7, <1>8, <1>9, <1>10, <1>11, <1>12 DEF Work

\* Close keeps the invariant.
LEMMA CloseServes ==
    ASSUME Serving, BeginClose \/ Drain
    PROVE  AttachedByKey' /\ AttachedOnce' /\ BatchOfWaiters' /\ AnsweredInTurn'
<1> USE DEF Serving, callVars, taskVars, chanVars, countVars, workVars
<1>1. CASE BeginClose
  BY <1>1 DEF BeginClose, Closed, AttachedByKey, AttachedOnce, BatchOfWaiters, AnsweredInTurn, Attached
<1>2. CASE Drain
  <2>1. UNCHANGED <<pc, key, waiters, follow, wpc, hand, batch>> /\ closing' = "drained"
    BY <1>2 DEF Drain
  <2>2. AttachedByKey' /\ AttachedOnce' /\ BatchOfWaiters'
    BY <2>1 DEF AttachedByKey, AttachedOnce, BatchOfWaiters, Attached
  <2>3. ASSUME NEW c \in Callers, pc[c] \in {"attach", "slot", "register"} PROVE answer'[c] = "none"
    <3>1. \A t \in Known : c \notin Attached(t)
      BY <2>3 DEF Attended, Inductive, TypeOK, AttachedInTurn, Known
    <3> QED BY <1>2, <2>3, <3>1 DEF Drain, DrainAnswer, Cancelled, AnsweredInTurn
  <2> QED BY <2>1, <2>2, <2>3 DEF AnsweredInTurn
<1> QED BY <1>1, <1>2

\* The invariant holds throughout.
LEMMA InitServes == ASSUME Init PROVE Serving
<1>1. Inductive
  BY InitInductive
<1>2. Attended
  BY <1>1 DEF Init, Attended, AttachedInTurn, WaitersInBatch, UndoneWhenClosed, NoWaiterLost, Attached
<1> QED BY <1>2 DEF Init, Serving, AttachedByKey, AttachedOnce, BatchOfWaiters, AnsweredInTurn, Attached

LEMMA StepServes == ASSUME Serving, [Next]_vars PROVE Serving'
<1>1. Attended'
  BY StepAttends DEF Serving
<1>2. CASE UNCHANGED vars
  BY <1>1, <1>2 DEF Serving, AttachedByKey, AttachedOnce, BatchOfWaiters, AnsweredInTurn, Attached,
                    vars, callVars, taskVars, chanVars, countVars, workVars
<1> QED BY <1>1, <1>2, CallServes, WorkServes, CloseServes DEF Next, Serving

-----------------------------------------------------------------------------
(* The refinement mapping, part by part.                                   *)

Phases  == [c \in Callers |-> Phase(c)]
Flights == [k \in Keys |-> Flight(k)]

\* Workers that hold a task of one key are one worker.
LEMMA OneServer ==
    ASSUME Inductive, NEW v \in Workers, NEW w \in Workers,
           hand[v] # NoTask, hand[w] # NoTask, key[hand[v]] = key[hand[w]]
    PROVE  v = w
<1>1. /\ hand[v] \in Callers /\ hand[w] \in Callers
      /\ wpc[v] # "stopped"
  BY DEF Inductive, TypeOK
<1>2. closing # "drained" /\ Held(hand[v]) /\ Held(hand[w])
  BY <1>1 DEF Inductive, TableHasTasks, Held
<1>3. hand[v] = hand[w]
  BY <1>1, <1>2 DEF Inductive, TableHasTasks
<1> QED BY <1>3 DEF Inductive, TaskInOnePlace

\* What leaves a mapped variable alone.
LEMMA SamePhases ==
    ASSUME answer' = answer, \A c \in Callers : pc'[c] = "idle" <=> pc[c] = "idle"
    PROVE  Phases' = Phases
  BY DEF Phases, Phase

LEMMA SameFlights ==
    ASSUME \A w \in Workers : /\ wpc'[w] = "exec" <=> wpc[w] = "exec"
                              /\ wpc[w] = "exec" => /\ key'[hand'[w]] = key[hand[w]]
                                                    /\ batch'[w] = batch[w]
    PROVE  Flights' = Flights
<1>1. ASSUME NEW k \in Keys PROVE Flight(k)' = Flight(k)
  BY DEF Flight
<1> QED BY <1>1 DEF Flights

\* An execution serves the batch of its worker.
LEMMA FlightOfWorker ==
    ASSUME Inductive, NEW w \in Workers, wpc[w] = "exec"
    PROVE  Flight(key[hand[w]]) = batch[w]
<1>1. \A v \in Workers : wpc[v] = "exec" => hand[v] # NoTask
  BY DEF Inductive, TypeOK
<1>2. \A v \in Workers : wpc[v] = "exec" /\ key[hand[v]] = key[hand[w]] => v = w
  BY <1>1, OneServer
<1> QED BY <1>2 DEF Flight

\* Each step of a call is a step of the service or changes nothing there.
LEMMA CallMaps ==
    ASSUME Serving, NEW c \in Callers, Call(c)
    PROVE  \/ \E k \in Keys : Service!Ask(c, k)
           \/ Service!Leave(c)
           \/ UNCHANGED <<key, Phases, Flights>>
<1> USE DEF Serving, Attended, Inductive, Goto, callVars, taskVars, chanVars, countVars, workVars
<1>1. CASE \E k \in Keys : Submit(c, k)
  <2> PICK k \in Keys : Submit(c, k)
    BY <1>1
  <2>1. pc[c] = "idle" /\ \A w \in Workers : hand[w] # c /\ c \notin batch[w]
    BY DEF Submit, Unreferenced
  <2>2. Flights' = Flights
    <3>1. \A w \in Workers : key'[hand[w]] = key[hand[w]] \/ wpc[w] # "exec"
      BY <2>1 DEF Submit, TypeOK
    <3> QED BY <3>1, SameFlights DEF Submit
  <2>3. Phases' = [Phases EXCEPT ![c] = "asked"]
    BY <2>1 DEF Submit, Phases, Phase, TypeOK
  <2>4. Phases[c] = "out" /\ \A j \in Keys : c \notin Flights[j]
    BY <2>1 DEF Phases, Phase, Flights, Flight
  <2>5. key' = [key EXCEPT ![c] = k]
    BY DEF Submit
  <2> QED BY <2>2, <2>3, <2>4, <2>5 DEF Service!Ask, Phases, Flights
<1>2. ASSUME UNCHANGED <<key, answer, workVars>>, pc[c] # "idle", pc'[c] # "idle",
             \A a \in Callers : a # c => pc'[a] = pc[a]
      PROVE  UNCHANGED <<key, Phases, Flights>>
  BY <1>2, SamePhases, SameFlights
<1>3. ASSUME UNCHANGED <<key, workVars>>, pc' = [pc EXCEPT ![c] = "idle"],
             \A a \in Callers : a # c => answer'[a] = answer[a]
      PROVE  Service!Leave(c)
  <2>1. Phases' = [Phases EXCEPT ![c] = "out"]
    BY <1>3 DEF Phases, Phase, TypeOK
  <2>2. Flights' = Flights
    BY <1>3, SameFlights
  <2> QED BY <1>3, <2>1, <2>2 DEF Service!Leave, Phases, Flights
<1>4. CASE \E p \in Priorities : AttachExisting(c, p) \/ RegisterLate(c, p) \/ Register(c, p)
  BY <1>2, <1>4 DEF AttachExisting, RegisterLate, Register, TypeOK
<1>5. CASE AcquireSlot(c) \/ Enqueue(c) \/ EnqueueRefused(c) \/ Cancel(c)
  BY <1>2, <1>5 DEF AcquireSlot, Enqueue, EnqueueRefused, Cancel, TypeOK
<1>6. CASE GiveUp(c) \/ UndoRegister(c) \/ Receive(c)
  BY <1>3, <1>6 DEF GiveUp, UndoRegister, Receive, TypeOK
<1> QED BY <1>1, <1>4, <1>5, <1>6 DEF Call

\* Each step of a worker is a step of the service or changes nothing there.
LEMMA WorkMaps ==
    ASSUME Serving, NEW w \in Workers, Work(w)
    PROVE  \/ \E k \in Keys, S \in SUBSET Callers : Service!Start(k, S) \/ Service!End(k, S)
           \/ \E k \in Keys : Service!Abandon(k)
           \/ \E S \in SUBSET Callers : Service!Refuse(S)
           \/ UNCHANGED <<key, Phases, Flights>>
<1> USE DEF Serving, Attended, Inductive, Move, callVars, taskVars, chanVars, countVars, workVars
<1> DEFINE t == hand[w]
           k == key[t]
<1>0. wpc[w] \in {"start", "exec", "finish", "requeue", "undo"} =>
        /\ t \in Callers /\ k \in Keys
        /\ closing # "drained"
        /\ \A v \in Workers : hand[v] = t => v = w
        /\ \A v \in Workers : v # w /\ wpc[v] = "exec" => key[hand[v]] # k
  <2> SUFFICES ASSUME wpc[w] \in {"start", "exec", "finish", "requeue", "undo"}
               PROVE  /\ t \in Callers /\ k \in Keys
                      /\ closing # "drained"
                      /\ \A v \in Workers : hand[v] = t => v = w
                      /\ \A v \in Workers : v # w /\ wpc[v] = "exec" => key[hand[v]] # k
    OBVIOUS
  <2>1. t \in Callers /\ k \in Keys /\ t # NoTask
    BY HandType, CallersAssumption DEF TypeOK
  <2>2. closing # "drained"
    BY DEF TableHasTasks
  <2>3. \A v \in Workers : hand[v] = t => v = w
    BY <2>1 DEF TaskInOnePlace
  <2>4. \A v \in Workers : wpc[v] = "exec" => hand[v] # NoTask
    BY DEF TypeOK
  <2>5. \A v \in Workers : v # w /\ wpc[v] = "exec" => key[hand[v]] # k
    BY <2>1, <2>4, OneServer
  <2> QED BY <2>1, <2>2, <2>3, <2>5
<1>1. ASSUME UNCHANGED <<pc, key, answer>>, wpc[w] # "exec", wpc'[w] # "exec",
             \A v \in Workers : v # w => wpc'[v] = wpc[v] /\ hand'[v] = hand[v] /\ batch'[v] = batch[v]
      PROVE  UNCHANGED <<key, Phases, Flights>>
  BY <1>1, SamePhases, SameFlights
<1>2. CASE PollHigh(w) \/ SelectHigh(w) \/ SelectNormal(w) \/ SelectDone(w)
  BY <1>1, <1>2 DEF PollHigh, SelectHigh, SelectNormal, SelectDone, Take, TypeOK
<1>3. CASE DropAbandoned(w) \/ Finish(w) \/ Prepare(w) \/ Requeue(w) \/ RequeueRefused(w)
  BY <1>1, <1>3 DEF DropAbandoned, Finish, Prepare, Requeue, RequeueRefused, TypeOK
<1>4. CASE Start(w)
  <2> DEFINE S == Active(waiters[t])
  <2>1. wpc[w] = "start" /\ S # {} /\ S \subseteq waiters[t] /\ S \in SUBSET Callers
    BY <1>4, <1>0 DEF Start, Active, TypeOK
  <2>2. ASSUME NEW c \in S PROVE key[c] = k /\ Phases[c] \in {"asked", "out"}
    <3>1. c \in Attached(t) /\ c \in Callers
      BY <2>1 DEF Attached
    <3>2. ~\E v \in Workers : hand[v] = t /\ wpc[v] = "finish"
      BY <1>0, <2>1
    <3>3. pc[c] # "idle" => answer[c] = "none"
      BY <1>0, <2>1, <3>1, <3>2 DEF AnsweredInTurn
    <3> QED BY <1>0, <2>1, <3>1, <3>3 DEF AttachedByKey, Phases, Phase
  <2>3. Flights[k] = {}
    BY <1>0, <2>1 DEF Flights, Flight
  <2>4. Flights' = [Flights EXCEPT ![k] = S]
    <3>1. /\ wpc' = [wpc EXCEPT ![w] = "exec"] /\ batch' = [batch EXCEPT ![w] = S]
          /\ hand' = hand /\ key' = key
      BY <1>4 DEF Start
    <3>2. ASSUME NEW j \in Keys, j = k PROVE Flight(j)' = S
      <4>1. {v \in Workers : wpc'[v] = "exec" /\ key[hand[v]] = j} = {w}
        BY <1>0, <2>1, <3>1, <3>2 DEF TypeOK
      <4> QED BY <3>1, <4>1 DEF Flight, TypeOK
    <3>3. ASSUME NEW j \in Keys, j # k PROVE Flight(j)' = Flight(j)
      <4>1. {v \in Workers : wpc'[v] = "exec" /\ key[hand[v]] = j} =
            {v \in Workers : wpc[v] = "exec" /\ key[hand[v]] = j}
        BY <2>1, <3>1, <3>3 DEF TypeOK
      <4> HIDE DEF S
      <4>2. \A v \in Workers : wpc[v] = "exec" => batch'[v] = batch[v]
        BY <2>1, <3>1 DEF TypeOK
      <4> QED BY <3>1, <4>1, <4>2 DEF Flight
    <3> HIDE DEF S, k
    <3>4. Flights' = [j \in Keys |-> IF j = k THEN S ELSE Flight(j)]
      BY <3>2, <3>3 DEF Flights
    <3> QED BY <3>4 DEF Flights
  <2>5. UNCHANGED <<key, Phases>>
    BY <1>4, SamePhases DEF Start
  <2>6. Service!Start(k, S)
    <3> HIDE DEF S
    <3> QED BY <1>0, <2>1, <2>2, <2>3, <2>4, <2>5 DEF Service!Start, Phases, Flights
  <2> QED BY <1>0, <2>1, <2>6
<1>5. CASE Deliver(w)
  <2>1. /\ wpc[w] = "exec" /\ batch[w] \subseteq waiters[t] /\ batch[w] \in SUBSET Callers
        /\ Flights[k] = batch[w]
    BY <1>5, <1>0, FlightOfWorker DEF Deliver, BatchOfWaiters, Flights, TypeOK
  <2>2. Flights' = [Flights EXCEPT ![k] = {}]
    <3>1. /\ wpc' = [wpc EXCEPT ![w] = "finish"] /\ batch' = [batch EXCEPT ![w] = {}]
          /\ hand' = hand /\ key' = key
      BY <1>5 DEF Deliver
    <3>2. ASSUME NEW j \in Keys, j = k PROVE Flight(j)' = {}
      BY <1>0, <2>1, <3>1, <3>2 DEF Flight, TypeOK
    <3>3. ASSUME NEW j \in Keys, j # k PROVE Flight(j)' = Flight(j)
      <4>1. {v \in Workers : wpc'[v] = "exec" /\ key[hand[v]] = j} =
            {v \in Workers : wpc[v] = "exec" /\ key[hand[v]] = j}
        BY <2>1, <3>1, <3>3 DEF TypeOK
      <4>2. \A v \in Workers : key[hand[v]] = j => batch'[v] = batch[v]
        BY <3>1, <3>3 DEF TypeOK
      <4> QED BY <3>1, <4>1, <4>2 DEF Flight
    <3> HIDE DEF k
    <3>4. Flights' = [j \in Keys |-> IF j = k THEN {} ELSE Flight(j)]
      BY <3>2, <3>3 DEF Flights
    <3> QED BY <3>4 DEF Flights
  <2> PICK left \in SUBSET (batch[w] \cap cancelled) :
        answer' = [c \in Callers |-> IF c \in batch[w] \ left /\ pc[c] = "waiting"
                                     THEN "result" ELSE answer[c]]
    BY <1>5 DEF Deliver, Recipients
  <2> DEFINE S == {c \in batch[w] \ left : pc[c] = "waiting"}
  <2>3. S \subseteq batch[w] /\ S \in SUBSET Callers
    BY <2>1
  <2>4. ASSUME NEW c \in S PROVE Phases[c] = "asked"
    <3>1. c \in Attached(t) /\ c \in Callers /\ pc[c] = "waiting"
      BY <2>1 DEF Attached
    <3>2. ~\E v \in Workers : hand[v] = t /\ wpc[v] = "finish"
      BY <1>0, <2>1
    <3> QED BY <1>0, <2>1, <3>1, <3>2 DEF AnsweredInTurn, Phases, Phase
  <2>5. Phases' = [c \in Callers |-> IF c \in S /\ Phases[c] = "asked" THEN "served" ELSE Phases[c]]
    <3>1. pc' = pc
      BY <1>5 DEF Deliver
    <3>2. ASSUME NEW c \in S PROVE Phase(c)' = "served"
      BY <2>3, <3>1, <3>2 DEF Phase
    <3>3. ASSUME NEW c \in Callers, c \notin S PROVE Phase(c)' = Phase(c)
      BY <3>1, <3>3 DEF Phase
    <3> HIDE DEF S
    <3> QED BY <2>3, <2>4, <3>2, <3>3 DEF Phases
  <2>6. key' = key
    BY <1>5 DEF Deliver
  <2> HIDE DEF S
  <2>7. CASE S # {}
    <3>1. Service!End(k, S)
      BY <1>0, <2>1, <2>2, <2>3, <2>5, <2>6, <2>7 DEF Service!End, Phases, Flights
    <3> QED BY <1>0, <2>1, <2>3, <3>1
  <2>8. CASE S = {} /\ batch[w] # {}
    <3>1. Phases' = Phases
      BY <2>5, <2>8 DEF Phases
    <3>2. Service!Abandon(k)
      BY <1>0, <2>1, <2>2, <2>6, <2>8, <3>1 DEF Service!Abandon, Phases, Flights
    <3> QED BY <1>0, <2>1, <3>2
  <2>9. CASE S = {} /\ batch[w] = {}
    <3>1. Phases' = Phases
      BY <2>5, <2>9 DEF Phases
    <3>2. Flights' = Flights
      BY <2>1, <2>2, <2>9 DEF Flights
    <3> QED BY <2>6, <3>1, <3>2
  <2> QED BY <2>7, <2>8, <2>9
<1>6. CASE UndoRequeue(w)
  <2> DEFINE S == {c \in batch[w] : answer[c] = "none" /\ pc[c] # "idle"}
  <2>1. wpc[w] = "undo" /\ wpc'[w] = "poll" /\ UNCHANGED <<pc, key>>
    BY <1>6 DEF UndoRequeue, TypeOK
  <2>2. Flights' = Flights
    BY <1>6, <2>1, SameFlights DEF UndoRequeue, TypeOK
  <2>3. batch[w] \subseteq waiters[t] /\ S \in SUBSET Callers
    BY <2>1 DEF BatchOfWaiters, TypeOK
  <2>4. \A c \in S : Phases[c] = "asked" /\ \A j \in Keys : c \notin Flights[j]
    <3> SUFFICES ASSUME NEW c \in S, NEW j \in Keys
                 PROVE  Phases[c] = "asked" /\ c \notin Flights[j]
      BY <1>0, <2>1
    <3>1. Phases[c] = "asked"
      BY <2>3 DEF Phases, Phase
    <3>2. ASSUME NEW v \in Workers, wpc[v] = "exec", c \in batch[v] PROVE FALSE
      <4>1. hand[v] \in Callers /\ c \in waiters[hand[v]] /\ c \in waiters[t] /\ c \in Callers
        BY <2>3, <3>2, HandType DEF BatchOfWaiters
      <4>2. hand[v] = t
        BY <1>0, <2>1, <4>1 DEF AttachedOnce, Attached
      <4> QED BY <1>0, <2>1, <3>2, <4>2
    <3> QED BY <3>1, <3>2 DEF Flights, Flight
  <2>5. Phases' = [c \in Callers |-> IF c \in S THEN "refused" ELSE Phases[c]]
    <3>1. answer' = [c \in Callers |->
                        IF c \in batch[w] /\ answer[c] = "none" THEN "canceled" ELSE answer[c]]
      BY <1>6 DEF UndoRequeue, Cancelled
    <3>2. ASSUME NEW c \in S PROVE Phase(c)' = "refused"
      BY <2>1, <2>3, <3>1, <3>2 DEF Phase
    <3>3. ASSUME NEW c \in Callers, c \notin S PROVE Phase(c)' = Phase(c)
      BY <2>1, <3>1, <3>3 DEF Phase
    <3> HIDE DEF S
    <3> QED BY <2>3, <3>2, <3>3 DEF Phases
  <2>6. Service!Refuse(S)
    <3> HIDE DEF S
    <3> QED BY <2>1, <2>2, <2>4, <2>5 DEF Service!Refuse, Phases, Flights
  <2> QED BY <2>3, <2>6
<1> QED BY <1>2, <1>3, <1>4, <1>5, <1>6 DEF Work

\* So is each step of Close.
LEMMA CloseMaps ==
    ASSUME Serving, BeginClose \/ Drain
    PROVE  (\E S \in SUBSET Callers : Service!Refuse(S)) \/ UNCHANGED <<key, Phases, Flights>>
<1> USE DEF Serving, Attended, Inductive, callVars, taskVars, chanVars, countVars, workVars
<1>1. CASE BeginClose
  BY <1>1, SamePhases, SameFlights DEF BeginClose
<1>2. CASE Drain
  <2> DEFINE D == UNION {Attached(t) : t \in Known}
             S == {c \in D : answer[c] = "none" /\ pc[c] # "idle"}
  <2>1. /\ UNCHANGED <<pc, key, wpc, hand, batch>>
        /\ answer' = [c \in Callers |-> IF c \in D /\ answer[c] = "none" THEN "canceled" ELSE answer[c]]
        /\ \A w \in Workers : wpc[w] # "exec"
    BY <1>2 DEF Drain, DrainAnswer, Cancelled
  <2>2. D \subseteq Callers
    BY DEF Attached, Known, TypeOK
  <2> HIDE DEF D
  <2>3. Flights' = Flights
    BY <2>1, SameFlights
  <2>4. \A c \in S : Phases[c] = "asked" /\ \A j \in Keys : c \notin Flights[j]
    BY <2>1, <2>2 DEF Phases, Phase, Flights, Flight
  <2>5. Phases' = [c \in Callers |-> IF c \in S THEN "refused" ELSE Phases[c]]
    <3>1. ASSUME NEW c \in S PROVE Phase(c)' = "refused"
      BY <2>1, <2>2, <3>1 DEF Phase
    <3>2. ASSUME NEW c \in Callers, c \notin S PROVE Phase(c)' = Phase(c)
      BY <2>1, <3>2 DEF Phase
    <3> HIDE DEF S
    <3> QED BY <2>2, <3>1, <3>2 DEF Phases
  <2>6. Service!Refuse(S)
    <3> HIDE DEF S
    <3> QED BY <2>1, <2>3, <2>4, <2>5 DEF Service!Refuse, Phases, Flights
  <2> QED BY <2>2, <2>6
<1> QED BY <1>1, <1>2

(* The scheduler implements the single-flight service: every step of       *)
(* Submit, run and Close is one of its steps or invisible there, so a call *)
(* is answered once, and by an execution of its key that began after it.   *)
THEOREM ImplementsServiceCorrect == Spec => ImplementsService
<1>1. Init => Service!Init
  BY DEF Init, Service!Init, Phase, Flight
<1>2. Init => Serving
  BY InitServes
<1>3. Serving /\ [Next]_vars => Serving'
  BY StepServes
<1>4. Serving /\ [Next]_vars => [Service!Next]_<<key, Phases, Flights>>
  <2> SUFFICES ASSUME Serving, [Next]_vars PROVE [Service!Next]_<<key, Phases, Flights>>
    OBVIOUS
  <2>1. CASE UNCHANGED vars
    BY <2>1, SamePhases, SameFlights DEF vars, callVars, workVars
  <2> QED BY <2>1, CallMaps, WorkMaps, CloseMaps DEF Next, Service!Next
<1>5. Serving /\ [Next]_vars =>
        [Service!Next]_<<key, [c \in Callers |-> Phase(c)], [k \in Keys |-> Flight(k)]>>
  BY <1>4 DEF Phases, Flights
<1> QED BY <1>1, <1>2, <1>3, <1>5, PTL DEF Spec, ImplementsService, Service!Spec
=============================================================================
