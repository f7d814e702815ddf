--------------------------- MODULE ProbeScheduler ---------------------------
(***************************************************************************)
(* The probe scheduler of the importer (importer/probe_scheduler.go): a    *)
(* bounded pool of workers that executes health probes.  Submissions with  *)
(* the key of a task that is already known are attached to that task (or,  *)
(* when it is being executed, to its single follow-up), so that one key is *)
(* never probed twice at the same time.                                    *)
(*                                                                         *)
(* A call of Submit, its context and its answer channel are one member of  *)
(* Callers.  The task a call creates is named by the call.  Once a call is *)
(* over and nothing refers to it the name stands for a later call, so a    *)
(* behaviour holds an unbounded number of submissions.                     *)
(*                                                                         *)
(* One action is one critical section of s.mu, one channel operation or    *)
(* one return.  The receive "<-s.slots" that follows a critical section is *)
(* made with it: it never blocks (the slot is held) and only enables other *)
(* callers.                                                                *)
(***************************************************************************)
EXTENDS Integers, Sequences, FiniteSets

CONSTANTS
    Callers,   \* concurrent calls of Submit, and the tasks they create
    Keys,      \* probe keys (node + target)
    Workers,   \* worker goroutines
    Capacity,  \* slots: tasks known to the scheduler at any time
    NoTask     \* the nil of s.tasks[key]

ASSUME CallersAssumption  == IsFiniteSet(Callers) /\ NoTask \notin Callers
ASSUME CapacityAssumption == /\ IsFiniteSet(Workers)
                             /\ Capacity \in Nat \ {0}
                             /\ Cardinality(Workers) <= Capacity

VARIABLES
    pc,         \* where each call of Submit is
    key,        \* the key it submits
    cancelled,  \* the calls whose context is done
    answer,     \* what its result channel (capacity 1) holds
    table,      \* s.tasks
    waiters,    \* task.waiters
    follow,     \* task.nextWaiters
    lane,       \* task.priority
    nextLane,   \* task.nextPriority
    busy,       \* the tasks with task.running
    high,       \* the channel s.high
    normal,     \* the channel s.normal
    slots,      \* len(s.slots)
    queued,     \* s.queued
    running,    \* s.running
    wpc,        \* where each worker is
    hand,       \* the task a worker holds
    batch,      \* the local slice of waiters it will answer
    closing     \* progress of Close

callVars  == <<pc, key, cancelled, answer>>
taskVars  == <<table, waiters, follow, lane, nextLane, busy>>
chanVars  == <<high, normal, slots>>
countVars == <<queued, running>>
workVars  == <<wpc, hand, batch>>
vars == <<callVars, taskVars, chanVars, countVars, workVars, closing>>

Priorities == {"normal", "high"}
Answers    == {"none", "result", "canceled"}
CallerPC   == {"idle", "attach", "slot", "register", "enqueue", "undo", "waiting"}
WorkerPC   == {"poll", "select", "start", "exec", "finish", "requeue", "undo", "stopped"}

Closed == closing # "open"

-----------------------------------------------------------------------------
(* The helpers of the scheduler.                                           *)

(* The operator before a definition, where there is one, is that definition *)
(* with a plausible slip; PROJECT.json says which property rules it out.    *)
Occupied(k) == table[k] # NoTask

Attached(t) == waiters[t] \cup follow[t]

Active(s) == s \ cancelled

\* A call that finds its task running came too late for that execution.
NeverLate(t) == FALSE
Late(t) == t \in busy

Higher(p, q) == IF "high" \in {p, q} THEN "high" ELSE "normal"

(* attachLocked: a running task collects the call for its follow-up, a     *)
(* waiting one answers it with its next execution (its lane is kept).      *)
Attach(t, c, p) ==
    IF Late(t)
    THEN /\ follow' = [follow EXCEPT ![t] = @ \cup {c}]
         /\ nextLane' = [nextLane EXCEPT ![t] = Higher(@, p)]
         /\ UNCHANGED waiters
    ELSE /\ waiters' = [waiters EXCEPT ![t] = @ \cup {c}]
         /\ UNCHANGED <<follow, nextLane>>

\* The task object is garbage once it has left the table.
Forget(t) ==
    /\ table'   = [table EXCEPT ![key[t]] = NoTask]
    /\ waiters' = [waiters EXCEPT ![t] = {}]
    /\ follow'  = [follow EXCEPT ![t] = {}]
    /\ lane'    = [lane EXCEPT ![t] = "normal"]
    /\ nextLane' = [nextLane EXCEPT ![t] = "normal"]

\* The send case of enqueue's select: it is ready while the channel has room.
HasRoom(t) == Len(IF lane[t] = "high" THEN high ELSE normal) < Capacity

Push(t) ==
    /\ HasRoom(t)
    /\ \/ /\ lane[t] = "high"
          /\ high' = Append(high, t)
          /\ UNCHANGED normal
       \/ /\ lane[t] = "normal"
          /\ normal' = Append(normal, t)
          /\ UNCHANGED high

Members(s) == {s[i] : i \in 1 .. Len(s)}

\* Nothing in the scheduler refers to this call or to the task it created.
Unreferenced(c) ==
    /\ \A t \in Callers : c \notin Attached(t)
    /\ \A k \in Keys : table[k] # c
    /\ c \notin Members(high) \cup Members(normal)
    /\ \A w \in Workers : hand[w] # c /\ c \notin batch[w]

-----------------------------------------------------------------------------
Init ==
    /\ pc        = [c \in Callers |-> "idle"]
    /\ key       \in {[c \in Callers |-> k] : k \in Keys}
    /\ cancelled = {}
    /\ answer    = [c \in Callers |-> "none"]
    /\ table     = [k \in Keys |-> NoTask]
    /\ waiters   = [t \in Callers |-> {}]
    /\ follow    = [t \in Callers |-> {}]
    /\ lane      = [t \in Callers |-> "normal"]
    /\ nextLane  = [t \in Callers |-> "normal"]
    /\ busy      = {}
    /\ high      = <<>>
    /\ normal    = <<>>
    /\ slots     = 0
    /\ queued    = 0
    /\ running   = 0
    /\ wpc       = [w \in Workers |-> "poll"]
    /\ hand      = [w \in Workers |-> NoTask]
    /\ batch     = [w \in Workers |-> {}]
    /\ closing   = "open"

Goto(c, label) == pc' = [pc EXCEPT ![c] = label]

-----------------------------------------------------------------------------
(* Submit.                                                                 *)

(* A call passes the first check; a call made after Close returns an error. *)
(* Its priority is chosen where it is used, when it joins or makes a task.  *)
Submit(c, k) ==
    /\ pc[c] = "idle"
    /\ Unreferenced(c)
    /\ ~Closed
    /\ Goto(c, "attach")
    /\ key' = [key EXCEPT ![c] = k]
    /\ answer' = [answer EXCEPT ![c] = "none"]
    /\ cancelled' = cancelled \ {c}
    /\ UNCHANGED <<taskVars, chanVars, countVars, workVars, closing>>

\* attachExisting
AttachExisting(c, p) ==
    /\ pc[c] = "attach"
    /\ IF Occupied(key[c])
       THEN Attach(table[key[c]], c, p) /\ Goto(c, "waiting")
       ELSE Goto(c, "slot") /\ UNCHANGED <<waiters, follow, nextLane>>
    /\ UNCHANGED <<key, cancelled, answer, table, lane, busy,
                   chanVars, countVars, workVars, closing>>

SlotFree == slots < Capacity

AcquireSlot(c) ==
    /\ pc[c] = "slot"
    /\ SlotFree
    /\ slots' = slots + 1
    /\ Goto(c, "register")
    /\ UNCHANGED <<key, cancelled, answer, taskVars, high, normal,
                   countVars, workVars, closing>>

\* The other cases of that select: the context or the scheduler is done.
GiveUp(c) ==
    /\ pc[c] = "slot"
    /\ c \in cancelled \/ Closed
    /\ Goto(c, "idle")
    /\ UNCHANGED <<key, cancelled, answer, taskVars, chanVars,
                   countVars, workVars, closing>>

SlotsKept == slots
SlotsReturned == slots - 1

Dequeued == queued - 1

\* A task of the same key appeared while the call waited for its slot.
RegisterLate(c, p) ==
    /\ pc[c] = "register"
    /\ Occupied(key[c])
    /\ Attach(table[key[c]], c, p)
    /\ slots' = SlotsReturned
    /\ Goto(c, "waiting")
    /\ UNCHANGED <<key, cancelled, answer, table, lane, busy,
                   high, normal, countVars, workVars, closing>>

Register(c, p) ==
    /\ pc[c] = "register"
    /\ ~Occupied(key[c])
    /\ table' = [table EXCEPT ![key[c]] = c]
    /\ waiters' = [waiters EXCEPT ![c] = {c}]
    /\ follow' = [follow EXCEPT ![c] = {}]
    /\ lane' = [lane EXCEPT ![c] = p]
    /\ nextLane' = [nextLane EXCEPT ![c] = "normal"]
    /\ queued' = queued + 1
    /\ Goto(c, "enqueue")
    /\ UNCHANGED <<key, cancelled, answer, busy, chanVars, running,
                   workVars, closing>>

Enqueue(c) ==
    /\ pc[c] = "enqueue"
    /\ Push(c)
    /\ Goto(c, "waiting")
    /\ UNCHANGED <<key, cancelled, answer, taskVars, slots, countVars,
                   workVars, closing>>

EnqueueRefused(c) ==
    /\ pc[c] = "enqueue"
    /\ Closed
    /\ Goto(c, "undo")
    /\ UNCHANGED <<key, cancelled, answer, taskVars, chanVars,
                   countVars, workVars, closing>>

(* The refused task leaves the table with every waiter that joined it in   *)
(* the meantime; only the call that created it learns of the refusal.      *)
UndoRegister(c) ==
    /\ pc[c] = "undo"
    /\ Forget(c)
    /\ queued' = Dequeued
    /\ slots' = SlotsReturned
    /\ Goto(c, "idle")
    /\ UNCHANGED <<key, cancelled, answer, busy, high, normal,
                   running, workVars, closing>>

\* The caller takes its answer, or leaves because its context is done.
Receive(c) ==
    /\ pc[c] = "waiting"
    /\ answer[c] # "none" \/ c \in cancelled
    /\ Goto(c, "idle")
    /\ answer' = [answer EXCEPT ![c] = "none"]
    /\ UNCHANGED <<key, cancelled, taskVars, chanVars, countVars,
                   workVars, closing>>

\* The context of a call is cancelled or expires.
Cancel(c) ==
    /\ pc[c] # "idle"
    /\ c \notin cancelled
    /\ cancelled' = cancelled \cup {c}
    /\ UNCHANGED <<pc, key, answer, taskVars, chanVars, countVars,
                   workVars, closing>>

-----------------------------------------------------------------------------
(* The workers.                                                            *)

Move(w, label) == wpc' = [wpc EXCEPT ![w] = label]

Take(w, t) ==
    /\ hand' = [hand EXCEPT ![w] = t]
    /\ Move(w, "start")

\* nextTask, first select: the high channel, without waiting.
PollHigh(w) ==
    /\ wpc[w] = "poll"
    /\ IF high = <<>>
       THEN Move(w, "select") /\ UNCHANGED <<hand, high>>
       ELSE Take(w, Head(high)) /\ high' = Tail(high)
    /\ UNCHANGED <<callVars, taskVars, normal, slots, countVars, batch, closing>>

\* nextTask, second select: any case that is ready.
SelectHigh(w) ==
    /\ wpc[w] = "select"
    /\ high # <<>>
    /\ Take(w, Head(high))
    /\ high' = Tail(high)
    /\ UNCHANGED <<callVars, taskVars, normal, slots, countVars, batch, closing>>

SelectNormal(w) ==
    /\ wpc[w] = "select"
    /\ normal # <<>>
    /\ Take(w, Head(normal))
    /\ normal' = Tail(normal)
    /\ UNCHANGED <<callVars, taskVars, high, slots, countVars, batch, closing>>

DoneInFirstSelect(w) ==
    /\ wpc[w] = "poll"
    /\ Closed /\ high # <<>>
    /\ Move(w, "stopped")
    /\ UNCHANGED <<callVars, taskVars, chanVars, countVars, hand, batch, closing>>

SelectDone(w) ==
    /\ wpc[w] = "select"
    /\ Closed
    /\ Move(w, "stopped")
    /\ UNCHANGED <<callVars, taskVars, chanVars, countVars, hand, batch, closing>>

(* run begins with a test that the task is still the one of the table and  *)
(* is not running.  It never fails (invariant HandIsKnown), so its early   *)
(* return is not an action.                                                *)

\* run, first critical section: every waiter has left, the task is dropped.
DropAbandoned(w) ==
    /\ wpc[w] = "start"
    /\ Active(waiters[hand[w]]) = {}
    /\ Forget(hand[w])
    /\ queued' = Dequeued
    /\ slots' = SlotsReturned
    /\ hand' = [hand EXCEPT ![w] = NoTask]
    /\ Move(w, "poll")
    /\ UNCHANGED <<callVars, busy, high, normal, running, batch, closing>>

\* run, first critical section: the execution starts for the active waiters.
Start(w) ==
    LET t == hand[w] IN
    /\ wpc[w] = "start"
    /\ Active(waiters[t]) # {}
    /\ busy' = busy \cup {t}
    /\ batch' = [batch EXCEPT ![w] = Active(waiters[t])]
    /\ queued' = Dequeued
    /\ running' = running + 1
    /\ Move(w, "exec")
    /\ UNCHANGED <<callVars, table, waiters, follow, lane, nextLane, chanVars,
                   hand, closing>>

BatchAndFollow(w) == batch[w] \cup follow[hand[w]]
Recipients(w) == batch[w]

(* The probe has returned (execute bounds it by a timeout and cancels it   *)
(* when its last waiter leaves) and its result is sent: a waiter whose     *)
(* context is done may or may not get it.  What is left in the channel of  *)
(* a call that has gone is not recorded.                                   *)
Deliver(w) ==
    /\ wpc[w] = "exec"
    /\ \E left \in SUBSET (Recipients(w) \cap cancelled) :
         answer' = [c \in Callers |-> 
                        IF c \in Recipients(w) \ left /\ pc[c] = "waiting"
                        THEN "result" ELSE answer[c]]
    /\ batch' = [batch EXCEPT ![w] = {}]
    /\ Move(w, "finish")
    /\ UNCHANGED <<pc, key, cancelled, taskVars, chanVars, countVars,
                   hand, closing>>

NoNextRound(t) == {}
NextRound(t) == IF Closed THEN {} ELSE Active(follow[t])

\* run, second critical section: nobody asked for a follow-up, or Close did.
Finish(w) ==
    LET t == hand[w] IN
    /\ wpc[w] = "finish"
    /\ NextRound(t) = {}
    /\ Forget(t)
    /\ busy' = busy \ {t}
    /\ running' = running - 1
    /\ slots' = SlotsReturned
    /\ hand' = [hand EXCEPT ![w] = NoTask]
    /\ Move(w, "poll")
    /\ UNCHANGED <<callVars, high, normal, queued, batch, closing>>

\* run, second critical section: the follow-up waits for its own execution.
Prepare(w) ==
    LET t == hand[w] IN
    /\ wpc[w] = "finish"
    /\ NextRound(t) # {}
    /\ waiters' = [waiters EXCEPT ![t] = NextRound(t)]
    /\ follow' = [follow EXCEPT ![t] = {}]
    /\ lane' = [lane EXCEPT ![t] = nextLane[t]]
    /\ nextLane' = [nextLane EXCEPT ![t] = "normal"]
    /\ busy' = busy \ {t}
    /\ running' = running - 1
    /\ queued' = queued + 1
    /\ batch' = [batch EXCEPT ![w] = NextRound(t)]
    /\ Move(w, "requeue")
    /\ UNCHANGED <<callVars, table, chanVars, hand, closing>>

Requeue(w) ==
    /\ wpc[w] = "requeue"
    /\ Push(hand[w])
    /\ hand' = [hand EXCEPT ![w] = NoTask]
    /\ batch' = [batch EXCEPT ![w] = {}]
    /\ Move(w, "poll")
    /\ UNCHANGED <<callVars, taskVars, slots, countVars, closing>>

RequeueRefused(w) ==
    /\ wpc[w] = "requeue"
    /\ Closed
    /\ Move(w, "undo")
    /\ UNCHANGED <<callVars, taskVars, chanVars, countVars, hand, batch, closing>>

Cancelled(S) == [c \in Callers |->
                    IF c \in S /\ answer[c] = "none" THEN "canceled" ELSE answer[c]]

(* Only the waiters the round started with are told, not those who joined  *)
(* the task between Prepare and here.                                      *)
UndoRequeue(w) ==
    /\ wpc[w] = "undo"
    /\ Forget(hand[w])
    /\ queued' = Dequeued
    /\ slots' = SlotsReturned
    /\ answer' = Cancelled(batch[w])
    /\ batch' = [batch EXCEPT ![w] = {}]
    /\ hand' = [hand EXCEPT ![w] = NoTask]
    /\ Move(w, "poll")
    /\ UNCHANGED <<pc, key, cancelled, busy, high, normal, running, closing>>

-----------------------------------------------------------------------------
(* Close.                                                                  *)

BeginClose ==
    /\ ~Closed
    /\ closing' = "cancelled"
    /\ UNCHANGED <<callVars, taskVars, chanVars, countVars, workVars>>

Known == {table[k] : k \in Keys} \ {NoTask}

DrainSilence == answer
DrainAnswer == Cancelled(UNION {Attached(t) : t \in Known})

\* After wg.Wait the waiters of every task still in the table are answered.
Drain ==
    /\ closing = "cancelled"
    /\ \A w \in Workers : wpc[w] = "stopped"
    /\ answer' = DrainAnswer
    /\ table' = [k \in Keys |-> NoTask]
    /\ closing' = "drained"
    /\ UNCHANGED <<pc, key, cancelled, waiters, follow, lane, nextLane,
                   busy, chanVars, countVars, workVars>>

-----------------------------------------------------------------------------
Call(c) ==
    \/ \E k \in Keys : Submit(c, k)
    \/ \E p \in Priorities : AttachExisting(c, p) \/ RegisterLate(c, p) \/ Register(c, p)
    \/ AcquireSlot(c)
    \/ GiveUp(c)
    \/ Enqueue(c)
    \/ EnqueueRefused(c)
    \/ UndoRegister(c)
    \/ Receive(c)
    \/ Cancel(c)

Work(w) ==
    \/ PollHigh(w)
    \/ SelectHigh(w)
    \/ SelectNormal(w)
    \/ SelectDone(w)
    \/ DropAbandoned(w)
    \/ Start(w)
    \/ Deliver(w)
    \/ Finish(w)
    \/ Prepare(w)
    \/ Requeue(w)
    \/ RequeueRefused(w)
    \/ UndoRequeue(w)

Next ==
    \/ \E c \in Callers : Call(c)
    \/ \E w \in Workers : Work(w)
    \/ BeginClose
    \/ Drain

Spec == Init /\ [][Next]_vars

(* What the Go runtime and the timeouts of execute guarantee: a goroutine  *)
(* that can always proceed does, and every probe returns.  Nothing obliges *)
(* callers to submit, contexts to end or anybody to call Close.            *)
Fairness ==
    /\ \A c \in Callers :
         /\ WF_vars(\E p \in Priorities :
                       AttachExisting(c, p) \/ RegisterLate(c, p) \/ Register(c, p))
         /\ WF_vars(GiveUp(c))
         /\ WF_vars(Enqueue(c) \/ EnqueueRefused(c))
         /\ WF_vars(UndoRegister(c))
    /\ \A w \in Workers : WF_vars(Work(w))
    /\ WF_vars(Drain)

FairSpec == Spec /\ Fairness

-----------------------------------------------------------------------------
(* Properties.                                                             *)

\* Every variable has its type.
TypeOK ==
    /\ pc \in [Callers -> CallerPC]
    /\ key \in [Callers -> Keys]
    /\ cancelled \in SUBSET Callers
    /\ answer \in [Callers -> Answers]
    /\ table \in [Keys -> Callers \cup {NoTask}]
    /\ waiters \in [Callers -> SUBSET Callers]
    /\ follow \in [Callers -> SUBSET Callers]
    /\ lane \in [Callers -> Priorities]
    /\ nextLane \in [Callers -> Priorities]
    /\ busy \in SUBSET Callers
    /\ high \in Seq(Callers)
    /\ normal \in Seq(Callers)
    /\ slots \in Int /\ slots <= Capacity
    /\ queued \in Int
    /\ running \in Int
    /\ wpc \in [Workers -> WorkerPC]
    /\ hand \in [Workers -> Callers \cup {NoTask}]
    /\ \A w \in Workers : hand[w] = NoTask <=> wpc[w] \in {"poll", "select", "stopped"}
    /\ batch \in [Workers -> SUBSET Callers]
    /\ closing \in {"open", "cancelled", "drained"}

Executing(w) == wpc[w] \in {"exec", "finish"}

NoRepeat(s) == \A i, j \in 1 .. Len(s) : s[i] = s[j] => i = j
Queued(t) == t \in Members(high) \cup Members(normal)
Held(t) == \E w \in Workers : hand[w] = t

(* A task is nowhere twice: not twice in the channels, not in a channel    *)
(* and in a worker's hand, not in two hands, and not on its way through    *)
(* Submit and already in use.                                              *)
TaskInOnePlace ==
    /\ NoRepeat(high) /\ NoRepeat(normal) /\ Members(high) \cap Members(normal) = {}
    /\ \A w \in Workers : hand[w] # NoTask => ~Queued(hand[w])
    /\ \A v, w \in Workers : hand[w] # NoTask /\ hand[v] = hand[w] => v = w
    /\ \A t \in Callers :
        pc[t] \in {"attach", "slot", "register", "enqueue", "undo"} => ~Queued(t) /\ ~Held(t)

(* Until Close drains it, the table has every task that is queued, held by *)
(* a worker or being enqueued, under the task's own key.                   *)
TableHasTasks ==
    /\ \A k \in Keys : Occupied(k) =>
        key[table[k]] = k /\ pc[table[k]] \notin {"attach", "slot", "register"}
    /\ closing # "drained" =>
        \A t \in Callers : Queued(t) \/ Held(t) \/ pc[t] \in {"enqueue", "undo"} => table[key[t]] = t
    /\ closing = "drained" => \A w \in Workers : wpc[w] = "stopped"

\* task.running is set exactly for the tasks some worker is executing.
BusyIsExecuting == \A t \in Callers : t \in busy <=> \E w \in Workers : Executing(w) /\ hand[w] = t

(* The inductive strengthening of SingleFlight and HandIsKnown.            *)
Inductive == TypeOK /\ TaskInOnePlace /\ TableHasTasks /\ BusyIsExecuting

(* Two workers never probe the same key at the same time, whatever the     *)
(* interleaving of submissions, follow-ups and Close: run and attachLocked *)
(* promise a shared execution per key.                                     *)
SingleFlight ==
    \A v, w \in Workers :
        Executing(v) /\ Executing(w) /\ key[hand[v]] = key[hand[w]] => v = w

(* A worker that is about to run a task holds the task the table has for   *)
(* its key and nobody is running it: the early return of run is dead code. *)
HandIsKnown ==
    \A w \in Workers :
        wpc[w] = "start" => table[key[hand[w]]] = hand[w] /\ hand[w] \notin busy

(* Until Close has drained the table each task in it holds exactly one     *)
(* slot, and so does each call between its slot and its registration: no   *)
(* path of Submit or run leaks a slot or returns one twice.                *)
SlotsMatchTasks ==
    closing # "drained" =>
        slots = Cardinality(Known) + Cardinality({c \in Callers : pc[c] = "register"})

(* The counters Stats reports are exact until Close has drained the table. *)
CountersExact ==
    closing # "drained" =>
        /\ queued = Cardinality(Known \ busy)
        /\ running = Cardinality(Known \cap busy)

(* The send of enqueue is ready whenever a call or a worker reaches it, so *)
(* a full channel never parks a worker: the slots bound both channels.     *)
PushNeverBlocks ==
    \A t \in Callers :
        \/ pc[t] = "enqueue"
        \/ \E w \in Workers : wpc[w] = "requeue" /\ hand[w] = t
        => HasRoom(t)

(* The books of the scheduler are right: slots, counters and channels say  *)
(* the same of the tasks in the table, through every refused push, late    *)
(* registration, abandoned task and follow-up.                             *)
Accounting == SlotsMatchTasks /\ CountersExact /\ PushNeverBlocks

(* While the scheduler is open a call that waits, is not cancelled and has *)
(* no answer yet is attached to the task of its own key: no interleaving   *)
(* of attachLocked with the end of a run drops a waiter.                   *)
NoWaiterLost ==
    \A c \in Callers :
        ~Closed /\ pc[c] \in {"enqueue", "waiting"} /\ c \notin cancelled /\ answer[c] = "none"
        => /\ Occupied(key[c])
           /\ c \in Attached(table[key[c]])

Waits(c) == pc[c] = "waiting" /\ answer[c] = "none" /\ c \notin cancelled

(* While the scheduler stays open a task in the high channel is eventually *)
(* taken by a worker: the channel is first in first out and polled first.  *)
HighIsTaken ==
    \A t \in Callers : t \in Members(high) ~> t \notin Members(high) \/ Closed

(* A waiting call is answered, unless its context ends, Close comes first, *)
(* or high tasks keep arriving for ever and starve the normal channel.     *)
WaiterIsAnswered ==
    <>[](high = <<>>) => \A c \in Callers : Waits(c) ~> ~Waits(c) \/ Closed

(* No call waits for ever on a scheduler that stays open.                  *)
NobodyStarves == HighIsTaken /\ WaiterIsAnswered

(* Close terminates: the workers stop although the channels may be full.   *)
CloseTerminates == Closed ~> closing = "drained"

(* The calls still attached to a task when Close drains the table receive  *)
(* their answer by it.                                                     *)
DrainAnswers ==
    [][closing' = "drained" /\ closing = "cancelled" =>
        \A t \in Known : \A c \in Attached(t) : answer'[c] # "none"]_vars

(* The scheduler implements the single-flight service of ProbeService.     *)
Phase(c) ==
    IF pc[c] = "idle" THEN "out"
    ELSE IF answer[c] = "none" THEN "asked"
    ELSE IF answer[c] = "result" THEN "served"
    ELSE "refused"

Flight(k) == UNION {batch[w] : w \in {v \in Workers : wpc[v] = "exec" /\ key[hand[v]] = k}}

Service == INSTANCE ProbeService WITH
    want <- key,
    phase <- [c \in Callers |-> Phase(c)],
    flight <- [k \in Keys |-> Flight(k)]

(* One execution per key at a time; a call is answered only by an          *)
(* execution of its own key that began after the call, and once.           *)
ImplementsService == Service!Spec
=============================================================================
