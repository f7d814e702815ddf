----------------------------- MODULE PoolHealth -----------------------------
(***************************************************************************)
(* The health of the members of a pool: the circuit breaker every pool     *)
(* outbound shares (outbound/pool/shared_state.go), the dials, probes and  *)
(* manual operations that move it (outbound/pool/pool.go), and its mirror  *)
(* in the monitor that the WebUI shows (monitor/manager.go).               *)
(*                                                                         *)
(* A dial, a probe and a manual operation are each run by one member of    *)
(* Ops, reused when it is done.  One action is one critical section of the *)
(* shared state's mutex; the monitor entry is updated after the unlock, in *)
(* a step of its own.  A time stamp is kept as the fact that it is past.   *)
(* The counters shown beside the blacklist and the number of active        *)
(* connections, which only breaks ties in balance mode, are left out, and  *)
(* every member carries the network that is asked for.                     *)
(***************************************************************************)
EXTENDS Naturals

CONSTANTS
    Tags,       \* members of the pool
    Ops,        \* goroutines that dial, probe, ban or release
    Threshold,  \* pool.failure_threshold after normalizeOptions
    NoTag       \* no member

ASSUME ThresholdAssumption == Threshold \in Nat \ {0}
ASSUME TagsAssumption == NoTag \notin Tags

VARIABLES
    balance,      \* whether the mode is balance, and not one that tries one member at a time
    failures,     \* sharedMemberState.failures
    blacklisted,  \* sharedMemberState.blacklisted
    due,          \* whether blacklistedUntil has passed
    halfOpen,     \* sharedMemberState.halfOpen
    shown,        \* entry.blacklist, the mirror in the monitor
    at,           \* where each operation is
    target,       \* the member it works on
    todo          \* what it still has to do to the mirror

shared == <<failures, blacklisted, due, halfOpen>>
local  == <<at, target, todo>>
healthVars   == <<balance, shared, shown, local>>

HealthInit ==
    /\ balance \in BOOLEAN
    /\ failures    = [t \in Tags |-> 0]
    /\ blacklisted = [t \in Tags |-> FALSE]
    /\ due         = [t \in Tags |-> FALSE]
    /\ halfOpen    = [t \in Tags |-> FALSE]
    /\ shown       = [t \in Tags |-> FALSE]
    /\ at          = [o \in Ops |-> "idle"]
    /\ target      = [o \in Ops |-> NoTag]
    /\ todo        = [o \in Ops |-> "none"]

Step(o, label, t, mirror) ==
    /\ at' = [at EXCEPT ![o] = label]
    /\ target' = [target EXCEPT ![o] = t]
    /\ todo' = [todo EXCEPT ![o] = mirror]

\* Back to idle, or to the update of the mirror that is due.
Finish(o, mirror) ==
    IF mirror = "none" THEN Step(o, "idle", NoTag, "none")
                       ELSE Step(o, "mirror", target[o], mirror)

-----------------------------------------------------------------------------
(* The shared state.                                                       *)

Available(t) == ~blacklisted[t] \/ (due[t] /\ ~halfOpen[t])

\* tryAcquire: an expired blacklist lets one trial through.
Acquire(t) ==
    /\ Available(t)
    /\ halfOpen' = [halfOpen EXCEPT ![t] = @ \/ blacklisted[t]]
    /\ UNCHANGED <<failures, blacklisted, due>>

\* The member is blacklisted from now on, for some duration.
OpenKeepsTrial(t) ==
    /\ blacklisted' = [blacklisted EXCEPT ![t] = TRUE]
    /\ due' = [due EXCEPT ![t] = FALSE]
    /\ failures' = [failures EXCEPT ![t] = 0]
    /\ UNCHANGED halfOpen
Open(t) ==
    /\ blacklisted' = [blacklisted EXCEPT ![t] = TRUE]
    /\ due' = [due EXCEPT ![t] = FALSE]
    /\ halfOpen' = [halfOpen EXCEPT ![t] = FALSE]
    /\ failures' = [failures EXCEPT ![t] = 0]

\* recordSuccess and forceRelease: all marks are cleared.
CloseKeepsTrial(t) ==
    /\ blacklisted' = [blacklisted EXCEPT ![t] = FALSE]
    /\ due' = [due EXCEPT ![t] = FALSE]
    /\ failures' = [failures EXCEPT ![t] = 0]
    /\ UNCHANGED halfOpen
Close(t) ==
    /\ blacklisted' = [blacklisted EXCEPT ![t] = FALSE]
    /\ due' = [due EXCEPT ![t] = FALSE]
    /\ halfOpen' = [halfOpen EXCEPT ![t] = FALSE]
    /\ failures' = [failures EXCEPT ![t] = 0]

Trips(t) == halfOpen[t] \/ failures[t] + 1 >= Threshold

\* blacklistedUntil passes.
Expire(t) ==
    /\ blacklisted[t] /\ ~due[t]
    /\ due' = [due EXCEPT ![t] = TRUE]
    /\ UNCHANGED <<failures, blacklisted, halfOpen, shown, local, balance>>

-----------------------------------------------------------------------------
(* Dials.                                                                  *)

\* Sequential, random and rotate mode dial the first member they acquire.
PickOne(o, t) ==
    /\ ~balance
    /\ at[o] = "idle"
    /\ Acquire(t)
    /\ Step(o, "dial", t, "none")
    /\ UNCHANGED <<shown, balance>>

(* Balance mode looks for two members.  The first random candidate that is *)
(* a half-open trial is taken at once ...                                  *)
PickTrial(o, t) ==
    /\ balance
    /\ at[o] = "idle"
    /\ blacklisted[t]
    /\ Acquire(t)
    /\ Step(o, "dial", t, "none")
    /\ UNCHANGED <<shown, balance>>

(* ... another first candidate is kept while a second one is looked for;   *)
(* the scan that follows unlucky draws keeps a trial, too.                 *)
PickFirst(o, t) ==
    /\ balance
    /\ at[o] = "idle"
    /\ Acquire(t)
    /\ Step(o, "second", t, "none")
    /\ UNCHANGED <<shown, balance>>

\* Both are acquired, the one with fewer connections is dialed.
PickSecond(o, t) ==
    /\ at[o] = "second"
    /\ t # target[o]
    /\ Acquire(t)
    /\ \E winner \in {t, target[o]} : Step(o, "dial", winner, "none")
    /\ UNCHANGED <<shown, balance>>

PickOnlyFirst(o) ==
    /\ at[o] = "second"
    /\ \A t \in Tags \ {target[o]} : ~Available(t)
    /\ Step(o, "dial", target[o], "none")
    /\ UNCHANGED <<shared, shown, balance>>

\* The dial fails: a failed trial, or the last tolerated failure, opens.
DialFails(o) ==
    LET t == target[o] IN
    /\ at[o] = "dial"
    /\ IF Trips(t)
       THEN Open(t) /\ Finish(o, "ban")
       ELSE /\ failures' = [failures EXCEPT ![t] = @ + 1]
            /\ halfOpen' = [halfOpen EXCEPT ![t] = FALSE]
            /\ Finish(o, "none")
            /\ UNCHANGED <<blacklisted, due>>
    /\ UNCHANGED <<shown, balance>>

\* The dial succeeds: whatever the member's state was, it is closed.
DialSucceeds(o) ==
    LET t == target[o] IN
    /\ at[o] = "dial"
    /\ Close(t)
    /\ Finish(o, IF blacklisted[t] \/ halfOpen[t] THEN "clear" ELSE "none")
    /\ UNCHANGED <<shown, balance>>

-----------------------------------------------------------------------------
(* Probes and manual operations.                                           *)

\* A health check runs against the member without acquiring it.
ProbeStarts(o, t) ==
    /\ at[o] = "idle"
    /\ Step(o, "probe", t, "none")
    /\ UNCHANGED <<shared, shown, balance>>

ProbeFails(o) ==
    /\ at[o] = "probe"
    /\ Finish(o, "none")
    /\ UNCHANGED <<shared, shown, balance>>

ProbeSucceeds(o) ==
    /\ at[o] = "probe"
    /\ Close(target[o])
    /\ Finish(o, "clear")
    /\ UNCHANGED <<shown, balance>>

\* monitor.Manager.Release
Release(o, t) ==
    /\ at[o] = "idle"
    /\ Close(t)
    /\ Step(o, "mirror", t, "clear")
    /\ UNCHANGED <<shown, balance>>

\* monitor.Manager.ManualBlacklist
Ban(o, t) ==
    /\ at[o] = "idle"
    /\ Open(t)
    /\ Step(o, "mirror", t, "ban")
    /\ UNCHANGED <<shown, balance>>

\* EntryHandle.Blacklist, EntryHandle.ClearBlacklist
Mirror(o) ==
    /\ at[o] = "mirror"
    /\ shown' = [shown EXCEPT ![target[o]] = (todo[o] = "ban")]
    /\ Step(o, "idle", NoTag, "none")
    /\ UNCHANGED <<shared, balance>>

-----------------------------------------------------------------------------
Pick(o, t) == PickOne(o, t) \/ PickTrial(o, t) \/ PickFirst(o, t) \/ PickSecond(o, t)
Manual(o, t) == ProbeStarts(o, t) \/ Release(o, t) \/ Ban(o, t)
Complete(o) ==
    \/ PickOnlyFirst(o)
    \/ DialFails(o)
    \/ DialSucceeds(o)
    \/ ProbeFails(o)
    \/ ProbeSucceeds(o)
    \/ Mirror(o)

HealthNext ==
    \/ \E o \in Ops, t \in Tags : Pick(o, t) \/ Manual(o, t)
    \/ \E o \in Ops : Complete(o)
    \/ \E t \in Tags : Expire(t)

HealthSpec == HealthInit /\ [][HealthNext]_healthVars

(* Time passes and every dial and probe returns; nobody has to dial.       *)
FairHealthSpec ==
    /\ HealthSpec
    /\ \A t \in Tags : WF_healthVars(Expire(t))
    /\ \A o \in Ops : WF_healthVars(Complete(o) \/ \E t \in Tags : PickSecond(o, t))

-----------------------------------------------------------------------------
(* Properties.                                                             *)

\* Types; the failures counted are below the threshold whenever it can be read.
HealthTypeOK ==
    /\ balance \in BOOLEAN
    /\ failures \in [Tags -> 0 .. Threshold - 1]
    /\ blacklisted \in [Tags -> BOOLEAN]
    /\ due \in [Tags -> BOOLEAN]
    /\ halfOpen \in [Tags -> BOOLEAN]
    /\ shown \in [Tags -> BOOLEAN]
    /\ at \in [Ops -> {"idle", "second", "dial", "probe", "mirror"}]
    /\ target \in [Ops -> Tags \cup {NoTag}]
    /\ \A o \in Ops : target[o] = NoTag <=> at[o] = "idle"
    /\ todo \in [Ops -> {"none", "ban", "clear"}]

(* A half-open mark stands only on a member whose blacklist has expired:   *)
(* no order of failures, bans and releases leaves it on a member that is   *)
(* closed or still blacklisted, where tryAcquire would not expect it.      *)
HalfOpenIsDue == \A t \in Tags : halfOpen[t] => blacklisted[t] /\ due[t]

\* Somebody who acquired the member is dialing it or still choosing.
OnItsWay(t) == \E o \in Ops : target[o] = t /\ at[o] \in {"second", "dial"}

(* Outside balance mode the trial of a half-open member is on its way, so  *)
(* that the mark is taken off again: no late result, ban or release loses  *)
(* it.                                                                     *)
TrialIsDialled == ~balance => \A t \in Tags : halfOpen[t] => OnItsWay(t)

(* A half-open mark stands for a trial that is due and that somebody makes. *)
TrialsAreMade == HalfOpenIsDue /\ TrialIsDialled

(* Selection must not consume a trial it does not use, in any mode         *)
(* (pool_test.go TestUnsupportedNetworkDoesNotConsumeHalfOpenTrial).       *)
NoTrialIsWasted == \A t \in Tags : halfOpen[t] => OnItsWay(t)

(* Outside balance mode a blacklisted member always becomes selectable     *)
(* again, whatever dials, probes, bans and releases overlap.               *)
Recovers == ~balance => \A t \in Tags : []<>Available(t)
=============================================================================
