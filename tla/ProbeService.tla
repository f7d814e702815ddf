---------------------------- MODULE ProbeService ----------------------------
(***************************************************************************)
(* What the probe scheduler promises its callers, without queues, slots,   *)
(* workers or locks: for each key at most one execution is under way, an   *)
(* execution serves calls of its own key that were made before it started, *)
(* and a call is answered at most once, by a result or by a refusal.       *)
(***************************************************************************)
CONSTANTS Callers, Keys

VARIABLES
    want,    \* the key each call asks for
    phase,   \* how far each call is
    flight   \* the calls the execution of each key serves; {} when none runs

Init ==
    /\ want \in [Callers -> Keys]
    /\ phase = [c \in Callers |-> "out"]
    /\ flight = [k \in Keys |-> {}]

\* A call for k is made; its name is not in use by an execution.
Ask(c, k) ==
    /\ phase[c] = "out"
    /\ \A j \in Keys : c \notin flight[j]
    /\ phase' = [phase EXCEPT ![c] = "asked"]
    /\ want' = [want EXCEPT ![c] = k]
    /\ UNCHANGED flight

\* Calls that are waiting, or have just left, are picked for an execution.
Start(k, S) ==
    /\ flight[k] = {}
    /\ S # {}
    /\ \A c \in S : want[c] = k /\ phase[c] \in {"asked", "out"}
    /\ flight' = [flight EXCEPT ![k] = S]
    /\ UNCHANGED <<want, phase>>

\* The execution ends and serves those of its calls that still wait.
End(k, S) ==
    /\ S # {}
    /\ S \subseteq flight[k]
    /\ flight' = [flight EXCEPT ![k] = {}]
    /\ phase' = [c \in Callers |->
                    IF c \in S /\ phase[c] = "asked" THEN "served" ELSE phase[c]]
    /\ UNCHANGED want

\* An execution all of whose calls have gone ends without serving anybody.
Abandon(k) ==
    /\ flight[k] # {}
    /\ flight' = [flight EXCEPT ![k] = {}]
    /\ UNCHANGED <<want, phase>>

\* Waiting calls that no execution serves are refused.
Refuse(S) ==
    /\ \A c \in S : phase[c] = "asked" /\ \A k \in Keys : c \notin flight[k]
    /\ phase' = [c \in Callers |-> IF c \in S THEN "refused" ELSE phase[c]]
    /\ UNCHANGED <<want, flight>>

\* A call is over: it was answered, rejected or given up.
Leave(c) ==
    /\ phase' = [phase EXCEPT ![c] = "out"]
    /\ UNCHANGED <<want, flight>>

Next ==
    \/ \E c \in Callers, k \in Keys : Ask(c, k)
    \/ \E k \in Keys, S \in SUBSET Callers : Start(k, S) \/ End(k, S)
    \/ \E k \in Keys : Abandon(k)
    \/ \E S \in SUBSET Callers : Refuse(S)
    \/ \E c \in Callers : Leave(c)

Spec == Init /\ [][Next]_<<want, phase, flight>>
=============================================================================
