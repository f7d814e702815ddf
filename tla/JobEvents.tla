------------------------------ MODULE JobEvents ------------------------------
(***************************************************************************)
(* The events of jobs: importer.publishJobEvent, which puts an event into  *)
(* the channel of a subscriber and drops the one in it when it is full (a  *)
(* channel holds one event, of whichever job), and monitor.handleJobEvents,*)
(* which subscribes, writes a snapshot of all jobs and then the events.    *)
(* One client; what it knows of a job is what it was last told of it.      *)
(***************************************************************************)
EXTENDS Sequences

CONSTANTS
    Jobs,
    Unknown   \* what a client knows of a job it was told nothing of

VARIABLES
    client,   \* the handler: off, begun (subscribed), reading, gone
    chan,     \* the events in its channel
    known,    \* what the client knows of each job
    shut,     \* closeJobEvents has run
    displaced \* jobs whose last event another job's pushed out of the channel

EventVars == <<client, chan, known, shut, displaced>>

Event(j, what) == [job |-> j, what |-> what]

\* An operator just before a definition, named after it, is the definition
\* with a plausible slip.
PublishOld(e) ==
    IF client \in {"begun", "reading"} /\ ~shut /\ chan = <<>>
        THEN chan' = <<e>> /\ displaced' = displaced \ {e.job}
        ELSE UNCHANGED <<chan, displaced>>
Publish(e) ==
    IF client \in {"begun", "reading"} /\ ~shut
        THEN /\ chan' = <<e>>
             /\ displaced' = (displaced \cup {d.job : d \in {chan[i] : i \in DOMAIN chan}}) \ {e.job}
        ELSE UNCHANGED <<chan, displaced>>

\* Subscribed after closeJobEvents, the channel is closed from the start.
Subscribe ==
    /\ client = "off"
    /\ client' = "begun"
    /\ chan' = <<>> /\ displaced' = {} /\ UNCHANGED <<known, shut>>

Snapshot(view) ==
    /\ client = "begun"
    /\ known' = view /\ client' = "reading"
    /\ UNCHANGED <<chan, shut, displaced>>

Read ==
    /\ client = "reading" /\ chan # <<>>
    /\ known' = [known EXCEPT ![Head(chan).job] = Head(chan).what]
    /\ chan' = <<>>
    /\ UNCHANGED <<client, shut, displaced>>

\* The client goes away; it may come back.
Leave ==
    /\ client = "reading" /\ ~shut
    /\ client' = "off" /\ chan' = <<>> /\ displaced' = {}
    /\ known' = [j \in Jobs |-> Unknown]
    /\ UNCHANGED shut

\* The channel is closed and read to its end.
Gone ==
    /\ client = "reading" /\ shut /\ chan = <<>>
    /\ client' = "gone" /\ UNCHANGED <<chan, known, shut, displaced>>

CloseJobEvents == shut' = TRUE /\ UNCHANGED <<client, chan, known, displaced>>

EventInit ==
    /\ client = "off" /\ chan = <<>> /\ known = [j \in Jobs |-> Unknown]
    /\ shut = FALSE /\ displaced = {}
=============================================================================
