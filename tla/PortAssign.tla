----------------------------- MODULE PortAssign -----------------------------
(***************************************************************************)
(* How nodes get their ports, in multi-port mode (Listener is no port) or  *)
(* hybrid mode (Listener is the port of the shared entry): when a          *)
(* configuration is loaded, when the manager packs the ports of its nodes  *)
(* before it starts an instance, and when a node is added.  Nodes are      *)
(* records with a field port, 0 for none; taken are the ports that other   *)
(* programs hold.  Each operator is the sequential search of the code; an  *)
(* exhausted range of ports gives NoPorts.                                 *)
(***************************************************************************)
EXTENDS Integers, Sequences, FiniteSets, FiniteSetsExt, SequencesExt

CONSTANTS
    BasePort,  \* multi_port.base_port
    LastPort,  \* the last port there is (65535)
    Listener,  \* the port of the shared entry, 0 in multi-port mode
    NoPorts    \* the error "no available ports found"

ASSUME PortRange == BasePort \in Nat \ {0} /\ LastPort \in Nat /\ Listener \in Nat

\* The k-th smallest of a set of numbers.
Nth(S, k) == CHOOSE p \in S : Cardinality({q \in S : q <= p}) = k

PortsOf(nodes) == {nodes[i].port : i \in DOMAIN nodes} \ {0}

\* The first port from p on that is usable, 0 when there is none.
FirstFrom(p, usable) ==
    LET rest == {q \in usable : q >= p} IN IF rest = {} THEN 0 ELSE Min(rest)

\* IsPortAvailable, and not the listener's.
Available(taken) == (1 .. LastPort) \ (taken \cup {Listener})

\* One round of the loop of normalize: a node keeps a port that is available
\* and not yet used; any other gets the next one under the cursor.
NormalizedNode(acc, node, taken) ==
    LET free == Available(taken) \ acc.used
        keep == node.port \in free
        port == IF keep THEN node.port ELSE FirstFrom(acc.cursor, free)
    IN  [nodes  |-> Append(acc.nodes, [node EXCEPT !.port = port]),
         used   |-> acc.used \cup {port},
         cursor |-> IF keep \/ port = 0 THEN acc.cursor ELSE port + 1,
         ok     |-> acc.ok /\ port # 0]

\* Config.normalize: the ports of the nodes of the file.
Normalizing(nodes, taken) ==
    LET round[k \in 0 .. Len(nodes)] ==
          IF k = 0 THEN [nodes |-> <<>>, used |-> {}, cursor |-> BasePort, ok |-> TRUE]
          ELSE NormalizedNode(round[k - 1], nodes[k], taken)
    IN  round
Normalized(nodes, taken) ==
    LET done == Normalizing(nodes, taken)[Len(nodes)] IN IF done.ok THEN done.nodes ELSE NoPorts

\* rebuildMultiPortAssignments: the nodes get the usable ports in order.  A
\* port that a node of the configuration has counts as available, because the
\* instance that is about to be replaced may still listen on it.
Usable(nodes, taken) == {p \in BasePort .. LastPort :
    p # Listener /\ (p \in PortsOf(nodes) \/ p \notin taken)}

PackedMineFirst(nodes, taken) ==
    LET mine == PortsOf(nodes) IN
    [i \in DOMAIN nodes |->
        [nodes[i] EXCEPT !.port = IF i <= Cardinality(mine) THEN Nth(mine, i) ELSE BasePort + i - 1]]
Packed(nodes, taken) ==
    LET ports == Usable(nodes, taken)
    IN  IF Len(nodes) > Cardinality(ports) THEN NoPorts
        ELSE [i \in DOMAIN nodes |-> [nodes[i] EXCEPT !.port = Nth(ports, i)]]

\* reassignConflictingPort, after the instance could not bind a port: the first
\* node that has it moves to the next available one, for as long as there is a
\* conflict.
Conflicts(nodes, taken) == {nodes[i].port : i \in {j \in DOMAIN nodes :
    \/ nodes[j].port \notin Available(taken)
    \/ \E k \in DOMAIN nodes : k # j /\ nodes[k].port = nodes[j].port}}
Reassigned(nodes, port, taken) ==
    LET i    == Min({j \in DOMAIN nodes : nodes[j].port = port})
        next == FirstFrom(port + 1, Available(taken) \ PortsOf(nodes))
    IN  IF next = 0 THEN NoPorts ELSE [nodes EXCEPT ![i].port = next]
Resettled(nodes, taken) ==
    IF nodes = NoPorts \/ Conflicts(nodes, taken) = {} THEN nodes
    ELSE Reassigned(nodes, Min(Conflicts(nodes, taken)), taken)
Settling(nodes, taken) ==
    LET round[k \in 0 .. Len(nodes)] == IF k = 0 THEN nodes ELSE Resettled(round[k - 1], taken) IN round
Settled(nodes, taken) ==
    LET last == Settling(nodes, taken)[Len(nodes)]
    IN  IF last = NoPorts \/ Conflicts(last, taken) # {} THEN NoPorts ELSE last

\* nextAvailablePortLocked: the first available port behind the last one used.
NextPort(nodes, taken) ==
    LET used  == PortsOf(nodes)
        start == IF used # {} /\ Max(used) >= BasePort THEN Max(used) + 1 ELSE BasePort
    IN  FirstFrom(start, Available(taken) \ used)

\* What all of them promise.
OwnPorts(nodes) ==
    /\ \A i \in DOMAIN nodes : nodes[i].port \in (1 .. LastPort) \ {Listener}
    /\ \A i, j \in DOMAIN nodes : nodes[i].port = nodes[j].port => i = j
=============================================================================
