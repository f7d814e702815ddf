-------------------------- MODULE ConfigFilesProofs --------------------------
(***************************************************************************)
(* Theorems about ConfigFiles for any routes, ports and beginnings, and    *)
(* any numbers of operations, failed writes and starts; and about the      *)
(* searches for ports, PortAssign, for any range, any listener and any     *)
(* ports that others hold.                                                 *)
(***************************************************************************)
EXTENDS ConfigFiles, FiniteSetTheorems, WellFoundedInduction, TLAPS

-----------------------------------------------------------------------------
(* Numbers, positions and rounds.                                          *)

\* A set of numbers has a least one.
LEMMA MinIsLeast ==
    ASSUME NEW S \in SUBSET Nat, S # {}
    PROVE  Min(S) \in S /\ \A y \in S : Min(S) <= y
<1>1. PICK x \in S : \A y \in S : ~(<<y, x>> \in OpToRel(<, Nat))
  BY NatLessThanWellFounded, WFMin
<1>2. ASSUME NEW y \in S, y < x PROVE <<y, x>> \in OpToRel(<, Nat)
  BY <1>2 DEF OpToRel
<1>3. ASSUME NEW y \in S PROVE x <= y
  <2>1. ~(y < x)
    BY <1>1, <1>2
  <2> QED BY <2>1
<1> QED BY <1>3 DEF Min

\* One that is bounded has a greatest one.
LEMMA MaxIsGreatest ==
    ASSUME NEW S \in SUBSET Nat, S # {}, NEW n \in Nat, \A y \in S : y <= n
    PROVE  Max(S) \in S /\ \A y \in S : y <= Max(S)
<1> DEFINE D == {n - y : y \in S}
<1>1. D \in SUBSET Nat /\ D # {}
  <2>1. \A y \in S : n - y \in Nat
    OBVIOUS
  <2> QED BY <2>1
<1>2. Min(D) \in D /\ \A d \in D : Min(D) <= d
  <2> HIDE DEF D
  <2> QED BY <1>1, MinIsLeast
<1>3. PICK x \in S : Min(D) = n - x
  BY <1>2
<1>4. ASSUME NEW y \in S PROVE x >= y
  <2>1. n - x <= n - y
    BY <1>2, <1>3
  <2> QED BY <2>1
<1> QED BY <1>4 DEF Max

\* What holds at first and is passed on holds for all numbers up to n.
LEMMA Passed ==
    ASSUME NEW n \in Nat, NEW G, 0 \in G, \A k \in 1 .. n : k - 1 \in G => k \in G
    PROVE  0 .. n \subseteq G
<1> SUFFICES ASSUME (0 .. n) \ G # {} PROVE FALSE
  OBVIOUS
<1> DEFINE S == (0 .. n) \ G
           m == Min(S)
<1>1. S \in SUBSET Nat /\ S # {}
  OBVIOUS
<1>2. m \in S /\ \A y \in S : m <= y
  <2> HIDE DEF S
  <2> QED BY <1>1, MinIsLeast
<1> HIDE DEF m
<1>3. m # 0 /\ m \in 1 .. n
  BY <1>2
<1>4. m - 1 \notin S
  BY <1>2, <1>3
<1> QED BY <1>2, <1>3, <1>4

Rounds(f, n, first, step) == f[0] = first /\ \A k \in 1 .. n : f[k] = step[k][f[k - 1]]

\* Rounds that each go on from the one before: there is a function of them.
LEMMA RoundsExist ==
    ASSUME NEW n \in Nat, NEW S, NEW first \in S, NEW step \in [1 .. n -> [S -> S]]
    PROVE  \E f \in [0 .. n -> S] : Rounds(f, n, first, step)
<1> DEFINE Upto(m, f) == f \in [0 .. m -> S] /\ f[0] = first /\ \A k \in 1 .. m : f[k] = step[k][f[k - 1]]
           G == {m \in 0 .. n : \E f : Upto(m, f)}
<1>1. 0 \in G
  <2> DEFINE f == [k \in 0 .. 0 |-> first]
  <2>1. Upto(0, f)
    OBVIOUS
  <2> HIDE DEF f, Upto
  <2> QED BY <2>1
<1>2. ASSUME NEW k \in 1 .. n, k - 1 \in G PROVE k \in G
  <2>1. PICK f : Upto(k - 1, f)
    BY <1>2
  <2> DEFINE g == [m \in 0 .. k |-> IF m = k THEN step[k][f[k - 1]] ELSE f[m]]
  <2>2. f[k - 1] \in S
    BY <2>1
  <2>3. g \in [0 .. k -> S]
    BY <2>1, <2>2
  <2>4. g[0] = first
    BY <2>1
  <2>5. ASSUME NEW m \in 1 .. k PROVE g[m] = step[m][g[m - 1]]
    <3>1. CASE m = k
      <4>1. k \in 0 .. k /\ k - 1 \in 0 .. k /\ k - 1 # k
        OBVIOUS
      <4>2. g[k] = step[k][f[k - 1]] /\ g[k - 1] = f[k - 1]
        BY <4>1
      <4> QED BY <3>1, <4>2
    <3>2. CASE m # k
      <4>1. m \in 1 .. k - 1 /\ m - 1 \in 0 .. k - 1 /\ m - 1 # k
        BY <3>2
      <4> QED BY <2>1, <3>2, <4>1
    <3> QED BY <3>1, <3>2
  <2>6. Upto(k, g)
    BY <2>3, <2>4, <2>5
  <2>7. k \in 0 .. n
    OBVIOUS
  <2> HIDE DEF g, Upto
  <2> QED BY <2>6, <2>7
<1>3. 0 .. n \subseteq G
  <2> HIDE DEF G
  <2> QED BY <1>1, <1>2, Passed
<1>4. n \in G
  BY <1>3
<1> QED BY <1>4 DEF Rounds

-----------------------------------------------------------------------------
(* The k-th smallest.                                                      *)

Rank(S, p) == Cardinality({q \in S : q <= p})

\* The ranks of a finite set are the numbers from one to its size, each once.
LEMMA Ranks ==
    ASSUME NEW S \in SUBSET Nat, IsFiniteSet(S)
    PROVE  /\ Cardinality(S) \in Nat
           /\ \A p \in S : Rank(S, p) \in 1 .. Cardinality(S)
           /\ \A p, q \in S : p < q <=> Rank(S, p) < Rank(S, q)
           /\ \A k \in 1 .. Cardinality(S) : \E p \in S : Rank(S, p) = k
<1> DEFINE Below(p) == {q \in S : q <= p}
           n == Cardinality(S)
           rank == [p \in S |-> Rank(S, p)]
<1>1. n \in Nat
  BY FS_CardinalityType
<1>2. ASSUME NEW p \in S PROVE IsFiniteSet(Below(p)) /\ Cardinality(Below(p)) \in 1 .. n
  <2>1. Below(p) \in SUBSET S /\ p \in Below(p)
    OBVIOUS
  <2>2. IsFiniteSet(Below(p)) /\ Cardinality(Below(p)) <= n
    BY <2>1, FS_Subset
  <2>3. Cardinality(Below(p)) \in Nat /\ Cardinality(Below(p)) # 0
    BY <2>1, <2>2, FS_CardinalityType, FS_EmptySet
  <2> QED BY <1>1, <2>2, <2>3
<1>3. ASSUME NEW p \in S, NEW q \in S, p < q PROVE Rank(S, p) < Rank(S, q)
  <2>1. Below(p) \in SUBSET Below(q) /\ q \in Below(q) /\ q \notin Below(p)
    <3>1. p \in Nat /\ q \in Nat /\ \A r \in S : r \in Nat
      OBVIOUS
    <3>2. \A r \in S : r <= p => r <= q
      BY <1>3, <3>1
    <3>3. Below(p) \in SUBSET Below(q)
      BY <3>2
    <3>4. q <= q /\ ~(q <= p)
      BY <1>3, <3>1
    <3>5. q \in Below(q) /\ q \notin Below(p)
      BY <3>4
    <3> QED BY <3>3, <3>5
  <2>2. Cardinality(Below(p)) <= Cardinality(Below(q)) /\ Cardinality(Below(p)) # Cardinality(Below(q))
    BY <1>2, <2>1, FS_Subset
  <2> QED BY <1>1, <1>2, <2>2 DEF Rank
<1>4. \A p \in S : Rank(S, p) \in 1 .. n
  BY <1>2 DEF Rank
<1>5. \A p, q \in S : p < q <=> Rank(S, p) < Rank(S, q)
  <2>1. ASSUME NEW p \in S, NEW q \in S, Rank(S, p) < Rank(S, q) PROVE p < q
    <3>1. Rank(S, p) \in Int /\ Rank(S, q) \in Int
      BY <1>1, <1>4
    <3>2. p # q /\ ~(q < p)
      BY <1>3, <2>1, <3>1
    <3> QED BY <3>2
  <2> QED BY <1>3, <2>1
<1>6. rank \in [S -> 1 .. n]
  BY <1>4
<1>7. rank \in Injection(S, 1 .. n)
  <2>1. ASSUME NEW p \in S, NEW q \in S, rank[p] = rank[q] PROVE p = q
    <3>1. Rank(S, p) = Rank(S, q) /\ Rank(S, p) \in Int
      BY <1>1, <1>4, <2>1
    <3>2. ~(p < q) /\ ~(q < p)
      BY <1>3, <3>1
    <3> QED BY <3>2
  <2> QED BY <1>6, <2>1 DEF Injection, IsInjective
<1>8. IsFiniteSet(1 .. n) /\ Cardinality(1 .. n) = n
  BY <1>1, FS_Interval
<1>9. rank \in Surjection(S, 1 .. n)
  <2> HIDE DEF rank, n
  <2> QED BY <1>7, <1>8, FS_Injection DEF n
<1>10. \A k \in 1 .. n : \E p \in S : Rank(S, p) = k
  <2> SUFFICES ASSUME NEW k \in 1 .. n PROVE \E p \in S : rank[p] = k
    OBVIOUS
  <2> QED BY <1>9 DEF Surjection
<1> QED BY <1>1, <1>4, <1>5, <1>10

\* So the k-th smallest is a member, they go up, and each member is one.
LEMMA NthIs ==
    ASSUME NEW S \in SUBSET Nat, IsFiniteSet(S)
    PROVE  /\ Cardinality(S) \in Nat
           /\ \A k \in 1 .. Cardinality(S) : Nth(S, k) \in S /\ Rank(S, Nth(S, k)) = k
           /\ \A k, l \in 1 .. Cardinality(S) : k < l => Nth(S, k) < Nth(S, l)
           /\ \A p \in S : \E k \in 1 .. Cardinality(S) : Nth(S, k) = p
<1> DEFINE n == Cardinality(S)
<1>1. ASSUME NEW k \in 1 .. n PROVE Nth(S, k) \in S /\ Rank(S, Nth(S, k)) = k
  <2>1. \E p \in S : Rank(S, p) = k
    BY Ranks
  <2> QED BY <2>1 DEF Nth, Rank
<1>2. n \in Nat
  BY Ranks
<1>3. ASSUME NEW k \in 1 .. n, NEW l \in 1 .. n, k < l PROVE Nth(S, k) < Nth(S, l)
  <2>1. Rank(S, Nth(S, k)) < Rank(S, Nth(S, l))
    BY <1>1, <1>3
  <2> QED BY <1>1, <2>1, Ranks
<1>4. ASSUME NEW p \in S PROVE \E k \in 1 .. n : Nth(S, k) = p
  <2> DEFINE k == Rank(S, p)
             q == Nth(S, k)
  <2>1. k \in 1 .. n
    BY Ranks
  <2>2. q \in S /\ Rank(S, q) = Rank(S, p)
    BY <1>1, <2>1
  <2>3. Rank(S, p) \in Int
    BY <1>2, <2>1
  <2> HIDE DEF k, q
  <2>4. ~(p < q) /\ ~(q < p)
    <3>1. (p < q => Rank(S, p) < Rank(S, q)) /\ (q < p => Rank(S, q) < Rank(S, p))
      BY <2>2, Ranks
    <3> QED BY <2>2, <2>3, <3>1
  <2>5. p = q
    <3>1. p \in Nat /\ q \in Nat
      BY <2>2
    <3> QED BY <2>4, <3>1
  <2> USE DEF q
  <2> QED BY <2>1, <2>5
<1> QED BY <1>1, <1>2, <1>3, <1>4

-----------------------------------------------------------------------------
(* What each search for ports keeps.                                       *)

\* What a node is here: a record with a port that can be set.
NodeSet(N) ==
    \A n \in N : /\ "port" \in DOMAIN n /\ n.port \in 0 .. LastPort /\ n = [n EXCEPT !.port = n.port]
                 /\ \A p \in 0 .. LastPort : [n EXCEPT !.port = p] \in N

\* The search gives a usable port, the first from where it begins, or none
\* because there is none.
THEOREM FirstFromIsFirst ==
    ASSUME NEW p, NEW usable \in SUBSET (Nat \ {0})
    PROVE  \/ FirstFrom(p, usable) = 0 /\ \A q \in usable : ~(q >= p)
           \/ /\ FirstFrom(p, usable) \in usable
              /\ \A q \in usable : q >= p => FirstFrom(p, usable) <= q
<1> DEFINE rest == {q \in usable : q >= p}
<1>1. CASE rest = {}
  BY <1>1 DEF FirstFrom
<1>2. CASE rest # {}
  <2>1. rest \in SUBSET Nat
    OBVIOUS
  <2>2. Min(rest) \in rest /\ \A y \in rest : Min(rest) <= y
    <3> HIDE DEF rest
    <3> QED BY <1>2, <2>1, MinIsLeast
  <2> QED BY <1>2, <2>2 DEF FirstFrom
<1> QED BY <1>1, <1>2

\* A port that the search of a larger set left out is none of the nodes'.
LEMMA AvailableIsOwn ==
    ASSUME NEW held, NEW used, NEW p, NEW port,
           port = FirstFrom(p, Available(held) \ used), port # 0
    PROVE  port \in 1 .. LastPort /\ port # Listener /\ port \notin held /\ port \notin used
<1>1. Available(held) \ used \in SUBSET (Nat \ {0})
  BY PortRange DEF Available
<1> QED BY <1>1, FirstFromIsFirst DEF Available

\* CreateNode: the new node's port is its own, nobody's outside, and no other
\* node's (nextAvailablePortLocked).
THEOREM AddedKeepsOwnPorts ==
    ASSUME NEW N, NEW nodes \in Seq(N), OwnPorts(nodes), NEW node \in N, NEW held,
           node.port = NextPort(nodes, held), node.port # 0
    PROVE  OwnPorts(Append(nodes, node)) /\ node.port \notin held
<1> DEFINE more == Append(nodes, node)
<1>1. /\ node.port \in (1 .. LastPort) \ {Listener}
      /\ node.port \notin held
      /\ node.port \notin PortsOf(nodes)
  <2> DEFINE used  == PortsOf(nodes)
             start == IF used # {} /\ Max(used) >= BasePort THEN Max(used) + 1 ELSE BasePort
  <2>1. node.port = FirstFrom(start, Available(held) \ used)
    BY DEF NextPort
  <2> HIDE DEF start, used
  <2>2. /\ node.port \in 1 .. LastPort /\ node.port # Listener
        /\ node.port \notin held /\ node.port \notin used
    BY <2>1, AvailableIsOwn
  <2> QED BY <2>2 DEF used
<1>2. \A i \in DOMAIN nodes : nodes[i].port # node.port
  BY <1>1, PortRange DEF PortsOf
<1>3. DOMAIN more = DOMAIN nodes \cup {Len(nodes) + 1}
  OBVIOUS
<1>4. more[Len(nodes) + 1] = node /\ \A i \in DOMAIN nodes : more[i] = nodes[i] /\ i # Len(nodes) + 1
  OBVIOUS
<1> HIDE DEF more
<1>5. OwnPorts(more)
  BY <1>1, <1>2, <1>3, <1>4 DEF OwnPorts
<1> QED BY <1>1, <1>5 DEF more

\* reassignConflictingPort: the node moves to a port that nobody has, and no
\* other node does.  So what had no conflict among the nodes keeps none.
THEOREM ReassignedKeepsOwnPorts ==
    ASSUME NEW N, NodeSet(N), NEW nodes \in Seq(N), OwnPorts(nodes), NEW held, NEW i \in DOMAIN nodes,
           NEW next, next = FirstFrom(nodes[i].port + 1, Available(held) \ PortsOf(nodes)), next # 0
    PROVE  /\ Reassigned(nodes, nodes[i].port, held) = [nodes EXCEPT ![i].port = next]
           /\ OwnPorts([nodes EXCEPT ![i].port = next])
           /\ next \notin held
<1> DEFINE same  == {j \in DOMAIN nodes : nodes[j].port = nodes[i].port}
           moved == [nodes EXCEPT ![i].port = next]
<1>1. same = {i}
  BY DEF OwnPorts
<1>2. Min(same) = i
  <2>1. same \in SUBSET Nat /\ same # {}
    BY <1>1
  <2> HIDE DEF same
  <2> QED BY <1>1, <2>1, MinIsLeast
<1>3. Reassigned(nodes, nodes[i].port, held) = moved
  BY <1>2 DEF Reassigned
<1>4. /\ next \in (1 .. LastPort) \ {Listener}
      /\ next \notin held
      /\ next \notin PortsOf(nodes)
  BY ZenonT(40), AvailableIsOwn
<1>5. \A j \in DOMAIN nodes : nodes[j].port # next
  BY <1>4, PortRange DEF PortsOf
<1>6. DOMAIN moved = DOMAIN nodes /\ \A j \in DOMAIN nodes : j # i => moved[j] = nodes[j]
  OBVIOUS
<1>7. moved[i].port = next
  <2>1. nodes[i] \in N
    OBVIOUS
  <2>2. moved[i] = [nodes[i] EXCEPT !.port = next]
    OBVIOUS
  <2>3. "port" \in DOMAIN nodes[i]
    BY <2>1 DEF NodeSet
  <2> QED BY <2>2, <2>3
<1> HIDE DEF moved
<1>8. OwnPorts(moved)
  BY <1>4, <1>5, <1>6, <1>7 DEF OwnPorts
<1> QED BY <1>3, <1>4, <1>8 DEF moved

\* The ports used are those of the nodes done, each once, as long as there has
\* been a port for every node.
Spread(acc) == acc.ok => OwnPorts(acc.nodes) /\ acc.used = PortsOf(acc.nodes)

\* A round of the loop of normalize, which keeps a node's port or gives it the
\* next one, leaves the ports used those of the nodes done.
THEOREM NormalizedKeepsOwnPorts ==
    ASSUME NEW N, NodeSet(N), NEW acc, acc.nodes \in Seq(N), acc.ok \in BOOLEAN, Spread(acc),
           NEW node \in N, NEW held
    PROVE  Spread(NormalizedNode(acc, node, held))
<1> DEFINE free == Available(held) \ acc.used
           port == IF node.port \in free THEN node.port ELSE FirstFrom(acc.cursor, free)
           spread == [node EXCEPT !.port = port]
           more == Append(acc.nodes, spread)
           next == NormalizedNode(acc, node, held)
<1>1. next.nodes = more /\ next.used = acc.used \cup {port} /\ next.ok = (acc.ok /\ port # 0)
  BY DEF NormalizedNode
<1> SUFFICES ASSUME next.ok PROVE OwnPorts(next.nodes) /\ next.used = PortsOf(next.nodes)
  BY DEF Spread
<1>2. acc.ok /\ port # 0 /\ OwnPorts(acc.nodes) /\ acc.used = PortsOf(acc.nodes)
  BY <1>1 DEF Spread
<1>3. port \in (1 .. LastPort) \ {Listener} /\ port \notin acc.used
  <2>1. CASE node.port \in free
    BY <2>1, PortRange DEF Available
  <2>2. CASE node.port \notin free
    <3> DEFINE used   == acc.used
               cursor == acc.cursor
    <3>1. port = FirstFrom(cursor, Available(held) \ used)
      BY <2>2
    <3>2. port # 0
      BY <1>2
    <3> HIDE DEF port, used, cursor
    <3>3. port \in 1 .. LastPort /\ port # Listener /\ port \notin used
      BY ZenonT(40), <3>1, <3>2, AvailableIsOwn
    <3> QED BY <3>3 DEF used
  <2> QED BY <2>1, <2>2
<1>4. spread.port = port /\ spread \in N
  BY <1>3, PortRange DEF NodeSet
<1> HIDE DEF spread, port
<1>5. /\ DOMAIN more = DOMAIN acc.nodes \cup {Len(acc.nodes) + 1}
      /\ more[Len(acc.nodes) + 1] = spread
      /\ \A i \in DOMAIN acc.nodes : more[i] = acc.nodes[i] /\ i # Len(acc.nodes) + 1
  BY <1>4
<1> HIDE DEF more, next
<1>6. \A i \in DOMAIN acc.nodes : acc.nodes[i].port # port
  BY <1>2, <1>3, PortRange DEF PortsOf
<1>7. OwnPorts(more)
  BY <1>2, <1>3, <1>4, <1>5, <1>6 DEF OwnPorts
<1>8. acc.used \cup {port} = PortsOf(more)
  BY <1>2, <1>3, <1>4, <1>5, PortRange DEF PortsOf
<1> QED BY <1>1, <1>7, <1>8

\* The nodes with other ports.
Reported(a, b) == Len(a) = Len(b) /\ \A i \in DOMAIN b : a[i] = [b[i] EXCEPT !.port = a[i].port]

\* rebuildMultiPortAssignments: the nodes are the same, in the same order, each
\* with a port of its own that is not the listener's.
THEOREM PackedIs ==
    ASSUME NEW N, NodeSet(N), NEW nodes \in Seq(N), NEW held, Packed(nodes, held) # NoPorts
    PROVE  /\ Packed(nodes, held) \in Seq(N)
           /\ Reported(Packed(nodes, held), nodes)
           /\ OwnPorts(Packed(nodes, held))
<1> DEFINE U == Usable(nodes, held)
           packed == [i \in DOMAIN nodes |-> [nodes[i] EXCEPT !.port = Nth(U, i)]]
<1>1. Packed(nodes, held) = packed /\ ~(Len(nodes) > Cardinality(U))
  BY DEF Packed
<1>2. U \in SUBSET Nat /\ U \subseteq (1 .. LastPort) \ {Listener} /\ IsFiniteSet(U)
  <2>1. U \in SUBSET (BasePort .. LastPort) /\ U \subseteq (1 .. LastPort) \ {Listener}
    BY PortRange DEF Usable
  <2>2. IsFiniteSet(BasePort .. LastPort)
    BY PortRange, FS_Interval
  <2> HIDE DEF U
  <2>3. IsFiniteSet(U)
    BY <2>1, <2>2, FS_Subset
  <2> QED BY <2>1, <2>3
<1> HIDE DEF U
<1>3. /\ Cardinality(U) \in Nat
      /\ \A k \in 1 .. Cardinality(U) : Nth(U, k) \in U
      /\ \A k, l \in 1 .. Cardinality(U) : k < l => Nth(U, k) < Nth(U, l)
  BY <1>2, NthIs
<1>4. \A i \in DOMAIN nodes : i \in 1 .. Cardinality(U) /\ i \in Nat
  BY <1>1, <1>3
<1>5. \A i \in DOMAIN nodes : Nth(U, i) \in (1 .. LastPort) \ {Listener} /\ Nth(U, i) \in 0 .. LastPort
  <2> SUFFICES ASSUME NEW i \in DOMAIN nodes PROVE Nth(U, i) \in (1 .. LastPort) \ {Listener}
    BY PortRange
  <2>1. Nth(U, i) \in U
    BY <1>3, <1>4
  <2> QED BY <1>2, <2>1
<1>6. \A i \in DOMAIN nodes : packed[i] \in N /\ packed[i].port = Nth(U, i)
  BY <1>5 DEF NodeSet
<1>7. packed \in Seq(N) /\ Len(packed) = Len(nodes)
  BY <1>6
<1>8. \A i \in DOMAIN nodes : packed[i] = [nodes[i] EXCEPT !.port = packed[i].port]
  BY <1>6
<1>9. ASSUME NEW i \in DOMAIN packed, NEW j \in DOMAIN packed, packed[i].port = packed[j].port PROVE i = j
  <2>1. Nth(U, i) = Nth(U, j) /\ Nth(U, i) \in Nat
    BY <1>5, <1>6, <1>9, PortRange
  <2>2. ~(i < j) /\ ~(j < i)
    BY <1>3, <1>4, <2>1
  <2> QED BY <1>4, <2>2
<1>10. OwnPorts(packed)
  <2> HIDE DEF packed
  <2>1. DOMAIN packed = DOMAIN nodes
    BY <1>7
  <2> QED BY <1>5, <1>6, <1>9, <2>1 DEF OwnPorts
<1> QED BY <1>1, <1>7, <1>8, <1>10 DEF Reported

\* startLocked with reassignConflictingPort, as often as there are conflicts: the
\* nodes are the same, and in the end no port is held by others or by two nodes.
THEOREM SettledIs ==
    ASSUME NEW N, NodeSet(N), NEW nodes \in Seq(N), NEW held, Settled(nodes, held) # NoPorts
    PROVE  /\ Settled(nodes, held) \in Seq(N)
           /\ Reported(Settled(nodes, held), nodes)
           /\ Conflicts(Settled(nodes, held), held) = {}
<1> DEFINE n == Len(nodes)
           S == {acc \in Seq(N) \cup {NoPorts} : acc = NoPorts \/ (acc \in Seq(N) /\ Reported(acc, nodes))}
           step == [k \in 1 .. n |-> [acc \in S |-> Resettled(acc, held)]]
           rounds == Settling(nodes, held)
<1>1. nodes \in S
  <2>1. \A i \in DOMAIN nodes : nodes[i] = [nodes[i] EXCEPT !.port = nodes[i].port]
    BY DEF NodeSet
  <2> QED BY <2>1 DEF Reported
<1>0. NoPorts \in S
  <2>1. NoPorts \in Seq(N) \cup {NoPorts}
    OBVIOUS
  <2> QED BY <2>1
<1>2. ASSUME NEW acc \in S PROVE Resettled(acc, held) \in S
  <2> DEFINE C == Conflicts(acc, held)
             port == Min(C)
             same == {j \in DOMAIN acc : acc[j].port = port}
             i == Min(same)
             next == FirstFrom(port + 1, Available(held) \ PortsOf(acc))
             moved == [acc EXCEPT ![i].port = next]
  <2>1. CASE acc = NoPorts \/ C = {}
    BY <2>1 DEF Resettled
  <2>2. CASE acc # NoPorts /\ C # {}
    <3>1. acc \in Seq(N) /\ Reported(acc, nodes)
      BY <2>2
    <3>2. C \in SUBSET Nat /\ C \subseteq {acc[j].port : j \in DOMAIN acc}
      <4>1. \A j \in DOMAIN acc : acc[j].port \in Nat
        BY <3>1, PortRange DEF NodeSet
      <4> QED BY <4>1 DEF Conflicts
    <3>3. port \in C
      <4> HIDE DEF C
      <4> QED BY <2>2, <3>2, MinIsLeast
    <3>4. same \in SUBSET Nat /\ same # {}
      <4> HIDE DEF port, C
      <4> QED BY <3>1, <3>2, <3>3
    <3>5. i \in DOMAIN acc
      <4> HIDE DEF port
      <4>1. i \in same
        <5> HIDE DEF same
        <5> QED BY <3>4, MinIsLeast
      <4> QED BY <4>1
    <3>6. Resettled(acc, held) = IF next = 0 THEN NoPorts ELSE moved
      BY <2>2 DEF Resettled, Reassigned
    <3>7. CASE next # 0
      <4>1. next \in 0 .. LastPort
        <5> HIDE DEF port
        <5>1. Available(held) \ PortsOf(acc) \in SUBSET (Nat \ {0})
          BY PortRange DEF Available
        <5>2. next \in Available(held)
          BY <3>7, <5>1, FirstFromIsFirst
        <5> QED BY <5>2, PortRange DEF Available
      <4> HIDE DEF i, next
      <4>2. acc[i] \in N /\ [acc[i] EXCEPT !.port = next] \in N /\ [acc[i] EXCEPT !.port = next].port = next
        BY <3>1, <3>5, <4>1 DEF NodeSet
      <4>3. moved \in Seq(N) /\ Len(moved) = Len(acc) /\ DOMAIN moved = DOMAIN acc
        BY <3>1, <3>5, <4>2
      <4>4. ASSUME NEW j \in DOMAIN nodes PROVE moved[j] = [nodes[j] EXCEPT !.port = moved[j].port]
        <5>1. j \in DOMAIN acc /\ acc[j] = [nodes[j] EXCEPT !.port = acc[j].port]
          BY <3>1 DEF Reported
        <5>2. CASE j = i
          <6>1. moved[j] = [acc[j] EXCEPT !.port = next]
            BY <3>5, <5>2
          <6>2. nodes[j] \in N
            OBVIOUS
          <6> QED BY <4>2, <5>1, <5>2, <6>1, <6>2 DEF NodeSet
        <5>3. CASE j # i
          BY <5>1, <5>3
        <5> QED BY <5>2, <5>3
      <4>5. Reported(moved, nodes)
        BY <3>1, <4>3, <4>4 DEF Reported
      <4> QED BY <3>6, <3>7, <4>3, <4>5
    <3>8. CASE next = 0
      <4> HIDE DEF next, S
      <4> QED BY <1>0, <3>6, <3>8
    <3> QED BY <3>7, <3>8
  <2> QED BY <2>1, <2>2
<1> HIDE DEF S
<1>3. n \in Nat
  OBVIOUS
<1>4. step \in [1 .. n -> [S -> S]]
  BY <1>2
<1>5. PICK f \in [0 .. n -> S] : Rounds(f, n, nodes, step)
  <2> HIDE DEF step, n
  <2> QED BY <1>1, <1>3, <1>4, RoundsExist
<1>6. \A k \in 1 .. n : f[k - 1] \in S /\ f[k] = Resettled(f[k - 1], held)
  <2> SUFFICES ASSUME NEW k \in 1 .. n PROVE f[k - 1] \in S /\ f[k] = Resettled(f[k - 1], held)
    OBVIOUS
  <2>1. f[k - 1] \in S
    BY <1>3
  <2> QED BY <1>5, <2>1 DEF Rounds
<1>7. f = [k \in 0 .. n |-> IF k = 0 THEN nodes ELSE Resettled(f[k - 1], held)]
  BY <1>3, <1>5, <1>6 DEF Rounds
<1>8. rounds = [k \in 0 .. n |-> IF k = 0 THEN nodes ELSE Resettled(rounds[k - 1], held)]
  <2> HIDE DEF step
  <2> QED BY <1>7 DEF Settling
<1>9. rounds[n] \in S
  <2> DEFINE G == {k \in 0 .. n : rounds[k] \in S}
  <2> HIDE DEF rounds
  <2>1. 0 \in G
    BY <1>1, <1>3, <1>8
  <2>2. ASSUME NEW k \in 1 .. n, k - 1 \in G PROVE k \in G
    <3>1. k \in 0 .. n /\ k # 0 /\ rounds[k - 1] \in S
      BY <1>3, <2>2
    <3>2. rounds[k] = Resettled(rounds[k - 1], held)
      BY <1>8, <3>1
    <3> QED BY <1>2, <3>1, <3>2
  <2>3. 0 .. n \subseteq G
    <3> HIDE DEF G, n
    <3> QED BY <1>3, <2>1, <2>2, Passed
  <2> QED BY <1>3, <2>3
<1>10. Settled(nodes, held) = rounds[n] /\ rounds[n] # NoPorts /\ Conflicts(rounds[n], held) = {}
  BY DEF Settled
<1> QED BY <1>9, <1>10 DEF S

\* Nodes without a conflict have ports of their own.
LEMMA NoConflictOwns ==
    ASSUME NEW N, NodeSet(N), NEW nodes \in Seq(N), NEW held, Conflicts(nodes, held) = {}
    PROVE  OwnPorts(nodes)
<1>1. ASSUME NEW i \in DOMAIN nodes PROVE nodes[i].port \in Available(held)
  BY DEF Conflicts
<1>2. ASSUME NEW i \in DOMAIN nodes, NEW j \in DOMAIN nodes, nodes[i].port = nodes[j].port PROVE i = j
  BY <1>2 DEF Conflicts
<1> QED BY <1>1, <1>2 DEF OwnPorts, Available

\* Config.normalize, all rounds together: the nodes of the file are the same, in
\* the same order, each with a port of its own that is not the listener's.
THEOREM NormalizedIs ==
    ASSUME NEW N, NodeSet(N), NEW nodes \in Seq(N), NEW held, Normalized(nodes, held) # NoPorts
    PROVE  /\ Normalized(nodes, held) \in Seq(N)
           /\ Reported(Normalized(nodes, held), nodes)
           /\ OwnPorts(Normalized(nodes, held))
<1> DEFINE n == Len(nodes)
           S == {acc \in [nodes : Seq(N), used : SUBSET (0 .. LastPort), cursor : Nat, ok : BOOLEAN] : Spread(acc)}
           first == [nodes |-> <<>>, used |-> {}, cursor |-> BasePort, ok |-> TRUE]
           step == [k \in 1 .. n |-> [acc \in S |-> NormalizedNode(acc, nodes[k], held)]]
           rounds == Normalizing(nodes, held)
<1>1. first \in S
  <2>1. first \in [nodes : Seq(N), used : SUBSET (0 .. LastPort), cursor : Nat, ok : BOOLEAN]
    BY PortRange
  <2>2. Spread(first)
    BY DEF Spread, OwnPorts, PortsOf
  <2> HIDE DEF first
  <2> QED BY <2>1, <2>2
<1>2. ASSUME NEW acc \in S, NEW node \in N
      PROVE  /\ NormalizedNode(acc, node, held) \in S
             /\ \E port \in 0 .. LastPort :
                   NormalizedNode(acc, node, held).nodes = Append(acc.nodes, [node EXCEPT !.port = port])
  <2> DEFINE free == Available(held) \ acc.used
             keep == node.port \in free
             port == IF keep THEN node.port ELSE FirstFrom(acc.cursor, free)
             next == NormalizedNode(acc, node, held)
  <2>1. /\ acc.nodes \in Seq(N) /\ acc.used \in SUBSET (0 .. LastPort) /\ acc.cursor \in Nat /\ acc.ok \in BOOLEAN
        /\ Spread(acc)
    OBVIOUS
  <2>2. port \in 0 .. LastPort
    <3>1. free \in SUBSET (Nat \ {0}) /\ \A p \in free : p \in 0 .. LastPort
      BY PortRange DEF Available
    <3> HIDE DEF free
    <3>2. CASE keep
      BY <3>1, <3>2
    <3>3. CASE ~keep
      <4> DEFINE q == FirstFrom(acc.cursor, free)
      <4>1. q = 0 \/ q \in free
        BY <3>1, FirstFromIsFirst
      <4> HIDE DEF q
      <4>2. q \in 0 .. LastPort
        <5>1. 0 \in 0 .. LastPort
          BY PortRange
        <5>2. q \in free => q \in 0 .. LastPort
          BY <3>1
        <5> QED BY <4>1, <5>1, <5>2
      <4> QED BY <3>3, <4>2 DEF q
    <3> QED BY <3>2, <3>3
  <2>3. next = [nodes  |-> Append(acc.nodes, [node EXCEPT !.port = port]),
                used   |-> acc.used \cup {port},
                cursor |-> IF keep \/ port = 0 THEN acc.cursor ELSE port + 1,
                ok     |-> acc.ok /\ port # 0]
    BY DEF NormalizedNode
  <2> HIDE DEF port, keep, next, S
  <2>4. [node EXCEPT !.port = port] \in N
    BY <2>2 DEF NodeSet
  <2>5. next \in [nodes : Seq(N), used : SUBSET (0 .. LastPort), cursor : Nat, ok : BOOLEAN]
    <3>1. Append(acc.nodes, [node EXCEPT !.port = port]) \in Seq(N)
      BY <2>1, <2>4
    <3>2. port + 1 \in Nat /\ acc.used \cup {port} \in SUBSET (0 .. LastPort)
      BY <2>1, <2>2, PortRange
    <3> QED BY <2>1, <2>3, <3>1, <3>2
  <2>6. Spread(next)
    BY <2>1, NormalizedKeepsOwnPorts DEF next
  <2>7. next \in S
    BY <2>5, <2>6 DEF S
  <2>8. next.nodes = Append(acc.nodes, [node EXCEPT !.port = port])
    BY <2>3
  <2> QED BY <2>2, <2>7, <2>8 DEF next
<1>3. n \in Nat /\ \A k \in 1 .. n : nodes[k] \in N
  OBVIOUS
<1> HIDE DEF S, first
<1>4. step \in [1 .. n -> [S -> S]]
  BY <1>2, <1>3
<1>5. PICK f \in [0 .. n -> S] : Rounds(f, n, first, step)
  <2> HIDE DEF step, n
  <2> QED BY <1>1, <1>3, <1>4, RoundsExist
<1>6. \A k \in 1 .. n : f[k - 1] \in S /\ f[k] = NormalizedNode(f[k - 1], nodes[k], held)
  <2> SUFFICES ASSUME NEW k \in 1 .. n PROVE f[k - 1] \in S /\ f[k] = NormalizedNode(f[k - 1], nodes[k], held)
    OBVIOUS
  <2>1. f[k - 1] \in S
    BY <1>3
  <2> QED BY <1>5, <2>1 DEF Rounds
<1>7. f = [k \in 0 .. n |-> IF k = 0 THEN first ELSE NormalizedNode(f[k - 1], nodes[k], held)]
  BY <1>3, <1>5, <1>6 DEF Rounds
<1>8. rounds = [k \in 0 .. n |-> IF k = 0 THEN first ELSE NormalizedNode(rounds[k - 1], nodes[k], held)]
  <2> HIDE DEF step
  <2> QED BY <1>7 DEF Normalizing, first
<1> DEFINE Same(k) == /\ rounds[k] \in S /\ Len(rounds[k].nodes) = k
                      /\ \A i \in 1 .. k : rounds[k].nodes[i] = [nodes[i] EXCEPT !.port = rounds[k].nodes[i].port]
<1>9. \A k \in 0 .. n : Same(k)
  <2> DEFINE G == {k \in 0 .. n : Same(k)}
  <2> HIDE DEF rounds
  <2>1. 0 \in G
    <3>1. rounds[0] = first
      BY <1>3, <1>8
    <3>2. Same(0)
      BY <1>1, <3>1 DEF first
    <3> QED BY <1>3, <3>2
  <2>2. ASSUME NEW k \in 1 .. n, k - 1 \in G PROVE k \in G
    <3> DEFINE a == rounds[k - 1]
    <3>1. k \in 0 .. n /\ k # 0 /\ nodes[k] \in N /\ Same(k - 1)
      BY <1>3, <2>2
    <3>2. rounds[k] = NormalizedNode(a, nodes[k], held)
      BY <1>8, <3>1
    <3>3. a \in S /\ a.nodes \in Seq(N) /\ Len(a.nodes) = k - 1
      BY <3>1 DEF S
    <3>4. rounds[k] \in S
      BY <1>2, <3>1, <3>2, <3>3
    <3> HIDE DEF a
    <3>0. \E port \in 0 .. LastPort :
             NormalizedNode(a, nodes[k], held).nodes = Append(a.nodes, [nodes[k] EXCEPT !.port = port])
      BY <1>2, <3>1, <3>3
    <3>5. PICK port \in 0 .. LastPort : rounds[k].nodes = Append(a.nodes, [nodes[k] EXCEPT !.port = port])
      BY <3>0, <3>2
    <3> DEFINE moved == [nodes[k] EXCEPT !.port = port]
    <3>6. moved \in N /\ moved = [nodes[k] EXCEPT !.port = moved.port]
      BY <3>1 DEF NodeSet
    <3> HIDE DEF moved
    <3>7. Len(rounds[k].nodes) = k /\ rounds[k].nodes[k] = moved /\ \A i \in 1 .. k - 1 : rounds[k].nodes[i] = a.nodes[i]
      BY <3>1, <3>3, <3>5, <3>6 DEF moved
    <3>8. ASSUME NEW i \in 1 .. k PROVE rounds[k].nodes[i] = [nodes[i] EXCEPT !.port = rounds[k].nodes[i].port]
      <4>1. CASE i = k
        BY <3>6, <3>7, <4>1
      <4>2. CASE i # k
        <5>1. i \in 1 .. k - 1
          BY <4>2
        <5> QED BY <3>1, <3>7, <5>1 DEF a
      <4> QED BY <4>1, <4>2
    <3> QED BY <3>1, <3>4, <3>7, <3>8
  <2>3. 0 .. n \subseteq G
    <3> HIDE DEF G, n
    <3> QED BY <1>3, <2>1, <2>2, Passed
  <2> QED BY <2>3
<1> DEFINE last == rounds[n]
<1>10. Normalized(nodes, held) = last.nodes /\ last.ok
  BY DEF Normalized
<1>11. Same(n)
  BY <1>3, <1>9
<1>12. last.nodes \in Seq(N) /\ Spread(last)
  BY <1>11 DEF S
<1> HIDE DEF last
<1>13. Len(last.nodes) = n /\ \A i \in 1 .. n : last.nodes[i] = [nodes[i] EXCEPT !.port = last.nodes[i].port]
  BY <1>11 DEF last
<1> QED BY <1>10, <1>12, <1>13 DEF Reported, Spread

-----------------------------------------------------------------------------
(* Lists of nodes.                                                         *)

\* Some positions of a list, in order.
LEMMA ChosenIs ==
    ASSUME NEW X, NEW nodes \in Seq(X), NEW I \in SUBSET DOMAIN nodes
    PROVE  /\ Chosen(nodes, I) \in Seq(X)
           /\ \A k \in DOMAIN Chosen(nodes, I) : Nth(I, k) \in I /\ Chosen(nodes, I)[k] = nodes[Nth(I, k)]
           /\ \A k, l \in DOMAIN Chosen(nodes, I) : k < l <=> Nth(I, k) < Nth(I, l)
           /\ \A i \in I : \E k \in DOMAIN Chosen(nodes, I) : Nth(I, k) = i
<1> DEFINE n == Cardinality(I)
<1>1. I \in SUBSET Nat /\ IsFiniteSet(I)
  <2>1. IsFiniteSet(1 .. Len(nodes))
    BY FS_Interval
  <2>2. I \in SUBSET (1 .. Len(nodes))
    OBVIOUS
  <2>3. IsFiniteSet(I)
    BY <2>1, <2>2, FS_Subset
  <2> QED BY <2>2, <2>3
<1>2. /\ n \in Nat
      /\ \A k \in 1 .. n : Nth(I, k) \in I
      /\ \A k, l \in 1 .. n : k < l => Nth(I, k) < Nth(I, l)
      /\ \A i \in I : \E k \in 1 .. n : Nth(I, k) = i
  BY <1>1, NthIs
<1>3. Chosen(nodes, I) = [k \in 1 .. n |-> nodes[Nth(I, k)]]
  BY DEF Chosen
<1> HIDE DEF n
<1>4. \A k \in 1 .. n : nodes[Nth(I, k)] \in X
  BY <1>2
<1>5. Chosen(nodes, I) \in Seq(X) /\ DOMAIN Chosen(nodes, I) = 1 .. n
  BY <1>2, <1>3, <1>4
<1>6. ASSUME NEW k \in 1 .. n, NEW l \in 1 .. n PROVE k < l <=> Nth(I, k) < Nth(I, l)
  <2>1. Nth(I, k) \in Nat /\ Nth(I, l) \in Nat /\ k \in Nat /\ l \in Nat
    BY <1>1, <1>2
  <2>2. CASE k < l
    BY <1>2, <2>2
  <2>3. CASE l < k
    <3>1. Nth(I, l) < Nth(I, k)
      BY <1>2, <2>3
    <3> QED BY <2>1, <2>3, <3>1
  <2>4. CASE k = l
    BY <2>1, <2>4
  <2> QED BY <2>1, <2>2, <2>3, <2>4
<1> QED BY <1>2, <1>3, <1>5, <1>6

\* The nodes of some routes.
LEMMA WhereIs ==
    ASSUME NEW X, \A x \in X : x.route \in Routes, NEW nodes \in Seq(X), NEW R
    PROVE  /\ Where(nodes, R) \in Seq(X)
           /\ Routed(Where(nodes, R)) = Routed(nodes) \cap R
           /\ OwnPorts(nodes) => OwnPorts(Where(nodes, R))
<1> DEFINE I == {i \in DOMAIN nodes : nodes[i].route \in R}
           w == Chosen(nodes, I)
<1>1. /\ w \in Seq(X)
      /\ \A k \in DOMAIN w : Nth(I, k) \in I /\ w[k] = nodes[Nth(I, k)]
      /\ \A k, l \in DOMAIN w : k < l <=> Nth(I, k) < Nth(I, l)
      /\ \A i \in I : \E k \in DOMAIN w : Nth(I, k) = i
  BY ZenonT(40), ChosenIs
<1>2. Where(nodes, R) = w
  BY DEF Where
<1> HIDE DEF w
<1>3. Routed(w) = Routed(nodes) \cap R
  <2>1. ASSUME NEW k \in DOMAIN w PROVE w[k].route \in Routed(nodes) \cap R
    <3>1. Nth(I, k) \in DOMAIN nodes /\ nodes[Nth(I, k)].route \in R /\ w[k].route = nodes[Nth(I, k)].route
      BY <1>1
    <3> QED BY <3>1 DEF Routed
  <2>2. ASSUME NEW i \in DOMAIN nodes, nodes[i].route \in R PROVE nodes[i].route \in Routed(w)
    <3>1. PICK k \in DOMAIN w : Nth(I, k) = i
      BY <1>1, <2>2
    <3>2. w[k].route = nodes[i].route
      BY <1>1, <3>1
    <3> QED BY <3>2 DEF Routed
  <2> QED BY <2>1, <2>2 DEF Routed
<1>4. ASSUME OwnPorts(nodes) PROVE OwnPorts(w)
  <2>1. ASSUME NEW k \in DOMAIN w, NEW l \in DOMAIN w, w[k].port = w[l].port PROVE k = l
    <3>1. Nth(I, k) = Nth(I, l) /\ Nth(I, k) \in Nat
      BY <1>1, <1>4, <2>1 DEF OwnPorts
    <3>2. ~(k < l) /\ ~(l < k) /\ k \in Nat /\ l \in Nat
      BY <1>1, <3>1
    <3> QED BY <3>2
  <2>2. \A k \in DOMAIN w : w[k].port \in (1 .. LastPort) \ {Listener}
    BY <1>1, <1>4 DEF OwnPorts
  <2> QED BY <2>1, <2>2 DEF OwnPorts
<1> QED BY <1>1, <1>2, <1>3, <1>4

\* Which entry of a route is the last one.
LEMMA LastIs ==
    ASSUME NEW X, NEW nodes \in Seq(X), NEW r \in Routed(nodes)
    PROVE  \E i \in DOMAIN nodes : /\ nodes[i].route = r /\ PortOn(nodes, r) = nodes[i].port
                                   /\ \A j \in DOMAIN nodes : nodes[j].route = r => j <= i
<1> DEFINE J == {j \in DOMAIN nodes : nodes[j].route = r}
           m == Max(J)
<1>1. J \in SUBSET Nat /\ J # {} /\ Len(nodes) \in Nat /\ \A j \in J : j <= Len(nodes)
  BY DEF Routed
<1>2. m \in J /\ \A j \in J : j <= m
  <2> HIDE DEF J
  <2> QED BY <1>1, MaxIsGreatest
<1>3. PortOn(nodes, r) = nodes[m].port
  BY DEF PortOn
<1> HIDE DEF m
<1> QED BY <1>2, <1>3

\* And any entry of a route that is the last one is that.
LEMMA LastOnly ==
    ASSUME NEW X, NEW nodes \in Seq(X), NEW i \in DOMAIN nodes,
           \A j \in DOMAIN nodes : nodes[j].route = nodes[i].route => j <= i
    PROVE  PortOn(nodes, nodes[i].route) = nodes[i].port
<1>1. nodes[i].route \in Routed(nodes)
  BY DEF Routed
<1>2. PICK k \in DOMAIN nodes : /\ nodes[k].route = nodes[i].route
                                /\ PortOn(nodes, nodes[i].route) = nodes[k].port
                                /\ \A j \in DOMAIN nodes : nodes[j].route = nodes[i].route => j <= k
  BY <1>1, LastIs
<1>3. k <= i /\ i <= k
  BY <1>2
<1>4. k = i
  BY <1>3
<1> QED BY <1>2, <1>4

\* Leaving out other routes does not change the port of a route.
LEMMA WherePortOn ==
    ASSUME NEW X, \A x \in X : x.route \in Routes, NEW nodes \in Seq(X), NEW R, NEW r \in Routed(nodes), r \in R
    PROVE  PortOn(Where(nodes, R), r) = PortOn(nodes, r)
<1> DEFINE I == {i \in DOMAIN nodes : nodes[i].route \in R}
           w == Chosen(nodes, I)
<1>1. /\ w \in Seq(X)
      /\ \A k \in DOMAIN w : Nth(I, k) \in I /\ w[k] = nodes[Nth(I, k)]
      /\ \A k, l \in DOMAIN w : k < l <=> Nth(I, k) < Nth(I, l)
      /\ \A i \in I : \E k \in DOMAIN w : Nth(I, k) = i
  BY ZenonT(40), ChosenIs
<1>2. Where(nodes, R) = w
  BY DEF Where
<1> HIDE DEF w
<1>3. PICK i \in DOMAIN nodes : /\ nodes[i].route = r /\ PortOn(nodes, r) = nodes[i].port
                                /\ \A j \in DOMAIN nodes : nodes[j].route = r => j <= i
  BY LastIs
<1>4. PICK k \in DOMAIN w : Nth(I, k) = i
  BY <1>1, <1>3
<1>5. w[k] = nodes[i]
  BY <1>1, <1>4
<1>6. ASSUME NEW l \in DOMAIN w, w[l].route = w[k].route PROVE l <= k
  <2>1. Nth(I, l) \in DOMAIN nodes /\ nodes[Nth(I, l)].route = r
    BY <1>1, <1>3, <1>5, <1>6
  <2>2. Nth(I, l) <= i /\ Nth(I, l) \in Nat /\ i \in Nat
    BY <1>3, <2>1
  <2>3. ~(k < l) /\ k \in Nat /\ l \in Nat
    BY <1>1, <1>4, <2>2
  <2> QED BY <2>3
<1>7. PortOn(w, w[k].route) = w[k].port
  BY <1>1, <1>6, LastOnly
<1> QED BY <1>2, <1>3, <1>5, <1>7

\* Adding a node at the end.
LEMMA AppendIs ==
    ASSUME NEW X, NEW nodes \in Seq(X), NEW n \in X
    PROVE  /\ Append(nodes, n) \in Seq(X)
           /\ Routed(Append(nodes, n)) = Routed(nodes) \cup {n.route}
           /\ PortOn(Append(nodes, n), n.route) = n.port
           /\ \A r \in Routed(nodes) : r # n.route => PortOn(Append(nodes, n), r) = PortOn(nodes, r)
<1> DEFINE more == Append(nodes, n)
           last == Len(nodes) + 1
<1>1. /\ more \in Seq(X) /\ Len(more) = last /\ last \in DOMAIN more /\ more[last] = n
      /\ DOMAIN more = DOMAIN nodes \cup {last}
      /\ \A i \in DOMAIN nodes : i \in DOMAIN more /\ more[i] = nodes[i] /\ i \in Nat /\ i <= Len(nodes)
  OBVIOUS
<1>2. Len(nodes) \in Nat
  OBVIOUS
<1> HIDE DEF more, last
<1>3. Routed(more) = Routed(nodes) \cup {n.route}
  BY <1>1 DEF Routed
<1>4. PortOn(more, n.route) = n.port
  <2>1. \A j \in DOMAIN more : j <= last
    BY <1>1, <1>2 DEF last
  <2> QED BY <1>1, <2>1, LastOnly
<1>5. ASSUME NEW r \in Routed(nodes), r # n.route PROVE PortOn(more, r) = PortOn(nodes, r)
  <2>1. PICK i \in DOMAIN nodes : /\ nodes[i].route = r /\ PortOn(nodes, r) = nodes[i].port
                                  /\ \A j \in DOMAIN nodes : nodes[j].route = r => j <= i
    BY LastIs
  <2>2. i \in DOMAIN more /\ more[i] = nodes[i]
    BY <1>1
  <2>3. ASSUME NEW j \in DOMAIN more, more[j].route = more[i].route PROVE j <= i
    <3>1. j # last
      BY <1>1, <1>5, <2>1, <2>2, <2>3
    <3> QED BY <1>1, <2>1, <2>2, <2>3, <3>1
  <2> QED BY <1>1, <2>1, <2>2, <2>3, LastOnly
<1> QED BY <1>1, <1>3, <1>4, <1>5 DEF more

\* The ports of a list are those that a port is searched for.
LEMMA NodesAre == NodeSet(Nodes)
<1> SUFFICES ASSUME NEW n \in Nodes
             PROVE  /\ "port" \in DOMAIN n /\ n.port \in 0 .. LastPort /\ n = [n EXCEPT !.port = n.port]
                    /\ \A p \in 0 .. LastPort : [n EXCEPT !.port = p] \in Nodes
  BY DEF NodeSet
<1> QED BY DEF Nodes

\* Giving out ports changes neither routes nor where they are kept.
LEMMA ReportedIs ==
    ASSUME NEW a \in Seq(Nodes), NEW b \in Seq(Nodes), Reported(a, b)
    PROVE  /\ DOMAIN a = DOMAIN b /\ Routed(a) = Routed(b)
           /\ \A i \in DOMAIN b : a[i].route = b[i].route /\ a[i].src = b[i].src
           /\ a = <<>> <=> b = <<>>
<1>1. DOMAIN a = DOMAIN b /\ Len(a) = Len(b)
  BY DEF Reported
<1>2. ASSUME NEW i \in DOMAIN b PROVE a[i].route = b[i].route /\ a[i].src = b[i].src
  <2>1. a[i] = [b[i] EXCEPT !.port = a[i].port] /\ b[i] \in Nodes
    BY DEF Reported
  <2>2. \A n \in Nodes : \A p : [n EXCEPT !.port = p].route = n.route /\ [n EXCEPT !.port = p].src = n.src
    BY DEF Nodes
  <2> QED BY ZenonT(40), <2>1, <2>2
<1>3. Routed(a) = Routed(b)
  BY <1>1, <1>2 DEF Routed
<1>4. a = <<>> <=> b = <<>>
  BY <1>1
<1> QED BY <1>1, <1>2, <1>3, <1>4

\* The routes that config.yaml has of a list of nodes.
InlineRoutes(nodes) == {nodes[i].route : i \in {j \in DOMAIN nodes : nodes[j].src = "inline"}}

\* What is written of a list: its inline nodes, and the URIs of the others.
LEMMA FromIs ==
    ASSUME NEW nodes \in Seq(Nodes), NEW src
    PROVE  /\ From(nodes, src) \in Seq(Nodes)
           /\ Routed(From(nodes, src)) = {nodes[i].route : i \in {j \in DOMAIN nodes : nodes[j].src = src}}
<1> DEFINE I == {i \in DOMAIN nodes : nodes[i].src = src}
           w == Chosen(nodes, I)
<1>1. /\ w \in Seq(Nodes)
      /\ \A k \in DOMAIN w : Nth(I, k) \in I /\ w[k] = nodes[Nth(I, k)]
      /\ \A i \in I : \E k \in DOMAIN w : Nth(I, k) = i
  BY ZenonT(40), ChosenIs
<1>2. From(nodes, src) = w
  BY DEF From
<1> HIDE DEF w
<1>3. \A k \in DOMAIN w : \E i \in I : w[k].route = nodes[i].route
  BY <1>1
<1>4. \A i \in I : \E k \in DOMAIN w : w[k].route = nodes[i].route
  BY <1>1
<1>5. Routed(w) = {nodes[i].route : i \in I}
  BY <1>3, <1>4 DEF Routed
<1> QED BY <1>1, <1>2, <1>5

LEMMA InlineIs ==
    ASSUME NEW nodes \in Seq(Nodes)
    PROVE  /\ Inline(nodes) \in Seq(Members)
           /\ Routed(Inline(nodes)) = InlineRoutes(nodes)
<1> DEFINE w == From(nodes, "inline")
<1>1. w \in Seq(Nodes) /\ Routed(w) = InlineRoutes(nodes)
  BY FromIs DEF InlineRoutes
<1>2. Inline(nodes) = [i \in DOMAIN w |-> [route |-> w[i].route, port |-> w[i].port]]
  BY DEF Inline, Mapped
<1> HIDE DEF w
<1>3. \A i \in DOMAIN w : [route |-> w[i].route, port |-> w[i].port] \in Members
  <2>1. \A i \in DOMAIN w : w[i] \in Nodes
    BY <1>1
  <2> QED BY <2>1 DEF Nodes, Members
<1>4. Inline(nodes) \in Seq(Members) /\ DOMAIN Inline(nodes) = DOMAIN w
  BY <1>1, <1>2, <1>3
<1>5. Routed(Inline(nodes)) = Routed(w)
  BY <1>2, <1>4 DEF Routed
<1> QED BY <1>1, <1>4, <1>5

LEMMA LinesAre == ASSUME NEW nodes \in Seq(Nodes) PROVE Lines(nodes) \in Seq(URIs)
<1> DEFINE w == From(nodes, "file")
<1>1. w \in Seq(Nodes)
  BY FromIs
<1>2. Lines(nodes) = [i \in DOMAIN w |-> Bare[w[i].route]]
  BY DEF Lines, FileNodes, Mapped
<1> HIDE DEF w
<1>3. \A i \in DOMAIN w : Bare[w[i].route] \in URIs
  <2>1. \A i \in DOMAIN w : w[i] \in Nodes
    BY <1>1
  <2> QED BY <2>1 DEF Nodes, URIs
<1> QED BY <1>1, <1>2, <1>3

\* Nodes that keep routes and sources are written as before.
LEMMA ReportedInline ==
    ASSUME NEW a \in Seq(Nodes), NEW b \in Seq(Nodes), Reported(a, b)
    PROVE  InlineRoutes(a) = InlineRoutes(b)
<1>1. DOMAIN a = DOMAIN b /\ \A i \in DOMAIN b : a[i].route = b[i].route /\ a[i].src = b[i].src
  BY ReportedIs
<1> QED BY <1>1 DEF InlineRoutes

-----------------------------------------------------------------------------
(* What starts, reloads and restores make of the files and the pool.       *)

\* A list after another.
LEMMA ConcatIs ==
    ASSUME NEW X, NEW a \in Seq(X), NEW b \in Seq(X)
    PROVE  /\ a \o b \in Seq(X)
           /\ Routed(a \o b) = Routed(a) \cup Routed(b)
           /\ InlineRoutes(a \o b) = InlineRoutes(a) \cup InlineRoutes(b)
<1> DEFINE c == a \o b
           m == Len(a)
<1>1. /\ c \in Seq(X) /\ m \in Nat /\ Len(b) \in Nat /\ Len(c) = m + Len(b)
      /\ \A i \in DOMAIN a : c[i] = a[i] /\ i \in DOMAIN c
      /\ \A i \in DOMAIN b : c[m + i] = b[i] /\ m + i \in DOMAIN c
  OBVIOUS
<1>2. \A i \in DOMAIN c : i \in DOMAIN a \/ (i - m \in DOMAIN b /\ c[i] = b[i - m])
  <2> SUFFICES ASSUME NEW i \in DOMAIN c, i \notin DOMAIN a PROVE i - m \in DOMAIN b /\ c[i] = b[i - m]
    OBVIOUS
  <2>1. i \in Nat /\ i > m /\ i <= m + Len(b)
    BY <1>1
  <2>2. i - m \in 1 .. Len(b) /\ m + (i - m) = i
    BY <1>1, <2>1
  <2> QED BY <1>1, <2>2
<1> HIDE DEF c, m
<1>3. Routed(c) = Routed(a) \cup Routed(b)
  <2>1. ASSUME NEW i \in DOMAIN c PROVE c[i].route \in Routed(a) \cup Routed(b)
    BY <1>1, <1>2 DEF Routed
  <2>2. ASSUME NEW i \in DOMAIN a PROVE a[i].route \in Routed(c)
    BY <1>1 DEF Routed
  <2>3. ASSUME NEW i \in DOMAIN b PROVE b[i].route \in Routed(c)
    BY <1>1 DEF Routed
  <2> QED BY <2>1, <2>2, <2>3 DEF Routed
<1>4. InlineRoutes(c) = InlineRoutes(a) \cup InlineRoutes(b)
  <2>1. ASSUME NEW i \in DOMAIN c, c[i].src = "inline" PROVE c[i].route \in InlineRoutes(a) \cup InlineRoutes(b)
    BY <1>1, <1>2, <2>1 DEF InlineRoutes
  <2>2. ASSUME NEW i \in DOMAIN a, a[i].src = "inline" PROVE a[i].route \in InlineRoutes(c)
    BY <1>1, <2>2 DEF InlineRoutes
  <2>3. ASSUME NEW i \in DOMAIN b, b[i].src = "inline" PROVE b[i].route \in InlineRoutes(c)
    BY <1>1, <2>3 DEF InlineRoutes
  <2> QED BY <2>1, <2>2, <2>3 DEF InlineRoutes
<1> QED BY <1>1, <1>3, <1>4 DEF c

\* Entries of a file as nodes.
LEMMA MadeAre ==
    ASSUME NEW seq, DOMAIN seq = 1 .. Len(seq), Len(seq) \in Nat, NEW src \in {"inline", "file"},
           NEW made, made = [i \in DOMAIN seq |-> Node(made[i].route, made[i].port, src)],
           \A i \in DOMAIN seq : made[i].route \in Routes /\ made[i].port \in 0 .. LastPort
    PROVE  /\ made \in Seq(Nodes) /\ DOMAIN made = DOMAIN seq
           /\ InlineRoutes(made) = IF src = "inline" THEN Routed(made) ELSE {}
<1>1. \A i \in DOMAIN seq : made[i] \in Nodes /\ made[i].src = src
  BY DEF Node, Nodes
<1>2. made \in Seq(Nodes) /\ DOMAIN made = DOMAIN seq
  BY <1>1
<1>3. InlineRoutes(made) = IF src = "inline" THEN Routed(made) ELSE {}
  BY <1>1, <1>2 DEF InlineRoutes, Routed
<1> QED BY <1>2, <1>3

\* Config.Load: config.yaml's nodes, and those of nodes.txt as file nodes.
LEMMA LoadedIs ==
    ASSUME NEW content \in Contents, txt \in Seq(URIs) \cup {Short, Mixed, None}
    PROVE  Loaded(content) \in Seq(Nodes) /\ InlineRoutes(Loaded(content)) = Routed(content.nodes)
<1> DEFINE lines == IF content.settings.subs /\ Whole(txt) THEN txt ELSE <<>>
           a == [i \in DOMAIN content.nodes |-> Node(content.nodes[i].route, content.nodes[i].port, "inline")]
           b == [i \in DOMAIN lines |-> Node(lines[i], 0, "file")]
<1>1. Loaded(content) = a \o b
  BY DEF Loaded, Mapped
<1>2. content.nodes \in Seq(Members) /\ \A i \in DOMAIN content.nodes : content.nodes[i] \in Members
  BY DEF Contents
<1>3. lines \in Seq(URIs) /\ \A i \in DOMAIN lines : lines[i] \in Routes
  <2>1. lines \in Seq(URIs)
    BY DEF Whole
  <2>2. \A i \in DOMAIN lines : lines[i] \in URIs
    BY <2>1
  <2> QED BY <2>1, <2>2, BareAssumption DEF URIs
<1> HIDE DEF lines
<1>4. a \in Seq(Nodes) /\ DOMAIN a = DOMAIN content.nodes /\ InlineRoutes(a) = Routed(a)
  <2>1. \A i \in DOMAIN content.nodes : /\ a[i].route = content.nodes[i].route /\ a[i].port = content.nodes[i].port
                                        /\ a[i].route \in Routes /\ a[i].port \in 0 .. LastPort
    BY <1>2 DEF Node, Members
  <2>2. a = [i \in DOMAIN content.nodes |-> Node(a[i].route, a[i].port, "inline")]
    BY <2>1
  <2>3. DOMAIN content.nodes = 1 .. Len(content.nodes) /\ Len(content.nodes) \in Nat
    BY <1>2
  <2> HIDE DEF a
  <2> QED BY <2>1, <2>2, <2>3, MadeAre
<1>5. Routed(a) = Routed(content.nodes)
  BY <1>4 DEF Routed, Node
<1>6. b \in Seq(Nodes) /\ InlineRoutes(b) = {}
  <2>1. \A i \in DOMAIN lines : b[i].route = lines[i] /\ b[i].port = 0 /\ b[i].route \in Routes /\ b[i].port \in 0 .. LastPort
    BY <1>3, PortRange DEF Node
  <2>2. b = [i \in DOMAIN lines |-> Node(b[i].route, b[i].port, "file")]
    BY <2>1
  <2>3. DOMAIN lines = 1 .. Len(lines) /\ Len(lines) \in Nat
    BY <1>3
  <2> HIDE DEF b
  <2> QED BY <2>1, <2>2, <2>3, MadeAre
<1> HIDE DEF a, b
<1>7. a \o b \in Seq(Nodes) /\ InlineRoutes(a \o b) = InlineRoutes(a) \cup InlineRoutes(b)
  <2>1. a \in Seq(Nodes) /\ b \in Seq(Nodes)
    BY <1>4, <1>6
  <2> QED BY <2>1, ConcatIs
<1> QED BY <1>1, <1>4, <1>5, <1>6, <1>7

\* There are finitely many routes in a list, and an order of some of them has
\* each.
LEMMA OrderIs ==
    ASSUME NEW X, NEW nodes \in Seq(X), NEW D \in SUBSET Routed(nodes), NEW order \in SetToSeqs(D)
    PROVE  order \in Seq(D) /\ {order[i] : i \in DOMAIN order} = D
<1> DEFINE n == Cardinality(D)
           f == [i \in DOMAIN nodes |-> nodes[i].route]
<1>1. f \in Surjection(DOMAIN nodes, Routed(nodes))
  BY DEF Surjection, Routed
<1>2. IsFiniteSet(DOMAIN nodes)
  <2>1. DOMAIN nodes = 1 .. Len(nodes) /\ Len(nodes) \in Int
    OBVIOUS
  <2> QED BY <2>1, FS_Interval
<1>3. IsFiniteSet(D) /\ n \in Nat
  <2> HIDE DEF f
  <2>1. IsFiniteSet(Routed(nodes))
    BY <1>1, <1>2, FS_Surjection
  <2> QED BY <2>1, FS_Subset, FS_CardinalityType
<1>4. order \in [1 .. n -> D] /\ \A i, j \in 1 .. n : i # j => order[i] # order[j]
  BY DEF SetToSeqs
<1>5. order \in Injection(1 .. n, D)
  BY <1>4 DEF Injection, IsInjective
<1>6. Cardinality(1 .. n) = Cardinality(D)
  BY <1>3, FS_Interval
<1> HIDE DEF n
<1>7. order \in Surjection(1 .. n, D)
  BY <1>3, <1>5, <1>6, FS_Injection
<1>8. order \in Seq(D) /\ DOMAIN order = 1 .. n
  BY <1>3, <1>4
<1>9. \A d \in D : \E i \in 1 .. n : order[i] = d
  BY <1>7 DEF Surjection
<1> QED BY <1>4, <1>8, <1>9


-----------------------------------------------------------------------------
(* Types, and what goes with what.                                         *)

Points   == {"none", "save", "pool", "rollback", "store", "toapply", "apply", "list", "chain", "toreapply", "reapply",
             "putfile", "putting"}
Args     == {None} \cup Routes \cup Nat \cup [settings : Settings, nodes : Seq(Nodes)]
Ops      == [name : {"none", "create", "delete", "reload", "settings", "webdav", "restore"},
             pc   : Points,
             arg  : Args]
Jobs     == [at      : {"none", "start", "rename", "fill", "done", "failed"},
             files   : {<<>>, <<"yaml">>, <<"txt", "yaml">>},
             part    : {"none", "nodes", "settings", "whole", "putback"},
             content : {None, Short, Mixed} \cup Contents \cup Settings \cup Seq(Nodes),
             data    : {None, Short, Mixed} \cup Contents \cup Seq(URIs)]
Backups  == [settings : Settings, nodes : Seq(Nodes), pool : Seq(Members)]
Restores == [cfg : Configs \cup {None}, file : Contents \cup {Short, Mixed, None},
             pool : Seq(Members) \cup {None}]

DiskTyped == yaml \in Contents \cup {Short, Mixed} /\ txt \in Seq(URIs) \cup {Short, Mixed, None}
MemTyped ==
    /\ stage \in {"off", "loaded", "packing", "syncing", "serving"}
    /\ IF stage = "off" THEN mem = None ELSE mem \in Configs
    /\ web \in Settings /\ synced \in BOOLEAN /\ ran \in Configs \cup {None}
BackupTyped == dav \in Nat /\ archive \in Backups \cup {None} /\ rs \in Restores
ManagerTyped ==
    undo \in Seq(Nodes) /\ reloadMu \in {None, "manager", "backup"} /\ target \in Configs \cup {None}
HistoryTyped ==
    disturbed \in BOOLEAN /\ cut \in BOOLEAN /\ putBack \in BOOLEAN /\ refuses \in BOOLEAN /\ faults \in Nat
Typed ==
    /\ DiskTyped /\ MemTyped /\ BackupTyped /\ ManagerTyped /\ HistoryTyped
    /\ pool \in Seq(Members)
    /\ job \in [Threads -> Jobs] /\ op \in [Threads -> Ops]

\* A save: what it is of, and what it has made of that for the file it is at.
Active(j) == j.at \in {"start", "rename", "fill"}
JobOf(j) ==
    \/ j.part = "nodes"    /\ j.content \in Seq(Nodes)
    \/ j.part = "settings" /\ j.content \in Settings /\ j.files = <<"yaml">>
    \/ j.part = "whole"    /\ j.content \in Contents /\ j.files = <<"yaml">>
    \/ j.part = "putback"  /\ j.content \in Contents \cup {Short, Mixed} /\ j.files = <<"yaml">>
Prepared(j) ==
    IF Head(j.files) = "txt" THEN j.data \in Seq(URIs)
    ELSE CASE j.part = "nodes"    -> j.data \in Contents /\ j.data.nodes = Inline(j.content)
           [] j.part = "settings" -> j.data \in Contents /\ j.data.settings = j.content
           [] OTHER               -> j.data = j.content
JobOK(j) ==
    /\ Active(j) => j.files # <<>> /\ JobOf(j)
    /\ j.at \in {"rename", "fill"} => Prepared(j)

\* The program outside of serving.
StageShape ==
    /\ stage # "serving" => /\ Free("manager") /\ Free("backup") /\ job["backup"] = Idle
                            /\ reloadMu = None /\ target = None
                            /\ stage # "packing" => job["manager"] = Idle
    /\ stage = "packing" => job["manager"].at # "none" /\ job["manager"].part = "nodes"
    /\ stage = "off" => Free("web") /\ job["web"] = Idle /\ ran = None
\* The operations, and the saves they are in.
ManagerShape ==
    LET o == op["manager"] IN
    /\ o.name = "none" => Free("manager") /\ (stage = "serving" => job["manager"] = Idle)
    /\ o.name \in {"none", "create", "delete", "reload"}
    /\ o.name \in {"create", "delete"} => o.pc \in {"save", "pool"} /\ o.arg \in Routes
    /\ o.name = "reload" => o.pc \in {"save", "rollback", "pool"}
    /\ o.pc = "pool" => job["manager"] = Idle
    /\ o.pc \in {"save", "rollback"} => job["manager"].at # "none" /\ job["manager"].part = "nodes"
WebShape ==
    LET o == op["web"] IN
    /\ o.name \in {"none", "settings"}
    /\ o.name = "none" => Free("web") /\ job["web"] = Idle
    /\ o.name = "settings" => o.pc = "save" /\ job["web"].at # "none" /\ job["web"].part = "settings"
BackupShape ==
    LET o == op["backup"] IN
    /\ o.name \in {"none", "webdav", "create", "restore"}
    /\ o.name = "none" => Free("backup") /\ job["backup"] = Idle
    /\ o.name = "webdav" => o.pc = "save" /\ o.arg \in Nat /\ job["backup"].at # "none" /\ job["backup"].part = "settings"
    /\ o.name = "create" => /\ o.pc = "save" /\ job["backup"] = Idle
                            /\ o.arg \in [settings : Settings, nodes : Seq(Nodes)]
    /\ o.name = "restore" =>
          /\ o.pc \in {"save", "store", "toapply", "apply", "rollback", "list", "chain", "toreapply", "reapply",
                       "putfile", "putting"}
          /\ o.pc = "save" => job["backup"].at # "none" /\ job["backup"].part = "whole"
          /\ o.pc \in {"apply", "reapply", "rollback"} => job["backup"].at # "none" /\ job["backup"].part \in {"none", "nodes"}
          /\ o.pc = "putting" => job["backup"].at # "none" /\ job["backup"].part = "putback"
          /\ o.pc \in {"store", "toapply", "list", "chain", "toreapply", "putfile"} => job["backup"] = Idle
          /\ archive # None
          /\ rs.cfg \in Configs /\ rs.file \in Contents \cup {Short, Mixed} /\ rs.pool \in Seq(Members)
          /\ before = [file |-> rs.file, pool |-> rs.pool] /\ outcome = "none"
\* Who holds the lock, and what for.
LockShape ==
    /\ reloadMu = "manager" <=> op["manager"].pc \in {"save", "rollback"}
    /\ reloadMu = "backup" <=> op["backup"].pc \in {"apply", "reapply", "rollback"}
    /\ target # None <=> reloadMu = "backup" \/ (reloadMu = "manager" /\ op["manager"].name = "reload")
    /\ \A t \in Threads : op[t].pc = "rollback" => ran # None
Shape ==
    /\ \A t \in Threads : JobOK(job[t])
    /\ StageShape /\ ManagerShape /\ WebShape /\ BackupShape /\ LockShape

Formed == Typed /\ Shape

-----------------------------------------------------------------------------
(* What the operations work with.                                          *)

\* Nodes or settings of a configuration are replaced.
LEMMA WithNodes ==
    ASSUME NEW c \in Configs, NEW nodes \in Seq(Nodes)
    PROVE  /\ [c EXCEPT !.nodes = nodes] \in Configs /\ [c EXCEPT !.nodes = nodes] # None
           /\ [c EXCEPT !.nodes = nodes].nodes = nodes /\ [c EXCEPT !.nodes = nodes].settings = c.settings
  BY MarksAssumption DEF Configs

LEMMA WithSettings ==
    ASSUME NEW c \in Configs, NEW settings \in Settings
    PROVE  /\ [c EXCEPT !.settings = settings] \in Configs
           /\ [c EXCEPT !.settings = settings].nodes = c.nodes /\ [c EXCEPT !.settings = settings].settings = settings
  BY DEF Configs

LEMMA ConfigIs ==
    ASSUME NEW c \in Configs
    PROVE  c # None /\ c.nodes \in Seq(Nodes) /\ c.settings \in Settings /\ c.nodesFile \in BOOLEAN
  BY MarksAssumption DEF Configs

\* Members and nodes have routes.
LEMMA HaveRoutes == /\ \A x \in Nodes : x.route \in Routes /\ x.port \in 0 .. LastPort
                    /\ \A x \in Members : x.route \in Routes /\ x.port \in 0 .. LastPort
  BY DEF Nodes, Members

LEMMA RoutedIs ==
    ASSUME NEW X, \A x \in X : x.route \in Routes, NEW nodes \in Seq(X)
    PROVE  Routed(nodes) \subseteq Routes /\ \A i \in DOMAIN nodes : nodes[i] \in X /\ nodes[i].route \in Routed(nodes)
  BY DEF Routed

\* Which saves there are.
LEMMA SaveNodesIs ==
    ASSUME NEW c \in Configs
    PROVE  /\ SaveNodes(c) \in Jobs /\ JobOK(SaveNodes(c)) /\ SaveNodes(c).at = "start"
           /\ SaveNodes(c).part = "nodes" /\ SaveNodes(c).content = c.nodes
  BY ConfigIs DEF SaveNodes, SaveJob, Jobs, JobOK, JobOf, Active

LEMMA SaveSettingsIs ==
    ASSUME NEW s \in Settings
    PROVE  /\ SaveSettings(s) \in Jobs /\ JobOK(SaveSettings(s)) /\ SaveSettings(s).at = "start"
           /\ SaveSettings(s).part = "settings" /\ SaveSettings(s).content = s
  BY DEF SaveSettings, SaveJob, Jobs, JobOK, JobOf, Active

LEMMA SaveFullIs ==
    ASSUME NEW c \in Configs
    PROVE  /\ SaveFull(c) \in Jobs /\ JobOK(SaveFull(c)) /\ SaveFull(c).at = "start" /\ SaveFull(c).part = "whole"
           /\ SaveFull(c).content = [settings |-> c.settings, nodes |-> Inline(c.nodes)]
           /\ SaveFull(c).content \in Contents
<1>1. [settings |-> c.settings, nodes |-> Inline(c.nodes)] \in Contents
  BY ConfigIs, InlineIs DEF Contents
<1> QED BY <1>1 DEF SaveFull, SaveJob, Jobs, JobOK, JobOf, Active

LEMMA PutBackIs ==
    ASSUME NEW x \in Contents \cup {Short, Mixed}
    PROVE  /\ PutBack(x) \in Jobs /\ JobOK(PutBack(x)) /\ PutBack(x).at = "start"
           /\ PutBack(x).part = "putback" /\ PutBack(x).content = x
  BY DEF PutBack, SaveJob, Jobs, JobOK, JobOf, Active

LEMMA IdleIs == /\ Idle \in Jobs /\ JobOK(Idle) /\ ~Active(Idle) /\ Idle.at = "none" /\ Idle.part = "none"
                /\ [Idle EXCEPT !.at = "done"] \in Jobs /\ JobOK([Idle EXCEPT !.at = "done"])
                /\ [Idle EXCEPT !.at = "done"].at = "done" /\ [Idle EXCEPT !.at = "done"].part = "none"
                /\ NoOp.name = "none" /\ NoOp.pc = "none"
                /\ NoOp \in Ops /\ NoRestore \in Restores /\ NoSettings \in Settings /\ Blank \in Contents
  BY DEF Idle, Jobs, JobOK, JobOf, Active, NoOp, Ops, Points, Args, NoRestore, Restores, NoSettings, Settings,
     Blank, Contents

\* The restored configuration: nodes and pool of the archive, all inline.
LEMMA RestoredIs ==
    ASSUME archive \in Backups
    PROVE  /\ Restored \in Configs /\ Restored.settings = archive.settings
           /\ Routed(Restored.nodes) = Routed(archive.nodes) \cup Routed(archive.pool)
           /\ InlineRoutes(Restored.nodes) = Routed(Restored.nodes)
<1> DEFINE missing == Where(archive.pool, Routes \ Routed(archive.nodes))
           X == Nodes \cup Members
           all == archive.nodes \o missing
           made == [i \in DOMAIN all |-> Node(all[i].route, all[i].port, "inline")]
<1>1. archive.nodes \in Seq(X) /\ archive.pool \in Seq(X) /\ \A x \in X : x.route \in Routes /\ x.port \in 0 .. LastPort
  <2>1. archive.nodes \in Seq(Nodes) /\ archive.pool \in Seq(Members)
    BY DEF Backups
  <2> QED BY <2>1, HaveRoutes
<1>2. missing \in Seq(X) /\ Routed(missing) = Routed(archive.pool) \cap (Routes \ Routed(archive.nodes))
  <2> HIDE DEF X
  <2> QED BY <1>1, WhereIs
<1>3. Routed(archive.pool) \subseteq Routes
  <2> HIDE DEF X
  <2> QED BY <1>1, RoutedIs
<1>4. all \in Seq(X) /\ Routed(all) = Routed(archive.nodes) \cup Routed(missing)
  <2> HIDE DEF X, missing
  <2> QED BY <1>1, <1>2, ConcatIs
<1>5. Restored = [settings |-> archive.settings, nodesFile |-> FALSE, nodes |-> made]
  BY DEF Restored, Mapped
<1> HIDE DEF X, all, missing
<1>6. \A i \in DOMAIN all : /\ made[i].route = all[i].route /\ made[i].port = all[i].port
                            /\ made[i].route \in Routes /\ made[i].port \in 0 .. LastPort
  <2>1. \A i \in DOMAIN all : all[i] \in X
    BY <1>4
  <2> QED BY <1>1, <2>1 DEF Node
<1>7. made \in Seq(Nodes) /\ DOMAIN made = DOMAIN all /\ InlineRoutes(made) = Routed(made)
  <2>1. made = [i \in DOMAIN all |-> Node(made[i].route, made[i].port, "inline")]
    BY <1>6
  <2>2. DOMAIN all = 1 .. Len(all) /\ Len(all) \in Nat
    BY <1>4
  <2> HIDE DEF made
  <2> QED BY <1>6, <2>1, <2>2, MadeAre
<1> HIDE DEF made
<1>8. Routed(made) = Routed(all)
  BY <1>6, <1>7 DEF Routed
<1>9. Restored \in Configs /\ Restored.nodes = made /\ Restored.settings = archive.settings
  BY <1>5, <1>7 DEF Configs, Backups
<1> QED BY <1>2, <1>3, <1>4, <1>7, <1>8, <1>9

\* Members get the ports of the nodes.
LEMMA SyncedIs ==
    ASSUME pool \in Seq(Members), NEW c \in Configs
    PROVE  /\ SyncedPool(c) \in Seq(Members) /\ DOMAIN SyncedPool(c) = DOMAIN pool
           /\ Routed(SyncedPool(c)) = Routed(pool)
           /\ \A i \in DOMAIN pool : pool[i].route \in Routed(c.nodes) =>
                 SyncedPool(c)[i].route = pool[i].route /\ SyncedPool(c)[i].port = PortOn(c.nodes, pool[i].route)
<1> DEFINE new == SyncedPool(c)
<1>1. new = [i \in DOMAIN pool |-> IF pool[i].route \in Routed(c.nodes)
                                     THEN [pool[i] EXCEPT !.port = PortOn(c.nodes, pool[i].route)] ELSE pool[i]]
  BY DEF SyncedPool
<1> HIDE DEF new
<1>2. c.nodes \in Seq(Nodes)
  BY ConfigIs
<1>3. \A i \in DOMAIN pool : pool[i] \in Members
  OBVIOUS
<1>4. ASSUME NEW r \in Routed(c.nodes) PROVE PortOn(c.nodes, r) \in 0 .. LastPort
  <2>1. PICK i \in DOMAIN c.nodes : PortOn(c.nodes, r) = c.nodes[i].port
    BY <1>2, LastIs
  <2>2. c.nodes[i] \in Nodes
    BY <1>2
  <2> QED BY <2>1, <2>2, HaveRoutes
<1>5. ASSUME NEW i \in DOMAIN pool
      PROVE  /\ new[i] \in Members /\ new[i].route = pool[i].route
             /\ pool[i].route \in Routed(c.nodes) => new[i].port = PortOn(c.nodes, pool[i].route)
  <2>1. CASE pool[i].route \in Routed(c.nodes)
    BY <1>1, <1>3, <1>4, <2>1 DEF Members
  <2>2. CASE pool[i].route \notin Routed(c.nodes)
    BY <1>1, <1>3, <2>2
  <2> QED BY <2>1, <2>2
<1>6. DOMAIN new = DOMAIN pool /\ new \in Seq(Members)
  BY <1>1, <1>5
<1>7. Routed(new) = Routed(pool)
  BY <1>5, <1>6 DEF Routed
<1> QED BY <1>5, <1>6, <1>7 DEF new

\* The nodes that app.Run makes of configuration and pool: those of the pool.
LEMMA FilteredIs ==
    ASSUME pool \in Seq(Members), mem \in Configs, NEW order \in SetToSeqs(Routed(pool) \ Routed(mem.nodes))
    PROVE  LET unported == Mapped(Filtered(order), LAMBDA n : [n EXCEPT !.port = 0])
           IN  unported \in Seq(Nodes) /\ Routed(unported) = Routed(pool)
<1> DEFINE D == Routed(pool) \ Routed(mem.nodes)
           kept == Where(mem.nodes, Routed(pool))
           new == [i \in DOMAIN order |-> Node(order[i], 0, "file")]
           all == kept \o new
           unported == [i \in DOMAIN all |-> [all[i] EXCEPT !.port = 0]]
<1>1. Mapped(Filtered(order), LAMBDA n : [n EXCEPT !.port = 0]) = unported
  BY DEF Filtered, Mapped
<1>2. mem.nodes \in Seq(Nodes) /\ Routed(pool) \subseteq Routes
  BY ConfigIs, HaveRoutes, RoutedIs
<1>3. kept \in Seq(Nodes) /\ Routed(kept) = Routed(mem.nodes) \cap Routed(pool)
  BY <1>2, HaveRoutes, WhereIs
<1>4. order \in Seq(D) /\ {order[i] : i \in DOMAIN order} = D
  <2>1. D \in SUBSET Routed(pool) /\ order \in SetToSeqs(D)
    OBVIOUS
  <2> HIDE DEF D
  <2> QED BY <2>1, OrderIs
<1>5. D \subseteq Routes
  BY <1>2
<1> HIDE DEF D, kept
<1>6. \A i \in DOMAIN order : new[i].route = order[i] /\ new[i].port = 0 /\ new[i].route \in Routes /\ new[i].port \in 0 .. LastPort
  <2>1. \A i \in DOMAIN order : order[i] \in D
    BY <1>4
  <2> QED BY <1>5, <2>1, PortRange DEF Node
<1>7. new \in Seq(Nodes) /\ DOMAIN new = DOMAIN order
  <2>1. new = [i \in DOMAIN order |-> Node(new[i].route, new[i].port, "file")]
    BY <1>6
  <2>2. DOMAIN order = 1 .. Len(order) /\ Len(order) \in Nat
    BY <1>4
  <2> HIDE DEF new
  <2> QED BY <1>6, <2>1, <2>2, MadeAre
<1> HIDE DEF new
<1>8. Routed(new) = D
  BY <1>4, <1>6, <1>7 DEF Routed
<1>9. all \in Seq(Nodes) /\ Routed(all) = Routed(kept) \cup Routed(new)
  BY <1>3, <1>7, ConcatIs
<1> HIDE DEF all
<1>10. \A i \in DOMAIN all : unported[i] \in Nodes /\ unported[i].route = all[i].route
  <2>1. \A i \in DOMAIN all : all[i] \in Nodes
    BY <1>9
  <2> QED BY <2>1, PortRange DEF Nodes
<1>11. unported \in Seq(Nodes) /\ DOMAIN unported = DOMAIN all
  BY <1>9, <1>10
<1> HIDE DEF unported
<1>12. Routed(unported) = Routed(all)
  BY <1>10, <1>11 DEF Routed
<1>13. Routed(unported) = Routed(pool)
  BY <1>3, <1>8, <1>9, <1>12 DEF D
<1> QED BY <1>1, <1>11, <1>13

\* What the backup service takes for the configuration.
LEMMA CurrentIs ==
    ASSUME mem \in Configs, dav \in Nat
    PROVE  /\ Current \in Configs /\ Current # None /\ Current.nodes = mem.nodes /\ Current.nodes \in Seq(Nodes)
           /\ Current.settings \in Settings /\ Current.settings.ui = mem.settings.ui
           /\ Current.settings.subs = mem.settings.subs
<1> DEFINE s == [mem.settings EXCEPT !.dav = dav]
<1>1. mem.settings \in Settings /\ s \in Settings /\ s.ui = mem.settings.ui /\ s.subs = mem.settings.subs
  BY ConfigIs DEF Settings
<1>2. Current = [mem EXCEPT !.settings = s]
  BY DEF Current
<1> HIDE DEF s
<1> QED BY <1>1, <1>2, WithSettings, ConfigIs

\* An operation goes on, or ends.
LEMMA OpMoves ==
    ASSUME op \in [Threads -> Ops], NEW t \in Threads, NEW pc \in Points
    PROVE  [op EXCEPT ![t].pc = pc] \in [Threads -> Ops] /\ [op EXCEPT ![t] = NoOp] \in [Threads -> Ops]
<1>1. [op[t] EXCEPT !.pc = pc] \in Ops
  BY DEF Ops
<1> QED BY <1>1, IdleIs

-----------------------------------------------------------------------------
(* A step of a save.                                                       *)

\* What is prepared for a file.
LEMMA PatchedIs ==
    ASSUME NEW j \in Jobs, JobOK(j), j.at = "start", NEW base, NeedsFile(j) => base \in Contents,
           NEW k, k = [j EXCEPT !.at = "rename", !.data = Patched(j, base)]
    PROVE  /\ k \in Jobs /\ JobOK(k) /\ k.at = "rename" /\ k.files = j.files /\ k.part = j.part
           /\ k.content = j.content /\ k.data = Patched(j, base)
<1>1. j.files # <<>> /\ JobOf(j) /\ Head(j.files) \in {"yaml", "txt"}
  BY DEF JobOK, Active, Jobs
<1>2. k.at = "rename" /\ k.files = j.files /\ k.part = j.part /\ k.content = j.content /\ k.data = Patched(j, base)
  BY DEF Jobs
<1>3. CASE Head(j.files) = "txt"
  <2>1. j.part = "nodes" /\ j.content \in Seq(Nodes)
    BY <1>1, <1>3 DEF JobOf
  <2>2. k.data = Lines(j.content) /\ k.data \in Seq(URIs)
    BY <1>2, <1>3, <2>1, LinesAre DEF Patched
  <2>3. Prepared(k)
    BY <1>2, <1>3, <2>2 DEF Prepared
  <2>4. k \in Jobs
    BY <2>2 DEF Jobs
  <2> QED BY <1>1, <1>2, <2>3, <2>4 DEF JobOK, JobOf, Active
<1>4. CASE Head(j.files) = "yaml" /\ j.part = "nodes"
  <2>1. base \in Contents /\ j.content \in Seq(Nodes)
    BY <1>1, <1>4 DEF NeedsFile, JobOf
  <2>2. k.data = [base EXCEPT !.nodes = Inline(j.content)]
    BY <1>2, <1>4 DEF Patched
  <2>3. k.data \in Contents /\ k.data.nodes = Inline(j.content)
    BY <2>1, <2>2, InlineIs DEF Contents
  <2>4. Prepared(k)
    BY <1>2, <1>4, <2>3 DEF Prepared
  <2>5. k \in Jobs
    BY <1>2, <2>3 DEF Jobs
  <2> QED BY <1>1, <1>2, <2>4, <2>5 DEF JobOK, JobOf, Active
<1>5. CASE Head(j.files) = "yaml" /\ j.part = "settings"
  <2>1. base \in Contents /\ j.content \in Settings
    BY <1>1, <1>5 DEF NeedsFile, JobOf
  <2>2. k.data = [base EXCEPT !.settings = j.content]
    BY <1>2, <1>5 DEF Patched
  <2>3. k.data \in Contents /\ k.data.settings = j.content
    BY <2>1, <2>2 DEF Contents
  <2>4. Prepared(k)
    BY <1>2, <1>5, <2>3 DEF Prepared
  <2>5. k \in Jobs
    BY <1>2, <2>3 DEF Jobs
  <2> QED BY <1>1, <1>2, <2>4, <2>5 DEF JobOK, JobOf, Active
<1>6. CASE Head(j.files) = "yaml" /\ j.part \notin {"nodes", "settings"}
  <2>1. j.content \in Contents \cup {Short, Mixed}
    BY <1>1, <1>6 DEF JobOf
  <2>2. k.data = j.content
    BY <1>2, <1>6 DEF Patched
  <2>3. Prepared(k)
    BY <1>2, <1>6, <2>2 DEF Prepared
  <2>4. k \in Jobs
    BY <1>2, <2>1, <2>2 DEF Jobs
  <2> QED BY <1>1, <1>2, <2>3, <2>4 DEF JobOK, JobOf, Active
<1> QED BY <1>1, <1>3, <1>4, <1>5, <1>6

\* A file is done with.
LEMMA AdvanceIs ==
    ASSUME NEW j \in Jobs, JobOK(j), Active(j)
    PROVE  /\ Advance(j) \in Jobs /\ JobOK(Advance(j)) /\ Advance(j).at \in {"start", "done"}
           /\ Advance(j).part = j.part /\ Advance(j).content = j.content
           /\ Head(j.files) = "yaml" <=> Advance(j).at = "done"
           /\ Advance(j).at = "start" => Advance(j).files = <<"yaml">>
<1>1. j.files \in {<<"yaml">>, <<"txt", "yaml">>} /\ JobOf(j)
  BY DEF JobOK, Jobs
<1>2. CASE j.files = <<"yaml">>
  <2>1. Advance(j) = [j EXCEPT !.files = <<>>, !.data = None, !.at = "done"]
    <3>1. Tail(j.files) = <<>> /\ Len(j.files) = 1
      BY <1>2
    <3> QED BY <3>1 DEF Advance
  <2>2. Head(j.files) = "yaml"
    BY <1>2
  <2> QED BY <2>1, <2>2 DEF JobOK, Active, Jobs
<1>3. CASE j.files = <<"txt", "yaml">>
  <2>1. Advance(j) = [j EXCEPT !.files = <<"yaml">>, !.data = None, !.at = "start"]
    <3>1. Tail(j.files) = <<"yaml">> /\ Len(j.files) # 1
      BY <1>3
    <3> QED BY <3>1 DEF Advance
  <2>2. Head(j.files) = "txt"
    BY <1>3
  <2>3. j.part = "nodes" /\ j.content \in Seq(Nodes)
    BY <1>1, <1>3 DEF JobOf
  <2>4. Advance(j) \in Jobs /\ Advance(j).at = "start" /\ Advance(j).files = <<"yaml">>
        /\ Advance(j).part = j.part /\ Advance(j).content = j.content
    BY <2>1 DEF Jobs
  <2>5. JobOK(Advance(j))
    BY <2>3, <2>4 DEF JobOK, JobOf, Active
  <2> QED BY <2>2, <2>4, <2>5
<1> QED BY <1>1, <1>2, <1>3

\* What a step of a save changes.
LEMMA SaveDoes ==
    ASSUME Formed, NEW t \in Threads, Save(t)
    PROVE  /\ Active(job[t]) /\ job' = [job EXCEPT ![t] = job'[t]]
           /\ job'[t] \in Jobs /\ JobOK(job'[t]) /\ job'[t].at # "none"
           /\ job'[t].part = job[t].part /\ job'[t].content = job[t].content
           /\ DiskTyped' /\ disturbed' \in BOOLEAN /\ cut' \in BOOLEAN /\ faults' \in Nat
           /\ UNCHANGED <<pool, world, stage, conf, bk, mgr, op, putBack, before, outcome>>
<1> DEFINE j == job[t]
<1>1. j \in Jobs /\ JobOK(j) /\ t \in DOMAIN job
  BY DEF Formed, Typed, Shape
<1>2. DiskTyped /\ disturbed \in BOOLEAN /\ cut \in BOOLEAN /\ faults \in Nat
  BY DEF Formed, Typed, HistoryTyped
<1>3. Active(j) => Head(j.files) \in {"yaml", "txt"} /\ JobOf(j)
  BY <1>1 DEF JobOK, Jobs
<1>4. CASE Prepare(t)
  <2> DEFINE base == IF yaml = Short THEN Blank ELSE yaml
             k == [j EXCEPT !.at = "rename", !.data = Patched(j, base)]
  <2>1. /\ j.at = "start"
        /\ NeedsFile(j) => yaml # Mixed
        /\ job' = [job EXCEPT ![t] = k]
        /\ disturbed' = (disturbed \/ Crowded(t))
        /\ UNCHANGED <<yaml, txt, cut, faults>>
        /\ UNCHANGED <<pool, world, stage, conf, bk, mgr, op, putBack, before, outcome>>
    BY <1>4 DEF Prepare, Start, disk, bounds
  <2>2. NeedsFile(j) => base \in Contents
    BY <1>2, <2>1, IdleIs DEF DiskTyped
  <2>3. k \in Jobs /\ JobOK(k) /\ k.at = "rename" /\ k.part = j.part /\ k.content = j.content
    <3> HIDE DEF base
    <3>1. k = [j EXCEPT !.at = "rename", !.data = Patched(j, base)]
      OBVIOUS
    <3> HIDE DEF k, j
    <3> QED BY <1>1, <2>1, <2>2, <3>1, PatchedIs
  <2> HIDE DEF k
  <2>4. job'[t] = k /\ job' = [job EXCEPT ![t] = job'[t]]
    BY <1>1, <2>1
  <2>5. disturbed' \in BOOLEAN
    BY <1>2, <2>1 DEF Crowded
  <2> QED BY <1>2, <2>1, <2>3, <2>4, <2>5 DEF Active, DiskTyped
<1>5. CASE PrepareFails(t)
  <2> DEFINE k == [j EXCEPT !.at = "failed"]
  <2>1. /\ j.at = "start" /\ job' = [job EXCEPT ![t] = k]
        /\ disturbed' = (disturbed \/ Crowded(t))
        /\ faults' \in Nat
        /\ UNCHANGED <<yaml, txt, cut>>
        /\ UNCHANGED <<pool, world, stage, conf, bk, mgr, op, putBack, before, outcome>>
    BY <1>2, <1>5 DEF PrepareFails, Start, disk, Faulty
  <2>2. k \in Jobs /\ JobOK(k) /\ k.at = "failed" /\ k.part = j.part /\ k.content = j.content
    BY <1>1 DEF Jobs, JobOK, Active
  <2> HIDE DEF k
  <2>4. job'[t] = k /\ job' = [job EXCEPT ![t] = job'[t]]
    BY <1>1, <2>1
  <2>5. disturbed' \in BOOLEAN
    BY <1>2, <2>1 DEF Crowded
  <2> QED BY <1>2, <2>1, <2>2, <2>4, <2>5 DEF Active, DiskTyped
<1>6. CASE Rename(t) \/ Truncate(t) \/ Fill(t)
  <2>1. PICK content :
           /\ Put(Head(j.files), content) /\ j.at \in {"rename", "fill"}
           /\ content \in {Short, Mixed, j.data}
           /\ \/ job' = [job EXCEPT ![t] = Advance(j)]
              \/ job' = [job EXCEPT ![t] = [j EXCEPT !.at = "fill"]] /\ j.at = "rename"
           /\ UNCHANGED <<disturbed, cut, faults>>
           /\ UNCHANGED <<pool, world, stage, conf, bk, mgr, op, putBack, before, outcome>>
    <3>1. UNCHANGED <<pool, world, stage, conf, bk, mgr, op, hist, bounds>>
      BY <1>6 DEF Rename, Truncate, Fill
    <3>2. /\ UNCHANGED <<disturbed, cut, faults>>
          /\ UNCHANGED <<pool, world, stage, conf, bk, mgr, op, putBack, before, outcome>>
      BY <3>1 DEF hist, bounds
    <3>3. CASE Rename(t)
      BY <3>2, <3>3 DEF Rename, Start
    <3>4. CASE Truncate(t)
      BY <3>2, <3>4 DEF Truncate, Start
    <3>5. CASE Fill(t)
      BY <3>2, <3>5 DEF Fill, Start
    <3> QED BY <1>6, <3>3, <3>4, <3>5
  <2>2. Active(j) /\ Prepared(j) /\ JobOf(j) /\ Head(j.files) \in {"yaml", "txt"}
    BY <1>1, <1>3, <2>1 DEF Active, JobOK
  <2>3. DiskTyped'
    <3>1. CASE Head(j.files) = "yaml"
      <4>1. content \in Contents \cup {Short, Mixed}
        BY <2>1, <2>2, <3>1 DEF Prepared, JobOf
      <4> QED BY <1>2, <2>1, <3>1, <4>1 DEF Put, DiskTyped
    <3>2. CASE Head(j.files) = "txt"
      <4>1. content \in Seq(URIs) \cup {Short, Mixed}
        BY <2>1, <2>2, <3>2 DEF Prepared
      <4> QED BY <1>2, <2>1, <3>2, <4>1 DEF Put, DiskTyped
    <3> QED BY <2>2, <3>1, <3>2
  <2>4. CASE job' = [job EXCEPT ![t] = Advance(j)]
    <3>1. job'[t] = Advance(j) /\ job' = [job EXCEPT ![t] = job'[t]]
      BY <1>1, <2>4
    <3>2. Advance(j) \in Jobs /\ JobOK(Advance(j)) /\ Advance(j).at # "none"
          /\ Advance(j).part = j.part /\ Advance(j).content = j.content
      BY <1>1, <2>2, AdvanceIs
    <3> QED BY <1>2, <2>1, <2>2, <2>3, <3>1, <3>2
  <2>5. CASE job' = [job EXCEPT ![t] = [j EXCEPT !.at = "fill"]] /\ j.at = "rename"
    <3> DEFINE k == [j EXCEPT !.at = "fill"]
    <3>1. k \in Jobs /\ k.at = "fill" /\ k.part = j.part /\ k.content = j.content /\ k.files = j.files /\ k.data = j.data
      BY <1>1 DEF Jobs
    <3> HIDE DEF k
    <3>2. JobOK(k)
      BY <1>1, <2>2, <3>1 DEF JobOK, JobOf, Prepared, Active
    <3>3. job'[t] = k /\ job' = [job EXCEPT ![t] = job'[t]]
      BY <1>1, <2>5 DEF k
    <3> QED BY <1>2, <2>1, <2>2, <2>3, <3>1, <3>2, <3>3
  <2> QED BY <2>1, <2>4, <2>5
<1>7. CASE FillFails(t)
  <2> DEFINE k == [j EXCEPT !.at = "failed"]
  <2>1. /\ j.at = "fill" /\ job' = [job EXCEPT ![t] = k]
        /\ UNCHANGED <<yaml, txt>> \/ Put(Head(j.files), Mixed)
        /\ UNCHANGED disturbed /\ cut' = TRUE /\ faults' \in Nat
        /\ UNCHANGED <<pool, world, stage, conf, bk, mgr, op, putBack, before, outcome>>
    BY <1>2, <1>7 DEF FillFails, Start, Faulty
  <2>2. k \in Jobs /\ JobOK(k) /\ k.at = "failed" /\ k.part = j.part /\ k.content = j.content
    BY <1>1 DEF Jobs, JobOK, Active
  <2> HIDE DEF k
  <2>4. job'[t] = k /\ job' = [job EXCEPT ![t] = job'[t]]
    BY <1>1, <2>1
  <2>5. DiskTyped'
    BY <1>2, <2>1 DEF DiskTyped, Put
  <2> QED BY <1>2, <2>1, <2>2, <2>4, <2>5 DEF Active
<1> QED BY <1>4, <1>5, <1>6, <1>7 DEF Save

\* So what is typed and goes together stays so.
LEMMA FormedSave == ASSUME Formed, NEW t \in Threads, Save(t) PROVE Formed'
<1>1. /\ Active(job[t]) /\ job' = [job EXCEPT ![t] = job'[t]]
      /\ job'[t] \in Jobs /\ JobOK(job'[t]) /\ job'[t].at # "none" /\ job'[t].part = job[t].part
      /\ DiskTyped' /\ disturbed' \in BOOLEAN /\ cut' \in BOOLEAN /\ faults' \in Nat
  BY SaveDoes
<1>2. /\ UNCHANGED <<pool, taken, refuses>> /\ UNCHANGED <<stage, mem, web, synced, ran>>
      /\ UNCHANGED <<dav, archive, rs, undo, reloadMu, target>> /\ UNCHANGED <<op, putBack, before, outcome>>
  BY SaveDoes DEF world, conf, bk, mgr
<1>3. /\ job \in [Threads -> Jobs] /\ job' \in [Threads -> Jobs] /\ job[t].at # "none" /\ job[t] # Idle
      /\ \A u \in Threads : u # t => job'[u] = job[u]
  BY <1>1 DEF Formed, Typed, Active, Idle
<1>4. Typed'
  BY <1>1, <1>2, <1>3 DEF Formed, Typed, MemTyped, BackupTyped, ManagerTyped, HistoryTyped
<1>5. \A u \in Threads : JobOK(job'[u])
  BY <1>1, <1>3 DEF Formed, Shape
<1>6. ASSUME NEW u \in Threads
      PROVE  /\ job[u] = Idle => job'[u] = Idle
             /\ job[u].at # "none" => job'[u].at # "none"
             /\ job'[u].part = job[u].part
  BY <1>1, <1>3
<1>7. StageShape' /\ ManagerShape' /\ WebShape' /\ BackupShape' /\ LockShape'
  BY <1>2, <1>6 DEF Formed, Shape, StageShape, ManagerShape, WebShape, BackupShape, LockShape, Free, Threads
<1> QED BY <1>4, <1>5, <1>7 DEF Formed, Shape

-----------------------------------------------------------------------------
(* What the operations put in memory.                                      *)

\* Config.Load: the nodes of the file, each with a port of its own.
LEMMA LoadDoes ==
    ASSUME Formed, Load
    PROVE  \E content \in Contents :
              /\ yaml # Short => content = yaml
              /\ mem' \in Configs /\ mem'.settings = content.settings /\ web' = content.settings
              /\ InlineRoutes(mem'.nodes) = Routed(content.nodes) /\ OwnPorts(mem'.nodes)
<1> DEFINE content == IF yaml = Short THEN Blank ELSE yaml
           nodes == Normalized(Loaded(content), taken)
<1>1. content \in Contents
  BY IdleIs DEF Formed, Typed, DiskTyped, Load
<1>2. /\ nodes # NoPorts /\ web' = content.settings
      /\ mem' = [settings |-> content.settings, nodesFile |-> content.settings.subs, nodes |-> nodes]
  BY DEF Load
<1>3. yaml # Short => content = yaml
  OBVIOUS
<1>4. txt \in Seq(URIs) \cup {Short, Mixed, None}
  BY DEF Formed, Typed, DiskTyped
<1> HIDE DEF content
<1>5. Loaded(content) \in Seq(Nodes) /\ InlineRoutes(Loaded(content)) = Routed(content.nodes)
  BY <1>1, <1>4, LoadedIs
<1>6. nodes \in Seq(Nodes) /\ Reported(nodes, Loaded(content)) /\ OwnPorts(nodes)
  BY <1>2, <1>5, NodesAre, NormalizedIs
<1> HIDE DEF nodes
<1>7. InlineRoutes(nodes) = Routed(content.nodes)
  BY <1>5, <1>6, ReportedInline
<1>8. mem' \in Configs /\ mem'.nodes = nodes /\ mem'.settings = content.settings
  <2>1. content.settings \in Settings /\ content.settings.subs \in BOOLEAN
    BY <1>1 DEF Contents, Settings
  <2> QED BY <1>2, <1>6, <2>1 DEF Configs
<1> QED BY <1>1, <1>2, <1>3, <1>6, <1>7, <1>8

\* app.Run: the nodes are those of the pool.
LEMMA FilterDoes ==
    ASSUME Formed, Filter
    PROVE  /\ mem' \in Configs /\ mem'.settings = mem.settings
           /\ Routed(mem'.nodes) = Routed(pool) /\ OwnPorts(mem'.nodes)
           /\ job' = [job EXCEPT !["manager"] = SaveNodes(mem')]
<1>1. PICK order \in SetToSeqs(Routed(pool) \ Routed(mem.nodes)) :
          LET unported == Mapped(Filtered(order), LAMBDA n : [n EXCEPT !.port = 0])
              nodes == Packed(unported, taken)
          IN  /\ nodes # NoPorts
              /\ mem' = [mem EXCEPT !.nodes = nodes]
              /\ Start("manager", SaveNodes(mem'))
  BY DEF Filter
<1> DEFINE unported == Mapped(Filtered(order), LAMBDA n : [n EXCEPT !.port = 0])
           nodes == Packed(unported, taken)
<1>2. mem \in Configs /\ pool \in Seq(Members)
  BY DEF Formed, Typed, MemTyped, Filter
<1>3. unported \in Seq(Nodes) /\ Routed(unported) = Routed(pool)
  BY <1>2, FilteredIs
<1>4. /\ nodes # NoPorts /\ mem' = [mem EXCEPT !.nodes = nodes]
      /\ job' = [job EXCEPT !["manager"] = SaveNodes(mem')]
  BY <1>1 DEF Start
<1> HIDE DEF unported
<1>5. nodes \in Seq(Nodes) /\ Reported(nodes, unported) /\ OwnPorts(nodes)
  BY <1>3, <1>4, NodesAre, PackedIs
<1> HIDE DEF nodes
<1>6. Routed(nodes) = Routed(unported)
  BY <1>3, <1>5, ReportedIs
<1> QED BY <1>2, <1>3, <1>4, <1>5, <1>6, WithNodes

\* CreateNodes: the node comes behind the others, with a port of its own.
LEMMA CreateDoes ==
    ASSUME Formed, NEW r \in Routes, CreateNode(r)
    PROVE  /\ Edit("create", r, mem'.nodes) /\ mem' \in Configs /\ mem'.settings = mem.settings
           /\ mem' = [mem EXCEPT !.nodes = mem'.nodes]
           /\ r \notin Routed(mem.nodes) /\ Routed(mem'.nodes) = Routed(mem.nodes) \cup {r}
           /\ \A q \in Routed(mem.nodes) : PortOn(mem'.nodes, q) = PortOn(mem.nodes, q)
           /\ OwnPorts(mem.nodes) => OwnPorts(mem'.nodes)
<1> DEFINE port == NextPort(mem.nodes, Busy)
           node == Node(r, port, Source)
           nodes == Append(mem.nodes, node)
<1>1. r \notin Routed(mem.nodes) /\ port # 0 /\ Edit("create", r, nodes) /\ stage = "serving"
  BY DEF CreateNode
<1>2. mem \in Configs /\ mem.nodes \in Seq(Nodes) /\ mem' = [mem EXCEPT !.nodes = nodes]
  BY <1>1, ConfigIs DEF Edit, Formed, Typed, MemTyped
<1>3. port \in 1 .. LastPort
  <2> DEFINE held  == Busy
             used  == PortsOf(mem.nodes)
             start == IF used # {} /\ Max(used) >= BasePort THEN Max(used) + 1 ELSE BasePort
  <2>1. port = FirstFrom(start, Available(held) \ used)
    BY DEF NextPort
  <2> HIDE DEF start, used, held, port
  <2> QED BY <1>1, <2>1, AvailableIsOwn
<1>4. node \in Nodes /\ node.route = r /\ node.port = port
  <2>1. Source \in {"inline", "file"}
    BY DEF Source
  <2> HIDE DEF port
  <2> QED BY <1>3, <2>1, PortRange DEF Node, Nodes
<1>5. OwnPorts(mem.nodes) => OwnPorts(nodes)
  <2> DEFINE held == Busy
  <2>1. node.port = NextPort(mem.nodes, held) /\ node.port # 0
    BY <1>1, <1>4
  <2> HIDE DEF held, node, port
  <2> QED BY <1>2, <1>4, <2>1, AddedKeepsOwnPorts
<1> HIDE DEF node, port
<1>6. /\ nodes \in Seq(Nodes) /\ Routed(nodes) = Routed(mem.nodes) \cup {r}
      /\ \A q \in Routed(mem.nodes) : q # r => PortOn(nodes, q) = PortOn(mem.nodes, q)
  BY <1>2, <1>4, AppendIs
<1> HIDE DEF nodes
<1> QED BY <1>1, <1>2, <1>5, <1>6, WithNodes

\* DeleteNodes: the other nodes stay as they are.
LEMMA DeleteDoes ==
    ASSUME Formed, NEW r \in Routes, DeleteNode(r)
    PROVE  /\ Edit("delete", r, mem'.nodes) /\ mem' \in Configs /\ mem'.settings = mem.settings
           /\ mem' = [mem EXCEPT !.nodes = mem'.nodes]
           /\ Routed(mem'.nodes) = Routed(mem.nodes) \ {r}
           /\ \A q \in Routed(mem'.nodes) : PortOn(mem'.nodes, q) = PortOn(mem.nodes, q)
           /\ OwnPorts(mem.nodes) => OwnPorts(mem'.nodes)
<1> DEFINE nodes == Where(mem.nodes, Routes \ {r})
<1>1. Edit("delete", r, nodes) /\ stage = "serving"
  BY DEF DeleteNode
<1>2. mem \in Configs /\ mem.nodes \in Seq(Nodes) /\ mem' = [mem EXCEPT !.nodes = nodes]
  BY <1>1, ConfigIs DEF Edit, Formed, Typed, MemTyped
<1>3. /\ nodes \in Seq(Nodes) /\ Routed(nodes) = Routed(mem.nodes) \cap (Routes \ {r})
      /\ OwnPorts(mem.nodes) => OwnPorts(nodes)
  BY <1>2, HaveRoutes, WhereIs
<1>4. \A q \in Routed(mem.nodes) : q \in Routes \ {r} => PortOn(nodes, q) = PortOn(mem.nodes, q)
  BY <1>2, HaveRoutes, WherePortOn
<1>5. Routed(mem.nodes) \subseteq Routes
  BY <1>2, HaveRoutes, RoutedIs
<1> HIDE DEF nodes
<1>6. Routed(nodes) = Routed(mem.nodes) \ {r}
  BY <1>3, <1>5
<1>7. \A q \in Routed(nodes) : PortOn(nodes, q) = PortOn(mem.nodes, q)
  BY <1>4, <1>5, <1>6
<1> QED BY <1>1, <1>2, <1>3, <1>6, <1>7, WithNodes

\* A configuration to apply: the same nodes, with ports of their own.
LEMMA PacksDoes ==
    ASSUME NEW t, NEW c \in Configs, Packs(t, c)
    PROVE  /\ target' \in Configs /\ target'.settings = c.settings
           /\ Routed(target'.nodes) = Routed(c.nodes) /\ InlineRoutes(target'.nodes) = InlineRoutes(c.nodes)
           /\ target' = [c EXCEPT !.nodes = target'.nodes]
           /\ OwnPorts(target'.nodes) /\ job' = [job EXCEPT ![t] = SaveNodes(target')]
<1> DEFINE nodes == Packed(c.nodes, taken)
<1>1. nodes # NoPorts /\ target' = [c EXCEPT !.nodes = nodes] /\ job' = [job EXCEPT ![t] = SaveNodes(target')]
  BY DEF Packs, Start
<1>2. c.nodes \in Seq(Nodes)
  BY ConfigIs
<1>3. nodes \in Seq(Nodes) /\ Reported(nodes, c.nodes) /\ OwnPorts(nodes)
  BY <1>1, <1>2, NodesAre, PackedIs
<1> HIDE DEF nodes
<1>4. Routed(nodes) = Routed(c.nodes) /\ InlineRoutes(nodes) = InlineRoutes(c.nodes)
  BY <1>2, <1>3, ReportedIs, ReportedInline
<1> QED BY <1>1, <1>3, <1>4, WithNodes

\* Nodes that cannot be bound move; the others stay.
LEMMA MovesDoes ==
    ASSUME Formed, NEW t, MoveConflicts(t)
    PROVE  /\ target \in Configs /\ target' \in Configs /\ target'.settings = target.settings
           /\ target' = [target EXCEPT !.nodes = target'.nodes]
           /\ Routed(target'.nodes) = Routed(target.nodes) /\ InlineRoutes(target'.nodes) = InlineRoutes(target.nodes)
           /\ OwnPorts(target'.nodes) /\ job' = [job EXCEPT ![t] = SaveNodes(target')]
<1> DEFINE nodes == Settled(target.nodes, taken)
<1>1. /\ nodes # NoPorts /\ target' = [target EXCEPT !.nodes = nodes]
      /\ job' = [job EXCEPT ![t] = SaveNodes(target')] /\ target # None
  BY DEF MoveConflicts, Start, Applying
<1>2. target \in Configs /\ target.nodes \in Seq(Nodes)
  BY <1>1, ConfigIs DEF Formed, Typed, ManagerTyped
<1>3. nodes \in Seq(Nodes) /\ Reported(nodes, target.nodes) /\ Conflicts(nodes, taken) = {}
  BY <1>1, <1>2, NodesAre, SettledIs
<1> HIDE DEF nodes
<1>4. Routed(nodes) = Routed(target.nodes) /\ InlineRoutes(nodes) = InlineRoutes(target.nodes)
  BY <1>2, <1>3, ReportedIs, ReportedInline
<1>5. OwnPorts(nodes)
  BY <1>3, NodesAre, NoConflictOwns
<1> QED BY <1>1, <1>2, <1>3, <1>4, <1>5, WithNodes

LEMMA AppliedDoes ==
    ASSUME Formed, NEW t, Applied(t)
    PROVE  target \in Configs /\ mem' = target /\ ran' = target /\ OwnPorts(target.nodes)
<1>1. target # None /\ Conflicts(target.nodes, taken) = {} /\ mem' = target /\ ran' = target
  BY DEF Applied, Applying
<1>2. target \in Configs /\ target.nodes \in Seq(Nodes)
  BY <1>1, ConfigIs DEF Formed, Typed, ManagerTyped
<1> QED BY <1>1, <1>2, NodesAre, NoConflictOwns

\* A pool that loses a route and may get it again.
LEMMA EditPoolDoes ==
    ASSUME Formed, EditPool
    PROVE  LET r == op["manager"].arg
           IN  /\ pool' \in Seq(Members) /\ op["manager"].name \in {"create", "delete"} /\ op["manager"].pc = "pool"
               /\ \A i \in DOMAIN pool' :
                     \/ pool'[i].route # r /\ \E k \in DOMAIN pool : pool'[i] = pool[k]
                     \/ r \in Routed(mem.nodes) /\ pool'[i].route = r /\ pool'[i].port = PortOn(mem.nodes, r)
<1> DEFINE r == op["manager"].arg
           I == {i \in DOMAIN pool : pool[i].route \in Routes \ {r}}
           without == Chosen(pool, I)
           new == [route |-> r, port |-> PortOn(mem.nodes, r)]
<1>1. /\ op["manager"].name \in {"create", "delete"} /\ op["manager"].pc = "pool"
      /\ pool' = IF op["manager"].name = "create" /\ r \in Routed(mem.nodes) THEN Append(without, new) ELSE without
  BY DEF EditPool, Where
<1>2. r \in Routes /\ mem \in Configs /\ mem.nodes \in Seq(Nodes)
  <2>1. stage # "off"
    BY <1>1 DEF Formed, Shape, StageShape, Free, NoOp
  <2> QED BY <1>1, <2>1, ConfigIs DEF Formed, Typed, MemTyped, Shape, ManagerShape
<1>3. pool \in Seq(Members)
  BY DEF Formed, Typed
<1>4. without \in Seq(Members) /\ \A k \in DOMAIN without : Nth(I, k) \in I /\ without[k] = pool[Nth(I, k)]
  <2>1. I \in SUBSET DOMAIN pool
    OBVIOUS
  <2> HIDE DEF I, r
  <2> QED BY <1>3, <2>1, ChosenIs
<1> HIDE DEF without
<1>5. \A k \in DOMAIN without : without[k].route # r /\ \E i \in DOMAIN pool : without[k] = pool[i]
  BY <1>4
<1>6. CASE op["manager"].name = "create" /\ r \in Routed(mem.nodes)
  <2>1. PICK m \in DOMAIN mem.nodes : PortOn(mem.nodes, r) = mem.nodes[m].port
    BY <1>2, <1>6, LastIs
  <2>2. new \in Members /\ new.route = r /\ new.port = PortOn(mem.nodes, r)
    <3>1. mem.nodes[m] \in Nodes
      BY <1>2
    <3> QED BY <1>2, <2>1, <3>1 DEF Nodes, Members
  <2> HIDE DEF new, r
  <2>3. pool' = Append(without, new)
    BY <1>1, <1>6
  <2>4. \A i \in DOMAIN pool' : (i \in DOMAIN without /\ pool'[i] = without[i]) \/ pool'[i] = new
    BY <1>4, <2>3
  <2>5. pool' \in Seq(Members)
    BY <1>4, <2>2, <2>3
  <2> QED BY <1>1, <1>5, <1>6, <2>2, <2>4, <2>5 DEF r
<1>7. CASE ~(op["manager"].name = "create" /\ r \in Routed(mem.nodes))
  BY <1>1, <1>4, <1>5, <1>7
<1> QED BY <1>6, <1>7

-----------------------------------------------------------------------------
(* What is typed and goes together stays so, whatever is done.             *)

LEMMA LoadFormed == ASSUME Formed, Load PROVE Formed'
<1>1. PICK content \in Contents : mem' \in Configs /\ web' = content.settings
  BY LoadDoes
<1>2. mem' \in Configs /\ web' \in Settings /\ dav' \in Nat
  BY <1>1, ConfigIs DEF Contents, Settings, Load
<1>3. Typed'
  BY <1>2, MarksAssumption, IdleIs DEF Load, disk, world, mgr, Formed, Typed, DiskTyped, MemTyped, BackupTyped,
     ManagerTyped, HistoryTyped, Shape, StageShape, ManagerShape, WebShape, BackupShape, LockShape, Free,
     Threads, Active
<1>4. \A u \in Threads : JobOK(job'[u])
  BY <1>2, MarksAssumption, IdleIs DEF Load, disk, world, mgr, Formed, Typed, Shape, JobOK, Active, Free,
     Threads
<1>5. StageShape' /\ ManagerShape' /\ WebShape'
  BY <1>2, MarksAssumption, IdleIs DEF Load, disk, world, mgr, Formed, Typed, Shape, StageShape, ManagerShape,
     WebShape, BackupShape, LockShape, Free, Threads, Active
<1>6. BackupShape'
  BY <1>2, MarksAssumption, IdleIs DEF Load, disk, world, mgr, Formed, Typed, Shape, StageShape, ManagerShape,
     WebShape, BackupShape, LockShape, Free, Threads, Active
<1>7. LockShape'
  BY <1>2, MarksAssumption, IdleIs DEF Load, disk, world, mgr, Formed, Typed, Shape, StageShape, ManagerShape,
     WebShape, BackupShape, LockShape, Free, Threads, Active
<1> QED BY <1>3, <1>4, <1>5, <1>6, <1>7 DEF Formed, Shape

LEMMA StopFormed == ASSUME Formed, Stop PROVE Formed'
<1>1. Typed'
  BY MarksAssumption, IdleIs DEF Stop, Gone, disk, bounds, Threads, Formed, Typed, DiskTyped, MemTyped,
     BackupTyped, ManagerTyped, HistoryTyped, Shape, StageShape, ManagerShape, WebShape, BackupShape, LockShape,
     Free, Active
<1>2. \A u \in Threads : JobOK(job'[u])
  BY MarksAssumption, IdleIs DEF Stop, Gone, disk, bounds, Threads, Formed, Typed, Shape, JobOK, Active, Free
<1>3. StageShape' /\ ManagerShape' /\ WebShape'
  BY MarksAssumption, IdleIs DEF Stop, Gone, disk, bounds, Threads, Formed, Typed, Shape, StageShape,
     ManagerShape, WebShape, BackupShape, LockShape, Free, Active
<1>4. BackupShape'
  BY MarksAssumption, IdleIs DEF Stop, Gone, disk, bounds, Threads, Formed, Typed, Shape, StageShape,
     ManagerShape, WebShape, BackupShape, LockShape, Free, Active
<1>5. LockShape'
  BY MarksAssumption, IdleIs DEF Stop, Gone, disk, bounds, Threads, Formed, Typed, Shape, StageShape,
     ManagerShape, WebShape, BackupShape, LockShape, Free, Active
<1> QED BY <1>1, <1>2, <1>3, <1>4, <1>5 DEF Formed, Shape

LEMMA FilterFormed == ASSUME Formed, Filter PROVE Formed'
<1>1. mem' \in Configs /\ job' = [job EXCEPT !["manager"] = SaveNodes(mem')]
  BY FilterDoes
<1>2. /\ SaveNodes(mem') \in Jobs /\ JobOK(SaveNodes(mem')) /\ SaveNodes(mem').at = "start"
      /\ SaveNodes(mem').part = "nodes"
  BY <1>1, SaveNodesIs
<1>3. Typed'
  BY <1>1, <1>2, MarksAssumption, IdleIs DEF Filter, Start, disk, world, bk, mgr, hist, bounds, Formed, Typed,
     DiskTyped, MemTyped, BackupTyped, ManagerTyped, HistoryTyped, Shape, StageShape, ManagerShape, WebShape,
     BackupShape, LockShape, Free, Threads, Active
<1>4. \A u \in Threads : JobOK(job'[u])
  BY <1>1, <1>2, MarksAssumption, IdleIs DEF Filter, Start, disk, world, bk, mgr, hist, bounds, Formed, Typed,
     Shape, JobOK, Active, Free, Threads
<1>5. StageShape' /\ ManagerShape' /\ WebShape'
  BY <1>1, <1>2, MarksAssumption, IdleIs DEF Filter, Start, disk, world, bk, mgr, hist, bounds, Formed, Typed,
     Shape, StageShape, ManagerShape, WebShape, BackupShape, LockShape, Free, Threads, Active
<1>6. BackupShape'
  BY <1>1, <1>2, MarksAssumption, IdleIs DEF Filter, Start, disk, world, bk, mgr, hist, bounds, Formed, Typed,
     Shape, StageShape, ManagerShape, WebShape, BackupShape, LockShape, Free, Threads, Active
<1>7. LockShape'
  BY <1>1, <1>2, MarksAssumption, IdleIs DEF Filter, Start, disk, world, bk, mgr, hist, bounds, Formed, Typed,
     Shape, StageShape, ManagerShape, WebShape, BackupShape, LockShape, Free, Threads, Active
<1> QED BY <1>3, <1>4, <1>5, <1>6, <1>7 DEF Formed, Shape

LEMMA NoPoolFormed == ASSUME Formed, NoPool PROVE Formed'
<1>1. Typed'
  BY MarksAssumption, IdleIs DEF NoPool, Serve, disk, world, bk, mgr, hist, bounds, Formed, Typed, DiskTyped,
     MemTyped, BackupTyped, ManagerTyped, HistoryTyped, Shape, StageShape, ManagerShape, WebShape, BackupShape,
     LockShape, Free, Threads, Active
<1>2. \A u \in Threads : JobOK(job'[u])
  BY MarksAssumption, IdleIs DEF NoPool, Serve, disk, world, bk, mgr, hist, bounds, Formed, Typed, Shape, JobOK,
     Active, Free, Threads
<1>3. StageShape' /\ ManagerShape' /\ WebShape'
  BY MarksAssumption, IdleIs DEF NoPool, Serve, disk, world, bk, mgr, hist, bounds, Formed, Typed, Shape,
     StageShape, ManagerShape, WebShape, BackupShape, LockShape, Free, Threads, Active
<1>4. BackupShape'
  BY MarksAssumption, IdleIs DEF NoPool, Serve, disk, world, bk, mgr, hist, bounds, Formed, Typed, Shape,
     StageShape, ManagerShape, WebShape, BackupShape, LockShape, Free, Threads, Active
<1>5. LockShape'
  BY MarksAssumption, IdleIs DEF NoPool, Serve, disk, world, bk, mgr, hist, bounds, Formed, Typed, Shape,
     StageShape, ManagerShape, WebShape, BackupShape, LockShape, Free, Threads, Active
<1> QED BY <1>1, <1>2, <1>3, <1>4, <1>5 DEF Formed, Shape

LEMMA PackingSavedFormed == ASSUME Formed, PackingSaved PROVE Formed'
<1>1. Typed'
  BY MarksAssumption, IdleIs DEF PackingSaved, Saved, Done, disk, world, conf, bk, mgr, hist, bounds, Formed,
     Typed, DiskTyped, MemTyped, BackupTyped, ManagerTyped, HistoryTyped, Shape, StageShape, ManagerShape,
     WebShape, BackupShape, LockShape, Free, Threads, Active
<1>2. \A u \in Threads : JobOK(job'[u])
  BY MarksAssumption, IdleIs DEF PackingSaved, Saved, Done, disk, world, conf, bk, mgr, hist, bounds, Formed,
     Typed, Shape, JobOK, Active, Free, Threads
<1>3. StageShape' /\ ManagerShape' /\ WebShape'
  BY MarksAssumption, IdleIs DEF PackingSaved, Saved, Done, disk, world, conf, bk, mgr, hist, bounds, Formed,
     Typed, Shape, StageShape, ManagerShape, WebShape, BackupShape, LockShape, Free, Threads, Active
<1>4. BackupShape'
  BY MarksAssumption, IdleIs DEF PackingSaved, Saved, Done, disk, world, conf, bk, mgr, hist, bounds, Formed,
     Typed, Shape, StageShape, ManagerShape, WebShape, BackupShape, LockShape, Free, Threads, Active
<1>5. LockShape'
  BY MarksAssumption, IdleIs DEF PackingSaved, Saved, Done, disk, world, conf, bk, mgr, hist, bounds, Formed,
     Typed, Shape, StageShape, ManagerShape, WebShape, BackupShape, LockShape, Free, Threads, Active
<1> QED BY <1>1, <1>2, <1>3, <1>4, <1>5 DEF Formed, Shape

LEMMA PackingFailsFormed == ASSUME Formed, PackingFails PROVE Formed'
<1>1. Typed'
  BY MarksAssumption, IdleIs DEF PackingFails, Unsaved, Gone, disk, world, bounds, Threads, Formed, Typed,
     DiskTyped, MemTyped, BackupTyped, ManagerTyped, HistoryTyped, Shape, StageShape, ManagerShape, WebShape,
     BackupShape, LockShape, Free, Active
<1>2. \A u \in Threads : JobOK(job'[u])
  BY MarksAssumption, IdleIs DEF PackingFails, Unsaved, Gone, disk, world, bounds, Threads, Formed, Typed,
     Shape, JobOK, Active, Free
<1>3. StageShape' /\ ManagerShape' /\ WebShape'
  BY MarksAssumption, IdleIs DEF PackingFails, Unsaved, Gone, disk, world, bounds, Threads, Formed, Typed,
     Shape, StageShape, ManagerShape, WebShape, BackupShape, LockShape, Free, Active
<1>4. BackupShape'
  BY MarksAssumption, IdleIs DEF PackingFails, Unsaved, Gone, disk, world, bounds, Threads, Formed, Typed,
     Shape, StageShape, ManagerShape, WebShape, BackupShape, LockShape, Free, Active
<1>5. LockShape'
  BY MarksAssumption, IdleIs DEF PackingFails, Unsaved, Gone, disk, world, bounds, Threads, Formed, Typed,
     Shape, StageShape, ManagerShape, WebShape, BackupShape, LockShape, Free, Active
<1> QED BY <1>1, <1>2, <1>3, <1>4, <1>5 DEF Formed, Shape

LEMMA SyncPortsFormed == ASSUME Formed, SyncPorts PROVE Formed'
<1>1. SyncedPool(mem) \in Seq(Members)
  BY SyncedIs DEF Formed, Typed, MemTyped, SyncPorts
<1>2. Typed'
  BY <1>1, MarksAssumption, IdleIs DEF SyncPorts, Serve, world, bk, mgr, hist, bounds, Formed, Typed, DiskTyped,
     MemTyped, BackupTyped, ManagerTyped, HistoryTyped, Shape, StageShape, ManagerShape, WebShape, BackupShape,
     LockShape, Free, Threads, Active
<1>3. \A u \in Threads : JobOK(job'[u])
  BY <1>1, MarksAssumption, IdleIs DEF SyncPorts, Serve, world, bk, mgr, hist, bounds, Formed, Typed, Shape,
     JobOK, Active, Free, Threads
<1>4. StageShape' /\ ManagerShape' /\ WebShape'
  BY <1>1, MarksAssumption, IdleIs DEF SyncPorts, Serve, world, bk, mgr, hist, bounds, Formed, Typed, Shape,
     StageShape, ManagerShape, WebShape, BackupShape, LockShape, Free, Threads, Active
<1>5. BackupShape'
  BY <1>1, MarksAssumption, IdleIs DEF SyncPorts, Serve, world, bk, mgr, hist, bounds, Formed, Typed, Shape,
     StageShape, ManagerShape, WebShape, BackupShape, LockShape, Free, Threads, Active
<1>6. LockShape'
  BY <1>1, MarksAssumption, IdleIs DEF SyncPorts, Serve, world, bk, mgr, hist, bounds, Formed, Typed, Shape,
     StageShape, ManagerShape, WebShape, BackupShape, LockShape, Free, Threads, Active
<1> QED BY <1>2, <1>3, <1>4, <1>5, <1>6 DEF Formed, Shape

LEMMA SyncFailsFormed == ASSUME Formed, SyncFails PROVE Formed'
<1>1. Typed'
  BY MarksAssumption, IdleIs DEF SyncFails, Faulty, Gone, disk, world, Threads, Formed, Typed, DiskTyped,
     MemTyped, BackupTyped, ManagerTyped, HistoryTyped, Shape, StageShape, ManagerShape, WebShape, BackupShape,
     LockShape, Free, Active
<1>2. \A u \in Threads : JobOK(job'[u])
  BY MarksAssumption, IdleIs DEF SyncFails, Faulty, Gone, disk, world, Threads, Formed, Typed, Shape, JobOK,
     Active, Free
<1>3. StageShape' /\ ManagerShape' /\ WebShape'
  BY MarksAssumption, IdleIs DEF SyncFails, Faulty, Gone, disk, world, Threads, Formed, Typed, Shape,
     StageShape, ManagerShape, WebShape, BackupShape, LockShape, Free, Active
<1>4. BackupShape'
  BY MarksAssumption, IdleIs DEF SyncFails, Faulty, Gone, disk, world, Threads, Formed, Typed, Shape,
     StageShape, ManagerShape, WebShape, BackupShape, LockShape, Free, Active
<1>5. LockShape'
  BY MarksAssumption, IdleIs DEF SyncFails, Faulty, Gone, disk, world, Threads, Formed, Typed, Shape,
     StageShape, ManagerShape, WebShape, BackupShape, LockShape, Free, Active
<1> QED BY <1>1, <1>2, <1>3, <1>4, <1>5 DEF Formed, Shape

LEMMA CreateNodeFormed == ASSUME Formed, NEW r \in Routes, CreateNode(r) PROVE Formed'
<1>1. mem' \in Configs /\ Edit("create", r, mem'.nodes)
  BY CreateDoes
<1>2. /\ SaveNodes(mem') \in Jobs /\ JobOK(SaveNodes(mem')) /\ SaveNodes(mem').at = "start"
      /\ SaveNodes(mem').part = "nodes"
  BY <1>1, SaveNodesIs
<1>3. mem.nodes \in Seq(Nodes)
  BY <1>1, ConfigIs DEF Edit, Formed, Typed, MemTyped
<1>4. Typed'
  BY <1>1, <1>2, <1>3, MarksAssumption, IdleIs DEF CreateNode, Edit, Begin, Lock, Start, disk, world, bk, Free,
     Crosses, Others, Restoring, Threads, Formed, Typed, DiskTyped, MemTyped, BackupTyped, ManagerTyped,
     HistoryTyped, Shape, StageShape, ManagerShape, WebShape, BackupShape, LockShape, Ops, Points, Args, Active
<1>5. \A u \in Threads : JobOK(job'[u])
  BY <1>1, <1>2, <1>3, MarksAssumption, IdleIs DEF CreateNode, Edit, Begin, Lock, Start, disk, world, bk, Free,
     Crosses, Others, Restoring, Threads, Formed, Typed, Shape, JobOK, Active, Ops, Points, Args
<1>6. StageShape' /\ ManagerShape' /\ WebShape'
  BY <1>1, <1>2, <1>3, MarksAssumption, IdleIs DEF CreateNode, Edit, Begin, Lock, Start, disk, world, bk, Free,
     Crosses, Others, Restoring, Threads, Formed, Typed, Shape, StageShape, ManagerShape, WebShape, BackupShape,
     LockShape, Ops, Points, Args, Active
<1>7. BackupShape'
  BY <1>1, <1>2, <1>3, MarksAssumption, IdleIs DEF CreateNode, Edit, Begin, Lock, Start, disk, world, bk, Free,
     Crosses, Others, Restoring, Threads, Formed, Typed, Shape, StageShape, ManagerShape, WebShape, BackupShape,
     LockShape, Ops, Points, Args, Active
<1>8. LockShape'
  BY <1>1, <1>2, <1>3, MarksAssumption, IdleIs DEF CreateNode, Edit, Begin, Lock, Start, disk, world, bk, Free,
     Crosses, Others, Restoring, Threads, Formed, Typed, Shape, StageShape, ManagerShape, WebShape, BackupShape,
     LockShape, Ops, Points, Args, Active
<1> QED BY <1>4, <1>5, <1>6, <1>7, <1>8 DEF Formed, Shape

LEMMA DeleteNodeFormed == ASSUME Formed, NEW r \in Routes, DeleteNode(r) PROVE Formed'
<1>1. mem' \in Configs /\ Edit("delete", r, mem'.nodes)
  BY DeleteDoes
<1>2. /\ SaveNodes(mem') \in Jobs /\ JobOK(SaveNodes(mem')) /\ SaveNodes(mem').at = "start"
      /\ SaveNodes(mem').part = "nodes"
  BY <1>1, SaveNodesIs
<1>3. mem.nodes \in Seq(Nodes)
  BY <1>1, ConfigIs DEF Edit, Formed, Typed, MemTyped
<1>4. Typed'
  BY <1>1, <1>2, <1>3, MarksAssumption, IdleIs DEF DeleteNode, Edit, Begin, Lock, Start, disk, world, bk, Free,
     Crosses, Others, Restoring, Threads, Formed, Typed, DiskTyped, MemTyped, BackupTyped, ManagerTyped,
     HistoryTyped, Shape, StageShape, ManagerShape, WebShape, BackupShape, LockShape, Ops, Points, Args, Active
<1>5. \A u \in Threads : JobOK(job'[u])
  BY <1>1, <1>2, <1>3, MarksAssumption, IdleIs DEF DeleteNode, Edit, Begin, Lock, Start, disk, world, bk, Free,
     Crosses, Others, Restoring, Threads, Formed, Typed, Shape, JobOK, Active, Ops, Points, Args
<1>6. StageShape' /\ ManagerShape' /\ WebShape'
  BY <1>1, <1>2, <1>3, MarksAssumption, IdleIs DEF DeleteNode, Edit, Begin, Lock, Start, disk, world, bk, Free,
     Crosses, Others, Restoring, Threads, Formed, Typed, Shape, StageShape, ManagerShape, WebShape, BackupShape,
     LockShape, Ops, Points, Args, Active
<1>7. BackupShape'
  BY <1>1, <1>2, <1>3, MarksAssumption, IdleIs DEF DeleteNode, Edit, Begin, Lock, Start, disk, world, bk, Free,
     Crosses, Others, Restoring, Threads, Formed, Typed, Shape, StageShape, ManagerShape, WebShape, BackupShape,
     LockShape, Ops, Points, Args, Active
<1>8. LockShape'
  BY <1>1, <1>2, <1>3, MarksAssumption, IdleIs DEF DeleteNode, Edit, Begin, Lock, Start, disk, world, bk, Free,
     Crosses, Others, Restoring, Threads, Formed, Typed, Shape, StageShape, ManagerShape, WebShape, BackupShape,
     LockShape, Ops, Points, Args, Active
<1> QED BY <1>4, <1>5, <1>6, <1>7, <1>8 DEF Formed, Shape

LEMMA EditSavedFormed == ASSUME Formed, EditSaved PROVE Formed'
<1>1. op' \in [Threads -> Ops]
  BY MarksAssumption, IdleIs, OpMoves DEF EditSaved, Editing, Saved, Goto, Done, Unlock, disk, world, conf, bk,
     hist, bounds, Formed, Typed, Points, Threads, Ops, Free, Active
<1>2. Typed'
  BY MarksAssumption, IdleIs, <1>1 DEF EditSaved, Editing, Saved, Goto, Done, Unlock, disk, world, conf, bk,
     hist, bounds, Formed, Typed, DiskTyped, MemTyped, BackupTyped, ManagerTyped, HistoryTyped, Shape,
     StageShape, ManagerShape, WebShape, BackupShape, LockShape, Ops, Free, Threads, Active
<1>3. \A u \in Threads : JobOK(job'[u])
  BY MarksAssumption, IdleIs DEF EditSaved, Editing, Saved, Goto, Done, Unlock, disk, world, conf, bk, hist,
     bounds, Formed, Typed, Shape, JobOK, Active, Ops, Free, Threads
<1>4. StageShape' /\ ManagerShape' /\ WebShape'
  BY MarksAssumption, IdleIs DEF EditSaved, Editing, Saved, Goto, Done, Unlock, disk, world, conf, bk, hist,
     bounds, Formed, Typed, Shape, StageShape, ManagerShape, WebShape, BackupShape, LockShape, Ops, Free,
     Threads, Active
<1>5. BackupShape'
  BY MarksAssumption, IdleIs DEF EditSaved, Editing, Saved, Goto, Done, Unlock, disk, world, conf, bk, hist,
     bounds, Formed, Typed, Shape, StageShape, ManagerShape, WebShape, BackupShape, LockShape, Ops, Free,
     Threads, Active
<1>6. LockShape'
  BY MarksAssumption, IdleIs DEF EditSaved, Editing, Saved, Goto, Done, Unlock, disk, world, conf, bk, hist,
     bounds, Formed, Typed, Shape, StageShape, ManagerShape, WebShape, BackupShape, LockShape, Ops, Free,
     Threads, Active
<1> QED BY <1>1, <1>2, <1>3, <1>4, <1>5, <1>6 DEF Formed, Shape

LEMMA EditFailsFormed == ASSUME Formed, EditFails PROVE Formed'
<1>1. mem # None => mem \in Configs /\ [mem EXCEPT !.nodes = undo] \in Configs
  BY WithNodes DEF Formed, Typed, MemTyped, ManagerTyped
<1>2. Typed'
  BY <1>1, MarksAssumption, IdleIs DEF EditFails, Editing, Unsaved, Undone, Return, Done, Unlock, disk, world,
     bk, hist, bounds, Formed, Typed, DiskTyped, MemTyped, BackupTyped, ManagerTyped, HistoryTyped, Shape,
     StageShape, ManagerShape, WebShape, BackupShape, LockShape, Ops, Free, Threads, Active
<1>3. \A u \in Threads : JobOK(job'[u])
  BY <1>1, MarksAssumption, IdleIs DEF EditFails, Editing, Unsaved, Undone, Return, Done, Unlock, disk, world,
     bk, hist, bounds, Formed, Typed, Shape, JobOK, Active, Ops, Free, Threads
<1>4. StageShape' /\ ManagerShape' /\ WebShape'
  BY <1>1, MarksAssumption, IdleIs DEF EditFails, Editing, Unsaved, Undone, Return, Done, Unlock, disk, world,
     bk, hist, bounds, Formed, Typed, Shape, StageShape, ManagerShape, WebShape, BackupShape, LockShape, Ops,
     Free, Threads, Active
<1>5. BackupShape'
  BY <1>1, MarksAssumption, IdleIs DEF EditFails, Editing, Unsaved, Undone, Return, Done, Unlock, disk, world,
     bk, hist, bounds, Formed, Typed, Shape, StageShape, ManagerShape, WebShape, BackupShape, LockShape, Ops,
     Free, Threads, Active
<1>6. LockShape'
  BY <1>1, MarksAssumption, IdleIs DEF EditFails, Editing, Unsaved, Undone, Return, Done, Unlock, disk, world,
     bk, hist, bounds, Formed, Typed, Shape, StageShape, ManagerShape, WebShape, BackupShape, LockShape, Ops,
     Free, Threads, Active
<1> QED BY <1>2, <1>3, <1>4, <1>5, <1>6 DEF Formed, Shape

LEMMA EditPoolFormed == ASSUME Formed, EditPool PROVE Formed'
<1>1. pool' \in Seq(Members)
  BY EditPoolDoes
<1>2. op' \in [Threads -> Ops]
  BY <1>1, MarksAssumption, IdleIs, OpMoves DEF EditPool, Return, Restoring, world, conf, bk, mgr, bounds,
     Formed, Typed, Points, Threads, Free, Active
<1>3. Typed'
  <2>1. /\ UNCHANGED <<yaml, txt, world, stage, conf, bk, mgr, job, cut, putBack, before, outcome, bounds>>
        /\ disturbed' \in BOOLEAN
    BY DEF EditPool, Restoring, Formed, Typed, HistoryTyped
  <2> QED BY <1>1, <1>2, <2>1 DEF world, conf, bk, mgr, bounds, Formed, Typed, DiskTyped, MemTyped, BackupTyped,
        ManagerTyped, HistoryTyped
<1>4. \A u \in Threads : JobOK(job'[u])
  BY <1>1, MarksAssumption, IdleIs DEF EditPool, Return, Restoring, world, conf, bk, mgr, bounds, Formed, Typed,
     Shape, JobOK, Active, Free, Threads
<1>5. StageShape' /\ ManagerShape' /\ WebShape'
  BY <1>1, MarksAssumption, IdleIs DEF EditPool, Return, Restoring, world, conf, bk, mgr, bounds, Formed, Typed,
     Shape, StageShape, ManagerShape, WebShape, BackupShape, LockShape, Free, Threads, Active
<1>6. BackupShape'
  BY <1>1, MarksAssumption, IdleIs DEF EditPool, Return, Restoring, world, conf, bk, mgr, bounds, Formed, Typed,
     Shape, StageShape, ManagerShape, WebShape, BackupShape, LockShape, Free, Threads, Active
<1>7. LockShape'
  BY <1>1, MarksAssumption, IdleIs DEF EditPool, Return, Restoring, world, conf, bk, mgr, bounds, Formed, Typed,
     Shape, StageShape, ManagerShape, WebShape, BackupShape, LockShape, Free, Threads, Active
<1> QED BY <1>2, <1>3, <1>4, <1>5, <1>6, <1>7 DEF Formed, Shape

LEMMA ReloadFormed == ASSUME Formed, Reload PROVE Formed'
<1>1. /\ target' \in Configs /\ job' = [job EXCEPT !["manager"] = SaveNodes(target')]
  BY PacksDoes DEF Formed, Typed, MemTyped, Reload
<1>2. /\ SaveNodes(target') \in Jobs /\ JobOK(SaveNodes(target')) /\ SaveNodes(target').at = "start"
      /\ SaveNodes(target').part = "nodes"
  BY <1>1, SaveNodesIs
<1>3. Typed'
  BY <1>1, <1>2, MarksAssumption, IdleIs DEF Reload, Begin, Lock, disk, world, conf, bk, Free, Crosses, Others,
     Restoring, Threads, Formed, Typed, DiskTyped, MemTyped, BackupTyped, ManagerTyped, HistoryTyped, Shape,
     StageShape, ManagerShape, WebShape, BackupShape, LockShape, Ops, Points, Args, Active
<1>4. \A u \in Threads : JobOK(job'[u])
  BY <1>1, <1>2, MarksAssumption, IdleIs DEF Reload, Begin, Lock, disk, world, conf, bk, Free, Crosses, Others,
     Restoring, Threads, Formed, Typed, Shape, JobOK, Active, Ops, Points, Args
<1>5. StageShape' /\ ManagerShape' /\ WebShape'
  BY <1>1, <1>2, MarksAssumption, IdleIs DEF Reload, Begin, Lock, disk, world, conf, bk, Free, Crosses, Others,
     Restoring, Threads, Formed, Typed, Shape, StageShape, ManagerShape, WebShape, BackupShape, LockShape, Ops,
     Points, Args, Active
<1>6. BackupShape'
  BY <1>1, <1>2, MarksAssumption, IdleIs DEF Reload, Begin, Lock, disk, world, conf, bk, Free, Crosses, Others,
     Restoring, Threads, Formed, Typed, Shape, StageShape, ManagerShape, WebShape, BackupShape, LockShape, Ops,
     Points, Args, Active
<1>7. LockShape'
  BY <1>1, <1>2, MarksAssumption, IdleIs DEF Reload, Begin, Lock, disk, world, conf, bk, Free, Crosses, Others,
     Restoring, Threads, Formed, Typed, Shape, StageShape, ManagerShape, WebShape, BackupShape, LockShape, Ops,
     Points, Args, Active
<1> QED BY <1>3, <1>4, <1>5, <1>6, <1>7 DEF Formed, Shape

LEMMA ReloadPoolFormed == ASSUME Formed, ReloadPool PROVE Formed'
<1>1. SyncedPool(mem) \in Seq(Members)
  <2>1. stage # "off"
    BY DEF Formed, Shape, StageShape, Free, NoOp, ReloadPool, Step
  <2> QED BY <2>1, SyncedIs DEF Formed, Typed, MemTyped
<1>2. Typed'
  BY <1>1, MarksAssumption, IdleIs DEF ReloadPool, Step, Return, Restoring, world, conf, bk, mgr, bounds,
     Formed, Typed, DiskTyped, MemTyped, BackupTyped, ManagerTyped, HistoryTyped, Shape, StageShape,
     ManagerShape, WebShape, BackupShape, LockShape, Free, Threads, Active
<1>3. \A u \in Threads : JobOK(job'[u])
  BY <1>1, MarksAssumption, IdleIs DEF ReloadPool, Step, Return, Restoring, world, conf, bk, mgr, bounds,
     Formed, Typed, Shape, JobOK, Active, Free, Threads
<1>4. StageShape' /\ ManagerShape' /\ WebShape'
  BY <1>1, MarksAssumption, IdleIs DEF ReloadPool, Step, Return, Restoring, world, conf, bk, mgr, bounds,
     Formed, Typed, Shape, StageShape, ManagerShape, WebShape, BackupShape, LockShape, Free, Threads, Active
<1>5. BackupShape'
  BY <1>1, MarksAssumption, IdleIs DEF ReloadPool, Step, Return, Restoring, world, conf, bk, mgr, bounds,
     Formed, Typed, Shape, StageShape, ManagerShape, WebShape, BackupShape, LockShape, Free, Threads, Active
<1>6. LockShape'
  BY <1>1, MarksAssumption, IdleIs DEF ReloadPool, Step, Return, Restoring, world, conf, bk, mgr, bounds,
     Formed, Typed, Shape, StageShape, ManagerShape, WebShape, BackupShape, LockShape, Free, Threads, Active
<1> QED BY <1>2, <1>3, <1>4, <1>5, <1>6 DEF Formed, Shape

LEMMA EnterEmptyFormed == ASSUME Formed, EnterEmpty PROVE Formed'
<1>1. mem.settings \in Settings
  BY ConfigIs DEF Formed, Typed, MemTyped, EnterEmpty
<1>2. Typed'
  BY <1>1, MarksAssumption, IdleIs DEF EnterEmpty, Free, disk, world, bk, mgr, hist, Formed, Typed, DiskTyped,
     MemTyped, BackupTyped, ManagerTyped, HistoryTyped, Shape, StageShape, ManagerShape, WebShape, BackupShape,
     LockShape, Threads, Active
<1>3. \A u \in Threads : JobOK(job'[u])
  BY <1>1, MarksAssumption, IdleIs DEF EnterEmpty, Free, disk, world, bk, mgr, hist, Formed, Typed, Shape,
     JobOK, Active, Threads
<1>4. StageShape' /\ ManagerShape' /\ WebShape'
  BY <1>1, MarksAssumption, IdleIs DEF EnterEmpty, Free, disk, world, bk, mgr, hist, Formed, Typed, Shape,
     StageShape, ManagerShape, WebShape, BackupShape, LockShape, Threads, Active
<1>5. BackupShape'
  BY <1>1, MarksAssumption, IdleIs DEF EnterEmpty, Free, disk, world, bk, mgr, hist, Formed, Typed, Shape,
     StageShape, ManagerShape, WebShape, BackupShape, LockShape, Threads, Active
<1>6. LockShape'
  BY <1>1, MarksAssumption, IdleIs DEF EnterEmpty, Free, disk, world, bk, mgr, hist, Formed, Typed, Shape,
     StageShape, ManagerShape, WebShape, BackupShape, LockShape, Threads, Active
<1> QED BY <1>2, <1>3, <1>4, <1>5, <1>6 DEF Formed, Shape

LEMMA MoveConflictsFormed == ASSUME Formed, NEW t \in Threads, MoveConflicts(t) PROVE Formed'
<1>1. /\ target' \in Configs /\ job' = [job EXCEPT ![t] = SaveNodes(target')]
  BY MovesDoes
<1>2. /\ SaveNodes(target') \in Jobs /\ JobOK(SaveNodes(target')) /\ SaveNodes(target').at = "start"
      /\ SaveNodes(target').part = "nodes"
  BY <1>1, SaveNodesIs
<1>3. Typed'
  BY <1>1, <1>2, MarksAssumption, IdleIs DEF MoveConflicts, Applying, Saved, Start, Becomes, disk, world, bk,
     hist, bounds, Formed, Typed, DiskTyped, MemTyped, BackupTyped, ManagerTyped, HistoryTyped, Shape,
     StageShape, ManagerShape, WebShape, BackupShape, LockShape, Free, Threads, Active
<1>4. \A u \in Threads : JobOK(job'[u])
  BY <1>1, <1>2, MarksAssumption, IdleIs DEF MoveConflicts, Applying, Saved, Start, Becomes, disk, world, bk,
     hist, bounds, Formed, Typed, Shape, JobOK, Active, Free, Threads
<1>5. StageShape' /\ ManagerShape' /\ WebShape'
  BY <1>1, <1>2, MarksAssumption, IdleIs DEF MoveConflicts, Applying, Saved, Start, Becomes, disk, world, bk,
     hist, bounds, Formed, Typed, Shape, StageShape, ManagerShape, WebShape, BackupShape, LockShape, Free,
     Threads, Active
<1>6. BackupShape'
  BY <1>1, <1>2, MarksAssumption, IdleIs DEF MoveConflicts, Applying, Saved, Start, Becomes, disk, world, bk,
     hist, bounds, Formed, Typed, Shape, StageShape, ManagerShape, WebShape, BackupShape, LockShape, Free,
     Threads, Active
<1>7. LockShape'
  BY <1>1, <1>2, MarksAssumption, IdleIs DEF MoveConflicts, Applying, Saved, Start, Becomes, disk, world, bk,
     hist, bounds, Formed, Typed, Shape, StageShape, ManagerShape, WebShape, BackupShape, LockShape, Free,
     Threads, Active
<1> QED BY <1>3, <1>4, <1>5, <1>6, <1>7 DEF Formed, Shape

LEMMA AppliedFormed == ASSUME Formed, NEW t \in Threads, Applied(t) PROVE Formed'
<1>1. target \in Configs /\ target.settings \in Settings /\ target # None /\ mem' = target /\ ran' = target
  BY AppliedDoes, ConfigIs
<1>2. op' \in [Threads -> Ops]
  BY <1>1, MarksAssumption, IdleIs, OpMoves DEF Applied, Applying, Saved, Unlock, Done, Goto, disk, world, bk,
     hist, bounds, Formed, Typed, Points, Threads, Ops, Free, Active
<1>3. Typed'
  BY <1>1, MarksAssumption, IdleIs, <1>2 DEF Applied, Applying, Saved, Unlock, Done, Goto, disk, world, bk,
     hist, bounds, Formed, Typed, DiskTyped, MemTyped, BackupTyped, ManagerTyped, HistoryTyped, Shape,
     StageShape, ManagerShape, WebShape, BackupShape, LockShape, Ops, Free, Threads, Active
<1>4. \A u \in Threads : JobOK(job'[u])
  BY <1>1, MarksAssumption, IdleIs DEF Applied, Applying, Saved, Unlock, Done, Goto, disk, world, bk, hist,
     bounds, Formed, Typed, Shape, JobOK, Active, Ops, Free, Threads
<1>5. StageShape' /\ ManagerShape' /\ WebShape'
  BY <1>1, MarksAssumption, IdleIs DEF Applied, Applying, Saved, Unlock, Done, Goto, disk, world, bk, hist,
     bounds, Formed, Typed, Shape, StageShape, ManagerShape, WebShape, BackupShape, LockShape, Ops, Free,
     Threads, Active
<1>6. BackupShape'
  BY <1>1, MarksAssumption, IdleIs DEF Applied, Applying, Saved, Unlock, Done, Goto, disk, world, bk, hist,
     bounds, Formed, Typed, Shape, StageShape, ManagerShape, WebShape, BackupShape, LockShape, Ops, Free,
     Threads, Active
<1>7. LockShape'
  BY <1>1, MarksAssumption, IdleIs DEF Applied, Applying, Saved, Unlock, Done, Goto, disk, world, bk, hist,
     bounds, Formed, Typed, Shape, StageShape, ManagerShape, WebShape, BackupShape, LockShape, Ops, Free,
     Threads, Active
<1> QED BY <1>2, <1>3, <1>4, <1>5, <1>6, <1>7 DEF Formed, Shape

LEMMA RollBackFormed == ASSUME Formed, NEW t \in Threads, RollBack(t) PROVE Formed'
<1>1. ran \in Configs
  BY DEF Formed, Typed, MemTyped, RollBack
<1>2. /\ SaveNodes(ran) \in Jobs /\ JobOK(SaveNodes(ran)) /\ SaveNodes(ran).at = "start"
      /\ SaveNodes(ran).part = "nodes"
  BY <1>1, SaveNodesIs
<1>3. op' \in [Threads -> Ops]
  BY <1>1, <1>2, MarksAssumption, IdleIs, OpMoves DEF RollBack, Applying, Unsaved, Saved, Faulty, Start, Goto,
     disk, world, conf, bk, mgr, hist, Formed, Typed, Points, Threads, Ops, Free, Active
<1>4. Typed'
  BY <1>1, <1>2, MarksAssumption, IdleIs, <1>3 DEF RollBack, Applying, Unsaved, Saved, Faulty, Start, Goto,
     disk, world, conf, bk, mgr, hist, Formed, Typed, DiskTyped, MemTyped, BackupTyped, ManagerTyped,
     HistoryTyped, Shape, StageShape, ManagerShape, WebShape, BackupShape, LockShape, Ops, Free, Threads, Active
<1>5. \A u \in Threads : JobOK(job'[u])
  BY <1>1, <1>2, MarksAssumption, IdleIs DEF RollBack, Applying, Unsaved, Saved, Faulty, Start, Goto, disk,
     world, conf, bk, mgr, hist, Formed, Typed, Shape, JobOK, Active, Ops, Free, Threads
<1>6. StageShape' /\ ManagerShape' /\ WebShape'
  BY <1>1, <1>2, MarksAssumption, IdleIs DEF RollBack, Applying, Unsaved, Saved, Faulty, Start, Goto, disk,
     world, conf, bk, mgr, hist, Formed, Typed, Shape, StageShape, ManagerShape, WebShape, BackupShape,
     LockShape, Ops, Free, Threads, Active
<1>7. BackupShape'
  BY <1>1, <1>2, MarksAssumption, IdleIs DEF RollBack, Applying, Unsaved, Saved, Faulty, Start, Goto, disk,
     world, conf, bk, mgr, hist, Formed, Typed, Shape, StageShape, ManagerShape, WebShape, BackupShape,
     LockShape, Ops, Free, Threads, Active
<1>8. LockShape'
  BY <1>1, <1>2, MarksAssumption, IdleIs DEF RollBack, Applying, Unsaved, Saved, Faulty, Start, Goto, disk,
     world, conf, bk, mgr, hist, Formed, Typed, Shape, StageShape, ManagerShape, WebShape, BackupShape,
     LockShape, Ops, Free, Threads, Active
<1> QED BY <1>3, <1>4, <1>5, <1>6, <1>7, <1>8 DEF Formed, Shape

LEMMA RolledBackFormed == ASSUME Formed, NEW t \in Threads, RolledBack(t) PROVE Formed'
<1>1. ran \in Configs /\ ran.settings \in Settings
  BY ConfigIs DEF Formed, Typed, MemTyped, RolledBack, Shape, LockShape
<1>2. op' \in [Threads -> Ops]
  <2>1. Goto(t, "putfile") \/ Return(t)
    BY DEF RolledBack, ApplyError
  <2>2. op \in [Threads -> Ops] /\ "putfile" \in Points
    BY DEF Formed, Typed, Points
  <2>3. CASE Goto(t, "putfile")
    BY <2>2, <2>3, OpMoves DEF Goto
  <2>4. CASE Return(t)
    BY <2>2, <2>4, OpMoves DEF Return
  <2> QED BY <2>1, <2>3, <2>4
<1>3. Typed'
  BY <1>1, MarksAssumption, IdleIs, <1>2 DEF RolledBack, Saved, Unsaved, Unlock, Done, ApplyError, disk, world,
     bk, hist, bounds, Goto, Return, Formed, Typed, DiskTyped, MemTyped, BackupTyped, ManagerTyped,
     HistoryTyped, Shape, StageShape, ManagerShape, WebShape, BackupShape, LockShape, Ops, Free, Threads, Active
<1>4. \A u \in Threads : JobOK(job'[u])
  BY <1>1, MarksAssumption, IdleIs DEF RolledBack, Saved, Unsaved, Unlock, Done, ApplyError, disk, world, bk,
     hist, bounds, Goto, Return, Formed, Typed, Shape, JobOK, Active, Ops, Free, Threads
<1>5. StageShape' /\ ManagerShape' /\ WebShape'
  BY <1>1, MarksAssumption, IdleIs DEF RolledBack, Saved, Unsaved, Unlock, Done, ApplyError, disk, world, bk,
     hist, bounds, Goto, Return, Formed, Typed, Shape, StageShape, ManagerShape, WebShape, BackupShape,
     LockShape, Ops, Free, Threads, Active
<1>6. BackupShape'
  BY <1>1, MarksAssumption, IdleIs DEF RolledBack, Saved, Unsaved, Unlock, Done, ApplyError, disk, world, bk,
     hist, bounds, Goto, Return, Formed, Typed, Shape, StageShape, ManagerShape, WebShape, BackupShape,
     LockShape, Ops, Free, Threads, Active
<1>7. LockShape'
  BY <1>1, MarksAssumption, IdleIs DEF RolledBack, Saved, Unsaved, Unlock, Done, ApplyError, disk, world, bk,
     hist, bounds, Goto, Return, Formed, Typed, Shape, StageShape, ManagerShape, WebShape, BackupShape,
     LockShape, Ops, Free, Threads, Active
<1> QED BY <1>2, <1>3, <1>4, <1>5, <1>6, <1>7 DEF Formed, Shape

LEMMA StartFailsFormed == ASSUME Formed, NEW t \in Threads, StartFails(t) PROVE Formed'
<1>1. op' \in [Threads -> Ops]
  <2>1. Goto(t, "putfile") \/ Return(t)
    BY DEF StartFails, ApplyError
  <2>2. op \in [Threads -> Ops] /\ "putfile" \in Points
    BY DEF Formed, Typed, Points
  <2>3. CASE Goto(t, "putfile")
    BY <2>2, <2>3, OpMoves DEF Goto
  <2>4. CASE Return(t)
    BY <2>2, <2>4, OpMoves DEF Return
  <2> QED BY <2>1, <2>3, <2>4
<1>2. Typed'
  <2>1. /\ UNCHANGED <<disk, world, stage, web, ran, bk, undo, hist, ops, runs>>
        /\ job' = [job EXCEPT ![t] = Idle] /\ reloadMu' = None /\ target' = None
    BY DEF StartFails, Unlock, Done
  <2>2. /\ mem' \in {mem, target} /\ target # None /\ (synced' = synced \/ synced' = FALSE)
        /\ faults' = faults \/ faults' = faults + 1
    BY DEF StartFails, Faulty, Applying
  <2>6. stage # "off"
    BY <2>2 DEF Formed, Shape, StageShape
  <2>3. mem' \in Configs
    BY <2>2, <2>6 DEF Formed, Typed, MemTyped, ManagerTyped
  <2>4. faults' \in Nat
    BY <2>2 DEF Formed, Typed, HistoryTyped
  <2>7. synced' \in BOOLEAN
    BY <2>2 DEF Formed, Typed, MemTyped
  <2>5. job' \in [Threads -> Jobs]
    BY <2>1, IdleIs DEF Formed, Typed
  <2> QED BY <1>1, <2>1, <2>3, <2>4, <2>5, <2>6, <2>7 DEF disk, world, bk, hist, Formed, Typed, DiskTyped, MemTyped,
        BackupTyped, ManagerTyped, HistoryTyped
<1>3. \A u \in Threads : JobOK(job'[u])
  BY MarksAssumption, IdleIs DEF StartFails, Applying, Unsaved, Saved, Faulty, Unlock, Done, ApplyError, disk,
     world, bk, hist, Goto, Return, Formed, Typed, Shape, JobOK, Active, Ops, Free, Threads
<1>4. StageShape' /\ ManagerShape' /\ WebShape'
  BY MarksAssumption, IdleIs DEF StartFails, Applying, Unsaved, Saved, Faulty, Unlock, Done, ApplyError, disk,
     world, bk, hist, Goto, Return, Formed, Typed, Shape, StageShape, ManagerShape, WebShape, BackupShape,
     LockShape, Ops, Free, Threads, Active
<1>5. BackupShape'
  BY MarksAssumption, IdleIs DEF StartFails, Applying, Unsaved, Saved, Faulty, Unlock, Done, ApplyError, disk,
     world, bk, hist, Goto, Return, Formed, Typed, Shape, StageShape, ManagerShape, WebShape, BackupShape,
     LockShape, Ops, Free, Threads, Active
<1>6. LockShape'
  BY MarksAssumption, IdleIs DEF StartFails, Applying, Unsaved, Saved, Faulty, Unlock, Done, ApplyError, disk,
     world, bk, hist, Goto, Return, Formed, Typed, Shape, StageShape, ManagerShape, WebShape, BackupShape,
     LockShape, Ops, Free, Threads, Active
<1> QED BY <1>1, <1>2, <1>3, <1>4, <1>5, <1>6 DEF Formed, Shape

LEMMA EditSettingsFormed == ASSUME Formed, NEW settings \in Settings, EditSettings(settings) PROVE Formed'
<1>1. mem \in Configs /\ [mem EXCEPT !.settings = settings] \in Configs
  BY WithSettings DEF Formed, Typed, MemTyped, EditSettings
<1>2. /\ SaveSettings(settings) \in Jobs /\ JobOK(SaveSettings(settings)) /\ SaveSettings(settings).at = "start"
      /\ SaveSettings(settings).part = "settings"
  BY SaveSettingsIs
<1>3. Typed'
  BY <1>1, <1>2, MarksAssumption, IdleIs DEF EditSettings, Begin, Start, disk, world, bk, mgr, Free, Crosses,
     Others, Restoring, Threads, Formed, Typed, DiskTyped, MemTyped, BackupTyped, ManagerTyped, HistoryTyped,
     Shape, StageShape, ManagerShape, WebShape, BackupShape, LockShape, Ops, Points, Args, Active
<1>4. \A u \in Threads : JobOK(job'[u])
  BY <1>1, <1>2, MarksAssumption, IdleIs DEF EditSettings, Begin, Start, disk, world, bk, mgr, Free, Crosses,
     Others, Restoring, Threads, Formed, Typed, Shape, JobOK, Active, Ops, Points, Args
<1>5. StageShape' /\ ManagerShape' /\ WebShape'
  BY <1>1, <1>2, MarksAssumption, IdleIs DEF EditSettings, Begin, Start, disk, world, bk, mgr, Free, Crosses,
     Others, Restoring, Threads, Formed, Typed, Shape, StageShape, ManagerShape, WebShape, BackupShape,
     LockShape, Ops, Points, Args, Active
<1>6. BackupShape'
  BY <1>1, <1>2, MarksAssumption, IdleIs DEF EditSettings, Begin, Start, disk, world, bk, mgr, Free, Crosses,
     Others, Restoring, Threads, Formed, Typed, Shape, StageShape, ManagerShape, WebShape, BackupShape,
     LockShape, Ops, Points, Args, Active
<1>7. LockShape'
  BY <1>1, <1>2, MarksAssumption, IdleIs DEF EditSettings, Begin, Start, disk, world, bk, mgr, Free, Crosses,
     Others, Restoring, Threads, Formed, Typed, Shape, StageShape, ManagerShape, WebShape, BackupShape,
     LockShape, Ops, Points, Args, Active
<1> QED BY <1>3, <1>4, <1>5, <1>6, <1>7 DEF Formed, Shape

LEMMA SettingsEndFormed == ASSUME Formed, SettingsEnd PROVE Formed'
<1>1. Typed'
  BY MarksAssumption, IdleIs DEF SettingsEnd, Step, Saved, Unsaved, Return, Done, disk, world, conf, bk, mgr,
     hist, bounds, Formed, Typed, DiskTyped, MemTyped, BackupTyped, ManagerTyped, HistoryTyped, Shape,
     StageShape, ManagerShape, WebShape, BackupShape, LockShape, Free, Threads, Active
<1>2. \A u \in Threads : JobOK(job'[u])
  BY MarksAssumption, IdleIs DEF SettingsEnd, Step, Saved, Unsaved, Return, Done, disk, world, conf, bk, mgr,
     hist, bounds, Formed, Typed, Shape, JobOK, Active, Free, Threads
<1>3. StageShape' /\ ManagerShape' /\ WebShape'
  BY MarksAssumption, IdleIs DEF SettingsEnd, Step, Saved, Unsaved, Return, Done, disk, world, conf, bk, mgr,
     hist, bounds, Formed, Typed, Shape, StageShape, ManagerShape, WebShape, BackupShape, LockShape, Free,
     Threads, Active
<1>4. BackupShape'
  BY MarksAssumption, IdleIs DEF SettingsEnd, Step, Saved, Unsaved, Return, Done, disk, world, conf, bk, mgr,
     hist, bounds, Formed, Typed, Shape, StageShape, ManagerShape, WebShape, BackupShape, LockShape, Free,
     Threads, Active
<1>5. LockShape'
  BY MarksAssumption, IdleIs DEF SettingsEnd, Step, Saved, Unsaved, Return, Done, disk, world, conf, bk, mgr,
     hist, bounds, Formed, Typed, Shape, StageShape, ManagerShape, WebShape, BackupShape, LockShape, Free,
     Threads, Active
<1> QED BY <1>1, <1>2, <1>3, <1>4, <1>5 DEF Formed, Shape

LEMMA SetWebDAVFormed == ASSUME Formed, SetWebDAV PROVE Formed'
<1>1. [Current.settings EXCEPT !.dav = dav + 1] \in Settings
  BY CurrentIs DEF Formed, Typed, MemTyped, BackupTyped, SetWebDAV, Settings
<1>2. /\ SaveSettings([Current.settings EXCEPT !.dav = dav + 1]) \in Jobs
      /\ JobOK(SaveSettings([Current.settings EXCEPT !.dav = dav + 1]))
      /\ SaveSettings([Current.settings EXCEPT !.dav = dav + 1]).at = "start"
      /\ SaveSettings([Current.settings EXCEPT !.dav = dav + 1]).part = "settings"
  BY <1>1, SaveSettingsIs
<1>3. Typed'
  BY <1>2, MarksAssumption, IdleIs DEF SetWebDAV, Begin, Start, disk, world, conf, bk, mgr, Free, Crosses,
     Others, Restoring, Threads, Formed, Typed, DiskTyped, MemTyped, BackupTyped, ManagerTyped, HistoryTyped,
     Shape, StageShape, ManagerShape, WebShape, BackupShape, LockShape, Ops, Points, Args, Active
<1>4. \A u \in Threads : JobOK(job'[u])
  BY <1>2, MarksAssumption, IdleIs DEF SetWebDAV, Begin, Start, disk, world, conf, bk, mgr, Free, Crosses,
     Others, Restoring, Threads, Formed, Typed, Shape, JobOK, Active, Ops, Points, Args
<1>5. StageShape' /\ ManagerShape' /\ WebShape'
  BY <1>2, MarksAssumption, IdleIs DEF SetWebDAV, Begin, Start, disk, world, conf, bk, mgr, Free, Crosses,
     Others, Restoring, Threads, Formed, Typed, Shape, StageShape, ManagerShape, WebShape, BackupShape,
     LockShape, Ops, Points, Args, Active
<1>6. BackupShape'
  <2>1. /\ op' = [op EXCEPT !["backup"] = [name |-> "webdav", pc |-> "save", arg |-> dav + 1]]
        /\ job'["backup"].at # "none" /\ job'["backup"].part = "settings"
    BY <1>2 DEF SetWebDAV, Begin, Start, Formed, Typed, Threads
  <2>2. op'["backup"] = [name |-> "webdav", pc |-> "save", arg |-> dav + 1] /\ dav + 1 \in Nat
    BY <2>1 DEF Formed, Typed, Threads, BackupTyped
  <2> QED BY <2>1, <2>2 DEF BackupShape
<1>7. LockShape'
  BY <1>2, MarksAssumption, IdleIs DEF SetWebDAV, Begin, Start, disk, world, conf, bk, mgr, Free, Crosses,
     Others, Restoring, Threads, Formed, Typed, Shape, StageShape, ManagerShape, WebShape, BackupShape,
     LockShape, Ops, Points, Args, Active
<1> QED BY <1>3, <1>4, <1>5, <1>6, <1>7 DEF Formed, Shape

LEMMA WebDAVSavedFormed == ASSUME Formed, WebDAVSaved PROVE Formed'
<1>1. Typed'
  BY MarksAssumption, IdleIs DEF WebDAVSaved, Step, Saved, Return, Done, disk, world, conf, mgr, hist, bounds,
     Formed, Typed, DiskTyped, MemTyped, BackupTyped, ManagerTyped, HistoryTyped, Shape, StageShape,
     ManagerShape, WebShape, BackupShape, LockShape, Free, Threads, Active
<1>2. \A u \in Threads : JobOK(job'[u])
  BY MarksAssumption, IdleIs DEF WebDAVSaved, Step, Saved, Return, Done, disk, world, conf, mgr, hist, bounds,
     Formed, Typed, Shape, JobOK, Active, Free, Threads
<1>3. StageShape' /\ ManagerShape' /\ WebShape'
  BY MarksAssumption, IdleIs DEF WebDAVSaved, Step, Saved, Return, Done, disk, world, conf, mgr, hist, bounds,
     Formed, Typed, Shape, StageShape, ManagerShape, WebShape, BackupShape, LockShape, Free, Threads, Active
<1>4. BackupShape'
  BY MarksAssumption, IdleIs DEF WebDAVSaved, Step, Saved, Return, Done, disk, world, conf, mgr, hist, bounds,
     Formed, Typed, Shape, StageShape, ManagerShape, WebShape, BackupShape, LockShape, Free, Threads, Active
<1>5. LockShape'
  BY MarksAssumption, IdleIs DEF WebDAVSaved, Step, Saved, Return, Done, disk, world, conf, mgr, hist, bounds,
     Formed, Typed, Shape, StageShape, ManagerShape, WebShape, BackupShape, LockShape, Free, Threads, Active
<1> QED BY <1>1, <1>2, <1>3, <1>4, <1>5 DEF Formed, Shape

LEMMA WebDAVFailsFormed == ASSUME Formed, WebDAVFails PROVE Formed'
<1>1. Typed'
  BY MarksAssumption, IdleIs DEF WebDAVFails, Step, Unsaved, Return, Done, disk, world, conf, bk, mgr, hist,
     bounds, Formed, Typed, DiskTyped, MemTyped, BackupTyped, ManagerTyped, HistoryTyped, Shape, StageShape,
     ManagerShape, WebShape, BackupShape, LockShape, Free, Threads, Active
<1>2. \A u \in Threads : JobOK(job'[u])
  BY MarksAssumption, IdleIs DEF WebDAVFails, Step, Unsaved, Return, Done, disk, world, conf, bk, mgr, hist,
     bounds, Formed, Typed, Shape, JobOK, Active, Free, Threads
<1>3. StageShape' /\ ManagerShape' /\ WebShape'
  BY MarksAssumption, IdleIs DEF WebDAVFails, Step, Unsaved, Return, Done, disk, world, conf, bk, mgr, hist,
     bounds, Formed, Typed, Shape, StageShape, ManagerShape, WebShape, BackupShape, LockShape, Free, Threads,
     Active
<1>4. BackupShape'
  BY MarksAssumption, IdleIs DEF WebDAVFails, Step, Unsaved, Return, Done, disk, world, conf, bk, mgr, hist,
     bounds, Formed, Typed, Shape, StageShape, ManagerShape, WebShape, BackupShape, LockShape, Free, Threads,
     Active
<1>5. LockShape'
  BY MarksAssumption, IdleIs DEF WebDAVFails, Step, Unsaved, Return, Done, disk, world, conf, bk, mgr, hist,
     bounds, Formed, Typed, Shape, StageShape, ManagerShape, WebShape, BackupShape, LockShape, Free, Threads,
     Active
<1> QED BY <1>1, <1>2, <1>3, <1>4, <1>5 DEF Formed, Shape

LEMMA CreateBackupFormed == ASSUME Formed, CreateBackup PROVE Formed'
<1>1. [settings |-> Current.settings, nodes |-> mem.nodes] \in [settings : Settings, nodes : Seq(Nodes)]
  BY CurrentIs DEF Formed, Typed, MemTyped, BackupTyped, CreateBackup
<1>2. Typed'
  BY <1>1, MarksAssumption, IdleIs DEF CreateBackup, Begin, disk, world, conf, bk, mgr, Free, Crosses, Others,
     Restoring, Threads, Formed, Typed, DiskTyped, MemTyped, BackupTyped, ManagerTyped, HistoryTyped, Shape,
     StageShape, ManagerShape, WebShape, BackupShape, LockShape, Ops, Points, Args, Active
<1>3. \A u \in Threads : JobOK(job'[u])
  BY <1>1, MarksAssumption, IdleIs DEF CreateBackup, Begin, disk, world, conf, bk, mgr, Free, Crosses, Others,
     Restoring, Threads, Formed, Typed, Shape, JobOK, Active, Ops, Points, Args
<1>4. StageShape' /\ ManagerShape' /\ WebShape'
  BY <1>1, MarksAssumption, IdleIs DEF CreateBackup, Begin, disk, world, conf, bk, mgr, Free, Crosses, Others,
     Restoring, Threads, Formed, Typed, Shape, StageShape, ManagerShape, WebShape, BackupShape, LockShape, Ops,
     Points, Args, Active
<1>5. BackupShape'
  BY <1>1, MarksAssumption, IdleIs DEF CreateBackup, Begin, disk, world, conf, bk, mgr, Free, Crosses, Others,
     Restoring, Threads, Formed, Typed, Shape, StageShape, ManagerShape, WebShape, BackupShape, LockShape, Ops,
     Points, Args, Active
<1>6. LockShape'
  BY <1>1, MarksAssumption, IdleIs DEF CreateBackup, Begin, disk, world, conf, bk, mgr, Free, Crosses, Others,
     Restoring, Threads, Formed, Typed, Shape, StageShape, ManagerShape, WebShape, BackupShape, LockShape, Ops,
     Points, Args, Active
<1> QED BY <1>2, <1>3, <1>4, <1>5, <1>6 DEF Formed, Shape

LEMMA SnapshotStoreFormed == ASSUME Formed, SnapshotStore PROVE Formed'
<1>1. Typed'
  BY MarksAssumption, IdleIs DEF SnapshotStore, Step, Return, disk, world, conf, mgr, hist, bounds, Formed,
     Typed, DiskTyped, MemTyped, BackupTyped, ManagerTyped, HistoryTyped, Shape, StageShape, ManagerShape,
     WebShape, BackupShape, LockShape, Backups, Free, Threads, Active
<1>2. \A u \in Threads : JobOK(job'[u])
  BY MarksAssumption, IdleIs DEF SnapshotStore, Step, Return, disk, world, conf, mgr, hist, bounds, Formed,
     Typed, Shape, JobOK, Active, Backups, Free, Threads
<1>3. StageShape' /\ ManagerShape' /\ WebShape'
  BY MarksAssumption, IdleIs DEF SnapshotStore, Step, Return, disk, world, conf, mgr, hist, bounds, Formed,
     Typed, Shape, StageShape, ManagerShape, WebShape, BackupShape, LockShape, Backups, Free, Threads, Active
<1>4. BackupShape'
  BY MarksAssumption, IdleIs DEF SnapshotStore, Step, Return, disk, world, conf, mgr, hist, bounds, Formed,
     Typed, Shape, StageShape, ManagerShape, WebShape, BackupShape, LockShape, Backups, Free, Threads, Active
<1>5. LockShape'
  BY MarksAssumption, IdleIs DEF SnapshotStore, Step, Return, disk, world, conf, mgr, hist, bounds, Formed,
     Typed, Shape, StageShape, ManagerShape, WebShape, BackupShape, LockShape, Backups, Free, Threads, Active
<1> QED BY <1>1, <1>2, <1>3, <1>4, <1>5 DEF Formed, Shape

LEMMA RestoreFormed == ASSUME Formed, Restore PROVE Formed'
<1>1. archive \in Backups /\ mem \in Configs
  BY DEF Formed, Typed, MemTyped, BackupTyped, Restore
<1>2. /\ SaveFull(Restored) \in Jobs /\ JobOK(SaveFull(Restored)) /\ SaveFull(Restored).at = "start"
      /\ SaveFull(Restored).part = "whole"
  BY <1>1, RestoredIs, SaveFullIs
<1>3. Current \in Configs
  BY <1>1, CurrentIs DEF Formed, Typed, BackupTyped
<1>4. rs' \in Restores /\ rs'.cfg \in Configs /\ rs'.file \in Contents \cup {Short, Mixed} /\ rs'.pool \in Seq(Members)
  <2>1. rs' = [cfg |-> Current, file |-> yaml, pool |-> pool] /\ yaml \in Contents \cup {Short, Mixed} /\ pool \in Seq(Members)
    BY DEF Formed, Typed, DiskTyped, Restore, Remembered
  <2> QED BY <1>3, <2>1 DEF Restores
<1>5. Typed'
  BY <1>1, <1>2, <1>4, MarksAssumption, IdleIs DEF Restore, Begin, Remembered, Start, disk, world, conf, mgr,
     Free, Crosses, Others, Restoring, Threads, Formed, Typed, DiskTyped, MemTyped, BackupTyped, ManagerTyped,
     HistoryTyped, Shape, StageShape, ManagerShape, WebShape, BackupShape, LockShape, Ops, Points, Args, Active
<1>6. \A u \in Threads : JobOK(job'[u])
  BY <1>1, <1>2, <1>4, MarksAssumption, IdleIs DEF Restore, Begin, Remembered, Start, disk, world, conf, mgr,
     Free, Crosses, Others, Restoring, Threads, Formed, Typed, Shape, JobOK, Active, Ops, Points, Args
<1>7. StageShape' /\ ManagerShape' /\ WebShape'
  BY <1>1, <1>2, <1>4, MarksAssumption, IdleIs DEF Restore, Begin, Remembered, Start, disk, world, conf, mgr,
     Free, Crosses, Others, Restoring, Threads, Formed, Typed, Shape, StageShape, ManagerShape, WebShape,
     BackupShape, LockShape, Ops, Points, Args, Active
<1>8. BackupShape'
  BY <1>1, <1>2, <1>4, MarksAssumption, IdleIs DEF Restore, Begin, Remembered, Start, disk, world, conf, mgr,
     Free, Crosses, Others, Restoring, Threads, Formed, Typed, Shape, StageShape, ManagerShape, WebShape,
     BackupShape, LockShape, Ops, Points, Args, Active
<1>9. LockShape'
  BY <1>1, <1>2, <1>4, MarksAssumption, IdleIs DEF Restore, Begin, Remembered, Start, disk, world, conf, mgr,
     Free, Crosses, Others, Restoring, Threads, Formed, Typed, Shape, StageShape, ManagerShape, WebShape,
     BackupShape, LockShape, Ops, Points, Args, Active
<1> QED BY <1>5, <1>6, <1>7, <1>8, <1>9 DEF Formed, Shape

LEMMA RestoreSavedFormed == ASSUME Formed, RestoreSaved PROVE Formed'
<1>1. op' \in [Threads -> Ops]
  BY MarksAssumption, IdleIs, OpMoves DEF RestoreSaved, RestoreAt, Saved, Goto, Done, disk, world, conf, bk,
     mgr, hist, bounds, Step, Formed, Typed, Points, Threads, Ops, Free, Active
<1>2. Typed'
  BY MarksAssumption, IdleIs, <1>1 DEF RestoreSaved, RestoreAt, Saved, Goto, Done, disk, world, conf, bk, mgr,
     hist, bounds, Step, Formed, Typed, DiskTyped, MemTyped, BackupTyped, ManagerTyped, HistoryTyped, Shape,
     StageShape, ManagerShape, WebShape, BackupShape, LockShape, Ops, Free, Threads, Active
<1>3. \A u \in Threads : JobOK(job'[u])
  BY MarksAssumption, IdleIs DEF RestoreSaved, RestoreAt, Saved, Goto, Done, disk, world, conf, bk, mgr, hist,
     bounds, Step, Formed, Typed, Shape, JobOK, Active, Ops, Free, Threads
<1>4. StageShape' /\ ManagerShape' /\ WebShape'
  BY MarksAssumption, IdleIs DEF RestoreSaved, RestoreAt, Saved, Goto, Done, disk, world, conf, bk, mgr, hist,
     bounds, Step, Formed, Typed, Shape, StageShape, ManagerShape, WebShape, BackupShape, LockShape, Ops, Free,
     Threads, Active
<1>5. BackupShape'
  BY MarksAssumption, IdleIs DEF RestoreSaved, RestoreAt, Saved, Goto, Done, disk, world, conf, bk, mgr, hist,
     bounds, Step, Formed, Typed, Shape, StageShape, ManagerShape, WebShape, BackupShape, LockShape, Ops, Free,
     Threads, Active
<1>6. LockShape'
  BY MarksAssumption, IdleIs DEF RestoreSaved, RestoreAt, Saved, Goto, Done, disk, world, conf, bk, mgr, hist,
     bounds, Step, Formed, Typed, Shape, StageShape, ManagerShape, WebShape, BackupShape, LockShape, Ops, Free,
     Threads, Active
<1> QED BY <1>1, <1>2, <1>3, <1>4, <1>5, <1>6 DEF Formed, Shape

LEMMA RestoreUnsavedFormed == ASSUME Formed, RestoreUnsaved PROVE Formed'
<1>1. Typed'
  BY MarksAssumption, IdleIs DEF RestoreUnsaved, RestoreAt, Unsaved, RestoreEnds, Done, disk, world, conf, mgr,
     bounds, Step, Return, Formed, Typed, DiskTyped, MemTyped, BackupTyped, ManagerTyped, HistoryTyped, Shape,
     StageShape, ManagerShape, WebShape, BackupShape, LockShape, Free, Threads, Active
<1>2. \A u \in Threads : JobOK(job'[u])
  BY MarksAssumption, IdleIs DEF RestoreUnsaved, RestoreAt, Unsaved, RestoreEnds, Done, disk, world, conf, mgr,
     bounds, Step, Return, Formed, Typed, Shape, JobOK, Active, Free, Threads
<1>3. StageShape' /\ ManagerShape' /\ WebShape'
  BY MarksAssumption, IdleIs DEF RestoreUnsaved, RestoreAt, Unsaved, RestoreEnds, Done, disk, world, conf, mgr,
     bounds, Step, Return, Formed, Typed, Shape, StageShape, ManagerShape, WebShape, BackupShape, LockShape,
     Free, Threads, Active
<1>4. BackupShape'
  BY MarksAssumption, IdleIs DEF RestoreUnsaved, RestoreAt, Unsaved, RestoreEnds, Done, disk, world, conf, mgr,
     bounds, Step, Return, Formed, Typed, Shape, StageShape, ManagerShape, WebShape, BackupShape, LockShape,
     Free, Threads, Active
<1>5. LockShape'
  BY MarksAssumption, IdleIs DEF RestoreUnsaved, RestoreAt, Unsaved, RestoreEnds, Done, disk, world, conf, mgr,
     bounds, Step, Return, Formed, Typed, Shape, StageShape, ManagerShape, WebShape, BackupShape, LockShape,
     Free, Threads, Active
<1> QED BY <1>1, <1>2, <1>3, <1>4, <1>5 DEF Formed, Shape

LEMMA ReplaceStoreFormed == ASSUME Formed, ReplaceStore PROVE Formed'
<1>1. op' \in [Threads -> Ops]
  BY MarksAssumption, IdleIs, OpMoves DEF ReplaceStore, RestoreAt, Goto, world, conf, bk, mgr, hist, bounds,
     Step, Formed, Typed, Points, Threads, Ops, Backups, Free, Active
<1>2. Typed'
  BY MarksAssumption, IdleIs, <1>1 DEF ReplaceStore, RestoreAt, Goto, world, conf, bk, mgr, hist, bounds, Step,
     Formed, Typed, DiskTyped, MemTyped, BackupTyped, ManagerTyped, HistoryTyped, Shape, StageShape,
     ManagerShape, WebShape, BackupShape, LockShape, Ops, Backups, Free, Threads, Active
<1>3. \A u \in Threads : JobOK(job'[u])
  BY MarksAssumption, IdleIs DEF ReplaceStore, RestoreAt, Goto, world, conf, bk, mgr, hist, bounds, Step,
     Formed, Typed, Shape, JobOK, Active, Ops, Backups, Free, Threads
<1>4. StageShape' /\ ManagerShape' /\ WebShape'
  BY MarksAssumption, IdleIs DEF ReplaceStore, RestoreAt, Goto, world, conf, bk, mgr, hist, bounds, Step,
     Formed, Typed, Shape, StageShape, ManagerShape, WebShape, BackupShape, LockShape, Ops, Backups, Free,
     Threads, Active
<1>5. BackupShape'
  BY MarksAssumption, IdleIs DEF ReplaceStore, RestoreAt, Goto, world, conf, bk, mgr, hist, bounds, Step,
     Formed, Typed, Shape, StageShape, ManagerShape, WebShape, BackupShape, LockShape, Ops, Backups, Free,
     Threads, Active
<1>6. LockShape'
  BY MarksAssumption, IdleIs DEF ReplaceStore, RestoreAt, Goto, world, conf, bk, mgr, hist, bounds, Step,
     Formed, Typed, Shape, StageShape, ManagerShape, WebShape, BackupShape, LockShape, Ops, Backups, Free,
     Threads, Active
<1> QED BY <1>1, <1>2, <1>3, <1>4, <1>5, <1>6 DEF Formed, Shape

LEMMA ReplaceStoreFailsFormed == ASSUME Formed, ReplaceStoreFails PROVE Formed'
<1>1. op' \in [Threads -> Ops]
  BY MarksAssumption, IdleIs, OpMoves DEF ReplaceStoreFails, RestoreAt, Faulty, Goto, disk, world, conf, bk,
     mgr, hist, Step, Formed, Typed, Points, Threads, Ops, Free, Active
<1>2. Typed'
  BY MarksAssumption, IdleIs, <1>1 DEF ReplaceStoreFails, RestoreAt, Faulty, Goto, disk, world, conf, bk, mgr,
     hist, Step, Formed, Typed, DiskTyped, MemTyped, BackupTyped, ManagerTyped, HistoryTyped, Shape, StageShape,
     ManagerShape, WebShape, BackupShape, LockShape, Ops, Free, Threads, Active
<1>3. \A u \in Threads : JobOK(job'[u])
  BY MarksAssumption, IdleIs DEF ReplaceStoreFails, RestoreAt, Faulty, Goto, disk, world, conf, bk, mgr, hist,
     Step, Formed, Typed, Shape, JobOK, Active, Ops, Free, Threads
<1>4. StageShape' /\ ManagerShape' /\ WebShape'
  BY MarksAssumption, IdleIs DEF ReplaceStoreFails, RestoreAt, Faulty, Goto, disk, world, conf, bk, mgr, hist,
     Step, Formed, Typed, Shape, StageShape, ManagerShape, WebShape, BackupShape, LockShape, Ops, Free, Threads,
     Active
<1>5. BackupShape'
  BY MarksAssumption, IdleIs DEF ReplaceStoreFails, RestoreAt, Faulty, Goto, disk, world, conf, bk, mgr, hist,
     Step, Formed, Typed, Shape, StageShape, ManagerShape, WebShape, BackupShape, LockShape, Ops, Free, Threads,
     Active
<1>6. LockShape'
  BY MarksAssumption, IdleIs DEF ReplaceStoreFails, RestoreAt, Faulty, Goto, disk, world, conf, bk, mgr, hist,
     Step, Formed, Typed, Shape, StageShape, ManagerShape, WebShape, BackupShape, LockShape, Ops, Free, Threads,
     Active
<1> QED BY <1>1, <1>2, <1>3, <1>4, <1>5, <1>6 DEF Formed, Shape

LEMMA ListNodesFormed == ASSUME Formed, ListNodes PROVE Formed'
<1>1. SyncedPool(mem) \in Seq(Members)
  <2>1. stage # "off"
    BY DEF Formed, Shape, StageShape, Free, NoOp, ListNodes, RestoreAt, Step
  <2> QED BY <2>1, SyncedIs DEF Formed, Typed, MemTyped
<1>2. op' \in [Threads -> Ops]
  BY <1>1, MarksAssumption, IdleIs, OpMoves DEF ListNodes, RestoreAt, Goto, world, conf, bk, mgr, hist, bounds,
     Step, Formed, Typed, Points, Threads, Ops, Free, Active
<1>3. Typed'
  BY <1>1, MarksAssumption, IdleIs, <1>2 DEF ListNodes, RestoreAt, Goto, world, conf, bk, mgr, hist, bounds,
     Step, Formed, Typed, DiskTyped, MemTyped, BackupTyped, ManagerTyped, HistoryTyped, Shape, StageShape,
     ManagerShape, WebShape, BackupShape, LockShape, Ops, Free, Threads, Active
<1>4. \A u \in Threads : JobOK(job'[u])
  BY <1>1, MarksAssumption, IdleIs DEF ListNodes, RestoreAt, Goto, world, conf, bk, mgr, hist, bounds, Step,
     Formed, Typed, Shape, JobOK, Active, Ops, Free, Threads
<1>5. StageShape' /\ ManagerShape' /\ WebShape'
  BY <1>1, MarksAssumption, IdleIs DEF ListNodes, RestoreAt, Goto, world, conf, bk, mgr, hist, bounds, Step,
     Formed, Typed, Shape, StageShape, ManagerShape, WebShape, BackupShape, LockShape, Ops, Free, Threads,
     Active
<1>6. BackupShape'
  BY <1>1, MarksAssumption, IdleIs DEF ListNodes, RestoreAt, Goto, world, conf, bk, mgr, hist, bounds, Step,
     Formed, Typed, Shape, StageShape, ManagerShape, WebShape, BackupShape, LockShape, Ops, Free, Threads,
     Active
<1>7. LockShape'
  BY <1>1, MarksAssumption, IdleIs DEF ListNodes, RestoreAt, Goto, world, conf, bk, mgr, hist, bounds, Step,
     Formed, Typed, Shape, StageShape, ManagerShape, WebShape, BackupShape, LockShape, Ops, Free, Threads,
     Active
<1> QED BY <1>2, <1>3, <1>4, <1>5, <1>6, <1>7 DEF Formed, Shape

LEMMA SetChainProfilesFormed == ASSUME Formed, SetChainProfiles PROVE Formed'
<1>1. Typed'
  BY MarksAssumption, IdleIs DEF SetChainProfiles, RestoreAt, RestoreEnds, disk, world, conf, mgr, bounds, Step,
     Return, Formed, Typed, DiskTyped, MemTyped, BackupTyped, ManagerTyped, HistoryTyped, Shape, StageShape,
     ManagerShape, WebShape, BackupShape, LockShape, Backups, Settings, Free, Threads, Active
<1>2. \A u \in Threads : JobOK(job'[u])
  BY MarksAssumption, IdleIs DEF SetChainProfiles, RestoreAt, RestoreEnds, disk, world, conf, mgr, bounds, Step,
     Return, Formed, Typed, Shape, JobOK, Active, Backups, Settings, Free, Threads
<1>3. StageShape' /\ ManagerShape' /\ WebShape'
  BY MarksAssumption, IdleIs DEF SetChainProfiles, RestoreAt, RestoreEnds, disk, world, conf, mgr, bounds, Step,
     Return, Formed, Typed, Shape, StageShape, ManagerShape, WebShape, BackupShape, LockShape, Backups,
     Settings, Free, Threads, Active
<1>4. BackupShape'
  BY MarksAssumption, IdleIs DEF SetChainProfiles, RestoreAt, RestoreEnds, disk, world, conf, mgr, bounds, Step,
     Return, Formed, Typed, Shape, StageShape, ManagerShape, WebShape, BackupShape, LockShape, Backups,
     Settings, Free, Threads, Active
<1>5. LockShape'
  BY MarksAssumption, IdleIs DEF SetChainProfiles, RestoreAt, RestoreEnds, disk, world, conf, mgr, bounds, Step,
     Return, Formed, Typed, Shape, StageShape, ManagerShape, WebShape, BackupShape, LockShape, Backups,
     Settings, Free, Threads, Active
<1> QED BY <1>1, <1>2, <1>3, <1>4, <1>5 DEF Formed, Shape

LEMMA RestoreFailsLateFormed == ASSUME Formed, RestoreFailsLate PROVE Formed'
<1>1. op' \in [Threads -> Ops]
  BY MarksAssumption, IdleIs, OpMoves DEF RestoreFailsLate, RestoreAt, Faulty, Goto, disk, world, conf, bk, mgr,
     hist, Step, Formed, Typed, Points, Threads, Ops, Free, Active
<1>2. Typed'
  BY MarksAssumption, IdleIs, <1>1 DEF RestoreFailsLate, RestoreAt, Faulty, Goto, disk, world, conf, bk, mgr,
     hist, Step, Formed, Typed, DiskTyped, MemTyped, BackupTyped, ManagerTyped, HistoryTyped, Shape, StageShape,
     ManagerShape, WebShape, BackupShape, LockShape, Ops, Free, Threads, Active
<1>3. \A u \in Threads : JobOK(job'[u])
  BY MarksAssumption, IdleIs DEF RestoreFailsLate, RestoreAt, Faulty, Goto, disk, world, conf, bk, mgr, hist,
     Step, Formed, Typed, Shape, JobOK, Active, Ops, Free, Threads
<1>4. StageShape' /\ ManagerShape' /\ WebShape'
  BY MarksAssumption, IdleIs DEF RestoreFailsLate, RestoreAt, Faulty, Goto, disk, world, conf, bk, mgr, hist,
     Step, Formed, Typed, Shape, StageShape, ManagerShape, WebShape, BackupShape, LockShape, Ops, Free, Threads,
     Active
<1>5. BackupShape'
  BY MarksAssumption, IdleIs DEF RestoreFailsLate, RestoreAt, Faulty, Goto, disk, world, conf, bk, mgr, hist,
     Step, Formed, Typed, Shape, StageShape, ManagerShape, WebShape, BackupShape, LockShape, Ops, Free, Threads,
     Active
<1>6. LockShape'
  BY MarksAssumption, IdleIs DEF RestoreFailsLate, RestoreAt, Faulty, Goto, disk, world, conf, bk, mgr, hist,
     Step, Formed, Typed, Shape, StageShape, ManagerShape, WebShape, BackupShape, LockShape, Ops, Free, Threads,
     Active
<1> QED BY <1>1, <1>2, <1>3, <1>4, <1>5, <1>6 DEF Formed, Shape

LEMMA PutFileBackFormed == ASSUME Formed, PutFileBack PROVE Formed'
<1>1. rs.file \in Contents \cup {Short, Mixed}
  BY DEF Formed, Typed, BackupTyped, Restores, Shape, BackupShape, PutFileBack, RestoreAt, Step
<1>2. /\ PutBack(rs.file) \in Jobs /\ JobOK(PutBack(rs.file)) /\ PutBack(rs.file).at = "start"
      /\ PutBack(rs.file).part = "putback"
  BY <1>1, PutBackIs
<1>3. op' \in [Threads -> Ops]
  BY <1>2, MarksAssumption, IdleIs, OpMoves DEF PutFileBack, RestoreAt, Start, Goto, disk, world, conf, bk, mgr,
     bounds, Step, Formed, Typed, Points, Threads, Ops, Free, Active
<1>4. Typed'
  BY <1>2, MarksAssumption, IdleIs, <1>3 DEF PutFileBack, RestoreAt, Start, Goto, disk, world, conf, bk, mgr,
     bounds, Step, Formed, Typed, DiskTyped, MemTyped, BackupTyped, ManagerTyped, HistoryTyped, Shape,
     StageShape, ManagerShape, WebShape, BackupShape, LockShape, Ops, Free, Threads, Active
<1>5. \A u \in Threads : JobOK(job'[u])
  BY <1>2, MarksAssumption, IdleIs DEF PutFileBack, RestoreAt, Start, Goto, disk, world, conf, bk, mgr, bounds,
     Step, Formed, Typed, Shape, JobOK, Active, Ops, Free, Threads
<1>6. StageShape' /\ ManagerShape' /\ WebShape'
  BY <1>2, MarksAssumption, IdleIs DEF PutFileBack, RestoreAt, Start, Goto, disk, world, conf, bk, mgr, bounds,
     Step, Formed, Typed, Shape, StageShape, ManagerShape, WebShape, BackupShape, LockShape, Ops, Free, Threads,
     Active
<1>7. BackupShape'
  BY <1>2, MarksAssumption, IdleIs DEF PutFileBack, RestoreAt, Start, Goto, disk, world, conf, bk, mgr, bounds,
     Step, Formed, Typed, Shape, StageShape, ManagerShape, WebShape, BackupShape, LockShape, Ops, Free, Threads,
     Active
<1>8. LockShape'
  BY <1>2, MarksAssumption, IdleIs DEF PutFileBack, RestoreAt, Start, Goto, disk, world, conf, bk, mgr, bounds,
     Step, Formed, Typed, Shape, StageShape, ManagerShape, WebShape, BackupShape, LockShape, Ops, Free, Threads,
     Active
<1> QED BY <1>3, <1>4, <1>5, <1>6, <1>7, <1>8 DEF Formed, Shape

LEMMA PutStoreBackFormed == ASSUME Formed, PutStoreBack PROVE Formed'
<1>1. Typed'
  BY MarksAssumption, IdleIs DEF PutStoreBack, RestoreAt, Saved, Unsaved, Done, Faulty, RestoreEnds, world,
     conf, mgr, Step, Return, Formed, Typed, DiskTyped, MemTyped, BackupTyped, ManagerTyped, HistoryTyped,
     Shape, StageShape, ManagerShape, WebShape, BackupShape, LockShape, Restores, Free, Threads, Active
<1>2. \A u \in Threads : JobOK(job'[u])
  BY MarksAssumption, IdleIs DEF PutStoreBack, RestoreAt, Saved, Unsaved, Done, Faulty, RestoreEnds, world,
     conf, mgr, Step, Return, Formed, Typed, Shape, JobOK, Active, Restores, Free, Threads
<1>3. StageShape' /\ ManagerShape' /\ WebShape'
  BY MarksAssumption, IdleIs DEF PutStoreBack, RestoreAt, Saved, Unsaved, Done, Faulty, RestoreEnds, world,
     conf, mgr, Step, Return, Formed, Typed, Shape, StageShape, ManagerShape, WebShape, BackupShape, LockShape,
     Restores, Free, Threads, Active
<1>4. BackupShape'
  BY MarksAssumption, IdleIs DEF PutStoreBack, RestoreAt, Saved, Unsaved, Done, Faulty, RestoreEnds, world,
     conf, mgr, Step, Return, Formed, Typed, Shape, StageShape, ManagerShape, WebShape, BackupShape, LockShape,
     Restores, Free, Threads, Active
<1>5. LockShape'
  BY MarksAssumption, IdleIs DEF PutStoreBack, RestoreAt, Saved, Unsaved, Done, Faulty, RestoreEnds, world,
     conf, mgr, Step, Return, Formed, Typed, Shape, StageShape, ManagerShape, WebShape, BackupShape, LockShape,
     Restores, Free, Threads, Active
<1> QED BY <1>1, <1>2, <1>3, <1>4, <1>5 DEF Formed, Shape

\* ApplyRestoredConfig, of what is restored or of what was there before.
LEMMA ApplyBackupFormed ==
    ASSUME Formed, NEW c \in Configs, NEW pc, NEW after, ApplyBackup(c, pc, after), op["backup"].name = "restore",
           op["backup"].pc \in {"toapply", "toreapply"}, <<pc, after>> \in {<<"apply", "list">>, <<"reapply", "putfile">>}
    PROVE  Formed'
<1>1. stage = "serving" /\ mem \in Configs /\ "backup" \in Threads /\ job["backup"] \in Jobs
  BY DEF Formed, Typed, MemTyped, Shape, StageShape, Free, NoOp, Threads
<1>2. /\ op \in [Threads -> Ops] /\ job \in [Threads -> Jobs] /\ pc \in Points /\ after \in Points
      /\ <<pc, after>> = <<"apply", "list">> \/ <<pc, after>> = <<"reapply", "putfile">>
  BY DEF Formed, Typed, Points
<1>3. c # None /\ c.settings \in Settings
  BY ConfigIs
<1>4. reloadMu = None /\ UNCHANGED <<disk, world, stage, bk, hist, bounds>>
  BY DEF ApplyBackup
<1>5. UNCHANGED <<yaml, txt, pool, refuses, taken, stage, dav, archive, rs, disturbed, cut, putBack, before, outcome, faults>>
  BY <1>4 DEF disk, world, bk, hist, bounds
<1>6. CASE c.nodes = <<>>
  <2>1. /\ mem' = c /\ ran' = None /\ web' = c.settings /\ synced' = TRUE
        /\ op' = [op EXCEPT !["backup"].pc = after] /\ UNCHANGED <<undo, reloadMu, target, job>>
    BY <1>6 DEF ApplyBackup, Goto, mgr
  <2>2. op' \in [Threads -> Ops]
    BY <1>1, <1>2, <2>1, OpMoves
  <2>3. Typed'
    BY <1>1, <1>3, <1>5, <2>1, <2>2 DEF Formed, Typed, DiskTyped, MemTyped, BackupTyped, ManagerTyped, HistoryTyped
  <2>4. /\ op'["manager"] = op["manager"] /\ op'["web"] = op["web"] /\ op'["backup"].name = "restore"
        /\ op'["backup"].pc = after /\ job["backup"] = Idle /\ op["backup"].pc \notin {"apply", "reapply", "rollback"}
    <3>1. job["backup"] = Idle /\ op["backup"].pc \notin {"apply", "reapply", "rollback"}
      BY DEF Formed, Shape, BackupShape
    <3> QED BY <1>1, <1>2, <2>1, <3>1 DEF Threads, Ops
  <2>5. \A u \in Threads : JobOK(job'[u])
    BY <2>1 DEF Formed, Shape
  <2>6. StageShape' /\ ManagerShape' /\ WebShape'
    BY <1>1, <1>4, <1>5, <2>1, <2>4 DEF Formed, Shape, StageShape, ManagerShape, WebShape, Free
  <2>7. BackupShape'
    BY <1>1, <1>2, <1>5, <2>1, <2>4 DEF Formed, Shape, BackupShape
  <2>8. LockShape'
    <3>1. \A u \in Threads : op'[u].pc = "rollback" => ran' # None
      <4>1. reloadMu # "manager" /\ reloadMu # "backup"
        BY <1>4, MarksAssumption
      <4>2. op["manager"].pc # "rollback" /\ op["web"].pc # "rollback"
        BY <4>1, IdleIs DEF Formed, Shape, LockShape, WebShape, Free
      <4> QED BY <1>2, <2>4, <4>2 DEF Threads
    <3>2. reloadMu' = reloadMu /\ target' = target /\ reloadMu # "backup" /\ after \notin {"apply", "reapply", "rollback"}
      BY <1>2, <1>4, <2>1, MarksAssumption
    <3> QED BY <2>4, <3>1, <3>2 DEF Formed, Shape, LockShape
  <2> QED BY <2>3, <2>5, <2>6, <2>7, <2>8 DEF Formed, Shape
<1>7. CASE c.nodes # <<>>
  <2>1. /\ reloadMu' = "backup" /\ op' = [op EXCEPT !["backup"].pc = pc]
        /\ IF ran # None THEN Packs("backup", c) ELSE StartsAsIs("backup", c)
        /\ Becomes(c) /\ UNCHANGED <<web, ran, undo>>
    BY <1>7 DEF ApplyBackup, Goto, Lock
  <2>2. op' \in [Threads -> Ops]
    BY <1>1, <1>2, <2>1, OpMoves
  <2>3. /\ target' \in Configs /\ target' # None
        /\ job' = [job EXCEPT !["backup"] = job'["backup"]] /\ job'["backup"] \in Jobs /\ JobOK(job'["backup"])
        /\ job'["backup"].at # "none" /\ job'["backup"].part \in {"none", "nodes"}
    <3>1. CASE ran # None
      <4>1. target' \in Configs /\ job' = [job EXCEPT !["backup"] = SaveNodes(target')]
        BY <2>1, <3>1, PacksDoes
      <4>2. /\ SaveNodes(target') \in Jobs /\ JobOK(SaveNodes(target')) /\ SaveNodes(target').at = "start"
            /\ SaveNodes(target').part = "nodes"
        BY <4>1, SaveNodesIs
      <4>3. job'["backup"] = SaveNodes(target')
        BY <1>1, <1>2, <4>1
      <4> QED BY <4>1, <4>2, <4>3, ConfigIs
    <3>2. CASE ran = None
      <4>1. target' = c /\ job' = [job EXCEPT !["backup"] = [Idle EXCEPT !.at = "done"]]
        BY <2>1, <3>2 DEF StartsAsIs, Start
      <4>2. job'["backup"] = [Idle EXCEPT !.at = "done"]
        BY <1>1, <1>2, <4>1
      <4> QED BY <1>3, <4>1, <4>2, IdleIs
    <3> QED BY <3>1, <3>2
  <2>4. mem' \in Configs /\ synced' \in BOOLEAN
    <3>1. mem' \in Configs
      BY <1>1, <2>1 DEF Becomes
    <3>2. synced' \in BOOLEAN
      BY <2>1 DEF Becomes
    <3> QED BY <3>1, <3>2
  <2>5. job' \in [Threads -> Jobs] /\ \A u \in Threads : u # "backup" => job'[u] = job[u]
    BY <1>1, <1>2, <2>3
  <2>6. Typed'
    BY <1>1, <1>5, <2>1, <2>2, <2>3, <2>4, <2>5
    DEF Formed, Typed, DiskTyped, MemTyped, BackupTyped, ManagerTyped, HistoryTyped
  <2>7. /\ op'["manager"] = op["manager"] /\ op'["web"] = op["web"] /\ op'["backup"].name = "restore"
        /\ op'["backup"].pc = pc
    BY <1>1, <1>2, <2>1 DEF Threads, Ops
  <2>8. \A u \in Threads : JobOK(job'[u])
    BY <2>3, <2>5 DEF Formed, Shape
  <2>9. StageShape' /\ ManagerShape' /\ WebShape' /\ BackupShape' /\ LockShape'
    BY <1>1, <1>2, <1>4, <1>5, <2>1, <2>3, <2>5, <2>7, MarksAssumption
    DEF Formed, Shape, StageShape, ManagerShape, WebShape, BackupShape, LockShape, Free, Threads
  <2> QED BY <2>6, <2>8, <2>9 DEF Formed, Shape
<1> QED BY <1>6, <1>7

LEMMA ApplyRestoredFormed == ASSUME Formed, ApplyRestored PROVE Formed'
<1>1. op["backup"].name = "restore" /\ op["backup"].pc = "toapply" /\ ApplyBackup(Restored, "apply", "list")
  BY DEF ApplyRestored, RestoreAt, Step
<1>2. archive \in Backups
  BY <1>1 DEF Formed, Typed, BackupTyped, Shape, BackupShape
<1> QED BY <1>1, <1>2, RestoredIs, ApplyBackupFormed

LEMMA ReapplyFormed == ASSUME Formed, Reapply PROVE Formed'
<1>1. op["backup"].name = "restore" /\ op["backup"].pc = "toreapply" /\ ApplyBackup(rs.cfg, "reapply", "putfile")
  BY DEF Reapply, RestoreAt, Step
<1>2. rs.cfg \in Configs
  BY <1>1 DEF Formed, Shape, BackupShape
<1> QED BY <1>1, <1>2, ApplyBackupFormed

\* At the beginning.
LEMMA InitFormed == ASSUME Init PROVE Formed
<1>1. PICK d \in Beginnings : yaml = d.yaml /\ txt = d.txt /\ pool = d.pool /\ refuses = d.refuses
  BY DEF Init
<1>2. DiskTyped /\ pool \in Seq(Members) /\ refuses \in BOOLEAN
  BY <1>1, BeginningsAssumption DEF DiskTyped
<1>3. /\ job = [t \in Threads |-> Idle] /\ op = [t \in Threads |-> NoOp] /\ stage = "off" /\ mem = None
      /\ reloadMu = None /\ target = None /\ ran = None
  BY DEF Init
<1>4. op \in [Threads -> Ops] /\ job \in [Threads -> Jobs]
  BY <1>3, IdleIs
<1>5. MemTyped /\ BackupTyped /\ ManagerTyped /\ HistoryTyped
  <2>1. MemTyped /\ BackupTyped
    BY <1>3, IdleIs DEF Init, MemTyped, BackupTyped
  <2>2. ManagerTyped
    BY <1>3 DEF Init, ManagerTyped
  <2>3. disturbed = FALSE /\ cut = FALSE /\ putBack = FALSE /\ faults = 0
    BY DEF Init
  <2>4. HistoryTyped
    BY <1>2, <2>3 DEF HistoryTyped
  <2> QED BY <2>1, <2>2, <2>4
<1>6. Typed
  BY <1>2, <1>4, <1>5 DEF Typed
<1>7. Shape
  BY <1>3, IdleIs, MarksAssumption
  DEF Shape, StageShape, ManagerShape, WebShape, BackupShape, LockShape, Free, Threads
<1> QED BY <1>6, <1>7 DEF Formed

\* The pages of the WebUI edit settings.
LEMMA SettingsEdits ==
    ASSUME Formed, UpdateSettings \/ UpdateSubscriptions
    PROVE  \E settings \in Settings : EditSettings(settings)
<1>1. web \in Settings
  BY DEF Formed, Typed, MemTyped
<1>2. [web EXCEPT !.ui = @ + 1] \in Settings
  BY <1>1 DEF Settings
<1>3. (~web.subs) \in BOOLEAN
  OBVIOUS
<1>4. \A b \in BOOLEAN : [web EXCEPT !.subs = b] \in Settings
  BY <1>1 DEF Settings
<1>5. [web EXCEPT !.subs = ~@] \in Settings
  BY <1>3, <1>4
<1> QED BY <1>2, <1>5 DEF UpdateSettings, UpdateSubscriptions

\* Every step of the program.
LEMMA FormedNext == ASSUME Formed, [Next]_vars PROVE Formed'
<1>1. CASE ProgramNext
  BY <1>1, LoadFormed, StopFormed, FilterFormed, NoPoolFormed, PackingSavedFormed, PackingFailsFormed,
     SyncPortsFormed, SyncFailsFormed
  DEF ProgramNext
<1>2. CASE ManagerNext
  BY <1>2, CreateNodeFormed, DeleteNodeFormed, EditSavedFormed, EditFailsFormed, EditPoolFormed,
     ReloadFormed, ReloadPoolFormed, EnterEmptyFormed
  DEF ManagerNext
<1>3. CASE WebNext
  BY <1>3, SettingsEdits, EditSettingsFormed, SettingsEndFormed DEF WebNext
<1>4. CASE BackupNext
  BY <1>4, SetWebDAVFormed, WebDAVSavedFormed, WebDAVFailsFormed, CreateBackupFormed, SnapshotStoreFormed,
     RestoreFormed, RestoreSavedFormed, RestoreUnsavedFormed, ReplaceStoreFormed, ReplaceStoreFailsFormed,
     ApplyRestoredFormed, ReapplyFormed, ListNodesFormed, SetChainProfilesFormed, RestoreFailsLateFormed,
     PutFileBackFormed, PutStoreBackFormed
  DEF BackupNext
<1>5. ASSUME NEW t \in Threads, Save(t) \/ ApplyNext(t) PROVE Formed'
  BY <1>5, FormedSave, MoveConflictsFormed, AppliedFormed, RollBackFormed, RolledBackFormed, StartFailsFormed
  DEF ApplyNext
<1>6. CASE UNCHANGED vars
  <2>1. UNCHANGED <<yaml, txt, pool, refuses, taken, stage, mem, web, synced, ran, dav, archive, rs>>
    BY <1>6 DEF vars, disk, world, conf, bk
  <2>2. UNCHANGED <<undo, reloadMu, target, job, op, disturbed, cut, putBack, before, outcome, faults>>
    BY <1>6 DEF vars, mgr, hist, bounds
  <2> QED BY <2>1, <2>2 DEF Formed, Typed, DiskTyped, MemTyped, BackupTyped, ManagerTyped, HistoryTyped, Shape,
        StageShape, ManagerShape, WebShape, BackupShape, LockShape, Free
<1> QED BY <1>1, <1>2, <1>3, <1>4, <1>5, <1>6 DEF Next

\* Files, store and memory keep their form, and operations, saves and lock
\* belong together, whatever is done, fails or is cut off.
THEOREM AlwaysFormed == Spec => []Formed
<1>1. Init => Formed
  BY InitFormed
<1>2. Formed /\ [Next]_vars => Formed'
  BY FormedNext
<1> QED BY <1>1, <1>2, PTL DEF Spec

\* The form of everything contains the types of the files, the pool and memory.
LEMMA FormedIsTypeOK == ASSUME Formed PROVE TypeOK
  BY ConfigIs DEF Formed, Typed, DiskTyped, MemTyped, ManagerTyped, TypeOK

\* config.yaml and nodes.txt, the pool and the configuration in memory keep
\* their form through saves, starts, reloads and restores.
THEOREM TypeCorrect == Spec => []TypeOK
<1>1. Formed => TypeOK
  BY FormedIsTypeOK
<1> QED BY <1>1, AlwaysFormed, PTL

-----------------------------------------------------------------------------
(* FilesAreWhole.                                                          *)

\* Only saves write files: any other step leaves them, and begins saves or ends
\* them; one that was at its file has then been cut off.
JobMoves(t) ==
    \/ job'[t] = job[t]
    \/ /\ job[t].at = "fill" => cut'
       /\ job'[t].at \notin {"rename", "fill"}
       /\ job'[t].part = "putback" => putBack' /\ job'[t].content = rs.file
QuietStep ==
    /\ UNCHANGED <<yaml, txt, refuses>>
    /\ disturbed => disturbed'
    /\ cut => cut'
    /\ putBack => putBack'
    /\ faults' \in {faults, faults + 1}
    /\ rs' = rs \/ rs' = NoRestore \/ Restore
    /\ stage' = "off" => stage = "off" \/ rs' = NoRestore
    /\ \A t \in Threads : JobMoves(t)

\* Saves begin with the file that is read, or with nodes.txt.
LEMMA StartsAre ==
    /\ \A c : SaveNodes(c).at = "start" /\ SaveNodes(c).part = "nodes"
    /\ \A c : SaveFull(c).at = "start" /\ SaveFull(c).part = "whole"
    /\ \A s : SaveSettings(s).at = "start" /\ SaveSettings(s).part = "settings"
    /\ \A x : PutBack(x).at = "start" /\ PutBack(x).part = "putback" /\ PutBack(x).content = x
  BY DEF SaveNodes, SaveFull, SaveSettings, PutBack, SaveJob

\* A thread that is free has no save.
LEMMA FreeIsIdle ==
    ASSUME Formed
    PROVE  /\ Free("manager") /\ stage # "packing" => job["manager"] = Idle
           /\ Free("web") => job["web"] = Idle
           /\ Free("backup") => job["backup"] = Idle
           /\ op["backup"].pc \in {"toapply", "toreapply", "putfile"} => job["backup"] = Idle
           /\ Idle.at = "none"
  BY IdleIs DEF Formed, Shape, StageShape, ManagerShape, WebShape, BackupShape, Free

\* A file that has been opened for writing in place.
Filling(t, file) == job[t].at = "fill" /\ Head(job[t].files) = file
Explained(file) == On(file) = Short => cut \/ putBack \/ \E t \in Threads : Filling(t, file)

\* Which file a save is at and what it may put there.
FilesInv ==
    /\ stage = "off" => rs = NoRestore
    /\ \A t \in Threads : job[t].at = "fill" => refuses \/ job[t].part = "putback"
    /\ \A t \in Threads : job[t].part = "putback" => putBack
    /\ \A t \in Threads : job[t].part = "putback" /\ job[t].content = Mixed => disturbed
    /\ rs.file = Mixed => disturbed
    /\ ~disturbed => \A t, u \in Threads : Writing(t) /\ Writing(u) => t = u
    /\ ~disturbed => \A t \in Threads : Filling(t, "yaml") => yaml = Short
    /\ ~refuses /\ ~putBack => Whole(yaml) /\ txt \notin {Short, Mixed}
    /\ Explained("yaml") /\ Explained("txt")
    /\ yaml = Mixed => disturbed

\* A step that is neither a start nor one of a save.
LEMMA QuietSteps ==
    ASSUME Formed, Next, ~Load, \A t \in Threads : ~Save(t)
    PROVE  QuietStep
<1>1. CASE Stop
  BY <1>1, MarksAssumption DEF Stop, Gone, disk, bounds, Threads, QuietStep, JobMoves, Idle, NoRestore, Formed,
     Typed, Faulty
<1>2. CASE Filter
  <2>1. job' = [job EXCEPT !["manager"] = SaveNodes(mem')] /\ stage = "loaded" /\ stage' = "packing"
    BY <1>2, FilterDoes DEF Filter
  <2>2. UNCHANGED <<yaml, txt, refuses, disturbed, cut, putBack, rs, faults>>
    BY <1>2 DEF Filter, disk, world, bk, hist, bounds
  <2>3. job["manager"] = Idle
    BY <2>1, FreeIsIdle DEF Formed, Shape, StageShape
  <2> QED BY <2>1, <2>2, <2>3, StartsAre, FreeIsIdle DEF QuietStep, JobMoves, Formed, Typed
<1>3. CASE NoPool
  BY <1>3, MarksAssumption DEF NoPool, Serve, disk, world, bk, mgr, hist, bounds, QuietStep, JobMoves, Threads,
     Idle, NoRestore, Formed, Typed, Faulty
<1>4. CASE PackingSaved
  BY <1>4, MarksAssumption DEF PackingSaved, Saved, Done, disk, world, conf, bk, mgr, hist, bounds, QuietStep,
     JobMoves, Threads, Idle, NoRestore, Formed, Typed, Faulty
<1>5. CASE PackingFails
  BY <1>5, MarksAssumption DEF PackingFails, Unsaved, Gone, disk, world, bounds, Threads, QuietStep, JobMoves,
     Idle, NoRestore, Formed, Typed, Faulty
<1>6. CASE SyncPorts
  BY <1>6, MarksAssumption DEF SyncPorts, Serve, world, bk, mgr, hist, bounds, QuietStep, JobMoves, Threads,
     Idle, NoRestore, Formed, Typed, Faulty
<1>7. CASE SyncFails
  BY <1>7, MarksAssumption DEF SyncFails, Faulty, Gone, disk, world, Threads, QuietStep, JobMoves, Idle,
     NoRestore, Formed, Typed, bounds
<1>8. ASSUME NEW r \in Routes, CreateNode(r) PROVE QuietStep
  BY <1>8, MarksAssumption, StartsAre, FreeIsIdle DEF CreateNode, Edit, Node, Begin, Lock, Start, disk, world,
     bk, Free, Crosses, Others, Restoring, Threads, QuietStep, JobMoves, Idle, NoRestore, Formed, Typed, Faulty,
     bounds
<1>9. ASSUME NEW r \in Routes, DeleteNode(r) PROVE QuietStep
  BY <1>9, MarksAssumption, StartsAre, FreeIsIdle DEF DeleteNode, Edit, Begin, Lock, Start, disk, world, bk,
     Free, Crosses, Others, Restoring, Threads, QuietStep, JobMoves, Idle, NoRestore, Formed, Typed, Faulty,
     bounds
<1>10. CASE EditSaved
  BY <1>10, MarksAssumption DEF EditSaved, Editing, Saved, Goto, Done, Unlock, disk, world, conf, bk, hist,
     bounds, QuietStep, JobMoves, Threads, Idle, NoRestore, Formed, Typed, Faulty
<1>11. CASE EditFails
  BY <1>11, MarksAssumption DEF EditFails, Editing, Unsaved, Undone, Return, Done, Unlock, disk, world, bk,
     hist, bounds, QuietStep, JobMoves, Threads, Idle, NoRestore, Formed, Typed, Faulty
<1>12. CASE EditPool
  BY <1>12, MarksAssumption DEF EditPool, Return, Restoring, world, conf, bk, mgr, bounds, QuietStep, JobMoves,
     Threads, Idle, NoRestore, Formed, Typed, Faulty
<1>13. CASE Reload
  BY <1>13, MarksAssumption, StartsAre, FreeIsIdle DEF Reload, Begin, Lock, Packs, disk, world, conf, bk, Free,
     Crosses, Start, Others, Restoring, Threads, QuietStep, JobMoves, Idle, NoRestore, Formed, Typed, Faulty,
     bounds
<1>14. CASE ReloadPool
  BY <1>14, MarksAssumption DEF ReloadPool, Step, Return, Restoring, world, conf, bk, mgr, bounds, QuietStep,
     JobMoves, Threads, Idle, NoRestore, Formed, Typed, Faulty
<1>15. CASE EnterEmpty
  BY <1>15, MarksAssumption DEF EnterEmpty, Free, disk, world, bk, mgr, hist, QuietStep, JobMoves, Threads,
     Idle, NoRestore, Formed, Typed, Faulty, bounds
<1>16. ASSUME NEW settings \in Settings, EditSettings(settings) PROVE QuietStep
  BY <1>16, MarksAssumption, StartsAre, FreeIsIdle DEF EditSettings, Begin, Start, disk, world, bk, mgr, Free,
     Crosses, Others, Restoring, Threads, QuietStep, JobMoves, Idle, NoRestore, Formed, Typed, Faulty, bounds
<1>17. CASE SettingsEnd
  BY <1>17, MarksAssumption DEF SettingsEnd, Step, Saved, Unsaved, Return, Done, disk, world, conf, bk, mgr,
     hist, bounds, QuietStep, JobMoves, Threads, Idle, NoRestore, Formed, Typed, Faulty
<1>18. CASE SetWebDAV
  BY <1>18, MarksAssumption, StartsAre, FreeIsIdle DEF SetWebDAV, Begin, Start, disk, world, conf, bk, mgr,
     Free, Crosses, Others, Restoring, Threads, QuietStep, JobMoves, Idle, NoRestore, Formed, Typed, Faulty,
     bounds
<1>19. CASE WebDAVSaved
  BY <1>19, MarksAssumption DEF WebDAVSaved, Step, Saved, Return, Done, disk, world, conf, mgr, hist, bounds,
     QuietStep, JobMoves, Threads, Idle, NoRestore, Formed, Typed, Faulty
<1>20. CASE WebDAVFails
  BY <1>20, MarksAssumption DEF WebDAVFails, Step, Unsaved, Return, Done, disk, world, conf, bk, mgr, hist,
     bounds, QuietStep, JobMoves, Threads, Idle, NoRestore, Formed, Typed, Faulty
<1>21. CASE CreateBackup
  BY <1>21, MarksAssumption DEF CreateBackup, Begin, disk, world, conf, bk, mgr, Free, Crosses, Others,
     Restoring, Threads, QuietStep, JobMoves, Idle, NoRestore, Formed, Typed, Faulty, bounds
<1>22. CASE SnapshotStore
  BY <1>22, MarksAssumption DEF SnapshotStore, Step, Return, disk, world, conf, mgr, hist, bounds, QuietStep,
     JobMoves, Threads, Idle, NoRestore, Formed, Typed, Faulty
<1>23. CASE Restore
  BY <1>23, MarksAssumption, StartsAre, FreeIsIdle DEF Restore, Begin, Remembered, Start, disk, world, conf,
     mgr, Free, Crosses, Others, Restoring, Threads, QuietStep, JobMoves, Idle, NoRestore, Formed, Typed,
     Faulty, bounds
<1>24. CASE RestoreSaved
  BY <1>24, MarksAssumption DEF RestoreSaved, RestoreAt, Saved, Goto, Done, disk, world, conf, bk, mgr, hist,
     bounds, Step, QuietStep, JobMoves, Threads, Idle, NoRestore, Formed, Typed, Faulty
<1>25. CASE RestoreUnsaved
  BY <1>25, MarksAssumption DEF RestoreUnsaved, RestoreAt, Unsaved, RestoreEnds, Done, disk, world, conf, mgr,
     bounds, Step, Return, QuietStep, JobMoves, Threads, Idle, NoRestore, Formed, Typed, Faulty
<1>26. CASE ReplaceStore
  BY <1>26, MarksAssumption DEF ReplaceStore, RestoreAt, Goto, world, conf, bk, mgr, hist, bounds, Step,
     QuietStep, JobMoves, Threads, Idle, NoRestore, Formed, Typed, Faulty
<1>27. CASE ReplaceStoreFails
  BY <1>27, MarksAssumption DEF ReplaceStoreFails, RestoreAt, Faulty, Goto, disk, world, conf, bk, mgr, hist,
     Step, QuietStep, JobMoves, Threads, Idle, NoRestore, Formed, Typed, bounds
<1>28. CASE ApplyRestored
  BY <1>28, MarksAssumption, StartsAre, FreeIsIdle DEF ApplyRestored, RestoreAt, ApplyBackup, Step, Goto, mgr,
     Lock, Packs, StartsAsIs, Becomes, disk, world, bk, hist, bounds, Start, QuietStep, JobMoves, Threads, Idle,
     NoRestore, Formed, Typed, Faulty
<1>29. CASE Reapply
  BY <1>29, MarksAssumption, StartsAre, FreeIsIdle DEF Reapply, RestoreAt, ApplyBackup, Step, Goto, mgr, Lock,
     Packs, StartsAsIs, Becomes, disk, world, bk, hist, bounds, Start, QuietStep, JobMoves, Threads, Idle,
     NoRestore, Formed, Typed, Faulty
<1>30. CASE ListNodes
  BY <1>30, MarksAssumption DEF ListNodes, RestoreAt, Goto, world, conf, bk, mgr, hist, bounds, Step, QuietStep,
     JobMoves, Threads, Idle, NoRestore, Formed, Typed, Faulty
<1>31. CASE SetChainProfiles
  BY <1>31, MarksAssumption DEF SetChainProfiles, RestoreAt, RestoreEnds, disk, world, conf, mgr, bounds, Step,
     Return, QuietStep, JobMoves, Threads, Idle, NoRestore, Formed, Typed, Faulty
<1>32. CASE RestoreFailsLate
  BY <1>32, MarksAssumption DEF RestoreFailsLate, RestoreAt, Faulty, Goto, disk, world, conf, bk, mgr, hist,
     Step, QuietStep, JobMoves, Threads, Idle, NoRestore, Formed, Typed, bounds
<1>33. CASE PutFileBack
  BY <1>33, MarksAssumption, StartsAre, FreeIsIdle DEF PutFileBack, RestoreAt, Start, Goto, disk, world, conf,
     bk, mgr, bounds, Step, QuietStep, JobMoves, Threads, Idle, NoRestore, Formed, Typed, Faulty
<1>34. CASE PutStoreBack
  BY <1>34, MarksAssumption DEF PutStoreBack, RestoreAt, Saved, Unsaved, Done, Faulty, RestoreEnds, world, conf,
     mgr, Step, Return, QuietStep, JobMoves, Threads, Idle, NoRestore, Formed, Typed, bounds
<1>35. ASSUME NEW t \in Threads, MoveConflicts(t) PROVE QuietStep
  BY <1>35, MarksAssumption, StartsAre, FreeIsIdle DEF MoveConflicts, Applying, Saved, Start, Becomes, disk,
     world, bk, hist, bounds, QuietStep, JobMoves, Threads, Idle, NoRestore, Formed, Typed, Faulty
<1>36. ASSUME NEW t \in Threads, Applied(t) PROVE QuietStep
  BY <1>36, MarksAssumption DEF Applied, Applying, Saved, Unlock, Done, Goto, disk, world, bk, hist, bounds,
     QuietStep, JobMoves, Threads, Idle, NoRestore, Formed, Typed, Faulty
<1>37. ASSUME NEW t \in Threads, RollBack(t) PROVE QuietStep
  BY <1>37, MarksAssumption, StartsAre, FreeIsIdle DEF RollBack, Applying, Unsaved, Saved, Faulty, Start, Goto,
     disk, world, conf, bk, mgr, hist, QuietStep, JobMoves, Threads, Idle, NoRestore, Formed, Typed, bounds
<1>38. ASSUME NEW t \in Threads, RolledBack(t) PROVE QuietStep
  BY <1>38, MarksAssumption DEF RolledBack, Saved, Unsaved, Unlock, Done, ApplyError, disk, world, bk, hist,
     bounds, Goto, Return, QuietStep, JobMoves, Threads, Idle, NoRestore, Formed, Typed, Faulty
<1>39. ASSUME NEW t \in Threads, StartFails(t) PROVE QuietStep
  BY <1>39, MarksAssumption DEF StartFails, Applying, Unsaved, Saved, Faulty, Unlock, Done, ApplyError, disk,
     world, bk, hist, Goto, Return, QuietStep, JobMoves, Threads, Idle, NoRestore, Formed, Typed, bounds
<1>40. CASE ProgramNext
  BY <1>40, <1>1, <1>2, <1>3, <1>4, <1>5, <1>6, <1>7 DEF ProgramNext
<1>41. CASE ManagerNext
  BY <1>41, <1>8, <1>9, <1>10, <1>11, <1>12, <1>13, <1>14, <1>15 DEF ManagerNext
<1>42. CASE WebNext
  BY <1>42, SettingsEdits, <1>16, <1>17 DEF WebNext
<1>43. CASE BackupNext
  BY <1>43, <1>18, <1>19, <1>20, <1>21, <1>22, <1>23, <1>24, <1>25, <1>26, <1>27, <1>28, <1>29, <1>30, <1>31,
     <1>32, <1>33, <1>34 DEF BackupNext
<1>44. ASSUME NEW t \in Threads, ApplyNext(t) PROVE QuietStep
  BY <1>44, <1>35, <1>36, <1>37, <1>38, <1>39 DEF ApplyNext
<1>45. ASSUME NEW t \in Threads, Save(t) PROVE QuietStep
  BY <1>45
<1> QED BY <1>40, <1>41, <1>42, <1>43, <1>44, <1>45 DEF Next

\* They keep it.
LEMMA FilesQuiet == ASSUME Formed, FilesInv, QuietStep PROVE FilesInv'
<1>1. rs'.file = Mixed => rs.file = Mixed \/ yaml = Mixed
  BY MarksAssumption DEF QuietStep, NoRestore, Restore, Remembered
<1>2. stage' = "off" => rs' = NoRestore
  BY DEF QuietStep, FilesInv, Restore
<1>3. ASSUME NEW t \in Threads
      PROVE  /\ job'[t].at = "fill" => job'[t] = job[t]
             /\ Writing(t)' => Writing(t)
             /\ \A file : Filling(t, file)' => Filling(t, file)
             /\ \A file : Filling(t, file) => Filling(t, file)' \/ cut'
             /\ job'[t].part = "putback" => \/ job'[t] = job[t]
                                            \/ putBack' /\ job'[t].content = rs.file
  BY DEF QuietStep, JobMoves, Writing, Filling
<1>4. Explained("yaml")' /\ Explained("txt")'
  <2>1. ASSUME NEW file \in {"yaml", "txt"} PROVE Explained(file)'
    <3>1. On(file)' = On(file)
      BY DEF QuietStep, On
    <3>2. CASE cut' \/ putBack' \/ On(file) # Short
      BY <3>1, <3>2 DEF Explained
    <3>3. CASE ~cut' /\ ~putBack' /\ On(file) = Short
      <4>1. ~cut /\ ~putBack
        BY <3>3 DEF QuietStep
      <4>2. PICK t \in Threads : Filling(t, file)
        BY <3>3, <4>1 DEF FilesInv, Explained
      <4>3. Filling(t, file)'
        BY <1>3, <3>3, <4>2
      <4> QED BY <4>3 DEF Explained
    <3> QED BY <3>2, <3>3
  <2> QED BY <2>1
<1>5. UNCHANGED <<yaml, txt, refuses>> /\ (disturbed => disturbed') /\ (putBack => putBack')
  BY DEF QuietStep
<1>6. \A t \in Threads : job'[t].at = "fill" => refuses' \/ job'[t].part = "putback"
  BY <1>3, <1>5 DEF FilesInv
<1>7. \A t \in Threads : job'[t].part = "putback" => putBack' /\ (job'[t].content = Mixed => disturbed')
  BY <1>3, <1>5 DEF FilesInv
<1>8. ~disturbed' => \A t, u \in Threads : Writing(t)' /\ Writing(u)' => t = u
  BY <1>3, <1>5 DEF FilesInv
<1>9. ~disturbed' => \A t \in Threads : Filling(t, "yaml")' => yaml' = Short
  BY <1>3, <1>5 DEF FilesInv
<1>10. rs'.file = Mixed => disturbed'
  BY <1>1, <1>5 DEF FilesInv
<1>11. (~refuses' /\ ~putBack' => Whole(yaml)' /\ txt' \notin {Short, Mixed}) /\ (yaml' = Mixed => disturbed')
  BY <1>5 DEF FilesInv, Whole
<1> QED BY <1>2, <1>4, <1>6, <1>7, <1>8, <1>9, <1>10, <1>11 DEF FilesInv, Whole

\* So does a start, with no save under way.
LEMMA FilesLoad == ASSUME Formed, FilesInv, Load PROVE FilesInv'
<1>1. stage = "off" /\ yaml # Mixed /\ stage' = "loaded"
  BY DEF Load
<1>2. UNCHANGED <<yaml, txt, refuses, job, rs, cut, putBack>>
  BY DEF Load, disk, world
<1>3. rs = NoRestore /\ \A t \in Threads : job[t] = Idle
  BY <1>1 DEF FilesInv, Formed, Shape, StageShape, Threads
<1>4. \A t \in Threads : ~Writing(t)' /\ job'[t].at # "fill" /\ job'[t].part # "putback"
  BY <1>2, <1>3, IdleIs DEF Writing
<1>5. rs'.file # Mixed
  BY <1>2, <1>3, MarksAssumption DEF NoRestore
<1>6. Explained("yaml")' /\ Explained("txt")'
  BY <1>2 DEF FilesInv, Explained, Filling, On
<1>7. ~refuses' /\ ~putBack' => Whole(yaml)' /\ txt' \notin {Short, Mixed}
  BY <1>2 DEF FilesInv, Whole
<1> QED BY <1>1, <1>2, <1>4, <1>5, <1>6, <1>7 DEF FilesInv, Filling, Whole

\* Lines are among the routes.
LEMMA URIsAreRoutes == \A lines \in Seq(URIs) : lines \in Seq(Routes)
<1>1. URIs \subseteq Routes
  BY BareAssumption DEF URIs
<1> QED BY <1>1

\* What a save may put in a file.
LEMMA PreparedIs ==
    ASSUME Formed, FilesInv, NEW t \in Threads, job[t].at \in {"rename", "fill"}
    PROVE  /\ Head(job[t].files) \in {"yaml", "txt"}
           /\ job[t].part # "putback" => job[t].data \notin {Short, Mixed, None}
           /\ Head(job[t].files) = "txt" => job[t].part = "nodes"
           /\ job[t].part = "putback" => putBack /\ job[t].data = job[t].content
           /\ job[t].data = Mixed => disturbed
<1> DEFINE j == job[t]
<1>1. j \in Jobs /\ j.files # <<>> /\ JobOf(j) /\ Prepared(j)
  BY DEF Formed, Typed, Shape, JobOK, Active
<1>2. Head(j.files) \in {"yaml", "txt"}
  BY <1>1 DEF Jobs
<1>3. Head(j.files) = "txt" => j.part = "nodes"
  BY <1>1 DEF JobOf
<1>4. j.part # "putback" => j.data \in Contents \cup Seq(URIs)
  BY <1>1 DEF JobOf, Prepared
<1>5. j.part = "putback" => j.data = j.content
  BY <1>1, <1>2, <1>3 DEF Prepared
<1>6. \A x \in Contents \cup Seq(URIs) : x \notin {Short, Mixed, None}
  BY MarksAssumption, URIsAreRoutes
<1> QED BY <1>2, <1>3, <1>4, <1>5, <1>6 DEF FilesInv

LEMMA FilesSave == ASSUME Formed, FilesInv, NEW t \in Threads, Save(t) PROVE FilesInv'
<1> DEFINE j == job[t]
           file == Head(j.files)
<1>1. /\ Active(j) /\ job' = [job EXCEPT ![t] = job'[t]] /\ job'[t].part = j.part /\ job'[t].content = j.content
      /\ UNCHANGED <<refuses, taken, stage, rs, putBack>>
  BY SaveDoes DEF world, bk
<1>2. /\ \A u \in Threads : u # t => job'[u] = job[u] /\ Writing(u)' = Writing(u)
                                     /\ \A f : Filling(u, f)' = Filling(u, f)
      /\ (stage' = "off" => rs' = NoRestore) /\ t \in DOMAIN job /\ j \in Jobs
  <2>1. \A u \in Threads : u # t => job'[u] = job[u]
    BY <1>1 DEF Formed, Typed
  <2> QED BY <1>1, <2>1 DEF Writing, Filling, FilesInv, Formed, Typed
<1>3. file \in {"yaml", "txt"}
  BY <1>1 DEF Formed, Shape, Typed, JobOK, Jobs
<1>4. \A u \in Threads : job'[u].part = job[u].part /\ job'[u].content = job[u].content
  BY <1>1, <1>2
<1>5. ASSUME disturbed => disturbed', cut => cut',
             job'[t].at = "fill" => refuses' \/ job'[t].part = "putback",
             ~disturbed' => \A u \in Threads \ {t} : ~(Writing(t)' /\ Writing(u)),
             ~disturbed' => \A u \in Threads : Filling(u, "yaml")' => yaml' = Short,
             ~refuses /\ ~putBack => Whole(yaml)' /\ txt' \notin {Short, Mixed},
             Explained("yaml")', Explained("txt")', yaml' = Mixed => disturbed'
      PROVE  FilesInv'
  <2>1. \A u \in Threads : job'[u].at = "fill" => refuses' \/ job'[u].part = "putback"
    BY <1>1, <1>2, <1>5 DEF FilesInv
  <2>2. \A u \in Threads : job'[u].part = "putback" => putBack' /\ (job'[u].content = Mixed => disturbed')
    BY <1>1, <1>4, <1>5 DEF FilesInv
  <2>3. ~disturbed' => \A u, v \in Threads : Writing(u)' /\ Writing(v)' => u = v
    BY <1>2, <1>5 DEF FilesInv
  <2>4. rs'.file = Mixed => disturbed'
    BY <1>1, <1>5 DEF FilesInv
  <2>5. ~refuses' /\ ~putBack' => Whole(yaml)' /\ txt' \notin {Short, Mixed}
    BY <1>1, <1>5
  <2> QED BY <1>2, <1>5, <2>1, <2>2, <2>3, <2>4, <2>5 DEF FilesInv, Whole
\* What is filled is what was truncated: there is one writer.
<1>6. ASSUME ~disturbed, NEW u \in Threads, Filling(u, "yaml") PROVE yaml = Short
  BY <1>6 DEF FilesInv
<1>7. ASSUME UNCHANGED <<yaml, txt, cut>>, disturbed' = (disturbed \/ Crowded(t)), j.at = "start",
             job'[t].at \in {"rename", "failed"}, job'[t].files = j.files
      PROVE  FilesInv'
  <2>1. ASSUME ~disturbed', Writing(t)', NEW u \in Threads \ {t} PROVE ~Writing(u)
    BY <1>7, <2>1 DEF Crowded, Others, Writing
  <2>2. \A f : ~Filling(t, f)' /\ ~Filling(t, f)
    BY <1>7 DEF Filling
  <2>3. \A f : (\E u \in Threads : Filling(u, f)) => \E u \in Threads : Filling(u, f)'
    BY <1>2, <2>2
  <2>4. Explained("yaml")' /\ Explained("txt")'
    BY <1>1, <1>7, <2>3 DEF Explained, On, FilesInv
  <2>5. \A u \in Threads : Filling(u, "yaml")' => Filling(u, "yaml")
    BY <1>2, <2>2
  <2>6. (yaml' = Mixed => disturbed') /\ (~refuses /\ ~putBack => Whole(yaml)' /\ txt' \notin {Short, Mixed})
    BY <1>7 DEF FilesInv, Whole
  <2> QED BY <1>5, <1>6, <1>7, <2>1, <2>4, <2>5, <2>6
\* A file is written.
<1>8. ASSUME NEW content, Put(file, content), UNCHANGED <<disturbed>>, cut => cut', j.at \in {"rename", "fill"},
             content = Short => cut' \/ putBack \/ job'[t].at = "fill",
             file = "yaml" /\ content = Mixed => disturbed,
             ~refuses /\ ~putBack => content \notin {Short, Mixed, None},
             job'[t].at = "fill" => content = Short /\ j.at = "rename" /\ (refuses' \/ job'[t].part = "putback"),
             job'[t].at # "rename", job'[t].at = "fill" => job'[t].files = j.files
      PROVE  FilesInv'
  <2>1. ASSUME ~disturbed, NEW u \in Threads \ {t}, file = "yaml" PROVE ~Writing(u)
    BY <1>8, <2>1 DEF FilesInv, Writing
  <2>2. Writing(t)' => file = "yaml"
    BY <1>8 DEF Writing
  <2>3. ASSUME ~disturbed', NEW u \in Threads, Filling(u, "yaml")' PROVE yaml' = Short
    <3>1. CASE u = t
      BY <1>8, <2>3, <3>1 DEF Filling, Put
    <3>2. CASE u # t
      <4>1. Filling(u, "yaml") /\ Writing(u)
        BY <1>2, <2>3, <3>2 DEF Filling, Writing
      <4>2. file # "yaml" /\ yaml = Short
        BY <1>6, <1>8, <2>1, <2>3, <3>2, <4>1
      <4> QED BY <1>3, <1>8, <4>2 DEF Put
    <3> QED BY <3>1, <3>2
  <2>4. ASSUME NEW f \in {"yaml", "txt"} PROVE Explained(f)'
    <3>1. CASE f = file
      <4>1. On(f)' = content
        BY <1>3, <1>8, <3>1 DEF On, Put
      <4>2. CASE content = Short /\ job'[t].at = "fill"
        <5>1. Filling(t, f)'
          BY <1>8, <3>1, <4>2 DEF Filling
        <5> QED BY <5>1 DEF Explained
      <4>3. CASE content # Short \/ cut' \/ putBack
        BY <1>1, <4>1, <4>3 DEF Explained
      <4> QED BY <1>8, <4>2, <4>3
    <3>2. CASE f # file
      <4>1. On(f)' = On(f) /\ ~Filling(t, f)
        BY <1>3, <1>8, <3>2 DEF On, Put, Filling
      <4>2. (\E u \in Threads : Filling(u, f)) => \E u \in Threads : Filling(u, f)'
        BY <1>2, <4>1
      <4>3. Explained(f)
        BY DEF FilesInv
      <4> QED BY <1>1, <1>8, <4>1, <4>2, <4>3 DEF Explained
    <3> QED BY <3>1, <3>2
  <2>5. yaml' = Mixed => disturbed'
    BY <1>3, <1>8 DEF Put, FilesInv
  <2>6. ~refuses /\ ~putBack => Whole(yaml)' /\ txt' \notin {Short, Mixed}
    BY <1>3, <1>8 DEF Put, FilesInv, Whole
  <2>7. ~disturbed' => \A u \in Threads \ {t} : ~(Writing(t)' /\ Writing(u))
    BY <1>8, <2>1, <2>2
  <2>8. Explained("yaml")' /\ Explained("txt")'
    BY <2>4
  <2> QED BY <1>5, <1>8, <2>3, <2>5, <2>6, <2>7, <2>8
<1>9. ASSUME j.at \in {"rename", "fill"}
      PROVE  /\ j.part # "putback" => j.data \notin {Short, Mixed, None}
             /\ j.part = "putback" => putBack
             /\ j.data = Mixed => disturbed
             /\ Advance(j).at \in {"start", "done"}
  BY <1>1, <1>9, PreparedIs, AdvanceIs DEF Formed, Typed, Shape
<1>10. CASE Prepare(t)
  <2>1. /\ UNCHANGED <<yaml, txt, cut>> /\ disturbed' = (disturbed \/ Crowded(t)) /\ j.at = "start"
        /\ \E data : job' = [job EXCEPT ![t] = [j EXCEPT !.at = "rename", !.data = data]]
    BY <1>10 DEF Prepare, Start, disk
  <2>2. job'[t].at = "rename" /\ job'[t].files = j.files
    BY <1>2, <2>1 DEF Jobs
  <2> QED BY <1>7, <2>1, <2>2
<1>11. CASE PrepareFails(t)
  <2>1. /\ UNCHANGED <<yaml, txt, cut>> /\ disturbed' = (disturbed \/ Crowded(t)) /\ j.at = "start"
        /\ job' = [job EXCEPT ![t] = [j EXCEPT !.at = "failed"]]
    BY <1>11 DEF PrepareFails, Start, disk
  <2>2. job'[t].at = "failed" /\ job'[t].files = j.files
    BY <1>2, <2>1 DEF Jobs
  <2> QED BY <1>7, <2>1, <2>2
<1>12. CASE Rename(t)
  <2>1. /\ Put(file, j.data) /\ UNCHANGED <<disturbed, cut>> /\ j.at = "rename" /\ j.part # "putback"
        /\ job'[t] = Advance(j)
    BY <1>2, <1>12 DEF Rename, Refused, Start, hist
  <2> QED BY <1>8, <1>9, <2>1
<1>13. CASE Truncate(t)
  <2>1. /\ Put(file, Short) /\ UNCHANGED <<disturbed, cut>> /\ j.at = "rename" /\ (refuses \/ j.part = "putback")
        /\ job'[t] = [j EXCEPT !.at = "fill"]
    BY <1>2, <1>13 DEF Truncate, Refused, Start, hist
  <2>2. job'[t].at = "fill" /\ job'[t].files = j.files
    BY <1>2, <2>1 DEF Jobs
  <2>3. Short # Mixed
    BY MarksAssumption
  <2> QED BY <1>1, <1>8, <1>9, <2>1, <2>2, <2>3
<1>14. CASE Fill(t)
  <2>1. /\ UNCHANGED <<disturbed, cut>> /\ j.at = "fill" /\ job'[t] = Advance(j)
        /\ \/ Put(file, j.data)
           \/ On(file) # Short /\ Put(file, Mixed)
    BY <1>2, <1>14 DEF Fill, Start, hist
  <2>2. refuses \/ putBack
    BY <1>9, <2>1 DEF FilesInv
  <2>3. CASE Put(file, j.data)
    BY <1>8, <1>9, <2>1, <2>2, <2>3
  <2>4. CASE On(file) # Short /\ Put(file, Mixed)
    <3>1. Short # Mixed
      BY MarksAssumption
    <3>2. file = "yaml" => disturbed
      BY <1>6, <2>1, <2>4 DEF Filling, On
    <3> QED BY <1>1, <1>8, <1>9, <2>1, <2>2, <2>4, <3>1, <3>2
  <2> QED BY <2>1, <2>3, <2>4
<1>15. CASE FillFails(t)
  <2>1. /\ UNCHANGED disturbed /\ cut' = TRUE /\ j.at = "fill" /\ job'[t] = [j EXCEPT !.at = "failed"]
        /\ \/ UNCHANGED <<yaml, txt>>
           \/ On(file) # Short /\ Put(file, Mixed)
    BY <1>2, <1>15 DEF FillFails, Start
  <2>2. (refuses \/ putBack) /\ job'[t].at = "failed"
    BY <1>2, <1>9, <2>1 DEF FilesInv, Jobs
  <2>3. PICK content : Put(file, content) /\ (content = On(file) \/ (On(file) # Short /\ content = Mixed))
    BY <1>3, <2>1 DEF Put, On
  <2>4. file = "yaml" /\ content = Mixed => disturbed
    <3>1. file = "yaml" /\ On(file) # Short => disturbed
      BY <1>6, <2>1 DEF Filling, On
    <3> QED BY <2>3, <3>1, MarksAssumption DEF FilesInv, On
  <2> QED BY <1>8, <2>1, <2>2, <2>3, <2>4
<1> QED BY <1>10, <1>11, <1>12, <1>13, <1>14, <1>15 DEF Save

\* At the beginning: files that are whole or, where renames are refused, may
\* have been cut off before.
LEMMA FilesInit == ASSUME Init PROVE FilesInv
<1>1. PICK d \in Beginnings : yaml = d.yaml /\ txt = d.txt
  BY DEF Init
<1>2. yaml \notin {Short, Mixed, None} /\ txt \notin {Short, Mixed}
  BY <1>1, BeginningsAssumption, MarksAssumption, URIsAreRoutes
<1>3. /\ job = [t \in Threads |-> Idle] /\ rs = NoRestore
  BY DEF Init
<1>4. \A t \in Threads : job[t].at = "none" /\ job[t].part = "none"
  BY <1>3, IdleIs
<1> QED BY <1>2, <1>3, <1>4, MarksAssumption DEF FilesInv, Writing, Filling, Explained, On, Whole, NoRestore

LEMMA FilesNext == ASSUME Formed, FilesInv, [Next]_vars PROVE FilesInv'
<1>1. CASE UNCHANGED vars
  <2>1. UNCHANGED <<yaml, txt, refuses, disturbed, cut, putBack, rs, stage, job>>
    BY <1>1 DEF vars, disk, world, hist, bk
  <2> QED BY <2>1 DEF FilesInv, Writing, Filling, Explained, On, Whole
<1>2. CASE Load
  BY <1>2, FilesLoad
<1>3. CASE \E t \in Threads : Save(t)
  BY <1>3, FilesSave
<1>4. CASE Next /\ ~Load /\ \A t \in Threads : ~Save(t)
  BY <1>4, QuietSteps, FilesQuiet
<1> QED BY <1>1, <1>2, <1>3, <1>4

LEMMA AlwaysFilesInv == Spec => [](Formed /\ FilesInv)
<1>1. Init => FilesInv
  BY FilesInit
<1>2. Formed /\ FilesInv /\ [Next]_vars => FilesInv'
  BY FilesNext
<1> QED BY <1>1, <1>2, AlwaysFormed, PTL DEF Spec

\* At no point, a crash included, is config.yaml or nodes.txt less than whole
\* where files can be renamed and no failed restore has put one back
\* (writeFileAtomic); elsewhere a short file is being written or was cut off,
\* and config.yaml is spoilt only by two writers at once.
THEOREM FilesStayWhole == Spec => []FilesAreWhole
<1>1. FilesInv => FilesAreWhole
  <2>1. ASSUME FilesInv, Short \in {yaml, txt} PROVE cut \/ putBack \/ \E t \in Threads : job[t].at = "fill"
    BY <2>1 DEF FilesInv, Explained, On, Filling
  <2> QED BY <2>1 DEF FilesInv, FilesAreWhole
<1> QED BY <1>1, AlwaysFilesInv, PTL

-----------------------------------------------------------------------------
(* BootServesPool and OwnPortsAlways.                                      *)

\* Between app.Run's choice of nodes and the start of the instance.
BootInv == stage \in {"packing", "syncing"} => Routed(mem.nodes) = Routed(pool) /\ OwnPorts(mem.nodes)

LEMMA BootNext ==
    ASSUME Formed, BootInv, [Next]_vars
    PROVE  BootInv'
<1>1. CASE Load
  BY <1>1, IdleIs DEF Load, disk, world, mgr, BootInv, Formed, Typed, MemTyped, Shape, StageShape, ManagerShape,
     WebShape, BackupShape, Free, NoOp
<1>2. CASE Stop
  BY <1>2, IdleIs DEF Stop, Gone, disk, bounds, Threads, BootInv, Formed, Typed, MemTyped, Shape, StageShape,
     ManagerShape, WebShape, BackupShape, Free, NoOp
<1>3. CASE Filter
  BY <1>3, FilterDoes DEF BootInv, Filter, disk
<1>4. CASE NoPool
  BY <1>4, IdleIs DEF NoPool, Serve, disk, world, bk, mgr, hist, bounds, BootInv, Formed, Typed, MemTyped,
     Shape, StageShape, ManagerShape, WebShape, BackupShape, Free, NoOp
<1>5. CASE PackingSaved
  BY <1>5, IdleIs DEF PackingSaved, Saved, Done, disk, world, conf, bk, mgr, hist, bounds, BootInv, Formed,
     Typed, MemTyped, Shape, StageShape, ManagerShape, WebShape, BackupShape, Free, NoOp
<1>6. CASE PackingFails
  BY <1>6, IdleIs DEF PackingFails, Unsaved, Gone, disk, world, bounds, Threads, BootInv, Formed, Typed,
     MemTyped, Shape, StageShape, ManagerShape, WebShape, BackupShape, Free, NoOp
<1>7. CASE SyncPorts
  BY <1>7, IdleIs DEF SyncPorts, Serve, world, bk, mgr, hist, bounds, BootInv, Formed, Typed, MemTyped, Shape,
     StageShape, ManagerShape, WebShape, BackupShape, Free, NoOp
<1>8. CASE SyncFails
  BY <1>8, IdleIs DEF SyncFails, Faulty, Gone, disk, world, Threads, BootInv, Formed, Typed, MemTyped, Shape,
     StageShape, ManagerShape, WebShape, BackupShape, Free, NoOp
<1>9. ASSUME NEW r \in Routes, CreateNode(r) PROVE BootInv'
  BY <1>9, IdleIs DEF CreateNode, Edit, Begin, Lock, Start, disk, world, bk, Free, Crosses, Others, Restoring,
     Threads, BootInv, Formed, Typed, MemTyped, Shape, StageShape, ManagerShape, WebShape, BackupShape, NoOp
<1>10. ASSUME NEW r \in Routes, DeleteNode(r) PROVE BootInv'
  BY <1>10, IdleIs DEF DeleteNode, Edit, Begin, Lock, Start, disk, world, bk, Free, Crosses, Others, Restoring,
     Threads, BootInv, Formed, Typed, MemTyped, Shape, StageShape, ManagerShape, WebShape, BackupShape, NoOp
<1>11. CASE EditSaved
  BY <1>11, IdleIs DEF EditSaved, Editing, Saved, Goto, Done, Unlock, disk, world, conf, bk, hist, bounds,
     BootInv, Formed, Typed, MemTyped, Shape, StageShape, ManagerShape, WebShape, BackupShape, Free, NoOp
<1>12. CASE EditFails
  BY <1>12, IdleIs DEF EditFails, Editing, Unsaved, Undone, Return, Done, Unlock, disk, world, bk, hist, bounds,
     BootInv, Formed, Typed, MemTyped, Shape, StageShape, ManagerShape, WebShape, BackupShape, Free, NoOp
<1>13. CASE EditPool
  BY <1>13, IdleIs DEF EditPool, Return, Restoring, world, conf, bk, mgr, bounds, BootInv, Formed, Typed,
     MemTyped, Shape, StageShape, ManagerShape, WebShape, BackupShape, Free, NoOp
<1>14. CASE Reload
  BY <1>14, IdleIs DEF Reload, Begin, Lock, disk, world, conf, bk, Free, Crosses, Others, Restoring, Threads,
     BootInv, Formed, Typed, MemTyped, Shape, StageShape, ManagerShape, WebShape, BackupShape, NoOp
<1>15. CASE ReloadPool
  BY <1>15, IdleIs DEF ReloadPool, Step, Return, Restoring, world, conf, bk, mgr, bounds, BootInv, Formed,
     Typed, MemTyped, Shape, StageShape, ManagerShape, WebShape, BackupShape, Free, NoOp
<1>16. CASE EnterEmpty
  BY <1>16, IdleIs DEF EnterEmpty, Free, disk, world, bk, mgr, hist, BootInv, Formed, Typed, MemTyped, Shape,
     StageShape, ManagerShape, WebShape, BackupShape, NoOp
<1>17. ASSUME NEW settings \in Settings, EditSettings(settings) PROVE BootInv'
  <2>1. mem \in Configs /\ mem'.nodes = mem.nodes
    BY <1>17, WithSettings DEF EditSettings, Formed, Typed, MemTyped
  <2> QED BY <1>17, <2>1 DEF EditSettings, BootInv, disk
<1>18. CASE SettingsEnd
  BY <1>18, IdleIs DEF SettingsEnd, Step, Saved, Unsaved, Return, Done, disk, world, conf, bk, mgr, hist,
     bounds, BootInv, Formed, Typed, MemTyped, Shape, StageShape, ManagerShape, WebShape, BackupShape, Free,
     NoOp
<1>19. CASE SetWebDAV
  BY <1>19, IdleIs DEF SetWebDAV, Begin, Start, disk, world, conf, bk, mgr, Free, Crosses, Others, Restoring,
     Threads, BootInv, Formed, Typed, MemTyped, Shape, StageShape, ManagerShape, WebShape, BackupShape, NoOp
<1>20. CASE WebDAVSaved
  BY <1>20, IdleIs DEF WebDAVSaved, Step, Saved, Return, Done, disk, world, conf, mgr, hist, bounds, BootInv,
     Formed, Typed, MemTyped, Shape, StageShape, ManagerShape, WebShape, BackupShape, Free, NoOp
<1>21. CASE WebDAVFails
  BY <1>21, IdleIs DEF WebDAVFails, Step, Unsaved, Return, Done, disk, world, conf, bk, mgr, hist, bounds,
     BootInv, Formed, Typed, MemTyped, Shape, StageShape, ManagerShape, WebShape, BackupShape, Free, NoOp
<1>22. CASE CreateBackup
  BY <1>22, IdleIs DEF CreateBackup, Begin, disk, world, conf, bk, mgr, Free, Crosses, Others, Restoring,
     Threads, BootInv, Formed, Typed, MemTyped, Shape, StageShape, ManagerShape, WebShape, BackupShape, NoOp
<1>23. CASE SnapshotStore
  BY <1>23, IdleIs DEF SnapshotStore, Step, Return, disk, world, conf, mgr, hist, bounds, BootInv, Formed,
     Typed, MemTyped, Shape, StageShape, ManagerShape, WebShape, BackupShape, Free, NoOp
<1>24. CASE Restore
  BY <1>24, IdleIs DEF Restore, Begin, Remembered, Start, disk, world, conf, mgr, Free, Crosses, Others,
     Restoring, Threads, BootInv, Formed, Typed, MemTyped, Shape, StageShape, ManagerShape, WebShape,
     BackupShape, NoOp
<1>25. CASE RestoreSaved
  BY <1>25, IdleIs DEF RestoreSaved, RestoreAt, Saved, Goto, Done, disk, world, conf, bk, mgr, hist, bounds,
     Step, BootInv, Formed, Typed, MemTyped, Shape, StageShape, ManagerShape, WebShape, BackupShape, Free, NoOp
<1>26. CASE RestoreUnsaved
  BY <1>26, IdleIs DEF RestoreUnsaved, RestoreAt, Unsaved, RestoreEnds, Done, disk, world, conf, mgr, bounds,
     Step, Return, BootInv, Formed, Typed, MemTyped, Shape, StageShape, ManagerShape, WebShape, BackupShape,
     Free, NoOp
<1>27. CASE ReplaceStore
  BY <1>27, IdleIs DEF ReplaceStore, RestoreAt, Goto, world, conf, bk, mgr, hist, bounds, Step, BootInv, Formed,
     Typed, MemTyped, Shape, StageShape, ManagerShape, WebShape, BackupShape, Free, NoOp
<1>28. CASE ReplaceStoreFails
  BY <1>28, IdleIs DEF ReplaceStoreFails, RestoreAt, Faulty, Goto, disk, world, conf, bk, mgr, hist, Step,
     BootInv, Formed, Typed, MemTyped, Shape, StageShape, ManagerShape, WebShape, BackupShape, Free, NoOp
<1>29. CASE ApplyRestored
  BY <1>29, IdleIs DEF ApplyRestored, RestoreAt, ApplyBackup, Step, Goto, mgr, Lock, StartsAsIs, Becomes, disk,
     world, bk, hist, bounds, Start, BootInv, Formed, Typed, MemTyped, Shape, StageShape, ManagerShape,
     WebShape, BackupShape, Free, NoOp
<1>30. CASE Reapply
  BY <1>30, IdleIs DEF Reapply, RestoreAt, ApplyBackup, Step, Goto, mgr, Lock, StartsAsIs, Becomes, disk, world,
     bk, hist, bounds, Start, BootInv, Formed, Typed, MemTyped, Shape, StageShape, ManagerShape, WebShape,
     BackupShape, Free, NoOp
<1>31. CASE ListNodes
  BY <1>31, IdleIs DEF ListNodes, RestoreAt, Goto, world, conf, bk, mgr, hist, bounds, Step, BootInv, Formed,
     Typed, MemTyped, Shape, StageShape, ManagerShape, WebShape, BackupShape, Free, NoOp
<1>32. CASE SetChainProfiles
  BY <1>32, IdleIs DEF SetChainProfiles, RestoreAt, RestoreEnds, disk, world, conf, mgr, bounds, Step, Return,
     BootInv, Formed, Typed, MemTyped, Shape, StageShape, ManagerShape, WebShape, BackupShape, Free, NoOp
<1>33. CASE RestoreFailsLate
  BY <1>33, IdleIs DEF RestoreFailsLate, RestoreAt, Faulty, Goto, disk, world, conf, bk, mgr, hist, Step,
     BootInv, Formed, Typed, MemTyped, Shape, StageShape, ManagerShape, WebShape, BackupShape, Free, NoOp
<1>34. CASE PutFileBack
  BY <1>34, IdleIs DEF PutFileBack, RestoreAt, Start, Goto, disk, world, conf, bk, mgr, bounds, Step, BootInv,
     Formed, Typed, MemTyped, Shape, StageShape, ManagerShape, WebShape, BackupShape, Free, NoOp
<1>35. CASE PutStoreBack
  BY <1>35, IdleIs DEF PutStoreBack, RestoreAt, Saved, Unsaved, Done, Faulty, RestoreEnds, world, conf, mgr,
     Step, Return, BootInv, Formed, Typed, MemTyped, Shape, StageShape, ManagerShape, WebShape, BackupShape,
     Free, NoOp
<1>36. ASSUME NEW t \in Threads, MoveConflicts(t) PROVE BootInv'
  BY <1>36, IdleIs DEF MoveConflicts, Applying, Saved, Start, Becomes, disk, world, bk, hist, bounds, BootInv,
     Formed, Typed, MemTyped, Shape, StageShape, ManagerShape, WebShape, BackupShape, Free, NoOp
<1>37. ASSUME NEW t \in Threads, Applied(t) PROVE BootInv'
  BY <1>37, IdleIs DEF Applied, Applying, Saved, Unlock, Done, Goto, disk, world, bk, hist, bounds, BootInv,
     Formed, Typed, MemTyped, Shape, StageShape, ManagerShape, WebShape, BackupShape, Free, NoOp
<1>38. ASSUME NEW t \in Threads, RollBack(t) PROVE BootInv'
  BY <1>38, IdleIs DEF RollBack, Applying, Unsaved, Saved, Faulty, Start, Goto, disk, world, conf, bk, mgr,
     hist, BootInv, Formed, Typed, MemTyped, Shape, StageShape, ManagerShape, WebShape, BackupShape, Free, NoOp
<1>39. ASSUME NEW t \in Threads, RolledBack(t) PROVE BootInv'
  BY <1>39, IdleIs DEF RolledBack, Saved, Unsaved, Unlock, Done, ApplyError, disk, world, bk, hist, bounds,
     Goto, Return, BootInv, Formed, Typed, MemTyped, Shape, StageShape, ManagerShape, WebShape, BackupShape,
     Free, NoOp, LockShape, Threads
<1>40. ASSUME NEW t \in Threads, StartFails(t) PROVE BootInv'
  BY <1>40, IdleIs DEF StartFails, Applying, Unsaved, Saved, Faulty, Unlock, Done, ApplyError, disk, world, bk,
     hist, Goto, Return, BootInv, Formed, Typed, MemTyped, Shape, StageShape, ManagerShape, WebShape,
     BackupShape, Free, NoOp
<1>41. CASE ProgramNext
  BY <1>41, <1>1, <1>2, <1>3, <1>4, <1>5, <1>6, <1>7, <1>8 DEF ProgramNext
<1>42. CASE ManagerNext
  BY <1>42, <1>9, <1>10, <1>11, <1>12, <1>13, <1>14, <1>15, <1>16 DEF ManagerNext
<1>43. CASE WebNext
  BY <1>43, SettingsEdits, <1>17, <1>18 DEF WebNext
<1>44. CASE BackupNext
  BY <1>44, <1>19, <1>20, <1>21, <1>22, <1>23, <1>24, <1>25, <1>26, <1>27, <1>28, <1>29, <1>30, <1>31, <1>32,
     <1>33, <1>34, <1>35 DEF BackupNext
<1>45. ASSUME NEW t \in Threads, ApplyNext(t) PROVE BootInv'
  BY <1>45, <1>36, <1>37, <1>38, <1>39, <1>40 DEF ApplyNext
<1>46. ASSUME NEW t \in Threads, Save(t) PROVE BootInv'
  BY <1>46, SaveDoes DEF BootInv, conf
<1>47. CASE UNCHANGED vars
  BY <1>47 DEF BootInv, vars, disk, conf
<1> QED BY <1>41, <1>42, <1>43, <1>44, <1>45, <1>46, <1>47 DEF Next

\* A start that finds a pool serves its members and nothing else, each at a port
\* of its own (app.Run), whatever a crash has left in the files.
THEOREM BootsServePool == Spec => []BootServesPool
<1>1. Init => BootInv
  BY DEF Init, BootInv
<1>2. Formed /\ BootInv /\ [Next]_vars => BootInv'
  BY BootNext
<1>3. BootInv => BootServesPool
  BY DEF BootInv, BootServesPool
<1> QED BY <1>1, <1>2, <1>3, AlwaysFormed, PTL DEF Spec

\* Nothing runs, and a restore has failed or is not through.
Excused ==
    /\ ran = None
    /\ \/ outcome \in {"undone", "unsaved"}
       \/ op["backup"].name = "restore" /\ op["backup"].pc \notin {"list", "chain"}
OwnInv ==
    /\ ran # None => OwnPorts(ran.nodes)
    /\ stage = "loaded" => OwnPorts(mem.nodes)
    /\ stage = "serving" => OwnPorts(mem.nodes) \/ Excused
    /\ reloadMu = "manager" /\ target = None => OwnPorts(undo) \/ Excused
    /\ reloadMu = "manager" /\ target # None => OwnPorts(target.nodes)

LEMMA EmptyOwns == OwnPorts(<<>>)
  BY DEF OwnPorts

LEMMA OwnNext ==
    ASSUME Formed, BootInv, OwnInv, [Next]_vars
    PROVE  OwnInv'
<1>1. CASE Load
  <2>1. OwnPorts(mem'.nodes) /\ ran' = None /\ stage' = "loaded" /\ UNCHANGED reloadMu /\ reloadMu = None
    BY <1>1, LoadDoes DEF Load, Formed, Shape, StageShape, mgr
  <2> QED BY <2>1, MarksAssumption DEF OwnInv
<1>2. CASE Stop
  BY <1>2, IdleIs, MarksAssumption DEF Stop, Gone, disk, bounds, Threads, OwnInv, Excused, Formed, Typed,
     MemTyped, Shape, StageShape, ManagerShape, WebShape, BackupShape, LockShape, Free, NoOp, Ops
<1>3. CASE Filter
  BY <1>3, FilterDoes DEF OwnInv, Excused, Filter, mgr, hist
<1>4. CASE NoPool
  BY <1>4, IdleIs, MarksAssumption DEF NoPool, Serve, disk, world, bk, mgr, hist, bounds, OwnInv, Excused,
     Formed, Typed, MemTyped, Shape, StageShape, ManagerShape, WebShape, BackupShape, LockShape, Free, NoOp,
     Threads, Ops
<1>5. CASE PackingSaved
  BY <1>5, IdleIs, MarksAssumption DEF PackingSaved, Saved, Done, disk, world, conf, bk, mgr, hist, bounds,
     OwnInv, Excused, Formed, Typed, MemTyped, Shape, StageShape, ManagerShape, WebShape, BackupShape,
     LockShape, Free, NoOp, Threads, Ops
<1>6. CASE PackingFails
  BY <1>6, IdleIs, MarksAssumption DEF PackingFails, Unsaved, Gone, disk, world, bounds, Threads, OwnInv,
     Excused, Formed, Typed, MemTyped, Shape, StageShape, ManagerShape, WebShape, BackupShape, LockShape, Free,
     NoOp, Ops
<1>7. CASE SyncPorts
  BY <1>7, IdleIs, MarksAssumption DEF SyncPorts, Serve, world, bk, mgr, hist, bounds, OwnInv, Excused, Formed,
     Typed, MemTyped, Shape, StageShape, ManagerShape, WebShape, BackupShape, LockShape, Free, NoOp, Threads,
     Ops, BootInv
<1>8. CASE SyncFails
  BY <1>8, IdleIs, MarksAssumption DEF SyncFails, Faulty, Gone, disk, world, Threads, OwnInv, Excused, Formed,
     Typed, MemTyped, Shape, StageShape, ManagerShape, WebShape, BackupShape, LockShape, Free, NoOp, Ops
<1>9. ASSUME NEW r \in Routes, CreateNode(r) PROVE OwnInv'
  <2>1. /\ OwnPorts(mem.nodes) => OwnPorts(mem'.nodes)
        /\ Edit("create", r, mem'.nodes) /\ stage = "serving"
    BY <1>9, CreateDoes DEF CreateNode
  <2>2. /\ UNCHANGED <<ran, stage, target, outcome>> /\ undo' = mem.nodes /\ reloadMu = None
        /\ op'["backup"] = op["backup"] /\ stage = "serving"
    BY <2>1 DEF Edit, Begin, Lock, conf, Formed, Typed, Threads
  <2>3. target = None
    BY <2>2, MarksAssumption DEF Formed, Shape, LockShape
  <2> QED BY <2>1, <2>2, <2>3, MarksAssumption DEF OwnInv, Excused
<1>10. ASSUME NEW r \in Routes, DeleteNode(r) PROVE OwnInv'
  <2>1. /\ OwnPorts(mem.nodes) => OwnPorts(mem'.nodes)
        /\ Edit("delete", r, mem'.nodes) /\ stage = "serving"
    BY <1>10, DeleteDoes DEF DeleteNode
  <2>2. /\ UNCHANGED <<ran, stage, target, outcome>> /\ undo' = mem.nodes /\ reloadMu = None
        /\ op'["backup"] = op["backup"] /\ stage = "serving"
    BY <2>1 DEF Edit, Begin, Lock, conf, Formed, Typed, Threads
  <2>3. target = None
    BY <2>2, MarksAssumption DEF Formed, Shape, LockShape
  <2> QED BY <2>1, <2>2, <2>3, MarksAssumption DEF OwnInv, Excused
<1>11. CASE EditSaved
  BY <1>11, IdleIs, MarksAssumption DEF EditSaved, Editing, Saved, Goto, Done, Unlock, disk, world, conf, bk,
     hist, bounds, OwnInv, Excused, Formed, Typed, MemTyped, Shape, StageShape, ManagerShape, WebShape,
     BackupShape, LockShape, Free, NoOp, Threads, Ops
<1>12. CASE EditFails
  BY <1>12, IdleIs, MarksAssumption, WithNodes DEF EditFails, Editing, Unsaved, Undone, Return, Done, Unlock,
     disk, world, bk, hist, bounds, OwnInv, Excused, Formed, Typed, MemTyped, Shape, StageShape, ManagerShape,
     WebShape, BackupShape, LockShape, Free, NoOp, Threads, Ops
<1>13. CASE EditPool
  BY <1>13, IdleIs, MarksAssumption DEF EditPool, Return, Restoring, world, conf, bk, mgr, bounds, OwnInv,
     Excused, Formed, Typed, MemTyped, Shape, StageShape, ManagerShape, WebShape, BackupShape, LockShape, Free,
     NoOp, Threads, Ops
<1>14. CASE Reload
  BY <1>14, IdleIs, MarksAssumption, PacksDoes DEF Reload, Begin, Lock, disk, world, conf, bk, Free, Crosses,
     Others, Restoring, Threads, OwnInv, Excused, Formed, Typed, MemTyped, Shape, StageShape, ManagerShape,
     WebShape, BackupShape, LockShape, NoOp, Ops
<1>15. CASE ReloadPool
  BY <1>15, IdleIs, MarksAssumption DEF ReloadPool, Step, Return, Restoring, world, conf, bk, mgr, bounds,
     OwnInv, Excused, Formed, Typed, MemTyped, Shape, StageShape, ManagerShape, WebShape, BackupShape,
     LockShape, Free, NoOp, Threads, Ops
<1>16. CASE EnterEmpty
  BY <1>16, IdleIs, MarksAssumption, EmptyOwns DEF EnterEmpty, Free, disk, world, bk, mgr, hist, OwnInv,
     Excused, Formed, Typed, MemTyped, Shape, StageShape, ManagerShape, WebShape, BackupShape, LockShape, NoOp,
     Threads, Ops
<1>17. ASSUME NEW settings \in Settings, EditSettings(settings) PROVE OwnInv'
  <2>1. mem \in Configs /\ mem'.nodes = mem.nodes
    BY <1>17, WithSettings DEF EditSettings, Formed, Typed, MemTyped
  <2>2. UNCHANGED <<ran, stage, undo, reloadMu, target, outcome>> /\ op'["backup"] = op["backup"]
    BY <1>17 DEF EditSettings, Begin, mgr, Formed, Typed, Threads
  <2> QED BY <2>1, <2>2 DEF OwnInv, Excused
<1>18. CASE SettingsEnd
  BY <1>18, IdleIs, MarksAssumption DEF SettingsEnd, Step, Saved, Unsaved, Return, Done, disk, world, conf, bk,
     mgr, hist, bounds, OwnInv, Excused, Formed, Typed, MemTyped, Shape, StageShape, ManagerShape, WebShape,
     BackupShape, LockShape, Free, NoOp, Threads, Ops
<1>19. CASE SetWebDAV
  BY <1>19, IdleIs, MarksAssumption DEF SetWebDAV, Begin, Start, disk, world, conf, bk, mgr, Free, Crosses,
     Others, Restoring, Threads, OwnInv, Excused, Formed, Typed, MemTyped, Shape, StageShape, ManagerShape,
     WebShape, BackupShape, LockShape, NoOp, Ops
<1>20. CASE WebDAVSaved
  BY <1>20, IdleIs, MarksAssumption DEF WebDAVSaved, Step, Saved, Return, Done, disk, world, conf, mgr, hist,
     bounds, OwnInv, Excused, Formed, Typed, MemTyped, Shape, StageShape, ManagerShape, WebShape, BackupShape,
     LockShape, Free, NoOp, Threads, Ops
<1>21. CASE WebDAVFails
  BY <1>21, IdleIs, MarksAssumption DEF WebDAVFails, Step, Unsaved, Return, Done, disk, world, conf, bk, mgr,
     hist, bounds, OwnInv, Excused, Formed, Typed, MemTyped, Shape, StageShape, ManagerShape, WebShape,
     BackupShape, LockShape, Free, NoOp, Threads, Ops
<1>22. CASE CreateBackup
  BY <1>22, IdleIs, MarksAssumption DEF CreateBackup, Begin, disk, world, conf, bk, mgr, Free, Crosses, Others,
     Restoring, Threads, OwnInv, Excused, Formed, Typed, MemTyped, Shape, StageShape, ManagerShape, WebShape,
     BackupShape, LockShape, NoOp, Ops
<1>23. CASE SnapshotStore
  BY <1>23, IdleIs, MarksAssumption DEF SnapshotStore, Step, Return, disk, world, conf, mgr, hist, bounds,
     OwnInv, Excused, Formed, Typed, MemTyped, Shape, StageShape, ManagerShape, WebShape, BackupShape,
     LockShape, Free, NoOp, Threads, Ops
<1>24. CASE Restore
  BY <1>24, IdleIs, MarksAssumption DEF Restore, Begin, Remembered, Start, disk, world, conf, mgr, Free,
     Crosses, Others, Restoring, Threads, OwnInv, Excused, Formed, Typed, MemTyped, Shape, StageShape,
     ManagerShape, WebShape, BackupShape, LockShape, NoOp, Ops
<1>25. CASE RestoreSaved
  BY <1>25, IdleIs, MarksAssumption DEF RestoreSaved, RestoreAt, Saved, Goto, Done, disk, world, conf, bk, mgr,
     hist, bounds, Step, OwnInv, Excused, Formed, Typed, MemTyped, Shape, StageShape, ManagerShape, WebShape,
     BackupShape, LockShape, Free, NoOp, Threads, Ops
<1>26. CASE RestoreUnsaved
  BY <1>26, IdleIs, MarksAssumption DEF RestoreUnsaved, RestoreAt, Unsaved, RestoreEnds, Done, disk, world,
     conf, mgr, bounds, Step, Return, OwnInv, Excused, Formed, Typed, MemTyped, Shape, StageShape, ManagerShape,
     WebShape, BackupShape, LockShape, Free, NoOp, Threads, Ops
<1>27. CASE ReplaceStore
  BY <1>27, IdleIs, MarksAssumption DEF ReplaceStore, RestoreAt, Goto, world, conf, bk, mgr, hist, bounds, Step,
     OwnInv, Excused, Formed, Typed, MemTyped, Shape, StageShape, ManagerShape, WebShape, BackupShape,
     LockShape, Free, NoOp, Threads, Ops
<1>28. CASE ReplaceStoreFails
  BY <1>28, IdleIs, MarksAssumption DEF ReplaceStoreFails, RestoreAt, Faulty, Goto, disk, world, conf, bk, mgr,
     hist, Step, OwnInv, Excused, Formed, Typed, MemTyped, Shape, StageShape, ManagerShape, WebShape,
     BackupShape, LockShape, Free, NoOp, Threads, Ops
<1>29. CASE ApplyRestored
  BY <1>29, IdleIs, MarksAssumption, EmptyOwns DEF ApplyRestored, RestoreAt, ApplyBackup, Step, Goto, mgr, Lock,
     StartsAsIs, Becomes, disk, world, bk, hist, bounds, Start, OwnInv, Excused, Formed, Typed, MemTyped, Shape,
     StageShape, ManagerShape, WebShape, BackupShape, LockShape, Free, NoOp, Threads, Ops
<1>30. CASE Reapply
  BY <1>30, IdleIs, MarksAssumption, EmptyOwns DEF Reapply, RestoreAt, ApplyBackup, Step, Goto, mgr, Lock,
     StartsAsIs, Becomes, disk, world, bk, hist, bounds, Start, OwnInv, Excused, Formed, Typed, MemTyped, Shape,
     StageShape, ManagerShape, WebShape, BackupShape, LockShape, Free, NoOp, Threads, Ops
<1>31. CASE ListNodes
  BY <1>31, IdleIs, MarksAssumption DEF ListNodes, RestoreAt, Goto, world, conf, bk, mgr, hist, bounds, Step,
     OwnInv, Excused, Formed, Typed, MemTyped, Shape, StageShape, ManagerShape, WebShape, BackupShape,
     LockShape, Free, NoOp, Threads, Ops
<1>32. CASE SetChainProfiles
  BY <1>32, IdleIs, MarksAssumption DEF SetChainProfiles, RestoreAt, RestoreEnds, disk, world, conf, mgr,
     bounds, Step, Return, OwnInv, Excused, Formed, Typed, MemTyped, Shape, StageShape, ManagerShape, WebShape,
     BackupShape, LockShape, Free, NoOp, Threads, Ops
<1>33. CASE RestoreFailsLate
  BY <1>33, IdleIs, MarksAssumption DEF RestoreFailsLate, RestoreAt, Faulty, Goto, disk, world, conf, bk, mgr,
     hist, Step, OwnInv, Excused, Formed, Typed, MemTyped, Shape, StageShape, ManagerShape, WebShape,
     BackupShape, LockShape, Free, NoOp, Threads, Ops
<1>34. CASE PutFileBack
  BY <1>34, IdleIs, MarksAssumption DEF PutFileBack, RestoreAt, Start, Goto, disk, world, conf, bk, mgr, bounds,
     Step, OwnInv, Excused, Formed, Typed, MemTyped, Shape, StageShape, ManagerShape, WebShape, BackupShape,
     LockShape, Free, NoOp, Threads, Ops
<1>35. CASE PutStoreBack
  BY <1>35, IdleIs, MarksAssumption DEF PutStoreBack, RestoreAt, Saved, Unsaved, Done, Faulty, RestoreEnds,
     world, conf, mgr, Step, Return, OwnInv, Excused, Formed, Typed, MemTyped, Shape, StageShape, ManagerShape,
     WebShape, BackupShape, LockShape, Free, NoOp, Threads, Ops
<1>36. ASSUME NEW t \in Threads, MoveConflicts(t) PROVE OwnInv'
  BY <1>36, IdleIs, MarksAssumption, MovesDoes DEF MoveConflicts, Applying, Saved, Start, Becomes, disk, world,
     bk, hist, bounds, OwnInv, Excused, Formed, Typed, MemTyped, Shape, StageShape, ManagerShape, WebShape,
     BackupShape, LockShape, Free, NoOp, Threads, Ops
<1>37. ASSUME NEW t \in Threads, Applied(t) PROVE OwnInv'
  BY <1>37, IdleIs, MarksAssumption, AppliedDoes DEF Applied, Applying, Saved, Unlock, Done, Goto, disk, world,
     bk, hist, bounds, OwnInv, Excused, Formed, Typed, MemTyped, Shape, StageShape, ManagerShape, WebShape,
     BackupShape, LockShape, Free, NoOp, Threads, Ops
<1>38. ASSUME NEW t \in Threads, RollBack(t) PROVE OwnInv'
  BY <1>38, IdleIs, MarksAssumption DEF RollBack, Applying, Unsaved, Saved, Faulty, Start, Goto, disk, world,
     conf, bk, mgr, hist, OwnInv, Excused, Formed, Typed, MemTyped, Shape, StageShape, ManagerShape, WebShape,
     BackupShape, LockShape, Free, NoOp, Threads, Ops
<1>39. ASSUME NEW t \in Threads, RolledBack(t) PROVE OwnInv'
  BY <1>39, IdleIs, MarksAssumption DEF RolledBack, Saved, Unsaved, Unlock, Done, ApplyError, disk, world, bk,
     hist, bounds, Goto, Return, OwnInv, Excused, Formed, Typed, MemTyped, Shape, StageShape, ManagerShape,
     WebShape, BackupShape, LockShape, Free, NoOp, Threads, Ops
<1>40. ASSUME NEW t \in Threads, StartFails(t) PROVE OwnInv'
  BY <1>40, IdleIs, MarksAssumption DEF StartFails, Applying, Unsaved, Saved, Faulty, Unlock, Done, ApplyError,
     disk, world, bk, hist, Goto, Return, OwnInv, Excused, Formed, Typed, MemTyped, Shape, StageShape,
     ManagerShape, WebShape, BackupShape, LockShape, Free, NoOp, Threads, Ops
<1>41. CASE ProgramNext
  BY <1>41, <1>1, <1>2, <1>3, <1>4, <1>5, <1>6, <1>7, <1>8 DEF ProgramNext
<1>42. CASE ManagerNext
  BY <1>42, <1>9, <1>10, <1>11, <1>12, <1>13, <1>14, <1>15, <1>16 DEF ManagerNext
<1>43. CASE WebNext
  BY <1>43, SettingsEdits, <1>17, <1>18 DEF WebNext
<1>44. CASE BackupNext
  BY <1>44, <1>19, <1>20, <1>21, <1>22, <1>23, <1>24, <1>25, <1>26, <1>27, <1>28, <1>29, <1>30, <1>31, <1>32,
     <1>33, <1>34, <1>35 DEF BackupNext
<1>45. ASSUME NEW t \in Threads, ApplyNext(t) PROVE OwnInv'
  BY <1>45, <1>36, <1>37, <1>38, <1>39, <1>40 DEF ApplyNext
<1>46. ASSUME NEW t \in Threads, Save(t) PROVE OwnInv'
  BY <1>46, SaveDoes DEF OwnInv, Excused, conf, mgr
<1>47. CASE UNCHANGED vars
  BY <1>47 DEF OwnInv, Excused, vars, conf, mgr, hist
<1> QED BY <1>41, <1>42, <1>43, <1>44, <1>45, <1>46, <1>47 DEF Next

\* No two nodes share a port and none has the listener's, in what runs and in
\* what is kept, through loading, packing, adding, moving and restoring (normalize,
\* rebuildMultiPortAssignments, nextAvailablePortLocked, reassignConflictingPort).
THEOREM OwnPortsStay == Spec => []OwnPortsAlways
<1>1. Init => BootInv /\ OwnInv
  BY MarksAssumption DEF Init, BootInv, OwnInv
<1>2. Formed /\ BootInv /\ OwnInv /\ [Next]_vars => BootInv' /\ OwnInv'
  BY BootNext, OwnNext
<1>3. Formed /\ OwnInv => OwnPortsAlways
  BY IdleIs DEF Formed, Typed, Threads, OwnInv, Excused, OwnPortsAlways, Quiet, Free
<1> QED BY <1>1, <1>2, <1>3, AlwaysFormed, PTL DEF Spec

-----------------------------------------------------------------------------
(* Who is alone.                                                           *)

\* Undisturbed, a restore has the program for itself, and settings that are
\* edited are the manager's, with no configuration being applied.
WhoInv == ~disturbed =>
    /\ op["backup"].name = "restore" => Free("manager") /\ Free("web")
    /\ ~Free("web") => op["backup"].name \in {"none", "create"} /\ target = None /\ synced

LEMMA WhoNext ==
    ASSUME Formed, WhoInv, [Next]_vars
    PROVE  WhoInv'
<1>1. CASE Load
  BY <1>1, IdleIs, MarksAssumption DEF Load, disk, world, mgr, WhoInv, Others, Restoring, Formed, Typed,
     MemTyped, HistoryTyped, Shape, StageShape, ManagerShape, WebShape, BackupShape, LockShape, Free, NoOp,
     Threads, Ops
<1>2. CASE Stop
  BY <1>2, IdleIs, MarksAssumption DEF Stop, Gone, disk, bounds, Threads, WhoInv, Others, Restoring, Formed,
     Typed, MemTyped, HistoryTyped, Shape, StageShape, ManagerShape, WebShape, BackupShape, LockShape, Free,
     NoOp, Ops
<1>3. CASE Filter
  BY <1>3 DEF WhoInv, Free, Filter, mgr, hist
<1>4. CASE NoPool
  BY <1>4, IdleIs, MarksAssumption DEF NoPool, Serve, disk, world, bk, mgr, hist, bounds, WhoInv, Others,
     Restoring, Formed, Typed, MemTyped, HistoryTyped, Shape, StageShape, ManagerShape, WebShape, BackupShape,
     LockShape, Free, NoOp, Threads, Ops
<1>5. CASE PackingSaved
  BY <1>5, IdleIs, MarksAssumption DEF PackingSaved, Saved, Done, disk, world, conf, bk, mgr, hist, bounds,
     WhoInv, Others, Restoring, Formed, Typed, MemTyped, HistoryTyped, Shape, StageShape, ManagerShape,
     WebShape, BackupShape, LockShape, Free, NoOp, Threads, Ops
<1>6. CASE PackingFails
  BY <1>6, IdleIs, MarksAssumption DEF PackingFails, Unsaved, Gone, disk, world, bounds, Threads, WhoInv,
     Others, Restoring, Formed, Typed, MemTyped, HistoryTyped, Shape, StageShape, ManagerShape, WebShape,
     BackupShape, LockShape, Free, NoOp, Ops
<1>7. CASE SyncPorts
  BY <1>7, IdleIs, MarksAssumption DEF SyncPorts, Serve, world, bk, mgr, hist, bounds, WhoInv, Others,
     Restoring, Formed, Typed, MemTyped, HistoryTyped, Shape, StageShape, ManagerShape, WebShape, BackupShape,
     LockShape, Free, NoOp, Threads, Ops
<1>8. CASE SyncFails
  BY <1>8, IdleIs, MarksAssumption DEF SyncFails, Faulty, Gone, disk, world, Threads, WhoInv, Others, Restoring,
     Formed, Typed, MemTyped, HistoryTyped, Shape, StageShape, ManagerShape, WebShape, BackupShape, LockShape,
     Free, NoOp, Ops
<1>9. ASSUME NEW r \in Routes, CreateNode(r) PROVE WhoInv'
  BY <1>9, IdleIs, MarksAssumption DEF CreateNode, Edit, Begin, Lock, Start, disk, world, bk, Free, Crosses,
     Others, Restoring, Threads, WhoInv, Formed, Typed, MemTyped, HistoryTyped, Shape, StageShape, ManagerShape,
     WebShape, BackupShape, LockShape, NoOp, Ops
<1>10. ASSUME NEW r \in Routes, DeleteNode(r) PROVE WhoInv'
  BY <1>10, IdleIs, MarksAssumption DEF DeleteNode, Edit, Begin, Lock, Start, disk, world, bk, Free, Crosses,
     Others, Restoring, Threads, WhoInv, Formed, Typed, MemTyped, HistoryTyped, Shape, StageShape, ManagerShape,
     WebShape, BackupShape, LockShape, NoOp, Ops
<1>11. CASE EditSaved
  BY <1>11, IdleIs, MarksAssumption DEF EditSaved, Editing, Saved, Goto, Done, Unlock, disk, world, conf, bk,
     hist, bounds, WhoInv, Others, Restoring, Formed, Typed, MemTyped, HistoryTyped, Shape, StageShape,
     ManagerShape, WebShape, BackupShape, LockShape, Free, NoOp, Threads, Ops
<1>12. CASE EditFails
  BY <1>12, IdleIs, MarksAssumption DEF EditFails, Editing, Unsaved, Undone, Return, Done, Unlock, disk, world,
     bk, hist, bounds, WhoInv, Others, Restoring, Formed, Typed, MemTyped, HistoryTyped, Shape, StageShape,
     ManagerShape, WebShape, BackupShape, LockShape, Free, NoOp, Threads, Ops
<1>13. CASE EditPool
  BY <1>13, IdleIs, MarksAssumption DEF EditPool, Return, Restoring, world, conf, bk, mgr, bounds, WhoInv,
     Others, Formed, Typed, MemTyped, HistoryTyped, Shape, StageShape, ManagerShape, WebShape, BackupShape,
     LockShape, Free, NoOp, Threads, Ops
<1>14. CASE Reload
  BY <1>14, IdleIs, MarksAssumption DEF Reload, Begin, Lock, Packs, disk, world, conf, bk, Free, Crosses, Start,
     Others, Restoring, Threads, WhoInv, Formed, Typed, MemTyped, HistoryTyped, Shape, StageShape, ManagerShape,
     WebShape, BackupShape, LockShape, NoOp, Ops
<1>15. CASE ReloadPool
  BY <1>15, IdleIs, MarksAssumption DEF ReloadPool, Step, Return, Restoring, world, conf, bk, mgr, bounds,
     WhoInv, Others, Formed, Typed, MemTyped, HistoryTyped, Shape, StageShape, ManagerShape, WebShape,
     BackupShape, LockShape, Free, NoOp, Threads, Ops
<1>16. CASE EnterEmpty
  BY <1>16, IdleIs, MarksAssumption DEF EnterEmpty, Free, disk, world, bk, mgr, hist, WhoInv, Others, Restoring,
     Formed, Typed, MemTyped, HistoryTyped, Shape, StageShape, ManagerShape, WebShape, BackupShape, LockShape,
     NoOp, Threads, Ops
<1>17. ASSUME NEW settings \in Settings, EditSettings(settings) PROVE WhoInv'
  BY <1>17, IdleIs, MarksAssumption DEF EditSettings, Begin, Start, disk, world, bk, mgr, Free, Crosses, Others,
     Restoring, Threads, WhoInv, Formed, Typed, MemTyped, HistoryTyped, Shape, StageShape, ManagerShape,
     WebShape, BackupShape, LockShape, NoOp, Ops
<1>18. CASE SettingsEnd
  BY <1>18, IdleIs, MarksAssumption DEF SettingsEnd, Step, Saved, Unsaved, Return, Done, disk, world, conf, bk,
     mgr, hist, bounds, WhoInv, Others, Restoring, Formed, Typed, MemTyped, HistoryTyped, Shape, StageShape,
     ManagerShape, WebShape, BackupShape, LockShape, Free, NoOp, Threads, Ops
<1>19. CASE SetWebDAV
  BY <1>19, IdleIs, MarksAssumption DEF SetWebDAV, Begin, Start, disk, world, conf, bk, mgr, Free, Crosses,
     Others, Restoring, Threads, WhoInv, Formed, Typed, MemTyped, HistoryTyped, Shape, StageShape, ManagerShape,
     WebShape, BackupShape, LockShape, NoOp, Ops
<1>20. CASE WebDAVSaved
  BY <1>20, IdleIs, MarksAssumption DEF WebDAVSaved, Step, Saved, Return, Done, disk, world, conf, mgr, hist,
     bounds, WhoInv, Others, Restoring, Formed, Typed, MemTyped, HistoryTyped, Shape, StageShape, ManagerShape,
     WebShape, BackupShape, LockShape, Free, NoOp, Threads, Ops
<1>21. CASE WebDAVFails
  BY <1>21, IdleIs, MarksAssumption DEF WebDAVFails, Step, Unsaved, Return, Done, disk, world, conf, bk, mgr,
     hist, bounds, WhoInv, Others, Restoring, Formed, Typed, MemTyped, HistoryTyped, Shape, StageShape,
     ManagerShape, WebShape, BackupShape, LockShape, Free, NoOp, Threads, Ops
<1>22. CASE CreateBackup
  BY <1>22, IdleIs, MarksAssumption DEF CreateBackup, Begin, disk, world, conf, bk, mgr, Free, Crosses, Others,
     Restoring, Threads, WhoInv, Formed, Typed, MemTyped, HistoryTyped, Shape, StageShape, ManagerShape,
     WebShape, BackupShape, LockShape, NoOp, Ops
<1>23. CASE SnapshotStore
  BY <1>23, IdleIs, MarksAssumption DEF SnapshotStore, Step, Return, disk, world, conf, mgr, hist, bounds,
     WhoInv, Others, Restoring, Formed, Typed, MemTyped, HistoryTyped, Shape, StageShape, ManagerShape,
     WebShape, BackupShape, LockShape, Free, NoOp, Threads, Ops
<1>24. CASE Restore
  BY <1>24, IdleIs, MarksAssumption DEF Restore, Begin, Remembered, Start, disk, world, conf, mgr, Free,
     Crosses, Others, Restoring, Threads, WhoInv, Formed, Typed, MemTyped, HistoryTyped, Shape, StageShape,
     ManagerShape, WebShape, BackupShape, LockShape, NoOp, Ops
<1>25. CASE RestoreSaved
  BY <1>25, IdleIs, MarksAssumption DEF RestoreSaved, RestoreAt, Saved, Goto, Done, disk, world, conf, bk, mgr,
     hist, bounds, Step, WhoInv, Others, Restoring, Formed, Typed, MemTyped, HistoryTyped, Shape, StageShape,
     ManagerShape, WebShape, BackupShape, LockShape, Free, NoOp, Threads, Ops
<1>26. CASE RestoreUnsaved
  BY <1>26, IdleIs, MarksAssumption DEF RestoreUnsaved, RestoreAt, Unsaved, RestoreEnds, Done, disk, world,
     conf, mgr, bounds, Step, Return, WhoInv, Others, Restoring, Formed, Typed, MemTyped, HistoryTyped, Shape,
     StageShape, ManagerShape, WebShape, BackupShape, LockShape, Free, NoOp, Threads, Ops
<1>27. CASE ReplaceStore
  BY <1>27, IdleIs, MarksAssumption DEF ReplaceStore, RestoreAt, Goto, world, conf, bk, mgr, hist, bounds, Step,
     WhoInv, Others, Restoring, Formed, Typed, MemTyped, HistoryTyped, Shape, StageShape, ManagerShape,
     WebShape, BackupShape, LockShape, Free, NoOp, Threads, Ops
<1>28. CASE ReplaceStoreFails
  BY <1>28, IdleIs, MarksAssumption DEF ReplaceStoreFails, RestoreAt, Faulty, Goto, disk, world, conf, bk, mgr,
     hist, Step, WhoInv, Others, Restoring, Formed, Typed, MemTyped, HistoryTyped, Shape, StageShape,
     ManagerShape, WebShape, BackupShape, LockShape, Free, NoOp, Threads, Ops
<1>29. CASE ApplyRestored
  BY <1>29, IdleIs, MarksAssumption DEF ApplyRestored, RestoreAt, ApplyBackup, Step, Goto, mgr, Lock, Packs,
     StartsAsIs, Becomes, disk, world, bk, hist, bounds, Start, WhoInv, Others, Restoring, Formed, Typed,
     MemTyped, HistoryTyped, Shape, StageShape, ManagerShape, WebShape, BackupShape, LockShape, Free, NoOp,
     Threads, Ops
<1>30. CASE Reapply
  BY <1>30, IdleIs, MarksAssumption DEF Reapply, RestoreAt, ApplyBackup, Step, Goto, mgr, Lock, Packs,
     StartsAsIs, Becomes, disk, world, bk, hist, bounds, Start, WhoInv, Others, Restoring, Formed, Typed,
     MemTyped, HistoryTyped, Shape, StageShape, ManagerShape, WebShape, BackupShape, LockShape, Free, NoOp,
     Threads, Ops
<1>31. CASE ListNodes
  BY <1>31, IdleIs, MarksAssumption DEF ListNodes, RestoreAt, Goto, world, conf, bk, mgr, hist, bounds, Step,
     WhoInv, Others, Restoring, Formed, Typed, MemTyped, HistoryTyped, Shape, StageShape, ManagerShape,
     WebShape, BackupShape, LockShape, Free, NoOp, Threads, Ops
<1>32. CASE SetChainProfiles
  BY <1>32, IdleIs, MarksAssumption DEF SetChainProfiles, RestoreAt, RestoreEnds, disk, world, conf, mgr,
     bounds, Step, Return, WhoInv, Others, Restoring, Formed, Typed, MemTyped, HistoryTyped, Shape, StageShape,
     ManagerShape, WebShape, BackupShape, LockShape, Free, NoOp, Threads, Ops
<1>33. CASE RestoreFailsLate
  BY <1>33, IdleIs, MarksAssumption DEF RestoreFailsLate, RestoreAt, Faulty, Goto, disk, world, conf, bk, mgr,
     hist, Step, WhoInv, Others, Restoring, Formed, Typed, MemTyped, HistoryTyped, Shape, StageShape,
     ManagerShape, WebShape, BackupShape, LockShape, Free, NoOp, Threads, Ops
<1>34. CASE PutFileBack
  BY <1>34, IdleIs, MarksAssumption DEF PutFileBack, RestoreAt, Start, Goto, disk, world, conf, bk, mgr, bounds,
     Step, WhoInv, Others, Restoring, Formed, Typed, MemTyped, HistoryTyped, Shape, StageShape, ManagerShape,
     WebShape, BackupShape, LockShape, Free, NoOp, Threads, Ops
<1>35. CASE PutStoreBack
  BY <1>35, IdleIs, MarksAssumption DEF PutStoreBack, RestoreAt, Saved, Unsaved, Done, Faulty, RestoreEnds,
     world, conf, mgr, Step, Return, WhoInv, Others, Restoring, Formed, Typed, MemTyped, HistoryTyped, Shape,
     StageShape, ManagerShape, WebShape, BackupShape, LockShape, Free, NoOp, Threads, Ops
<1>36. ASSUME NEW t \in Threads, MoveConflicts(t) PROVE WhoInv'
  BY <1>36, IdleIs, MarksAssumption DEF MoveConflicts, Applying, Saved, Start, Becomes, disk, world, bk, hist,
     bounds, WhoInv, Others, Restoring, Formed, Typed, MemTyped, HistoryTyped, Shape, StageShape, ManagerShape,
     WebShape, BackupShape, LockShape, Free, NoOp, Threads, Ops
<1>37. ASSUME NEW t \in Threads, Applied(t) PROVE WhoInv'
  BY <1>37, IdleIs, MarksAssumption DEF Applied, Applying, Saved, Unlock, Done, Goto, disk, world, bk, hist,
     bounds, WhoInv, Others, Restoring, Formed, Typed, MemTyped, HistoryTyped, Shape, StageShape, ManagerShape,
     WebShape, BackupShape, LockShape, Free, NoOp, Threads, Ops
<1>38. ASSUME NEW t \in Threads, RollBack(t) PROVE WhoInv'
  BY <1>38, IdleIs, MarksAssumption DEF RollBack, Applying, Unsaved, Saved, Faulty, Start, Goto, disk, world,
     conf, bk, mgr, hist, WhoInv, Others, Restoring, Formed, Typed, MemTyped, HistoryTyped, Shape, StageShape,
     ManagerShape, WebShape, BackupShape, LockShape, Free, NoOp, Threads, Ops
<1>39. ASSUME NEW t \in Threads, RolledBack(t) PROVE WhoInv'
  BY <1>39, IdleIs, MarksAssumption DEF RolledBack, Saved, Unsaved, Unlock, Done, ApplyError, disk, world, bk,
     hist, bounds, Goto, Return, WhoInv, Others, Restoring, Formed, Typed, MemTyped, HistoryTyped, Shape,
     StageShape, ManagerShape, WebShape, BackupShape, LockShape, Free, NoOp, Threads, Ops
<1>40. ASSUME NEW t \in Threads, StartFails(t) PROVE WhoInv'
  BY <1>40, IdleIs, MarksAssumption DEF StartFails, Applying, Unsaved, Saved, Faulty, Unlock, Done, ApplyError,
     disk, world, bk, hist, Goto, Return, WhoInv, Others, Restoring, Formed, Typed, MemTyped, HistoryTyped,
     Shape, StageShape, ManagerShape, WebShape, BackupShape, LockShape, Free, NoOp, Threads, Ops
<1>41. CASE ProgramNext
  BY <1>41, <1>1, <1>2, <1>3, <1>4, <1>5, <1>6, <1>7, <1>8 DEF ProgramNext
<1>42. CASE ManagerNext
  BY <1>42, <1>9, <1>10, <1>11, <1>12, <1>13, <1>14, <1>15, <1>16 DEF ManagerNext
<1>43. CASE WebNext
  BY <1>43, SettingsEdits, <1>17, <1>18 DEF WebNext
<1>44. CASE BackupNext
  BY <1>44, <1>19, <1>20, <1>21, <1>22, <1>23, <1>24, <1>25, <1>26, <1>27, <1>28, <1>29, <1>30, <1>31, <1>32,
     <1>33, <1>34, <1>35 DEF BackupNext
<1>45. ASSUME NEW t \in Threads, ApplyNext(t) PROVE WhoInv'
  BY <1>45, <1>36, <1>37, <1>38, <1>39, <1>40 DEF ApplyNext
<1>46. ASSUME NEW t \in Threads, Save(t) PROVE WhoInv'
  <2>1. UNCHANGED <<op, target, synced>>
    BY <1>46, SaveDoes DEF conf, mgr
  <2>2. disturbed => disturbed'
    BY <1>46 DEF Save, Prepare, PrepareFails, Rename, Truncate, Fill, FillFails, hist
  <2> QED BY <2>1, <2>2 DEF WhoInv, Free
<1>47. CASE UNCHANGED vars
  BY <1>47 DEF WhoInv, Free, vars, conf, mgr, hist
<1> QED BY <1>41, <1>42, <1>43, <1>44, <1>45, <1>46, <1>47 DEF Next

\* The settings that the WebUI shows are those of the object it shares with the
\* manager.
SyncInv == stage # "off" /\ synced => web = mem.settings

LEMMA SyncNext ==
    ASSUME Formed, SyncInv, [Next]_vars
    PROVE  SyncInv'
<1>1. CASE Load
  BY <1>1, LoadDoes DEF SyncInv
<1>2. CASE Stop
  BY <1>2, IdleIs, MarksAssumption DEF Stop, Gone, disk, bounds, Threads, SyncInv, Formed, Typed, MemTyped,
     HistoryTyped, Shape, StageShape, ManagerShape, WebShape, BackupShape, LockShape, Free, NoOp, Ops
<1>3. CASE Filter
  BY <1>3, FilterDoes DEF SyncInv, Filter
<1>4. CASE NoPool
  BY <1>4, IdleIs, MarksAssumption DEF NoPool, Serve, disk, world, bk, mgr, hist, bounds, SyncInv, Formed,
     Typed, MemTyped, HistoryTyped, Shape, StageShape, ManagerShape, WebShape, BackupShape, LockShape, Free,
     NoOp, Threads, Ops
<1>5. CASE PackingSaved
  BY <1>5, IdleIs, MarksAssumption DEF PackingSaved, Saved, Done, disk, world, conf, bk, mgr, hist, bounds,
     SyncInv, Formed, Typed, MemTyped, HistoryTyped, Shape, StageShape, ManagerShape, WebShape, BackupShape,
     LockShape, Free, NoOp, Threads, Ops
<1>6. CASE PackingFails
  BY <1>6, IdleIs, MarksAssumption DEF PackingFails, Unsaved, Gone, disk, world, bounds, Threads, SyncInv,
     Formed, Typed, MemTyped, HistoryTyped, Shape, StageShape, ManagerShape, WebShape, BackupShape, LockShape,
     Free, NoOp, Ops
<1>7. CASE SyncPorts
  BY <1>7, IdleIs, MarksAssumption DEF SyncPorts, Serve, world, bk, mgr, hist, bounds, SyncInv, Formed, Typed,
     MemTyped, HistoryTyped, Shape, StageShape, ManagerShape, WebShape, BackupShape, LockShape, Free, NoOp,
     Threads, Ops
<1>8. CASE SyncFails
  BY <1>8, IdleIs, MarksAssumption DEF SyncFails, Faulty, Gone, disk, world, Threads, SyncInv, Formed, Typed,
     MemTyped, HistoryTyped, Shape, StageShape, ManagerShape, WebShape, BackupShape, LockShape, Free, NoOp, Ops
<1>9. ASSUME NEW r \in Routes, CreateNode(r) PROVE SyncInv'
  BY <1>9, CreateDoes DEF CreateNode, Edit, SyncInv
<1>10. ASSUME NEW r \in Routes, DeleteNode(r) PROVE SyncInv'
  BY <1>10, DeleteDoes DEF DeleteNode, Edit, SyncInv
<1>11. CASE EditSaved
  BY <1>11, IdleIs, MarksAssumption DEF EditSaved, Editing, Saved, Goto, Done, Unlock, disk, world, conf, bk,
     hist, bounds, SyncInv, Formed, Typed, MemTyped, HistoryTyped, Shape, StageShape, ManagerShape, WebShape,
     BackupShape, LockShape, Free, NoOp, Threads, Ops
<1>12. CASE EditFails
  BY <1>12, IdleIs, MarksAssumption, WithNodes DEF EditFails, Editing, Unsaved, Undone, Return, Done, Unlock,
     disk, world, bk, hist, bounds, SyncInv, Formed, Typed, MemTyped, HistoryTyped, Shape, StageShape,
     ManagerShape, WebShape, BackupShape, LockShape, Free, NoOp, Threads, Ops
<1>13. CASE EditPool
  BY <1>13, IdleIs, MarksAssumption DEF EditPool, Return, Restoring, world, conf, bk, mgr, bounds, SyncInv,
     Formed, Typed, MemTyped, HistoryTyped, Shape, StageShape, ManagerShape, WebShape, BackupShape, LockShape,
     Free, NoOp, Threads, Ops
<1>14. CASE Reload
  BY <1>14, IdleIs, MarksAssumption DEF Reload, Begin, Lock, disk, world, conf, bk, Free, Crosses, Others,
     Restoring, Threads, SyncInv, Formed, Typed, MemTyped, HistoryTyped, Shape, StageShape, ManagerShape,
     WebShape, BackupShape, LockShape, NoOp, Ops
<1>15. CASE ReloadPool
  BY <1>15, IdleIs, MarksAssumption DEF ReloadPool, Step, Return, Restoring, world, conf, bk, mgr, bounds,
     SyncInv, Formed, Typed, MemTyped, HistoryTyped, Shape, StageShape, ManagerShape, WebShape, BackupShape,
     LockShape, Free, NoOp, Threads, Ops
<1>16. CASE EnterEmpty
  BY <1>16, IdleIs, MarksAssumption DEF EnterEmpty, Free, disk, world, bk, mgr, hist, SyncInv, Formed, Typed,
     MemTyped, HistoryTyped, Shape, StageShape, ManagerShape, WebShape, BackupShape, LockShape, NoOp, Threads,
     Ops
<1>17. ASSUME NEW settings \in Settings, EditSettings(settings) PROVE SyncInv'
  <2>1. mem \in Configs /\ [mem EXCEPT !.settings = settings].settings = settings
    BY <1>17, WithSettings DEF EditSettings, Formed, Typed, MemTyped
  <2> QED BY <1>17, <2>1 DEF EditSettings, SyncInv
<1>18. CASE SettingsEnd
  BY <1>18, IdleIs, MarksAssumption DEF SettingsEnd, Step, Saved, Unsaved, Return, Done, disk, world, conf, bk,
     mgr, hist, bounds, SyncInv, Formed, Typed, MemTyped, HistoryTyped, Shape, StageShape, ManagerShape,
     WebShape, BackupShape, LockShape, Free, NoOp, Threads, Ops
<1>19. CASE SetWebDAV
  BY <1>19, IdleIs, MarksAssumption DEF SetWebDAV, Begin, Start, disk, world, conf, bk, mgr, Free, Crosses,
     Others, Restoring, Threads, SyncInv, Formed, Typed, MemTyped, HistoryTyped, Shape, StageShape,
     ManagerShape, WebShape, BackupShape, LockShape, NoOp, Ops
<1>20. CASE WebDAVSaved
  BY <1>20, IdleIs, MarksAssumption DEF WebDAVSaved, Step, Saved, Return, Done, disk, world, conf, mgr, hist,
     bounds, SyncInv, Formed, Typed, MemTyped, HistoryTyped, Shape, StageShape, ManagerShape, WebShape,
     BackupShape, LockShape, Free, NoOp, Threads, Ops
<1>21. CASE WebDAVFails
  BY <1>21, IdleIs, MarksAssumption DEF WebDAVFails, Step, Unsaved, Return, Done, disk, world, conf, bk, mgr,
     hist, bounds, SyncInv, Formed, Typed, MemTyped, HistoryTyped, Shape, StageShape, ManagerShape, WebShape,
     BackupShape, LockShape, Free, NoOp, Threads, Ops
<1>22. CASE CreateBackup
  BY <1>22, IdleIs, MarksAssumption DEF CreateBackup, Begin, disk, world, conf, bk, mgr, Free, Crosses, Others,
     Restoring, Threads, SyncInv, Formed, Typed, MemTyped, HistoryTyped, Shape, StageShape, ManagerShape,
     WebShape, BackupShape, LockShape, NoOp, Ops
<1>23. CASE SnapshotStore
  BY <1>23, IdleIs, MarksAssumption DEF SnapshotStore, Step, Return, disk, world, conf, mgr, hist, bounds,
     SyncInv, Formed, Typed, MemTyped, HistoryTyped, Shape, StageShape, ManagerShape, WebShape, BackupShape,
     LockShape, Free, NoOp, Threads, Ops
<1>24. CASE Restore
  BY <1>24, IdleIs, MarksAssumption DEF Restore, Begin, Remembered, Start, disk, world, conf, mgr, Free,
     Crosses, Others, Restoring, Threads, SyncInv, Formed, Typed, MemTyped, HistoryTyped, Shape, StageShape,
     ManagerShape, WebShape, BackupShape, LockShape, NoOp, Ops
<1>25. CASE RestoreSaved
  BY <1>25, IdleIs, MarksAssumption DEF RestoreSaved, RestoreAt, Saved, Goto, Done, disk, world, conf, bk, mgr,
     hist, bounds, Step, SyncInv, Formed, Typed, MemTyped, HistoryTyped, Shape, StageShape, ManagerShape,
     WebShape, BackupShape, LockShape, Free, NoOp, Threads, Ops
<1>26. CASE RestoreUnsaved
  BY <1>26, IdleIs, MarksAssumption DEF RestoreUnsaved, RestoreAt, Unsaved, RestoreEnds, Done, disk, world,
     conf, mgr, bounds, Step, Return, SyncInv, Formed, Typed, MemTyped, HistoryTyped, Shape, StageShape,
     ManagerShape, WebShape, BackupShape, LockShape, Free, NoOp, Threads, Ops
<1>27. CASE ReplaceStore
  BY <1>27, IdleIs, MarksAssumption DEF ReplaceStore, RestoreAt, Goto, world, conf, bk, mgr, hist, bounds, Step,
     SyncInv, Formed, Typed, MemTyped, HistoryTyped, Shape, StageShape, ManagerShape, WebShape, BackupShape,
     LockShape, Free, NoOp, Threads, Ops
<1>28. CASE ReplaceStoreFails
  BY <1>28, IdleIs, MarksAssumption DEF ReplaceStoreFails, RestoreAt, Faulty, Goto, disk, world, conf, bk, mgr,
     hist, Step, SyncInv, Formed, Typed, MemTyped, HistoryTyped, Shape, StageShape, ManagerShape, WebShape,
     BackupShape, LockShape, Free, NoOp, Threads, Ops
<1>29. CASE ApplyRestored
  BY <1>29, IdleIs, MarksAssumption DEF ApplyRestored, RestoreAt, ApplyBackup, Step, Goto, mgr, Lock,
     StartsAsIs, Becomes, disk, world, bk, hist, bounds, Start, SyncInv, Formed, Typed, MemTyped, HistoryTyped,
     Shape, StageShape, ManagerShape, WebShape, BackupShape, LockShape, Free, NoOp, Threads, Ops
<1>30. CASE Reapply
  BY <1>30, IdleIs, MarksAssumption DEF Reapply, RestoreAt, ApplyBackup, Step, Goto, mgr, Lock, StartsAsIs,
     Becomes, disk, world, bk, hist, bounds, Start, SyncInv, Formed, Typed, MemTyped, HistoryTyped, Shape,
     StageShape, ManagerShape, WebShape, BackupShape, LockShape, Free, NoOp, Threads, Ops
<1>31. CASE ListNodes
  BY <1>31, IdleIs, MarksAssumption DEF ListNodes, RestoreAt, Goto, world, conf, bk, mgr, hist, bounds, Step,
     SyncInv, Formed, Typed, MemTyped, HistoryTyped, Shape, StageShape, ManagerShape, WebShape, BackupShape,
     LockShape, Free, NoOp, Threads, Ops
<1>32. CASE SetChainProfiles
  BY <1>32, IdleIs, MarksAssumption DEF SetChainProfiles, RestoreAt, RestoreEnds, disk, world, conf, mgr,
     bounds, Step, Return, SyncInv, Formed, Typed, MemTyped, HistoryTyped, Shape, StageShape, ManagerShape,
     WebShape, BackupShape, LockShape, Free, NoOp, Threads, Ops
<1>33. CASE RestoreFailsLate
  BY <1>33, IdleIs, MarksAssumption DEF RestoreFailsLate, RestoreAt, Faulty, Goto, disk, world, conf, bk, mgr,
     hist, Step, SyncInv, Formed, Typed, MemTyped, HistoryTyped, Shape, StageShape, ManagerShape, WebShape,
     BackupShape, LockShape, Free, NoOp, Threads, Ops
<1>34. CASE PutFileBack
  BY <1>34, IdleIs, MarksAssumption DEF PutFileBack, RestoreAt, Start, Goto, disk, world, conf, bk, mgr, bounds,
     Step, SyncInv, Formed, Typed, MemTyped, HistoryTyped, Shape, StageShape, ManagerShape, WebShape,
     BackupShape, LockShape, Free, NoOp, Threads, Ops
<1>35. CASE PutStoreBack
  BY <1>35, IdleIs, MarksAssumption DEF PutStoreBack, RestoreAt, Saved, Unsaved, Done, Faulty, RestoreEnds,
     world, conf, mgr, Step, Return, SyncInv, Formed, Typed, MemTyped, HistoryTyped, Shape, StageShape,
     ManagerShape, WebShape, BackupShape, LockShape, Free, NoOp, Threads, Ops
<1>36. ASSUME NEW t \in Threads, MoveConflicts(t) PROVE SyncInv'
  BY <1>36, IdleIs, MarksAssumption DEF MoveConflicts, Applying, Saved, Start, Becomes, disk, world, bk, hist,
     bounds, SyncInv, Formed, Typed, MemTyped, HistoryTyped, Shape, StageShape, ManagerShape, WebShape,
     BackupShape, LockShape, Free, NoOp, Threads, Ops
<1>37. ASSUME NEW t \in Threads, Applied(t) PROVE SyncInv'
  BY <1>37, IdleIs, MarksAssumption DEF Applied, Applying, Saved, Unlock, Done, Goto, disk, world, bk, hist,
     bounds, SyncInv, Formed, Typed, MemTyped, HistoryTyped, Shape, StageShape, ManagerShape, WebShape,
     BackupShape, LockShape, Free, NoOp, Threads, Ops
<1>38. ASSUME NEW t \in Threads, RollBack(t) PROVE SyncInv'
  BY <1>38, IdleIs, MarksAssumption DEF RollBack, Applying, Unsaved, Saved, Faulty, Start, Goto, disk, world,
     conf, bk, mgr, hist, SyncInv, Formed, Typed, MemTyped, HistoryTyped, Shape, StageShape, ManagerShape,
     WebShape, BackupShape, LockShape, Free, NoOp, Threads, Ops
<1>39. ASSUME NEW t \in Threads, RolledBack(t) PROVE SyncInv'
  BY <1>39, IdleIs, MarksAssumption DEF RolledBack, Saved, Unsaved, Unlock, Done, ApplyError, disk, world, bk,
     hist, bounds, Goto, Return, SyncInv, Formed, Typed, MemTyped, HistoryTyped, Shape, StageShape,
     ManagerShape, WebShape, BackupShape, LockShape, Free, NoOp, Threads, Ops
<1>40. ASSUME NEW t \in Threads, StartFails(t) PROVE SyncInv'
  BY <1>40, IdleIs, MarksAssumption DEF StartFails, Applying, Unsaved, Saved, Faulty, Unlock, Done, ApplyError,
     disk, world, bk, hist, Goto, Return, SyncInv, Formed, Typed, MemTyped, HistoryTyped, Shape, StageShape,
     ManagerShape, WebShape, BackupShape, LockShape, Free, NoOp, Threads, Ops
<1>41. CASE ProgramNext
  BY <1>41, <1>1, <1>2, <1>3, <1>4, <1>5, <1>6, <1>7, <1>8 DEF ProgramNext
<1>42. CASE ManagerNext
  BY <1>42, <1>9, <1>10, <1>11, <1>12, <1>13, <1>14, <1>15, <1>16 DEF ManagerNext
<1>43. CASE WebNext
  BY <1>43, SettingsEdits, <1>17, <1>18 DEF WebNext
<1>44. CASE BackupNext
  BY <1>44, <1>19, <1>20, <1>21, <1>22, <1>23, <1>24, <1>25, <1>26, <1>27, <1>28, <1>29, <1>30, <1>31, <1>32,
     <1>33, <1>34, <1>35 DEF BackupNext
<1>45. ASSUME NEW t \in Threads, ApplyNext(t) PROVE SyncInv'
  BY <1>45, <1>36, <1>37, <1>38, <1>39, <1>40 DEF ApplyNext
<1>46. ASSUME NEW t \in Threads, Save(t) PROVE SyncInv'
  BY <1>46, SaveDoes DEF SyncInv, conf
<1>47. CASE UNCHANGED vars
  BY <1>47 DEF SyncInv, vars, conf
<1> QED BY <1>41, <1>42, <1>43, <1>44, <1>45, <1>46, <1>47 DEF Next

\* Undisturbed, config.yaml is short only while it is written or after a write
\* was cut off; what a restore remembers and puts back is not short.
ShortInv == ~disturbed =>
    /\ yaml = Short => cut \/ \E t \in Threads : Filling(t, "yaml")
    /\ rs.file = Short => cut
    /\ \A t \in Threads : Active(job[t]) /\ job[t].part = "putback" /\ job[t].content = Short => cut

LEMMA ShortQuiet == ASSUME Formed, FilesInv, WhoInv, ShortInv, QuietStep PROVE ShortInv'
<1>1. /\ UNCHANGED yaml /\ (disturbed => disturbed') /\ (cut => cut')
      /\ \A t \in Threads : JobMoves(t)
  BY DEF QuietStep
<1> SUFFICES ASSUME ~disturbed', ~cut' PROVE ShortInv'
  BY <1>1 DEF ShortInv
<1>2. ~disturbed /\ ~cut /\ rs.file # Short
  BY <1>1 DEF ShortInv
<1>3. \A t \in Threads : Filling(t, "yaml") => Filling(t, "yaml")'
  BY <1>1 DEF JobMoves, Filling
<1>4. yaml' = Short => \E t \in Threads : Filling(t, "yaml")'
  BY <1>1, <1>2, <1>3 DEF ShortInv
<1>5. \A t \in Threads : job'[t].part = "putback" => job'[t] = job[t] \/ job'[t].content = rs.file
  BY <1>1 DEF JobMoves
<1>6. \A t \in Threads : ~(Active(job'[t]) /\ job'[t].part = "putback" /\ job'[t].content = Short)
  BY <1>2, <1>5 DEF ShortInv
<1>7. rs'.file # Short
  <2>1. CASE Restore
    <3>1. rs'.file = yaml /\ \A t \in Threads : Free(t)
      BY <1>2, <2>1 DEF Restore, Remembered, Begin, Crosses, Others
    <3>2. stage = "serving"
      BY <2>1 DEF Restore
    <3>3. \A t \in Threads : ~Filling(t, "yaml")
      BY <3>1, <3>2, FreeIsIdle DEF Threads, Filling
    <3> QED BY <1>2, <3>1, <3>3 DEF ShortInv
  <2>2. CASE rs' = rs \/ rs' = NoRestore
    BY <1>2, <2>2, MarksAssumption DEF NoRestore
  <2> QED BY <2>1, <2>2 DEF QuietStep
<1> QED BY <1>4, <1>6, <1>7 DEF ShortInv

LEMMA SaveMarks == ASSUME NEW t \in Threads, Save(t) PROVE (disturbed => disturbed') /\ (cut => cut')
<1>1. disturbed => disturbed'
  BY DEF Save, Prepare, PrepareFails, Rename, Truncate, Fill, FillFails, hist
<1>2. cut => cut'
  BY DEF Save, Prepare, PrepareFails, Rename, Truncate, Fill, FillFails, hist
<1> QED BY <1>1, <1>2

LEMMA ShortSave == ASSUME Formed, FilesInv, ShortInv, NEW t \in Threads, Save(t) PROVE ShortInv'
<1> DEFINE j == job[t]
<1>1. /\ Active(j) /\ job' = [job EXCEPT ![t] = job'[t]] /\ job'[t].part = j.part /\ job'[t].content = j.content
      /\ UNCHANGED rs /\ t \in DOMAIN job /\ j \in Jobs /\ JobOK(j)
  BY SaveDoes DEF bk, Formed, Typed, Shape
<1>2. \A u \in Threads : u # t => job'[u] = job[u]
  BY <1>1 DEF Formed, Typed
<1>3. (disturbed => disturbed') /\ (cut => cut')
  BY SaveMarks
<1> SUFFICES ASSUME ~disturbed', ~cut' PROVE ShortInv'
  BY <1>3 DEF ShortInv
<1>4. rs'.file # Short
  BY <1>1, <1>3 DEF ShortInv
<1>5. ASSUME NEW u \in Threads, Active(job'[u]), job'[u].part = "putback", job'[u].content = Short PROVE FALSE
  <2>1. CASE u = t
    BY <1>1, <1>3, <1>5, <2>1 DEF ShortInv
  <2>2. CASE u # t
    BY <1>2, <1>3, <1>5, <2>2 DEF ShortInv
  <2> QED BY <2>1, <2>2
<1>6. ASSUME yaml' = Short PROVE \E u \in Threads : Filling(u, "yaml")'
  <2>1. CASE yaml = Short /\ j.at # "fill"
    <3>1. PICK u \in Threads : Filling(u, "yaml")
      BY <1>3, <2>1 DEF ShortInv
    <3>2. u # t
      BY <2>1, <3>1 DEF Filling
    <3> QED BY <1>2, <3>1, <3>2 DEF Filling
  <2>2. CASE j.at \in {"rename", "fill"} /\ j.data = Short
    <3>1. j.part = "putback" /\ j.content = Short
      BY <2>2, PreparedIs
    <3> QED BY <1>1, <1>3, <3>1 DEF ShortInv
  <2>3. CASE Prepare(t) \/ PrepareFails(t)
    <3>1. UNCHANGED yaml /\ j.at = "start"
      BY <2>3 DEF Prepare, PrepareFails, disk
    <3> QED BY <1>6, <2>1, <3>1
  <2>4. CASE Rename(t)
    <3>1. j.at = "rename" /\ yaml' \in {yaml, j.data}
      BY <2>4 DEF Rename, Put
    <3> QED BY <1>6, <2>1, <2>2, <3>1
  <2>5. CASE Truncate(t)
    <3>1. /\ j.at = "rename" /\ job'[t] = [j EXCEPT !.at = "fill"]
          /\ (Head(j.files) = "yaml" \/ UNCHANGED yaml)
      BY <1>1, <2>5 DEF Truncate, Put, Start
    <3>2. job'[t].at = "fill" /\ job'[t].files = j.files
      BY <1>1, <3>1 DEF Jobs
    <3>3. CASE Head(j.files) = "yaml"
      BY <3>2, <3>3 DEF Filling
    <3>4. CASE UNCHANGED yaml
      BY <1>6, <2>1, <3>1, <3>4
    <3> QED BY <3>1, <3>3, <3>4
  <2>6. CASE Fill(t)
    <3>1. j.at = "fill" /\ (yaml' \in {j.data, Mixed} \/ (Head(j.files) # "yaml" /\ UNCHANGED yaml))
      BY <2>6 DEF Fill, Put
    <3>2. CASE yaml' \in {j.data, Mixed}
      BY <1>6, <2>2, <3>1, <3>2, MarksAssumption
    <3>3. CASE Head(j.files) # "yaml" /\ UNCHANGED yaml
      <4>1. PICK u \in Threads : Filling(u, "yaml")
        BY <1>3, <1>6, <3>3 DEF ShortInv
      <4>2. u # t
        BY <3>3, <4>1 DEF Filling
      <4> QED BY <1>2, <4>1, <4>2 DEF Filling
    <3> QED BY <3>1, <3>2, <3>3
  <2>7. ~FillFails(t)
    BY DEF FillFails
  <2> QED BY <2>3, <2>4, <2>5, <2>6, <2>7 DEF Save
<1> QED BY <1>4, <1>5, <1>6 DEF ShortInv

LEMMA ShortNext == ASSUME Formed, FilesInv, WhoInv, ShortInv, [Next]_vars PROVE ShortInv'
<1>1. CASE UNCHANGED vars
  BY <1>1 DEF ShortInv, Filling, vars, disk, hist, bk
<1>2. CASE Load
  <2>1. stage = "off" /\ yaml' = yaml /\ disturbed' = (yaml = Short) /\ UNCHANGED <<rs, job>>
    BY <1>2 DEF Load, disk
  <2>2. rs = NoRestore /\ \A t \in Threads : job[t] = Idle
    BY <2>1 DEF FilesInv, Formed, Shape, StageShape, Threads
  <2> QED BY <2>1, <2>2, IdleIs, MarksAssumption DEF ShortInv, NoRestore
<1>3. CASE \E t \in Threads : Save(t)
  BY <1>3, ShortSave
<1>4. CASE Next /\ ~Load /\ \A t \in Threads : ~Save(t)
  BY <1>4, QuietSteps, ShortQuiet
<1> QED BY <1>1, <1>2, <1>3, <1>4

-----------------------------------------------------------------------------
(* Without faults saves do not fail, and nothing is rolled back.           *)

Clean == ~disturbed /\ ~cut /\ faults = 0
SmoothInv == Clean =>
    /\ \A t \in Threads : job[t].at # "failed"
    /\ op["manager"].pc # "rollback"
    /\ op["backup"].pc \in {"none", "save", "store", "toapply", "apply", "list", "chain"}
    /\ outcome \in {"none", "done"}

\* A save that fails has met a fault, unless config.yaml was spoilt before.
LEMMA SavesFail ==
    ASSUME Formed, FilesInv, ShortInv, NEW t \in Threads, Save(t), ~disturbed', ~cut', job'[t].at = "failed"
    PROVE  faults' = faults + 1
<1>1. /\ job' = [job EXCEPT ![t] = job'[t]] /\ job[t] \in Jobs /\ JobOK(job[t]) /\ t \in DOMAIN job
  BY SaveDoes DEF Formed, Typed, Shape
<1>2. ~disturbed /\ ~cut
  BY SaveMarks
<1>3. CASE Prepare(t)
  <2>1. PICK data : job'[t] = [job[t] EXCEPT !.at = "rename", !.data = data]
    BY <1>1, <1>3 DEF Prepare, Start, Formed, Typed
  <2> QED BY <1>1, <2>1 DEF Jobs
<1>4. CASE Rename(t) \/ Fill(t)
  <2>1. job'[t] = Advance(job[t]) /\ Active(job[t])
    BY <1>1, <1>4 DEF Rename, Fill, Start, Formed, Typed, Active
  <2> QED BY <1>1, <2>1, AdvanceIs
<1>5. CASE Truncate(t)
  <2>1. job'[t] = [job[t] EXCEPT !.at = "fill"]
    BY <1>1, <1>5 DEF Truncate, Start, Formed, Typed
  <2> QED BY <1>1, <2>1 DEF Jobs
<1>6. CASE FillFails(t)
  BY <1>6 DEF FillFails
<1>7. CASE PrepareFails(t)
  <2> SUFFICES ASSUME faults' # faults + 1 PROVE FALSE
    OBVIOUS
  <2>1. /\ job[t].at = "start" /\ NeedsFile(job[t]) /\ yaml \in {Short, Mixed}
        /\ disturbed' = (disturbed \/ Crowded(t))
    BY <1>7 DEF PrepareFails, Faulty
  <2>2. yaml = Short
    BY <1>2, <2>1 DEF FilesInv
  <2>3. PICK u \in Threads : Filling(u, "yaml")
    BY <1>2, <2>2 DEF ShortInv
  <2>4. u # t /\ Writing(u) /\ Head(job[t].files) = "yaml"
    BY <2>1, <2>3 DEF Filling, Writing, NeedsFile
  <2> QED BY <2>1, <2>4 DEF Crowded, Others
<1> QED BY <1>3, <1>4, <1>5, <1>6, <1>7 DEF Save

LEMMA SmoothNext ==
    ASSUME Formed, FilesInv, ShortInv, SmoothInv, [Next]_vars
    PROVE  SmoothInv'
<1>1. CASE Load
  BY <1>1, IdleIs, MarksAssumption DEF Load, disk, world, mgr, SmoothInv, Clean, Others, Restoring, Idle,
     Formed, Typed, MemTyped, HistoryTyped, Shape, StageShape, ManagerShape, WebShape, BackupShape, LockShape,
     Free, NoOp, Threads, Ops
<1>2. CASE Stop
  BY <1>2, IdleIs, MarksAssumption DEF Stop, Gone, disk, bounds, Threads, SmoothInv, Clean, Others, Restoring,
     Idle, Formed, Typed, MemTyped, HistoryTyped, Shape, StageShape, ManagerShape, WebShape, BackupShape,
     LockShape, Free, NoOp, Ops
<1>3. CASE Filter
  <2>1. /\ job' = [job EXCEPT !["manager"] = SaveNodes(mem')]
        /\ UNCHANGED <<disturbed, cut, faults, op, outcome>>
    BY <1>3, FilterDoes DEF Filter, hist, bounds
  <2> QED BY <2>1, StartsAre DEF SmoothInv, Clean, Formed, Typed
<1>4. CASE NoPool
  BY <1>4, IdleIs, MarksAssumption DEF NoPool, Serve, disk, world, bk, mgr, hist, bounds, SmoothInv, Clean,
     Others, Restoring, Idle, Formed, Typed, MemTyped, HistoryTyped, Shape, StageShape, ManagerShape, WebShape,
     BackupShape, LockShape, Free, NoOp, Threads, Ops
<1>5. CASE PackingSaved
  BY <1>5, IdleIs, MarksAssumption DEF PackingSaved, Saved, Done, disk, world, conf, bk, mgr, hist, bounds,
     SmoothInv, Clean, Others, Restoring, Idle, Formed, Typed, MemTyped, HistoryTyped, Shape, StageShape,
     ManagerShape, WebShape, BackupShape, LockShape, Free, NoOp, Threads, Ops
<1>6. CASE PackingFails
  BY <1>6, IdleIs, MarksAssumption DEF PackingFails, Unsaved, Gone, disk, world, bounds, Threads, SmoothInv,
     Clean, Others, Restoring, Idle, Formed, Typed, MemTyped, HistoryTyped, Shape, StageShape, ManagerShape,
     WebShape, BackupShape, LockShape, Free, NoOp, Ops
<1>7. CASE SyncPorts
  BY <1>7, IdleIs, MarksAssumption DEF SyncPorts, Serve, world, bk, mgr, hist, bounds, SmoothInv, Clean, Others,
     Restoring, Idle, Formed, Typed, MemTyped, HistoryTyped, Shape, StageShape, ManagerShape, WebShape,
     BackupShape, LockShape, Free, NoOp, Threads, Ops
<1>8. CASE SyncFails
  BY <1>8, IdleIs, MarksAssumption DEF SyncFails, Faulty, Gone, disk, world, Threads, SmoothInv, Clean, Others,
     Restoring, Idle, Formed, Typed, MemTyped, HistoryTyped, Shape, StageShape, ManagerShape, WebShape,
     BackupShape, LockShape, Free, NoOp, Ops
<1>9. ASSUME NEW r \in Routes, CreateNode(r) PROVE SmoothInv'
  BY <1>9, IdleIs, MarksAssumption, StartsAre DEF CreateNode, Edit, Begin, Lock, Start, disk, world, bk, Free,
     Crosses, Others, Restoring, Threads, SmoothInv, Clean, Idle, Formed, Typed, MemTyped, HistoryTyped, Shape,
     StageShape, ManagerShape, WebShape, BackupShape, LockShape, NoOp, Ops
<1>10. ASSUME NEW r \in Routes, DeleteNode(r) PROVE SmoothInv'
  BY <1>10, IdleIs, MarksAssumption, StartsAre DEF DeleteNode, Edit, Begin, Lock, Start, disk, world, bk, Free,
     Crosses, Others, Restoring, Threads, SmoothInv, Clean, Idle, Formed, Typed, MemTyped, HistoryTyped, Shape,
     StageShape, ManagerShape, WebShape, BackupShape, LockShape, NoOp, Ops
<1>11. CASE EditSaved
  BY <1>11, IdleIs, MarksAssumption DEF EditSaved, Editing, Saved, Goto, Done, Unlock, disk, world, conf, bk,
     hist, bounds, SmoothInv, Clean, Others, Restoring, Idle, Formed, Typed, MemTyped, HistoryTyped, Shape,
     StageShape, ManagerShape, WebShape, BackupShape, LockShape, Free, NoOp, Threads, Ops
<1>12. CASE EditFails
  BY <1>12, IdleIs, MarksAssumption DEF EditFails, Editing, Unsaved, Undone, Return, Done, Unlock, disk, world,
     bk, hist, bounds, SmoothInv, Clean, Others, Restoring, Idle, Formed, Typed, MemTyped, HistoryTyped, Shape,
     StageShape, ManagerShape, WebShape, BackupShape, LockShape, Free, NoOp, Threads, Ops
<1>13. CASE EditPool
  BY <1>13, IdleIs, MarksAssumption DEF EditPool, Return, Restoring, world, conf, bk, mgr, bounds, SmoothInv,
     Clean, Others, Idle, Formed, Typed, MemTyped, HistoryTyped, Shape, StageShape, ManagerShape, WebShape,
     BackupShape, LockShape, Free, NoOp, Threads, Ops
<1>14. CASE Reload
  BY <1>14, IdleIs, MarksAssumption, StartsAre DEF Reload, Begin, Lock, Packs, disk, world, conf, bk, Free,
     Crosses, Start, Others, Restoring, Threads, SmoothInv, Clean, Idle, Formed, Typed, MemTyped, HistoryTyped,
     Shape, StageShape, ManagerShape, WebShape, BackupShape, LockShape, NoOp, Ops
<1>15. CASE ReloadPool
  BY <1>15, IdleIs, MarksAssumption DEF ReloadPool, Step, Return, Restoring, world, conf, bk, mgr, bounds,
     SmoothInv, Clean, Others, Idle, Formed, Typed, MemTyped, HistoryTyped, Shape, StageShape, ManagerShape,
     WebShape, BackupShape, LockShape, Free, NoOp, Threads, Ops
<1>16. CASE EnterEmpty
  BY <1>16, IdleIs, MarksAssumption DEF EnterEmpty, Free, disk, world, bk, mgr, hist, SmoothInv, Clean, Others,
     Restoring, Idle, Formed, Typed, MemTyped, HistoryTyped, Shape, StageShape, ManagerShape, WebShape,
     BackupShape, LockShape, NoOp, Threads, Ops
<1>17. ASSUME NEW settings \in Settings, EditSettings(settings) PROVE SmoothInv'
  BY <1>17, IdleIs, MarksAssumption, StartsAre DEF EditSettings, Begin, Start, disk, world, bk, mgr, Free,
     Crosses, Others, Restoring, Threads, SmoothInv, Clean, Idle, Formed, Typed, MemTyped, HistoryTyped, Shape,
     StageShape, ManagerShape, WebShape, BackupShape, LockShape, NoOp, Ops
<1>18. CASE SettingsEnd
  BY <1>18, IdleIs, MarksAssumption DEF SettingsEnd, Step, Saved, Unsaved, Return, Done, disk, world, conf, bk,
     mgr, hist, bounds, SmoothInv, Clean, Others, Restoring, Idle, Formed, Typed, MemTyped, HistoryTyped, Shape,
     StageShape, ManagerShape, WebShape, BackupShape, LockShape, Free, NoOp, Threads, Ops
<1>19. CASE SetWebDAV
  BY <1>19, IdleIs, MarksAssumption, StartsAre DEF SetWebDAV, Begin, Start, disk, world, conf, bk, mgr, Free,
     Crosses, Others, Restoring, Threads, SmoothInv, Clean, Idle, Formed, Typed, MemTyped, HistoryTyped, Shape,
     StageShape, ManagerShape, WebShape, BackupShape, LockShape, NoOp, Ops
<1>20. CASE WebDAVSaved
  BY <1>20, IdleIs, MarksAssumption DEF WebDAVSaved, Step, Saved, Return, Done, disk, world, conf, mgr, hist,
     bounds, SmoothInv, Clean, Others, Restoring, Idle, Formed, Typed, MemTyped, HistoryTyped, Shape,
     StageShape, ManagerShape, WebShape, BackupShape, LockShape, Free, NoOp, Threads, Ops
<1>21. CASE WebDAVFails
  BY <1>21, IdleIs, MarksAssumption DEF WebDAVFails, Step, Unsaved, Return, Done, disk, world, conf, bk, mgr,
     hist, bounds, SmoothInv, Clean, Others, Restoring, Idle, Formed, Typed, MemTyped, HistoryTyped, Shape,
     StageShape, ManagerShape, WebShape, BackupShape, LockShape, Free, NoOp, Threads, Ops
<1>22. CASE CreateBackup
  BY <1>22, IdleIs, MarksAssumption DEF CreateBackup, Begin, disk, world, conf, bk, mgr, Free, Crosses, Others,
     Restoring, Threads, SmoothInv, Clean, Idle, Formed, Typed, MemTyped, HistoryTyped, Shape, StageShape,
     ManagerShape, WebShape, BackupShape, LockShape, NoOp, Ops
<1>23. CASE SnapshotStore
  BY <1>23, IdleIs, MarksAssumption DEF SnapshotStore, Step, Return, disk, world, conf, mgr, hist, bounds,
     SmoothInv, Clean, Others, Restoring, Idle, Formed, Typed, MemTyped, HistoryTyped, Shape, StageShape,
     ManagerShape, WebShape, BackupShape, LockShape, Free, NoOp, Threads, Ops
<1>24. CASE Restore
  BY <1>24, IdleIs, MarksAssumption, StartsAre DEF Restore, Begin, Remembered, Start, disk, world, conf, mgr,
     Free, Crosses, Others, Restoring, Threads, SmoothInv, Clean, Idle, Formed, Typed, MemTyped, HistoryTyped,
     Shape, StageShape, ManagerShape, WebShape, BackupShape, LockShape, NoOp, Ops
<1>25. CASE RestoreSaved
  BY <1>25, IdleIs, MarksAssumption DEF RestoreSaved, RestoreAt, Saved, Goto, Done, disk, world, conf, bk, mgr,
     hist, bounds, Step, SmoothInv, Clean, Others, Restoring, Idle, Formed, Typed, MemTyped, HistoryTyped,
     Shape, StageShape, ManagerShape, WebShape, BackupShape, LockShape, Free, NoOp, Threads, Ops
<1>26. CASE RestoreUnsaved
  BY <1>26, IdleIs, MarksAssumption DEF RestoreUnsaved, RestoreAt, Unsaved, RestoreEnds, Done, disk, world,
     conf, mgr, bounds, Step, Return, SmoothInv, Clean, Others, Restoring, Idle, Formed, Typed, MemTyped,
     HistoryTyped, Shape, StageShape, ManagerShape, WebShape, BackupShape, LockShape, Free, NoOp, Threads, Ops
<1>27. CASE ReplaceStore
  BY <1>27, IdleIs, MarksAssumption DEF ReplaceStore, RestoreAt, Goto, world, conf, bk, mgr, hist, bounds, Step,
     SmoothInv, Clean, Others, Restoring, Idle, Formed, Typed, MemTyped, HistoryTyped, Shape, StageShape,
     ManagerShape, WebShape, BackupShape, LockShape, Free, NoOp, Threads, Ops
<1>28. CASE ReplaceStoreFails
  BY <1>28, IdleIs, MarksAssumption DEF ReplaceStoreFails, RestoreAt, Faulty, Goto, disk, world, conf, bk, mgr,
     hist, Step, SmoothInv, Clean, Others, Restoring, Idle, Formed, Typed, MemTyped, HistoryTyped, Shape,
     StageShape, ManagerShape, WebShape, BackupShape, LockShape, Free, NoOp, Threads, Ops
<1>29. CASE ApplyRestored
  <2>1. /\ op' = [op EXCEPT !["backup"].pc = "apply"] \/ op' = [op EXCEPT !["backup"].pc = "list"]
        /\ UNCHANGED <<disturbed, cut, faults, outcome>>
    BY <1>29 DEF ApplyRestored, ApplyBackup, Goto, hist, bounds
  <2>2. \/ job' = job \/ job' = [job EXCEPT !["backup"] = SaveNodes(target')]
        \/ job' = [job EXCEPT !["backup"] = [Idle EXCEPT !.at = "done"]]
    BY <1>29 DEF ApplyRestored, ApplyBackup, Packs, StartsAsIs, Start
  <2>3. (\A t \in Threads : job[t].at # "failed") => \A t \in Threads : job'[t].at # "failed"
    BY ZenonT(40), <2>2, StartsAre, IdleIs DEF Formed, Typed
  <2>4. op'["manager"] = op["manager"] /\ op'["backup"].pc \in {"apply", "list"}
    BY <2>1 DEF Formed, Typed, Threads, Ops
  <2> QED BY <2>1, <2>3, <2>4 DEF SmoothInv, Clean
<1>30. CASE Reapply
  BY <1>30, IdleIs, MarksAssumption, StartsAre DEF Reapply, RestoreAt, ApplyBackup, Step, Goto, mgr, Lock,
     Packs, StartsAsIs, Becomes, disk, world, bk, hist, bounds, Start, SmoothInv, Clean, Others, Restoring,
     Idle, Formed, Typed, MemTyped, HistoryTyped, Shape, StageShape, ManagerShape, WebShape, BackupShape,
     LockShape, Free, NoOp, Threads, Ops
<1>31. CASE ListNodes
  BY <1>31, IdleIs, MarksAssumption DEF ListNodes, RestoreAt, Goto, world, conf, bk, mgr, hist, bounds, Step,
     SmoothInv, Clean, Others, Restoring, Idle, Formed, Typed, MemTyped, HistoryTyped, Shape, StageShape,
     ManagerShape, WebShape, BackupShape, LockShape, Free, NoOp, Threads, Ops
<1>32. CASE SetChainProfiles
  BY <1>32, IdleIs, MarksAssumption DEF SetChainProfiles, RestoreAt, RestoreEnds, disk, world, conf, mgr,
     bounds, Step, Return, SmoothInv, Clean, Others, Restoring, Idle, Formed, Typed, MemTyped, HistoryTyped,
     Shape, StageShape, ManagerShape, WebShape, BackupShape, LockShape, Free, NoOp, Threads, Ops
<1>33. CASE RestoreFailsLate
  BY <1>33, IdleIs, MarksAssumption DEF RestoreFailsLate, RestoreAt, Faulty, Goto, disk, world, conf, bk, mgr,
     hist, Step, SmoothInv, Clean, Others, Restoring, Idle, Formed, Typed, MemTyped, HistoryTyped, Shape,
     StageShape, ManagerShape, WebShape, BackupShape, LockShape, Free, NoOp, Threads, Ops
<1>34. CASE PutFileBack
  BY <1>34, IdleIs, MarksAssumption, StartsAre DEF PutFileBack, RestoreAt, Start, Goto, disk, world, conf, bk,
     mgr, bounds, Step, SmoothInv, Clean, Others, Restoring, Idle, Formed, Typed, MemTyped, HistoryTyped, Shape,
     StageShape, ManagerShape, WebShape, BackupShape, LockShape, Free, NoOp, Threads, Ops
<1>35. CASE PutStoreBack
  BY <1>35, IdleIs, MarksAssumption DEF PutStoreBack, RestoreAt, Saved, Unsaved, Done, Faulty, RestoreEnds,
     world, conf, mgr, Step, Return, SmoothInv, Clean, Others, Restoring, Idle, Formed, Typed, MemTyped,
     HistoryTyped, Shape, StageShape, ManagerShape, WebShape, BackupShape, LockShape, Free, NoOp, Threads, Ops
<1>36. ASSUME NEW t \in Threads, MoveConflicts(t) PROVE SmoothInv'
  BY <1>36, IdleIs, MarksAssumption, StartsAre DEF MoveConflicts, Applying, Saved, Start, Becomes, disk, world,
     bk, hist, bounds, SmoothInv, Clean, Others, Restoring, Idle, Formed, Typed, MemTyped, HistoryTyped, Shape,
     StageShape, ManagerShape, WebShape, BackupShape, LockShape, Free, NoOp, Threads, Ops
<1>37. ASSUME NEW t \in Threads, Applied(t) PROVE SmoothInv'
  BY <1>37, IdleIs, MarksAssumption DEF Applied, Applying, Saved, Unlock, Done, Goto, disk, world, bk, hist,
     bounds, SmoothInv, Clean, Others, Restoring, Idle, Formed, Typed, MemTyped, HistoryTyped, Shape,
     StageShape, ManagerShape, WebShape, BackupShape, LockShape, Free, NoOp, Threads, Ops
<1>38. ASSUME NEW t \in Threads, RollBack(t) PROVE SmoothInv'
  BY <1>38, IdleIs, MarksAssumption, StartsAre DEF RollBack, Applying, Unsaved, Saved, Faulty, Start, Goto,
     disk, world, conf, bk, mgr, hist, SmoothInv, Clean, Others, Restoring, Idle, Formed, Typed, MemTyped,
     HistoryTyped, Shape, StageShape, ManagerShape, WebShape, BackupShape, LockShape, Free, NoOp, Threads, Ops
<1>39. ASSUME NEW t \in Threads, RolledBack(t) PROVE SmoothInv'
  BY <1>39, IdleIs, MarksAssumption DEF RolledBack, Saved, Unsaved, Unlock, Done, ApplyError, disk, world, bk,
     hist, bounds, Goto, Return, SmoothInv, Clean, Others, Restoring, Idle, Formed, Typed, MemTyped,
     HistoryTyped, Shape, StageShape, ManagerShape, WebShape, BackupShape, LockShape, Free, NoOp, Threads, Ops
<1>40. ASSUME NEW t \in Threads, StartFails(t) PROVE SmoothInv'
  BY <1>40, IdleIs, MarksAssumption DEF StartFails, Applying, Unsaved, Saved, Faulty, Unlock, Done, ApplyError,
     disk, world, bk, hist, Goto, Return, SmoothInv, Clean, Others, Restoring, Idle, Formed, Typed, MemTyped,
     HistoryTyped, Shape, StageShape, ManagerShape, WebShape, BackupShape, LockShape, Free, NoOp, Threads, Ops
<1>41. CASE ProgramNext
  BY <1>41, <1>1, <1>2, <1>3, <1>4, <1>5, <1>6, <1>7, <1>8 DEF ProgramNext
<1>42. CASE ManagerNext
  BY <1>42, <1>9, <1>10, <1>11, <1>12, <1>13, <1>14, <1>15, <1>16 DEF ManagerNext
<1>43. CASE WebNext
  BY <1>43, SettingsEdits, <1>17, <1>18 DEF WebNext
<1>44. CASE BackupNext
  BY <1>44, <1>19, <1>20, <1>21, <1>22, <1>23, <1>24, <1>25, <1>26, <1>27, <1>28, <1>29, <1>30, <1>31, <1>32,
     <1>33, <1>34, <1>35 DEF BackupNext
<1>45. ASSUME NEW t \in Threads, ApplyNext(t) PROVE SmoothInv'
  BY <1>45, <1>36, <1>37, <1>38, <1>39, <1>40 DEF ApplyNext
<1>46. ASSUME NEW t \in Threads, Save(t) PROVE SmoothInv'
  <2>1. /\ job' = [job EXCEPT ![t] = job'[t]] /\ UNCHANGED <<op, outcome>> /\ Active(job[t])
        /\ job[t] \in Jobs /\ JobOK(job[t])
    BY <1>46, SaveDoes DEF Formed, Typed, Shape
  <2>2. (disturbed => disturbed') /\ (cut => cut')
    BY <1>46, SaveMarks
  <2>3. (faults' = 0 => faults = 0) /\ faults \in Nat
    BY <1>46 DEF Save, Prepare, PrepareFails, Rename, Truncate, Fill, FillFails, Faulty, bounds, Formed, Typed,
       HistoryTyped
  <2> SUFFICES ASSUME Clean' PROVE SmoothInv'
    BY DEF SmoothInv
  <2>4. Clean
    BY <2>2, <2>3 DEF Clean
  <2>5. job'[t].at # "failed"
    BY <1>46, <2>3, SavesFail DEF Clean
  <2> QED BY <2>1, <2>4, <2>5 DEF SmoothInv, Formed, Typed
<1>47. CASE UNCHANGED vars
  BY <1>47 DEF SmoothInv, Clean, vars, conf, mgr, hist, bounds
<1> QED BY <1>41, <1>42, <1>43, <1>44, <1>45, <1>46, <1>47 DEF Next

-----------------------------------------------------------------------------
(* PortsHold.                                                              *)

\* The members of some routes are nodes of the configuration, with their ports.
AgreeOn(R) == \A i \in DOMAIN pool : pool[i].route \in R =>
                  pool[i].route \in Routed(mem.nodes) /\ pool[i].port = PortOn(mem.nodes, pool[i].route)
PoolInv == Clean /\ stage = "serving" =>
    /\ Free("manager") /\ (op["backup"].name = "restore" => op["backup"].pc = "chain") => AgreeOn(Routes)
    /\ op["manager"].name \in {"create", "delete"} => AgreeOn(Routes \ {op["manager"].arg})
    /\ op["manager"].name = "reload" =>
          /\ Routed(pool) \subseteq Routed(mem.nodes)
          /\ target # None => Routed(target.nodes) = Routed(mem.nodes)
    /\ op["backup"].name = "restore" =>
          /\ op["backup"].pc = "toapply" => pool = archive.pool
          /\ op["backup"].pc = "apply" => Routed(pool) \subseteq Routed(target.nodes)
          /\ op["backup"].pc = "list" => Routed(pool) \subseteq Routed(mem.nodes)

\* Members that agree are nodes.
LEMMA AgreeIs ==
    ASSUME Formed, AgreeOn(Routes)
    PROVE  Routed(pool) \subseteq Routed(mem.nodes)
  BY HaveRoutes, RoutedIs DEF AgreeOn, Routed, Formed, Typed

\* Members that have the ports of the nodes agree.
LEMMA SyncedAgree ==
    ASSUME Formed, mem \in Configs, Routed(pool) \subseteq Routed(mem.nodes), pool' = SyncedPool(mem), mem' = mem
    PROVE  AgreeOn(Routes)'
<1>1. /\ DOMAIN pool' = DOMAIN pool
      /\ \A i \in DOMAIN pool : pool[i].route \in Routed(mem.nodes) =>
            pool'[i].route = pool[i].route /\ pool'[i].port = PortOn(mem.nodes, pool[i].route)
  BY SyncedIs DEF Formed, Typed
<1>2. \A i \in DOMAIN pool : pool[i].route \in Routed(mem.nodes)
  BY DEF Routed
<1> QED BY <1>1, <1>2 DEF AgreeOn

LEMMA PoolNext ==
    ASSUME Formed, BootInv, WhoInv, SmoothInv, PoolInv, [Next]_vars
    PROVE  PoolInv'
<1>1. CASE Load
  BY <1>1 DEF Load, PoolInv
<1>2. CASE Stop
  BY <1>2, IdleIs, MarksAssumption DEF Stop, Gone, disk, bounds, Threads, PoolInv, Clean, AgreeOn, SmoothInv,
     WhoInv, Others, Restoring, Formed, Typed, MemTyped, ManagerTyped, BackupTyped, HistoryTyped, Shape,
     StageShape, ManagerShape, WebShape, BackupShape, LockShape, Free, NoOp, Ops
<1>3. CASE Filter
  BY <1>3 DEF Filter, PoolInv
<1>4. CASE NoPool
  <2>1. pool' = <<>> /\ op' = op /\ op["manager"] = NoOp /\ op["backup"] = NoOp
    BY <1>4 DEF NoPool, disk, Formed, Shape, StageShape, Free
  <2> QED BY <2>1, IdleIs DEF PoolInv, AgreeOn
<1>5. CASE PackingSaved
  BY <1>5, IdleIs, MarksAssumption DEF PackingSaved, Saved, Done, disk, world, conf, bk, mgr, hist, bounds,
     PoolInv, Clean, AgreeOn, SmoothInv, WhoInv, Others, Restoring, Formed, Typed, MemTyped, ManagerTyped,
     BackupTyped, HistoryTyped, Shape, StageShape, ManagerShape, WebShape, BackupShape, LockShape, Free, NoOp,
     Threads, Ops
<1>6. CASE PackingFails
  BY <1>6, IdleIs, MarksAssumption DEF PackingFails, Unsaved, Gone, disk, world, bounds, Threads, PoolInv,
     Clean, AgreeOn, SmoothInv, WhoInv, Others, Restoring, Formed, Typed, MemTyped, ManagerTyped, BackupTyped,
     HistoryTyped, Shape, StageShape, ManagerShape, WebShape, BackupShape, LockShape, Free, NoOp, Ops
<1>7. CASE SyncPorts
  <2>1. mem' = mem /\ pool' = SyncedPool(mem) /\ stage = "syncing" /\ op' = op
    BY <1>7 DEF SyncPorts
  <2>2. AgreeOn(Routes)'
    BY <2>1, SyncedAgree DEF BootInv, Formed, Typed, MemTyped
  <2>3. op["manager"] = NoOp /\ op["backup"] = NoOp
    BY <2>1 DEF Formed, Shape, StageShape, Free
  <2> QED BY <2>1, <2>2, <2>3, IdleIs DEF PoolInv, Free
<1>8. CASE SyncFails
  BY <1>8, IdleIs, MarksAssumption DEF SyncFails, Faulty, Gone, disk, world, Threads, PoolInv, Clean, AgreeOn,
     SmoothInv, WhoInv, Others, Restoring, Formed, Typed, MemTyped, ManagerTyped, BackupTyped, HistoryTyped,
     Shape, StageShape, ManagerShape, WebShape, BackupShape, LockShape, Free, NoOp, Ops
<1>9. ASSUME NEW r \in Routes, CreateNode(r) PROVE PoolInv'
  <2>1. /\ Edit("create", r, mem'.nodes) /\ stage = "serving"
        /\ \A q \in Routed(mem.nodes) \ {r} : q \in Routed(mem'.nodes) /\ PortOn(mem'.nodes, q) = PortOn(mem.nodes, q)
    BY <1>9, CreateDoes DEF CreateNode
  <2>2. /\ UNCHANGED <<stage, pool, archive, target, faults, cut>> /\ (disturbed => disturbed')
        /\ op' = [op EXCEPT !["manager"] = [name |-> "create", pc |-> "save", arg |-> r]] /\ Free("manager")
        /\ ~disturbed' => op["backup"].name # "restore"
    BY <2>1 DEF Edit, Begin, Crosses, Others, Restoring, Threads, disk, bk
  <2>3. op'["backup"] = op["backup"] /\ op'["manager"] = [name |-> "create", pc |-> "save", arg |-> r]
    BY <2>2 DEF Formed, Typed, Threads
  <2> SUFFICES ASSUME Clean', stage' = "serving" PROVE PoolInv'
    BY DEF PoolInv
  <2>4. Clean /\ AgreeOn(Routes)
    BY <2>1, <2>2 DEF Clean, PoolInv
  <2>5. AgreeOn(Routes \ {r})'
    BY <2>1, <2>2, <2>4 DEF AgreeOn
  <2> QED BY <2>2, <2>3, <2>5 DEF PoolInv, Clean, Free, NoOp
<1>10. ASSUME NEW r \in Routes, DeleteNode(r) PROVE PoolInv'
  <2>1. /\ Edit("delete", r, mem'.nodes) /\ stage = "serving"
        /\ \A q \in Routed(mem.nodes) \ {r} : q \in Routed(mem'.nodes) /\ PortOn(mem'.nodes, q) = PortOn(mem.nodes, q)
    BY <1>10, DeleteDoes DEF DeleteNode
  <2>2. /\ UNCHANGED <<stage, pool, archive, target, faults, cut>> /\ (disturbed => disturbed')
        /\ op' = [op EXCEPT !["manager"] = [name |-> "delete", pc |-> "save", arg |-> r]] /\ Free("manager")
        /\ ~disturbed' => op["backup"].name # "restore"
    BY <2>1 DEF Edit, Begin, Crosses, Others, Restoring, Threads, disk, bk
  <2>3. op'["backup"] = op["backup"] /\ op'["manager"] = [name |-> "delete", pc |-> "save", arg |-> r]
    BY <2>2 DEF Formed, Typed, Threads
  <2> SUFFICES ASSUME Clean', stage' = "serving" PROVE PoolInv'
    BY DEF PoolInv
  <2>4. Clean /\ AgreeOn(Routes)
    BY <2>1, <2>2 DEF Clean, PoolInv
  <2>5. AgreeOn(Routes \ {r})'
    BY <2>1, <2>2, <2>4 DEF AgreeOn
  <2> QED BY <2>2, <2>3, <2>5 DEF PoolInv, Clean, Free, NoOp
<1>11. CASE EditSaved
  BY <1>11, IdleIs, MarksAssumption DEF EditSaved, Editing, Saved, Goto, Done, Unlock, disk, world, conf, bk,
     hist, bounds, PoolInv, Clean, AgreeOn, SmoothInv, WhoInv, Others, Restoring, Formed, Typed, MemTyped,
     ManagerTyped, BackupTyped, HistoryTyped, Shape, StageShape, ManagerShape, WebShape, BackupShape, LockShape,
     Free, NoOp, Threads, Ops
<1>12. CASE EditFails
  BY <1>12, IdleIs, MarksAssumption DEF EditFails, Editing, Unsaved, Undone, Return, Done, Unlock, disk, world,
     bk, hist, bounds, PoolInv, Clean, AgreeOn, SmoothInv, WhoInv, Others, Restoring, Formed, Typed, MemTyped,
     ManagerTyped, BackupTyped, HistoryTyped, Shape, StageShape, ManagerShape, WebShape, BackupShape, LockShape,
     Free, NoOp, Threads, Ops
<1>13. CASE EditPool
  <2> DEFINE r == op["manager"].arg
  <2>1. /\ op["manager"].name \in {"create", "delete"} /\ op["manager"].pc = "pool"
        /\ \A i \in DOMAIN pool' :
              \/ pool'[i].route # r /\ \E k \in DOMAIN pool : pool'[i] = pool[k]
              \/ r \in Routed(mem.nodes) /\ pool'[i].route = r /\ pool'[i].port = PortOn(mem.nodes, r)
    BY <1>13, EditPoolDoes
  <2>2. /\ UNCHANGED <<stage, mem, archive, target, faults, cut>> /\ op' = [op EXCEPT !["manager"] = NoOp]
        /\ disturbed' = (disturbed \/ Restoring("backup"))
    BY <1>13 DEF EditPool, Return, conf, bk, mgr, bounds
  <2>3. op'["manager"] = NoOp /\ op'["backup"] = op["backup"] /\ stage = "serving"
    BY <2>1, <2>2, IdleIs DEF Formed, Typed, Threads, Shape, StageShape, Free
  <2> SUFFICES ASSUME Clean' PROVE PoolInv'
    BY DEF PoolInv
  <2>4. Clean /\ ~Restoring("backup")
    BY <2>2 DEF Clean
  <2>5. AgreeOn(Routes \ {r})
    BY <2>1, <2>3, <2>4 DEF PoolInv
  <2>6. \A k \in DOMAIN pool : pool[k].route \in Routes
    BY HaveRoutes DEF Formed, Typed
  <2>7. AgreeOn(Routes)'
    <3> HIDE DEF r
    <3> QED BY <2>1, <2>2, <2>5, <2>6 DEF AgreeOn
  <2> QED BY <2>2, <2>3, <2>4, <2>7, IdleIs DEF PoolInv, Restoring
<1>14. CASE Reload
  <2>1. mem \in Configs /\ Routed(target'.nodes) = Routed(mem.nodes)
    BY <1>14, PacksDoes DEF Reload, Formed, Typed, MemTyped
  <2>2. /\ UNCHANGED <<stage, pool, mem, archive, faults, cut>> /\ (disturbed => disturbed') /\ stage = "serving"
        /\ op' = [op EXCEPT !["manager"] = [name |-> "reload", pc |-> "save", arg |-> None]] /\ Free("manager")
        /\ ~disturbed' => op["backup"].name # "restore"
    BY <1>14 DEF Reload, Begin, Crosses, Others, Restoring, Threads, disk, conf, bk
  <2>3. op'["backup"] = op["backup"] /\ op'["manager"] = [name |-> "reload", pc |-> "save", arg |-> None]
    BY <2>2 DEF Formed, Typed, Threads
  <2> SUFFICES ASSUME Clean' PROVE PoolInv'
    BY DEF PoolInv
  <2>4. Clean /\ AgreeOn(Routes)
    BY <2>2 DEF Clean, PoolInv
  <2>5. Routed(pool') \subseteq Routed(mem'.nodes)
    BY <2>2, <2>4, AgreeIs
  <2> QED BY <2>1, <2>2, <2>3, <2>5 DEF PoolInv, Clean, Free, NoOp
<1>15. CASE ReloadPool
  <2>1. /\ pool' = SyncedPool(mem) /\ UNCHANGED <<mem, stage, archive, target, faults, cut>> /\ (disturbed => disturbed')
        /\ op' = [op EXCEPT !["manager"] = NoOp] /\ op["manager"].name = "reload" /\ op["manager"].pc = "pool"
        /\ ~disturbed' => op["backup"].name # "restore"
    BY <1>15 DEF ReloadPool, Return, Step, Restoring, conf, bk, mgr, bounds
  <2>2. op'["backup"] = op["backup"] /\ op'["manager"] = NoOp /\ stage = "serving"
    BY <2>1, IdleIs DEF Formed, Typed, Threads, Shape, StageShape, Free
  <2> SUFFICES ASSUME Clean' PROVE PoolInv'
    BY DEF PoolInv
  <2>3. Routed(pool) \subseteq Routed(mem.nodes) /\ mem \in Configs
    BY <2>1, <2>2 DEF PoolInv, Clean, Formed, Typed, MemTyped
  <2>4. AgreeOn(Routes)'
    BY <2>1, <2>3, SyncedAgree
  <2> QED BY <2>1, <2>2, <2>4, IdleIs DEF PoolInv, Clean
<1>16. CASE EnterEmpty
  BY <1>16, IdleIs, MarksAssumption DEF EnterEmpty, Free, disk, world, bk, mgr, hist, PoolInv, Clean, AgreeOn,
     SmoothInv, WhoInv, Others, Restoring, Formed, Typed, MemTyped, ManagerTyped, BackupTyped, HistoryTyped,
     Shape, StageShape, ManagerShape, WebShape, BackupShape, LockShape, NoOp, Threads, Ops
<1>17. ASSUME NEW settings \in Settings, EditSettings(settings) PROVE PoolInv'
  <2>1. mem \in Configs /\ mem'.nodes = mem.nodes
    BY <1>17, WithSettings DEF EditSettings, Formed, Typed, MemTyped
  <2>2. /\ UNCHANGED <<stage, pool, target, archive, cut, faults>> /\ (disturbed => disturbed')
        /\ op'["backup"] = op["backup"] /\ op'["manager"] = op["manager"]
    BY <1>17 DEF EditSettings, Begin, disk, bk, mgr, Formed, Typed, Threads
  <2> QED BY <2>1, <2>2 DEF PoolInv, Clean, AgreeOn, Free
<1>18. CASE SettingsEnd
  BY <1>18, IdleIs, MarksAssumption DEF SettingsEnd, Step, Saved, Unsaved, Return, Done, disk, world, conf, bk,
     mgr, hist, bounds, PoolInv, Clean, AgreeOn, SmoothInv, WhoInv, Others, Restoring, Formed, Typed, MemTyped,
     ManagerTyped, BackupTyped, HistoryTyped, Shape, StageShape, ManagerShape, WebShape, BackupShape, LockShape,
     Free, NoOp, Threads, Ops
<1>19. CASE SetWebDAV
  BY <1>19, IdleIs, MarksAssumption DEF SetWebDAV, Begin, Start, disk, world, conf, bk, mgr, Free, Crosses,
     Others, Restoring, Threads, PoolInv, Clean, AgreeOn, SmoothInv, WhoInv, Formed, Typed, MemTyped,
     ManagerTyped, BackupTyped, HistoryTyped, Shape, StageShape, ManagerShape, WebShape, BackupShape, LockShape,
     NoOp, Ops
<1>20. CASE WebDAVSaved
  BY <1>20, IdleIs, MarksAssumption DEF WebDAVSaved, Step, Saved, Return, Done, disk, world, conf, mgr, hist,
     bounds, PoolInv, Clean, AgreeOn, SmoothInv, WhoInv, Others, Restoring, Formed, Typed, MemTyped,
     ManagerTyped, BackupTyped, HistoryTyped, Shape, StageShape, ManagerShape, WebShape, BackupShape, LockShape,
     Free, NoOp, Threads, Ops
<1>21. CASE WebDAVFails
  BY <1>21, IdleIs, MarksAssumption DEF WebDAVFails, Step, Unsaved, Return, Done, disk, world, conf, bk, mgr,
     hist, bounds, PoolInv, Clean, AgreeOn, SmoothInv, WhoInv, Others, Restoring, Formed, Typed, MemTyped,
     ManagerTyped, BackupTyped, HistoryTyped, Shape, StageShape, ManagerShape, WebShape, BackupShape, LockShape,
     Free, NoOp, Threads, Ops
<1>22. CASE CreateBackup
  BY <1>22, IdleIs, MarksAssumption DEF CreateBackup, Begin, disk, world, conf, bk, mgr, Free, Crosses, Others,
     Restoring, Threads, PoolInv, Clean, AgreeOn, SmoothInv, WhoInv, Formed, Typed, MemTyped, ManagerTyped,
     BackupTyped, HistoryTyped, Shape, StageShape, ManagerShape, WebShape, BackupShape, LockShape, NoOp, Ops
<1>23. CASE SnapshotStore
  BY <1>23, IdleIs, MarksAssumption DEF SnapshotStore, Step, Return, disk, world, conf, mgr, hist, bounds,
     PoolInv, Clean, AgreeOn, SmoothInv, WhoInv, Others, Restoring, Formed, Typed, MemTyped, ManagerTyped,
     BackupTyped, HistoryTyped, Shape, StageShape, ManagerShape, WebShape, BackupShape, LockShape, Free, NoOp,
     Threads, Ops
<1>24. CASE Restore
  BY <1>24, IdleIs, MarksAssumption DEF Restore, Begin, Remembered, Start, disk, world, conf, mgr, Free,
     Crosses, Others, Restoring, Threads, PoolInv, Clean, AgreeOn, SmoothInv, WhoInv, Formed, Typed, MemTyped,
     ManagerTyped, BackupTyped, HistoryTyped, Shape, StageShape, ManagerShape, WebShape, BackupShape, LockShape,
     NoOp, Ops
<1>25. CASE RestoreSaved
  BY <1>25, IdleIs, MarksAssumption DEF RestoreSaved, RestoreAt, Saved, Goto, Done, disk, world, conf, bk, mgr,
     hist, bounds, Step, PoolInv, Clean, AgreeOn, SmoothInv, WhoInv, Others, Restoring, Formed, Typed, MemTyped,
     ManagerTyped, BackupTyped, HistoryTyped, Shape, StageShape, ManagerShape, WebShape, BackupShape, LockShape,
     Free, NoOp, Threads, Ops
<1>26. CASE RestoreUnsaved
  BY <1>26, IdleIs, MarksAssumption DEF RestoreUnsaved, RestoreAt, Unsaved, RestoreEnds, Done, disk, world,
     conf, mgr, bounds, Step, Return, PoolInv, Clean, AgreeOn, SmoothInv, WhoInv, Others, Restoring, Formed,
     Typed, MemTyped, ManagerTyped, BackupTyped, HistoryTyped, Shape, StageShape, ManagerShape, WebShape,
     BackupShape, LockShape, Free, NoOp, Threads, Ops
<1>27. CASE ReplaceStore
  BY <1>27, IdleIs, MarksAssumption DEF ReplaceStore, RestoreAt, Goto, world, conf, bk, mgr, hist, bounds, Step,
     PoolInv, Clean, AgreeOn, SmoothInv, WhoInv, Others, Restoring, Formed, Typed, MemTyped, ManagerTyped,
     BackupTyped, HistoryTyped, Shape, StageShape, ManagerShape, WebShape, BackupShape, LockShape, Free, NoOp,
     Threads, Ops
<1>28. CASE ReplaceStoreFails
  BY <1>28, IdleIs, MarksAssumption DEF ReplaceStoreFails, RestoreAt, Faulty, Goto, disk, world, conf, bk, mgr,
     hist, Step, PoolInv, Clean, AgreeOn, SmoothInv, WhoInv, Others, Restoring, Formed, Typed, MemTyped,
     ManagerTyped, BackupTyped, HistoryTyped, Shape, StageShape, ManagerShape, WebShape, BackupShape, LockShape,
     Free, NoOp, Threads, Ops
<1>29. CASE ApplyRestored
  <2>1. /\ UNCHANGED <<pool, stage, archive, faults, cut, disturbed>> /\ op["backup"].name = "restore"
        /\ op["backup"].pc = "toapply"
    BY <1>29 DEF ApplyRestored, ApplyBackup, RestoreAt, Step, disk, bk, bounds, hist
  <2>2. archive \in Backups /\ stage = "serving"
    BY <2>1, IdleIs DEF Formed, Typed, BackupTyped, Shape, StageShape, BackupShape, Free
  <2>3. Restored \in Configs /\ Routed(archive.pool) \subseteq Routed(Restored.nodes)
    BY <2>2, RestoredIs
  <2>4. /\ op'["manager"] = op["manager"] /\ op'["backup"].name = "restore"
        /\ \/ op'["backup"].pc = "list" /\ mem' = Restored /\ target' = target
           \/ op'["backup"].pc = "apply" /\ Routed(target'.nodes) = Routed(Restored.nodes)
    <3>1. CASE Restored.nodes = <<>>
      BY <1>29, <2>1, <3>1 DEF ApplyRestored, ApplyBackup, Goto, mgr, Formed, Typed, Threads, Ops
    <3>2. CASE Restored.nodes # <<>>
      <4>1. /\ op' = [op EXCEPT !["backup"].pc = "apply"]
            /\ Packs("backup", Restored) \/ StartsAsIs("backup", Restored)
        BY <1>29, <3>2 DEF ApplyRestored, ApplyBackup, Goto
      <4>2. Routed(target'.nodes) = Routed(Restored.nodes)
        BY <2>3, <4>1, PacksDoes DEF StartsAsIs
      <4> QED BY <2>1, <4>1, <4>2 DEF Formed, Typed, Threads, Ops
    <3> QED BY <3>1, <3>2
  <2> SUFFICES ASSUME Clean' PROVE PoolInv'
    BY DEF PoolInv
  <2>5. Clean /\ op["manager"] = NoOp /\ pool = archive.pool
    BY <2>1, <2>2 DEF Clean, WhoInv, PoolInv, Free
  <2> QED BY <2>1, <2>2, <2>3, <2>4, <2>5, IdleIs DEF PoolInv
<1>30. CASE Reapply
  BY <1>30, IdleIs, MarksAssumption DEF Reapply, RestoreAt, ApplyBackup, Step, Goto, mgr, Lock, StartsAsIs,
     Becomes, disk, world, bk, hist, bounds, Start, PoolInv, Clean, AgreeOn, SmoothInv, WhoInv, Others,
     Restoring, Formed, Typed, MemTyped, ManagerTyped, BackupTyped, HistoryTyped, Shape, StageShape,
     ManagerShape, WebShape, BackupShape, LockShape, Free, NoOp, Threads, Ops
<1>31. CASE ListNodes
  <2>1. /\ pool' = SyncedPool(mem) /\ UNCHANGED <<mem, stage, archive, target, faults, cut, disturbed>>
        /\ op' = [op EXCEPT !["backup"].pc = "chain"] /\ op["backup"].name = "restore" /\ op["backup"].pc = "list"
    BY <1>31 DEF ListNodes, RestoreAt, Goto, Step, conf, bk, mgr, bounds, hist
  <2>2. /\ op'["backup"].name = "restore" /\ op'["backup"].pc = "chain" /\ op'["manager"] = op["manager"]
        /\ stage = "serving"
    BY <2>1, IdleIs DEF Formed, Typed, Threads, Ops, Shape, StageShape, Free
  <2> SUFFICES ASSUME Clean' PROVE PoolInv'
    BY DEF PoolInv
  <2>3. Clean /\ op["manager"] = NoOp
    BY <2>1 DEF Clean, WhoInv, Free
  <2>4. Routed(pool) \subseteq Routed(mem.nodes) /\ mem \in Configs
    BY <2>1, <2>2, <2>3 DEF PoolInv, Formed, Typed, MemTyped
  <2>5. AgreeOn(Routes)'
    BY <2>1, <2>4, SyncedAgree
  <2> QED BY <2>1, <2>2, <2>3, <2>5, IdleIs DEF PoolInv
<1>32. CASE SetChainProfiles
  BY <1>32, IdleIs, MarksAssumption DEF SetChainProfiles, RestoreAt, RestoreEnds, disk, world, conf, mgr,
     bounds, Step, Return, PoolInv, Clean, AgreeOn, SmoothInv, WhoInv, Others, Restoring, Formed, Typed,
     MemTyped, ManagerTyped, BackupTyped, HistoryTyped, Shape, StageShape, ManagerShape, WebShape, BackupShape,
     LockShape, Free, NoOp, Threads, Ops
<1>33. CASE RestoreFailsLate
  BY <1>33, IdleIs, MarksAssumption DEF RestoreFailsLate, RestoreAt, Faulty, Goto, disk, world, conf, bk, mgr,
     hist, Step, PoolInv, Clean, AgreeOn, SmoothInv, WhoInv, Others, Restoring, Formed, Typed, MemTyped,
     ManagerTyped, BackupTyped, HistoryTyped, Shape, StageShape, ManagerShape, WebShape, BackupShape, LockShape,
     Free, NoOp, Threads, Ops
<1>34. CASE PutFileBack
  BY <1>34, IdleIs, MarksAssumption DEF PutFileBack, RestoreAt, Start, Goto, disk, world, conf, bk, mgr, bounds,
     Step, PoolInv, Clean, AgreeOn, SmoothInv, WhoInv, Others, Restoring, Formed, Typed, MemTyped, ManagerTyped,
     BackupTyped, HistoryTyped, Shape, StageShape, ManagerShape, WebShape, BackupShape, LockShape, Free, NoOp,
     Threads, Ops
<1>35. CASE PutStoreBack
  BY <1>35, IdleIs, MarksAssumption DEF PutStoreBack, RestoreAt, Saved, Unsaved, Done, Faulty, RestoreEnds,
     world, conf, mgr, Step, Return, PoolInv, Clean, AgreeOn, SmoothInv, WhoInv, Others, Restoring, Formed,
     Typed, MemTyped, ManagerTyped, BackupTyped, HistoryTyped, Shape, StageShape, ManagerShape, WebShape,
     BackupShape, LockShape, Free, NoOp, Threads, Ops
<1>36. ASSUME NEW t \in Threads, MoveConflicts(t) PROVE PoolInv'
  <2>1. /\ target # None /\ Routed(target'.nodes) = Routed(target.nodes) /\ reloadMu = t
        /\ UNCHANGED <<pool, stage, archive, faults, cut, disturbed, op>> /\ mem' \in {mem, target'}
    BY <1>36, MovesDoes DEF MoveConflicts, Applying, Becomes, disk, bk, bounds, hist
  <2> SUFFICES ASSUME Clean', stage' = "serving" PROVE PoolInv'
    BY DEF PoolInv
  <2>2. Clean
    BY <2>1 DEF Clean
  <2>3. CASE t = "manager"
    <3>1. op["manager"].name = "reload"
      BY <2>1, <2>3, MarksAssumption DEF Formed, Shape, LockShape
    <3>2. op["backup"].name # "restore"
      BY <2>2, <3>1, IdleIs DEF WhoInv, Clean, Free
    <3> QED BY <2>1, <2>2, <3>1, <3>2, IdleIs DEF PoolInv, Free
  <2>4. CASE t = "backup"
    <3>1. op["backup"].pc = "apply" /\ op["backup"].name = "restore"
      BY <2>1, <2>2, <2>4, IdleIs DEF Formed, Shape, LockShape, BackupShape, SmoothInv, Free
    <3>2. op["manager"] = NoOp
      BY <2>2, <3>1 DEF WhoInv, Clean, Free
    <3> QED BY <2>1, <2>2, <3>1, <3>2, IdleIs DEF PoolInv
  <2>5. t # "web"
    BY <2>1, MarksAssumption DEF Formed, Typed, ManagerTyped
  <2> QED BY <2>3, <2>4, <2>5 DEF Threads
<1>37. ASSUME NEW t \in Threads, Applied(t) PROVE PoolInv'
  <2>1. /\ target # None /\ mem' = target /\ reloadMu = t /\ target' = None
        /\ UNCHANGED <<pool, stage, archive, faults, cut, disturbed>>
        /\ op' = [op EXCEPT ![t].pc = CASE op[t].pc = "apply" -> "list" [] op[t].pc = "reapply" -> "putfile" [] OTHER -> "pool"]
    BY <1>37 DEF Applied, Applying, Goto, disk, bk, bounds, hist
  <2> SUFFICES ASSUME Clean', stage' = "serving" PROVE PoolInv'
    BY DEF PoolInv
  <2>2. Clean
    BY <2>1 DEF Clean
  <2>3. CASE t = "manager"
    <3>1. op["manager"].name = "reload"
      BY <2>1, <2>3, MarksAssumption DEF Formed, Shape, LockShape
    <3>2. op["backup"].name # "restore"
      BY <2>2, <3>1, IdleIs DEF WhoInv, Clean, Free
    <3>3. op'["manager"].name = "reload" /\ op'["backup"] = op["backup"]
      BY <2>1, <2>3, <3>1 DEF Formed, Typed, Threads, Ops
    <3> QED BY <2>1, <2>2, <3>1, <3>2, <3>3, IdleIs DEF PoolInv, Free
  <2>4. CASE t = "backup"
    <3>1. op["backup"].pc = "apply" /\ op["backup"].name = "restore"
      BY <2>1, <2>2, <2>4, IdleIs DEF Formed, Shape, LockShape, BackupShape, SmoothInv, Free
    <3>2. op["manager"] = NoOp
      BY <2>2, <3>1 DEF WhoInv, Clean, Free
    <3>3. op'["manager"] = op["manager"] /\ op'["backup"].name = "restore" /\ op'["backup"].pc = "list"
      BY <2>1, <2>4, <3>1 DEF Formed, Typed, Threads, Ops
    <3> QED BY <2>1, <2>2, <3>1, <3>2, <3>3, IdleIs DEF PoolInv
  <2>5. t # "web"
    BY <2>1, MarksAssumption DEF Formed, Typed, ManagerTyped
  <2> QED BY <2>3, <2>4, <2>5 DEF Threads
<1>38. ASSUME NEW t \in Threads, RollBack(t) PROVE PoolInv'
  BY <1>38, IdleIs, MarksAssumption DEF RollBack, Applying, Unsaved, Saved, Faulty, Start, Goto, disk, world,
     conf, bk, mgr, hist, PoolInv, Clean, AgreeOn, SmoothInv, WhoInv, Others, Restoring, Formed, Typed,
     MemTyped, ManagerTyped, BackupTyped, HistoryTyped, Shape, StageShape, ManagerShape, WebShape, BackupShape,
     LockShape, Free, NoOp, Threads, Ops
<1>39. ASSUME NEW t \in Threads, RolledBack(t) PROVE PoolInv'
  BY <1>39, IdleIs, MarksAssumption DEF RolledBack, Saved, Unsaved, Unlock, Done, ApplyError, disk, world, bk,
     hist, bounds, Goto, Return, PoolInv, Clean, AgreeOn, SmoothInv, WhoInv, Others, Restoring, Formed, Typed,
     MemTyped, ManagerTyped, BackupTyped, HistoryTyped, Shape, StageShape, ManagerShape, WebShape, BackupShape,
     LockShape, Free, NoOp, Threads, Ops
<1>40. ASSUME NEW t \in Threads, StartFails(t) PROVE PoolInv'
  BY <1>40, IdleIs, MarksAssumption DEF StartFails, Applying, Unsaved, Saved, Faulty, Unlock, Done, ApplyError,
     disk, world, bk, hist, Goto, Return, PoolInv, Clean, AgreeOn, SmoothInv, WhoInv, Others, Restoring, Formed,
     Typed, MemTyped, ManagerTyped, BackupTyped, HistoryTyped, Shape, StageShape, ManagerShape, WebShape,
     BackupShape, LockShape, Free, NoOp, Threads, Ops
<1>41. CASE ProgramNext
  BY <1>41, <1>1, <1>2, <1>3, <1>4, <1>5, <1>6, <1>7, <1>8 DEF ProgramNext
<1>42. CASE ManagerNext
  BY <1>42, <1>9, <1>10, <1>11, <1>12, <1>13, <1>14, <1>15, <1>16 DEF ManagerNext
<1>43. CASE WebNext
  BY <1>43, SettingsEdits, <1>17, <1>18 DEF WebNext
<1>44. CASE BackupNext
  BY <1>44, <1>19, <1>20, <1>21, <1>22, <1>23, <1>24, <1>25, <1>26, <1>27, <1>28, <1>29, <1>30, <1>31, <1>32,
     <1>33, <1>34, <1>35 DEF BackupNext
<1>45. ASSUME NEW t \in Threads, ApplyNext(t) PROVE PoolInv'
  BY <1>45, <1>36, <1>37, <1>38, <1>39, <1>40 DEF ApplyNext
<1>46. ASSUME NEW t \in Threads, Save(t) PROVE PoolInv'
  <2>1. UNCHANGED <<pool, mem, stage, op, target, archive>>
    BY <1>46, SaveDoes DEF conf, mgr, bk
  <2>2. (disturbed => disturbed') /\ (cut => cut')
    BY <1>46, SaveMarks
  <2>3. (faults' = 0 => faults = 0) /\ faults \in Nat
    BY <1>46 DEF Save, Prepare, PrepareFails, Rename, Truncate, Fill, FillFails, Faulty, bounds, Formed, Typed,
       HistoryTyped
  <2> QED BY <2>1, <2>2, <2>3 DEF PoolInv, Clean, AgreeOn, Free
<1>47. CASE UNCHANGED vars
  BY <1>47 DEF PoolInv, Clean, AgreeOn, Free, vars, disk, conf, mgr, bk, hist, bounds
<1> QED BY <1>41, <1>42, <1>43, <1>44, <1>45, <1>46, <1>47 DEF Next

\* All of these hold together.
LEMMA AlwaysSmooth == Spec => [](Formed /\ FilesInv /\ BootInv /\ WhoInv /\ ShortInv /\ SmoothInv)
<1>1. Init => FilesInv /\ BootInv /\ WhoInv /\ ShortInv /\ SmoothInv
  <2>1. ASSUME Init PROVE FilesInv /\ BootInv /\ WhoInv
    BY <2>1, FilesInit, IdleIs DEF Init, BootInv, WhoInv, Free, Threads
  <2>2. ASSUME Init PROVE ShortInv
    <3>1. yaml \notin {Short, Mixed, None}
      <4>1. PICK d \in Beginnings : yaml = d.yaml
        BY <2>2 DEF Init
      <4> QED BY <4>1, BeginningsAssumption, MarksAssumption
    <3> QED BY <2>2, <3>1, IdleIs, MarksAssumption DEF Init, ShortInv, NoRestore
  <2>3. ASSUME Init PROVE SmoothInv
    BY <2>3, IdleIs DEF Init, SmoothInv, Threads
  <2> QED BY <2>1, <2>2, <2>3
<1>2. Formed /\ FilesInv /\ BootInv /\ WhoInv /\ ShortInv /\ SmoothInv /\ [Next]_vars
      => FilesInv' /\ BootInv' /\ WhoInv' /\ ShortInv' /\ SmoothInv'
  BY FilesNext, BootNext, WhoNext, ShortNext, SmoothNext
<1> QED BY <1>1, <1>2, AlwaysFormed, PTL DEF Spec

\* Every member of the pool is a node of the configuration with the same port,
\* when nothing is under way: what a start, a reload, an edit and a restore give
\* out reaches the store (EditPool, PersistAssignedPorts, ReplaceAll).
THEOREM PortsReachStore == Spec => []PortsAgree
<1>1. Init => PoolInv
  BY DEF Init, PoolInv
<1>2. Formed /\ BootInv /\ WhoInv /\ SmoothInv /\ PoolInv /\ [Next]_vars => PoolInv'
  BY PoolNext
<1>3. Formed /\ PoolInv => PortsAgree
  <2> SUFFICES ASSUME Formed, PoolInv, Quiet, Undisturbed, faults = 0
               PROVE  \A i \in DOMAIN pool :
                         pool[i].route \in Routed(mem.nodes) /\ pool[i].port = PortOn(mem.nodes, pool[i].route)
    BY DEF PortsAgree
  <2>1. AgreeOn(Routes)
    BY IdleIs DEF PoolInv, Clean, Quiet, Undisturbed, Free, Threads
  <2>2. \A i \in DOMAIN pool : pool[i].route \in Routes
    BY HaveRoutes DEF Formed, Typed
  <2> QED BY <2>1, <2>2 DEF AgreeOn
<1> QED BY <1>1, <1>2, <1>3, AlwaysSmooth, PTL DEF Spec

\* Configuration and pool hold the same ports, one for each node, after normalize,
\* rebuildMultiPortAssignments, EditPool and PersistAssignedPorts.
THEOREM PortsAreHeld == Spec => []PortsHold
<1>1. TypeOK /\ PortsAgree /\ OwnPortsAlways => PortsHold
  BY DEF PortsHold
<1> QED BY <1>1, TypeCorrect, PortsReachStore, OwnPortsStay, PTL

-----------------------------------------------------------------------------
(* What config.yaml keeps while it is saved.                               *)

\* A step of a save that has config.yaml for itself.
AtYaml(j) == j.at \in {"rename", "fill"} /\ Head(j.files) = "yaml"
AloneAt(js, t) == \A u \in Threads \ {t} : ~AtYaml(js[u])
Reads(t)     == /\ yaml' = yaml /\ AloneAt(job', t) /\ AtYaml(job'[t])
                /\ IF NeedsFile(job[t]) THEN yaml \in Contents /\ job'[t].data = Patched(job[t], yaml)
                   ELSE job'[t].data = job[t].content
                /\ Head(job[t].files) = "yaml" /\ job'[t].at # "done"
Writes(t)    == yaml' = job[t].data /\ AtYaml(job[t]) /\ job'[t].at = "done" /\ AloneAt(job', t)
Truncates(t) == yaml' = Short /\ AtYaml(job[t]) /\ AtYaml(job'[t]) /\ job'[t].data = job[t].data /\ job'[t].at # "done"
Elsewhere(t) == yaml' = yaml /\ ~AtYaml(job'[t]) /\ job'[t].at # "done"

LEMMA SaveKinds ==
    ASSUME Formed, FilesInv, ShortInv, NEW t \in Threads, Save(t), ~disturbed', ~cut'
    PROVE  Reads(t) \/ Writes(t) \/ Truncates(t) \/ Elsewhere(t)
<1> DEFINE j == job[t]
<1>1. /\ Active(j) /\ job' = [job EXCEPT ![t] = job'[t]] /\ job'[t].part = j.part /\ job'[t].content = j.content
      /\ t \in DOMAIN job /\ j \in Jobs /\ JobOK(j) /\ DiskTyped /\ job \in [Threads -> Jobs]
  BY SaveDoes DEF Formed, Typed, Shape
<1>2. \A u \in Threads : u # t => job'[u] = job[u]
  BY <1>1
<1>3. ~disturbed /\ ~cut
  BY SaveMarks
<1>4. Head(j.files) \in {"yaml", "txt"} /\ JobOf(j)
  BY <1>1 DEF JobOK, Jobs
<1>5. AtYaml(j) => AloneAt(job', t)
  BY <1>2, <1>3 DEF FilesInv, AtYaml, AloneAt, Writing
<1>6. CASE Prepare(t)
  <2>1. /\ j.at = "start" /\ yaml' = yaml /\ (disturbed' <=> (disturbed \/ Crowded(t))) /\ (NeedsFile(j) => yaml # Mixed)
        /\ job'[t] = [j EXCEPT !.at = "rename", !.data = Patched(j, IF yaml = Short THEN Blank ELSE yaml)]
    BY <1>1, <1>6 DEF Prepare, Start, disk
  <2>2. job'[t].at = "rename" /\ job'[t].files = j.files
        /\ job'[t].data = Patched(j, IF yaml = Short THEN Blank ELSE yaml)
    BY <1>1, <2>1 DEF Jobs
  <2>3. CASE Head(j.files) = "txt"
    BY <2>1, <2>2, <2>3 DEF Elsewhere, AtYaml
  <2>4. CASE Head(j.files) = "yaml"
    <3>1. \A u \in Threads \ {t} : ~Writing(u)
      BY <2>1, <2>4 DEF Crowded, Others
    <3>2. AloneAt(job', t)
      BY <1>2, <3>1 DEF AloneAt, AtYaml, Writing
    <3>3. yaml # Short
      <4>1. ~Filling(t, "yaml")
        BY <2>1 DEF Filling
      <4>2. \A u \in Threads \ {t} : ~Filling(u, "yaml")
        BY <3>1 DEF Filling, Writing
      <4> QED BY <1>3, <4>1, <4>2 DEF ShortInv
    <3>4. NeedsFile(j) => yaml \in Contents
      BY <1>1, <2>1, <3>3 DEF DiskTyped
    <3>5. ~NeedsFile(j) => Patched(j, yaml) = j.content
      BY <2>4 DEF NeedsFile, Patched
    <3> QED BY <2>1, <2>2, <2>4, <3>2, <3>3, <3>4, <3>5 DEF Reads, AtYaml
  <2> QED BY <1>4, <2>3, <2>4
<1>7. CASE PrepareFails(t)
  <2>1. yaml' = yaml /\ job'[t] = [j EXCEPT !.at = "failed"]
    BY <1>1, <1>7 DEF PrepareFails, Start, disk
  <2>2. job'[t].at = "failed"
    BY <1>1, <2>1 DEF Jobs
  <2> QED BY <2>1, <2>2 DEF Elsewhere, AtYaml
<1>8. CASE Rename(t)
  <2>1. j.at = "rename" /\ Put(Head(j.files), j.data) /\ job'[t] = Advance(j)
    BY <1>1, <1>8 DEF Rename, Start
  <2>2. Advance(j).at \in {"start", "done"} /\ (Head(j.files) = "yaml" <=> Advance(j).at = "done")
    BY <1>1, AdvanceIs
  <2> QED BY <1>4, <1>5, <2>1, <2>2 DEF Writes, Elsewhere, AtYaml, Put
<1>9. CASE Truncate(t)
  <2>1. j.at = "rename" /\ Put(Head(j.files), Short) /\ job'[t] = [j EXCEPT !.at = "fill"]
    BY <1>1, <1>9 DEF Truncate, Start
  <2>2. job'[t].at = "fill" /\ job'[t].files = j.files /\ job'[t].data = j.data
    BY <1>1, <2>1 DEF Jobs
  <2> QED BY <1>4, <2>1, <2>2 DEF Truncates, Elsewhere, AtYaml, Put
<1>10. CASE Fill(t)
  <2>1. /\ j.at = "fill" /\ job'[t] = Advance(j)
        /\ Put(Head(j.files), j.data) \/ (On(Head(j.files)) # Short /\ Put(Head(j.files), Mixed))
    BY <1>1, <1>10 DEF Fill, Start
  <2>2. Advance(j).at \in {"start", "done"} /\ (Head(j.files) = "yaml" <=> Advance(j).at = "done")
    BY <1>1, AdvanceIs
  <2>3. Head(j.files) = "yaml" => On(Head(j.files)) = Short
    BY <1>3, <2>1 DEF FilesInv, Filling, On
  <2> QED BY <1>4, <1>5, <2>1, <2>2, <2>3 DEF Writes, Elsewhere, AtYaml, Put
<1>11. ~FillFails(t)
  BY DEF FillFails
<1> QED BY <1>6, <1>7, <1>8, <1>9, <1>10, <1>11 DEF Save

\* What config.yaml has of the settings, and what is prepared for it from that.
Same(s, r) == s.ui = r.ui /\ s.subs = r.subs
KeepsSettings(file, js, s) ==
    /\ file \in Contents => Same(file.settings, s)
    /\ \A t \in Threads : AtYaml(js[t]) /\ js[t].part = "nodes" => Same(js[t].data.settings, s)
\* And of the inline nodes.
KeepsNodes(file, js, R) ==
    /\ file \in Contents => Routed(file.nodes) = R
    /\ \A t \in Threads : AtYaml(js[t]) /\ js[t].part = "settings" => Routed(js[t].data.nodes) = R

LEMMA SettingsKept ==
    ASSUME Formed, FilesInv, ShortInv, NEW t \in Threads, Save(t), ~disturbed', ~cut',
           job[t].part # "putback", NEW s,
           job[t].part = "settings" => Same(job[t].content, s),
           job[t].part = "whole" => Same(job[t].content.settings, s),
           KeepsSettings(yaml, job, s) \/ (job[t].part # "nodes" /\ job'[t].at = "done")
    PROVE  KeepsSettings(yaml', job', s)
<1> DEFINE j == job[t]
<1>1. /\ job' = [job EXCEPT ![t] = job'[t]] /\ job'[t].part = j.part /\ Active(j)
      /\ t \in DOMAIN job /\ j \in Jobs /\ JobOK(j) /\ job \in [Threads -> Jobs]
  BY SaveDoes DEF Formed, Typed, Shape
<1>2. (\A u \in Threads : u # t => job'[u] = job[u]) /\ JobOf(j)
  BY <1>1 DEF JobOK
<1>3. CASE Writes(t)
  <2>1. Prepared(j) /\ Head(j.files) # "txt" /\ yaml' = j.data
    BY <1>1, <1>3 DEF JobOK, Writes, AtYaml
  <2>2. CASE j.part \in {"settings", "whole"}
    <3>1. Same(yaml'.settings, s)
      BY <2>1, <2>2 DEF Prepared
    <3> QED BY <1>1, <1>2, <1>3, <3>1 DEF Writes, AloneAt, KeepsSettings, AtYaml
  <2>3. CASE j.part = "nodes"
    <3>1. Same(yaml'.settings, s)
      BY <1>3, <2>3, <2>1 DEF Writes, KeepsSettings
    <3> QED BY <1>1, <1>2, <1>3, <3>1 DEF Writes, AloneAt, KeepsSettings, AtYaml
  <2> QED BY <1>2, <2>2, <2>3 DEF JobOf
<1>4. CASE Reads(t)
  <2>1. KeepsSettings(yaml, job, s)
    BY <1>4 DEF Reads
  <2>2. CASE j.part = "nodes"
    <3>1. yaml \in Contents /\ job'[t].data = Patched(j, yaml) /\ Head(j.files) = "yaml"
      BY <1>4, <2>2 DEF Reads, NeedsFile
    <3>2. job'[t].data.settings = yaml.settings
      BY <2>2, <3>1 DEF Patched, Contents
    <3> QED BY <1>1, <1>2, <1>4, <2>1, <3>1, <3>2 DEF Reads, AloneAt, KeepsSettings
  <2>3. CASE j.part # "nodes"
    BY <1>1, <1>2, <1>4, <2>1, <2>3 DEF Reads, AloneAt, KeepsSettings
  <2> QED BY <2>2, <2>3
<1>5. CASE Truncates(t)
  <2>1. Short \notin Contents
    BY MarksAssumption
  <2> QED BY <1>1, <1>2, <1>5, <2>1 DEF Truncates, KeepsSettings
<1>6. CASE Elsewhere(t)
  BY <1>1, <1>2, <1>6 DEF Elsewhere, KeepsSettings
<1> QED BY <1>3, <1>4, <1>5, <1>6, SaveKinds

LEMMA NodesKept ==
    ASSUME Formed, FilesInv, ShortInv, NEW t \in Threads, Save(t), ~disturbed', ~cut',
           job[t].part # "putback", NEW R,
           job[t].part = "nodes" /\ job'[t].at = "done" => InlineRoutes(job[t].content) = R,
           job[t].part = "whole" /\ job'[t].at = "done" => Routed(job[t].content.nodes) = R,
           KeepsNodes(yaml, job, R) \/ (job[t].part # "settings" /\ job'[t].at = "done")
    PROVE  KeepsNodes(yaml', job', R)
<1> DEFINE j == job[t]
<1>1. /\ job' = [job EXCEPT ![t] = job'[t]] /\ job'[t].part = j.part /\ Active(j)
      /\ t \in DOMAIN job /\ j \in Jobs /\ JobOK(j) /\ job \in [Threads -> Jobs]
  BY SaveDoes DEF Formed, Typed, Shape
<1>2. (\A u \in Threads : u # t => job'[u] = job[u]) /\ JobOf(j)
  BY <1>1 DEF JobOK
<1>3. CASE Writes(t)
  <2>1. Prepared(j) /\ Head(j.files) # "txt" /\ yaml' = j.data
    BY <1>1, <1>3 DEF JobOK, Writes, AtYaml
  <2>2. Routed(yaml'.nodes) = R
    <3>1. CASE j.part = "nodes"
      <4>1. yaml'.nodes = Inline(j.content) /\ j.content \in Seq(Nodes)
        BY <1>2, <2>1, <3>1 DEF Prepared, JobOf
      <4> QED BY <1>3, <3>1, <4>1, InlineIs DEF Writes
    <3>2. CASE j.part = "whole"
      BY <1>3, <2>1, <3>2 DEF Prepared, Writes
    <3>3. CASE j.part = "settings"
      BY <1>3, <2>1, <3>3 DEF Writes, KeepsNodes
    <3> QED BY <1>2, <3>1, <3>2, <3>3 DEF JobOf
  <2> QED BY <1>1, <1>2, <1>3, <2>2 DEF Writes, AloneAt, KeepsNodes, AtYaml
<1>4. CASE Reads(t)
  <2>1. KeepsNodes(yaml, job, R)
    BY <1>4 DEF Reads
  <2>2. CASE j.part = "settings"
    <3>1. yaml \in Contents /\ job'[t].data = Patched(j, yaml) /\ Head(j.files) = "yaml"
      BY <1>4, <2>2 DEF Reads, NeedsFile
    <3>2. job'[t].data.nodes = yaml.nodes
      BY <2>2, <3>1 DEF Patched, Contents
    <3> QED BY <1>1, <1>2, <1>4, <2>1, <3>1, <3>2 DEF Reads, AloneAt, KeepsNodes
  <2>3. CASE j.part # "settings"
    BY <1>1, <1>2, <1>4, <2>1, <2>3 DEF Reads, AloneAt, KeepsNodes
  <2> QED BY <2>2, <2>3
<1>5. CASE Truncates(t)
  <2>1. Short \notin Contents
    BY MarksAssumption
  <2> QED BY <1>1, <1>2, <1>5, <2>1 DEF Truncates, KeepsNodes
<1>6. CASE Elsewhere(t)
  BY <1>1, <1>2, <1>6 DEF Elsewhere, KeepsNodes
<1> QED BY <1>3, <1>4, <1>5, <1>6, SaveKinds

\* No other step touches what is kept.
LEMMA QuietKeeps ==
    ASSUME QuietStep
    PROVE  /\ \A s : KeepsSettings(yaml, job, s) => KeepsSettings(yaml', job', s)
           /\ \A R : KeepsNodes(yaml, job, R) => KeepsNodes(yaml', job', R)
<1>1. yaml' = yaml /\ \A t \in Threads : AtYaml(job'[t]) => job'[t] = job[t]
  BY DEF QuietStep, JobMoves, AtYaml
<1>2. ASSUME NEW s, KeepsSettings(yaml, job, s) PROVE KeepsSettings(yaml', job', s)
  BY <1>1, <1>2 DEF KeepsSettings
<1>3. ASSUME NEW R, KeepsNodes(yaml, job, R) PROVE KeepsNodes(yaml', job', R)
  BY <1>1, <1>3 DEF KeepsNodes
<1> QED BY <1>2, <1>3

-----------------------------------------------------------------------------
(* SettingsOnDisk.                                                         *)

SettingsInv == Clean /\ stage # "off" =>
    LET b == op["backup"]
        jw == job["web"]
        jb == job["backup"]
    IN  /\ b.name # "restore" => /\ ~Active(jw) => KeepsSettings(yaml, job, mem.settings)
                                 /\ Active(jw) => jw.content = mem.settings
                                 /\ (outcome = "done" => synced) => Same(web, mem.settings)
                                 /\ op["manager"].name = "reload" /\ target # None => target.settings = mem.settings
                                 /\ b.name = "webdav" /\ Active(jb) => Same(jb.content, mem.settings)
        /\ b.name = "restore" =>
              /\ b.pc = "save" => /\ jb.at = "done" => KeepsSettings(yaml, job, archive.settings)
                                  /\ Active(jb) => jb.content.settings = archive.settings
              /\ b.pc \in {"store", "toapply"} => KeepsSettings(yaml, job, archive.settings)
              /\ b.pc = "apply" => KeepsSettings(yaml, job, archive.settings) /\ target.settings = archive.settings
              /\ b.pc \in {"list", "chain"} => KeepsSettings(yaml, job, mem.settings)

LEMMA SameIs == \A s, r : s = r => Same(s, r)
  BY DEF Same

LEMMA SettingsQuiet ==
    ASSUME Formed, FilesInv, WhoInv, SyncInv, SmoothInv, SettingsInv,
           Next, ~Load, \A t \in Threads : ~Save(t)
    PROVE  SettingsInv'
<1>1. QuietStep /\ \A s : KeepsSettings(yaml, job, s) => KeepsSettings(yaml', job', s)
  BY QuietSteps, QuietKeeps
<1>2. Clean' => Clean
  BY <1>1 DEF QuietStep, Clean, Formed, Typed, HistoryTyped
<1>3. CASE Stop
  BY <1>3, <1>1, <1>2, IdleIs, MarksAssumption DEF Stop, Gone, disk, bounds, Threads, SettingsInv, Clean,
     SmoothInv, WhoInv, SyncInv, Others, Restoring, Formed, Typed, MemTyped, ManagerTyped, BackupTyped, Shape,
     StageShape, ManagerShape, WebShape, BackupShape, LockShape, Free, NoOp, Ops, Active, Jobs
<1>4. CASE Filter
  <2>1. /\ mem'.settings = mem.settings /\ UNCHANGED <<web, synced, target, op, archive, outcome>>
        /\ job' = [job EXCEPT !["manager"] = SaveNodes(mem')] /\ stage = "loaded"
    BY <1>4, FilterDoes DEF Filter, bk, mgr, hist
  <2>2. job'["web"] = job["web"] /\ job'["backup"] = job["backup"]
    BY <2>1 DEF Formed, Typed, Threads
  <2> QED BY <1>1, <1>2, <2>1, <2>2 DEF SettingsInv
<1>5. CASE NoPool
  BY <1>5, <1>1, <1>2, IdleIs, MarksAssumption DEF NoPool, Serve, disk, world, bk, mgr, hist, bounds,
     SettingsInv, Clean, SmoothInv, WhoInv, SyncInv, Others, Restoring, Formed, Typed, MemTyped, ManagerTyped,
     BackupTyped, Shape, StageShape, ManagerShape, WebShape, BackupShape, LockShape, Free, NoOp, Threads, Ops,
     Active, Jobs
<1>6. CASE PackingSaved
  BY <1>6, <1>1, <1>2, IdleIs, MarksAssumption DEF PackingSaved, Saved, Done, disk, world, conf, bk, mgr, hist,
     bounds, SettingsInv, Clean, SmoothInv, WhoInv, SyncInv, Others, Restoring, Formed, Typed, MemTyped,
     ManagerTyped, BackupTyped, Shape, StageShape, ManagerShape, WebShape, BackupShape, LockShape, Free, NoOp,
     Threads, Ops, Active, Jobs
<1>7. CASE PackingFails
  BY <1>7, <1>1, <1>2, IdleIs, MarksAssumption DEF PackingFails, Unsaved, Gone, disk, world, bounds, Threads,
     SettingsInv, Clean, SmoothInv, WhoInv, SyncInv, Others, Restoring, Formed, Typed, MemTyped, ManagerTyped,
     BackupTyped, Shape, StageShape, ManagerShape, WebShape, BackupShape, LockShape, Free, NoOp, Ops, Active,
     Jobs
<1>8. CASE SyncPorts
  BY <1>8, <1>1, <1>2, IdleIs, MarksAssumption DEF SyncPorts, Serve, world, bk, mgr, hist, bounds, SettingsInv,
     Clean, SmoothInv, WhoInv, SyncInv, Others, Restoring, Formed, Typed, MemTyped, ManagerTyped, BackupTyped,
     Shape, StageShape, ManagerShape, WebShape, BackupShape, LockShape, Free, NoOp, Threads, Ops, Active, Jobs
<1>9. CASE SyncFails
  BY <1>9, <1>1, <1>2, IdleIs, MarksAssumption DEF SyncFails, Faulty, Gone, disk, world, Threads, SettingsInv,
     Clean, SmoothInv, WhoInv, SyncInv, Others, Restoring, Formed, Typed, MemTyped, ManagerTyped, BackupTyped,
     Shape, StageShape, ManagerShape, WebShape, BackupShape, LockShape, Free, NoOp, Ops, Active, Jobs
<1>10. ASSUME NEW r \in Routes, CreateNode(r) PROVE SettingsInv'
  <2>1. Edit("create", r, mem'.nodes) /\ mem'.settings = mem.settings
    BY <1>10, CreateDoes
  <2>2. /\ UNCHANGED <<stage, web, synced, archive, target, outcome>>
        /\ op' = [op EXCEPT !["manager"] = [name |-> "create", pc |-> "save", arg |-> r]]
        /\ job' = [job EXCEPT !["manager"] = job'["manager"]]
    BY <2>1 DEF Edit, Begin, Start, bk, Formed, Typed, Threads
  <2>3. op'["backup"] = op["backup"] /\ op'["manager"].name = "create" /\ job'["web"] = job["web"] /\ job'["backup"] = job["backup"]
    BY <2>2 DEF Formed, Typed, Threads
  <2> QED BY <1>1, <1>2, <2>1, <2>2, <2>3 DEF SettingsInv
<1>11. ASSUME NEW r \in Routes, DeleteNode(r) PROVE SettingsInv'
  <2>1. Edit("delete", r, mem'.nodes) /\ mem'.settings = mem.settings
    BY <1>11, DeleteDoes
  <2>2. /\ UNCHANGED <<stage, web, synced, archive, target, outcome>>
        /\ op' = [op EXCEPT !["manager"] = [name |-> "delete", pc |-> "save", arg |-> r]]
        /\ job' = [job EXCEPT !["manager"] = job'["manager"]]
    BY <2>1 DEF Edit, Begin, Start, bk, Formed, Typed, Threads
  <2>3. op'["backup"] = op["backup"] /\ op'["manager"].name = "delete" /\ job'["web"] = job["web"] /\ job'["backup"] = job["backup"]
    BY <2>2 DEF Formed, Typed, Threads
  <2> QED BY <1>1, <1>2, <2>1, <2>2, <2>3 DEF SettingsInv
<1>12. CASE EditSaved
  BY <1>12, <1>1, <1>2, IdleIs, MarksAssumption DEF EditSaved, Editing, Saved, Goto, Done, Unlock, disk, world,
     conf, bk, hist, bounds, SettingsInv, Clean, SmoothInv, WhoInv, SyncInv, Others, Restoring, Formed, Typed,
     MemTyped, ManagerTyped, BackupTyped, Shape, StageShape, ManagerShape, WebShape, BackupShape, LockShape,
     Free, NoOp, Threads, Ops, Active, Jobs
<1>13. CASE EditFails
  <2>1. /\ [mem EXCEPT !.nodes = undo].settings = mem.settings /\ mem' = [mem EXCEPT !.nodes = undo]
        /\ UNCHANGED <<stage, web, synced, target, archive, outcome>>
        /\ op' = [op EXCEPT !["manager"] = NoOp] /\ job' = [job EXCEPT !["manager"] = Idle]
    <3>1. mem \in Configs /\ undo \in Seq(Nodes)
      BY <1>13, IdleIs DEF EditFails, Editing, Formed, Typed, MemTyped, ManagerTyped, Shape, StageShape, Free
    <3> QED BY <1>13, <3>1, WithNodes DEF EditFails, Undone, Return, Done, bk, hist
  <2>2. op'["backup"] = op["backup"] /\ op'["manager"] = NoOp /\ job'["web"] = job["web"] /\ job'["backup"] = job["backup"]
    BY <2>1 DEF Formed, Typed, Threads
  <2> QED BY <1>1, <1>2, <2>1, <2>2, IdleIs DEF SettingsInv
<1>14. CASE EditPool
  BY <1>14, <1>1, <1>2, IdleIs, MarksAssumption DEF EditPool, Return, Restoring, world, conf, bk, mgr, bounds,
     SettingsInv, Clean, SmoothInv, WhoInv, SyncInv, Others, Formed, Typed, MemTyped, ManagerTyped, BackupTyped,
     Shape, StageShape, ManagerShape, WebShape, BackupShape, LockShape, Free, NoOp, Threads, Ops, Active, Jobs
<1>15. CASE Reload
  <2>1. mem \in Configs /\ target'.settings = mem.settings /\ job' = [job EXCEPT !["manager"] = SaveNodes(target')]
    BY <1>15, PacksDoes DEF Reload, Formed, Typed, MemTyped
  <2>2. /\ UNCHANGED <<stage, mem, web, synced, archive, outcome>>
        /\ op' = [op EXCEPT !["manager"] = [name |-> "reload", pc |-> "save", arg |-> None]]
    BY <1>15 DEF Reload, Begin, conf, bk
  <2>3. op'["backup"] = op["backup"] /\ job'["web"] = job["web"] /\ job'["backup"] = job["backup"]
    BY <2>1, <2>2 DEF Formed, Typed, Threads
  <2>4. op["backup"].pc # "apply"
    BY <1>15, MarksAssumption DEF Reload, Lock, Formed, Shape, LockShape
  <2> QED BY <1>1, <1>2, <2>1, <2>2, <2>3, <2>4 DEF SettingsInv
<1>16. CASE ReloadPool
  BY <1>16, <1>1, <1>2, IdleIs, MarksAssumption DEF ReloadPool, Step, Return, Restoring, world, conf, bk, mgr,
     bounds, SettingsInv, Clean, SmoothInv, WhoInv, SyncInv, Others, Formed, Typed, MemTyped, ManagerTyped,
     BackupTyped, Shape, StageShape, ManagerShape, WebShape, BackupShape, LockShape, Free, NoOp, Threads, Ops,
     Active, Jobs
<1>17. CASE EnterEmpty
  BY <1>17, <1>1, <1>2, IdleIs, MarksAssumption, SameIs DEF EnterEmpty, Free, disk, world, bk, mgr, hist,
     SettingsInv, Clean, SmoothInv, WhoInv, SyncInv, Others, Restoring, Formed, Typed, MemTyped, ManagerTyped,
     BackupTyped, Shape, StageShape, ManagerShape, WebShape, BackupShape, LockShape, NoOp, Threads, Ops, Active,
     Jobs
<1>18. ASSUME NEW settings \in Settings, EditSettings(settings) PROVE SettingsInv'
  <2>1. /\ UNCHANGED <<stage, synced, archive, target, outcome>> /\ web' = settings
        /\ op' = [op EXCEPT !["web"] = [name |-> "settings", pc |-> "save", arg |-> None]]
        /\ job' = [job EXCEPT !["web"] = SaveSettings(settings)]
        /\ ~disturbed' => synced /\ target = None /\ Free("backup")
    BY <1>18 DEF EditSettings, Begin, Start, Crosses, mgr, bk
  <2>2. synced => mem'.settings = settings
    BY <1>18, WithSettings DEF EditSettings, Formed, Typed, MemTyped
  <2>3. op'["backup"] = op["backup"] /\ op'["manager"] = op["manager"] /\ job'["web"] = SaveSettings(settings)
    BY <2>1 DEF Formed, Typed, Threads
  <2>4. SaveSettings(settings).content = settings /\ Active(SaveSettings(settings)) /\ Same(settings, settings)
    BY SaveSettingsIs, SameIs DEF Active
  <2> QED BY <1>1, <1>2, <2>1, <2>2, <2>3, <2>4, IdleIs DEF SettingsInv, Free, Clean
<1>19. CASE SettingsEnd
  BY <1>19, <1>1, <1>2, IdleIs, MarksAssumption DEF SettingsEnd, Step, Saved, Unsaved, Return, Done, disk,
     world, conf, bk, mgr, hist, bounds, SettingsInv, Clean, SmoothInv, WhoInv, SyncInv, Others, Restoring,
     Formed, Typed, MemTyped, ManagerTyped, BackupTyped, Shape, StageShape, ManagerShape, WebShape, BackupShape,
     LockShape, Free, NoOp, Threads, Ops, Active, Jobs
<1>20. CASE SetWebDAV
  <2> DEFINE s == [Current.settings EXCEPT !.dav = dav + 1]
  <2>1. /\ UNCHANGED <<stage, mem, web, synced, archive, target, outcome>>
        /\ op' = [op EXCEPT !["backup"] = [name |-> "webdav", pc |-> "save", arg |-> dav + 1]] /\ Free("backup")
        /\ job' = [job EXCEPT !["backup"] = SaveSettings(s)]
    BY <1>20 DEF SetWebDAV, Begin, Start, conf, bk, mgr
  <2>2. Same(s, mem.settings) /\ s \in Settings
    <3>1. mem \in Configs /\ dav \in Nat
      BY <1>20 DEF SetWebDAV, Formed, Typed, MemTyped, BackupTyped
    <3> QED BY <3>1, CurrentIs DEF Same, Settings
  <2> HIDE DEF s
  <2>3. SaveSettings(s).content = s
    BY <2>2, SaveSettingsIs
  <2>4. /\ op'["backup"].name = "webdav" /\ op'["manager"] = op["manager"] /\ job'["backup"] = SaveSettings(s)
        /\ job'["web"] = job["web"]
    BY <2>1 DEF Formed, Typed, Threads
  <2> QED BY <1>1, <1>2, <2>1, <2>2, <2>3, <2>4, IdleIs DEF SettingsInv, Free
<1>21. CASE WebDAVSaved
  BY <1>21, <1>1, <1>2, IdleIs, MarksAssumption DEF WebDAVSaved, Step, Saved, Return, Done, disk, world, conf,
     mgr, hist, bounds, SettingsInv, Clean, SmoothInv, WhoInv, SyncInv, Others, Restoring, Formed, Typed,
     MemTyped, ManagerTyped, BackupTyped, Shape, StageShape, ManagerShape, WebShape, BackupShape, LockShape,
     Free, NoOp, Threads, Ops, Active, Jobs
<1>22. CASE WebDAVFails
  BY <1>22, <1>1, <1>2, IdleIs, MarksAssumption DEF WebDAVFails, Step, Unsaved, Return, Done, disk, world, conf,
     bk, mgr, hist, bounds, SettingsInv, Clean, SmoothInv, WhoInv, SyncInv, Others, Restoring, Formed, Typed,
     MemTyped, ManagerTyped, BackupTyped, Shape, StageShape, ManagerShape, WebShape, BackupShape, LockShape,
     Free, NoOp, Threads, Ops, Active, Jobs
<1>23. CASE CreateBackup
  BY <1>23, <1>1, <1>2, IdleIs, MarksAssumption DEF CreateBackup, Begin, disk, world, conf, bk, mgr, Free,
     Crosses, Others, Restoring, Threads, SettingsInv, Clean, SmoothInv, WhoInv, SyncInv, Formed, Typed,
     MemTyped, ManagerTyped, BackupTyped, Shape, StageShape, ManagerShape, WebShape, BackupShape, LockShape,
     NoOp, Ops, Active, Jobs
<1>24. CASE SnapshotStore
  BY <1>24, <1>1, <1>2, IdleIs, MarksAssumption DEF SnapshotStore, Step, Return, disk, world, conf, mgr, hist,
     bounds, SettingsInv, Clean, SmoothInv, WhoInv, SyncInv, Others, Restoring, Formed, Typed, MemTyped,
     ManagerTyped, BackupTyped, Shape, StageShape, ManagerShape, WebShape, BackupShape, LockShape, Free, NoOp,
     Threads, Ops, Active, Jobs
<1>25. CASE Restore
  <2>1. /\ archive \in Backups /\ UNCHANGED <<stage, mem, archive>>
        /\ op' = [op EXCEPT !["backup"] = [name |-> "restore", pc |-> "save", arg |-> None]]
        /\ job' = [job EXCEPT !["backup"] = SaveFull(Restored)]
    BY <1>25 DEF Restore, Begin, Start, conf, Formed, Typed, BackupTyped
  <2>2. SaveFull(Restored).content.settings = archive.settings /\ SaveFull(Restored).at = "start"
    <3>1. Restored \in Configs /\ Restored.settings = archive.settings
      BY <2>1, RestoredIs
    <3>2. PICK c \in Configs : c = Restored
      BY <3>1
    <3>3. SaveFull(c).content = [settings |-> c.settings, nodes |-> Inline(c.nodes)] /\ SaveFull(c).at = "start"
      BY SaveFullIs
    <3> QED BY <3>1, <3>2, <3>3
  <2>3. op'["backup"].name = "restore" /\ op'["backup"].pc = "save" /\ job'["backup"] = SaveFull(Restored)
    BY <2>1 DEF Formed, Typed, Threads
  <2> QED BY <1>1, <1>2, <2>1, <2>2, <2>3 DEF SettingsInv
<1>26. CASE RestoreSaved
  BY <1>26, <1>1, <1>2, IdleIs, MarksAssumption DEF RestoreSaved, RestoreAt, Saved, Goto, Done, disk, world,
     conf, bk, mgr, hist, bounds, Step, SettingsInv, Clean, SmoothInv, WhoInv, SyncInv, Others, Restoring,
     Formed, Typed, MemTyped, ManagerTyped, BackupTyped, Shape, StageShape, ManagerShape, WebShape, BackupShape,
     LockShape, Free, NoOp, Threads, Ops, Active, Jobs
<1>27. CASE RestoreUnsaved
  BY <1>27, <1>1, <1>2, IdleIs, MarksAssumption DEF RestoreUnsaved, RestoreAt, Unsaved, RestoreEnds, Done, disk,
     world, conf, mgr, bounds, Step, Return, SettingsInv, Clean, SmoothInv, WhoInv, SyncInv, Others, Restoring,
     Formed, Typed, MemTyped, ManagerTyped, BackupTyped, Shape, StageShape, ManagerShape, WebShape, BackupShape,
     LockShape, Free, NoOp, Threads, Ops, Active, Jobs
<1>28. CASE ReplaceStore
  BY <1>28, <1>1, <1>2, IdleIs, MarksAssumption DEF ReplaceStore, RestoreAt, Goto, world, conf, bk, mgr, hist,
     bounds, Step, SettingsInv, Clean, SmoothInv, WhoInv, SyncInv, Others, Restoring, Formed, Typed, MemTyped,
     ManagerTyped, BackupTyped, Shape, StageShape, ManagerShape, WebShape, BackupShape, LockShape, Free, NoOp,
     Threads, Ops, Active, Jobs
<1>29. CASE ReplaceStoreFails
  BY <1>29, <1>1, <1>2, IdleIs, MarksAssumption DEF ReplaceStoreFails, RestoreAt, Faulty, Goto, disk, world,
     conf, bk, mgr, hist, Step, SettingsInv, Clean, SmoothInv, WhoInv, SyncInv, Others, Restoring, Formed,
     Typed, MemTyped, ManagerTyped, BackupTyped, Shape, StageShape, ManagerShape, WebShape, BackupShape,
     LockShape, Free, NoOp, Threads, Ops, Active, Jobs
<1>30. CASE ApplyRestored
  <2>1. /\ UNCHANGED <<stage, archive>> /\ op["backup"].name = "restore" /\ op["backup"].pc = "toapply"
    BY <1>30 DEF ApplyRestored, ApplyBackup, RestoreAt, Step, bk
  <2>2. archive \in Backups /\ stage = "serving"
    BY <2>1, IdleIs DEF Formed, Typed, BackupTyped, Shape, StageShape, BackupShape, Free
  <2>3. Restored \in Configs /\ Restored.settings = archive.settings
    BY <2>2, RestoredIs
  <2>4. /\ op'["backup"].name = "restore"
        /\ \/ op'["backup"].pc = "list" /\ mem' = Restored
           \/ op'["backup"].pc = "apply" /\ target'.settings = Restored.settings
    <3>1. CASE Restored.nodes = <<>>
      BY <1>30, <2>1, <3>1 DEF ApplyRestored, ApplyBackup, Goto, Formed, Typed, Threads, Ops
    <3>2. CASE Restored.nodes # <<>>
      <4>1. /\ op' = [op EXCEPT !["backup"].pc = "apply"]
            /\ Packs("backup", Restored) \/ StartsAsIs("backup", Restored)
        BY <1>30, <3>2 DEF ApplyRestored, ApplyBackup, Goto
      <4>2. target'.settings = Restored.settings
        BY <2>3, <4>1, PacksDoes DEF StartsAsIs
      <4> QED BY <2>1, <4>1, <4>2 DEF Formed, Typed, Threads, Ops
    <3> QED BY <3>1, <3>2
  <2> QED BY <1>1, <1>2, <2>1, <2>2, <2>3, <2>4 DEF SettingsInv
<1>31. CASE Reapply
  BY <1>31, <1>1, <1>2, IdleIs, MarksAssumption DEF Reapply, RestoreAt, ApplyBackup, Step, Goto, mgr, Lock,
     StartsAsIs, Becomes, disk, world, bk, hist, bounds, Start, SettingsInv, Clean, SmoothInv, WhoInv, SyncInv,
     Others, Restoring, Formed, Typed, MemTyped, ManagerTyped, BackupTyped, Shape, StageShape, ManagerShape,
     WebShape, BackupShape, LockShape, Free, NoOp, Threads, Ops, Active, Jobs
<1>32. CASE ListNodes
  BY <1>32, <1>1, <1>2, IdleIs, MarksAssumption DEF ListNodes, RestoreAt, Goto, world, conf, bk, mgr, hist,
     bounds, Step, SettingsInv, Clean, SmoothInv, WhoInv, SyncInv, Others, Restoring, Formed, Typed, MemTyped,
     ManagerTyped, BackupTyped, Shape, StageShape, ManagerShape, WebShape, BackupShape, LockShape, Free, NoOp,
     Threads, Ops, Active, Jobs
<1>33. CASE SetChainProfiles
  BY <1>33, <1>1, <1>2, IdleIs, MarksAssumption, SameIs DEF SetChainProfiles, RestoreAt, RestoreEnds, disk,
     world, conf, mgr, bounds, Step, Return, SettingsInv, Clean, SmoothInv, WhoInv, SyncInv, Others, Restoring,
     Formed, Typed, MemTyped, ManagerTyped, BackupTyped, Shape, StageShape, ManagerShape, WebShape, BackupShape,
     LockShape, Free, NoOp, Threads, Ops, Active, Jobs
<1>34. CASE RestoreFailsLate
  BY <1>34, <1>1, <1>2, IdleIs, MarksAssumption DEF RestoreFailsLate, RestoreAt, Faulty, Goto, disk, world,
     conf, bk, mgr, hist, Step, SettingsInv, Clean, SmoothInv, WhoInv, SyncInv, Others, Restoring, Formed,
     Typed, MemTyped, ManagerTyped, BackupTyped, Shape, StageShape, ManagerShape, WebShape, BackupShape,
     LockShape, Free, NoOp, Threads, Ops, Active, Jobs
<1>35. CASE PutFileBack
  BY <1>35, <1>1, <1>2, IdleIs, MarksAssumption DEF PutFileBack, RestoreAt, Start, Goto, disk, world, conf, bk,
     mgr, bounds, Step, SettingsInv, Clean, SmoothInv, WhoInv, SyncInv, Others, Restoring, Formed, Typed,
     MemTyped, ManagerTyped, BackupTyped, Shape, StageShape, ManagerShape, WebShape, BackupShape, LockShape,
     Free, NoOp, Threads, Ops, Active, Jobs
<1>36. CASE PutStoreBack
  BY <1>36, <1>1, <1>2, IdleIs, MarksAssumption DEF PutStoreBack, RestoreAt, Saved, Unsaved, Done, Faulty,
     RestoreEnds, world, conf, mgr, Step, Return, SettingsInv, Clean, SmoothInv, WhoInv, SyncInv, Others,
     Restoring, Formed, Typed, MemTyped, ManagerTyped, BackupTyped, Shape, StageShape, ManagerShape, WebShape,
     BackupShape, LockShape, Free, NoOp, Threads, Ops, Active, Jobs
<1>37. ASSUME NEW t \in Threads, MoveConflicts(t) PROVE SettingsInv'
  <2>1. /\ target # None /\ target'.settings = target.settings /\ reloadMu = t
        /\ UNCHANGED <<stage, web, archive, outcome, op>> /\ mem' \in {mem, target'} /\ (synced' => synced)
        /\ job' = [job EXCEPT ![t] = SaveNodes(target')]
    BY <1>37, MovesDoes DEF MoveConflicts, Applying, Becomes, bk, hist
  <2> SUFFICES ASSUME Clean', stage' # "off" PROVE SettingsInv'
    BY DEF SettingsInv
  <2>2. Clean /\ QuietStep
    BY <1>1, <1>2
  <2>3. CASE t = "manager"
    <3>1. op["manager"].name = "reload" /\ stage = "serving"
      BY <2>1, <2>3, MarksAssumption, IdleIs DEF Formed, Shape, LockShape, StageShape, Free
    <3>2. op["backup"].name # "restore"
      BY <2>2, <3>1, IdleIs DEF WhoInv, Clean, Free
    <3>3. mem'.settings = mem.settings /\ target.settings = mem.settings
      BY <2>1, <2>2, <3>1, <3>2 DEF SettingsInv
    <3>4. job'["web"] = job["web"] /\ job'["backup"] = job["backup"]
      BY <2>1, <2>3 DEF Formed, Typed, Threads
    <3> QED BY <1>1, <2>1, <2>2, <3>1, <3>2, <3>3, <3>4 DEF SettingsInv
  <2>4. CASE t = "backup"
    <3>1. op["backup"].pc = "apply" /\ op["backup"].name = "restore" /\ stage = "serving"
      BY <2>1, <2>2, <2>4, IdleIs DEF Formed, Shape, LockShape, BackupShape, StageShape, SmoothInv, Free
    <3> QED BY <1>1, <2>1, <2>2, <3>1 DEF SettingsInv
  <2>5. t # "web"
    BY <2>1, MarksAssumption DEF Formed, Typed, ManagerTyped
  <2> QED BY <2>3, <2>4, <2>5 DEF Threads
<1>38. ASSUME NEW t \in Threads, Applied(t) PROVE SettingsInv'
  <2>1. /\ target # None /\ mem' = target /\ reloadMu = t /\ target' = None
        /\ UNCHANGED <<stage, archive, outcome>> /\ web' \in {web, target.settings}
        /\ (ran # None => web' = target.settings) /\ (synced' <=> (ran # None))
        /\ op' = [op EXCEPT ![t].pc = CASE op[t].pc = "apply" -> "list" [] op[t].pc = "reapply" -> "putfile" [] OTHER -> "pool"]
        /\ job' = [job EXCEPT ![t] = Idle]
    BY <1>38 DEF Applied, Applying, Goto, Done, bk, hist
  <2> SUFFICES ASSUME Clean', stage' # "off" PROVE SettingsInv'
    BY DEF SettingsInv
  <2>2. Clean
    BY <1>2
  <2>3. CASE t = "manager"
    <3>1. op["manager"].name = "reload" /\ stage = "serving"
      BY <2>1, <2>3, MarksAssumption, IdleIs DEF Formed, Shape, LockShape, StageShape, Free
    <3>2. op["backup"].name # "restore"
      BY <2>2, <3>1, IdleIs DEF WhoInv, Clean, Free
    <3>3. mem'.settings = mem.settings
      BY <2>1, <2>2, <3>1, <3>2 DEF SettingsInv
    <3>4. /\ job'["web"] = job["web"] /\ job'["backup"] = job["backup"] /\ op'["backup"] = op["backup"]
      BY <2>1, <2>3 DEF Formed, Typed, Threads
    <3>5. (outcome = "done" => synced') => Same(web', mem'.settings)
      <4>1. CASE web' = target.settings
        BY <2>1, <4>1, SameIs
      <4>2. CASE web' = web /\ ran = None
        <5>1. (outcome = "done" => synced') => (outcome = "done" => synced)
          BY <2>1, <4>2
        <5> QED BY <2>1, <2>2, <3>2, <3>3, <4>2, <5>1 DEF SettingsInv
      <4> QED BY <2>1, <4>1, <4>2
    <3> QED BY <1>1, <2>1, <2>2, <3>1, <3>2, <3>3, <3>4, <3>5 DEF SettingsInv
  <2>4. CASE t = "backup"
    <3>1. op["backup"].pc = "apply" /\ op["backup"].name = "restore" /\ stage = "serving"
      BY <2>1, <2>2, <2>4, IdleIs DEF Formed, Shape, LockShape, BackupShape, StageShape, SmoothInv, Free
    <3>2. op'["backup"].pc = "list" /\ op'["backup"].name = "restore"
      BY <2>1, <2>4, <3>1 DEF Formed, Typed, Threads, Ops
    <3> QED BY <1>1, <2>1, <2>2, <3>1, <3>2 DEF SettingsInv
  <2>5. t # "web"
    BY <2>1, MarksAssumption DEF Formed, Typed, ManagerTyped
  <2> QED BY <2>3, <2>4, <2>5 DEF Threads
<1>39. ASSUME NEW t \in Threads, RollBack(t) PROVE SettingsInv'
  <2>1. ~Clean'
    <3>1. CASE Unsaved(t)
      BY <1>2, <3>1 DEF Unsaved, SmoothInv
    <3>2. CASE Faulty
      BY <3>2 DEF Faulty, Clean, Formed, Typed, HistoryTyped
    <3> QED BY <1>39, <3>1, <3>2 DEF RollBack
  <2> QED BY <2>1 DEF SettingsInv
<1>40. ASSUME NEW t \in Threads, RolledBack(t) PROVE SettingsInv'
  <2>1. op[t].pc = "rollback" /\ t \in {"manager", "backup"}
    BY <1>40, MarksAssumption DEF RolledBack, Formed, Typed, ManagerTyped, Threads
  <2>2. ~Clean'
    BY <1>2, <2>1 DEF SmoothInv
  <2> QED BY <2>2 DEF SettingsInv
<1>41. ASSUME NEW t \in Threads, StartFails(t) PROVE SettingsInv'
  <2>1. ~Clean'
    <3>1. CASE Unsaved(t)
      BY <1>2, <3>1 DEF Unsaved, SmoothInv
    <3>2. CASE Faulty
      BY <3>2 DEF Faulty, Clean, Formed, Typed, HistoryTyped
    <3> QED BY <1>41, <3>1, <3>2 DEF StartFails
  <2> QED BY <2>1 DEF SettingsInv
<1>42. CASE ProgramNext
  BY <1>42, <1>3, <1>4, <1>5, <1>6, <1>7, <1>8, <1>9 DEF ProgramNext
<1>43. CASE ManagerNext
  BY <1>43, <1>10, <1>11, <1>12, <1>13, <1>14, <1>15, <1>16, <1>17 DEF ManagerNext
<1>44. CASE WebNext
  BY <1>44, SettingsEdits, <1>18, <1>19 DEF WebNext
<1>45. CASE BackupNext
  BY <1>45, <1>20, <1>21, <1>22, <1>23, <1>24, <1>25, <1>26, <1>27, <1>28, <1>29, <1>30, <1>31, <1>32, <1>33,
     <1>34, <1>35, <1>36 DEF BackupNext
<1>46. ASSUME NEW t \in Threads, ApplyNext(t) PROVE SettingsInv'
  BY <1>46, <1>37, <1>38, <1>39, <1>40, <1>41 DEF ApplyNext
<1>47. ASSUME NEW t \in Threads, Save(t) PROVE SettingsInv'
  BY <1>47
<1> QED BY <1>42, <1>43, <1>44, <1>45, <1>46, <1>47 DEF Next

LEMMA SettingsSave ==
    ASSUME Formed, FilesInv, WhoInv, ShortInv, SmoothInv, SmoothInv', SettingsInv, NEW t \in Threads, Save(t)
    PROVE  SettingsInv'
<1> SUFFICES ASSUME Clean', stage' # "off" PROVE SettingsInv'
  BY DEF SettingsInv
<1>1. /\ UNCHANGED <<stage, mem, web, synced, archive, target, outcome, op>> /\ Active(job[t])
      /\ job' = [job EXCEPT ![t] = job'[t]] /\ job'[t].part = job[t].part /\ job'[t].content = job[t].content
      /\ job \in [Threads -> Jobs] /\ job'[t] \in Jobs /\ job'[t].at # "none"
  BY SaveDoes DEF conf, mgr, bk, Formed, Typed
<1>2. Clean
  <2>1. (disturbed => disturbed') /\ (cut => cut')
    BY SaveMarks
  <2>2. (faults' = 0 => faults = 0) /\ faults \in Nat
    BY DEF Save, Prepare, PrepareFails, Rename, Truncate, Fill, FillFails, Faulty, bounds, Formed, Typed, HistoryTyped
  <2> QED BY <2>1, <2>2 DEF Clean
<1>3. Active(job'[t]) \/ job'[t].at = "done"
  <2>1. job'[t].at # "failed"
    BY DEF SmoothInv
  <2> QED BY <1>1, <2>1 DEF Active, Jobs
<1>4. \A u \in Threads : u # t => job'[u] = job[u]
  BY <1>1
<1>5. ~disturbed' /\ ~cut'
  BY DEF Clean
<1>6. CASE t = "manager"
  <2>1. job[t].part = "nodes"
    BY <1>1, <1>6, IdleIs DEF Formed, Shape, StageShape, ManagerShape, Free, Active
  <2>2. \A s : KeepsSettings(yaml, job, s) => KeepsSettings(yaml', job', s)
    BY <1>5, <2>1, SettingsKept
  <2>3. job'["web"] = job["web"] /\ job'["backup"] = job["backup"]
    BY <1>4, <1>6 DEF Threads
  <2> QED BY <1>1, <1>2, <2>2, <2>3 DEF SettingsInv
<1>7. CASE t = "web"
  <2>1. job["web"].part = "settings" /\ ~Free("web")
    BY <1>1, <1>7, FreeIsIdle DEF Formed, Shape, WebShape, Active
  <2>2. op["backup"].name \in {"none", "create"}
    BY <1>2, <2>1 DEF WhoInv, Clean
  <2>3. job["web"].content = mem.settings
    BY <1>1, <1>2, <1>7, <2>2 DEF SettingsInv
  <2>4. job'["web"].at = "done" => KeepsSettings(yaml', job', mem.settings)
    <3> SUFFICES ASSUME job'["web"].at = "done" PROVE KeepsSettings(yaml', job', mem.settings)
      OBVIOUS
    <3>1. PICK s : s = mem.settings
      OBVIOUS
    <3>2. Same(job[t].content, s)
      BY <1>7, <2>3, <3>1, SameIs
    <3>3. KeepsSettings(yaml', job', s)
      BY <1>5, <1>7, <2>1, <3>2, SettingsKept
    <3> QED BY <3>1, <3>3
  <2>5. job'["backup"] = job["backup"]
    BY <1>4, <1>7 DEF Threads
  <2> QED BY <1>1, <1>2, <1>3, <1>7, <2>2, <2>3, <2>4, <2>5 DEF SettingsInv
<1>8. CASE t = "backup"
  <2>1. job'["web"] = job["web"]
    BY <1>4, <1>8 DEF Threads
  <2>2. ~Free("backup") /\ op["backup"].name \in {"webdav", "restore"}
    BY <1>1, <1>8, FreeIsIdle, IdleIs DEF Formed, Shape, BackupShape, Active
  <2>3. CASE op["backup"].name = "webdav"
    <3>1. job["backup"].part = "settings" /\ Same(job["backup"].content, mem.settings)
      BY <1>1, <1>2, <1>8, <2>3 DEF Formed, Shape, BackupShape, SettingsInv
    <3>2. ~Active(job["web"])
      BY <1>2, <2>3, FreeIsIdle, IdleIs DEF WhoInv, Clean
    <3>3. KeepsSettings(yaml', job', mem.settings)
      <4>1. PICK s : s = mem.settings
        OBVIOUS
      <4>2. KeepsSettings(yaml, job, s)
        BY <1>1, <1>2, <2>3, <3>2, <4>1 DEF SettingsInv
      <4>3. KeepsSettings(yaml', job', s)
        BY <1>5, <1>8, <3>1, <4>1, <4>2, SettingsKept
      <4> QED BY <4>1, <4>3
    <3> QED BY <1>1, <1>2, <1>8, <2>1, <2>3, <3>1, <3>2, <3>3 DEF SettingsInv
  <2>4. CASE op["backup"].name = "restore"
    <3>1. op["backup"].pc \in {"save", "apply"}
      BY <1>1, <1>2, <1>8, <2>4, IdleIs DEF SmoothInv, Formed, Shape, BackupShape
    <3>2. CASE op["backup"].pc = "save"
      <4>1. job["backup"].part = "whole" /\ job["backup"].content.settings = archive.settings
        BY <1>1, <1>2, <1>8, <2>4, <3>2 DEF Formed, Shape, BackupShape, SettingsInv
      <4>2. job'["backup"].at = "done" => KeepsSettings(yaml', job', archive.settings)
        <5> SUFFICES ASSUME job'["backup"].at = "done" PROVE KeepsSettings(yaml', job', archive.settings)
          OBVIOUS
        <5>1. PICK s : s = archive.settings
          OBVIOUS
        <5>2. Same(job[t].content.settings, s)
          BY <1>8, <4>1, <5>1, SameIs
        <5>3. KeepsSettings(yaml', job', s)
          BY <1>5, <1>8, <4>1, <5>2, SettingsKept
        <5> QED BY <5>1, <5>3
      <4> QED BY <1>1, <1>8, <2>4, <3>2, <4>1, <4>2 DEF SettingsInv
    <3>3. CASE op["backup"].pc = "apply"
      <4>1. job["backup"].part = "nodes"
        BY <1>1, <1>8, <2>4, <3>3 DEF Formed, Shape, BackupShape, JobOK, JobOf
      <4>2. \A s : KeepsSettings(yaml, job, s) => KeepsSettings(yaml', job', s)
        BY <1>5, <1>8, <4>1, SettingsKept
      <4> QED BY <1>1, <1>2, <2>4, <3>3, <4>2 DEF SettingsInv
    <3> QED BY <3>1, <3>2, <3>3
  <2> QED BY <2>2, <2>3, <2>4
<1> QED BY <1>6, <1>7, <1>8 DEF Threads

LEMMA SettingsLoad == ASSUME Formed, FilesInv, Load PROVE SettingsInv'
<1>1. PICK content \in Contents :
          (yaml # Short => content = yaml) /\ mem'.settings = content.settings /\ web' = content.settings
  BY LoadDoes
<1>2. /\ yaml' = yaml /\ stage = "off" /\ (disturbed' <=> yaml = Short) /\ outcome' = "none"
      /\ UNCHANGED <<op, job, target>>
  BY DEF Load, disk, mgr
<1>3. (\A t \in Threads : job[t] = Idle) /\ op["manager"] = NoOp /\ op["backup"] = NoOp
  BY <1>2 DEF Formed, Shape, StageShape, Threads, Free
<1>4. Same(web', mem'.settings)
  BY <1>1, SameIs
<1>5. ~disturbed' => KeepsSettings(yaml', job', mem'.settings)
  <2>1. \A t \in Threads : ~AtYaml(job'[t])
    BY <1>2, <1>3, IdleIs DEF AtYaml
  <2> QED BY <1>1, <1>2, <2>1, SameIs DEF KeepsSettings
<1>6. ~Active(job'["web"])
  BY <1>2, <1>3, IdleIs DEF Threads
<1> QED BY <1>2, <1>3, <1>4, <1>5, <1>6, IdleIs DEF SettingsInv, Clean

LEMMA SettingsNext ==
    ASSUME Formed, FilesInv, WhoInv, SyncInv, ShortInv, SmoothInv, SmoothInv', SettingsInv, [Next]_vars
    PROVE  SettingsInv'
<1>1. CASE UNCHANGED vars
  BY <1>1 DEF SettingsInv, Clean, vars, disk, conf, bk, mgr, hist, bounds
<1>2. CASE Load
  BY <1>2, SettingsLoad
<1>3. CASE \E t \in Threads : Save(t)
  BY <1>3, SettingsSave
<1>4. CASE Next /\ ~Load /\ \A t \in Threads : ~Save(t)
  BY <1>4, SettingsQuiet
<1> QED BY <1>1, <1>2, <1>3, <1>4

\* When no operation is under way config.yaml has the settings that the WebUI
\* shows: saving nodes, moving them and rolling back writes none of its own
\* (SaveNodes beside SaveSettings).
THEOREM SettingsStayOnDisk == Spec => []SettingsOnDisk
<1>1. Init => SyncInv /\ SettingsInv
  BY DEF Init, SyncInv, SettingsInv
<1>2. Formed /\ FilesInv /\ WhoInv /\ ShortInv /\ SmoothInv /\ SmoothInv' /\ SyncInv /\ SettingsInv /\ [Next]_vars
      => SyncInv' /\ SettingsInv'
  BY SyncNext, SettingsNext
<1>3. Formed /\ FilesInv /\ ShortInv /\ SettingsInv => SettingsOnDisk
  <2> SUFFICES ASSUME Formed, FilesInv, ShortInv, SettingsInv, Quiet, Undisturbed, faults = 0,
                      outcome = "done" => synced
               PROVE  yaml.settings.ui = web.ui /\ yaml.settings.subs = web.subs
    BY DEF SettingsOnDisk
  <2>1. /\ stage = "serving" /\ \A t \in Threads : Free(t)
        /\ Clean
    BY DEF Quiet, Undisturbed, Clean
  <2>2. \A t \in Threads : job[t] = Idle
    BY <2>1, FreeIsIdle DEF Threads
  <2>3. yaml \in Contents
    BY <2>2, IdleIs DEF Undisturbed, FilesInv, ShortInv, Filling, Formed, Typed, DiskTyped
  <2>4. op["backup"].name # "restore" /\ ~Active(job["web"])
    BY <2>1, <2>2, IdleIs DEF Free, NoOp, Threads
  <2>5. KeepsSettings(yaml, job, mem.settings) /\ Same(web, mem.settings)
    BY <2>1, <2>4 DEF SettingsInv
  <2> QED BY <2>3, <2>5 DEF KeepsSettings, Same
<1> QED BY <1>1, <1>2, <1>3, AlwaysSmooth, PTL DEF Spec

-----------------------------------------------------------------------------
(* NodesOnDisk.                                                            *)

\* With one fault at most: where config.yaml has the inline nodes of memory,
\* where those from before, and where a save is on its way to make it so.
Lucky == ~disturbed /\ ~cut /\ faults <= 1
NodesInv == Lucky /\ outcome # "undone" =>
    LET m == op["manager"]
        b == op["backup"]
        jm == job["manager"]
        jb == job["backup"]
    IN  /\ stage \in {"loaded", "syncing"} => KeepsNodes(yaml, job, InlineRoutes(mem.nodes))
        /\ stage = "packing" => /\ jm.at = "done" => KeepsNodes(yaml, job, InlineRoutes(mem.nodes))
                                /\ Active(jm) => jm.content = mem.nodes
        /\ stage = "serving" /\ b.name # "restore" =>
              /\ m.name = "none" \/ m.pc = "pool" => KeepsNodes(yaml, job, InlineRoutes(mem.nodes))
              /\ m.name \in {"create", "delete"} /\ m.pc = "save" =>
                    /\ jm.at = "done" => KeepsNodes(yaml, job, InlineRoutes(mem.nodes))
                    /\ jm.at # "done" => KeepsNodes(yaml, job, InlineRoutes(undo))
                    /\ Active(jm) => jm.content = mem.nodes
              /\ m.name = "reload" /\ m.pc = "save" =>
                    /\ KeepsNodes(yaml, job, InlineRoutes(mem.nodes))
                    /\ InlineRoutes(target.nodes) = InlineRoutes(mem.nodes)
                    /\ Active(jm) => InlineRoutes(jm.content) = InlineRoutes(mem.nodes)
              /\ m.pc = "rollback" =>
                    /\ faults = 1 /\ jm.at # "failed"
                    /\ jm.at = "done" => KeepsNodes(yaml, job, InlineRoutes(ran.nodes))
                    /\ Active(jm) => jm.content = ran.nodes
        /\ b.name = "restore" =>
              /\ b.pc = "save" =>
                    /\ jb.at = "done" => KeepsNodes(yaml, job, InlineRoutes(Restored.nodes))
                    /\ jb.at = "failed" => KeepsNodes(yaml, job, InlineRoutes(mem.nodes))
                    /\ Active(jb) => /\ Routed(jb.content.nodes) = InlineRoutes(Restored.nodes)
                                     /\ KeepsNodes(yaml, job, InlineRoutes(mem.nodes)) \/ faults = 1
              /\ b.pc \in {"store", "toapply"} => KeepsNodes(yaml, job, InlineRoutes(Restored.nodes))
              /\ b.pc = "apply" => /\ KeepsNodes(yaml, job, InlineRoutes(target.nodes))
                                   /\ Active(jb) => InlineRoutes(jb.content) = InlineRoutes(target.nodes)
              /\ b.pc \in {"list", "chain"} => KeepsNodes(yaml, job, InlineRoutes(mem.nodes))

LEMMA NodesQuiet ==
    ASSUME Formed, FilesInv, WhoInv, SmoothInv, NodesInv,
           Next, ~Load, \A t \in Threads : ~Save(t)
    PROVE  NodesInv'
<1>1. QuietStep /\ \A R : KeepsNodes(yaml, job, R) => KeepsNodes(yaml', job', R)
  BY QuietSteps, QuietKeeps
<1>2. Lucky' => Lucky
  BY <1>1 DEF QuietStep, Lucky, Formed, Typed, HistoryTyped
<1>3. archive' = archive => Restored' = Restored
  BY DEF Restored, Mapped
<1>4. CASE Stop
  BY <1>4, <1>1, <1>2, <1>3, IdleIs, MarksAssumption DEF Stop, Gone, disk, bounds, Threads, NodesInv, Lucky,
     SmoothInv, WhoInv, Others, Restoring, Formed, Typed, MemTyped, HistoryTyped, ManagerTyped, BackupTyped,
     Shape, StageShape, ManagerShape, WebShape, BackupShape, LockShape, Free, NoOp, Ops, Active, Jobs
<1>5. CASE Filter
  <2>1. /\ mem' \in Configs /\ job' = [job EXCEPT !["manager"] = SaveNodes(mem')]
        /\ stage = "loaded" /\ stage' = "packing" /\ UNCHANGED op
    BY <1>5, FilterDoes DEF Filter, mgr
  <2>2. SaveNodes(mem').at = "start" /\ SaveNodes(mem').content = mem'.nodes
    BY <2>1, SaveNodesIs
  <2>3. job'["manager"] = SaveNodes(mem') /\ op'["backup"].name # "restore"
    BY <2>1, IdleIs DEF Formed, Typed, Threads, Shape, StageShape, Free
  <2> QED BY <2>1, <2>2, <2>3 DEF NodesInv
<1>6. CASE NoPool
  BY <1>6, <1>1, <1>2, <1>3, IdleIs, MarksAssumption DEF NoPool, Serve, disk, world, bk, mgr, hist, bounds,
     NodesInv, Lucky, SmoothInv, WhoInv, Others, Restoring, Formed, Typed, MemTyped, HistoryTyped, ManagerTyped,
     BackupTyped, Shape, StageShape, ManagerShape, WebShape, BackupShape, LockShape, Free, NoOp, Threads, Ops,
     Active, Jobs
<1>7. CASE PackingSaved
  BY <1>7, <1>1, <1>2, <1>3, IdleIs, MarksAssumption DEF PackingSaved, Saved, Done, disk, world, conf, bk, mgr,
     hist, bounds, NodesInv, Lucky, SmoothInv, WhoInv, Others, Restoring, Formed, Typed, MemTyped, HistoryTyped,
     ManagerTyped, BackupTyped, Shape, StageShape, ManagerShape, WebShape, BackupShape, LockShape, Free, NoOp,
     Threads, Ops, Active, Jobs
<1>8. CASE PackingFails
  BY <1>8, <1>1, <1>2, <1>3, IdleIs, MarksAssumption DEF PackingFails, Unsaved, Gone, disk, world, bounds,
     Threads, NodesInv, Lucky, SmoothInv, WhoInv, Others, Restoring, Formed, Typed, MemTyped, HistoryTyped,
     ManagerTyped, BackupTyped, Shape, StageShape, ManagerShape, WebShape, BackupShape, LockShape, Free, NoOp,
     Ops, Active, Jobs
<1>9. CASE SyncPorts
  BY <1>9, <1>1, <1>2, <1>3, IdleIs, MarksAssumption DEF SyncPorts, Serve, world, bk, mgr, hist, bounds,
     NodesInv, Lucky, SmoothInv, WhoInv, Others, Restoring, Formed, Typed, MemTyped, HistoryTyped, ManagerTyped,
     BackupTyped, Shape, StageShape, ManagerShape, WebShape, BackupShape, LockShape, Free, NoOp, Threads, Ops,
     Active, Jobs
<1>10. CASE SyncFails
  BY <1>10, <1>1, <1>2, <1>3, IdleIs, MarksAssumption DEF SyncFails, Faulty, Gone, disk, world, Threads,
     NodesInv, Lucky, SmoothInv, WhoInv, Others, Restoring, Formed, Typed, MemTyped, HistoryTyped, ManagerTyped,
     BackupTyped, Shape, StageShape, ManagerShape, WebShape, BackupShape, LockShape, Free, NoOp, Ops, Active,
     Jobs
<1>11. ASSUME NEW r \in Routes, CreateNode(r) PROVE NodesInv'
  <2>1. Edit("create", r, mem'.nodes) /\ mem' \in Configs /\ job' = [job EXCEPT !["manager"] = SaveNodes(mem')]
    BY <1>11, CreateDoes DEF Edit, Start
  <2>2. /\ UNCHANGED <<stage, archive, target, outcome>> /\ undo' = mem.nodes /\ stage = "serving" /\ Free("manager")
        /\ op' = [op EXCEPT !["manager"] = [name |-> "create", pc |-> "save", arg |-> r]]
        /\ (~disturbed' => ~Restoring("backup"))
    BY <2>1 DEF Edit, Begin, bk, Crosses, Others, Threads
  <2>3. SaveNodes(mem').at = "start" /\ SaveNodes(mem').content = mem'.nodes
    BY <2>1, SaveNodesIs
  <2>4. /\ op'["backup"] = op["backup"] /\ op'["manager"].name = "create" /\ op'["manager"].pc = "save"
        /\ job'["manager"] = SaveNodes(mem')
    BY <2>1, <2>2 DEF Formed, Typed, Threads
  <2> QED BY <1>1, <1>2, <2>2, <2>3, <2>4 DEF NodesInv, Lucky, Restoring, Free, NoOp
<1>12. ASSUME NEW r \in Routes, DeleteNode(r) PROVE NodesInv'
  <2>1. Edit("delete", r, mem'.nodes) /\ mem' \in Configs /\ job' = [job EXCEPT !["manager"] = SaveNodes(mem')]
    BY <1>12, DeleteDoes DEF Edit, Start
  <2>2. /\ UNCHANGED <<stage, archive, target, outcome>> /\ undo' = mem.nodes /\ stage = "serving" /\ Free("manager")
        /\ op' = [op EXCEPT !["manager"] = [name |-> "delete", pc |-> "save", arg |-> r]]
        /\ (~disturbed' => ~Restoring("backup"))
    BY <2>1 DEF Edit, Begin, bk, Crosses, Others, Threads
  <2>3. SaveNodes(mem').at = "start" /\ SaveNodes(mem').content = mem'.nodes
    BY <2>1, SaveNodesIs
  <2>4. /\ op'["backup"] = op["backup"] /\ op'["manager"].name = "delete" /\ op'["manager"].pc = "save"
        /\ job'["manager"] = SaveNodes(mem')
    BY <2>1, <2>2 DEF Formed, Typed, Threads
  <2> QED BY <1>1, <1>2, <2>2, <2>3, <2>4 DEF NodesInv, Lucky, Restoring, Free, NoOp
<1>13. CASE EditSaved
  BY <1>13, <1>1, <1>2, <1>3, IdleIs, MarksAssumption DEF EditSaved, Editing, Saved, Goto, Done, Unlock, disk,
     world, conf, bk, hist, bounds, NodesInv, Lucky, SmoothInv, WhoInv, Others, Restoring, Formed, Typed,
     MemTyped, HistoryTyped, ManagerTyped, BackupTyped, Shape, StageShape, ManagerShape, WebShape, BackupShape,
     LockShape, Free, NoOp, Threads, Ops, Active, Jobs
<1>14. CASE EditFails
  <2>1. /\ mem' = [mem EXCEPT !.nodes = undo] /\ UNCHANGED <<stage, archive, outcome>>
        /\ op' = [op EXCEPT !["manager"] = NoOp] /\ Editing /\ job["manager"].at = "failed"
    BY <1>14 DEF EditFails, Undone, Return, Unsaved, bk, hist
  <2>2. mem \in Configs /\ undo \in Seq(Nodes) /\ stage = "serving"
    BY <2>1, IdleIs DEF Editing, Formed, Typed, MemTyped, ManagerTyped, Shape, StageShape, Free
  <2>3. mem'.nodes = undo
    BY <2>1, <2>2, WithNodes
  <2>4. op'["backup"] = op["backup"] /\ op'["manager"].name = "none" /\ op'["manager"].pc = "none"
    BY <2>1 DEF Formed, Typed, Threads, NoOp
  <2>5. Lucky => op["backup"].name # "restore"
    BY <2>1, IdleIs DEF WhoInv, Lucky, Free, Editing
  <2> QED BY <1>1, <1>2, <2>1, <2>2, <2>3, <2>4, <2>5 DEF NodesInv, Editing
<1>15. CASE EditPool
  BY <1>15, <1>1, <1>2, <1>3, IdleIs, MarksAssumption DEF EditPool, Return, Restoring, world, conf, bk, mgr,
     bounds, NodesInv, Lucky, SmoothInv, WhoInv, Others, Formed, Typed, MemTyped, HistoryTyped, ManagerTyped,
     BackupTyped, Shape, StageShape, ManagerShape, WebShape, BackupShape, LockShape, Free, NoOp, Threads, Ops,
     Active, Jobs
<1>16. CASE Reload
  <2>1. /\ mem \in Configs /\ target' \in Configs /\ job' = [job EXCEPT !["manager"] = SaveNodes(target')]
        /\ InlineRoutes(target'.nodes) = InlineRoutes(mem.nodes)
    BY <1>16, PacksDoes DEF Reload, Formed, Typed, MemTyped
  <2>2. /\ UNCHANGED <<stage, mem, archive, outcome>> /\ stage = "serving" /\ Free("manager")
        /\ op' = [op EXCEPT !["manager"] = [name |-> "reload", pc |-> "save", arg |-> None]]
        /\ (~disturbed' => ~Restoring("backup"))
    BY <1>16 DEF Reload, Begin, conf, bk, Crosses, Others, Threads
  <2>3. SaveNodes(target').at = "start" /\ SaveNodes(target').content = target'.nodes
    BY <2>1, SaveNodesIs
  <2>4. /\ op'["backup"] = op["backup"] /\ job'["manager"] = SaveNodes(target')
        /\ op'["manager"].name = "reload" /\ op'["manager"].pc = "save"
    BY <2>1, <2>2 DEF Formed, Typed, Threads
  <2> SUFFICES ASSUME Lucky', outcome' # "undone" PROVE NodesInv'
    BY DEF NodesInv
  <2>5. op["backup"].name # "restore" /\ op["manager"].name = "none"
    BY <2>2 DEF Lucky, Restoring, Free, NoOp
  <2>6. KeepsNodes(yaml', job', InlineRoutes(mem'.nodes))
    BY <1>1, <1>2, <2>2, <2>5 DEF NodesInv
  <2>7. InlineRoutes(job'["manager"].content) = InlineRoutes(mem'.nodes)
    BY <2>1, <2>2, <2>3, <2>4
  <2> QED BY <2>1, <2>2, <2>4, <2>5, <2>6, <2>7 DEF NodesInv
<1>17. CASE ReloadPool
  BY <1>17, <1>1, <1>2, <1>3, IdleIs, MarksAssumption DEF ReloadPool, Step, Return, Restoring, world, conf, bk,
     mgr, bounds, NodesInv, Lucky, SmoothInv, WhoInv, Others, Formed, Typed, MemTyped, HistoryTyped,
     ManagerTyped, BackupTyped, Shape, StageShape, ManagerShape, WebShape, BackupShape, LockShape, Free, NoOp,
     Threads, Ops, Active, Jobs
<1>18. CASE EnterEmpty
  BY <1>18, <1>1, <1>2, <1>3, IdleIs, MarksAssumption DEF EnterEmpty, Free, disk, world, bk, mgr, hist,
     NodesInv, Lucky, SmoothInv, WhoInv, Others, Restoring, Formed, Typed, MemTyped, HistoryTyped, ManagerTyped,
     BackupTyped, Shape, StageShape, ManagerShape, WebShape, BackupShape, LockShape, NoOp, Threads, Ops, Active,
     Jobs
<1>19. ASSUME NEW settings \in Settings, EditSettings(settings) PROVE NodesInv'
  <2>1. /\ UNCHANGED <<stage, ran, archive, target, outcome, undo>> /\ stage # "off"
        /\ op' = [op EXCEPT !["web"] = [name |-> "settings", pc |-> "save", arg |-> None]]
        /\ job' = [job EXCEPT !["web"] = SaveSettings(settings)]
        /\ mem' \in {mem, [mem EXCEPT !.settings = settings]} /\ UNCHANGED faults
    BY <1>19 DEF EditSettings, Begin, Start, mgr, bk
  <2>2. mem'.nodes = mem.nodes
    <3>1. mem \in Configs
      BY <2>1 DEF Formed, Typed, MemTyped
    <3>2. [mem EXCEPT !.settings = settings].nodes = mem.nodes
      BY <3>1, WithSettings
    <3> QED BY <2>1, <3>2
  <2>3. /\ op'["backup"] = op["backup"] /\ op'["manager"] = op["manager"]
        /\ job'["backup"] = job["backup"] /\ job'["manager"] = job["manager"]
    BY <2>1 DEF Formed, Typed, Threads
  <2> QED BY <1>1, <1>2, <1>3, <2>1, <2>2, <2>3 DEF NodesInv
<1>20. CASE SettingsEnd
  BY ZenonT(40), <1>20, <1>1, <1>2, <1>3, IdleIs, MarksAssumption DEF SettingsEnd, Step, Saved, Unsaved, Return, Done, disk,
     world, conf, bk, mgr, hist, bounds, NodesInv, Lucky, SmoothInv, WhoInv, Others, Restoring, Formed, Typed,
     MemTyped, HistoryTyped, ManagerTyped, BackupTyped, Shape, StageShape, ManagerShape, WebShape, BackupShape,
     LockShape, Free, NoOp, Threads, Ops, Active, Jobs
<1>21. CASE SetWebDAV
  BY ZenonT(40), <1>21, <1>1, <1>2, <1>3, IdleIs, MarksAssumption DEF SetWebDAV, Begin, Start, disk, world, conf, bk, mgr,
     Free, Crosses, Others, Restoring, Threads, NodesInv, Lucky, SmoothInv, WhoInv, Formed, Typed, MemTyped,
     HistoryTyped, ManagerTyped, BackupTyped, Shape, StageShape, ManagerShape, WebShape, BackupShape, LockShape,
     NoOp, Ops, Active, Jobs
<1>22. CASE WebDAVSaved
  BY ZenonT(40), <1>22, <1>1, <1>2, <1>3, IdleIs, MarksAssumption DEF WebDAVSaved, Step, Saved, Return, Done, disk, world,
     conf, mgr, hist, bounds, NodesInv, Lucky, SmoothInv, WhoInv, Others, Restoring, Formed, Typed, MemTyped,
     HistoryTyped, ManagerTyped, BackupTyped, Shape, StageShape, ManagerShape, WebShape, BackupShape, LockShape,
     Free, NoOp, Threads, Ops, Active, Jobs
<1>23. CASE WebDAVFails
  BY ZenonT(40), <1>23, <1>1, <1>2, <1>3, IdleIs, MarksAssumption DEF WebDAVFails, Step, Unsaved, Return, Done, disk, world,
     conf, bk, mgr, hist, bounds, NodesInv, Lucky, SmoothInv, WhoInv, Others, Restoring, Formed, Typed,
     MemTyped, HistoryTyped, ManagerTyped, BackupTyped, Shape, StageShape, ManagerShape, WebShape, BackupShape,
     LockShape, Free, NoOp, Threads, Ops, Active, Jobs
<1>24. CASE CreateBackup
  BY <1>24, <1>1, <1>2, <1>3, IdleIs, MarksAssumption DEF CreateBackup, Begin, disk, world, conf, bk, mgr, Free,
     Crosses, Others, Restoring, Threads, NodesInv, Lucky, SmoothInv, WhoInv, Formed, Typed, MemTyped,
     HistoryTyped, ManagerTyped, BackupTyped, Shape, StageShape, ManagerShape, WebShape, BackupShape, LockShape,
     NoOp, Ops, Active, Jobs
<1>25. CASE SnapshotStore
  BY <1>25, <1>1, <1>2, <1>3, IdleIs, MarksAssumption DEF SnapshotStore, Step, Return, disk, world, conf, mgr,
     hist, bounds, NodesInv, Lucky, SmoothInv, WhoInv, Others, Restoring, Formed, Typed, MemTyped, HistoryTyped,
     ManagerTyped, BackupTyped, Shape, StageShape, ManagerShape, WebShape, BackupShape, LockShape, Free, NoOp,
     Threads, Ops, Active, Jobs
<1>26. CASE Restore
  <2>1. /\ archive \in Backups /\ UNCHANGED <<stage, mem, archive, faults>> /\ stage = "serving" /\ Free("backup")
        /\ op' = [op EXCEPT !["backup"] = [name |-> "restore", pc |-> "save", arg |-> None]]
        /\ job' = [job EXCEPT !["backup"] = SaveFull(Restored)]
        /\ (~disturbed' => Free("manager"))
    BY <1>26 DEF Restore, Begin, Start, conf, Formed, Typed, BackupTyped, Crosses, Others, Threads
  <2>2. PICK c \in Configs : c = Restored
    BY <2>1, RestoredIs
  <2>3. /\ SaveFull(c).content = [settings |-> c.settings, nodes |-> Inline(c.nodes)] /\ SaveFull(c).at = "start"
        /\ Routed(Inline(c.nodes)) = InlineRoutes(c.nodes)
    BY SaveFullIs, ConfigIs, InlineIs
  <2>4. /\ op'["backup"].name = "restore" /\ op'["backup"].pc = "save" /\ job'["backup"] = SaveFull(c)
        /\ Restored' = c
    BY <1>3, <2>1, <2>2 DEF Formed, Typed, Threads
  <2>5. Routed(job'["backup"].content.nodes) = InlineRoutes(Restored'.nodes) /\ job'["backup"].at = "start"
    BY <2>3, <2>4
  <2>6. Lucky' => KeepsNodes(yaml', job', InlineRoutes(mem'.nodes)) \/ faults' = 1
    <3> SUFFICES ASSUME Lucky', faults # 1 PROVE KeepsNodes(yaml', job', InlineRoutes(mem'.nodes))
      BY <2>1
    <3>1. Clean
      BY <1>2, <2>1 DEF Clean, Lucky, Formed, Typed, HistoryTyped
    <3>2. outcome # "undone" /\ op["manager"].name = "none" /\ op["backup"].name # "restore"
      BY <2>1, <3>1, IdleIs DEF SmoothInv, Free, Lucky, NoOp
    <3> QED BY <1>1, <1>2, <2>1, <3>2 DEF NodesInv
  <2> QED BY <2>1, <2>4, <2>5, <2>6 DEF NodesInv
<1>27. CASE RestoreSaved
  BY <1>27, <1>1, <1>2, <1>3, IdleIs, MarksAssumption DEF RestoreSaved, RestoreAt, Saved, Goto, Done, disk,
     world, conf, bk, mgr, hist, bounds, Step, NodesInv, Lucky, SmoothInv, WhoInv, Others, Restoring, Formed,
     Typed, MemTyped, HistoryTyped, ManagerTyped, BackupTyped, Shape, StageShape, ManagerShape, WebShape,
     BackupShape, LockShape, Free, NoOp, Threads, Ops, Active, Jobs
<1>28. CASE RestoreUnsaved
  BY <1>28, <1>1, <1>2, <1>3, IdleIs, MarksAssumption DEF RestoreUnsaved, RestoreAt, Unsaved, RestoreEnds, Done,
     disk, world, conf, mgr, bounds, Step, Return, NodesInv, Lucky, SmoothInv, WhoInv, Others, Restoring,
     Formed, Typed, MemTyped, HistoryTyped, ManagerTyped, BackupTyped, Shape, StageShape, ManagerShape,
     WebShape, BackupShape, LockShape, Free, NoOp, Threads, Ops, Active, Jobs
<1>29. CASE ReplaceStore
  BY <1>29, <1>1, <1>2, <1>3, IdleIs, MarksAssumption DEF ReplaceStore, RestoreAt, Goto, world, conf, bk, mgr,
     hist, bounds, Step, NodesInv, Lucky, SmoothInv, WhoInv, Others, Restoring, Formed, Typed, MemTyped,
     HistoryTyped, ManagerTyped, BackupTyped, Shape, StageShape, ManagerShape, WebShape, BackupShape, LockShape,
     Free, NoOp, Threads, Ops, Active, Jobs
<1>30. CASE ReplaceStoreFails
  BY <1>30, <1>1, <1>2, <1>3, IdleIs, MarksAssumption DEF ReplaceStoreFails, RestoreAt, Faulty, Goto, disk,
     world, conf, bk, mgr, hist, Step, NodesInv, Lucky, SmoothInv, WhoInv, Others, Restoring, Formed, Typed,
     MemTyped, HistoryTyped, ManagerTyped, BackupTyped, Shape, StageShape, ManagerShape, WebShape, BackupShape,
     LockShape, Free, NoOp, Threads, Ops, Active, Jobs
<1>31. CASE ApplyRestored
  <2>1. /\ UNCHANGED <<stage, archive, outcome>> /\ op["backup"].name = "restore" /\ op["backup"].pc = "toapply"
    BY <1>31 DEF ApplyRestored, ApplyBackup, RestoreAt, Step, bk, hist
  <2>2. archive \in Backups /\ stage = "serving"
    BY <2>1, IdleIs DEF Formed, Typed, BackupTyped, Shape, StageShape, BackupShape, Free
  <2>3. Restored \in Configs
    BY <2>2, RestoredIs
  <2>4. /\ op'["backup"].name = "restore"
        /\ \/ op'["backup"].pc = "list" /\ mem' = Restored
           \/ /\ op'["backup"].pc = "apply"
              /\ InlineRoutes(target'.nodes) = InlineRoutes(Restored.nodes)
              /\ Active(job'["backup"]) => job'["backup"].content = target'.nodes
    <3>1. CASE Restored.nodes = <<>>
      BY <1>31, <2>1, <3>1 DEF ApplyRestored, ApplyBackup, Goto, Formed, Typed, Threads, Ops
    <3>2. CASE Restored.nodes # <<>>
      <4>1. /\ op' = [op EXCEPT !["backup"].pc = "apply"]
            /\ Packs("backup", Restored) \/ StartsAsIs("backup", Restored)
        BY <1>31, <3>2 DEF ApplyRestored, ApplyBackup, Goto
      <4>2. CASE Packs("backup", Restored)
        <5>1. /\ target' \in Configs /\ InlineRoutes(target'.nodes) = InlineRoutes(Restored.nodes)
              /\ job' = [job EXCEPT !["backup"] = SaveNodes(target')]
          BY <2>3, <4>2, PacksDoes
        <5>2. SaveNodes(target').content = target'.nodes /\ job'["backup"] = SaveNodes(target')
          BY <5>1, SaveNodesIs DEF Formed, Typed, Threads
        <5> QED BY <2>1, <4>1, <5>1, <5>2 DEF Formed, Typed, Threads, Ops
      <4>3. CASE StartsAsIs("backup", Restored)
        <5>1. target' = Restored /\ job' = [job EXCEPT !["backup"] = [Idle EXCEPT !.at = "done"]]
          BY <4>3 DEF StartsAsIs, Start
        <5>2. ~Active(job'["backup"])
          BY <5>1 DEF Formed, Typed, Threads, Idle, Active
        <5> QED BY <2>1, <4>1, <5>1, <5>2 DEF Formed, Typed, Threads, Ops
      <4> QED BY <4>1, <4>2, <4>3
    <3> QED BY <3>1, <3>2
  <2>5. PICK R : R = InlineRoutes(Restored.nodes)
    OBVIOUS
  <2> QED BY <1>1, <1>2, <2>1, <2>2, <2>4, <2>5 DEF NodesInv
<1>32. CASE Reapply
  BY <1>32, <1>1, <1>2, <1>3, IdleIs, MarksAssumption DEF Reapply, RestoreAt, ApplyBackup, Step, Goto, mgr,
     Lock, StartsAsIs, Becomes, disk, world, bk, hist, bounds, Start, NodesInv, Lucky, SmoothInv, WhoInv,
     Others, Restoring, Formed, Typed, MemTyped, HistoryTyped, ManagerTyped, BackupTyped, Shape, StageShape,
     ManagerShape, WebShape, BackupShape, LockShape, Free, NoOp, Threads, Ops, Active, Jobs
<1>33. CASE ListNodes
  BY <1>33, <1>1, <1>2, <1>3, IdleIs, MarksAssumption DEF ListNodes, RestoreAt, Goto, world, conf, bk, mgr,
     hist, bounds, Step, NodesInv, Lucky, SmoothInv, WhoInv, Others, Restoring, Formed, Typed, MemTyped,
     HistoryTyped, ManagerTyped, BackupTyped, Shape, StageShape, ManagerShape, WebShape, BackupShape, LockShape,
     Free, NoOp, Threads, Ops, Active, Jobs
<1>34. CASE SetChainProfiles
  BY <1>34, <1>1, <1>2, <1>3, IdleIs, MarksAssumption DEF SetChainProfiles, RestoreAt, RestoreEnds, disk, world,
     conf, mgr, bounds, Step, Return, NodesInv, Lucky, SmoothInv, WhoInv, Others, Restoring, Formed, Typed,
     MemTyped, HistoryTyped, ManagerTyped, BackupTyped, Shape, StageShape, ManagerShape, WebShape, BackupShape,
     LockShape, Free, NoOp, Threads, Ops, Active, Jobs
<1>35. CASE RestoreFailsLate
  BY <1>35, <1>1, <1>2, <1>3, IdleIs, MarksAssumption DEF RestoreFailsLate, RestoreAt, Faulty, Goto, disk,
     world, conf, bk, mgr, hist, Step, NodesInv, Lucky, SmoothInv, WhoInv, Others, Restoring, Formed, Typed,
     MemTyped, HistoryTyped, ManagerTyped, BackupTyped, Shape, StageShape, ManagerShape, WebShape, BackupShape,
     LockShape, Free, NoOp, Threads, Ops, Active, Jobs
<1>36. CASE PutFileBack
  BY <1>36, <1>1, <1>2, <1>3, IdleIs, MarksAssumption DEF PutFileBack, RestoreAt, Start, Goto, disk, world,
     conf, bk, mgr, bounds, Step, NodesInv, Lucky, SmoothInv, WhoInv, Others, Restoring, Formed, Typed,
     MemTyped, HistoryTyped, ManagerTyped, BackupTyped, Shape, StageShape, ManagerShape, WebShape, BackupShape,
     LockShape, Free, NoOp, Threads, Ops, Active, Jobs
<1>37. CASE PutStoreBack
  BY <1>37, <1>1, <1>2, <1>3, IdleIs, MarksAssumption DEF PutStoreBack, RestoreAt, Saved, Unsaved, Done, Faulty,
     RestoreEnds, world, conf, mgr, Step, Return, NodesInv, Lucky, SmoothInv, WhoInv, Others, Restoring, Formed,
     Typed, MemTyped, HistoryTyped, ManagerTyped, BackupTyped, Shape, StageShape, ManagerShape, WebShape,
     BackupShape, LockShape, Free, NoOp, Threads, Ops, Active, Jobs
<1>38. ASSUME NEW t \in Threads, MoveConflicts(t) PROVE NodesInv'
  <2>1. /\ target # None /\ target' \in Configs /\ InlineRoutes(target'.nodes) = InlineRoutes(target.nodes)
        /\ reloadMu = t /\ op[t].pc # "rollback"
        /\ UNCHANGED <<stage, ran, archive, outcome, op, faults>> /\ mem' \in {mem, target'}
        /\ job' = [job EXCEPT ![t] = SaveNodes(target')]
    BY <1>38, MovesDoes DEF MoveConflicts, Applying, Becomes, bk, hist, bounds
  <2>2. SaveNodes(target').at = "start" /\ SaveNodes(target').content = target'.nodes
    BY <2>1, SaveNodesIs
  <2> SUFFICES ASSUME Lucky', outcome' # "undone" PROVE NodesInv'
    BY DEF NodesInv
  <2>3. Lucky /\ outcome # "undone"
    BY <1>2, <2>1
  <2>4. CASE t = "manager"
    <3>1. op["manager"].name = "reload" /\ op["manager"].pc = "save" /\ stage = "serving"
      BY <2>1, <2>4, MarksAssumption, IdleIs DEF Formed, Shape, LockShape, StageShape, Free
    <3>2. op["backup"].name # "restore"
      BY <2>3, <3>1, IdleIs DEF WhoInv, Lucky, Free
    <3>3. job'["manager"] = SaveNodes(target') /\ job'["backup"] = job["backup"]
      BY <2>1, <2>4 DEF Formed, Typed, Threads
    <3>4. KeepsNodes(yaml', job', InlineRoutes(mem'.nodes)) /\ InlineRoutes(mem'.nodes) = InlineRoutes(mem.nodes)
      BY <1>1, <2>1, <2>3, <3>1, <3>2 DEF NodesInv
    <3>5. InlineRoutes(target.nodes) = InlineRoutes(mem.nodes)
      BY <2>3, <3>1, <3>2 DEF NodesInv
    <3> QED BY <2>1, <2>2, <3>1, <3>2, <3>3, <3>4, <3>5 DEF NodesInv
  <2>5. CASE t = "backup"
    <3>1. op["backup"].pc \in {"apply", "reapply"} /\ op["backup"].name = "restore" /\ stage = "serving"
      BY <2>1, <2>5, MarksAssumption, IdleIs DEF Formed, Shape, LockShape, BackupShape, StageShape, Free
    <3>2. job'["backup"] = SaveNodes(target')
      BY <2>1, <2>5 DEF Formed, Typed, Threads
    <3> QED BY <1>1, <2>1, <2>2, <2>3, <3>1, <3>2 DEF NodesInv
  <2>6. t # "web"
    BY <2>1, MarksAssumption DEF Formed, Typed, ManagerTyped
  <2> QED BY <2>4, <2>5, <2>6 DEF Threads
<1>39. ASSUME NEW t \in Threads, Applied(t) PROVE NodesInv'
  <2>1. /\ target # None /\ mem' = target /\ reloadMu = t /\ target' = None /\ op[t].pc # "rollback"
        /\ UNCHANGED <<stage, archive, outcome, faults>>
        /\ op' = [op EXCEPT ![t].pc = CASE op[t].pc = "apply" -> "list" [] op[t].pc = "reapply" -> "putfile" [] OTHER -> "pool"]
        /\ job' = [job EXCEPT ![t] = Idle]
    BY <1>39 DEF Applied, Applying, Goto, Done, bk, hist, bounds
  <2> SUFFICES ASSUME Lucky', outcome' # "undone" PROVE NodesInv'
    BY DEF NodesInv
  <2>2. Lucky /\ outcome # "undone"
    BY <1>2, <2>1
  <2>3. CASE t = "manager"
    <3>1. op["manager"].name = "reload" /\ op["manager"].pc = "save" /\ stage = "serving"
      BY <2>1, <2>3, MarksAssumption, IdleIs DEF Formed, Shape, LockShape, StageShape, Free
    <3>2. op["backup"].name # "restore"
      BY <2>2, <3>1, IdleIs DEF WhoInv, Lucky, Free
    <3>3. /\ op'["backup"] = op["backup"] /\ op'["manager"].pc = "pool" /\ op'["manager"].name = "reload"
      BY <2>1, <2>3, <3>1 DEF Formed, Typed, Threads, Ops
    <3> QED BY <1>1, <2>1, <2>2, <3>1, <3>2, <3>3 DEF NodesInv
  <2>4. CASE t = "backup"
    <3>1. op["backup"].pc \in {"apply", "reapply"} /\ op["backup"].name = "restore" /\ stage = "serving"
      BY <2>1, <2>4, MarksAssumption, IdleIs DEF Formed, Shape, LockShape, BackupShape, StageShape, Free
    <3>2. /\ op["backup"].pc = "apply" => op'["backup"].pc = "list"
          /\ op["backup"].pc = "reapply" => op'["backup"].pc = "putfile"
          /\ op'["backup"].name = "restore"
      BY <2>1, <2>4, <3>1 DEF Formed, Typed, Threads, Ops
    <3> QED BY <1>1, <2>1, <2>2, <3>1, <3>2 DEF NodesInv
  <2>5. t # "web"
    BY <2>1, MarksAssumption DEF Formed, Typed, ManagerTyped
  <2> QED BY <2>3, <2>4, <2>5 DEF Threads
<1>40. ASSUME NEW t \in Threads, RollBack(t) PROVE NodesInv'
  <2>1. /\ ran # None /\ reloadMu = t /\ target # None /\ UNCHANGED <<stage, archive, outcome, mem, ran, target>>
        /\ op' = [op EXCEPT ![t].pc = "rollback"] /\ job' = [job EXCEPT ![t] = SaveNodes(ran)]
        /\ (job[t].at = "failed" /\ faults' = faults) \/ faults' = faults + 1
    BY <1>40 DEF RollBack, Applying, Unsaved, Faulty, Goto, Start, conf, bk, mgr, hist
  <2> SUFFICES ASSUME Lucky', outcome' # "undone" PROVE NodesInv'
    BY DEF NodesInv
  <2>2. Lucky /\ outcome # "undone" /\ faults' = 1
    BY <1>2, <2>1 DEF SmoothInv, Clean, Lucky, Formed, Typed, HistoryTyped
  <2>3. SaveNodes(ran).at = "start" /\ SaveNodes(ran).content = ran.nodes
    BY <2>1, SaveNodesIs DEF Formed, Typed, MemTyped
  <2>4. CASE t = "manager"
    <3>1. op["manager"].name = "reload" /\ op["manager"].pc \in {"save", "rollback"} /\ stage = "serving"
      BY <2>1, <2>4, MarksAssumption, IdleIs DEF Formed, Shape, LockShape, StageShape, Free
    <3>2. op["backup"].name # "restore"
      BY <2>2, <3>1, IdleIs DEF WhoInv, Lucky, Free
    <3>3. /\ op'["backup"] = op["backup"] /\ op'["manager"].pc = "rollback" /\ op'["manager"].name = "reload"
          /\ job'["manager"] = SaveNodes(ran)
      BY <2>1, <2>4, <3>1 DEF Formed, Typed, Threads, Ops
    <3> QED BY <2>1, <2>2, <2>3, <3>1, <3>2, <3>3 DEF NodesInv
  <2>5. CASE t = "backup"
    <3>1. op["backup"].name = "restore" /\ stage = "serving"
      BY <2>1, <2>5, MarksAssumption, IdleIs DEF Formed, Shape, LockShape, BackupShape, StageShape, Free
    <3>2. op'["backup"].pc = "rollback" /\ op'["backup"].name = "restore"
      BY <2>1, <2>5, <3>1 DEF Formed, Typed, Threads, Ops
    <3> QED BY <2>1, <3>1, <3>2 DEF NodesInv
  <2>6. t # "web"
    BY <2>1, MarksAssumption DEF Formed, Typed, ManagerTyped
  <2> QED BY <2>4, <2>5, <2>6 DEF Threads
<1>41. ASSUME NEW t \in Threads, RolledBack(t) PROVE NodesInv'
  <2>1. /\ mem' = ran /\ reloadMu = t /\ op[t].pc = "rollback" /\ UNCHANGED <<stage, archive, outcome>>
        /\ job[t].at \in {"done", "failed"}
        /\ op' = IF op[t].name = "restore" THEN [op EXCEPT ![t].pc = "putfile"] ELSE [op EXCEPT ![t] = NoOp]
    BY <1>41 DEF RolledBack, ApplyError, Goto, Return, Saved, Unsaved, bk, hist
  <2> SUFFICES ASSUME Lucky', outcome' # "undone" PROVE NodesInv'
    BY DEF NodesInv
  <2>2. Lucky /\ outcome # "undone"
    BY <1>2, <2>1
  <2>3. CASE t = "manager"
    <3>1. op["manager"].name = "reload" /\ op["manager"].pc = "rollback" /\ stage = "serving"
      BY <2>1, <2>3, MarksAssumption, IdleIs DEF Formed, Shape, LockShape, ManagerShape, StageShape, Free
    <3>2. op["backup"].name # "restore"
      BY <2>2, <3>1, IdleIs DEF WhoInv, Lucky, Free
    <3>3. op'["backup"] = op["backup"] /\ op'["manager"] = NoOp
      BY <2>1, <2>3, <3>1 DEF Formed, Typed, Threads, Ops
    <3>4. KeepsNodes(yaml', job', InlineRoutes(mem'.nodes))
      BY <1>1, <2>1, <2>2, <2>3, <3>1, <3>2 DEF NodesInv
    <3> QED BY <2>1, <3>1, <3>2, <3>3, <3>4 DEF NodesInv, NoOp
  <2>4. CASE t = "backup"
    <3>1. op["backup"].name = "restore" /\ stage = "serving"
      BY <2>1, <2>4, MarksAssumption, IdleIs DEF Formed, Shape, LockShape, BackupShape, StageShape, Free
    <3>2. op'["backup"].pc = "putfile" /\ op'["backup"].name = "restore"
      BY <2>1, <2>4, <3>1 DEF Formed, Typed, Threads, Ops
    <3> QED BY <2>1, <3>1, <3>2 DEF NodesInv
  <2>5. t # "web"
    BY <2>1, MarksAssumption DEF Formed, Typed, ManagerTyped
  <2> QED BY <2>3, <2>4, <2>5 DEF Threads
<1>42. ASSUME NEW t \in Threads, StartFails(t) PROVE NodesInv'
  <2>1. /\ mem' \in {mem, target} /\ reloadMu = t /\ op[t].pc # "rollback" /\ UNCHANGED <<stage, archive, outcome>>
        /\ target # None
        /\ op' = IF op[t].name = "restore" THEN [op EXCEPT ![t].pc = "putfile"] ELSE [op EXCEPT ![t] = NoOp]
    BY <1>42 DEF StartFails, Applying, ApplyError, Goto, Return, bk, hist
  <2> SUFFICES ASSUME Lucky', outcome' # "undone" PROVE NodesInv'
    BY DEF NodesInv
  <2>2. Lucky /\ outcome # "undone"
    BY <1>2, <2>1
  <2>3. CASE t = "manager"
    <3>1. op["manager"].name = "reload" /\ op["manager"].pc = "save" /\ stage = "serving"
      BY <2>1, <2>3, MarksAssumption, IdleIs DEF Formed, Shape, LockShape, ManagerShape, StageShape, Free
    <3>2. op["backup"].name # "restore"
      BY <2>2, <3>1, IdleIs DEF WhoInv, Lucky, Free
    <3>3. op'["backup"] = op["backup"] /\ op'["manager"] = NoOp
      BY <2>1, <2>3, <3>1 DEF Formed, Typed, Threads, Ops
    <3>4. KeepsNodes(yaml', job', InlineRoutes(mem'.nodes))
      BY <1>1, <2>1, <2>2, <2>3, <3>1, <3>2 DEF NodesInv
    <3> QED BY <2>1, <3>1, <3>2, <3>3, <3>4 DEF NodesInv, NoOp
  <2>4. CASE t = "backup"
    <3>1. op["backup"].name = "restore" /\ stage = "serving"
      BY <2>1, <2>4, MarksAssumption, IdleIs DEF Formed, Shape, LockShape, BackupShape, StageShape, Free
    <3>2. op'["backup"].pc = "putfile" /\ op'["backup"].name = "restore"
      BY <2>1, <2>4, <3>1 DEF Formed, Typed, Threads, Ops
    <3> QED BY <2>1, <3>1, <3>2 DEF NodesInv
  <2>5. t # "web"
    BY <2>1, MarksAssumption DEF Formed, Typed, ManagerTyped
  <2> QED BY <2>3, <2>4, <2>5 DEF Threads
<1>43. CASE ProgramNext
  BY <1>43, <1>4, <1>5, <1>6, <1>7, <1>8, <1>9, <1>10 DEF ProgramNext
<1>44. CASE ManagerNext
  BY <1>44, <1>11, <1>12, <1>13, <1>14, <1>15, <1>16, <1>17, <1>18 DEF ManagerNext
<1>45. CASE WebNext
  BY <1>45, SettingsEdits, <1>19, <1>20 DEF WebNext
<1>46. CASE BackupNext
  BY <1>46, <1>21, <1>22, <1>23, <1>24, <1>25, <1>26, <1>27, <1>28, <1>29, <1>30, <1>31, <1>32, <1>33, <1>34,
     <1>35, <1>36, <1>37 DEF BackupNext
<1>47. ASSUME NEW t \in Threads, ApplyNext(t) PROVE NodesInv'
  BY <1>47, <1>38, <1>39, <1>40, <1>41, <1>42 DEF ApplyNext
<1>48. ASSUME NEW t \in Threads, Save(t) PROVE NodesInv'
  BY <1>48
<1> QED BY <1>43, <1>44, <1>45, <1>46, <1>47, <1>48 DEF Next

LEMMA NodesSave ==
    ASSUME Formed, FilesInv, WhoInv, ShortInv, SmoothInv, NodesInv, NEW t \in Threads, Save(t)
    PROVE  NodesInv'
<1> SUFFICES ASSUME Lucky', outcome' # "undone" PROVE NodesInv'
  BY DEF NodesInv
<1>1. /\ UNCHANGED <<stage, mem, ran, archive, target, undo, outcome, op>> /\ Active(job[t])
      /\ job' = [job EXCEPT ![t] = job'[t]] /\ job'[t].part = job[t].part /\ job'[t].content = job[t].content
      /\ job \in [Threads -> Jobs] /\ job'[t] \in Jobs /\ job'[t].at # "none"
  BY SaveDoes DEF conf, mgr, bk, Formed, Typed
<1>2. Lucky /\ faults' \in {faults, faults + 1} /\ outcome # "undone" /\ ~disturbed' /\ ~cut' /\ faults \in Nat
  <2>1. (disturbed => disturbed') /\ (cut => cut')
    BY SaveMarks
  <2>2. faults' \in {faults, faults + 1} /\ faults \in Nat
    BY DEF Save, Prepare, PrepareFails, Rename, Truncate, Fill, FillFails, Faulty, bounds, Formed, Typed, HistoryTyped
  <2> QED BY <1>1, <2>1, <2>2 DEF Lucky
<1>3. \A u \in Threads : u # t => job'[u] = job[u]
  BY <1>1
<1>4. job'[t].at = "failed" => faults' = faults + 1
  BY <1>2, SavesFail
<1>5. Active(job'[t]) \/ job'[t].at \in {"done", "failed"}
  BY <1>1 DEF Active, Jobs
<1>6. Restored' = Restored
  BY <1>1 DEF Restored, Mapped
<1>7. CASE t = "manager"
  <2>1. job["manager"].part = "nodes"
    BY <1>1, <1>7, IdleIs DEF Formed, Shape, StageShape, ManagerShape, Free, Active
  <2>2. \A R : /\ job'["manager"].at # "done" /\ KeepsNodes(yaml, job, R) => KeepsNodes(yaml', job', R)
               /\ InlineRoutes(job["manager"].content) = R /\ KeepsNodes(yaml, job, R) => KeepsNodes(yaml', job', R)
               /\ InlineRoutes(job["manager"].content) = R /\ job'["manager"].at = "done" => KeepsNodes(yaml', job', R)
    BY <1>2, <1>7, <2>1, NodesKept
  <2>3. job'["backup"] = job["backup"]
    BY <1>3, <1>7 DEF Threads
  <2>4. /\ stage = "packing" => op["backup"].name # "restore"
        /\ stage \in {"loaded", "syncing"} => job["manager"].at = "none"
    BY IdleIs DEF Formed, Shape, StageShape, Free
  <2>5. op["backup"].name = "restore" => op["manager"].name = "none" /\ job["manager"].at = "none"
    BY <1>2, IdleIs, FreeIsIdle DEF WhoInv, Lucky, Free, NoOp, Formed, Shape, StageShape, ManagerShape
  <2>6. op["backup"].name # "restore"
    BY <1>1, <1>7, <2>5 DEF Active
  <2>7. op["manager"].pc = "rollback" => job'["manager"].at # "failed"
    <3>1. ASSUME op["manager"].pc = "rollback" PROVE faults = 1
      <4>1. stage = "serving"
        BY <3>1, IdleIs DEF Formed, Shape, StageShape, Free
      <4> QED BY <1>2, <2>6, <3>1, <4>1 DEF NodesInv
    <3> QED BY <1>2, <1>4, <1>7, <3>1 DEF Lucky
  <2>8. stage = "packing" /\ job'["manager"].at = "done" => KeepsNodes(yaml', job', InlineRoutes(mem.nodes))
    BY <1>1, <1>2, <1>7, <2>2 DEF NodesInv
  <2>9. ASSUME stage = "serving", op["manager"].name \in {"create", "delete"}, op["manager"].pc = "save"
        PROVE  /\ job'["manager"].at = "done" => KeepsNodes(yaml', job', InlineRoutes(mem.nodes))
               /\ job'["manager"].at # "done" => KeepsNodes(yaml', job', InlineRoutes(undo))
    <3>1. job["manager"].content = mem.nodes /\ KeepsNodes(yaml, job, InlineRoutes(undo))
      BY <1>1, <1>2, <1>7, <2>6, <2>9 DEF NodesInv, Active
    <3> QED BY <2>2, <3>1
  <2>10. ASSUME stage = "serving", op["manager"].name = "reload", op["manager"].pc = "save"
         PROVE  KeepsNodes(yaml', job', InlineRoutes(mem.nodes))
    <3>1. InlineRoutes(job["manager"].content) = InlineRoutes(mem.nodes) /\ KeepsNodes(yaml, job, InlineRoutes(mem.nodes))
      BY <1>1, <1>2, <1>7, <2>6, <2>10 DEF NodesInv, Active
    <3> QED BY <2>2, <3>1
  <2>11. ASSUME stage = "serving", op["manager"].pc = "rollback"
         PROVE  job'["manager"].at = "done" => KeepsNodes(yaml', job', InlineRoutes(ran.nodes))
    <3>1. job["manager"].content = ran.nodes
      BY <1>1, <1>2, <1>7, <2>6, <2>11 DEF NodesInv, Active
    <3> QED BY <2>2, <3>1
  <2>12. ~(op["manager"].name = "none" \/ op["manager"].pc = "pool") \/ stage # "serving"
    BY <1>1, <1>7, IdleIs DEF Formed, Shape, ManagerShape, Active
  <2>13. stage \notin {"loaded", "syncing"}
    BY <1>1, <1>7, <2>4 DEF Active
  <2>14. op["manager"].pc = "rollback" /\ stage = "serving" => faults' = 1
    BY <1>2, <2>6 DEF NodesInv, Lucky
  <2>15. Active(job'["manager"]) => Active(job["manager"])
    BY <1>1, <1>7
  <2> QED BY <1>1, <1>2, <1>7, <2>6, <2>7, <2>8, <2>9, <2>10, <2>11, <2>12, <2>13, <2>14, <2>15 DEF NodesInv
<1>8. CASE job[t].part = "settings"
  <2>1. \A R : KeepsNodes(yaml, job, R) => KeepsNodes(yaml', job', R)
    BY <1>2, <1>8, NodesKept
  <2>2. /\ stage = "packing" => t # "manager"
        /\ op["manager"].pc \in {"save", "rollback"} => t # "manager"
        /\ op["backup"].name = "restore" => t # "backup"
    BY <1>1, <1>2, <1>8, IdleIs DEF Formed, Shape, StageShape, ManagerShape, BackupShape, Active, SmoothInv
  <2>3. /\ t # "manager" => job'["manager"] = job["manager"]
        /\ t # "backup" => job'["backup"] = job["backup"]
    BY <1>3 DEF Threads
  <2>4. faults = 1 => faults' = 1
    BY <1>2 DEF Lucky
  <2> QED BY <1>1, <1>2, <1>6, <2>1, <2>2, <2>3, <2>4 DEF NodesInv
<1>9. CASE t = "backup" /\ job[t].part # "settings"
  <2>1. op["backup"].name = "restore" /\ stage = "serving"
    BY <1>1, <1>9, FreeIsIdle, IdleIs DEF Formed, Shape, StageShape, BackupShape, Active, Free
  <2>2. op["backup"].pc \in {"save", "apply", "reapply", "rollback", "putting"}
    BY <1>1, <1>9, <2>1, IdleIs DEF Formed, Shape, BackupShape, Active
  <2>3. CASE op["backup"].pc = "save"
    <3>1. job["backup"].part = "whole" /\ Routed(job["backup"].content.nodes) = InlineRoutes(Restored.nodes)
      BY <1>1, <1>2, <1>9, <2>1, <2>3 DEF Formed, Shape, BackupShape, NodesInv
    <3>2. job'["backup"].at = "done" => KeepsNodes(yaml', job', InlineRoutes(Restored.nodes))
      <4>1. PICK R : R = InlineRoutes(Restored.nodes)
        OBVIOUS
      <4> QED BY <1>2, <1>9, <3>1, <4>1, NodesKept
    <3>3. job'["backup"].at # "done" => \A R : KeepsNodes(yaml, job, R) => KeepsNodes(yaml', job', R)
      BY <1>2, <1>9, <3>1, NodesKept
    <3>4. KeepsNodes(yaml, job, InlineRoutes(mem.nodes)) \/ faults = 1
      BY <1>1, <1>2, <1>9, <2>1, <2>3 DEF NodesInv
    <3>5. job'["backup"].at = "failed" => KeepsNodes(yaml', job', InlineRoutes(mem.nodes))
      BY <1>2, <1>4, <1>9, <3>3, <3>4 DEF Lucky
    <3>6. Active(job'["backup"]) => KeepsNodes(yaml', job', InlineRoutes(mem.nodes)) \/ faults' = 1
      BY <1>2, <1>9, <3>3, <3>4 DEF Active, Lucky
    <3> QED BY <1>1, <1>6, <1>9, <2>1, <2>3, <3>1, <3>2, <3>5, <3>6 DEF NodesInv
  <2>4. CASE op["backup"].pc = "apply"
    <3>1. /\ job["backup"].part = "nodes" /\ KeepsNodes(yaml, job, InlineRoutes(target.nodes))
          /\ InlineRoutes(job["backup"].content) = InlineRoutes(target.nodes)
      BY <1>1, <1>2, <1>9, <2>1, <2>4 DEF Formed, Shape, BackupShape, JobOK, JobOf, NodesInv
    <3>2. KeepsNodes(yaml', job', InlineRoutes(target.nodes))
      <4>1. PICK R : R = InlineRoutes(target.nodes)
        OBVIOUS
      <4> QED BY <1>2, <1>9, <3>1, <4>1, NodesKept
    <3> QED BY <1>1, <1>9, <2>1, <2>4, <3>1, <3>2 DEF NodesInv
  <2>5. CASE op["backup"].pc \in {"reapply", "rollback", "putting"}
    BY <1>1, <2>1, <2>5 DEF NodesInv
  <2> QED BY <2>2, <2>3, <2>4, <2>5
<1>10. t = "web" => job[t].part = "settings"
  BY <1>1, FreeIsIdle, IdleIs DEF Formed, Shape, WebShape, Active, Free
<1> QED BY <1>7, <1>8, <1>9, <1>10 DEF Threads

LEMMA NodesLoad == ASSUME Formed, FilesInv, Load PROVE NodesInv'
<1>1. PICK content \in Contents : (yaml # Short => content = yaml) /\ InlineRoutes(mem'.nodes) = Routed(content.nodes)
  BY LoadDoes
<1>2. /\ yaml' = yaml /\ stage = "off" /\ stage' = "loaded" /\ (disturbed' <=> yaml = Short)
      /\ UNCHANGED <<op, job>>
  BY DEF Load, disk
<1>3. (\A t \in Threads : job[t] = Idle) /\ op["backup"].name # "restore"
  BY <1>2, IdleIs DEF Formed, Shape, StageShape, Threads, Free
<1>4. ~disturbed' => KeepsNodes(yaml', job', InlineRoutes(mem'.nodes))
  <2>1. \A t \in Threads : ~AtYaml(job'[t])
    BY <1>2, <1>3, IdleIs DEF AtYaml
  <2> QED BY <1>1, <1>2, <2>1 DEF KeepsNodes
<1> QED BY <1>2, <1>3, <1>4 DEF NodesInv, Lucky

LEMMA NodesNext ==
    ASSUME Formed, FilesInv, WhoInv, ShortInv, SmoothInv, NodesInv, [Next]_vars
    PROVE  NodesInv'
<1>1. CASE UNCHANGED vars
  BY <1>1 DEF NodesInv, Lucky, Restored, Mapped, vars, disk, conf, bk, mgr, hist, bounds
<1>2. CASE Load
  BY <1>2, NodesLoad
<1>3. CASE \E t \in Threads : Save(t)
  BY <1>3, NodesSave
<1>4. CASE Next /\ ~Load /\ \A t \in Threads : ~Save(t)
  BY <1>4, NodesQuiet
<1> QED BY <1>1, <1>2, <1>3, <1>4

\* When no operation is under way config.yaml has the inline nodes of memory,
\* also after one fault: what a failed save, a rollback or a restore leaves in
\* memory is on disk, or the disk is as it was (reloadLocked, rollbackToOldConfig,
\* CreateNodes and DeleteNodes, Restore).
THEOREM NodesStayOnDisk == Spec => []NodesOnDisk
<1>1. Init => NodesInv
  BY IdleIs DEF Init, NodesInv, Threads
<1>2. Formed /\ FilesInv /\ WhoInv /\ ShortInv /\ SmoothInv /\ NodesInv /\ [Next]_vars => NodesInv'
  BY NodesNext
<1>3. Formed /\ FilesInv /\ ShortInv /\ NodesInv => NodesOnDisk
  <2> SUFFICES ASSUME Formed, FilesInv, ShortInv, NodesInv, Quiet, Undisturbed, outcome # "undone", faults <= 1
               PROVE  Routed(yaml.nodes) = Routed(Inline(mem.nodes))
    BY DEF NodesOnDisk
  <2>1. /\ stage = "serving" /\ \A t \in Threads : Free(t)
        /\ Lucky
    BY DEF Quiet, Undisturbed, Lucky
  <2>2. \A t \in Threads : job[t] = Idle
    BY <2>1, FreeIsIdle DEF Threads
  <2>3. yaml \in Contents
    BY <2>2, IdleIs DEF Undisturbed, FilesInv, ShortInv, Filling, Formed, Typed, DiskTyped
  <2>4. op["backup"].name # "restore" /\ op["manager"].name = "none"
    BY <2>1 DEF Free, NoOp, Threads
  <2>5. KeepsNodes(yaml, job, InlineRoutes(mem.nodes))
    BY <2>1, <2>4 DEF NodesInv
  <2>6. Routed(Inline(mem.nodes)) = InlineRoutes(mem.nodes)
    BY <2>1, ConfigIs, InlineIs DEF Formed, Typed, MemTyped
  <2> QED BY <2>3, <2>5, <2>6 DEF KeepsNodes
<1> QED BY <1>1, <1>2, <1>3, AlwaysSmooth, PTL DEF Spec

\* What was saved stays saved, whatever is saved, reloaded or restored after it
\* (SaveNodes, SaveSettings and Save, which read the file that they replace).
THEOREM SavesKept == Spec => []SavesAreKept
<1>1. NodesOnDisk /\ SettingsOnDisk => SavesAreKept
  BY DEF SavesAreKept
<1> QED BY <1>1, NodesStayOnDisk, SettingsStayOnDisk, PTL

-----------------------------------------------------------------------------
(* RestoreUndone.                                                          *)

\* Undisturbed, a restore changes the manager's nodes to those that it starts or
\* returns to; and what it puts back is on disk when that save is done.
RestoreInv == ~disturbed /\ op["backup"].name = "restore" =>
    /\ ran # None => Routed(mem.nodes) \in {Routed(rs.cfg.nodes), Routed(ran.nodes)}
    /\ ~cut /\ op["backup"].pc = "putting" =>
          /\ job["backup"].at = "failed" => faults >= 2
          /\ job["backup"].at = "done" => yaml = rs.file
          /\ Active(job["backup"]) => job["backup"].content = rs.file

LEMMA RestoreQuiet ==
    ASSUME Formed, FilesInv, WhoInv, SmoothInv, RestoreInv,
           Next, ~Load, \A t \in Threads : ~Save(t)
    PROVE  RestoreInv'
<1>1. QuietStep /\ (~disturbed' => ~disturbed) /\ (~cut' => ~cut) /\ yaml' = yaml
  BY QuietSteps DEF QuietStep, Formed, Typed, HistoryTyped
<1>2. CASE Stop
  BY <1>2, <1>1, IdleIs, MarksAssumption DEF Stop, Gone, disk, bounds, Threads, RestoreInv, SmoothInv, Clean,
     WhoInv, Others, Restoring, Formed, Typed, MemTyped, HistoryTyped, ManagerTyped, BackupTyped, Shape,
     StageShape, ManagerShape, WebShape, BackupShape, LockShape, Free, NoOp, Ops, Active, Jobs
<1>3. CASE Filter
  <2>1. stage = "loaded" /\ UNCHANGED op
    BY <1>3 DEF Filter, mgr
  <2> QED BY <2>1, IdleIs DEF RestoreInv, Formed, Shape, StageShape, Free
<1>4. CASE NoPool
  BY <1>4, <1>1, IdleIs, MarksAssumption DEF NoPool, Serve, disk, world, bk, mgr, hist, bounds, RestoreInv,
     SmoothInv, Clean, WhoInv, Others, Restoring, Formed, Typed, MemTyped, HistoryTyped, ManagerTyped,
     BackupTyped, Shape, StageShape, ManagerShape, WebShape, BackupShape, LockShape, Free, NoOp, Threads, Ops,
     Active, Jobs
<1>5. CASE PackingSaved
  BY <1>5, <1>1, IdleIs, MarksAssumption DEF PackingSaved, Saved, Done, disk, world, conf, bk, mgr, hist,
     bounds, RestoreInv, SmoothInv, Clean, WhoInv, Others, Restoring, Formed, Typed, MemTyped, HistoryTyped,
     ManagerTyped, BackupTyped, Shape, StageShape, ManagerShape, WebShape, BackupShape, LockShape, Free, NoOp,
     Threads, Ops, Active, Jobs
<1>6. CASE PackingFails
  BY <1>6, <1>1, IdleIs, MarksAssumption DEF PackingFails, Unsaved, Gone, disk, world, bounds, Threads,
     RestoreInv, SmoothInv, Clean, WhoInv, Others, Restoring, Formed, Typed, MemTyped, HistoryTyped,
     ManagerTyped, BackupTyped, Shape, StageShape, ManagerShape, WebShape, BackupShape, LockShape, Free, NoOp,
     Ops, Active, Jobs
<1>7. CASE SyncPorts
  BY <1>7, <1>1, IdleIs, MarksAssumption DEF SyncPorts, Serve, world, bk, mgr, hist, bounds, RestoreInv,
     SmoothInv, Clean, WhoInv, Others, Restoring, Formed, Typed, MemTyped, HistoryTyped, ManagerTyped,
     BackupTyped, Shape, StageShape, ManagerShape, WebShape, BackupShape, LockShape, Free, NoOp, Threads, Ops,
     Active, Jobs
<1>8. CASE SyncFails
  BY <1>8, <1>1, IdleIs, MarksAssumption DEF SyncFails, Faulty, Gone, disk, world, Threads, RestoreInv,
     SmoothInv, Clean, WhoInv, Others, Restoring, Formed, Typed, MemTyped, HistoryTyped, ManagerTyped,
     BackupTyped, Shape, StageShape, ManagerShape, WebShape, BackupShape, LockShape, Free, NoOp, Ops, Active,
     Jobs
<1>9. ASSUME NEW r \in Routes, CreateNode(r) PROVE RestoreInv'
  <2>1. Edit("create", r, mem'.nodes)
    BY <1>9, CreateDoes
  <2>2. (~disturbed' => ~Restoring("backup")) /\ op'["backup"] = op["backup"]
    BY <2>1 DEF Edit, Begin, Crosses, Others, Formed, Typed, Threads
  <2> QED BY <2>2 DEF RestoreInv, Restoring
<1>10. ASSUME NEW r \in Routes, DeleteNode(r) PROVE RestoreInv'
  <2>1. Edit("delete", r, mem'.nodes)
    BY <1>10, DeleteDoes
  <2>2. (~disturbed' => ~Restoring("backup")) /\ op'["backup"] = op["backup"]
    BY <2>1 DEF Edit, Begin, Crosses, Others, Formed, Typed, Threads
  <2> QED BY <2>2 DEF RestoreInv, Restoring
<1>11. CASE EditSaved
  BY <1>11, <1>1, IdleIs, MarksAssumption DEF EditSaved, Editing, Saved, Goto, Done, Unlock, disk, world, conf,
     bk, hist, bounds, RestoreInv, SmoothInv, Clean, WhoInv, Others, Restoring, Formed, Typed, MemTyped,
     HistoryTyped, ManagerTyped, BackupTyped, Shape, StageShape, ManagerShape, WebShape, BackupShape, LockShape,
     Free, NoOp, Threads, Ops, Active, Jobs
<1>12. CASE EditFails
  BY <1>12, <1>1, IdleIs, MarksAssumption DEF EditFails, Editing, Unsaved, Undone, Return, Done, Unlock, disk,
     world, bk, hist, bounds, RestoreInv, SmoothInv, Clean, WhoInv, Others, Restoring, Formed, Typed, MemTyped,
     HistoryTyped, ManagerTyped, BackupTyped, Shape, StageShape, ManagerShape, WebShape, BackupShape, LockShape,
     Free, NoOp, Threads, Ops, Active, Jobs
<1>13. CASE EditPool
  BY <1>13, <1>1, IdleIs, MarksAssumption DEF EditPool, Return, Restoring, world, conf, bk, mgr, bounds,
     RestoreInv, SmoothInv, Clean, WhoInv, Others, Formed, Typed, MemTyped, HistoryTyped, ManagerTyped,
     BackupTyped, Shape, StageShape, ManagerShape, WebShape, BackupShape, LockShape, Free, NoOp, Threads, Ops,
     Active, Jobs
<1>14. CASE Reload
  BY ZenonT(40), <1>14, <1>1, IdleIs, MarksAssumption DEF Reload, Begin, Lock, disk, world, conf, bk, Free, Crosses, Others,
     Restoring, Threads, RestoreInv, SmoothInv, Clean, WhoInv, Formed, Typed, MemTyped, HistoryTyped,
     ManagerTyped, BackupTyped, Shape, StageShape, ManagerShape, WebShape, BackupShape, LockShape, NoOp, Ops,
     Active, Jobs
<1>15. CASE ReloadPool
  BY <1>15, <1>1, IdleIs, MarksAssumption DEF ReloadPool, Step, Return, Restoring, world, conf, bk, mgr, bounds,
     RestoreInv, SmoothInv, Clean, WhoInv, Others, Formed, Typed, MemTyped, HistoryTyped, ManagerTyped,
     BackupTyped, Shape, StageShape, ManagerShape, WebShape, BackupShape, LockShape, Free, NoOp, Threads, Ops,
     Active, Jobs
<1>16. CASE EnterEmpty
  BY <1>16, <1>1, IdleIs, MarksAssumption DEF EnterEmpty, Free, disk, world, bk, mgr, hist, RestoreInv,
     SmoothInv, Clean, WhoInv, Others, Restoring, Formed, Typed, MemTyped, HistoryTyped, ManagerTyped,
     BackupTyped, Shape, StageShape, ManagerShape, WebShape, BackupShape, LockShape, NoOp, Threads, Ops, Active,
     Jobs
<1>17. ASSUME NEW settings \in Settings, EditSettings(settings) PROVE RestoreInv'
  <2>1. (~disturbed' => ~Restoring("backup")) /\ op'["backup"] = op["backup"]
    BY <1>17 DEF EditSettings, Begin, Crosses, Others, Formed, Typed, Threads
  <2> QED BY <2>1 DEF RestoreInv, Restoring
<1>18. CASE SettingsEnd
  BY <1>18, <1>1, IdleIs, MarksAssumption DEF SettingsEnd, Step, Saved, Unsaved, Return, Done, disk, world,
     conf, bk, mgr, hist, bounds, RestoreInv, SmoothInv, Clean, WhoInv, Others, Restoring, Formed, Typed,
     MemTyped, HistoryTyped, ManagerTyped, BackupTyped, Shape, StageShape, ManagerShape, WebShape, BackupShape,
     LockShape, Free, NoOp, Threads, Ops, Active, Jobs
<1>19. CASE SetWebDAV
  BY <1>19, <1>1, IdleIs, MarksAssumption DEF SetWebDAV, Begin, Start, disk, world, conf, bk, mgr, Free,
     Crosses, Others, Restoring, Threads, RestoreInv, SmoothInv, Clean, WhoInv, Formed, Typed, MemTyped,
     HistoryTyped, ManagerTyped, BackupTyped, Shape, StageShape, ManagerShape, WebShape, BackupShape, LockShape,
     NoOp, Ops, Active, Jobs
<1>20. CASE WebDAVSaved
  BY <1>20, <1>1, IdleIs, MarksAssumption DEF WebDAVSaved, Step, Saved, Return, Done, disk, world, conf, mgr,
     hist, bounds, RestoreInv, SmoothInv, Clean, WhoInv, Others, Restoring, Formed, Typed, MemTyped,
     HistoryTyped, ManagerTyped, BackupTyped, Shape, StageShape, ManagerShape, WebShape, BackupShape, LockShape,
     Free, NoOp, Threads, Ops, Active, Jobs
<1>21. CASE WebDAVFails
  BY <1>21, <1>1, IdleIs, MarksAssumption DEF WebDAVFails, Step, Unsaved, Return, Done, disk, world, conf, bk,
     mgr, hist, bounds, RestoreInv, SmoothInv, Clean, WhoInv, Others, Restoring, Formed, Typed, MemTyped,
     HistoryTyped, ManagerTyped, BackupTyped, Shape, StageShape, ManagerShape, WebShape, BackupShape, LockShape,
     Free, NoOp, Threads, Ops, Active, Jobs
<1>22. CASE CreateBackup
  BY <1>22, <1>1, IdleIs, MarksAssumption DEF CreateBackup, Begin, disk, world, conf, bk, mgr, Free, Crosses,
     Others, Restoring, Threads, RestoreInv, SmoothInv, Clean, WhoInv, Formed, Typed, MemTyped, HistoryTyped,
     ManagerTyped, BackupTyped, Shape, StageShape, ManagerShape, WebShape, BackupShape, LockShape, NoOp, Ops,
     Active, Jobs
<1>23. CASE SnapshotStore
  BY <1>23, <1>1, IdleIs, MarksAssumption DEF SnapshotStore, Step, Return, disk, world, conf, mgr, hist, bounds,
     RestoreInv, SmoothInv, Clean, WhoInv, Others, Restoring, Formed, Typed, MemTyped, HistoryTyped,
     ManagerTyped, BackupTyped, Shape, StageShape, ManagerShape, WebShape, BackupShape, LockShape, Free, NoOp,
     Threads, Ops, Active, Jobs
<1>24. CASE Restore
  <2>1. /\ UNCHANGED mem /\ rs' = Remembered /\ stage = "serving"
        /\ op' = [op EXCEPT !["backup"] = [name |-> "restore", pc |-> "save", arg |-> None]]
    BY <1>24 DEF Restore, Begin, conf
  <2>2. rs'.cfg.nodes = mem.nodes
    BY <2>1, CurrentIs DEF Remembered, Formed, Typed, MemTyped, BackupTyped
  <2>3. op'["backup"].pc = "save"
    BY <2>1 DEF Formed, Typed, Threads
  <2> QED BY <2>1, <2>2, <2>3 DEF RestoreInv
<1>25. CASE RestoreSaved
  BY <1>25, <1>1, IdleIs, MarksAssumption DEF RestoreSaved, RestoreAt, Saved, Goto, Done, disk, world, conf, bk,
     mgr, hist, bounds, Step, RestoreInv, SmoothInv, Clean, WhoInv, Others, Restoring, Formed, Typed, MemTyped,
     HistoryTyped, ManagerTyped, BackupTyped, Shape, StageShape, ManagerShape, WebShape, BackupShape, LockShape,
     Free, NoOp, Threads, Ops, Active, Jobs
<1>26. CASE RestoreUnsaved
  BY <1>26, <1>1, IdleIs, MarksAssumption DEF RestoreUnsaved, RestoreAt, Unsaved, RestoreEnds, Done, disk,
     world, conf, mgr, bounds, Step, Return, RestoreInv, SmoothInv, Clean, WhoInv, Others, Restoring, Formed,
     Typed, MemTyped, HistoryTyped, ManagerTyped, BackupTyped, Shape, StageShape, ManagerShape, WebShape,
     BackupShape, LockShape, Free, NoOp, Threads, Ops, Active, Jobs
<1>27. CASE ReplaceStore
  BY <1>27, <1>1, IdleIs, MarksAssumption DEF ReplaceStore, RestoreAt, Goto, world, conf, bk, mgr, hist, bounds,
     Step, RestoreInv, SmoothInv, Clean, WhoInv, Others, Restoring, Formed, Typed, MemTyped, HistoryTyped,
     ManagerTyped, BackupTyped, Shape, StageShape, ManagerShape, WebShape, BackupShape, LockShape, Free, NoOp,
     Threads, Ops, Active, Jobs
<1>28. CASE ReplaceStoreFails
  BY <1>28, <1>1, IdleIs, MarksAssumption DEF ReplaceStoreFails, RestoreAt, Faulty, Goto, disk, world, conf, bk,
     mgr, hist, Step, RestoreInv, SmoothInv, Clean, WhoInv, Others, Restoring, Formed, Typed, MemTyped,
     HistoryTyped, ManagerTyped, BackupTyped, Shape, StageShape, ManagerShape, WebShape, BackupShape, LockShape,
     Free, NoOp, Threads, Ops, Active, Jobs
<1>29. CASE ApplyRestored
  BY <1>29, <1>1, IdleIs, MarksAssumption DEF ApplyRestored, RestoreAt, ApplyBackup, Step, Goto, mgr, Lock,
     StartsAsIs, Becomes, disk, world, bk, hist, bounds, Start, RestoreInv, SmoothInv, Clean, WhoInv, Others,
     Restoring, Formed, Typed, MemTyped, HistoryTyped, ManagerTyped, BackupTyped, Shape, StageShape,
     ManagerShape, WebShape, BackupShape, LockShape, Free, NoOp, Threads, Ops, Active, Jobs
<1>30. CASE Reapply
  BY <1>30, <1>1, IdleIs, MarksAssumption DEF Reapply, RestoreAt, ApplyBackup, Step, Goto, mgr, Lock,
     StartsAsIs, Becomes, disk, world, bk, hist, bounds, Start, RestoreInv, SmoothInv, Clean, WhoInv, Others,
     Restoring, Formed, Typed, MemTyped, HistoryTyped, ManagerTyped, BackupTyped, Shape, StageShape,
     ManagerShape, WebShape, BackupShape, LockShape, Free, NoOp, Threads, Ops, Active, Jobs
<1>31. CASE ListNodes
  BY <1>31, <1>1, IdleIs, MarksAssumption DEF ListNodes, RestoreAt, Goto, world, conf, bk, mgr, hist, bounds,
     Step, RestoreInv, SmoothInv, Clean, WhoInv, Others, Restoring, Formed, Typed, MemTyped, HistoryTyped,
     ManagerTyped, BackupTyped, Shape, StageShape, ManagerShape, WebShape, BackupShape, LockShape, Free, NoOp,
     Threads, Ops, Active, Jobs
<1>32. CASE SetChainProfiles
  BY <1>32, <1>1, IdleIs, MarksAssumption DEF SetChainProfiles, RestoreAt, RestoreEnds, disk, world, conf, mgr,
     bounds, Step, Return, RestoreInv, SmoothInv, Clean, WhoInv, Others, Restoring, Formed, Typed, MemTyped,
     HistoryTyped, ManagerTyped, BackupTyped, Shape, StageShape, ManagerShape, WebShape, BackupShape, LockShape,
     Free, NoOp, Threads, Ops, Active, Jobs
<1>33. CASE RestoreFailsLate
  BY <1>33, <1>1, IdleIs, MarksAssumption DEF RestoreFailsLate, RestoreAt, Faulty, Goto, disk, world, conf, bk,
     mgr, hist, Step, RestoreInv, SmoothInv, Clean, WhoInv, Others, Restoring, Formed, Typed, MemTyped,
     HistoryTyped, ManagerTyped, BackupTyped, Shape, StageShape, ManagerShape, WebShape, BackupShape, LockShape,
     Free, NoOp, Threads, Ops, Active, Jobs
<1>34. CASE PutFileBack
  BY <1>34, <1>1, IdleIs, MarksAssumption, StartsAre DEF PutFileBack, RestoreAt, Start, Goto, disk, world, conf,
     bk, mgr, bounds, Step, RestoreInv, SmoothInv, Clean, WhoInv, Others, Restoring, Formed, Typed, MemTyped,
     HistoryTyped, ManagerTyped, BackupTyped, Shape, StageShape, ManagerShape, WebShape, BackupShape, LockShape,
     Free, NoOp, Threads, Ops, Active, Jobs
<1>35. CASE PutStoreBack
  BY <1>35, <1>1, IdleIs, MarksAssumption DEF PutStoreBack, RestoreAt, Saved, Unsaved, Done, Faulty,
     RestoreEnds, world, conf, mgr, Step, Return, RestoreInv, SmoothInv, Clean, WhoInv, Others, Restoring,
     Formed, Typed, MemTyped, HistoryTyped, ManagerTyped, BackupTyped, Shape, StageShape, ManagerShape,
     WebShape, BackupShape, LockShape, Free, NoOp, Threads, Ops, Active, Jobs
<1>36. ASSUME NEW t \in Threads, MoveConflicts(t) PROVE RestoreInv'
  BY <1>36, <1>1, IdleIs, MarksAssumption DEF MoveConflicts, Applying, Saved, Start, Becomes, disk, world, bk,
     hist, bounds, RestoreInv, SmoothInv, Clean, WhoInv, Others, Restoring, Formed, Typed, MemTyped,
     HistoryTyped, ManagerTyped, BackupTyped, Shape, StageShape, ManagerShape, WebShape, BackupShape, LockShape,
     Free, NoOp, Threads, Ops, Active, Jobs
<1>37. ASSUME NEW t \in Threads, Applied(t) PROVE RestoreInv'
  BY <1>37, <1>1, IdleIs, MarksAssumption DEF Applied, Applying, Saved, Unlock, Done, Goto, disk, world, bk,
     hist, bounds, RestoreInv, SmoothInv, Clean, WhoInv, Others, Restoring, Formed, Typed, MemTyped,
     HistoryTyped, ManagerTyped, BackupTyped, Shape, StageShape, ManagerShape, WebShape, BackupShape, LockShape,
     Free, NoOp, Threads, Ops, Active, Jobs
<1>38. ASSUME NEW t \in Threads, RollBack(t) PROVE RestoreInv'
  BY <1>38, <1>1, IdleIs, MarksAssumption DEF RollBack, Applying, Unsaved, Saved, Faulty, Start, Goto, disk,
     world, conf, bk, mgr, hist, RestoreInv, SmoothInv, Clean, WhoInv, Others, Restoring, Formed, Typed,
     MemTyped, HistoryTyped, ManagerTyped, BackupTyped, Shape, StageShape, ManagerShape, WebShape, BackupShape,
     LockShape, Free, NoOp, Threads, Ops, Active, Jobs
<1>39. ASSUME NEW t \in Threads, RolledBack(t) PROVE RestoreInv'
  BY <1>39, <1>1, IdleIs, MarksAssumption DEF RolledBack, Saved, Unsaved, Unlock, Done, ApplyError, disk, world,
     bk, hist, bounds, Goto, Return, RestoreInv, SmoothInv, Clean, WhoInv, Others, Restoring, Formed, Typed,
     MemTyped, HistoryTyped, ManagerTyped, BackupTyped, Shape, StageShape, ManagerShape, WebShape, BackupShape,
     LockShape, Free, NoOp, Threads, Ops, Active, Jobs
<1>40. ASSUME NEW t \in Threads, StartFails(t) PROVE RestoreInv'
  BY <1>40, <1>1, IdleIs, MarksAssumption DEF StartFails, Applying, Unsaved, Saved, Faulty, Unlock, Done,
     ApplyError, disk, world, bk, hist, Goto, Return, RestoreInv, SmoothInv, Clean, WhoInv, Others, Restoring,
     Formed, Typed, MemTyped, HistoryTyped, ManagerTyped, BackupTyped, Shape, StageShape, ManagerShape,
     WebShape, BackupShape, LockShape, Free, NoOp, Threads, Ops, Active, Jobs
<1>41. CASE ProgramNext
  BY <1>41, <1>2, <1>3, <1>4, <1>5, <1>6, <1>7, <1>8 DEF ProgramNext
<1>42. CASE ManagerNext
  BY <1>42, <1>9, <1>10, <1>11, <1>12, <1>13, <1>14, <1>15, <1>16 DEF ManagerNext
<1>43. CASE WebNext
  BY <1>43, SettingsEdits, <1>17, <1>18 DEF WebNext
<1>44. CASE BackupNext
  BY <1>44, <1>19, <1>20, <1>21, <1>22, <1>23, <1>24, <1>25, <1>26, <1>27, <1>28, <1>29, <1>30, <1>31, <1>32,
     <1>33, <1>34, <1>35 DEF BackupNext
<1>45. ASSUME NEW t \in Threads, ApplyNext(t) PROVE RestoreInv'
  BY <1>45, <1>36, <1>37, <1>38, <1>39, <1>40 DEF ApplyNext
<1>46. ASSUME NEW t \in Threads, Save(t) PROVE RestoreInv'
  BY <1>46
<1> QED BY <1>41, <1>42, <1>43, <1>44, <1>45, <1>46 DEF Next

LEMMA RestoreSave ==
    ASSUME Formed, FilesInv, WhoInv, ShortInv, SmoothInv, RestoreInv, NEW t \in Threads, Save(t)
    PROVE  RestoreInv'
<1> SUFFICES ASSUME ~disturbed', op["backup"].name = "restore" PROVE RestoreInv'
  BY SaveDoes DEF RestoreInv
<1>1. /\ UNCHANGED <<stage, mem, ran, rs, op>> /\ Active(job[t])
      /\ job' = [job EXCEPT ![t] = job'[t]] /\ job'[t].part = job[t].part /\ job'[t].content = job[t].content
      /\ job \in [Threads -> Jobs] /\ JobOK(job[t])
  BY SaveDoes DEF conf, bk, Formed, Typed, Shape
<1>2. (~disturbed' => ~disturbed) /\ (~cut' => ~cut)
  BY SaveMarks DEF Formed, Typed, HistoryTyped
<1>3. t = "backup" /\ stage = "serving"
  <2>1. stage = "serving" /\ Free("manager") /\ Free("web")
    BY <1>2, IdleIs DEF WhoInv, Formed, Shape, StageShape, Free
  <2> QED BY <1>1, <2>1, FreeIsIdle DEF Active, Threads
<1>4. ASSUME ~cut', op["backup"].pc = "putting"
      PROVE  /\ job'["backup"].at = "failed" => faults' >= 2
             /\ job'["backup"].at = "done" => yaml' = rs.file
             /\ Active(job'["backup"]) => job'["backup"].content = rs.file
  <2>1. job["backup"].content = rs.file /\ job["backup"].part = "putback"
    BY <1>1, <1>2, <1>3, <1>4 DEF RestoreInv, Formed, Shape, BackupShape
  <2>2. faults \in Nat /\ faults >= 1
    BY <1>2, <1>4 DEF SmoothInv, Clean, Formed, Typed, HistoryTyped
  <2>3. job'["backup"].at = "failed" => faults' >= 2
    BY <1>3, <1>4, <2>2, SavesFail
  <2>4. job'["backup"].at = "done" => yaml' = rs.file
    <3> SUFFICES ASSUME job'["backup"].at = "done" PROVE yaml' = rs.file
      OBVIOUS
    <3>1. Writes(t)
      BY <1>3, <1>4, SaveKinds DEF Reads, Truncates, Elsewhere
    <3>2. Prepared(job[t]) /\ Head(job[t].files) # "txt" /\ yaml' = job[t].data
      BY <1>1, <3>1 DEF JobOK, Writes, AtYaml
    <3> QED BY <1>3, <2>1, <3>2 DEF Prepared
  <2> QED BY <1>1, <1>3, <2>1, <2>3, <2>4
<1> QED BY <1>1, <1>2, <1>4 DEF RestoreInv

LEMMA RestoreNext ==
    ASSUME Formed, FilesInv, WhoInv, ShortInv, SmoothInv, RestoreInv, [Next]_vars
    PROVE  RestoreInv'
<1>1. CASE UNCHANGED vars
  BY <1>1 DEF RestoreInv, vars, disk, conf, bk, mgr, hist, bounds
<1>2. CASE Load
  BY <1>2, IdleIs DEF Load, mgr, RestoreInv, Formed, Shape, StageShape, Free
<1>3. CASE \E t \in Threads : Save(t)
  BY <1>3, RestoreSave
<1>4. CASE Next /\ ~Load /\ \A t \in Threads : ~Save(t)
  BY <1>4, RestoreQuiet
<1> QED BY <1>1, <1>2, <1>3, <1>4

\* A restore that puts things back is over when the store is put back.
LEMMA OnlyPutStoreBack ==
    ASSUME Formed, Next, RestoreAt("putting"), ~PutStoreBack
    PROVE  outcome' # "undone"
<1>1. CASE Load
  BY <1>1 DEF Load, disk, world, mgr, RestoreAt, Step, Formed, Shape, BackupShape
<1>2. CASE Stop
  BY <1>2 DEF Stop, Gone, disk, bounds, Threads, RestoreAt, Step, Formed, Shape, BackupShape
<1>3. CASE Filter
  BY <1>3 DEF Filter, disk, world, bk, mgr, hist, bounds, RestoreAt, Step, Formed, Shape, BackupShape
<1>4. CASE NoPool
  BY <1>4 DEF NoPool, Serve, disk, world, bk, mgr, hist, bounds, RestoreAt, Step, Formed, Shape, BackupShape
<1>5. CASE PackingSaved
  BY <1>5 DEF PackingSaved, Saved, Done, disk, world, conf, bk, mgr, hist, bounds, RestoreAt, Step, Formed,
     Shape, BackupShape
<1>6. CASE PackingFails
  BY <1>6 DEF PackingFails, Unsaved, Gone, disk, world, bounds, Threads, RestoreAt, Step, Formed, Shape,
     BackupShape
<1>7. CASE SyncPorts
  BY <1>7 DEF SyncPorts, Serve, world, bk, mgr, hist, bounds, RestoreAt, Step, Formed, Shape, BackupShape
<1>8. CASE SyncFails
  BY <1>8 DEF SyncFails, Faulty, Gone, disk, world, Threads, RestoreAt, Step, Formed, Shape, BackupShape
<1>9. ASSUME NEW r \in Routes, CreateNode(r) PROVE outcome' # "undone"
  BY <1>9 DEF CreateNode, Edit, Begin, disk, world, bk, Free, RestoreAt, Step, Formed, Shape, BackupShape
<1>10. ASSUME NEW r \in Routes, DeleteNode(r) PROVE outcome' # "undone"
  BY <1>10 DEF DeleteNode, Edit, Begin, disk, world, bk, Free, RestoreAt, Step, Formed, Shape, BackupShape
<1>11. CASE EditSaved
  BY <1>11 DEF EditSaved, Editing, Saved, Goto, Done, Unlock, disk, world, conf, bk, hist, bounds, RestoreAt,
     Step, Formed, Shape, BackupShape
<1>12. CASE EditFails
  BY <1>12 DEF EditFails, Editing, Unsaved, Undone, Return, Done, Unlock, disk, world, bk, hist, bounds,
     RestoreAt, Step, Formed, Shape, BackupShape
<1>13. CASE EditPool
  BY <1>13 DEF EditPool, Return, Restoring, world, conf, bk, mgr, bounds, RestoreAt, Step, Formed, Shape,
     BackupShape
<1>14. CASE Reload
  BY <1>14 DEF Reload, Begin, disk, world, conf, bk, Free, RestoreAt, Step, Formed, Shape, BackupShape
<1>15. CASE ReloadPool
  BY <1>15 DEF ReloadPool, Step, Return, Restoring, world, conf, bk, mgr, bounds, RestoreAt, Formed, Shape,
     BackupShape
<1>16. CASE EnterEmpty
  BY <1>16 DEF EnterEmpty, Free, disk, world, bk, mgr, hist, RestoreAt, Step, Formed, Shape, BackupShape
<1>17. ASSUME NEW settings \in Settings, EditSettings(settings) PROVE outcome' # "undone"
  BY <1>17 DEF EditSettings, Begin, disk, world, bk, mgr, Free, RestoreAt, Step, Formed, Shape, BackupShape
<1>18. CASE SettingsEnd
  BY <1>18 DEF SettingsEnd, Step, Saved, Unsaved, Return, Done, disk, world, conf, bk, mgr, hist, bounds,
     RestoreAt, Formed, Shape, BackupShape
<1>19. CASE SetWebDAV
  BY <1>19 DEF SetWebDAV, Begin, disk, world, conf, bk, mgr, Free, RestoreAt, Step, Formed, Shape, BackupShape
<1>20. CASE WebDAVSaved
  BY <1>20 DEF WebDAVSaved, Step, Saved, Return, Done, disk, world, conf, mgr, hist, bounds, RestoreAt, Formed,
     Shape, BackupShape
<1>21. CASE WebDAVFails
  BY <1>21 DEF WebDAVFails, Step, Unsaved, Return, Done, disk, world, conf, bk, mgr, hist, bounds, RestoreAt,
     Formed, Shape, BackupShape
<1>22. CASE CreateBackup
  BY <1>22 DEF CreateBackup, Begin, disk, world, conf, bk, mgr, Free, RestoreAt, Step, Formed, Shape,
     BackupShape
<1>23. CASE SnapshotStore
  BY <1>23 DEF SnapshotStore, Step, Return, disk, world, conf, mgr, hist, bounds, RestoreAt, Formed, Shape,
     BackupShape
<1>24. CASE Restore
  BY <1>24 DEF Restore, Begin, disk, world, conf, mgr, Free, RestoreAt, Step, Formed, Shape, BackupShape
<1>25. CASE RestoreSaved
  BY <1>25 DEF RestoreSaved, RestoreAt, Saved, Goto, Done, disk, world, conf, bk, mgr, hist, bounds, Step,
     Formed, Shape, BackupShape
<1>26. CASE RestoreUnsaved
  BY <1>26 DEF RestoreUnsaved, RestoreAt, Unsaved, RestoreEnds, Done, disk, world, conf, mgr, bounds, Step,
     Return, Formed, Shape, BackupShape
<1>27. CASE ReplaceStore
  BY <1>27 DEF ReplaceStore, RestoreAt, Goto, world, conf, bk, mgr, hist, bounds, Step, Formed, Shape,
     BackupShape
<1>28. CASE ReplaceStoreFails
  BY <1>28 DEF ReplaceStoreFails, RestoreAt, Faulty, Goto, disk, world, conf, bk, mgr, hist, Step, Formed,
     Shape, BackupShape
<1>29. CASE ApplyRestored
  BY <1>29 DEF ApplyRestored, RestoreAt, ApplyBackup, Step, Goto, mgr, StartsAsIs, disk, world, bk, hist,
     bounds, Formed, Shape, BackupShape
<1>30. CASE Reapply
  BY <1>30 DEF Reapply, RestoreAt, ApplyBackup, Step, Goto, mgr, StartsAsIs, disk, world, bk, hist, bounds,
     Formed, Shape, BackupShape
<1>31. CASE ListNodes
  BY <1>31 DEF ListNodes, RestoreAt, Goto, world, conf, bk, mgr, hist, bounds, Step, Formed, Shape, BackupShape
<1>32. CASE SetChainProfiles
  BY <1>32 DEF SetChainProfiles, RestoreAt, RestoreEnds, disk, world, conf, mgr, bounds, Step, Return, Formed,
     Shape, BackupShape
<1>33. CASE RestoreFailsLate
  BY <1>33 DEF RestoreFailsLate, RestoreAt, Faulty, Goto, disk, world, conf, bk, mgr, hist, Step, Formed, Shape,
     BackupShape
<1>34. CASE PutFileBack
  BY <1>34 DEF PutFileBack, RestoreAt, Goto, disk, world, conf, bk, mgr, bounds, Step, Formed, Shape,
     BackupShape
<1>35. CASE PutStoreBack
  BY <1>35 DEF PutStoreBack, RestoreAt, Saved, Unsaved, Done, Faulty, RestoreEnds, world, conf, mgr, Step,
     Return, Formed, Shape, BackupShape
<1>36. ASSUME NEW t \in Threads, MoveConflicts(t) PROVE outcome' # "undone"
  BY <1>36 DEF MoveConflicts, Applying, Saved, disk, world, bk, hist, bounds, RestoreAt, Step, Formed, Shape,
     BackupShape
<1>37. ASSUME NEW t \in Threads, Applied(t) PROVE outcome' # "undone"
  BY <1>37 DEF Applied, Applying, Saved, Unlock, Done, Goto, disk, world, bk, hist, bounds, RestoreAt, Step,
     Formed, Shape, BackupShape
<1>38. ASSUME NEW t \in Threads, RollBack(t) PROVE outcome' # "undone"
  BY <1>38 DEF RollBack, Applying, Unsaved, Saved, Faulty, Goto, disk, world, conf, bk, mgr, hist, RestoreAt,
     Step, Formed, Shape, BackupShape
<1>39. ASSUME NEW t \in Threads, RolledBack(t) PROVE outcome' # "undone"
  BY <1>39 DEF RolledBack, Saved, Unsaved, Unlock, Done, ApplyError, disk, world, bk, hist, bounds, Goto,
     Return, RestoreAt, Step, Formed, Shape, BackupShape
<1>40. ASSUME NEW t \in Threads, StartFails(t) PROVE outcome' # "undone"
  BY <1>40 DEF StartFails, Applying, Unsaved, Saved, Faulty, Unlock, Done, ApplyError, disk, world, bk, hist,
     Goto, Return, RestoreAt, Step, Formed, Shape, BackupShape
<1>41. CASE ProgramNext
  BY <1>41, <1>1, <1>2, <1>3, <1>4, <1>5, <1>6, <1>7, <1>8 DEF ProgramNext
<1>42. CASE ManagerNext
  BY <1>42, <1>9, <1>10, <1>11, <1>12, <1>13, <1>14, <1>15, <1>16 DEF ManagerNext
<1>43. CASE WebNext
  BY <1>43, SettingsEdits, <1>17, <1>18 DEF WebNext
<1>44. CASE BackupNext
  BY <1>44, <1>19, <1>20, <1>21, <1>22, <1>23, <1>24, <1>25, <1>26, <1>27, <1>28, <1>29, <1>30, <1>31, <1>32,
     <1>33, <1>34, <1>35 DEF BackupNext
<1>45. ASSUME NEW t \in Threads, ApplyNext(t) PROVE outcome' # "undone"
  BY <1>45, <1>36, <1>37, <1>38, <1>39, <1>40 DEF ApplyNext
<1>46. ASSUME NEW t \in Threads, Save(t) PROVE outcome' # "undone"
  BY <1>46, SaveDoes DEF RestoreAt, Step, Formed, Shape, BackupShape
<1> QED BY <1>41, <1>42, <1>43, <1>44, <1>45, <1>46 DEF Next

\* A restore that fails for one fault leaves config.yaml and the pool as they
\* were before it, and the manager with the nodes it had or those that were
\* running (Restore's deferred undo: os.WriteFile of the old file, ReplaceAll of
\* the old pool, ApplyRestoredConfig of the old configuration).
THEOREM RestoresAreUndone == Spec => RestoreUndone
<1>1. Init => RestoreInv
  BY IdleIs DEF Init, RestoreInv, Threads
<1>2. Formed /\ FilesInv /\ WhoInv /\ ShortInv /\ SmoothInv /\ RestoreInv /\ [Next]_vars => RestoreInv'
  BY RestoreNext
<1>3. ASSUME Formed, SmoothInv, RestoreInv, [Next]_vars
      PROVE  [/\ RestoreAt("putting") /\ outcome' = "undone"
              /\ ~disturbed /\ ~cut /\ faults' = 1
              => /\ yaml' = before.file /\ pool' = before.pool
                 /\ ran # None => Routed(mem'.nodes) \in {Routed(rs.cfg.nodes), Routed(ran.nodes)}]_vars
  <2> SUFFICES ASSUME Next, RestoreAt("putting"), outcome' = "undone", ~disturbed, ~cut, faults' = 1
               PROVE  /\ yaml' = before.file /\ pool' = before.pool
                      /\ ran # None => Routed(mem'.nodes) \in {Routed(rs.cfg.nodes), Routed(ran.nodes)}
    BY <1>3
  <2>1. PutStoreBack
    BY <1>3, OnlyPutStoreBack
  <2>2. /\ yaml' = yaml /\ mem' = mem /\ job["backup"].at \in {"done", "failed"}
        /\ (pool' = rs.pool /\ faults' = faults) \/ faults' = faults + 1
    BY <2>1 DEF PutStoreBack, Saved, Unsaved, Faulty, conf
  <2>3. faults \in Nat /\ faults >= 1
    BY <1>3 DEF RestoreAt, Step, SmoothInv, Clean, Formed, Typed, HistoryTyped
  <2>4. op["backup"].name = "restore" /\ before = [file |-> rs.file, pool |-> rs.pool]
    BY <1>3 DEF RestoreAt, Step, Formed, Shape, BackupShape
  <2>5. pool' = rs.pool /\ yaml = rs.file
    BY <1>3, <2>2, <2>3, <2>4 DEF RestoreInv, RestoreAt, Step
  <2>6. ran # None => Routed(mem.nodes) \in {Routed(rs.cfg.nodes), Routed(ran.nodes)}
    BY <1>3, <2>4 DEF RestoreInv
  <2> QED BY <2>2, <2>4, <2>5, <2>6
<1> QED BY <1>1, <1>2, <1>3, AlwaysSmooth, PTL DEF Spec, RestoreUndone
=============================================================================
