--------------------------- MODULE NodeTestsProofs ---------------------------
(***************************************************************************)
(* Theorems about NodeTests for any numbers of jobs, verifications, nodes, *)
(* routes and sites, any number of slots, rounds and kept runs: what the   *)
(* passes owe, the results of jobs and batches, what a client is told, the *)
(* history.                                                                *)
(***************************************************************************)
EXTENDS NodeTests, FiniteSetTheorems, FunctionTheorems, TLAPS

-----------------------------------------------------------------------------
(* Passes.                                                                 *)

\* What the check of a site finds, and what a pass is.
Found == [route : Routes, target : Targets, res : Outcomes]
PassSet ==
    [on : BOOLEAN, wish : [Routes -> SUBSET Targets], left : SUBSET Routes, wait : SUBSET Routes,
     probe : SUBSET Routes, out : SUBSET Found, crew : Int]

\* Every route of a pass is in one place, sent results are of sites asked for
\* and not twice the same, and a worker is there for each route under way.
Tidy(p) ==
    /\ p.left \cap p.wait = {} /\ p.left \cap p.probe = {} /\ p.wait \cap p.probe = {}
    /\ \A x \in p.out : x.route \notin p.left \cup p.wait \cup p.probe /\ x.target \in p.wish[x.route]
    /\ \A x, y \in p.out : x.route = y.route /\ x.target = y.target => x = y
    /\ IsFiniteSet(Busy(p)) /\ Cardinality(Busy(p)) <= p.crew /\ p.crew <= Slots
    /\ ~p.on => p = NoPass

\* The route and site of the results that are still to come.
Coming(p, r, t) ==
    \/ r \in p.left \cup p.wait \cup p.probe /\ t \in p.wish[r]
    \/ \E x \in p.out : x.route = r /\ x.target = t

\* What a step of feeder or workers makes of a pass.
Moves(o, p, q) ==
    /\ q \in PassSet /\ Tidy(q)
    /\ q.on = p.on
    /\ \A r \in Routes, t \in Targets : Coming(q, r, t) => Coming(p, r, t)
    /\ o \notin canceled => \A r \in Routes, t \in Targets : Coming(p, r, t) => Coming(q, r, t)
    /\ \A x \in q.out : x \in p.out \/ (x.res.cut => o \in canceled)

\* All passes, and the slots they hold together.
Passes ==
    /\ pass \in [Owners -> PassSet] /\ canceled \subseteq Owners
    /\ \A o \in Owners : Tidy(pass[o])
    /\ IsFiniteSet(Taken) /\ Cardinality(Taken) <= Slots

\* No pass is tidy.
LEMMA NoPassTidy == NoPass \in PassSet /\ Tidy(NoPass) /\ \A r, t : ~Coming(NoPass, r, t)
<1>1. NoPass \in PassSet
  BY DEF NoPass, NoWish, PassSet
<1>2. Busy(NoPass) = {}
  BY DEF NoPass, Busy
<1>3. IsFiniteSet({}) /\ Cardinality({}) = 0
  BY FS_EmptySet
<1>4. /\ NoPass.crew = 0 /\ 0 <= Slots
      /\ NoPass.left = {} /\ NoPass.wait = {} /\ NoPass.probe = {} /\ NoPass.out = {}
  BY SitesAssumption DEF NoPass
<1>5. Tidy(NoPass)
  BY <1>2, <1>3, <1>4 DEF Tidy
<1> QED BY <1>1, <1>4, <1>5 DEF Coming

\* A pass that begins owes every site of every route it is opened for.
LEMMA OpenedTidy ==
    ASSUME NEW routes \in SUBSET Routes, NEW wish \in [Routes -> SUBSET Targets]
    PROVE  LET p == Opened(routes, wish)
           IN  /\ p \in PassSet /\ Tidy(p) /\ p.on /\ p.out = {} /\ p.probe = {}
               /\ \A r \in Routes, t \in Targets : Coming(p, r, t) <=> r \in routes /\ t \in wish[r]
<1> DEFINE p == Opened(routes, wish)
           n == Cardinality(routes)
           k == IF n < Slots THEN n ELSE Slots
<1>1. n \in Nat
  BY SitesAssumption, FS_Subset, FS_CardinalityType
<1>2. k \in Int /\ 0 <= k /\ k <= Slots
  BY <1>1, SitesAssumption
<1>3. p = [on |-> TRUE, wish |-> wish, left |-> {r \in routes : wish[r] # {}}, wait |-> {}, probe |-> {},
           out |-> {}, crew |-> k]
  <2>1. NoPass = [on |-> FALSE, wish |-> NoWish, left |-> {}, wait |-> {}, probe |-> {}, out |-> {}, crew |-> 0]
    BY DEF NoPass
  <2>2. p = [NoPass EXCEPT !.on = TRUE, !.wish = wish, !.left = {r \in routes : wish[r] # {}}, !.crew = k]
    BY DEF Opened
  <2> QED BY ONLY <2>1, <2>2
<1> HIDE DEF k
<1>4. p \in PassSet
  BY <1>2, <1>3 DEF PassSet
<1>5. Busy(p) = {}
  BY <1>3 DEF Busy
<1>6. IsFiniteSet({}) /\ Cardinality({}) = 0
  BY FS_EmptySet
<1>7. Tidy(p)
  BY <1>2, <1>3, <1>5, <1>6 DEF Tidy
<1>8. \A r \in Routes, t \in Targets : Coming(p, r, t) <=> r \in routes /\ t \in wish[r]
  BY <1>3 DEF Coming
<1> HIDE DEF p
<1> QED BY <1>3, <1>4, <1>7, <1>8 DEF p

\* Fewer routes under way, with as many workers, stay tidy.
LEMMA FewerBusy ==
    ASSUME NEW B, NEW C, IsFiniteSet(B), C \subseteq B
    PROVE  IsFiniteSet(C) /\ Cardinality(C) <= Cardinality(B) /\ Cardinality(B) \in Nat /\ Cardinality(C) \in Nat
  BY FS_Subset, FS_CardinalityType

\* One more makes at most one more.
LEMMA OneMore ==
    ASSUME NEW B, NEW x, IsFiniteSet(B)
    PROVE  /\ IsFiniteSet(B \cup {x}) /\ Cardinality(B) \in Nat /\ Cardinality(B \cup {x}) \in Nat
           /\ Cardinality(B \cup {x}) <= Cardinality(B) + 1
           /\ x \notin B => Cardinality(B \cup {x}) = Cardinality(B) + 1
<1>1. Cardinality(B) \in Nat
  BY FS_CardinalityType
<1>2. IsFiniteSet(B \cup {x}) /\ Cardinality(B \cup {x}) = IF x \in B THEN Cardinality(B) ELSE Cardinality(B) + 1
  BY FS_AddElement
<1> QED BY <1>1, <1>2

\* Taking a result leaves the others to come.
LEMMA ReceiveTidy ==
    ASSUME NEW p \in PassSet, Tidy(p), NEW x \in p.out
    PROVE  LET q == [p EXCEPT !.out = @ \ {x}]
           IN  /\ q \in PassSet /\ Tidy(q) /\ q.on = p.on /\ q.out \subseteq p.out /\ q.probe = p.probe
               /\ \A r \in Routes, t \in Targets :
                      Coming(q, r, t) <=> Coming(p, r, t) /\ ~(r = x.route /\ t = x.target)
<1> DEFINE q == [p EXCEPT !.out = @ \ {x}]
<1>1. /\ q.on = p.on /\ q.wish = p.wish /\ q.left = p.left /\ q.wait = p.wait /\ q.probe = p.probe
      /\ q.out = p.out \ {x} /\ q.crew = p.crew
  BY DEF PassSet
<1>2. q \in PassSet
  BY DEF PassSet
<1>3. Busy(q) \subseteq Busy(p)
  BY <1>1 DEF Busy
<1>4. IsFiniteSet(Busy(q)) /\ Cardinality(Busy(q)) <= Cardinality(Busy(p))
      /\ Cardinality(Busy(p)) \in Nat /\ Cardinality(Busy(q)) \in Nat
  BY <1>3, FewerBusy DEF Tidy
<1>5. q.crew \in Int /\ q.crew = p.crew /\ Cardinality(Busy(q)) <= q.crew
  BY <1>1, <1>2, <1>4 DEF Tidy, PassSet
<1>6. q.on
  BY <1>1 DEF Tidy, NoPass
<1> HIDE DEF q
<1>7. Tidy(q)
  BY <1>1, <1>4, <1>5, <1>6 DEF Tidy
<1>8. \A r \in Routes, t \in Targets : Coming(q, r, t) <=> Coming(p, r, t) /\ ~(r = x.route /\ t = x.target)
  BY <1>1 DEF Tidy, Coming
<1> QED BY <1>1, <1>2, <1>7, <1>8 DEF q

\* One pass changes, and takes one more slot only when there is one.
LEMMA OnePassChanges ==
    ASSUME Passes, NEW o \in Owners, NEW q \in PassSet, Tidy(q),
           pass' = [pass EXCEPT ![o] = q], canceled' \subseteq Owners,
           q.probe \subseteq pass[o].probe
           \/ (Cardinality(Taken) < Slots /\ \E r \in Routes : q.probe \subseteq pass[o].probe \cup {r})
    PROVE  Passes'
<1>1. pass' \in [Owners -> PassSet] /\ \A u \in Owners : Tidy(pass'[u])
  BY DEF Passes
<1>2. IsFiniteSet(Taken') /\ Cardinality(Taken') <= Slots
  <2>0. IsFiniteSet(Taken) /\ Cardinality(Taken) \in Nat /\ Cardinality(Taken) <= Slots /\ Slots \in Nat
    BY FS_CardinalityType, SitesAssumption DEF Passes
  <2>1. CASE q.probe \subseteq pass[o].probe
    <3>1. Taken' \subseteq Taken
      BY <2>1 DEF Taken, Passes
    <3>2. IsFiniteSet(Taken') /\ Cardinality(Taken') <= Cardinality(Taken) /\ Cardinality(Taken') \in Nat
      BY <2>0, <3>1, FewerBusy
    <3> QED BY <2>0, <3>2
  <2>2. ASSUME Cardinality(Taken) < Slots, NEW r \in Routes, q.probe \subseteq pass[o].probe \cup {r}
        PROVE  IsFiniteSet(Taken') /\ Cardinality(Taken') <= Slots
    <3> DEFINE More == Taken \cup {<<o, r>>}
    <3>1. Taken' \subseteq More
      BY <2>2 DEF Taken, Passes
    <3>2. IsFiniteSet(More) /\ Cardinality(More) <= Cardinality(Taken) + 1
      BY <2>0, OneMore
    <3>3. IsFiniteSet(Taken') /\ Cardinality(Taken') <= Cardinality(More)
          /\ Cardinality(Taken') \in Nat /\ Cardinality(More) \in Nat
      BY <3>1, <3>2, FewerBusy
    <3> HIDE DEF More
    <3> QED BY <2>0, <2>2, <3>2, <3>3
  <2> QED BY <2>1, <2>2
<1> QED BY <1>1, <1>2 DEF Passes

\* What feeder and workers do to a pass.
LEMMA PassStepMoves ==
    ASSUME Passes, NEW o \in Owners, NEW causes, PassStep(o, causes)
    PROVE  /\ Passes' /\ canceled' = canceled
           /\ pass' = [pass EXCEPT ![o] = pass'[o]]
           /\ pass[o].on /\ Moves(o, pass[o], pass'[o])
<1> DEFINE p == pass[o]
           q == pass'[o]
<1>0. p \in PassSet /\ Tidy(p) /\ IsFiniteSet(Busy(p)) /\ Cardinality(Busy(p)) \in Nat
  BY FS_CardinalityType DEF Passes, Tidy
<1>a. canceled' = canceled
  BY DEF PassStep, Feed, Acquire, Probe, FeederStops, WorkerStops
<1>b. ASSUME q \in PassSet, Tidy(q), pass' = [pass EXCEPT ![o] = q],
             \/ q.probe \subseteq p.probe
             \/ Cardinality(Taken) < Slots /\ \E r \in Routes : q.probe \subseteq p.probe \cup {r}
      PROVE  Passes'
  BY <1>a, <1>b, OnePassChanges DEF Passes
<1>c. p.left # {} \/ p.wait # {} \/ p.probe # {} \/ p.out # {} => p.on
  BY <1>0 DEF Tidy, NoPass
<1>1. CASE Feed(o)
  <2>1. PICK r \in p.left : pass' = [pass EXCEPT ![o].left = @ \ {r}, ![o].wait = @ \cup {r}]
    BY <1>1 DEF Feed
  <2>2. /\ pass' = [pass EXCEPT ![o] = q]
        /\ q.on = p.on /\ q.wish = p.wish /\ q.left = p.left \ {r} /\ q.wait = p.wait \cup {r}
        /\ q.probe = p.probe /\ q.out = p.out /\ q.crew = p.crew /\ q \in PassSet
    BY <1>0, <2>1 DEF Passes, PassSet
  <2>3. Busy(q) = Busy(p) \cup {r} /\ p.on
    BY <1>1, <2>2 DEF Busy, Feed
  <2>4. IsFiniteSet(Busy(q)) /\ Cardinality(Busy(q)) <= q.crew /\ q.crew <= Slots
    <3>2. Cardinality(Busy(p)) < p.crew /\ p.crew \in Int /\ p.crew <= Slots
      BY <1>0, <1>1 DEF Feed, PassSet, Tidy
    <3>3. IsFiniteSet(Busy(q)) /\ Cardinality(Busy(q)) <= Cardinality(Busy(p)) + 1 /\ Cardinality(Busy(q)) \in Nat
      BY <1>0, <2>3, OneMore
    <3> HIDE DEF p, q
    <3> QED BY <1>0, <2>2, <3>2, <3>3
  <2> HIDE DEF p, q
  <2>5. Tidy(q)
    BY <1>0, <2>1, <2>2, <2>3, <2>4 DEF Tidy
  <2>6. Moves(o, p, q)
    BY <1>0, <2>1, <2>2, <2>5 DEF Moves, Coming, PassSet
  <2> QED BY <1>a, <1>b, <2>2, <2>3, <2>5, <2>6 DEF p, q
<1>2. CASE Acquire(o)
  <2>1. PICK r \in p.wait : pass' = [pass EXCEPT ![o].wait = @ \ {r}, ![o].probe = @ \cup {r}]
    BY <1>2 DEF Acquire
  <2>2. /\ pass' = [pass EXCEPT ![o] = q]
        /\ q.on = p.on /\ q.wish = p.wish /\ q.left = p.left /\ q.wait = p.wait \ {r}
        /\ q.probe = p.probe \cup {r} /\ q.out = p.out /\ q.crew = p.crew /\ q \in PassSet
    BY <1>0, <2>1 DEF Passes, PassSet
  <2>3. Busy(q) = Busy(p)
    BY <2>1, <2>2 DEF Busy
  <2>4. Cardinality(Taken) < Slots /\ r \in Routes /\ p.on
    BY <1>0, <1>2, <1>c, <2>1 DEF Acquire, PassSet
  <2> HIDE DEF p, q
  <2>5. Tidy(q)
    BY <1>0, <2>1, <2>2, <2>3, <2>4 DEF Tidy
  <2>6. Moves(o, p, q)
    BY <1>0, <2>1, <2>2, <2>5 DEF Moves, Coming, PassSet
  <2> QED BY <1>a, <1>b, <2>2, <2>4, <2>5, <2>6 DEF p, q
<1>3. CASE Probe(o, causes)
  <2>0. PICK r \in p.probe : \E f \in [p.wish[r] -> Outcomes] :
            /\ \/ \A t \in p.wish[r] : f[t] \in Judgements(t, causes) \cup (IF o \in canceled THEN Cut(t) ELSE {})
               \/ \A t \in p.wish[r] : f[t] = Unbuilt
            /\ pass' = [pass EXCEPT ![o].probe = @ \ {r},
                            ![o].out = @ \cup {[route |-> r, target |-> t, res |-> f[t]] : t \in p.wish[r]}]
    BY <1>3 DEF Probe
  <2>1. PICK f \in [p.wish[r] -> Outcomes] :
            /\ \/ \A t \in p.wish[r] : f[t] \in Judgements(t, causes) \cup (IF o \in canceled THEN Cut(t) ELSE {})
               \/ \A t \in p.wish[r] : f[t] = Unbuilt
            /\ pass' = [pass EXCEPT ![o].probe = @ \ {r},
                            ![o].out = @ \cup {[route |-> r, target |-> t, res |-> f[t]] : t \in p.wish[r]}]
    BY <2>0
  <2> DEFINE new == {[route |-> r, target |-> t, res |-> f[t]] : t \in p.wish[r]}
  <2>a. r \in Routes /\ p.wish[r] \subseteq Targets
    BY <1>0, <2>1 DEF PassSet
  <2>b. new \subseteq Found /\ \A x \in new : x.route = r /\ x.target \in p.wish[r] /\ x.res = f[x.target]
    BY <2>a DEF Found
  <2>c. ASSUME NEW t \in p.wish[r] PROVE \E x \in new : x.route = r /\ x.target = t
    <3>1. [route |-> r, target |-> t, res |-> f[t]] \in new
      OBVIOUS
    <3> HIDE DEF new
    <3> QED BY <3>1
  <2>d. ASSUME NEW x \in new, NEW y \in new, x.target = y.target PROVE x = y
    <3>1. PICK t \in p.wish[r] : x = [route |-> r, target |-> t, res |-> f[t]]
      OBVIOUS
    <3>2. PICK u \in p.wish[r] : y = [route |-> r, target |-> u, res |-> f[u]]
      OBVIOUS
    <3> QED BY <2>d, <3>1, <3>2
  <2>e. o \notin canceled => \A x \in new : ~x.res.cut
    <3>1. \A t \in p.wish[r] : f[t].cut => o \in canceled
      BY <2>1 DEF Judgements, Judged, Unbuilt
    <3> QED BY <2>b, <3>1
  <2> HIDE DEF new
  <2>2. /\ pass' = [pass EXCEPT ![o] = q]
        /\ q.on = p.on /\ q.wish = p.wish /\ q.left = p.left /\ q.wait = p.wait
        /\ q.probe = p.probe \ {r} /\ q.out = p.out \cup new /\ q.crew = p.crew /\ q \in PassSet
    <3>1. pass' = [pass EXCEPT ![o].probe = @ \ {r}, ![o].out = @ \cup new]
      BY <2>1 DEF new
    <3> QED BY <1>0, <2>b, <3>1 DEF Passes, PassSet
  <2>3. Busy(q) \subseteq Busy(p)
    BY <2>1, <2>2, <2>b DEF Busy
  <2>4. p.on
    BY <1>c, <2>1
  <2> HIDE DEF p, q
  <2>5. Tidy(q)
    <3>1. q.crew \in Int /\ IsFiniteSet(Busy(q)) /\ Cardinality(Busy(q)) <= q.crew /\ q.crew <= Slots
      <4>1. IsFiniteSet(Busy(q)) /\ Cardinality(Busy(q)) <= Cardinality(Busy(p)) /\ Cardinality(Busy(q)) \in Nat
        BY <1>0, <2>3, FewerBusy
      <4>2. p.crew \in Int /\ Cardinality(Busy(p)) <= p.crew /\ p.crew <= Slots
        BY <1>0 DEF Tidy, PassSet
      <4> QED BY <1>0, <2>2, <4>1, <4>2
    <3>2. \A x \in q.out : x.route \notin q.left \cup q.wait \cup q.probe /\ x.target \in q.wish[x.route]
      BY <1>0, <2>1, <2>2, <2>b DEF Tidy
    <3>3. \A x, y \in q.out : x.route = y.route /\ x.target = y.target => x = y
      BY <1>0, <2>1, <2>2, <2>b, <2>d DEF Tidy
    <3> QED BY <1>0, <2>2, <2>4, <3>1, <3>2, <3>3 DEF Tidy
  <2>6. Moves(o, p, q)
    <3>1. \A s \in Routes, t \in Targets : Coming(q, s, t) => Coming(p, s, t)
      BY <2>1, <2>2, <2>b DEF Coming
    <3>2. \A s \in Routes, t \in Targets : Coming(p, s, t) => Coming(q, s, t)
      BY <2>1, <2>2, <2>c DEF Coming
    <3>3. \A x \in q.out : x \in p.out \/ (x.res.cut => o \in canceled)
      BY <2>2, <2>e
    <3> QED BY <2>2, <2>5, <3>1, <3>2, <3>3 DEF Moves
  <2>7. q.probe \subseteq p.probe
    BY <2>2
  <2> QED BY <1>a, <1>b, <2>2, <2>4, <2>5, <2>6, <2>7 DEF p, q
<1>4. CASE FeederStops(o)
  <2>1. o \in canceled /\ p.left # {} /\ pass' = [pass EXCEPT ![o].left = {}]
    BY <1>4 DEF FeederStops
  <2>2. /\ pass' = [pass EXCEPT ![o] = q]
        /\ q.on = p.on /\ q.wish = p.wish /\ q.left = {} /\ q.wait = p.wait
        /\ q.probe = p.probe /\ q.out = p.out /\ q.crew = p.crew /\ q \in PassSet
    BY <1>0, <2>1 DEF Passes, PassSet
  <2>3. Busy(q) = Busy(p) /\ p.on
    BY <1>c, <2>1, <2>2 DEF Busy
  <2> HIDE DEF p, q
  <2>5. Tidy(q)
    BY <1>0, <2>2, <2>3 DEF Tidy
  <2>6. Moves(o, p, q)
    BY <2>1, <2>2, <2>5 DEF Moves, Coming
  <2> QED BY <1>a, <1>b, <2>2, <2>3, <2>5, <2>6 DEF p, q
<1>5. CASE WorkerStops(o)
  <2>0. o \in canceled
    BY <1>5 DEF WorkerStops
  <2>1. PICK r \in Busy(p) :
            \/ r \in p.wait /\ pass' = [pass EXCEPT ![o].wait = @ \ {r}, ![o].crew = @ - 1]
            \/ /\ r \in {x.route : x \in p.out}
               /\ pass' = [pass EXCEPT ![o].out = {x \in @ : x.route # r}, ![o].crew = @ - 1]
    BY <1>5 DEF WorkerStops, Busy
  <2>2. /\ pass' = [pass EXCEPT ![o] = q]
        /\ q.on = p.on /\ q.wish = p.wish /\ q.left = p.left /\ q.wait = p.wait \ {r}
        /\ q.probe = p.probe /\ q.out = {x \in p.out : x.route # r} /\ q.crew = p.crew - 1 /\ q \in PassSet
    <3>1. CASE r \in p.wait /\ pass' = [pass EXCEPT ![o].wait = @ \ {r}, ![o].crew = @ - 1]
      <4>1. \A x \in p.out : x.route # r
        BY <1>0, <3>1 DEF Tidy
      <4>2. p.out = {x \in p.out : x.route # r}
        BY <4>1
      <4>3. /\ pass' = [pass EXCEPT ![o] = q]
            /\ q.on = p.on /\ q.wish = p.wish /\ q.left = p.left /\ q.wait = p.wait \ {r}
            /\ q.probe = p.probe /\ q.out = p.out /\ q.crew = p.crew - 1 /\ q \in PassSet
        BY <1>0, <3>1 DEF Passes, PassSet
      <4> QED BY <4>2, <4>3
    <3>2. CASE /\ r \in {x.route : x \in p.out}
               /\ pass' = [pass EXCEPT ![o].out = {x \in @ : x.route # r}, ![o].crew = @ - 1]
      <4>1. r \notin p.wait
        BY <1>0, <3>2 DEF Tidy
      <4>2. p.wait = p.wait \ {r}
        BY <4>1
      <4>3. /\ pass' = [pass EXCEPT ![o] = q]
            /\ q.on = p.on /\ q.wish = p.wish /\ q.left = p.left /\ q.wait = p.wait
            /\ q.probe = p.probe /\ q.out = {x \in p.out : x.route # r} /\ q.crew = p.crew - 1 /\ q \in PassSet
        <5> DEFINE rest == {x \in p.out : x.route # r}
        <5>1. rest \subseteq p.out /\ pass' = [pass EXCEPT ![o].out = rest, ![o].crew = @ - 1]
          BY <3>2
        <5> HIDE DEF rest
        <5>2. /\ pass' = [pass EXCEPT ![o] = q]
              /\ q.on = p.on /\ q.wish = p.wish /\ q.left = p.left /\ q.wait = p.wait
              /\ q.probe = p.probe /\ q.out = rest /\ q.crew = p.crew - 1 /\ q \in PassSet
          BY <1>0, <5>1 DEF Passes, PassSet
        <5> QED BY <5>2 DEF rest
      <4> QED BY <4>2, <4>3
    <3> QED BY <2>1, <3>1, <3>2
  <2>3. Busy(q) = Busy(p) \ {r} /\ p.on
    <3>1. r \notin p.probe
      BY <1>0, <2>1 DEF Tidy
    <3>2. p.on
      BY <1>c, <2>1 DEF Busy
    <3> QED BY <2>1, <2>2, <3>1, <3>2 DEF Busy
  <2> HIDE DEF p, q
  <2>4. IsFiniteSet(Busy(q)) /\ Cardinality(Busy(q)) <= q.crew /\ q.crew <= Slots
    <3>1. IsFiniteSet(Busy(q)) /\ Cardinality(Busy(q)) = Cardinality(Busy(p)) - 1
      BY <1>0, <2>1, <2>3, FS_RemoveElement
    <3>2. p.crew \in Int /\ Cardinality(Busy(p)) <= p.crew /\ p.crew <= Slots /\ Slots \in Nat
      BY <1>0, SitesAssumption DEF Tidy, PassSet
    <3> QED BY <1>0, <2>2, <3>1, <3>2
  <2>5. Tidy(q)
    BY <1>0, <2>2, <2>3, <2>4 DEF Tidy
  <2>6. Moves(o, p, q)
    BY <2>0, <2>2, <2>5 DEF Moves, Coming
  <2> QED BY <1>a, <1>b, <2>2, <2>3, <2>5, <2>6 DEF p, q
<1> QED BY <1>1, <1>2, <1>3, <1>4, <1>5 DEF PassStep

\* The end of a pass and the beginning of one keep all passes.
LEMMA PassEnds ==
    ASSUME Passes, NEW o \in Owners, EndPass(o), canceled' = canceled
    PROVE  /\ Passes' /\ pass' = [pass EXCEPT ![o] = NoPass]
           /\ pass[o].out = {} /\ \A r \in Routes, t \in Targets : ~Coming(pass[o], r, t)
<1>1. pass[o].left = {} /\ Busy(pass[o]) = {} /\ pass' = [pass EXCEPT ![o] = NoPass]
  BY DEF EndPass, Closed
<1>2. pass[o].wait = {} /\ pass[o].probe = {} /\ {x.route : x \in pass[o].out} = {}
  BY <1>1 DEF Busy
<1>3. pass[o].out = {}
  BY <1>2
<1>4. NoPass.probe \subseteq pass[o].probe /\ canceled' \subseteq Owners
  BY <1>2 DEF NoPass, Passes
<1> QED BY <1>1, <1>2, <1>3, <1>4, NoPassTidy, OnePassChanges DEF Coming

LEMMA PassBegins ==
    ASSUME Passes, NEW o \in Owners, NEW routes \in SUBSET Routes, NEW wish \in [Routes -> SUBSET Targets],
           pass' = [pass EXCEPT ![o] = Opened(routes, wish)], canceled' = canceled
    PROVE  Passes'
<1> DEFINE q == Opened(routes, wish)
<1>1. q \in PassSet /\ Tidy(q) /\ q.probe = {}
  BY OpenedTidy
<1>2. canceled' \subseteq Owners /\ q.probe \subseteq pass[o].probe
  BY <1>1 DEF Passes
<1> HIDE DEF q
<1>3. pass' = [pass EXCEPT ![o] = q]
  BY DEF q
<1> QED BY <1>1, <1>2, <1>3, OnePassChanges

\* A result is taken.
LEMMA ResultTaken ==
    ASSUME Passes, NEW o \in Owners, NEW x, Receive(o, x), canceled' = canceled
    PROVE  /\ Passes' /\ x \in pass[o].out /\ x \in Found /\ Coming(pass[o], x.route, x.target)
           /\ pass' = [pass EXCEPT ![o] = pass'[o]]
           /\ pass[o].on /\ pass'[o].on /\ pass'[o].out \subseteq pass[o].out
           /\ \A r \in Routes, t \in Targets :
                  Coming(pass'[o], r, t) <=> Coming(pass[o], r, t) /\ ~(r = x.route /\ t = x.target)
<1> DEFINE p == pass[o]
           q == [p EXCEPT !.out = @ \ {x}]
<1>1. p \in PassSet /\ Tidy(p) /\ x \in p.out
  BY DEF Passes, Receive
<1>2. pass' = [pass EXCEPT ![o] = q] /\ pass'[o] = q
  BY DEF Receive, Passes
<1>3. /\ q \in PassSet /\ Tidy(q) /\ q.on = p.on /\ q.out \subseteq p.out /\ q.probe = p.probe
      /\ \A r \in Routes, t \in Targets : Coming(q, r, t) <=> Coming(p, r, t) /\ ~(r = x.route /\ t = x.target)
  BY <1>1, ReceiveTidy
<1>4. x \in Found /\ Coming(p, x.route, x.target) /\ p.on
  BY <1>1 DEF PassSet, Coming, Tidy, NoPass
<1> HIDE DEF q
<1>5. Passes'
  BY <1>2, <1>3, OnePassChanges DEF Passes
<1> QED BY <1>1, <1>2, <1>3, <1>4, <1>5

-----------------------------------------------------------------------------
(* Jobs.  The invariant of a job is stated of its record, its pass and its *)
(* place, and proved to be kept by what each step makes of these.          *)

\* What a job is.
Phases == {"none", "first_pass", "retry_wait", "retry", "saving_results", "canceling"} \cup Terminal
Places == {"none", "starting", "first", "waiting", "second", "passed", "saving", "storing", "saved", "ended", "over"}
AnyTags == UNION {q.tags : q \in UNION {m.requests : m \in Menus}}
RouteMaps == UNION {[R -> SUBSET UNION {TagsOf[n] : n \in Nodes}] : R \in SUBSET Routes}
RowSet == [route : Routes, target : Targets, res : Outcomes, first : BOOLEAN, try : {1, 2}]
JobSet ==
    [status : {"none", "running"} \cup Terminal, phase : Phases, tags : SUBSET AnyTags, targets : SUBSET Targets,
     routes : RouteMaps, results : SUBSET RowSet, done : Nat, retry : Nat, retried : Nat, recovered : Nat,
     lost : BOOLEAN]

\* The results of a job by what became of them.
Twice(x)   == {y \in x.results : y.try = 2}
Rescued(x) == {y \in x.results : y.try = 2 /\ Usable(y)}
Left(x)    == {y \in x.results : y.try = 1 /\ ~Usable(y) /\ y.res.retry}
HasIn(x, r, t) == \E y \in x.results : y.route = r /\ y.target = t

\* A job has one result for a route and a site, and its counters are right.
Rows1(x) ==
    /\ \A y \in x.results : y.route \in DOMAIN x.routes /\ y.target \in x.targets /\ (y.first <=> y.try = 1 /\ Usable(y))
    /\ \A y, z \in x.results : y.route = z.route /\ y.target = z.target => y = z
Counts(x) ==
    /\ IsFiniteSet(x.results) /\ x.done = Cardinality(x.results)
    /\ x.retried = Cardinality(Twice(x)) /\ x.recovered = Cardinality(Rescued(x))
    /\ x.retried <= x.retry

\* What status and results say of the place of its goroutine.
Placed(x, p, here) ==
    /\ here \in Places
    /\ here = "none" \/ x.status = "none" => x = NoJob
    /\ here \in Places \ {"none", "ended", "over"} => x.status = "running"
    /\ here = "ended" => x.status \in Terminal
    /\ here = "over" => x.status # "running"
    /\ here = "starting" => x.results = {} /\ x.retry = 0
    /\ p.on <=> here \in {"first", "second"}

\* In the first pass what has no result yet is to come, unless the context is
\* canceled; a check that was broken off shows that it is.
InFirst(x, p, gone) ==
    /\ x.retry = 0 /\ \A y \in x.results : y.try = 1
    /\ \A r \in Routes, t \in Targets :
           Coming(p, r, t) => r \in DOMAIN x.routes /\ t \in x.targets /\ ~HasIn(x, r, t)
    /\ ~gone => \A r \in DOMAIN x.routes, t \in x.targets : HasIn(x, r, t) \/ Coming(p, r, t)

\* In the second pass what is worth it is to come.
InSecond(x, p, gone) ==
    /\ \A r \in Routes, t \in Targets : Coming(p, r, t) => \E y \in Left(x) : y.route = r /\ y.target = t
    /\ ~gone => \A y \in Left(x) : Coming(p, y.route, y.target)

\* A job that is to be saved has tried what was worth it, and nothing in it
\* was broken off.
Honest(x) == Left(x) = {} /\ \A y \in x.results : ~y.res.cut

Stages(x, p, here, gone) ==
    /\ here = "first" => InFirst(x, p, gone)
    /\ here = "second" => InSecond(x, p, gone)
    /\ here = "waiting" => (\A y \in x.results : y.try = 1 /\ ~y.res.cut)
    /\ here \in {"waiting", "second"} => x.retry = Cardinality(Twice(x)) + Cardinality(Left(x))
    /\ here \in {"first", "second", "passed"} => \A y \in x.results \cup p.out : y.res.cut => gone
    /\ here = "passed" /\ ~gone => Left(x) = {}
    /\ here \in {"waiting", "second", "passed", "saving", "storing", "saved"} \/ x.status = "finished" =>
           \A r \in DOMAIN x.routes, t \in x.targets : HasIn(x, r, t)
    /\ here \in {"saving", "storing", "saved"} \/ x.status = "finished" => Honest(x)

Sound(x, p, here, gone) ==
    x \in JobSet /\ Rows1(x) /\ Counts(x) /\ Placed(x, p, here) /\ Stages(x, p, here, gone)

\* What is made of the results alone.
LEMMA SameResults ==
    ASSUME NEW x, NEW y, y.results = x.results, y.routes = x.routes, y.targets = x.targets
    PROVE  /\ Twice(y) = Twice(x) /\ Rescued(y) = Rescued(x) /\ Left(y) = Left(x)
           /\ \A r, t : HasIn(y, r, t) <=> HasIn(x, r, t)
           /\ Rows1(x) => Rows1(y)
           /\ Honest(x) => Honest(y)
           /\ y.done = x.done /\ y.retried = x.retried /\ y.recovered = x.recovered /\ y.retry = x.retry
              /\ Counts(x) => Counts(y)
  BY DEF Twice, Rescued, Left, HasIn, Rows1, Honest, Counts

\* Feeder and workers leave a job sound.
LEMMA MovesSound ==
    ASSUME NEW x, NEW p, NEW q, NEW here, NEW o, Sound(x, p, here, o \in canceled), p.on, Moves(o, p, q)
    PROVE  Sound(x, q, here, o \in canceled)
<1> USE DEF Sound
<1>1. Placed(x, q, here) /\ here \in {"first", "second"}
  BY DEF Placed, Moves
<1>0. x \in JobSet
  OBVIOUS
<1>2. here = "first" => InFirst(x, q, o \in canceled)
  <2>1. SUFFICES ASSUME here = "first" PROVE InFirst(x, q, o \in canceled)
    OBVIOUS
  <2>2. InFirst(x, p, o \in canceled)
    BY <2>1 DEF Stages
  <2>3. ASSUME o \notin canceled, NEW r \in DOMAIN x.routes, NEW t \in x.targets PROVE HasIn(x, r, t) \/ Coming(q, r, t)
    <3>1. r \in Routes /\ t \in Targets
      BY <1>0 DEF JobSet, RouteMaps
    <3>2. HasIn(x, r, t) \/ Coming(p, r, t)
      BY <2>2, <2>3 DEF InFirst
    <3> QED BY <2>3, <3>1, <3>2 DEF Moves
  <2> QED BY <2>2, <2>3 DEF InFirst, Moves
<1>3. here = "second" => InSecond(x, q, o \in canceled)
  <2>1. SUFFICES ASSUME here = "second" PROVE InSecond(x, q, o \in canceled)
    OBVIOUS
  <2>2. InSecond(x, p, o \in canceled)
    BY <2>1 DEF Stages
  <2>3. ASSUME o \notin canceled, NEW y \in Left(x) PROVE Coming(q, y.route, y.target)
    <3>1. y.route \in Routes /\ y.target \in Targets
      BY <1>0, <2>3 DEF JobSet, RowSet, Left
    <3>2. Coming(p, y.route, y.target)
      BY <2>2, <2>3 DEF InSecond
    <3> QED BY <2>3, <3>1, <3>2 DEF Moves
  <2> QED BY <2>2, <2>3 DEF InSecond, Moves
<1>4. \A y \in x.results \cup q.out : y.res.cut => o \in canceled
  BY <1>1 DEF Stages, Moves
<1>5. Stages(x, q, here, o \in canceled)
  BY <1>1, <1>2, <1>3, <1>4 DEF Stages
<1> QED BY <1>1, <1>5

\* What is left of a pass whose result f was taken.
Took(p, q, f) ==
    /\ f \in p.out /\ f \in Found /\ Coming(p, f.route, f.target)
    /\ q.on /\ q.out \subseteq p.out
    /\ \A r \in Routes, t \in Targets : Coming(q, r, t) <=> Coming(p, r, t) /\ ~(r = f.route /\ t = f.target)

\* A first result is a new one.
LEMMA FirstResultSound ==
    ASSUME NEW x, NEW p, NEW q, NEW gone, Sound(x, p, "first", gone), NEW f, Took(p, q, f)
    PROVE  LET row == [route |-> f.route, target |-> f.target, res |-> f.res, first |-> Usable(f), try |-> 1]
               z == [x EXCEPT !.results = @ \cup {row}, !.done = @ + 1]
           IN  Sound(z, q, "first", gone) /\ z.status = x.status /\ z.phase = x.phase
<1> DEFINE row == [route |-> f.route, target |-> f.target, res |-> f.res, first |-> Usable(f), try |-> 1]
           z == [x EXCEPT !.results = @ \cup {row}, !.done = @ + 1]
<1>1. x \in JobSet /\ Rows1(x) /\ Counts(x) /\ Placed(x, p, "first") /\ Stages(x, p, "first", gone) /\ InFirst(x, p, gone)
  BY DEF Sound, Stages
<1>2. f.route \in Routes /\ f.target \in Targets /\ f.res \in Outcomes /\ Usable(f) \in BOOLEAN
  BY DEF Took, Found, Usable
<1>3. row \in RowSet /\ row.route = f.route /\ row.target = f.target /\ row.res = f.res /\ row.try = 1
      /\ (row.first <=> Usable(row))
  BY <1>2 DEF RowSet, Usable
<1>4. f.route \in DOMAIN x.routes /\ f.target \in x.targets /\ ~HasIn(x, f.route, f.target)
  BY <1>1, <1>2 DEF InFirst, Took
<1> HIDE DEF row
<1>5. /\ z \in JobSet /\ z.results = x.results \cup {row} /\ z.done = x.done + 1
      /\ z.status = x.status /\ z.phase = x.phase /\ z.routes = x.routes /\ z.targets = x.targets
      /\ z.retry = x.retry /\ z.retried = x.retried /\ z.recovered = x.recovered /\ x.done \in Nat
      /\ x.status = "running"
  <2>1. x.status = "running" /\ x.done \in Nat /\ x.done + 1 \in Nat /\ x.results \cup {row} \in SUBSET RowSet
    BY <1>1, <1>3 DEF JobSet, Placed, Places
  <2>2. z = [x EXCEPT !.results = x.results \cup {row}, !.done = x.done + 1]
    BY <1>1 DEF JobSet
  <2> HIDE DEF z
  <2>3. z \in JobSet
    BY <1>1, <2>1, <2>2 DEF JobSet
  <2>4. /\ z.results = x.results \cup {row} /\ z.done = x.done + 1
        /\ z.status = x.status /\ z.phase = x.phase /\ z.routes = x.routes /\ z.targets = x.targets
        /\ z.retry = x.retry /\ z.retried = x.retried /\ z.recovered = x.recovered
    BY <1>1, <2>2 DEF JobSet
  <2> QED BY <2>1, <2>3, <2>4
<1> HIDE DEF z
<1>6. Twice(z) = Twice(x) /\ Rescued(z) = Rescued(x)
  BY <1>3, <1>5 DEF Twice, Rescued
<1>7. row \notin x.results
  BY <1>3, <1>4 DEF HasIn
<1>8. Rows1(z)
  BY <1>1, <1>3, <1>4, <1>5 DEF Rows1, HasIn
<1>9. Counts(z)
  <2>1. IsFiniteSet(x.results) /\ x.done = Cardinality(x.results)
    BY <1>1 DEF Counts
  <2>2. IsFiniteSet(z.results) /\ Cardinality(z.results) = Cardinality(x.results) + 1
    <3> DEFINE R == x.results
    <3>1. IsFiniteSet(R) /\ row \notin R
      BY <1>7, <2>1
    <3> HIDE DEF R
    <3>2. IsFiniteSet(R \cup {row}) /\ Cardinality(R \cup {row}) = Cardinality(R) + 1
      BY <3>1, OneMore
    <3>3. z.results = R \cup {row}
      BY <1>5 DEF R
    <3> QED BY <3>2, <3>3 DEF R
  <2> QED BY <1>1, <1>5, <1>6, <2>1, <2>2 DEF Counts
<1>10. Placed(z, q, "first")
  <2>1. z # NoJob /\ z.status # "none"
    BY <1>1, <1>5 DEF Placed, NoJob
  <2> QED BY <1>1, <1>5, <2>1 DEF Placed, Took, Places
<1>11. \A r, t : HasIn(z, r, t) <=> HasIn(x, r, t) \/ (r = f.route /\ t = f.target)
  BY <1>3, <1>5 DEF HasIn
<1>12. InFirst(z, q, gone)
  <2>1. ASSUME ~gone, NEW r \in DOMAIN x.routes, NEW t \in x.targets PROVE HasIn(z, r, t) \/ Coming(q, r, t)
    <3>1. r \in Routes /\ t \in Targets
      BY <1>1 DEF JobSet, RouteMaps
    <3>2. HasIn(x, r, t) \/ Coming(p, r, t)
      BY <1>1, <2>1 DEF InFirst
    <3> QED BY <1>11, <3>1, <3>2 DEF Took
  <2>2. ASSUME NEW r \in Routes, NEW t \in Targets, Coming(q, r, t)
        PROVE  r \in DOMAIN z.routes /\ t \in z.targets /\ ~HasIn(z, r, t)
    BY <1>1, <1>5, <1>11, <2>2 DEF InFirst, Took
  <2>3. z.retry = 0 /\ \A y \in z.results : y.try = 1
    BY <1>1, <1>3, <1>5 DEF InFirst
  <2> QED BY <1>5, <2>1, <2>2, <2>3 DEF InFirst
<1>13. \A y \in z.results \cup q.out : y.res.cut => gone
  BY <1>1, <1>3, <1>5 DEF Stages, Took
<1>14. Stages(z, q, "first", gone)
  BY <1>5, <1>12, <1>13 DEF Stages
<1> QED BY <1>5, <1>8, <1>9, <1>10, <1>14 DEF Sound, z, row

\* A second result takes the place of one that was worth it.
LEMMA SecondResultSound ==
    ASSUME NEW x, NEW p, NEW q, NEW gone, Sound(x, p, "second", gone), NEW f, Took(p, q, f)
    PROVE  LET old == CHOOSE y \in x.results : y.route = f.route /\ y.target = f.target
               new == [old EXCEPT !.res = f.res, !.try = 2]
               z == [x EXCEPT !.results = (@ \ {old}) \cup {new}, !.retried = @ + 1,
                              !.recovered = IF ~Usable(old) /\ Usable(f) THEN @ + 1 ELSE @]
           IN  Sound(z, q, "second", gone) /\ z.status = x.status /\ z.phase = x.phase
<1> DEFINE old == CHOOSE y \in x.results : y.route = f.route /\ y.target = f.target
           new == [old EXCEPT !.res = f.res, !.try = 2]
           rec == IF ~Usable(old) /\ Usable(f) THEN x.recovered + 1 ELSE x.recovered
           z == [x EXCEPT !.results = (@ \ {old}) \cup {new}, !.retried = @ + 1,
                          !.recovered = IF ~Usable(old) /\ Usable(f) THEN @ + 1 ELSE @]
<1>1. x \in JobSet /\ Rows1(x) /\ Counts(x) /\ Placed(x, p, "second") /\ Stages(x, p, "second", gone) /\ InSecond(x, p, gone)
  BY DEF Sound, Stages
<1>2. f.route \in Routes /\ f.target \in Targets /\ f.res \in Outcomes
  BY DEF Took, Found
<1>3. PICK w \in Left(x) : w.route = f.route /\ w.target = f.target
  BY <1>1, <1>2 DEF InSecond, Took
<1>4. w \in x.results /\ w.try = 1 /\ ~Usable(w) /\ w.res.retry
  BY <1>3 DEF Left
<1>5. old = w
  BY <1>1, <1>3, <1>4 DEF Rows1
<1> HIDE DEF old
<1>6. w \in RowSet /\ ~w.first
  BY <1>1, <1>4 DEF JobSet, Rows1
<1>7. /\ new \in RowSet /\ new.route = f.route /\ new.target = f.target /\ new.res = f.res /\ new.try = 2
      /\ ~new.first /\ (Usable(new) <=> Usable(f))
  BY <1>2, <1>3, <1>5, <1>6 DEF RowSet, Usable
<1> HIDE DEF new
<1>8. rec \in Nat /\ x.retried \in Nat /\ x.recovered \in Nat /\ x.retry \in Nat /\ x.done \in Nat
  BY <1>1 DEF JobSet
<1>9. /\ z \in JobSet /\ z.results = (x.results \ {w}) \cup {new} /\ z.done = x.done
      /\ z.status = x.status /\ z.phase = x.phase /\ z.routes = x.routes /\ z.targets = x.targets
      /\ z.retry = x.retry /\ z.retried = x.retried + 1 /\ x.status = "running"
  <2>1. (x.results \ {old}) \cup {new} \in SUBSET RowSet
    BY <1>1, <1>7 DEF JobSet
  <2>2. z = [x EXCEPT !.results = (x.results \ {old}) \cup {new}, !.retried = x.retried + 1, !.recovered = rec]
    BY <1>1 DEF JobSet
  <2>3. x.status = "running"
    BY <1>1 DEF Placed, Places
  <2>4. x.retried + 1 \in Nat
    BY <1>8
  <2> HIDE DEF z, rec
  <2>5. z \in JobSet
    BY <1>1, <1>8, <2>1, <2>2, <2>4 DEF JobSet
  <2>6. /\ z.results = (x.results \ {old}) \cup {new} /\ z.done = x.done
        /\ z.status = x.status /\ z.phase = x.phase /\ z.routes = x.routes /\ z.targets = x.targets
        /\ z.retry = x.retry /\ z.retried = x.retried + 1
    BY <1>1, <2>2 DEF JobSet
  <2> QED BY <1>5, <2>3, <2>5, <2>6
<1>9a. z.recovered = IF Usable(f) THEN x.recovered + 1 ELSE x.recovered
  BY <1>1, <1>4, <1>5 DEF JobSet
<1> HIDE DEF z, rec
<1>10. new \notin x.results
  BY <1>1, <1>3, <1>4, <1>7 DEF Rows1
<1>11. Twice(z) = Twice(x) \cup {new} /\ new \notin Twice(x)
  BY <1>4, <1>7, <1>9, <1>10 DEF Twice
<1>12. Rescued(z) = IF Usable(f) THEN Rescued(x) \cup {new} ELSE Rescued(x)
  <2>1. \A y : y \in Rescued(z) <=> y \in Rescued(x) \/ (y = new /\ Usable(f))
    BY <1>4, <1>7, <1>9, <1>10 DEF Rescued
  <2> QED BY <2>1
<1>13. new \notin Rescued(x)
  BY <1>10 DEF Rescued
<1>14. Left(z) = Left(x) \ {w}
  BY <1>4, <1>7, <1>9 DEF Left
<1>15. IsFiniteSet(x.results) /\ IsFiniteSet(Twice(x)) /\ IsFiniteSet(Rescued(x)) /\ IsFiniteSet(Left(x))
  <2>1. Twice(x) \subseteq x.results /\ Rescued(x) \subseteq x.results /\ Left(x) \subseteq x.results
    BY DEF Twice, Rescued, Left
  <2>2. IsFiniteSet(x.results)
    BY <1>1 DEF Counts
  <2> QED BY <2>1, <2>2, FS_Subset
<1>16. Cardinality(Left(x)) \in Nat /\ Cardinality(Left(x)) >= 1 /\ Cardinality(Left(z)) = Cardinality(Left(x)) - 1
  <2>1. Cardinality(Left(x)) \in Nat /\ Cardinality(Left(x)) # 0
    BY <1>3, <1>15, FS_CardinalityType, FS_EmptySet
  <2>2. Cardinality(Left(z)) = Cardinality(Left(x)) - 1
    BY <1>3, <1>14, <1>15, FS_RemoveElement
  <2> QED BY <2>1, <2>2
<1>17. x.retry = Cardinality(Twice(x)) + Cardinality(Left(x)) /\ x.retried = Cardinality(Twice(x))
  BY <1>1 DEF Stages, Counts
<1>18. Cardinality(Twice(z)) = Cardinality(Twice(x)) + 1 /\ Cardinality(Twice(x)) \in Nat
  BY <1>11, <1>15, OneMore
<1>19. Counts(z)
  <2>1. IsFiniteSet(z.results) /\ Cardinality(z.results) = Cardinality(x.results)
    <3>1. IsFiniteSet(x.results \ {w}) /\ Cardinality(x.results \ {w}) = Cardinality(x.results) - 1
      BY <1>4, <1>15, FS_RemoveElement
    <3>2. IsFiniteSet(z.results) /\ Cardinality(z.results) = Cardinality(x.results \ {w}) + 1
      <4>1. new \notin x.results \ {w}
        BY <1>10
      <4> HIDE DEF new
      <4>2. IsFiniteSet((x.results \ {w}) \cup {new})
            /\ Cardinality((x.results \ {w}) \cup {new}) = Cardinality(x.results \ {w}) + 1
        BY <3>1, <4>1, OneMore
      <4> QED BY <1>9, <4>2
    <3>3. Cardinality(x.results) \in Nat
      BY <1>15, FS_CardinalityType
    <3> QED BY <3>1, <3>2, <3>3
  <2>2. z.recovered = Cardinality(Rescued(z))
    <3>1. x.recovered = Cardinality(Rescued(x))
      BY <1>1 DEF Counts
    <3> QED BY <1>9a, <1>12, <1>13, <1>15, <3>1, OneMore
  <2>3. z.retried = Cardinality(Twice(z)) /\ z.retried <= z.retry
    BY <1>8, <1>9, <1>16, <1>17, <1>18
  <2> QED BY <1>1, <1>9, <2>1, <2>2, <2>3 DEF Counts
<1>20. \A r, t : HasIn(z, r, t) <=> HasIn(x, r, t)
  BY <1>3, <1>4, <1>7, <1>9 DEF HasIn
<1>21. Rows1(z)
  BY <1>1, <1>3, <1>4, <1>7, <1>9 DEF Rows1
<1>22. Placed(z, q, "second")
  <2>1. z # NoJob /\ z.status # "none"
    BY <1>9 DEF NoJob
  <2> QED BY <1>9, <2>1 DEF Placed, Took, Places
<1>23. InSecond(z, q, gone)
  <2>1. ASSUME NEW r \in Routes, NEW t \in Targets, Coming(q, r, t)
        PROVE  \E y \in Left(z) : y.route = r /\ y.target = t
    <3>1. Coming(p, r, t) /\ ~(r = f.route /\ t = f.target)
      BY <2>1 DEF Took
    <3>2. PICK y \in Left(x) : y.route = r /\ y.target = t
      BY <1>1, <3>1 DEF InSecond
    <3> QED BY <1>3, <1>14, <3>1, <3>2
  <2>2. ASSUME ~gone, NEW y \in Left(z) PROVE Coming(q, y.route, y.target)
    <3>1. y \in Left(x) /\ y \in x.results /\ y # w
      BY <1>14 DEF Left
    <3>2. y.route \in Routes /\ y.target \in Targets /\ Coming(p, y.route, y.target)
      BY <1>1, <2>2, <3>1 DEF InSecond, JobSet, RowSet
    <3>3. ~(y.route = f.route /\ y.target = f.target)
      BY <1>1, <1>3, <1>4, <3>1 DEF Rows1
    <3> QED BY <3>2, <3>3 DEF Took
  <2> QED BY <2>1, <2>2 DEF InSecond
<1>24. \A y \in z.results \cup q.out : y.res.cut => gone
  BY <1>1, <1>7, <1>9 DEF Stages, Took
<1>25. \A r \in DOMAIN z.routes, t \in z.targets : HasIn(z, r, t)
  BY <1>1, <1>9, <1>20 DEF Stages
<1>26. z.retry = Cardinality(Twice(z)) + Cardinality(Left(z))
  BY <1>8, <1>9, <1>16, <1>17, <1>18
<1>27. Stages(z, q, "second", gone)
  BY <1>9, <1>23, <1>24, <1>25, <1>26 DEF Stages
<1> QED BY <1>9, <1>19, <1>21, <1>22, <1>27 DEF Sound, z, new, old

\* The same results under another status, phase or place.
Alike(x, z) ==
    /\ x \in JobSet /\ z \in JobSet
    /\ z.results = x.results /\ z.routes = x.routes /\ z.targets = x.targets
    /\ z.done = x.done /\ z.retry = x.retry /\ z.retried = x.retried /\ z.recovered = x.recovered

\* What does not depend on the place.
LEMMA AlikeSound ==
    ASSUME NEW x, NEW z, Alike(x, z), Rows1(x), Counts(x)
    PROVE  /\ Rows1(z) /\ Counts(z)
           /\ Twice(z) = Twice(x) /\ Left(z) = Left(x)
           /\ \A r, t : HasIn(z, r, t) <=> HasIn(x, r, t)
           /\ Honest(x) <=> Honest(z)
<1>1. z.results = x.results /\ z.routes = x.routes /\ z.targets = x.targets
  BY DEF Alike
<1> QED BY <1>1, SameResults DEF Alike, Counts, Honest

\* A job gets another status, another phase or the mark that its run was not
\* saved.
LEMMA FinishRecord ==
    ASSUME NEW x \in JobSet, NEW s \in Terminal
    PROVE  LET z == [x EXCEPT !.status = s, !.phase = s]
           IN  z \in JobSet /\ Alike(x, z) /\ z.status = s
<1> DEFINE z == [x EXCEPT !.status = s, !.phase = s]
<1>1. s \in Phases
  BY DEF Phases
<1>2. z \in JobSet
  BY <1>1 DEF JobSet
<1>3. /\ z.results = x.results /\ z.routes = x.routes /\ z.targets = x.targets
      /\ z.done = x.done /\ z.retry = x.retry /\ z.retried = x.retried /\ z.recovered = x.recovered
      /\ z.status = s
  BY DEF JobSet
<1> HIDE DEF z
<1> QED BY <1>2, <1>3 DEF Alike, z

\* The same for the functions of the jobs.
Finished(j, s) ==
    job' \in [Jobs -> JobSet] /\ job' = [job EXCEPT ![j] = job'[j]] /\ Alike(job[j], job'[j]) /\ job'[j].status = s

LEMMA FinishAlike ==
    ASSUME job \in [Jobs -> JobSet], NEW j \in Jobs, NEW s \in Terminal, Finish(j, s)
    PROVE  Finished(j, s)
<1> DEFINE z == [job[j] EXCEPT !.status = s, !.phase = s]
<1>1. job' = [job EXCEPT ![j] = z]
  BY DEF Finish
<1>2. z \in JobSet /\ Alike(job[j], z) /\ z.status = s
  BY FinishRecord
<1> HIDE DEF z
<1>3. job'[j] = z
  BY <1>1
<1> QED BY <1>1, <1>2, <1>3 DEF Finished

LEMMA PhaseAlike ==
    ASSUME NEW f \in [Jobs -> JobSet], NEW j \in Jobs, NEW s \in Phases
    PROVE  LET g == [f EXCEPT ![j].phase = s]
           IN  g \in [Jobs -> JobSet] /\ g = [f EXCEPT ![j] = g[j]] /\ Alike(f[j], g[j]) /\ g[j].status = f[j].status
<1>2. f[j] \in JobSet
  OBVIOUS
<1> DEFINE z == [f[j] EXCEPT !.phase = s]
           g == [f EXCEPT ![j].phase = s]
<1>3. z \in JobSet
  BY <1>2 DEF JobSet
<1>4. /\ z.results = f[j].results /\ z.routes = f[j].routes /\ z.targets = f[j].targets
      /\ z.done = f[j].done /\ z.retry = f[j].retry /\ z.retried = f[j].retried /\ z.recovered = f[j].recovered
      /\ z.status = f[j].status
  BY <1>2 DEF JobSet
<1>5. g = [f EXCEPT ![j] = z]
  OBVIOUS
<1> HIDE DEF z, g
<1>6. g[j] = z /\ g \in [Jobs -> JobSet]
  BY <1>3, <1>5
<1> QED BY <1>2, <1>3, <1>4, <1>5, <1>6 DEF Alike, g

LEMMA LostAlike ==
    ASSUME NEW f \in [Jobs -> JobSet], NEW j \in Jobs
    PROVE  LET g == [f EXCEPT ![j].lost = TRUE]
           IN  g \in [Jobs -> JobSet] /\ g = [f EXCEPT ![j] = g[j]] /\ Alike(f[j], g[j])
               /\ g[j].status = f[j].status /\ g[j].phase = f[j].phase
<1>2. f[j] \in JobSet
  OBVIOUS
<1> DEFINE z == [f[j] EXCEPT !.lost = TRUE]
           g == [f EXCEPT ![j].lost = TRUE]
<1>3. z \in JobSet
  BY <1>2 DEF JobSet
<1>4. /\ z.results = f[j].results /\ z.routes = f[j].routes /\ z.targets = f[j].targets
      /\ z.done = f[j].done /\ z.retry = f[j].retry /\ z.retried = f[j].retried /\ z.recovered = f[j].recovered
      /\ z.status = f[j].status /\ z.phase = f[j].phase
  BY <1>2 DEF JobSet
<1>5. g = [f EXCEPT ![j] = z]
  OBVIOUS
<1> HIDE DEF z, g
<1>6. g[j] = z /\ g \in [Jobs -> JobSet]
  BY <1>3, <1>5
<1> QED BY <1>2, <1>3, <1>4, <1>5, <1>6 DEF Alike, g

\* A job that has its last status, but for that of success, has nothing left
\* to keep.
LEMMA EndedSound ==
    ASSUME NEW x, NEW z, NEW p, NEW q, NEW gone, NEW here, NEW there \in {"ended", "over"},
           Sound(x, p, here, gone), Alike(x, z), z.status \in {"canceled", "failed"}, ~q.on
    PROVE  Sound(z, q, there, gone)
<1>1. Rows1(z) /\ Counts(z) /\ z \in JobSet
  BY AlikeSound DEF Sound, Alike
<1>2. Placed(z, q, there)
  BY DEF Placed, Places, Terminal, NoJob
<1>3. Stages(z, q, there, gone)
  BY DEF Stages
<1> QED BY <1>1, <1>2, <1>3 DEF Sound

\* A context that is canceled meanwhile takes nothing from what is known.
LEMMA GoneSound ==
    ASSUME NEW x, NEW p, NEW here, NEW o, Sound(x, p, here, o \in canceled), o \in canceled => o \in canceled'
    PROVE  Sound(x, p, here, o \in canceled')
<1>1. Stages(x, p, here, o \in canceled')
  BY DEF Sound, Stages, InFirst, InSecond
<1> QED BY <1>1 DEF Sound

\* A job that has only begun.
LEMMA BegunSound ==
    ASSUME NEW tags \in SUBSET AnyTags, NEW targets \in SUBSET Targets, NEW routes \in RouteMaps, NEW gone, NEW p, ~p.on
    PROVE  Sound([NoJob EXCEPT !.status = "running", !.phase = "first_pass", !.tags = tags, !.targets = targets,
                               !.routes = routes], p, "starting", gone)
<1> DEFINE z == [NoJob EXCEPT !.status = "running", !.phase = "first_pass", !.tags = tags, !.targets = targets,
                              !.routes = routes]
<1>1. z = [status |-> "running", phase |-> "first_pass", tags |-> tags, targets |-> targets, routes |-> routes,
           results |-> {}, done |-> 0, retry |-> 0, retried |-> 0, recovered |-> 0, lost |-> FALSE]
  <2>1. NoJob = [status |-> "none", phase |-> "none", tags |-> {}, targets |-> {}, routes |-> <<>>, results |-> {},
                 done |-> 0, retry |-> 0, retried |-> 0, recovered |-> 0, lost |-> FALSE]
    BY DEF NoJob
  <2>2. z = [NoJob EXCEPT !.status = "running", !.phase = "first_pass", !.tags = tags, !.targets = targets,
                          !.routes = routes]
    OBVIOUS
  <2> HIDE DEF z
  <2> QED BY ONLY <2>1, <2>2
<1>2. z \in JobSet
  <2> HIDE DEF z
  <2>1. "first_pass" \in Phases
    BY DEF Phases
  <2> QED BY <1>1, <2>1 DEF JobSet
<1>3. z.status = "running" /\ z.results = {} /\ z.done = 0 /\ z.retry = 0 /\ z.retried = 0 /\ z.recovered = 0
  BY <1>1
<1> HIDE DEF z
<1>4. Rows1(z)
  BY <1>3 DEF Rows1
<1>5. Counts(z)
  <2>1. Twice(z) = {} /\ Rescued(z) = {}
    BY <1>3 DEF Twice, Rescued
  <2> QED BY <1>3, <2>1, FS_EmptySet DEF Counts
<1>6. Placed(z, p, "starting")
  BY <1>3 DEF Placed, Places
<1>7. Stages(z, p, "starting", gone)
  BY <1>3 DEF Stages
<1> QED BY <1>2, <1>4, <1>5, <1>6, <1>7 DEF Sound, z

\* No job is sound wherever it may be.
LEMMA NoJobSound ==
    ASSUME NEW p, NEW gone, NEW here \in {"none", "over"}, ~p.on
    PROVE  Sound(NoJob, p, here, gone)
<1>1. NoJob \in JobSet
  <2>1. <<>> \in [{} -> SUBSET UNION {TagsOf[n] : n \in Nodes}]
    OBVIOUS
  <2>2. <<>> \in RouteMaps
    BY <2>1 DEF RouteMaps
  <2> QED BY <2>2 DEF NoJob, JobSet, Phases
<1>2. NoJob.status = "none" /\ NoJob.results = {} /\ NoJob.done = 0 /\ NoJob.retry = 0 /\ NoJob.retried = 0
      /\ NoJob.recovered = 0
  BY DEF NoJob
<1>3. Rows1(NoJob)
  BY <1>2 DEF Rows1
<1>4. Counts(NoJob)
  <2>1. Twice(NoJob) = {} /\ Rescued(NoJob) = {}
    BY <1>2 DEF Twice, Rescued
  <2> QED BY <1>2, <2>1, FS_EmptySet DEF Counts
<1>5. Placed(NoJob, p, here)
  BY <1>2 DEF Placed, Places
<1>6. Stages(NoJob, p, here, gone)
  BY <1>2 DEF Stages
<1> QED BY <1>1, <1>3, <1>4, <1>5, <1>6 DEF Sound

\* The first pass begins.
LEMMA FirstPassSound ==
    ASSUME NEW x, NEW p, NEW gone, Sound(x, p, "starting", gone), NEW wish,
           wish = [r \in Routes |-> IF r \in DOMAIN x.routes THEN x.targets ELSE {}]
    PROVE  DOMAIN x.routes \in SUBSET Routes /\ wish \in [Routes -> SUBSET Targets]
           /\ Sound(x, Opened(DOMAIN x.routes, wish), "first", gone)
<1> DEFINE q == Opened(DOMAIN x.routes, wish)
<1>1. DOMAIN x.routes \in SUBSET Routes /\ x.targets \in SUBSET Targets
  BY DEF Sound, JobSet, RouteMaps
<1>2. wish \in [Routes -> SUBSET Targets]
  BY <1>1
<1>3. q.on /\ q.out = {} /\ \A r \in Routes, t \in Targets : Coming(q, r, t) <=> r \in DOMAIN x.routes /\ t \in wish[r]
  <2> DEFINE R == DOMAIN x.routes
  <2>1. R \in SUBSET Routes
    BY <1>1
  <2> HIDE DEF R
  <2>2. LET o == Opened(R, wish)
        IN  o.on /\ o.out = {} /\ \A r \in Routes, t \in Targets : Coming(o, r, t) <=> r \in R /\ t \in wish[r]
    BY <1>2, <2>1, OpenedTidy
  <2> QED BY <2>2 DEF R
<1> HIDE DEF q
<1>4. x.results = {} /\ x.retry = 0 /\ x.status = "running"
  BY DEF Sound, Placed, Places
<1>5. InFirst(x, q, gone)
  BY <1>1, <1>2, <1>3, <1>4 DEF InFirst, HasIn
<1>6. Placed(x, q, "first")
  BY <1>3, <1>4 DEF Sound, Placed, Places
<1>7. Stages(x, q, "first", gone)
  BY <1>3, <1>4, <1>5 DEF Stages
<1> QED BY <1>1, <1>2, <1>6, <1>7 DEF Sound, q

\* It ends, with or without something to try again.
LEMMA FirstOverSound ==
    ASSUME NEW x, NEW p, NEW gone, Sound(x, p, "first", gone), ~gone,
           p.out = {}, \A r \in Routes, t \in Targets : ~Coming(p, r, t),
           NEW ph \in Phases,
           NEW here, here = IF Left(x) = {} THEN "passed" ELSE "waiting"
    PROVE  Sound([x EXCEPT !.retry = Cardinality(Left(x)), !.phase = ph], NoPass, here, gone)
<1> DEFINE n == Cardinality(Left(x))
           z == [x EXCEPT !.retry = n, !.phase = ph]
<1>1. x \in JobSet /\ Rows1(x) /\ Counts(x) /\ Placed(x, p, "first") /\ Stages(x, p, "first", gone) /\ InFirst(x, p, gone)
  BY DEF Sound, Stages
<1>2. n \in Nat
  <2>1. Left(x) \subseteq x.results /\ IsFiniteSet(x.results)
    BY <1>1 DEF Left, Counts
  <2> QED BY <2>1, FS_Subset, FS_CardinalityType
<1> HIDE DEF n
<1>3. z \in JobSet
  BY <1>1, <1>2 DEF JobSet
<1>4. /\ z.results = x.results /\ z.routes = x.routes /\ z.targets = x.targets /\ z.status = x.status
      /\ z.done = x.done /\ z.retry = n /\ z.retried = x.retried /\ z.recovered = x.recovered
  BY <1>1 DEF JobSet
<1> HIDE DEF z
<1>5. Rows1(z) /\ Twice(z) = Twice(x) /\ Rescued(z) = Rescued(x) /\ Left(z) = Left(x)
      /\ \A r, t : HasIn(z, r, t) <=> HasIn(x, r, t)
  BY <1>1, <1>4 DEF Rows1, Twice, Rescued, Left, HasIn
<1>6. Twice(x) = {} /\ Cardinality(Twice(x)) = 0
  <2>1. Twice(x) = {}
    BY <1>1 DEF InFirst, Twice
  <2> QED BY <2>1, FS_EmptySet
<1>7. Counts(z)
  BY <1>1, <1>2, <1>4, <1>5, <1>6 DEF Counts
<1>8. x.status = "running" /\ z # NoJob
  BY <1>1, <1>4 DEF Placed, Places, NoJob
<1>9. ~NoPass.on
  BY DEF NoPass
<1>10. Placed(z, NoPass, here)
  BY <1>4, <1>8, <1>9 DEF Placed, Places
<1>11. \A r \in DOMAIN z.routes, t \in z.targets : HasIn(z, r, t)
  <2>1. DOMAIN x.routes \in SUBSET Routes /\ x.targets \in SUBSET Targets
    BY <1>1 DEF JobSet, RouteMaps
  <2> QED BY <1>1, <1>4, <1>5, <2>1 DEF InFirst
<1>12. \A y \in z.results : y.try = 1 /\ ~y.res.cut
  BY <1>1, <1>4 DEF InFirst, Stages
<1>13. z.retry = Cardinality(Twice(z)) + Cardinality(Left(z))
  BY <1>2, <1>4, <1>5, <1>6 DEF n
<1>14. NoPass.out = {}
  BY DEF NoPass
<1>15. Stages(z, NoPass, here, gone)
  BY <1>4, <1>5, <1>8, <1>11, <1>12, <1>13, <1>14 DEF Stages
<1> QED BY <1>3, <1>5, <1>7, <1>10, <1>15 DEF Sound, z, n

\* The second pass begins.
LEMMA SecondPassSound ==
    ASSUME NEW x, NEW p, NEW gone, Sound(x, p, "waiting", gone), NEW z, Alike(x, z), z.status = x.status,
           NEW again, again = {y \in x.results : ~Usable(y) /\ y.res.retry},
           NEW wish, wish = [r \in Routes |-> {y.target : y \in {w \in again : w.route = r}}]
    PROVE  DOMAIN x.routes \in SUBSET Routes /\ wish \in [Routes -> SUBSET Targets]
           /\ Sound(z, Opened(DOMAIN x.routes, wish), "second", gone)
<1> DEFINE R == DOMAIN x.routes
           q == Opened(R, wish)
<1>1. x \in JobSet /\ z \in JobSet /\ Rows1(x) /\ Counts(x) /\ Placed(x, p, "waiting") /\ Stages(x, p, "waiting", gone)
  BY DEF Sound, Alike
<1>2. R \in SUBSET Routes /\ x.targets \in SUBSET Targets /\ x.results \in SUBSET RowSet
  BY <1>1 DEF JobSet, RouteMaps
<1>3. Rows1(z) /\ Counts(z) /\ Twice(z) = Twice(x) /\ Left(z) = Left(x)
      /\ \A r, t : HasIn(z, r, t) <=> HasIn(x, r, t)
  BY <1>1, AlikeSound
<1>4. z.results = x.results /\ z.routes = x.routes /\ z.targets = x.targets /\ z.retry = x.retry
      /\ z.status = "running" /\ x.status = "running"
  BY <1>1 DEF Alike, Placed, Places
<1>5. again = Left(x)
  BY <1>1 DEF Left, Stages
<1>6. wish \in [Routes -> SUBSET Targets]
  <2>1. ASSUME NEW r \in Routes PROVE {y.target : y \in {w \in again : w.route = r}} \subseteq Targets
    BY <1>2 DEF RowSet
  <2> QED BY <2>1
<1> HIDE DEF R
<1>7. q.on /\ q.out = {} /\ \A r \in Routes, t \in Targets : Coming(q, r, t) <=> r \in R /\ t \in wish[r]
  <2>1. LET o == Opened(R, wish)
        IN  o.on /\ o.out = {} /\ \A r \in Routes, t \in Targets : Coming(o, r, t) <=> r \in R /\ t \in wish[r]
    BY ONLY <1>2, <1>6, OpenedTidy
  <2> QED BY <2>1
<1> HIDE DEF q
<1>8. InSecond(z, q, gone)
  <2>1. ASSUME NEW r \in Routes, NEW t \in Targets, Coming(q, r, t) PROVE \E y \in Left(z) : y.route = r /\ y.target = t
    BY <1>3, <1>5, <1>7, <2>1
  <2>2. ASSUME NEW y \in Left(z) PROVE Coming(q, y.route, y.target)
    <3>1. y \in again /\ y \in x.results
      BY <1>3, <1>5 DEF Left
    <3>2. y.route \in R /\ y.route \in Routes /\ y.target \in Targets
      BY <1>1, <1>2, <3>1 DEF Rows1, R, RowSet
    <3>3. y.target \in wish[y.route]
      BY <3>1, <3>2
    <3> QED BY <1>7, <3>2, <3>3
  <2> QED BY <2>1, <2>2 DEF InSecond
<1>9. Placed(z, q, "second")
  BY <1>4, <1>7 DEF Placed, Places, NoJob
<1>10. \A r \in DOMAIN z.routes, t \in z.targets : HasIn(z, r, t)
  BY <1>1, <1>3, <1>4 DEF Stages
<1>11. z.retry = Cardinality(Twice(z)) + Cardinality(Left(z))
  BY <1>1, <1>3, <1>4 DEF Stages
<1>12. \A y \in z.results : ~y.res.cut
  BY <1>1, <1>4 DEF Stages
<1>13. Stages(z, q, "second", gone)
  BY <1>4, <1>7, <1>8, <1>10, <1>11, <1>12 DEF Stages
<1> QED BY <1>1, <1>2, <1>3, <1>6, <1>9, <1>13 DEF Sound, q, R

\* It ends.
LEMMA SecondOverSound ==
    ASSUME NEW x, NEW p, NEW gone, Sound(x, p, "second", gone), \A r \in Routes, t \in Targets : ~Coming(p, r, t)
    PROVE  Sound(x, NoPass, "passed", gone)
<1>1. x \in JobSet /\ Rows1(x) /\ Counts(x) /\ Placed(x, p, "second") /\ Stages(x, p, "second", gone) /\ InSecond(x, p, gone)
  BY DEF Sound, Stages
<1>2. ~NoPass.on /\ NoPass.out = {}
  BY DEF NoPass
<1>3. ~gone => Left(x) = {}
  <2>1. SUFFICES ASSUME ~gone, NEW y \in Left(x) PROVE FALSE
    OBVIOUS
  <2>2. y.route \in Routes /\ y.target \in Targets
    BY <1>1, <2>1 DEF Left, JobSet, RowSet
  <2> QED BY <1>1, <2>1, <2>2 DEF InSecond
<1>4. Placed(x, NoPass, "passed")
  BY <1>1, <1>2 DEF Placed, Places
<1>5. Stages(x, NoPass, "passed", gone)
  BY <1>1, <1>2, <1>3 DEF Stages
<1> QED BY <1>1, <1>4, <1>5 DEF Sound

\* From the last look at the context on a job only gets other marks.
LEMMA LaterSound ==
    ASSUME NEW x, NEW z, NEW p, NEW gone, NEW here, NEW there, Sound(x, p, here, gone), Alike(x, z),
           \/ here = "passed" /\ ~gone /\ there = "saving" /\ z.status = x.status
           \/ here = "saving" /\ there = "storing" /\ z.status = x.status
           \/ here = "storing" /\ there = "saved" /\ z.status = x.status
           \/ here = "saved" /\ there = "ended" /\ z.status = "finished"
           \/ here = "ended" /\ there = "over" /\ z.status = x.status
           \/ here = there /\ z.status = x.status /\ x.status # "none"
    PROVE  Sound(z, p, there, gone)
<1>1. x \in JobSet /\ z \in JobSet /\ Rows1(x) /\ Counts(x) /\ Placed(x, p, here) /\ Stages(x, p, here, gone)
  BY DEF Sound, Alike
<1>2. Rows1(z) /\ Counts(z) /\ Twice(z) = Twice(x) /\ Left(z) = Left(x)
      /\ (\A r, t : HasIn(z, r, t) <=> HasIn(x, r, t)) /\ (Honest(x) <=> Honest(z))
  BY <1>1, AlikeSound
<1>3. z.results = x.results /\ z.routes = x.routes /\ z.targets = x.targets /\ z.retry = x.retry
  BY DEF Alike
<1>4. here # "none" /\ x.status # "none" /\ z.status # "none"
  BY <1>1 DEF Placed, Places, NoJob, Terminal
<1>5. z # NoJob
  BY <1>4 DEF NoJob
<1>6. Placed(z, p, there)
  BY <1>1, <1>3, <1>4, <1>5 DEF Placed, Places, Terminal
<1>7. CASE here = there
  <2>1. here = "first" => InFirst(z, p, gone)
    BY <1>1, <1>2, <1>3 DEF Stages, InFirst
  <2>2. here = "second" => InSecond(z, p, gone)
    BY <1>1, <1>2, <1>3 DEF Stages, InSecond
  <2>3. z.status = x.status
    BY <1>7
  <2> QED BY <1>1, <1>2, <1>3, <1>6, <1>7, <2>1, <2>2, <2>3 DEF Sound, Stages
<1>8. CASE here # there
  <2>1. there # "over" \/ z.status = "finished" => \A r \in DOMAIN z.routes, t \in z.targets : HasIn(z, r, t)
    BY <1>1, <1>2, <1>3, <1>8 DEF Stages
  <2>2. there # "over" \/ z.status = "finished" => Honest(z)
    BY <1>1, <1>2, <1>3, <1>8 DEF Stages, Honest
  <2> QED BY <1>1, <1>2, <1>3, <1>6, <1>8, <2>1, <2>2 DEF Sound, Stages
<1> QED BY <1>7, <1>8

-----------------------------------------------------------------------------
(* The steps of jobs.                                                      *)

\* What is published: how a job stands.
Standings == ({"none", "running"} \cup Terminal) \X Phases
Posts == {Nothing, Wanted} \cup Standings

\* Types, and the jobs sound.
JobsTypes ==
    /\ menu \in Menus /\ job \in [Jobs -> JobSet] /\ at \in [Jobs -> Places]
    /\ post \in [Jobs \cup {Canceler} -> Posts]
    /\ cancel \in [job : Jobs \cup {Unknown}, pc : {"idle", "call", "mark", "publish"}]
    /\ registered \subseteq Jobs /\ asked \subseteq Jobs /\ eligible \subseteq Nodes
    /\ stamp \in [Jobs -> Nat] /\ closing \in BOOLEAN
JobsSound == \A j \in Jobs : Sound(job[j], pass[j], at[j], j \in canceled)

\* A cancel under way is of a job that users wanted to cancel and that is
\* still there.
Cancels ==
    /\ cancel.pc = "idle" => cancel = NoCancel
    /\ cancel.pc # "idle" => cancel.job \in asked /\ job[cancel.job].status # "none"
    /\ ~Quiet(Canceler) => cancel.pc = "publish"

\* What a step of its goroutine, its start or its expiry does to a job.
JobMoves(j) ==
    /\ Passes' /\ canceled' = canceled
    /\ job' \in [Jobs -> JobSet] /\ job' = [job EXCEPT ![j] = job'[j]]
    /\ at' \in [Jobs -> Places] /\ at' = [at EXCEPT ![j] = at'[j]]
    /\ pass' = [pass EXCEPT ![j] = pass'[j]]
    /\ Sound(job'[j], pass'[j], at'[j], j \in canceled)

\* What is known before each.
JobsKnown == Passes /\ JobsTypes /\ JobsSound

\* The nodes that are chosen have routes.
LEMMA RoutesOfType ==
    ASSUME NEW tags, eligible \subseteq Nodes
    PROVE  RoutesOf(tags) \in RouteMaps
<1> DEFINE R == {PrintOf[n] : n \in ChosenNodes(tags)}
           T == UNION {TagsOf[n] : n \in Nodes}
<1>1. ChosenNodes(tags) \subseteq Nodes
  BY DEF ChosenNodes
<1>2. R \subseteq Routes
  BY <1>1, JobsAssumption
<1>3. \A r \in R : UNION {TagsOf[n] : n \in {m \in ChosenNodes(tags) : PrintOf[m] = r}} \in SUBSET T
  BY <1>1
<1>4. RoutesOf(tags) \in [R -> SUBSET T]
  BY <1>3 DEF RoutesOf
<1> HIDE DEF R
<1> QED BY <1>2, <1>4 DEF RouteMaps

\* A job starts.
LEMMA StartMoves ==
    ASSUME JobsKnown, NEW j \in Jobs, StartConnectivityJob(j)
    PROVE  JobMoves(j)
<1>1. PICK q \in menu.requests :
          job' = [job EXCEPT ![j] = [NoJob EXCEPT !.status = "running", !.phase = "first_pass", !.tags = q.tags,
                                                  !.targets = q.targets, !.routes = RoutesOf(q.tags)]]
  BY DEF StartConnectivityJob
<1>2. at[j] = "none" /\ at' = [at EXCEPT ![j] = "starting"] /\ pass' = pass /\ canceled' = canceled
  BY DEF StartConnectivityJob, Step
<1>3. j \in Owners /\ menu \in Menus /\ job \in [Jobs -> JobSet] /\ at \in [Jobs -> Places]
  BY JobsAssumption DEF JobsKnown, JobsTypes
<1>4. q.tags \in SUBSET AnyTags /\ q.targets \in SUBSET Targets
  BY <1>3, OwnersAssumption DEF AnyTags
<1>5. RoutesOf(q.tags) \in RouteMaps
  BY RoutesOfType DEF JobsKnown, JobsTypes
<1>6. ~pass[j].on
  BY <1>2 DEF JobsKnown, JobsSound, Sound, Placed
<1>7. Sound(job'[j], pass[j], "starting", j \in canceled)
  BY <1>1, <1>3, <1>4, <1>5, <1>6, BegunSound
<1>8. job' \in [Jobs -> JobSet] /\ job' = [job EXCEPT ![j] = job'[j]]
  BY <1>1, <1>3, <1>7 DEF Sound
<1>9. Passes'
  BY <1>2 DEF JobsKnown, Passes, Taken
<1>10. /\ at' \in [Jobs -> Places] /\ at' = [at EXCEPT ![j] = at'[j]] /\ at'[j] = "starting"
       /\ pass' = [pass EXCEPT ![j] = pass'[j]]
  BY <1>2, <1>3 DEF Places, JobsKnown, Passes
<1> QED BY <1>2, <1>7, <1>8, <1>9, <1>10 DEF JobMoves

\* Its goroutine is launched, or not any more.
LEMMA LaunchMoves ==
    ASSUME JobsKnown, NEW j \in Jobs, Launch(j)
    PROVE  JobMoves(j)
<1>1. j \in Owners /\ job \in [Jobs -> JobSet] /\ at \in [Jobs -> Places] /\ pass \in [Owners -> PassSet]
      /\ Sound(job[j], pass[j], at[j], j \in canceled) /\ at[j] = "starting" /\ canceled' = canceled
  BY JobsAssumption DEF JobsKnown, JobsTypes, JobsSound, Passes, Launch
<1>2. ~pass[j].on
  BY <1>1 DEF Sound, Placed
<1>3. CASE closing
  <2>1. Finish(j, "canceled") /\ at' = [at EXCEPT ![j] = "over"] /\ pass' = pass
    BY <1>3 DEF Launch
  <2>2. job' \in [Jobs -> JobSet] /\ job' = [job EXCEPT ![j] = job'[j]] /\ Alike(job[j], job'[j]) /\ job'[j].status = "canceled"
    <3>1. "canceled" \in Terminal
      BY DEF Terminal
    <3> QED BY <1>1, <2>1, <3>1, FinishAlike DEF Finished
  <2>3. Sound(job'[j], pass[j], "over", j \in canceled)
    BY <1>1, <1>2, <2>2, EndedSound
  <2>4. Passes'
    BY <1>1, <2>1 DEF JobsKnown, Passes, Taken
  <2> QED BY <1>1, <2>1, <2>2, <2>3, <2>4 DEF JobMoves, Places
<1>4. CASE ~closing
  <2> DEFINE R == DOMAIN job[j].routes
             wish == [r \in Routes |-> IF r \in DOMAIN job[j].routes THEN job[j].targets ELSE {}]
  <2>1. pass' = [pass EXCEPT ![j] = Opened(R, wish)] /\ at' = [at EXCEPT ![j] = "first"] /\ job' = job
    BY <1>4 DEF Launch
  <2>2. R \in SUBSET Routes /\ wish \in [Routes -> SUBSET Targets]
        /\ Sound(job[j], Opened(R, wish), "first", j \in canceled)
    BY <1>1, FirstPassSound
  <2> HIDE DEF R, wish
  <2>3. Passes'
    BY <1>1, <2>1, <2>2, PassBegins DEF JobsKnown
  <2> QED BY <1>1, <2>1, <2>2, <2>3 DEF JobMoves, Places
<1> QED BY <1>3, <1>4

\* A result of the first pass, and of the second.
LEMMA FirstResultMoves ==
    ASSUME JobsKnown, NEW j \in Jobs, FirstResult(j)
    PROVE  JobMoves(j)
<1>1. j \in Owners /\ job \in [Jobs -> JobSet] /\ at \in [Jobs -> Places] /\ pass \in [Owners -> PassSet]
      /\ Sound(job[j], pass[j], "first", j \in canceled) /\ at[j] = "first" /\ at' = at /\ canceled' = canceled
  BY JobsAssumption DEF JobsKnown, JobsTypes, JobsSound, Passes, FirstResult, Step
<1>2. PICK f \in pass[j].out :
          /\ Receive(j, f)
          /\ job' = [job EXCEPT
                 ![j].results = @ \cup {[route |-> f.route, target |-> f.target, res |-> f.res,
                                         first |-> Usable(f), try |-> 1]},
                 ![j].done = @ + 1]
  BY DEF FirstResult
<1>3. Passes' /\ pass' = [pass EXCEPT ![j] = pass'[j]] /\ Took(pass[j], pass'[j], f)
  BY <1>1, <1>2, ResultTaken DEF JobsKnown, Took
<1>4. Sound(job'[j], pass'[j], "first", j \in canceled)
  BY <1>1, <1>2, <1>3, FirstResultSound
<1>5. job' \in [Jobs -> JobSet] /\ job' = [job EXCEPT ![j] = job'[j]]
  BY <1>1, <1>2, <1>4 DEF Sound
<1> QED BY <1>1, <1>3, <1>4, <1>5 DEF JobMoves

LEMMA SecondResultMoves ==
    ASSUME JobsKnown, NEW j \in Jobs, SecondResult(j)
    PROVE  JobMoves(j)
<1>1. j \in Owners /\ job \in [Jobs -> JobSet] /\ at \in [Jobs -> Places] /\ pass \in [Owners -> PassSet]
      /\ Sound(job[j], pass[j], "second", j \in canceled) /\ at[j] = "second" /\ at' = at /\ canceled' = canceled
  BY JobsAssumption DEF JobsKnown, JobsTypes, JobsSound, Passes, SecondResult, Step
<1>2. PICK f \in pass[j].out :
       LET old == Result(j, f.route, f.target)
       IN  /\ Receive(j, f)
           /\ job' = [job EXCEPT
                 ![j].results = (@ \ {old}) \cup {[old EXCEPT !.res = f.res, !.try = 2]},
                 ![j].retried = @ + 1,
                 ![j].recovered = IF ~Usable(old) /\ Usable(f) THEN @ + 1 ELSE @]
  BY DEF SecondResult
<1>3. Passes' /\ pass' = [pass EXCEPT ![j] = pass'[j]] /\ Took(pass[j], pass'[j], f)
  BY <1>1, <1>2, ResultTaken DEF JobsKnown, Took
<1>4. Sound(job'[j], pass'[j], "second", j \in canceled)
  BY <1>1, <1>2, <1>3, SecondResultSound DEF Result
<1>5. job' \in [Jobs -> JobSet] /\ job' = [job EXCEPT ![j] = job'[j]]
  BY <1>1, <1>2, <1>4 DEF Sound
<1> QED BY <1>1, <1>3, <1>4, <1>5 DEF JobMoves

\* The first pass is over, or canceled.
LEMMA FirstPassOverMoves ==
    ASSUME JobsKnown, NEW j \in Jobs, FirstPassOver(j)
    PROVE  JobMoves(j)
<1>1. j \in Owners /\ job \in [Jobs -> JobSet] /\ at \in [Jobs -> Places] /\ pass \in [Owners -> PassSet]
      /\ Sound(job[j], pass[j], "first", j \in canceled) /\ at[j] = "first" /\ canceled' = canceled
  BY JobsAssumption DEF JobsKnown, JobsTypes, JobsSound, Passes, FirstPassOver
<1>2. Passes' /\ pass' = [pass EXCEPT ![j] = NoPass] /\ pass[j].out = {}
      /\ \A r \in Routes, t \in Targets : ~Coming(pass[j], r, t)
  BY <1>1, PassEnds DEF FirstPassOver, JobsKnown
<1>3. ~NoPass.on
  BY DEF NoPass
<1>4. CASE j \in canceled
  <2>0. "canceled" \in Terminal
    BY DEF Terminal
  <2>1. Finish(j, "canceled") /\ at' = [at EXCEPT ![j] = "ended"]
    BY <1>4 DEF FirstPassOver
  <2>2. job' \in [Jobs -> JobSet] /\ job' = [job EXCEPT ![j] = job'[j]] /\ Alike(job[j], job'[j]) /\ job'[j].status = "canceled"
    BY <1>1, <2>0, <2>1, FinishAlike DEF Finished
  <2>3. Sound(job'[j], NoPass, "ended", j \in canceled)
    BY <1>1, <1>3, <2>2, EndedSound
  <2> QED BY <1>1, <1>2, <2>1, <2>2, <2>3 DEF JobMoves, Places
<1>5. CASE j \notin canceled
  <2> DEFINE ph == IF WorthRetry(j) = {} THEN job[j].phase ELSE "retry_wait"
             there == IF Left(job[j]) = {} THEN "passed" ELSE "waiting"
  <2>1. WorthRetry(j) = Left(job[j])
    BY <1>1 DEF WorthRetry, Left, Sound, Stages, InFirst
  <2>2. job' = [job EXCEPT ![j].retry = Cardinality(Left(job[j])), ![j].phase = ph] /\ at' = [at EXCEPT ![j] = there]
    BY <1>5, <2>1 DEF FirstPassOver
  <2>3. ph \in Phases
    BY <1>1 DEF JobSet, Phases
  <2> HIDE DEF ph
  <2>4. Sound([job[j] EXCEPT !.retry = Cardinality(Left(job[j])), !.phase = ph], NoPass, there, j \in canceled)
    BY <1>1, <1>2, <1>5, <2>3, FirstOverSound
  <2>5. job' = [job EXCEPT ![j] = [job[j] EXCEPT !.retry = Cardinality(Left(job[j])), !.phase = ph]]
    BY <2>2
  <2>6. Sound(job'[j], NoPass, there, j \in canceled) /\ job' = [job EXCEPT ![j] = job'[j]]
    BY <1>1, <2>4, <2>5
  <2>7. job' \in [Jobs -> JobSet]
    BY <1>1, <2>6 DEF Sound
  <2> QED BY <1>1, <1>2, <2>2, <2>6, <2>7 DEF JobMoves, Places
<1> QED BY <1>4, <1>5

\* The pause is over.
LEMMA RetryWaitMoves ==
    ASSUME JobsKnown, NEW j \in Jobs, RetryWait(j)
    PROVE  JobMoves(j)
<1>1. j \in Owners /\ job \in [Jobs -> JobSet] /\ at \in [Jobs -> Places] /\ pass \in [Owners -> PassSet]
      /\ Sound(job[j], pass[j], "waiting", j \in canceled) /\ at[j] = "waiting" /\ canceled' = canceled
  BY JobsAssumption DEF JobsKnown, JobsTypes, JobsSound, Passes, RetryWait
<1>2. ~pass[j].on
  BY <1>1 DEF Sound, Placed
<1>3. CASE Finish(j, "canceled") /\ at' = [at EXCEPT ![j] = "ended"] /\ UNCHANGED pass
  <2>0. "canceled" \in Terminal
    BY DEF Terminal
  <2>1. Finish(j, "canceled") /\ at' = [at EXCEPT ![j] = "ended"] /\ pass' = pass
    BY <1>3
  <2>2. job' \in [Jobs -> JobSet] /\ job' = [job EXCEPT ![j] = job'[j]] /\ Alike(job[j], job'[j]) /\ job'[j].status = "canceled"
    BY <1>1, <2>0, <2>1, FinishAlike DEF Finished
  <2>3. Sound(job'[j], pass[j], "ended", j \in canceled)
    BY <1>1, <1>2, <2>2, EndedSound
  <2>4. Passes'
    BY <1>1, <2>1 DEF JobsKnown, Passes, Taken
  <2> QED BY <1>1, <2>1, <2>2, <2>3, <2>4 DEF JobMoves, Places
<1>4. CASE /\ job' = [job EXCEPT ![j].phase = "retry"]
           /\ at' = [at EXCEPT ![j] = "second"]
           /\ pass' = [pass EXCEPT ![j] = Opened(DOMAIN job[j].routes,
                         [r \in Routes |-> {x.target : x \in {y \in WorthRetry(j) : y.route = r}}])]
  <2> DEFINE R == DOMAIN job[j].routes
             again == {y \in job[j].results : ~Usable(y) /\ y.res.retry}
             wish == [r \in Routes |-> {y.target : y \in {w \in again : w.route = r}}]
  <2>0. "retry" \in Phases
    BY DEF Phases
  <2>1. job' \in [Jobs -> JobSet] /\ job' = [job EXCEPT ![j] = job'[j]] /\ Alike(job[j], job'[j])
        /\ job'[j].status = job[j].status
    BY <1>1, <1>4, <2>0, PhaseAlike
  <2>2. pass' = [pass EXCEPT ![j] = Opened(R, wish)]
    BY <1>4 DEF WorthRetry
  <2>3. R \in SUBSET Routes /\ wish \in [Routes -> SUBSET Targets]
        /\ Sound(job'[j], Opened(R, wish), "second", j \in canceled)
    BY <1>1, <2>1, SecondPassSound
  <2> HIDE DEF R, wish
  <2>4. Passes'
    BY <1>1, <2>2, <2>3, PassBegins DEF JobsKnown
  <2> QED BY <1>1, <1>4, <2>1, <2>2, <2>3, <2>4 DEF JobMoves, Places
<1> QED BY <1>3, <1>4 DEF RetryWait

\* The second pass is over.
LEMMA SecondPassOverMoves ==
    ASSUME JobsKnown, NEW j \in Jobs, SecondPassOver(j)
    PROVE  JobMoves(j)
<1>1. j \in Owners /\ job \in [Jobs -> JobSet] /\ at \in [Jobs -> Places] /\ pass \in [Owners -> PassSet]
      /\ Sound(job[j], pass[j], "second", j \in canceled) /\ at[j] = "second" /\ canceled' = canceled
      /\ at' = [at EXCEPT ![j] = "passed"] /\ job' = job
  BY JobsAssumption DEF JobsKnown, JobsTypes, JobsSound, Passes, SecondPassOver, Step
<1>2. Passes' /\ pass' = [pass EXCEPT ![j] = NoPass] /\ \A r \in Routes, t \in Targets : ~Coming(pass[j], r, t)
  BY <1>1, PassEnds DEF SecondPassOver, JobsKnown
<1>3. Sound(job[j], NoPass, "passed", j \in canceled)
  BY <1>1, <1>2, SecondOverSound
<1> QED BY <1>1, <1>2, <1>3 DEF JobMoves, Places

\* The steps after the passes.
LEMMA LaterMoves ==
    ASSUME JobsKnown, NEW j \in Jobs,
           AllPassed(j) \/ TakeResults(j) \/ SaveRun(j) \/ SaveRunFails(j) \/ LastStatus(j) \/ Deregister(j)
    PROVE  JobMoves(j)
<1>1. j \in Owners /\ job \in [Jobs -> JobSet] /\ at \in [Jobs -> Places] /\ pass \in [Owners -> PassSet]
      /\ Sound(job[j], pass[j], at[j], j \in canceled)
  BY JobsAssumption DEF JobsKnown, JobsTypes, JobsSound, Passes
<1>2. canceled' = canceled /\ pass' = pass
  BY DEF AllPassed, TakeResults, SaveRun, SaveRunFails, LastStatus, Deregister
<1>3. Passes'
  BY <1>2 DEF JobsKnown, Passes, Taken
<1>4. Alike(job[j], job[j])
  BY <1>1 DEF Alike
<1>5. ASSUME NEW there \in Places, at' = [at EXCEPT ![j] = there],
             job' \in [Jobs -> JobSet], job' = [job EXCEPT ![j] = job'[j]], Sound(job'[j], pass[j], there, j \in canceled)
      PROVE  JobMoves(j)
  BY <1>1, <1>2, <1>3, <1>5 DEF JobMoves
<1>6. ASSUME NEW s \in {"canceled", "failed"}, Finish(j, s),
             at' = [at EXCEPT ![j] = "ended"], at[j] \in {"passed", "saving"}
      PROVE  JobMoves(j)
  <2>0. s \in Terminal /\ ~pass[j].on /\ "ended" \in Places
    BY <1>1, <1>6 DEF Terminal, Sound, Placed, Places
  <2>1. job' \in [Jobs -> JobSet] /\ job' = [job EXCEPT ![j] = job'[j]] /\ Alike(job[j], job'[j]) /\ job'[j].status = s
    BY <1>1, <1>6, <2>0, FinishAlike DEF Finished
  <2>2. Sound(job'[j], pass[j], "ended", j \in canceled)
    BY <1>1, <1>6, <2>0, <2>1, EndedSound
  <2> QED BY <1>5, <1>6, <2>0, <2>1, <2>2
<1>7. CASE AllPassed(j)
  <2>1. CASE Finish(j, "canceled") /\ at' = [at EXCEPT ![j] = "ended"]
    BY <1>6, <1>7, <2>1 DEF AllPassed
  <2>2. CASE j \notin canceled /\ job' = [job EXCEPT ![j].phase = "saving_results"] /\ at' = [at EXCEPT ![j] = "saving"]
    <3>0. "saving_results" \in Phases /\ "saving" \in Places /\ at[j] = "passed"
      BY <1>7 DEF Phases, Places, AllPassed
    <3>1. job' \in [Jobs -> JobSet] /\ job' = [job EXCEPT ![j] = job'[j]] /\ Alike(job[j], job'[j])
          /\ job'[j].status = job[j].status
      BY <1>1, <2>2, <3>0, PhaseAlike
    <3>2. Sound(job'[j], pass[j], "saving", j \in canceled)
      BY <1>1, <2>2, <3>0, <3>1, LaterSound
    <3> QED BY <1>5, <2>2, <3>0, <3>1, <3>2
  <2> QED BY <1>7, <2>1, <2>2 DEF AllPassed
<1>8. CASE TakeResults(j)
  <2>1. CASE at' = [at EXCEPT ![j] = "storing"] /\ UNCHANGED job
    <3>0. "storing" \in Places /\ at[j] = "saving" /\ job' = job
      BY <1>8, <2>1 DEF Places, TakeResults
    <3>1. Sound(job[j], pass[j], "storing", j \in canceled)
      BY <1>1, <1>4, <3>0, LaterSound
    <3> QED BY <1>1, <1>5, <2>1, <3>0, <3>1
  <2>2. CASE Finish(j, "failed") /\ at' = [at EXCEPT ![j] = "ended"]
    BY <1>6, <1>8, <2>2 DEF TakeResults
  <2> QED BY <1>8, <2>1, <2>2 DEF TakeResults
<1>9. CASE SaveRun(j)
  <2>1. "saved" \in Places /\ at[j] = "storing" /\ job' = job /\ at' = [at EXCEPT ![j] = "saved"]
    BY <1>9 DEF Places, SaveRun, Step
  <2>2. Sound(job[j], pass[j], "saved", j \in canceled)
    BY <1>1, <1>4, <2>1, LaterSound
  <2> QED BY <1>1, <1>5, <2>1, <2>2
<1>10. CASE SaveRunFails(j)
  <2>1. "saved" \in Places /\ at[j] = "storing" /\ job' = [job EXCEPT ![j].lost = TRUE] /\ at' = [at EXCEPT ![j] = "saved"]
    BY <1>10 DEF Places, SaveRunFails, Step
  <2>2. job' \in [Jobs -> JobSet] /\ job' = [job EXCEPT ![j] = job'[j]] /\ Alike(job[j], job'[j])
        /\ job'[j].status = job[j].status
    BY <1>1, <2>1, LostAlike
  <2>3. Sound(job'[j], pass[j], "saved", j \in canceled)
    BY <1>1, <2>1, <2>2, LaterSound
  <2> QED BY <1>5, <2>1, <2>2, <2>3
<1>11. CASE LastStatus(j)
  <2>0. "finished" \in Terminal
    BY DEF Terminal
  <2>1. "ended" \in Places /\ at[j] = "saved" /\ at' = [at EXCEPT ![j] = "ended"]
        /\ Finish(j, "finished")
    BY <1>11 DEF Places, LastStatus
  <2>2. job' \in [Jobs -> JobSet] /\ job' = [job EXCEPT ![j] = job'[j]] /\ Alike(job[j], job'[j]) /\ job'[j].status = "finished"
    BY <1>1, <2>0, <2>1, FinishAlike DEF Finished
  <2>3. Sound(job'[j], pass[j], "ended", j \in canceled)
    BY <1>1, <2>1, <2>2, LaterSound
  <2> QED BY <1>5, <2>1, <2>2, <2>3
<1>12. CASE Deregister(j)
  <2>1. "over" \in Places /\ at[j] = "ended" /\ job' = job /\ at' = [at EXCEPT ![j] = "over"]
    BY <1>12 DEF Places, Deregister, Step
  <2>2. Sound(job[j], pass[j], "over", j \in canceled)
    BY <1>1, <1>4, <2>1, LaterSound
  <2> QED BY <1>1, <1>5, <2>1, <2>2
<1> QED BY <1>7, <1>8, <1>9, <1>10, <1>11, <1>12

\* It expires.
LEMMA ExpireMoves ==
    ASSUME JobsKnown, NEW j \in Jobs, Expire(j)
    PROVE  JobMoves(j)
<1>1. j \in Owners /\ job \in [Jobs -> JobSet] /\ at \in [Jobs -> Places] /\ pass \in [Owners -> PassSet]
      /\ Sound(job[j], pass[j], "over", j \in canceled) /\ at[j] = "over" /\ at' = at /\ canceled' = canceled
      /\ pass' = pass /\ job' = [job EXCEPT ![j] = NoJob]
  BY JobsAssumption DEF JobsKnown, JobsTypes, JobsSound, Passes, Expire
<1>2. ~pass[j].on
  BY <1>1 DEF Sound, Placed
<1>3. Sound(NoJob, pass[j], "over", j \in canceled)
  BY <1>2, NoJobSound
<1>4. Passes'
  BY <1>1 DEF JobsKnown, Passes, Taken
<1>5. job' \in [Jobs -> JobSet] /\ job' = [job EXCEPT ![j] = job'[j]] /\ job'[j] = NoJob
  BY <1>1, <1>3 DEF Sound
<1> QED BY <1>1, <1>3, <1>4, <1>5 DEF JobMoves

\* What a step of the goroutine of a job leaves alone.
OthersKept(j) ==
    /\ menu' = menu /\ cancel' = cancel /\ eligible' = eligible /\ asked' = asked /\ closing' = closing
    /\ client' = client /\ chan' = chan /\ known' = known /\ shut' = shut /\ displaced' = displaced
    /\ registered' \subseteq Jobs /\ stamp' \in [Jobs -> Nat]
    /\ Quiet(j) /\ post' \in {post, [post EXCEPT ![j] = Wanted]}

\* It publishes what it changes.
LEMMA OthersAreKept ==
    ASSUME JobsTypes, NEW j \in Jobs, StartConnectivityJob(j) \/ JobStep(j) \/ Expire(j)
    PROVE  OthersKept(j)
<1>1. registered \subseteq Jobs /\ stamp \in [Jobs -> Nat]
  BY DEF JobsTypes
<1>2. CASE StartConnectivityJob(j)
  BY <1>1, <1>2 DEF StartConnectivityJob, Step, Due, KeepRest, EventVars, OthersKept
<1>3. CASE Launch(j)
  BY <1>1, <1>3 DEF Launch, Finish, Due, EventVars, OthersKept
<1>4. CASE FirstResult(j)
  BY <1>1, <1>4 DEF FirstResult, Step, Due, KeepRest, EventVars, OthersKept
<1>5. CASE FirstPassOver(j)
  BY <1>1, <1>5 DEF FirstPassOver, Finish, Due, KeepRest, EventVars, OthersKept
<1>6. CASE RetryWait(j)
  BY <1>1, <1>6 DEF RetryWait, Finish, Due, KeepRest, EventVars, OthersKept
<1>7. CASE SecondResult(j)
  BY <1>1, <1>7 DEF SecondResult, Step, Due, KeepRest, EventVars, OthersKept
<1>8. CASE SecondPassOver(j)
  BY <1>1, <1>8 DEF SecondPassOver, Step, KeepRest, EventVars, OthersKept
<1>9. CASE AllPassed(j)
  BY <1>1, <1>9 DEF AllPassed, Finish, Due, KeepRest, EventVars, OthersKept
<1>10. CASE TakeResults(j)
  <2>1. {i \in Jobs : stamp[i] > 0} \subseteq Jobs /\ IsFiniteSet(Jobs)
    BY JobsAssumption
  <2>2. Cardinality({i \in Jobs : stamp[i] > 0}) \in Nat
    BY <2>1, FS_Subset, FS_CardinalityType
  <2> DEFINE n == Cardinality({i \in Jobs : stamp[i] > 0})
  <2>3. stamp' \in {stamp, [stamp EXCEPT ![j] = 1 + n]}
    BY <1>10 DEF TakeResults
  <2>4. stamp' \in [Jobs -> Nat]
    <3> HIDE DEF n
    <3>1. 1 + n \in Nat
      BY <2>2 DEF n
    <3> QED BY <1>1, <2>3, <3>1
  <2> QED BY <1>1, <1>10, <2>4 DEF TakeResults, Finish, Due, EventVars, OthersKept
<1>11. CASE SaveRun(j)
  BY <1>1, <1>11 DEF SaveRun, Step, EventVars, OthersKept
<1>12. CASE SaveRunFails(j)
  BY <1>1, <1>12 DEF SaveRunFails, Step, EventVars, OthersKept
<1>13. CASE LastStatus(j)
  BY <1>1, <1>13 DEF LastStatus, Finish, Due, KeepRest, EventVars, OthersKept
<1>14. CASE Deregister(j)
  BY <1>1, <1>14 DEF Deregister, Step, EventVars, OthersKept
<1>15. CASE Expire(j)
  BY <1>1, <1>15 DEF Expire, KeepRest, EventVars, OthersKept
<1> QED BY <1>2, <1>3, <1>4, <1>5, <1>6, <1>7, <1>8, <1>9, <1>10, <1>11, <1>12, <1>13, <1>14, <1>15 DEF JobStep

\* Every step of a job is one of the moves above.
LEMMA JobStepMoves ==
    ASSUME JobsKnown, NEW j \in Jobs, StartConnectivityJob(j) \/ JobStep(j) \/ Expire(j)
    PROVE  JobMoves(j)
<1>1. CASE StartConnectivityJob(j)
  BY <1>1, StartMoves
<1>2. CASE JobStep(j)
  BY <1>2, LaunchMoves, FirstResultMoves, FirstPassOverMoves, RetryWaitMoves, SecondResultMoves, SecondPassOverMoves,
     LaterMoves DEF JobStep
<1>3. CASE Expire(j)
  BY <1>3, ExpireMoves
<1> QED BY <1>1, <1>2, <1>3

\* What holds of jobs, passes and the cancel in every state.
JobsSafe == JobsKnown /\ Cancels

\* A job that is there stays until it expires.
LEMMA JobStays ==
    ASSUME JobsKnown, NEW j \in Jobs, StartConnectivityJob(j) \/ JobStep(j), job[j].status # "none"
    PROVE  job'[j].status # "none"
<1>1. job \in [Jobs -> JobSet] /\ j \in Owners
  BY JobsAssumption DEF JobsKnown, JobsTypes
<1>2. ASSUME NEW s \in Terminal, Finish(j, s) PROVE job'[j].status # "none"
  <2>1. Finished(j, s)
    BY <1>1, <1>2, FinishAlike
  <2> QED BY <2>1 DEF Finished, Terminal
<1>3. "canceled" \in Terminal /\ "finished" \in Terminal /\ "failed" \in Terminal
  BY DEF Terminal
<1>4. CASE StartConnectivityJob(j)
  <2>1. PICK q \in menu.requests :
          job' = [job EXCEPT ![j] = [NoJob EXCEPT !.status = "running", !.phase = "first_pass", !.tags = q.tags,
                                                  !.targets = q.targets, !.routes = RoutesOf(q.tags)]]
    BY <1>4 DEF StartConnectivityJob
  <2> QED BY <1>1, <2>1 DEF NoJob
<1>5. CASE Launch(j) \/ FirstPassOver(j) \/ RetryWait(j) \/ AllPassed(j) \/ TakeResults(j) \/ LastStatus(j)
  <2>1. \/ \E s \in Terminal : Finish(j, s)
        \/ job' = job
        \/ \E p : job' = [job EXCEPT ![j].phase = p]
        \/ \E p, n : job' = [job EXCEPT ![j].retry = n, ![j].phase = p]
    BY <1>3, <1>5 DEF Launch, FirstPassOver, RetryWait, AllPassed, TakeResults, LastStatus
  <2> QED BY <1>1, <1>2, <2>1 DEF JobSet
<1>6. CASE FirstResult(j)
  BY <1>1, <1>6 DEF FirstResult, JobSet
<1>7. CASE SecondResult(j)
  BY <1>1, <1>7 DEF SecondResult, JobSet
<1>8. CASE SecondPassOver(j) \/ SaveRun(j) \/ Deregister(j)
  BY <1>8 DEF SecondPassOver, SaveRun, Deregister
<1>9. CASE SaveRunFails(j)
  BY <1>1, <1>9 DEF SaveRunFails, JobSet
<1> QED BY <1>4, <1>5, <1>6, <1>7, <1>8, <1>9 DEF JobStep

\* Every step of a job keeps what holds of all.
LEMMA JobStepSafe ==
    ASSUME JobsSafe, NEW j \in Jobs, StartConnectivityJob(j) \/ JobStep(j) \/ Expire(j)
    PROVE  JobsSafe'
<1>1. JobMoves(j) /\ OthersKept(j)
  BY JobStepMoves, OthersAreKept DEF JobsSafe, JobsKnown
<1>2. Passes'
  BY <1>1 DEF JobMoves
<1>3. JobsTypes'
  <2>1. post' \in [Jobs \cup {Canceler} -> Posts]
    BY <1>1 DEF OthersKept, JobsSafe, JobsKnown, JobsTypes, Posts
  <2> QED BY <1>1, <2>1 DEF JobMoves, OthersKept, JobsSafe, JobsKnown, JobsTypes
<1>4. JobsSound'
  <2>1. SUFFICES ASSUME NEW i \in Jobs PROVE Sound(job'[i], pass'[i], at'[i], i \in canceled')
    BY DEF JobsSound
  <2>2. canceled' = canceled /\ i \in Owners /\ Sound(job[i], pass[i], at[i], i \in canceled)
    BY <1>1, JobsAssumption DEF JobMoves, JobsSafe, JobsKnown, JobsSound
  <2>3. CASE i = j
    BY <1>1, <2>2, <2>3 DEF JobMoves
  <2>4. CASE i # j
    <3>1. job'[i] = job[i] /\ at'[i] = at[i] /\ pass'[i] = pass[i]
      BY <1>1, <2>2, <2>4 DEF JobMoves, JobsSafe, JobsKnown, JobsTypes, Passes
    <3> QED BY <2>2, <3>1
  <2> QED BY <2>3, <2>4
<1>5. Cancels'
  <2>1. cancel' = cancel /\ asked' = asked /\ Cancels /\ j # Canceler
    BY <1>1, JobsAssumption DEF OthersKept, JobsSafe
  <2>2. ASSUME cancel.pc # "idle" PROVE job'[cancel.job].status # "none"
    <3>1. cancel.job \in Jobs /\ job[cancel.job].status # "none"
      BY <2>1, <2>2 DEF Cancels, JobsSafe, JobsKnown, JobsTypes
    <3>2. CASE cancel.job = j
      <4>1. ~Expire(j)
        BY <3>2 DEF Expire
      <4> QED BY <3>1, <3>2, <4>1, JobStays DEF JobsSafe
    <3>3. CASE cancel.job # j
      BY <1>1, <3>1, <3>3 DEF JobMoves, JobsSafe, JobsKnown, JobsTypes
    <3> QED BY <3>2, <3>3
  <2>3. post'[Canceler] = post[Canceler]
    BY <1>1, <2>1 DEF OthersKept, JobsSafe, JobsKnown, JobsTypes
  <2> QED BY <2>1, <2>2, <2>3 DEF Cancels, Quiet
<1> QED BY <1>2, <1>3, <1>4, <1>5 DEF JobsSafe, JobsKnown

\* The steps of a cancel, of the store, of Close, of publishing and of the
\* client.
OtherStep ==
    \/ \E j \in Jobs : CancelConnectivityJob(j)
    \/ Publishing
    \/ CallCancel \/ MarkCanceling \/ CancelDone
    \/ NodeLeaves
    \/ BeginClose \/ CloseEvents
    \/ ClientStep

\* They leave the goroutines of jobs where they are.
LEMMA OtherStepSafe ==
    ASSUME JobsSafe, OtherStep
    PROVE  JobsSafe'
<1>0. JobsTypes /\ JobsSound /\ Passes /\ Cancels
  BY DEF JobsSafe, JobsKnown
<1>1. ASSUME job' = job, at' = at, pass' = pass, canceled' \subseteq Owners, canceled \subseteq canceled'
      PROVE  Passes' /\ JobsSound'
  <2>1. Passes'
    BY <1>0, <1>1 DEF Passes, Taken
  <2>2. ASSUME NEW i \in Jobs PROVE Sound(job[i], pass[i], at[i], i \in canceled')
    BY <1>0, <1>1, GoneSound DEF JobsSound
  <2> QED BY <1>1, <2>1, <2>2 DEF JobsSound
<1>2. ASSUME UNCHANGED <<menu, job, at, cancel, registered, eligible, stamp, closing, asked, pass, canceled>>,
             post' \in [Jobs \cup {Canceler} -> Posts], Quiet(Canceler) => Quiet(Canceler)'
      PROVE  JobsSafe'
  <2>1. Passes' /\ JobsSound'
    BY <1>0, <1>1, <1>2 DEF Passes
  <2>2. JobsTypes'
    BY <1>0, <1>2 DEF JobsTypes
  <2>3. Cancels'
    BY <1>0, <1>2 DEF Cancels
  <2> QED BY <2>1, <2>2, <2>3 DEF JobsSafe, JobsKnown
<1>3. ASSUME NEW j \in Jobs, CancelConnectivityJob(j) PROVE JobsSafe'
  <2>1. /\ cancel = NoCancel /\ job[j].status = "running" /\ cancel' = [job |-> j, pc |-> "call"] /\ asked' = asked \cup {j}
        /\ UNCHANGED <<menu, job, at, post, registered, eligible, stamp, closing, pass, canceled>>
    BY <1>3 DEF CancelConnectivityJob
  <2>2. Passes' /\ JobsSound'
    BY <1>0, <1>1, <2>1 DEF Passes
  <2>3. JobsTypes'
    BY <1>0, <2>1 DEF JobsTypes
  <2>4. Cancels'
    BY <1>0, <2>1 DEF Cancels, NoCancel, Quiet
  <2> QED BY <2>2, <2>3, <2>4 DEF JobsSafe, JobsKnown
<1>4. ASSUME NEW who \in Jobs \cup {Canceler}, TakeSnapshot(who) PROVE JobsSafe'
  <2>1. /\ post[who] = Wanted /\ post' = [post EXCEPT ![who] = Told(JobOf(who))]
        /\ UNCHANGED <<menu, job, at, cancel, registered, eligible, stamp, closing, asked, pass, canceled>>
    BY <1>4 DEF TakeSnapshot
  <2>2. Wanted # Nothing
    BY DEF Wanted, Nothing
  <2>3. JobOf(who) \in Jobs
    BY <1>0, <2>1, <2>2 DEF JobOf, Cancels, Quiet, JobsTypes
  <2>4. Told(JobOf(who)) \in Posts
    BY <1>0, <2>3 DEF JobsTypes, JobSet, Posts, Standings, Told
  <2>5. post' \in [Jobs \cup {Canceler} -> Posts]
    BY <1>0, <2>1, <2>4 DEF JobsTypes
  <2>6. Quiet(Canceler) => Quiet(Canceler)'
    BY <1>0, <2>1, <2>2 DEF JobsTypes, Quiet
  <2> QED BY <1>2, <2>1, <2>5, <2>6
<1>5. ASSUME NEW who \in Jobs \cup {Canceler}, SendEvent(who) PROVE JobsSafe'
  <2>1. /\ post' = [post EXCEPT ![who] = Nothing]
        /\ UNCHANGED <<menu, job, at, cancel, registered, eligible, stamp, closing, asked, pass, canceled>>
    BY <1>5 DEF SendEvent
  <2>2. post' \in [Jobs \cup {Canceler} -> Posts] /\ (Quiet(Canceler) => Quiet(Canceler)')
    BY <1>0, <2>1 DEF JobsTypes, Posts, Quiet
  <2> QED BY <1>2, <2>1, <2>2
<1>6. CASE CallCancel
  <2>1. /\ cancel.pc = "call" /\ cancel' = [cancel EXCEPT !.pc = "mark"]
        /\ canceled' = canceled \cup (registered \cap {cancel.job})
        /\ UNCHANGED <<menu, job, at, post, registered, eligible, stamp, closing, asked, pass>>
    BY <1>6 DEF CallCancel
  <2>2. registered \subseteq Owners
    BY <1>0, JobsAssumption DEF JobsTypes
  <2>3. Passes' /\ JobsSound'
    BY <1>0, <1>1, <2>1, <2>2 DEF Passes
  <2>4. cancel' \in [job : Jobs \cup {Unknown}, pc : {"idle", "call", "mark", "publish"}] /\ cancel'.job = cancel.job
        /\ cancel'.pc = "mark"
    BY <1>0, <2>1 DEF JobsTypes
  <2>5. JobsTypes'
    BY <1>0, <2>1, <2>4 DEF JobsTypes
  <2>6. Cancels'
    BY <1>0, <2>1, <2>4 DEF Cancels, Quiet
  <2> QED BY <2>3, <2>5, <2>6 DEF JobsSafe, JobsKnown
<1>7. CASE MarkCanceling
  <2> DEFINE j == cancel.job
  <2>1. /\ cancel.pc = "mark" /\ cancel' = [cancel EXCEPT !.pc = "publish"]
        /\ job' = [job EXCEPT ![j].phase = "canceling"]
        /\ post' \in {post, [post EXCEPT ![Canceler] = Wanted]}
        /\ UNCHANGED <<menu, at, registered, eligible, stamp, closing, asked, pass, canceled>>
    BY <1>7 DEF MarkCanceling, Due
  <2>2. j \in Jobs /\ j \in asked /\ job[j].status # "none" /\ "canceling" \in Phases
    BY <1>0, <2>1 DEF Cancels, JobsTypes, Phases
  <2>a. cancel.job = j
    OBVIOUS
  <2> HIDE DEF j
  <2>3. job' \in [Jobs -> JobSet] /\ job' = [job EXCEPT ![j] = job'[j]] /\ Alike(job[j], job'[j])
        /\ job'[j].status = job[j].status
    <3>1. job \in [Jobs -> JobSet]
      BY <1>0 DEF JobsTypes
    <3>2. job' = [job EXCEPT ![j].phase = "canceling"]
      BY <2>1
    <3> QED BY ONLY <2>2, <3>1, <3>2, PhaseAlike
  <2>4. cancel' \in [job : Jobs \cup {Unknown}, pc : {"idle", "call", "mark", "publish"}] /\ cancel'.job = j
        /\ cancel'.pc = "publish"
    BY <1>0, <2>1, <2>a DEF JobsTypes
  <2>5. Passes'
    BY <1>0, <2>1 DEF Passes, Taken
  <2>6. ASSUME NEW i \in Jobs PROVE Sound(job'[i], pass'[i], at'[i], i \in canceled')
    <3>1. Sound(job[i], pass[i], at[i], i \in canceled)
      BY <1>0 DEF JobsSound
    <3>2. CASE i = j
      <4>1. Sound(job'[j], pass[j], at[j], j \in canceled)
        BY <2>2, <2>3, <3>1, <3>2, LaterSound
      <4> QED BY <2>1, <3>2, <4>1
    <3>3. CASE i # j
      <4>1. job'[i] = job[i]
        BY <1>0, <2>3, <3>3 DEF JobsTypes
      <4> QED BY <2>1, <3>1, <4>1
    <3> QED BY <3>2, <3>3
  <2>7. JobsTypes'
    BY <1>0, <2>1, <2>3, <2>4 DEF JobsTypes, Posts
  <2>8. Cancels'
    BY <1>0, <2>1, <2>2, <2>3, <2>4, <2>a DEF Cancels
  <2> QED BY <2>5, <2>6, <2>7, <2>8 DEF JobsSafe, JobsKnown, JobsSound
<1>8. CASE CancelDone
  <2>1. /\ cancel.pc = "publish" /\ Quiet(Canceler) /\ cancel' = NoCancel
        /\ UNCHANGED <<menu, job, at, post, registered, eligible, stamp, closing, asked, pass, canceled>>
    BY <1>8 DEF CancelDone
  <2>2. Passes' /\ JobsSound'
    BY <1>0, <1>1, <2>1 DEF Passes
  <2>3. JobsTypes' /\ Cancels'
    BY <1>0, <2>1 DEF JobsTypes, Cancels, NoCancel, Quiet
  <2> QED BY <2>2, <2>3 DEF JobsSafe, JobsKnown
<1>9. CASE NodeLeaves
  <2>1. /\ eligible' \subseteq eligible
        /\ UNCHANGED <<menu, job, at, post, cancel, registered, stamp, closing, asked, pass, canceled>>
    BY <1>9 DEF NodeLeaves
  <2>2. Passes' /\ JobsSound'
    BY <1>0, <1>1, <2>1 DEF Passes
  <2>3. JobsTypes' /\ Cancels'
    BY <1>0, <2>1 DEF JobsTypes, Cancels, Quiet
  <2> QED BY <2>2, <2>3 DEF JobsSafe, JobsKnown
<1>10. CASE BeginClose
  <2>1. /\ closing' = TRUE /\ canceled' = canceled \cup registered
        /\ UNCHANGED <<menu, job, at, post, cancel, registered, eligible, stamp, asked, pass>>
    BY <1>10 DEF BeginClose
  <2>2. registered \subseteq Owners
    BY <1>0, JobsAssumption DEF JobsTypes
  <2>3. Passes' /\ JobsSound'
    BY <1>0, <1>1, <2>1, <2>2 DEF Passes
  <2>4. JobsTypes' /\ Cancels'
    BY <1>0, <2>1 DEF JobsTypes, Cancels, Quiet
  <2> QED BY <2>3, <2>4 DEF JobsSafe, JobsKnown
<1>11. CASE CloseEvents
  BY <1>0, <1>2, <1>11 DEF CloseEvents, JobsTypes, Quiet
<1>12. CASE ClientStep
  BY <1>0, <1>2, <1>12 DEF ClientStep, JobsTypes, Quiet
<1> QED BY <1>3, <1>4, <1>5, <1>6, <1>7, <1>8, <1>9, <1>10, <1>11, <1>12 DEF OtherStep, Publishing

-----------------------------------------------------------------------------
(* Verifications, in the same way: the invariant of a batch is stated of   *)
(* its record and its pass.                                                *)

\* What a batch is.
VerPlaces == {"idle", "round", "chosen", "first", "waiting", "second", "judge", "returned"}
Policies == {NoVer.policy} \cup UNION {m.policies : m \in Menus}
Answers == Routes \X {"ok", "retry", "final"}
ProgressSet == [done : Int, passed : Int, failed : Int, retried : Int, recovered : Int]
VerSet ==
    [pc : VerPlaces, policy : Policies, round : 1 .. Rounds, crew : Int, left : SUBSET Routes, asked : SUBSET Routes,
     inbox : SUBSET Answers, again : SUBSET Routes, eligible : SUBSET Routes, probed : SUBSET Routes,
     sites : SUBSET Found, progress : [Targets -> ProgressSet], judged : SUBSET Routes, good : SUBSET Routes]
TaskSet ==
    [fn : Verifiers \cup {NoOne}, waiters : SUBSET Verifiers, pc : {"none", "queued", "running", "probing"},
     later : SUBSET Verifiers, laterFn : Verifiers \cup {NoOne}]

\* In a round every node of the policy waits for its turn, for its result or
\* for the next round, or has been probed; a node has one result at a time.
Rounded(x) ==
    /\ x.pc = "idle" => x = NoVer
    /\ x.pc \notin {"idle", "returned"} => x.policy.probe \/ x.policy.sites # {}
    /\ x.pc = "round" => x.policy.probe /\ x.policy.nodes = x.left \cup x.asked \cup x.again \cup x.probed
    /\ x.pc # "round" => x.left = {} /\ x.asked = {} /\ x.inbox = {} /\ x.again = {}
    /\ x.left \cap x.asked = {} /\ \A y \in x.inbox : y[1] \in x.asked
    /\ \A y, z \in x.inbox : y[1] = z[1] => y = z
    /\ x.again # {} => x.round < Rounds
    /\ x.probed \subseteq x.policy.nodes
    /\ IF x.policy.probe THEN x.eligible \subseteq x.probed ELSE x.probed = {} /\ x.eligible = x.policy.nodes

\* Once the nodes are chosen all of them have been probed; in the end all have
\* a verdict.
Judging(x, gone) ==
    ~gone =>
        /\ x.pc \notin {"idle", "round", "returned"} /\ x.policy.probe => x.probed = x.policy.nodes
        /\ x.pc = "returned" =>
               /\ x.judged = x.policy.nodes
               /\ \A r \in x.good :
                      /\ x.policy.probe => r \in x.probed
                      /\ \A t \in x.policy.sites : \E y \in x.sites : y.route = r /\ y.target = t /\ Usable(y)

\* The progress of a site counts its results.
At(x, t)   == {y \in x.sites : y.target = t}
Good(x, t) == {y \in At(x, t) : Usable(y)}
AddsAt(x, t) ==
    /\ x.progress[t].done = Cardinality(At(x, t)) /\ x.progress[t].passed = Cardinality(Good(x, t))
    /\ x.progress[t].passed + x.progress[t].failed = x.progress[t].done
    /\ x.progress[t].recovered <= x.progress[t].retried
Adds(x) ==
    /\ IsFiniteSet(x.sites) /\ \A y, z \in x.sites : y.route = z.route /\ y.target = z.target => y = z
    /\ \A t \in Targets : AddsAt(x, t)

\* A first result is new, a second one is of a site that was not usable.
Visits(x, p) ==
    /\ p.on <=> x.pc \in {"first", "second"}
    /\ x.pc \in {"idle", "round", "chosen"} => x.sites = {}
    /\ x.pc = "first" => \A r \in Routes, t \in Targets : Coming(p, r, t) => \A y \in x.sites : ~(y.route = r /\ y.target = t)
    /\ x.pc = "second" => \A r \in Routes, t \in Targets :
           Coming(p, r, t) => \E y \in x.sites : y.route = r /\ y.target = t /\ ~Usable(y)

VSound(x, p, gone) == x \in VerSet /\ Rounded(x) /\ Judging(x, gone) /\ Adds(x) /\ Visits(x, p)

\* The policies ask for something, of nodes and sites there are.
LEMMA PoliciesAre ==
    ASSUME NEW p \in Policies
    PROVE  p.nodes \subseteq Routes /\ p.probe \in BOOLEAN /\ p.sites \subseteq Targets /\ IsFiniteSet(p.nodes)
           /\ (p.probe \/ p.sites # {} \/ p = NoVer.policy)
<1>1. p.nodes \subseteq Routes /\ p.probe \in BOOLEAN /\ p.sites \subseteq Targets /\ (p.probe \/ p.sites # {} \/ p = NoVer.policy)
  <2>1. CASE p = NoVer.policy
    BY <2>1 DEF NoVer
  <2>2. CASE \E m \in Menus : p \in m.policies
    BY <2>2, OwnersAssumption
  <2> QED BY <2>1, <2>2 DEF Policies
<1> QED BY <1>1, SitesAssumption, FS_Subset

\* Sites and progress stay as they are.
LEMMA SameSites ==
    ASSUME NEW x, NEW z, z.sites = x.sites, z.progress = x.progress, Adds(x)
    PROVE  Adds(z)
  BY DEF Adds, AddsAt, Good, At

\* Nothing is counted at first.
LEMMA NoVerSound ==
    ASSUME NEW p, ~p.on, NEW gone
    PROVE  /\ VSound(NoVer, p, gone) /\ NoVer.pc = "idle"
           /\ VSound([NoVer EXCEPT !.pc = "returned"], p, gone)
<1>1. NoVer \in VerSet
  <2>1. NoProgress \in ProgressSet
    BY DEF NoProgress, ProgressSet
  <2>2. [t \in Targets |-> NoProgress] \in [Targets -> ProgressSet]
    BY <2>1
  <2>3. NoVer.policy \in Policies
    BY DEF Policies
  <2>4. 1 \in 1 .. Rounds /\ 0 \in Int
    BY VerifiersAssumption
  <2> DEFINE pol == [nodes |-> {}, probe |-> FALSE, sites |-> {}]
             pro == [t \in Targets |-> NoProgress]
  <2>5. NoVer = [pc |-> "idle", policy |-> pol, round |-> 1, crew |-> 0, left |-> {}, asked |-> {},
          inbox |-> {}, again |-> {}, eligible |-> {}, probed |-> {}, sites |-> {},
          progress |-> pro, judged |-> {}, good |-> {}]
    BY DEF NoVer
  <2>6. pol \in Policies
    BY <2>3, <2>5
  <2> HIDE DEF pol, pro
  <2> QED BY <2>2, <2>4, <2>5, <2>6 DEF VerSet, VerPlaces, pro
<1>2. /\ NoVer.pc = "idle" /\ NoVer.left = {} /\ NoVer.asked = {} /\ NoVer.inbox = {} /\ NoVer.again = {}
      /\ NoVer.eligible = {} /\ NoVer.probed = {} /\ NoVer.sites = {} /\ NoVer.judged = {} /\ NoVer.good = {}
      /\ NoVer.policy.nodes = {} /\ NoVer.policy.sites = {} /\ ~NoVer.policy.probe
      /\ NoVer.progress = [t \in Targets |-> NoProgress]
  BY DEF NoVer
<1>3. Adds(NoVer)
  <2>1. ASSUME NEW t \in Targets PROVE AddsAt(NoVer, t)
    <3>1. At(NoVer, t) = {} /\ Good(NoVer, t) = {} /\ NoVer.progress[t] = NoProgress
      BY <1>2 DEF At, Good
    <3> QED BY <3>1, FS_EmptySet DEF AddsAt, NoProgress
  <2> QED BY <1>2, <2>1, FS_EmptySet DEF Adds
<1>4. VSound(NoVer, p, gone)
  BY <1>1, <1>2, <1>3 DEF VSound, Rounded, Judging, Visits
<1> DEFINE z == [NoVer EXCEPT !.pc = "returned"]
<1>5. z \in VerSet /\ z.pc = "returned" /\ z.left = {} /\ z.asked = {} /\ z.inbox = {} /\ z.again = {}
      /\ z.eligible = {} /\ z.probed = {} /\ z.sites = {} /\ z.judged = {} /\ z.good = {}
      /\ z.policy = NoVer.policy /\ z.progress = NoVer.progress
  BY <1>1, <1>2 DEF VerSet, VerPlaces
<1> HIDE DEF z
<1>6. VSound(z, p, gone)
  BY <1>2, <1>3, <1>5, SameSites DEF VSound, Rounded, Judging, Visits
<1> QED BY <1>2, <1>4, <1>6 DEF z

\* What is known before each step.
VerTypes ==
    /\ menu \in Menus /\ ver \in [Verifiers -> VerSet] /\ task \in [Routes -> TaskSet]
    /\ mapped \subseteq Verifiers \X Routes /\ open \subseteq Verifiers \X Routes /\ late \subseteq Verifiers \X Routes
VersSound == \A v \in Verifiers : VSound(ver[v], pass[v], v \in canceled)
VerKnown == Passes /\ VerTypes /\ VersSound

\* What a step of a batch does to it.
VerMoves(v) ==
    /\ Passes' /\ canceled' = canceled
    /\ ver' \in [Verifiers -> VerSet] /\ ver' = [ver EXCEPT ![v] = ver'[v]]
    /\ pass' = [pass EXCEPT ![v] = pass'[v]]
    /\ VSound(ver'[v], pass'[v], v \in canceled)

\* Where it only changes its record.
LEMMA RecordMoves ==
    ASSUME VerKnown, NEW v \in Verifiers, NEW z, ver' = [ver EXCEPT ![v] = z], pass' = pass, canceled' = canceled,
           VSound(z, pass[v], v \in canceled)
    PROVE  VerMoves(v)
<1>1. Passes'
  BY DEF VerKnown, Passes, Taken
<1>2. z \in VerSet /\ ver \in [Verifiers -> VerSet]
  BY DEF VSound, VerKnown, VerTypes
<1>3. ver'[v] = z /\ ver' \in [Verifiers -> VerSet]
  BY <1>2
<1>4. v \in Owners /\ pass \in [Owners -> PassSet]
  BY OwnersAssumption DEF VerKnown, Passes
<1> QED BY <1>1, <1>3, <1>4 DEF VerMoves

\* A batch begins.
LEMMA BeginVerifyMoves ==
    ASSUME VerKnown, NEW v \in Verifiers, BeginVerify(v, menu.policies)
    PROVE  VerMoves(v)
<1>1. PICK p \in menu.policies :
          ver' = [ver EXCEPT ![v].pc = IF p.probe THEN "round" ELSE "chosen", ![v].policy = p,
                             ![v].left = IF p.probe THEN p.nodes ELSE {},
                             ![v].crew = RoundWorkers(1, Cardinality(p.nodes)),
                             ![v].eligible = IF p.probe THEN {} ELSE p.nodes]
  BY DEF BeginVerify
<1>2. VSound(ver[v], pass[v], v \in canceled) /\ ver[v].pc = "idle" /\ pass' = pass /\ canceled' = canceled
      /\ ver \in [Verifiers -> VerSet]
  BY DEF VerKnown, VersSound, BeginVerify, VerTypes
<1>3. ver[v] = NoVer
  BY <1>2 DEF VSound, Rounded
<1>4. p \in Policies /\ (p.probe \/ p.sites # {})
  BY OwnersAssumption DEF Policies, VerKnown, VerTypes
<1>5. p.nodes \subseteq Routes /\ p.probe \in BOOLEAN
  BY <1>4, PoliciesAre
<1> DEFINE pc == IF p.probe THEN "round" ELSE "chosen"
           some == IF p.probe THEN p.nodes ELSE {}
           most == IF p.probe THEN {} ELSE p.nodes
           crew == RoundWorkers(1, Cardinality(p.nodes))
           z == [ver[v] EXCEPT !.pc = pc, !.policy = p, !.left = some, !.crew = crew, !.eligible = most]
<1>6. crew \in Int
  BY SitesAssumption DEF RoundWorkers
<1>7. pc \in VerPlaces /\ some \in SUBSET Routes /\ most \in SUBSET Routes
  BY <1>5 DEF VerPlaces
<1>8. ver' = [ver EXCEPT ![v] = z]
  BY <1>1
<1> HIDE DEF pc, some, most, crew
<1>9. /\ z \in VerSet /\ z.pc = pc /\ z.policy = p /\ z.left = some /\ z.eligible = most /\ z.asked = ver[v].asked
      /\ z.inbox = ver[v].inbox /\ z.again = ver[v].again /\ z.probed = ver[v].probed /\ z.sites = ver[v].sites
      /\ z.progress = ver[v].progress
  BY ZenonT(40), <1>2, <1>4, <1>6, <1>7 DEF VerSet
<1> HIDE DEF z
<1>10. /\ z.asked = {} /\ z.inbox = {} /\ z.again = {} /\ z.probed = {} /\ z.sites = {}
  BY <1>3, <1>9 DEF NoVer
<1>11. Adds(z)
  BY <1>2, <1>9, SameSites DEF VSound
<1>12. ~pass[v].on
  BY <1>2 DEF VSound, Visits
<1>13. Rounded(z) /\ Judging(z, v \in canceled) /\ Visits(z, pass[v])
  BY <1>4, <1>5, <1>9, <1>10, <1>12 DEF Rounded, Judging, Visits, pc, some, most
<1> QED BY <1>2, <1>8, <1>9, <1>11, <1>13, RecordMoves DEF VSound

\* A node is submitted.
LEMMA SubmitMoves ==
    ASSUME VerKnown, NEW v \in Verifiers, NEW r \in ver[v].left, ver[v].pc = "round",
           ver' = [ver EXCEPT ![v].left = @ \ {r}, ![v].asked = @ \cup {r}], pass' = pass, canceled' = canceled
    PROVE  VerMoves(v)
<1> DEFINE x == ver[v]
           z == [x EXCEPT !.left = @ \ {r}, !.asked = @ \cup {r}]
<1>1. x \in VerSet /\ VSound(x, pass[v], v \in canceled)
  BY DEF VerKnown, VerTypes, VersSound
<1>2. ver' = [ver EXCEPT ![v] = z]
  OBVIOUS
<1>3. /\ z \in VerSet /\ z.left = x.left \ {r} /\ z.asked = x.asked \cup {r}
      /\ z.pc = x.pc /\ z.policy = x.policy /\ z.round = x.round /\ z.inbox = x.inbox /\ z.again = x.again
      /\ z.eligible = x.eligible /\ z.probed = x.probed /\ z.sites = x.sites /\ z.progress = x.progress
  BY <1>1 DEF VerSet
<1>4. x.pc = "round"
  OBVIOUS
<1>5. r \in x.left
  OBVIOUS
<1> HIDE DEF x, z
<1>6. Adds(z)
  BY <1>1, <1>3, SameSites DEF VSound
<1>7. Rounded(z) /\ Judging(z, v \in canceled) /\ Visits(z, pass[v])
  BY <1>1, <1>3, <1>4, <1>5 DEF VSound, Rounded, Judging, Visits
<1> QED BY <1>2, <1>3, <1>6, <1>7, RecordMoves DEF VSound

\* A result of a probe comes.
LEMMA AnswerSound ==
    ASSUME NEW v \in Verifiers, NEW x, x = ver[v], VSound(x, pass[v], v \in canceled), NEW r \in Routes, r \in x.asked,
           \A y \in x.inbox : y[1] # r, NEW what \in {"ok", "retry", "final"},
           NEW z, z = [x EXCEPT !.inbox = @ \cup {<<r, what>>}]
    PROVE  VSound(z, pass[v], v \in canceled) /\ z.pc = x.pc /\ z.asked = x.asked /\ z.inbox = x.inbox \cup {<<r, what>>}
<1> DEFINE a == <<r, what>>
<1>1. x \in VerSet /\ r \in Routes
  BY DEF VSound, VerSet
<1>2. a \in Answers /\ a[1] = r
  BY <1>1 DEF Answers
<1>3. z = [x EXCEPT !.inbox = x.inbox \cup {a}]
  BY <1>1 DEF VerSet
<1> HIDE DEF a
<1>4. /\ z \in VerSet /\ z.left = x.left /\ z.asked = x.asked
      /\ z.pc = x.pc /\ z.policy = x.policy /\ z.round = x.round /\ z.inbox = x.inbox \cup {a} /\ z.again = x.again
      /\ z.eligible = x.eligible /\ z.probed = x.probed /\ z.sites = x.sites /\ z.progress = x.progress
  <2>1. x.inbox \cup {a} \in SUBSET Answers
    BY <1>1, <1>2 DEF VerSet
  <2> QED BY <1>1, <1>3, <2>1 DEF VerSet
<1>5. Adds(z)
  <2>1. Adds(x) /\ z.sites = x.sites /\ z.progress = x.progress
    BY <1>4 DEF VSound
  <2> QED BY ONLY <2>1, SameSites
<1>6. x.pc = "round"
  BY DEF VSound, Rounded
<1>7. Rounded(z)
  BY <1>2, <1>4, <1>6 DEF VSound, Rounded
<1>8. Judging(z, v \in canceled) /\ Visits(z, pass[v])
  BY <1>4, <1>6 DEF VSound, Judging, Visits
<1> QED BY <1>4, <1>5, <1>7, <1>8 DEF VSound, a

\* It is taken: the node is left to another round, or done.
LEMMA TakeProbeMoves ==
    ASSUME VerKnown, NEW v \in Verifiers, NEW a \in ver[v].inbox, ver[v].pc = "round", pass' = pass, canceled' = canceled,
           \/ /\ ver[v].round < Rounds
              /\ ver' = [ver EXCEPT ![v].inbox = @ \ {a}, ![v].asked = @ \ {a[1]}, ![v].again = @ \cup {a[1]}]
           \/ ver' = [ver EXCEPT ![v].inbox = @ \ {a}, ![v].asked = @ \ {a[1]},
                                 ![v].probed = @ \cup {a[1]},
                                 ![v].eligible = IF a[2] = "ok" THEN @ \cup {a[1]} ELSE @]
    PROVE  VerMoves(v)
<1> DEFINE x == ver[v]
           r == a[1]
           more == IF a[2] = "ok" THEN x.eligible \cup {r} ELSE x.eligible
           y == [x EXCEPT !.inbox = @ \ {a}, !.asked = @ \ {r}, !.again = @ \cup {r}]
           z == [x EXCEPT !.inbox = @ \ {a}, !.asked = @ \ {r}, !.probed = @ \cup {r}, !.eligible = more]
<1>1. x \in VerSet /\ VSound(x, pass[v], v \in canceled)
  BY DEF VerKnown, VerTypes, VersSound
<1>2. (ver' = [ver EXCEPT ![v] = y] /\ x.round < Rounds) \/ ver' = [ver EXCEPT ![v] = z]
  OBVIOUS
<1>3. r \in Routes /\ r \in x.asked /\ a \in x.inbox
  BY <1>1 DEF VerSet, VSound, Rounded
<1>4. more \in SUBSET Routes /\ more \subseteq x.eligible \cup {r} /\ x.eligible \subseteq more
  BY <1>1, <1>3 DEF VerSet
<1>5. x.pc = "round"
  OBVIOUS
<1>6. \A b \in x.inbox \ {a} : b[1] # r
  BY <1>1, <1>3 DEF VSound, Rounded
<1> HIDE DEF x, r, more
<1>7. CASE ver' = [ver EXCEPT ![v] = y] /\ x.round < Rounds
  <2>1. /\ y \in VerSet /\ y.left = x.left /\ y.asked = x.asked \ {r} /\ y.again = x.again \cup {r}
        /\ y.pc = x.pc /\ y.policy = x.policy /\ y.round = x.round /\ y.inbox = x.inbox \ {a}
        /\ y.eligible = x.eligible /\ y.probed = x.probed /\ y.sites = x.sites /\ y.progress = x.progress
    BY <1>1, <1>3 DEF VerSet
  <2> HIDE DEF y
  <2>2. Adds(y)
    BY <1>1, <2>1, SameSites DEF VSound
  <2>3. Rounded(y)
    BY <1>1, <1>3, <1>5, <1>6, <1>7, <2>1 DEF VSound, Rounded
  <2>4. Judging(y, v \in canceled) /\ Visits(y, pass[v])
    BY <1>1, <1>5, <2>1 DEF VSound, Judging, Visits
  <2> QED BY <1>7, <2>1, <2>2, <2>3, <2>4, RecordMoves DEF VSound
<1>8. CASE ver' = [ver EXCEPT ![v] = z]
  <2>1. /\ z \in VerSet /\ z.left = x.left /\ z.asked = x.asked \ {r} /\ z.again = x.again
        /\ z.pc = x.pc /\ z.policy = x.policy /\ z.round = x.round /\ z.inbox = x.inbox \ {a}
        /\ z.eligible = more /\ z.probed = x.probed \cup {r} /\ z.sites = x.sites /\ z.progress = x.progress
    BY <1>1, <1>3, <1>4 DEF VerSet
  <2> HIDE DEF z
  <2>2. Adds(z)
    BY <1>1, <2>1, SameSites DEF VSound
  <2>3. Rounded(z)
    BY <1>1, <1>3, <1>4, <1>5, <1>6, <2>1 DEF VSound, Rounded
  <2>4. Judging(z, v \in canceled) /\ Visits(z, pass[v])
    BY <1>1, <1>5, <2>1 DEF VSound, Judging, Visits
  <2> QED BY <1>8, <2>1, <2>2, <2>3, <2>4, RecordMoves DEF VSound
<1> QED BY <1>2, <1>7, <1>8

\* A round is over and the next begins, with what is worth it.
LEMMA RoundOverMoves ==
    ASSUME VerKnown, NEW v \in Verifiers, RoundOver(v)
    PROVE  VerMoves(v)
<1> DEFINE x == ver[v]
           crew == RoundWorkers(x.round + 1, Cardinality(x.again))
           z == [x EXCEPT !.round = @ + 1, !.left = x.again, !.again = {}, !.crew = crew]
<1>1. x \in VerSet /\ VSound(x, pass[v], v \in canceled) /\ x.pc = "round" /\ x.left = {} /\ x.asked = {} /\ x.again # {}
      /\ pass' = pass /\ canceled' = canceled
  BY DEF VerKnown, VerTypes, VersSound, RoundOver, InBatch
<1>2. ver' = [ver EXCEPT ![v] = z]
  BY DEF RoundOver
<1>3. crew \in Int
  BY SitesAssumption DEF RoundWorkers, Larger
<1>4. x.round \in 1 .. Rounds /\ x.round < Rounds /\ Rounds \in Nat
  BY <1>1, VerifiersAssumption DEF VSound, Rounded, VerSet
<1>5. x.round + 1 \in 1 .. Rounds
  BY <1>4
<1> HIDE DEF x, crew
<1>6. /\ z \in VerSet /\ z.left = x.again /\ z.asked = x.asked /\ z.again = {}
      /\ z.pc = x.pc /\ z.policy = x.policy /\ z.inbox = x.inbox
      /\ z.eligible = x.eligible /\ z.probed = x.probed /\ z.sites = x.sites /\ z.progress = x.progress
  BY <1>1, <1>3, <1>5 DEF VerSet
<1> HIDE DEF z
<1>7. Adds(z)
  BY <1>1, <1>6, SameSites DEF VSound
<1>8. Rounded(z) /\ Judging(z, v \in canceled) /\ Visits(z, pass[v])
  BY <1>1, <1>6 DEF VSound, Rounded, Judging, Visits
<1> QED BY <1>1, <1>2, <1>6, <1>7, <1>8, RecordMoves DEF VSound

\* The rounds are over, or the batch is canceled.
LEMMA BatchOverMoves ==
    ASSUME VerKnown, NEW v \in Verifiers, BatchOver(v)
    PROVE  VerMoves(v)
<1> DEFINE x == ver[v]
           z == [x EXCEPT !.pc = "chosen", !.left = {}, !.asked = {}, !.inbox = {}, !.again = {}]
<1>1. x \in VerSet /\ VSound(x, pass[v], v \in canceled) /\ x.pc = "round"
      /\ (v \in canceled \/ (x.left = {} /\ x.asked = {} /\ x.again = {}))
      /\ pass' = pass /\ canceled' = canceled
  BY DEF VerKnown, VerTypes, VersSound, BatchOver, InBatch
<1>2. ver' = [ver EXCEPT ![v] = z]
  BY DEF BatchOver
<1>3. "chosen" \in VerPlaces
  BY DEF VerPlaces
<1> HIDE DEF x
<1>6. /\ z \in VerSet /\ z.left = {} /\ z.asked = {} /\ z.again = {} /\ z.pc = "chosen" /\ z.policy = x.policy /\ z.inbox = {}
      /\ z.eligible = x.eligible /\ z.probed = x.probed /\ z.sites = x.sites /\ z.progress = x.progress
  BY <1>1, <1>3 DEF VerSet
<1> HIDE DEF z
<1>7. Adds(z)
  BY <1>1, <1>6, SameSites DEF VSound
<1>8. Rounded(z) /\ Judging(z, v \in canceled) /\ Visits(z, pass[v])
  BY <1>1, <1>6 DEF VSound, Rounded, Judging, Visits
<1> QED BY <1>1, <1>2, <1>6, <1>7, <1>8, RecordMoves DEF VSound

\* A batch goes on or comes to its end with the same results.
LEMMA PlaceSound ==
    ASSUME NEW x, NEW p, NEW q, NEW gone, VSound(x, p, gone), x.pc \notin {"idle", "round"},
           NEW here \in VerPlaces \ {"idle", "round", "chosen", "returned"},
           NEW z, z = [x EXCEPT !.pc = here], Visits(z, q), x.pc # "returned"
    PROVE  VSound(z, q, gone)
<1>1. x \in VerSet
  BY DEF VSound
<1>2. /\ z \in VerSet /\ z.left = x.left /\ z.asked = x.asked /\ z.again = x.again /\ z.pc = here
      /\ z.policy = x.policy /\ z.inbox = x.inbox /\ z.round = x.round
      /\ z.eligible = x.eligible /\ z.probed = x.probed /\ z.sites = x.sites /\ z.progress = x.progress
  BY <1>1 DEF VerSet
<1>3. Adds(z)
  BY <1>2, SameSites DEF VSound
<1>4. Rounded(z) /\ Judging(z, gone)
  BY <1>2 DEF VSound, Rounded, Judging
<1> QED BY <1>2, <1>3, <1>4 DEF VSound

\* The verdict.
LEMMA VerdictSound ==
    ASSUME NEW x, NEW p, NEW gone, VSound(x, p, gone), x.pc \in {"chosen", "judge"},
           NEW judged \in SUBSET Routes, NEW good \in SUBSET x.eligible,
           judged = x.probed \cup x.eligible \/ (judged = x.probed /\ (x.policy.probe \/ x.eligible = {})),
           ~gone => \A r \in good : \A t \in x.policy.sites : \E y \in x.sites : y.route = r /\ y.target = t /\ Usable(y),
           NEW z, z = [x EXCEPT !.pc = "returned", !.judged = judged, !.good = good]
    PROVE  VSound(z, p, gone)
<1>1. x \in VerSet
  BY DEF VSound
<1>2. "returned" \in VerPlaces /\ good \in SUBSET Routes
  BY <1>1 DEF VerPlaces, VerSet
<1>3. /\ z \in VerSet /\ z.left = x.left /\ z.asked = x.asked /\ z.again = x.again /\ z.pc = "returned"
      /\ z.policy = x.policy /\ z.inbox = x.inbox /\ z.round = x.round /\ z.judged = judged /\ z.good = good
      /\ z.eligible = x.eligible /\ z.probed = x.probed /\ z.sites = x.sites /\ z.progress = x.progress
  BY <1>1, <1>2 DEF VerSet
<1>4. Adds(z)
  <2>1. Adds(x)
    BY DEF VSound
  <2>2. z.sites = x.sites /\ z.progress = x.progress
    BY <1>3
  <2> QED BY ONLY <2>1, <2>2, SameSites
<1>5. Rounded(z) /\ Visits(z, p)
  BY <1>3 DEF VSound, Rounded, Visits
<1>6. Judging(z, gone)
  <2>1. SUFFICES ASSUME ~gone
                 PROVE  /\ judged = x.policy.nodes
                        /\ \A r \in good :
                               /\ x.policy.probe => r \in x.probed
                               /\ \A t \in x.policy.sites : \E y \in x.sites : y.route = r /\ y.target = t /\ Usable(y)
    BY <1>3 DEF Judging
  <2>2. Rounded(x) /\ Judging(x, gone)
    BY DEF VSound
  <2>3. x.policy.probe \in BOOLEAN
    BY <1>1, PoliciesAre DEF VerSet
  <2>4. CASE x.policy.probe
    <3>1. x.probed = x.policy.nodes /\ x.eligible \subseteq x.probed
      BY <2>1, <2>2, <2>4 DEF Rounded, Judging
    <3> QED BY <2>1, <3>1
  <2>5. CASE ~x.policy.probe
    <3>1. x.probed = {} /\ x.eligible = x.policy.nodes
      BY <2>2, <2>5 DEF Rounded
    <3> QED BY <2>1, <2>5, <3>1
  <2> QED BY <2>4, <2>5
<1> QED BY <1>3, <1>4, <1>5, <1>6 DEF VSound

\* Sites or the verdict.
LEMMA BeginSitesMoves ==
    ASSUME VerKnown, NEW v \in Verifiers, BeginSites(v)
    PROVE  VerMoves(v)
<1> DEFINE x == ver[v]
<1>1. /\ x \in VerSet /\ VSound(x, pass[v], v \in canceled) /\ x.pc = "chosen" /\ canceled' = canceled
      /\ v \in Owners /\ pass \in [Owners -> PassSet] /\ ver \in [Verifiers -> VerSet]
  BY OwnersAssumption DEF VerKnown, VerTypes, VersSound, BeginSites, Passes
<1>2. CASE v \in canceled \/ x.policy.sites = {} \/ x.eligible = {}
  <2> DEFINE good == x.eligible \cap x.probed
             z == [x EXCEPT !.pc = "returned", !.judged = x.probed, !.good = good]
  <2>1. ver' = [ver EXCEPT ![v] = z] /\ pass' = pass
    BY <1>2 DEF BeginSites
  <2>2. x.probed \in SUBSET Routes /\ good \in SUBSET x.eligible
    BY <1>1 DEF VerSet
  <2>3. x.policy.probe \in BOOLEAN
    BY <1>1, PoliciesAre DEF VerSet
  <2> HIDE DEF x
  <2>4. CASE v \in canceled \/ x.policy.probe \/ x.eligible = {}
    <3>1. v \notin canceled =>
              \A r \in good : \A t \in x.policy.sites : \E y \in x.sites : y.route = r /\ y.target = t /\ Usable(y)
      BY <1>2
    <3>2. CASE x.policy.probe \/ x.eligible = {}
      <4>1. VSound(z, pass[v], v \in canceled)
        <5> HIDE DEF good
        <5> QED BY <1>1, <2>2, <3>1, <3>2, VerdictSound
      <4> QED BY <1>1, <2>1, <4>1, RecordMoves
    <3>3. CASE v \in canceled
      <4>1. /\ z \in VerSet /\ z.left = x.left /\ z.asked = x.asked /\ z.again = x.again /\ z.pc = "returned"
            /\ z.policy = x.policy /\ z.inbox = x.inbox /\ z.round = x.round
            /\ z.eligible = x.eligible /\ z.probed = x.probed /\ z.sites = x.sites /\ z.progress = x.progress
        <5>1. "returned" \in VerPlaces /\ good \in SUBSET Routes
          BY <1>1 DEF VerPlaces, VerSet
        <5> HIDE DEF good
        <5> QED BY <1>1, <2>2, <5>1 DEF VerSet
      <4> HIDE DEF z
      <4>2. Adds(z)
        BY <1>1, <4>1, SameSites DEF VSound
      <4>3. Rounded(z) /\ Visits(z, pass[v]) /\ Judging(z, v \in canceled)
        BY <1>1, <3>3, <4>1 DEF VSound, Rounded, Visits, Judging
      <4> QED BY <1>1, <2>1, <4>1, <4>2, <4>3, RecordMoves DEF VSound
    <3> QED BY <2>4, <3>2, <3>3
  <2>5. CASE v \notin canceled /\ ~x.policy.probe /\ x.eligible # {}
    <3>1. x.policy.sites = {}
      BY <1>2, <2>5
    <3> QED BY <1>1, <2>5, <3>1 DEF VSound, Rounded
  <2> QED BY <2>3, <2>4, <2>5
<1>3. CASE ~(v \in canceled \/ x.policy.sites = {} \/ x.eligible = {})
  <2> DEFINE wish == [r \in Routes |-> IF r \in x.eligible THEN x.policy.sites ELSE {}]
             q == Opened(x.eligible, wish)
             z == [x EXCEPT !.pc = "first"]
  <2>1. ver' = [ver EXCEPT ![v] = z] /\ pass' = [pass EXCEPT ![v] = q]
    BY <1>3 DEF BeginSites
  <2>2. x.eligible \in SUBSET Routes /\ wish \in [Routes -> SUBSET Targets]
    BY <1>1, PoliciesAre DEF VerSet
  <2>3. Passes'
    BY <1>1, <2>1, <2>2, PassBegins DEF VerKnown
  <2>4. q.on
    <3> HIDE DEF wish
    <3> QED BY <2>2, OpenedTidy
  <2>5. x.sites = {}
    BY <1>1 DEF VSound, Visits
  <2>6. z.pc = "first" /\ z.sites = {} /\ "first" \in VerPlaces /\ z \in VerSet
    BY <1>1, <2>5 DEF VerSet, VerPlaces
  <2>7. z = [x EXCEPT !.pc = "first"]
    OBVIOUS
  <2> HIDE DEF q, z, x
  <2>8. Visits(z, q)
    BY <2>4, <2>6 DEF Visits
  <2>9. VSound(z, q, v \in canceled)
    BY <1>1, <2>6, <2>7, <2>8, PlaceSound
  <2> QED BY <1>1, <2>1, <2>3, <2>6, <2>9 DEF VerMoves
<1> QED BY <1>2, <1>3

\* Where pass and place change and nothing else does.
LEMMA PlaceMoves ==
    ASSUME VerKnown, NEW v \in Verifiers, NEW here \in {"first", "waiting", "second", "judge"},
           ver[v].pc \notin {"idle", "round", "returned"}, ver' = [ver EXCEPT ![v].pc = here],
           NEW q, pass' = [pass EXCEPT ![v] = q], canceled' = canceled, Passes',
           q.on <=> here \in {"first", "second"}, here # "first",
           here = "second" => \A r \in Routes, t \in Targets :
               Coming(q, r, t) => \E y \in ver[v].sites : y.route = r /\ y.target = t /\ ~Usable(y)
    PROVE  VerMoves(v)
<1> DEFINE x == ver[v]
           z == [x EXCEPT !.pc = here]
<1>1. /\ x \in VerSet /\ VSound(x, pass[v], v \in canceled) /\ here \in VerPlaces \ {"idle", "round", "chosen", "returned"}
      /\ v \in Owners /\ pass \in [Owners -> PassSet] /\ ver \in [Verifiers -> VerSet]
  BY OwnersAssumption DEF VerKnown, VerTypes, VersSound, Passes, VerPlaces
<1>2. ver' = [ver EXCEPT ![v] = z] /\ x.pc \notin {"idle", "round", "returned"}
  OBVIOUS
<1>3. z.pc = here /\ z.sites = x.sites /\ z \in VerSet
  BY <1>1 DEF VerSet
<1>4. z = [x EXCEPT !.pc = here]
  OBVIOUS
<1>5. here = "second" => \A r \in Routes, t \in Targets :
               Coming(q, r, t) => \E y \in x.sites : y.route = r /\ y.target = t /\ ~Usable(y)
  OBVIOUS
<1> HIDE DEF x, z
<1>6. Visits(z, q)
  BY <1>1, <1>3, <1>5 DEF Visits
<1>7. VSound(z, q, v \in canceled)
  BY <1>1, <1>2, <1>4, <1>6, PlaceSound
<1> QED BY <1>1, <1>2, <1>3, <1>7 DEF VerMoves

\* The ends of the passes, and the pause.
LEMMA SitesPlacesMoves ==
    ASSUME VerKnown, NEW v \in Verifiers, SitesOver(v) \/ SitesWait(v) \/ SitesOverAgain(v)
    PROVE  VerMoves(v)
<1>1. /\ ver[v] \in VerSet /\ VSound(ver[v], pass[v], v \in canceled) /\ canceled' = canceled
      /\ v \in Owners /\ pass \in [Owners -> PassSet] /\ ver \in [Verifiers -> VerSet]
  BY OwnersAssumption DEF VerKnown, VerTypes, VersSound, Passes, SitesOver, SitesWait, SitesOverAgain
<1>2. ~NoPass.on
  BY DEF NoPass
<1>3. ASSUME EndPass(v), ver[v].pc \in {"first", "second"}, NEW here \in {"waiting", "judge"}, ver' = [ver EXCEPT ![v].pc = here]
      PROVE  VerMoves(v)
  <2>1. Passes' /\ pass' = [pass EXCEPT ![v] = NoPass]
    BY <1>1, <1>3, PassEnds DEF VerKnown
  <2> QED BY <1>1, <1>2, <1>3, <2>1, PlaceMoves
<1>4. CASE SitesOver(v)
  BY <1>3, <1>4 DEF SitesOver
<1>5. CASE SitesOverAgain(v)
  BY <1>3, <1>5 DEF SitesOverAgain
<1>6. CASE SitesWait(v)
  <2>1. ver[v].pc = "waiting"
    BY <1>6 DEF SitesWait
  <2>2. CASE ver' = [ver EXCEPT ![v].pc = "judge"] /\ UNCHANGED pass
    <3>1. Passes' /\ pass' = [pass EXCEPT ![v] = pass[v]] /\ ~pass[v].on
      BY <1>1, <2>1, <2>2 DEF VerKnown, Passes, Taken, VSound, Visits
    <3> QED BY <1>1, <2>1, <2>2, <3>1, PlaceMoves
  <2>3. CASE ver' = [ver EXCEPT ![v].pc = "second"] /\ pass' = [pass EXCEPT ![v] = Opened(ver[v].eligible, AgainSites(v))]
    <3> DEFINE wish == AgainSites(v)
               q == Opened(ver[v].eligible, wish)
    <3>1. ver[v].eligible \in SUBSET Routes
      BY <1>1 DEF VerSet
    <3>2. wish \in [Routes -> SUBSET Targets]
      <4>1. ASSUME NEW r \in Routes
            PROVE  {x.target : x \in {y \in ver[v].sites : y.route = r /\ y.res.verdict # "usable" /\ y.res.retry}} \subseteq Targets
        BY <1>1 DEF VerSet, Found
      <4> QED BY <4>1 DEF AgainSites
    <3>3. ASSUME NEW r \in Routes, NEW t \in wish[r] PROVE \E y \in ver[v].sites : y.route = r /\ y.target = t /\ ~Usable(y)
      BY <3>3 DEF AgainSites, Usable
    <3>4. pass' = [pass EXCEPT ![v] = q]
      BY <2>3
    <3> HIDE DEF wish
    <3>5. Passes'
      BY <1>1, <3>1, <3>2, <3>4, PassBegins DEF VerKnown
    <3>6. q.on /\ \A r \in Routes, t \in Targets : Coming(q, r, t) <=> r \in ver[v].eligible /\ t \in wish[r]
      BY <3>1, <3>2, OpenedTidy
    <3> HIDE DEF q
    <3>7. \A r \in Routes, t \in Targets : Coming(q, r, t) => \E y \in ver[v].sites : y.route = r /\ y.target = t /\ ~Usable(y)
      BY <3>3, <3>6
    <3> QED BY <1>1, <2>1, <2>3, <3>4, <3>5, <3>6, <3>7, PlaceMoves
  <2> QED BY <1>6, <2>2, <2>3 DEF SitesWait
<1> QED BY <1>4, <1>5, <1>6

\* The sites are judged.
LEMMA JudgeMoves ==
    ASSUME VerKnown, NEW v \in Verifiers, Judge(v)
    PROVE  VerMoves(v)
<1> DEFINE x == ver[v]
           good == {r \in x.eligible : Passed(v, r)}
           judged == x.probed \cup x.eligible
           z == [x EXCEPT !.pc = "returned", !.judged = judged, !.good = good]
<1>1. /\ x \in VerSet /\ VSound(x, pass[v], v \in canceled) /\ x.pc = "judge" /\ canceled' = canceled /\ pass' = pass
      /\ ver' = [ver EXCEPT ![v] = z]
  BY DEF VerKnown, VerTypes, VersSound, Judge
<1>2. judged \in SUBSET Routes /\ good \in SUBSET x.eligible
  BY <1>1 DEF VerSet
<1>3. \A r \in good : \A t \in x.policy.sites : \E y \in x.sites : y.route = r /\ y.target = t /\ Usable(y)
  BY DEF Passed, Usable
<1>4. judged = x.probed \cup x.eligible /\ z = [x EXCEPT !.pc = "returned", !.judged = judged, !.good = good]
  OBVIOUS
<1> HIDE DEF x, judged, good, z
<1>5. VSound(z, pass[v], v \in canceled)
  BY <1>1, <1>2, <1>3, <1>4, VerdictSound
<1> QED BY <1>1, <1>5, RecordMoves

\* What a first result counts.
LEMMA SiteResultSound ==
    ASSUME NEW x, NEW p, NEW q, NEW gone, VSound(x, p, gone), x.pc = "first", NEW f, Took(p, q, f),
           NEW u, u = Counted(x.progress[f.target], f),
           NEW z, z = [x EXCEPT !.sites = @ \cup {f}, !.progress = [@ EXCEPT ![f.target] = u]]
    PROVE  VSound(z, q, gone)
<1>1. x \in VerSet /\ Rounded(x) /\ Judging(x, gone) /\ Adds(x) /\ Visits(x, p)
  BY DEF VSound
<1>2. f \in Found /\ f.route \in Routes /\ f.target \in Targets
  BY DEF Took, Found
<1>3. x.progress[f.target] \in ProgressSet
  BY <1>1, <1>2 DEF VerSet
<1>4. /\ u \in ProgressSet /\ u.done = x.progress[f.target].done + 1
      /\ u.passed = IF Usable(f) THEN x.progress[f.target].passed + 1 ELSE x.progress[f.target].passed
      /\ u.failed = IF Usable(f) THEN x.progress[f.target].failed ELSE x.progress[f.target].failed + 1
      /\ u.retried = x.progress[f.target].retried /\ u.recovered = x.progress[f.target].recovered
  <2> DEFINE w == x.progress[f.target]
             pa == IF Usable(f) THEN w.passed + 1 ELSE w.passed
             fa == IF Usable(f) THEN w.failed ELSE w.failed + 1
             do == w.done + 1
  <2>1. w \in ProgressSet /\ u = [w EXCEPT !.done = do, !.passed = pa, !.failed = fa]
    BY <1>3 DEF ProgressSet, Counted, Usable
  <2>2. pa \in Int /\ fa \in Int /\ do \in Int
    BY <1>3 DEF ProgressSet
  <2> HIDE DEF w, pa, fa, do
  <2>3. u \in ProgressSet /\ u.done = do /\ u.passed = pa /\ u.failed = fa /\ u.retried = w.retried /\ u.recovered = w.recovered
    BY <2>1, <2>2 DEF ProgressSet
  <2> QED BY <2>3 DEF w, pa, fa, do
<1>5. /\ z \in VerSet /\ z.sites = x.sites \cup {f} /\ z.progress = [x.progress EXCEPT ![f.target] = u]
      /\ z.left = x.left /\ z.asked = x.asked /\ z.again = x.again /\ z.pc = x.pc
      /\ z.policy = x.policy /\ z.inbox = x.inbox /\ z.round = x.round
      /\ z.eligible = x.eligible /\ z.probed = x.probed
  <2> DEFINE pro == [x.progress EXCEPT ![f.target] = u]
             more == x.sites \cup {f}
  <2>1. pro \in [Targets -> ProgressSet] /\ more \in SUBSET Found
    BY <1>1, <1>2, <1>4 DEF VerSet
  <2>2. z = [x EXCEPT !.sites = more, !.progress = pro]
    BY <1>1 DEF VerSet
  <2> HIDE DEF pro, more
  <2>3. /\ z \in VerSet /\ z.sites = more /\ z.progress = pro
        /\ z.left = x.left /\ z.asked = x.asked /\ z.again = x.again /\ z.pc = x.pc
        /\ z.policy = x.policy /\ z.inbox = x.inbox /\ z.round = x.round
        /\ z.eligible = x.eligible /\ z.probed = x.probed
    BY <1>1, <2>1, <2>2 DEF VerSet
  <2> QED BY <2>3 DEF pro, more
<1>6. \A y \in x.sites : ~(y.route = f.route /\ y.target = f.target)
  BY <1>1, <1>2 DEF Visits, Took
<1>7. Adds(z)
  <2>1. IsFiniteSet(x.sites) /\ f \notin x.sites
    BY <1>1, <1>6 DEF Adds
  <2>2. IsFiniteSet(z.sites)
    <3>1. IsFiniteSet(x.sites \cup {f})
      BY <2>1, OneMore
    <3> QED BY <1>5, <3>1
  <2>3. \A y, w \in z.sites : y.route = w.route /\ y.target = w.target => y = w
    BY <1>1, <1>5, <1>6 DEF Adds
  <2>4. ASSUME NEW t \in Targets, t # f.target PROVE AddsAt(z, t)
    <3>1. At(z, t) = At(x, t) /\ Good(z, t) = Good(x, t)
      BY <1>5, <2>4 DEF At, Good
    <3>2. z.progress[t] = x.progress[t] /\ AddsAt(x, t)
      BY <1>1, <1>5, <2>4 DEF VerSet, Adds
    <3> QED BY <3>1, <3>2 DEF AddsAt
  <2>5. AddsAt(z, f.target)
    <3> DEFINE t == f.target
    <3>1. At(z, t) = At(x, t) \cup {f} /\ f \notin At(x, t) /\ IsFiniteSet(At(x, t))
      <4>1. At(x, t) \subseteq x.sites
        BY DEF At
      <4>2. At(z, t) = At(x, t) \cup {f}
        BY <1>5 DEF At
      <4> QED BY <2>1, <4>1, <4>2, FS_Subset
    <3>2. Good(z, t) = IF Usable(f) THEN Good(x, t) \cup {f} ELSE Good(x, t)
      <4>1. \A y : y \in Good(z, t) <=> y \in Good(x, t) \/ (y = f /\ Usable(f))
        BY <3>1 DEF Good
      <4> QED BY <4>1
    <3>3. f \notin Good(x, t) /\ IsFiniteSet(Good(x, t))
      <4>1. Good(x, t) \subseteq At(x, t)
        BY DEF Good
      <4> QED BY <3>1, <4>1, FS_Subset
    <3>4. z.progress[t] = u /\ AddsAt(x, t)
      BY <1>1, <1>2, <1>5 DEF VerSet, Adds
    <3>5. Cardinality(At(z, t)) = Cardinality(At(x, t)) + 1
      BY <3>1, OneMore
    <3>6. Cardinality(Good(z, t)) = IF Usable(f) THEN Cardinality(Good(x, t)) + 1 ELSE Cardinality(Good(x, t))
      BY <3>2, <3>3, OneMore
    <3>7. x.progress[t].done \in Int /\ x.progress[t].passed \in Int /\ x.progress[t].failed \in Int
      BY <1>3 DEF ProgressSet
    <3> DEFINE w == x.progress[t]
    <3>8. w = x.progress[f.target] /\ w.done = Cardinality(At(x, t)) /\ w.passed = Cardinality(Good(x, t))
          /\ w.passed + w.failed = w.done /\ w.recovered <= w.retried
      BY <3>4 DEF AddsAt
    <3> HIDE DEF w
    <3>9. CASE Usable(f)
      <4>1. u.done = w.done + 1 /\ u.passed = w.passed + 1 /\ u.failed = w.failed
            /\ u.recovered = w.recovered /\ u.retried = w.retried
        BY <1>4, <3>8, <3>9
      <4>2. Cardinality(Good(z, t)) = w.passed + 1 /\ Cardinality(At(z, t)) = w.done + 1
        BY <3>5, <3>6, <3>8, <3>9
      <4>3. w.done \in Int /\ w.passed \in Int /\ w.failed \in Int
        BY <3>7 DEF w
      <4>4. u.passed + u.failed = u.done /\ u.recovered <= u.retried
        BY <3>8, <4>1, <4>3
      <4> QED BY <3>4, <4>1, <4>2, <4>4 DEF AddsAt
    <3>10. CASE ~Usable(f)
      <4>1. u.done = w.done + 1 /\ u.passed = w.passed /\ u.failed = w.failed + 1
            /\ u.recovered = w.recovered /\ u.retried = w.retried
        BY <1>4, <3>8, <3>10
      <4>2. Cardinality(Good(z, t)) = w.passed /\ Cardinality(At(z, t)) = w.done + 1
        BY <3>5, <3>6, <3>8, <3>10
      <4>3. w.done \in Int /\ w.passed \in Int /\ w.failed \in Int
        BY <3>7 DEF w
      <4>4. u.passed + u.failed = u.done /\ u.recovered <= u.retried
        BY <3>8, <4>1, <4>3
      <4> QED BY <3>4, <4>1, <4>2, <4>4 DEF AddsAt
    <3> QED BY <3>9, <3>10
  <2> QED BY <2>2, <2>3, <2>4, <2>5 DEF Adds
<1>8. Visits(z, q)
  <2>1. \A r \in Routes, t \in Targets : Coming(q, r, t) => \A y \in z.sites : ~(y.route = r /\ y.target = t)
    BY <1>1, <1>5 DEF Visits, Took
  <2> QED BY <1>5, <2>1 DEF Visits, Took
<1>9. Rounded(z) /\ Judging(z, gone)
  BY <1>1, <1>5 DEF Rounded, Judging
<1> QED BY <1>5, <1>7, <1>8, <1>9 DEF VSound

\* What a second one does.
LEMMA SiteResultAgainSound ==
    ASSUME NEW x, NEW p, NEW q, NEW gone, VSound(x, p, gone), x.pc = "second", NEW f, Took(p, q, f),
           NEW old, old = CHOOSE y \in x.sites : y.route = f.route /\ y.target = f.target,
           NEW u, u = Recounted(x.progress[f.target], f),
           NEW z, z = [x EXCEPT !.sites = (@ \ {old}) \cup {f}, !.progress = [@ EXCEPT ![f.target] = u]]
    PROVE  VSound(z, q, gone)
<1>1. x \in VerSet /\ Rounded(x) /\ Judging(x, gone) /\ Adds(x) /\ Visits(x, p)
  BY DEF VSound
<1>2. f \in Found /\ f.route \in Routes /\ f.target \in Targets
  BY DEF Took, Found
<1>3. x.progress[f.target] \in ProgressSet
  BY <1>1, <1>2 DEF VerSet
<1>4. /\ u \in ProgressSet /\ u.done = x.progress[f.target].done /\ u.retried = x.progress[f.target].retried + 1
      /\ u.passed = IF Usable(f) THEN x.progress[f.target].passed + 1 ELSE x.progress[f.target].passed
      /\ u.failed = IF Usable(f) THEN x.progress[f.target].failed - 1 ELSE x.progress[f.target].failed
      /\ u.recovered = IF Usable(f) THEN x.progress[f.target].recovered + 1 ELSE x.progress[f.target].recovered
  <2> DEFINE w == x.progress[f.target]
             pa == IF Usable(f) THEN w.passed + 1 ELSE w.passed
             fa == IF Usable(f) THEN w.failed - 1 ELSE w.failed
             co == IF Usable(f) THEN w.recovered + 1 ELSE w.recovered
             re == w.retried + 1
  <2>1. w \in ProgressSet /\ u = [w EXCEPT !.retried = re, !.passed = pa, !.failed = fa, !.recovered = co]
    BY <1>3 DEF ProgressSet, Recounted, Usable
  <2>2. pa \in Int /\ fa \in Int /\ co \in Int /\ re \in Int
    BY <1>3 DEF ProgressSet
  <2> HIDE DEF w, pa, fa, co, re
  <2>3. u \in ProgressSet /\ u.retried = re /\ u.passed = pa /\ u.failed = fa /\ u.recovered = co /\ u.done = w.done
    BY <2>1, <2>2 DEF ProgressSet
  <2> QED BY <2>3 DEF w, pa, fa, co, re
<1>5. old \in x.sites /\ old.route = f.route /\ old.target = f.target /\ ~Usable(old)
  <2>1. PICK w \in x.sites : w.route = f.route /\ w.target = f.target /\ ~Usable(w)
    BY <1>1, <1>2 DEF Visits, Took
  <2>2. old = w
    BY <1>1, <2>1 DEF Adds
  <2> QED BY <2>1, <2>2
<1>6. /\ z \in VerSet /\ z.sites = (x.sites \ {old}) \cup {f} /\ z.progress = [x.progress EXCEPT ![f.target] = u]
      /\ z.left = x.left /\ z.asked = x.asked /\ z.again = x.again /\ z.pc = x.pc
      /\ z.policy = x.policy /\ z.inbox = x.inbox /\ z.round = x.round
      /\ z.eligible = x.eligible /\ z.probed = x.probed
  <2> DEFINE pro == [x.progress EXCEPT ![f.target] = u]
             more == (x.sites \ {old}) \cup {f}
  <2>1. pro \in [Targets -> ProgressSet] /\ more \in SUBSET Found
    BY <1>1, <1>2, <1>4 DEF VerSet
  <2>2. z = [x EXCEPT !.sites = more, !.progress = pro]
    BY <1>1 DEF VerSet
  <2> HIDE DEF pro, more
  <2>3. /\ z \in VerSet /\ z.sites = more /\ z.progress = pro
        /\ z.left = x.left /\ z.asked = x.asked /\ z.again = x.again /\ z.pc = x.pc
        /\ z.policy = x.policy /\ z.inbox = x.inbox /\ z.round = x.round
        /\ z.eligible = x.eligible /\ z.probed = x.probed
    BY <1>1, <2>1, <2>2 DEF VerSet
  <2> QED BY <2>3 DEF pro, more
<1>7. Adds(z)
  <2>1. IsFiniteSet(x.sites) /\ \A y \in x.sites : y.route = f.route /\ y.target = f.target => y = old
    BY <1>1, <1>5 DEF Adds
  <2>2. IsFiniteSet(x.sites \ {old}) /\ f \notin x.sites \ {old}
    BY <2>1, FS_RemoveElement
  <2>3. IsFiniteSet(z.sites)
    <3>1. IsFiniteSet((x.sites \ {old}) \cup {f})
      BY <2>2, OneMore
    <3> QED BY <1>6, <3>1
  <2>4. \A y, w \in z.sites : y.route = w.route /\ y.target = w.target => y = w
    BY <1>1, <1>6, <2>1 DEF Adds
  <2>5. ASSUME NEW t \in Targets, t # f.target PROVE AddsAt(z, t)
    <3>1. At(z, t) = At(x, t) /\ Good(z, t) = Good(x, t)
      BY <1>5, <1>6, <2>5 DEF At, Good
    <3>2. z.progress[t] = x.progress[t] /\ AddsAt(x, t)
      BY <1>1, <1>6, <2>5 DEF VerSet, Adds
    <3> QED BY <3>1, <3>2 DEF AddsAt
  <2>6. AddsAt(z, f.target)
    <3> DEFINE t == f.target
               A == At(x, t) \ {old}
    <3>1. At(z, t) = A \cup {f} /\ f \notin A /\ old \in At(x, t) /\ IsFiniteSet(At(x, t))
      <4>1. At(x, t) \subseteq x.sites /\ old \in At(x, t)
        BY <1>5 DEF At
      <4>2. At(z, t) = A \cup {f}
        BY <1>6 DEF At
      <4> QED BY <2>1, <2>2, <4>1, <4>2, FS_Subset
    <3>2. IsFiniteSet(A) /\ Cardinality(A) = Cardinality(At(x, t)) - 1 /\ Cardinality(At(x, t)) \in Nat
      BY <3>1, FS_RemoveElement, FS_CardinalityType
    <3> HIDE DEF A
    <3>3. Cardinality(At(z, t)) = Cardinality(At(x, t))
      <4> DEFINE N == A \cup {f}
      <4>1. Cardinality(N) = Cardinality(A) + 1
        BY <3>1, <3>2, OneMore
      <4>2. At(z, t) = N
        BY <3>1
      <4> HIDE DEF N
      <4> QED BY <3>2, <4>1, <4>2
    <3>4. Good(z, t) = IF Usable(f) THEN Good(x, t) \cup {f} ELSE Good(x, t)
      <4>1. \A y : y \in Good(z, t) <=> y \in Good(x, t) \/ (y = f /\ Usable(f))
        BY <1>5, <3>1 DEF Good, A
      <4>2. CASE Usable(f)
        <5>1. \A y : y \in Good(z, t) <=> y \in Good(x, t) \cup {f}
          BY <4>1, <4>2
        <5> QED BY <4>2, <5>1
      <4>3. CASE ~Usable(f)
        <5>1. \A y : y \in Good(z, t) <=> y \in Good(x, t)
          BY <4>1, <4>3
        <5> QED BY <4>3, <5>1
      <4> QED BY <4>2, <4>3
    <3>5. f \notin Good(x, t) /\ IsFiniteSet(Good(x, t))
      <4>1. Good(x, t) \subseteq At(x, t) /\ old \notin Good(x, t)
        BY <1>5 DEF Good
      <4>2. f \notin Good(x, t)
        BY <3>1, <4>1 DEF A
      <4> QED BY <3>1, <4>1, <4>2, FS_Subset
    <3>6. z.progress[t] = u /\ AddsAt(x, t)
      BY <1>1, <1>2, <1>6 DEF VerSet, Adds
    <3>7. Cardinality(Good(z, t)) = IF Usable(f) THEN Cardinality(Good(x, t)) + 1 ELSE Cardinality(Good(x, t))
      <4>1. Cardinality(Good(x, t) \cup {f}) = Cardinality(Good(x, t)) + 1
        BY <3>5, OneMore
      <4> QED BY <3>4, <4>1
    <3>8. x.progress[t].done \in Int /\ x.progress[t].passed \in Int /\ x.progress[t].failed \in Int
          /\ x.progress[t].retried \in Int /\ x.progress[t].recovered \in Int
      BY <1>3 DEF ProgressSet
    <3> DEFINE w == x.progress[t]
    <3>9. w = x.progress[f.target] /\ w.done = Cardinality(At(x, t)) /\ w.passed = Cardinality(Good(x, t))
          /\ w.passed + w.failed = w.done /\ w.recovered <= w.retried
      BY <3>6 DEF AddsAt
    <3>10. w.done \in Int /\ w.passed \in Int /\ w.failed \in Int /\ w.recovered \in Int /\ w.retried \in Int
      BY <3>8
    <3> HIDE DEF w
    <3>11. CASE Usable(f)
      <4>1. u.done = w.done /\ u.passed = w.passed + 1 /\ u.failed = w.failed - 1
            /\ u.recovered = w.recovered + 1 /\ u.retried = w.retried + 1
        BY <1>4, <3>9, <3>11
      <4>2. Cardinality(Good(z, t)) = w.passed + 1 /\ Cardinality(At(z, t)) = w.done
        BY <3>3, <3>7, <3>9, <3>11
      <4>4. u.passed + u.failed = u.done /\ u.recovered <= u.retried
        BY <3>9, <3>10, <4>1
      <4> QED BY <3>6, <4>1, <4>2, <4>4 DEF AddsAt
    <3>12. CASE ~Usable(f)
      <4>1. u.done = w.done /\ u.passed = w.passed /\ u.failed = w.failed
            /\ u.recovered = w.recovered /\ u.retried = w.retried + 1
        BY <1>4, <3>9, <3>12
      <4>2. Cardinality(Good(z, t)) = w.passed /\ Cardinality(At(z, t)) = w.done
        BY <3>3, <3>7, <3>9, <3>12
      <4>4. u.passed + u.failed = u.done /\ u.recovered <= u.retried
        BY <3>9, <3>10, <4>1
      <4> QED BY <3>6, <4>1, <4>2, <4>4 DEF AddsAt
    <3> QED BY <3>11, <3>12
  <2> QED BY <2>3, <2>4, <2>5, <2>6 DEF Adds
<1>8. Visits(z, q)
  <2>1. ASSUME NEW r \in Routes, NEW t \in Targets, Coming(q, r, t)
        PROVE  \E y \in z.sites : y.route = r /\ y.target = t /\ ~Usable(y)
    <3>1. Coming(p, r, t) /\ ~(r = f.route /\ t = f.target)
      BY <2>1 DEF Took
    <3>2. PICK y \in x.sites : y.route = r /\ y.target = t /\ ~Usable(y)
      BY <1>1, <3>1 DEF Visits
    <3>3. y \in z.sites
      BY <1>5, <1>6, <3>1, <3>2
    <3> QED BY <3>2, <3>3
  <2> QED BY <1>6, <2>1 DEF Visits, Took
<1>9. Rounded(z) /\ Judging(z, gone)
  BY <1>1, <1>6 DEF Rounded, Judging
<1> QED BY <1>6, <1>7, <1>8, <1>9 DEF VSound

\* The steps that take them.
LEMMA SiteResultMoves ==
    ASSUME VerKnown, NEW v \in Verifiers, SiteResult(v) \/ SiteResultAgain(v)
    PROVE  VerMoves(v)
<1> DEFINE x == ver[v]
<1>1. /\ x \in VerSet /\ VSound(x, pass[v], v \in canceled) /\ canceled' = canceled
      /\ v \in Owners /\ pass \in [Owners -> PassSet] /\ ver \in [Verifiers -> VerSet]
  BY OwnersAssumption DEF VerKnown, VerTypes, VersSound, Passes, SiteResult, SiteResultAgain
<1>2. ASSUME NEW f \in pass[v].out, Receive(v, f)
      PROVE  /\ Passes' /\ pass' = [pass EXCEPT ![v] = pass'[v]] /\ Took(pass[v], pass'[v], f)
             /\ f.target \in Targets
  BY <1>1, <1>2, ResultTaken DEF VerKnown, Took, Found
<1>3. ASSUME NEW z, ver' = [ver EXCEPT ![v] = z], VSound(z, pass'[v], v \in canceled), Passes',
             pass' = [pass EXCEPT ![v] = pass'[v]]
      PROVE  VerMoves(v)
  BY <1>1, <1>3 DEF VerMoves, VSound
<1>4. CASE SiteResult(v)
  <2>1. PICK f \in pass[v].out :
           /\ Receive(v, f)
           /\ ver' = [ver EXCEPT ![v].sites = @ \cup {f}, ![v].progress[f.target] = Counted(@, f)]
    BY <1>4 DEF SiteResult
  <2> DEFINE u == Counted(x.progress[f.target], f)
             z == [x EXCEPT !.sites = @ \cup {f}, !.progress = [@ EXCEPT ![f.target] = u]]
  <2>2. ver' = [ver EXCEPT ![v] = z]
    BY <1>1, <2>1 DEF VerSet
  <2>3. x.pc = "first"
    BY <1>4 DEF SiteResult
  <2>4. VSound(z, pass'[v], v \in canceled)
    BY <1>1, <1>2, <2>1, <2>3, SiteResultSound
  <2> QED BY <1>2, <1>3, <2>1, <2>2, <2>4
<1>5. CASE SiteResultAgain(v)
  <2>1. PICK f \in pass[v].out :
           /\ Receive(v, f)
           /\ ver' = [ver EXCEPT ![v].sites = (@ \ {SiteOf(v, f.route, f.target)}) \cup {f},
                                 ![v].progress[f.target] = Recounted(@, f)]
    BY <1>5 DEF SiteResultAgain
  <2> DEFINE old == CHOOSE y \in x.sites : y.route = f.route /\ y.target = f.target
             u == Recounted(x.progress[f.target], f)
             z == [x EXCEPT !.sites = (@ \ {old}) \cup {f}, !.progress = [@ EXCEPT ![f.target] = u]]
  <2>2. ver' = [ver EXCEPT ![v] = z]
    BY <1>1, <2>1 DEF VerSet, SiteOf
  <2>3. x.pc = "second"
    BY <1>5 DEF SiteResultAgain
  <2>4. VSound(z, pass'[v], v \in canceled)
    BY <1>1, <1>2, <2>1, <2>3, SiteResultAgainSound
  <2> QED BY <1>2, <1>3, <2>1, <2>2, <2>4
<1> QED BY <1>4, <1>5

\* Every step of a batch is one of these.
LEMMA BatchMoves ==
    ASSUME VerKnown, NEW v \in Verifiers, BeginVerify(v, menu.policies) \/ BatchStep(v)
    PROVE  VerMoves(v)
<1>1. CASE BeginVerify(v, menu.policies)
  BY <1>1, BeginVerifyMoves
<1>2. CASE Submit(v)
  <2>1. ver[v].pc = "round" /\ pass' = pass /\ canceled' = canceled
    BY <1>2 DEF Submit
  <2>2. PICK r \in ver[v].left : ver' = [ver EXCEPT ![v].left = @ \ {r}, ![v].asked = @ \cup {r}]
    BY <1>2 DEF Submit
  <2> QED BY <2>1, <2>2, SubmitMoves
<1>3. CASE TakeProbe(v)
  <2>1. ver[v].pc = "round" /\ pass' = pass /\ canceled' = canceled
    BY <1>3 DEF TakeProbe, InBatch
  <2>2. PICK a \in ver[v].inbox :
          \/ /\ ver[v].round < Rounds
             /\ ver' = [ver EXCEPT ![v].inbox = @ \ {a}, ![v].asked = @ \ {a[1]}, ![v].again = @ \cup {a[1]}]
          \/ ver' = [ver EXCEPT ![v].inbox = @ \ {a}, ![v].asked = @ \ {a[1]},
                                ![v].probed = @ \cup {a[1]},
                                ![v].eligible = IF a[2] = "ok" THEN @ \cup {a[1]} ELSE @]
    BY <1>3 DEF TakeProbe
  <2> QED BY <2>1, <2>2, TakeProbeMoves
<1>4. CASE RoundOver(v) \/ BatchOver(v)
  BY <1>4, RoundOverMoves, BatchOverMoves
<1>5. CASE BeginSites(v) \/ SitesOver(v) \/ SitesWait(v) \/ SitesOverAgain(v) \/ Judge(v)
  BY <1>5, BeginSitesMoves, SitesPlacesMoves, JudgeMoves
<1>6. CASE SiteResult(v) \/ SiteResultAgain(v)
  BY <1>6, SiteResultMoves
<1> QED BY <1>1, <1>2, <1>3, <1>4, <1>5, <1>6 DEF BatchStep

\* A batch that is not canceled waits for a task as long as it has asked for
\* its node and has no result, and for its own task; a task has a function,
\* and what comes while it runs has one too.
Awaited(x, t, r, v) ==
    /\ v \in t.waiters \cup t.later => x.pc = "round" /\ r \in x.asked /\ \A y \in x.inbox : y[1] # r
    /\ ~(v \in t.waiters /\ v \in t.later)
    /\ t.fn = v => v \in t.waiters
    /\ t.laterFn = v => v \in t.later
Tasked(t) ==
    /\ t.pc # "none" => t.fn \in Verifiers
    /\ t.later # {} => t.laterFn \in Verifiers
TasksSound ==
    \A r \in Routes : Tasked(task[r]) /\ \A v \in Verifiers : v \in canceled \/ Awaited(ver[v], task[r], r, v)

\* A session outlives its batch only when a task opened it after a cancel.
Sessions ==
    /\ \A s \in open : InBatch(s[1]) \/ s \in late
    /\ \A s \in late : s[1] \in canceled

VerSafe == VerKnown /\ TasksSound /\ Sessions

\* One batch moves.
LEMMA VersMove ==
    ASSUME VerKnown, NEW v \in Verifiers, VerMoves(v)
    PROVE  /\ Passes' /\ VersSound' /\ ver' \in [Verifiers -> VerSet]
           /\ \A u \in Verifiers : u # v => ver'[u] = ver[u]
<1>1. SUFFICES ASSUME NEW u \in Verifiers
               PROVE  VSound(ver'[u], pass'[u], u \in canceled') /\ (u # v => ver'[u] = ver[u])
  BY DEF VersSound, VerMoves
<1>2. u \in Owners /\ v \in Owners /\ VSound(ver[u], pass[u], u \in canceled) /\ canceled' = canceled
  BY OwnersAssumption DEF VerKnown, VersSound, VerMoves
<1>3. CASE u = v
  BY <1>2, <1>3 DEF VerMoves
<1>4. CASE u # v
  <2>1. ver'[u] = ver[u] /\ pass'[u] = pass[u]
    BY <1>2, <1>4 DEF VerMoves, VerKnown, VerTypes, Passes
  <2> QED BY <1>2, <2>1
<1> QED BY <1>3, <1>4

\* A batch begins or goes on.
LEMMA BatchStepSafe ==
    ASSUME VerSafe, NEW v \in Verifiers, BeginVerify(v, menu.policies) \/ BatchStep(v), menu' = menu
    PROVE  VerSafe' /\ canceled' = canceled /\ pass' = [pass EXCEPT ![v] = pass'[v]]
<1>1. VerKnown /\ TasksSound /\ Sessions /\ VerTypes /\ VersSound
  BY DEF VerSafe, VerKnown
<1>2. VerMoves(v)
  BY <1>1, BatchMoves
<1>3. Passes' /\ VersSound' /\ ver' \in [Verifiers -> VerSet] /\ (\A u \in Verifiers : u # v => ver'[u] = ver[u])
      /\ canceled' = canceled /\ ver \in [Verifiers -> VerSet]
  BY <1>1, <1>2, VersMove DEF VerMoves, VerTypes
<1>4. VSound(ver[v], pass[v], v \in canceled)
  BY <1>1 DEF VersSound
<1>5. ASSUME VerTypes', TasksSound', Sessions' PROVE VerSafe' /\ canceled' = canceled /\ pass' = [pass EXCEPT ![v] = pass'[v]]
  BY <1>2, <1>3, <1>5 DEF VerSafe, VerKnown, VerMoves
<1>6. ASSUME task' = task, \A r \in Routes : v \in canceled \/ Awaited(ver'[v], task[r], r, v)
      PROVE  TasksSound'
  <2>1. ASSUME NEW r \in Routes, NEW u \in Verifiers, u \notin canceled
        PROVE  Awaited(ver'[u], task[r], r, u)
    <3>2. Awaited(ver[u], task[r], r, u)
      BY <1>1, <2>1 DEF TasksSound
    <3>3. CASE u = v
      BY <1>6, <2>1, <3>2, <3>3
    <3>4. CASE u # v
      BY <1>3, <3>2, <3>4
    <3> QED BY <3>3, <3>4
  <2> QED BY <1>1, <1>3, <1>6, <2>1 DEF TasksSound
<1>7. ASSUME v \notin canceled, NEW r \in Routes, ver[v].pc # "round" \/ ver[v].asked = {}
      PROVE  Awaited(ver'[v], task[r], r, v)
  <2>1. Awaited(ver[v], task[r], r, v)
    BY <1>1, <1>7 DEF TasksSound
  <2> QED BY <1>7, <2>1 DEF Awaited
<1>8. ASSUME UNCHANGED <<task, mapped, open, late>>, ver[v].pc # "round" \/ (ver[v].asked = {} /\ ver'[v].pc = "round")
      PROVE  VerSafe' /\ canceled' = canceled /\ pass' = [pass EXCEPT ![v] = pass'[v]]
  <2>1. VerTypes'
    BY <1>1, <1>3, <1>8 DEF VerTypes
  <2>2. TasksSound'
    BY <1>6, <1>7, <1>8
  <2>3. Sessions'
    <3>1. \A s \in open : s[1] \in Verifiers
      BY <1>1 DEF VerTypes
    <3>2. \A u \in Verifiers : InBatch(u) => InBatch(u)'
      BY <1>3, <1>8 DEF InBatch
    <3> QED BY <1>1, <1>3, <1>8, <3>1, <3>2 DEF Sessions
  <2> QED BY <1>5, <2>1, <2>2, <2>3
<1>9. CASE BeginVerify(v, menu.policies)
  BY <1>8, <1>9 DEF BeginVerify
<1>10. CASE BeginSites(v) \/ SiteResult(v) \/ SitesOver(v) \/ SitesWait(v) \/ SiteResultAgain(v) \/ SitesOverAgain(v) \/ Judge(v)
  BY <1>8, <1>10 DEF BeginSites, SiteResult, SitesOver, SitesWait, SiteResultAgain, SitesOverAgain, Judge, Stay
<1>11. CASE RoundOver(v)
  <2>1. ver'[v].pc = "round"
    BY <1>3, <1>11 DEF RoundOver, InBatch, VerSet
  <2> QED BY <1>8, <1>11, <2>1 DEF RoundOver
<1>12. CASE BatchOver(v)
  <2>1. /\ (v \in canceled \/ ver[v].asked = {}) /\ open' = {s \in open : s[1] # v}
        /\ UNCHANGED <<task, mapped, late>>
    BY <1>12 DEF BatchOver
  <2>2. VerTypes'
    BY <1>1, <1>3, <2>1, <1>12 DEF VerTypes, BatchOver
  <2>3. TasksSound'
    BY <1>6, <1>7, <2>1
  <2>4. Sessions'
    <3>1. \A s \in open' : s \in open /\ s[1] \in Verifiers /\ s[1] # v
      BY <1>1, <1>12 DEF VerTypes, BatchOver
    <3>2. \A u \in Verifiers : u # v => (InBatch(u) => InBatch(u)')
      BY <1>3 DEF InBatch
    <3> QED BY <1>1, <1>3, <2>1, <3>1, <3>2 DEF Sessions
  <2> QED BY <1>5, <2>2, <2>3, <2>4
<1>13. CASE TakeProbe(v)
  <2>1. InBatch(v) /\ UNCHANGED <<task, late>>
    BY <1>13 DEF TakeProbe
  <2>2. PICK a \in ver[v].inbox : /\ ver'[v].pc = ver[v].pc /\ ver'[v].inbox = ver[v].inbox \ {a}
                                  /\ ver'[v].asked = ver[v].asked \ {a[1]}
                                  /\ mapped' \subseteq mapped /\ open' \subseteq open
    BY <1>3, <1>13 DEF TakeProbe, VerSet
  <2>3. ASSUME NEW r \in Routes, v \notin canceled PROVE Awaited(ver'[v], task[r], r, v)
    <3>1. Awaited(ver[v], task[r], r, v)
      BY <1>1, <2>3 DEF TasksSound
    <3> QED BY <2>2, <3>1 DEF Awaited
  <2>4. TasksSound'
    BY <1>6, <2>1, <2>3
  <2>5. VerTypes'
    BY <1>1, <1>3, <2>1, <2>2 DEF VerTypes
  <2>6. Sessions'
    <3>1. \A s \in open' : s \in open /\ s[1] \in Verifiers
      BY <1>1, <2>2 DEF VerTypes
    <3>2. \A u \in Verifiers : InBatch(u) => InBatch(u)'
      BY <1>3, <2>2 DEF InBatch
    <3> QED BY <1>1, <1>3, <2>1, <3>1, <3>2 DEF Sessions
  <2> QED BY <1>5, <2>4, <2>5, <2>6
<1>14. CASE Submit(v)
  <2>1. v \notin canceled /\ UNCHANGED <<mapped, open, late>> /\ ver[v].pc = "round"
    BY <1>14 DEF Submit
  <2>2. PICK r \in ver[v].left :
           /\ ver' = [ver EXCEPT ![v].left = @ \ {r}, ![v].asked = @ \cup {r}]
           /\ task' = [task EXCEPT ![r] =
                 CASE task[r].pc = "none"   -> [NoTask EXCEPT !.fn = v, !.waiters = {v}, !.pc = "queued"]
                   [] task[r].pc = "queued" -> [task[r] EXCEPT !.waiters = @ \cup {v}]
                   [] OTHER                 -> [task[r] EXCEPT !.later = @ \cup {v}, !.laterFn = v]]
    BY <1>14 DEF Submit
  <2> DEFINE t == task[r]
             x == ver[v]
             z == ver'[v]
  <2>3. z.pc = "round" /\ z.inbox = x.inbox /\ z.asked = x.asked \cup {r}
    BY <1>3, <2>1, <2>2 DEF VerSet
  <2>4. r \in Routes /\ r \notin x.asked /\ t \in TaskSet /\ \A y \in x.inbox : y[1] # r
    BY <1>1, <1>3, <1>4, <2>2 DEF VerTypes, VSound, Rounded, VerSet
  <2>5. v \notin t.waiters /\ v \notin t.later /\ t.fn # v /\ t.laterFn # v /\ Tasked(t)
    BY <1>1, <2>1, <2>4 DEF TasksSound, Awaited
  <2> HIDE DEF x, z
  <2>6. PICK u : /\ task' = [task EXCEPT ![r] = u]
                 /\ \/ t.pc = "none" /\ u = [NoTask EXCEPT !.fn = v, !.waiters = {v}, !.pc = "queued"]
                    \/ t.pc = "queued" /\ u = [t EXCEPT !.waiters = @ \cup {v}]
                    \/ t.pc \notin {"none", "queued"} /\ u = [t EXCEPT !.later = @ \cup {v}, !.laterFn = v]
    <3> DEFINE u == task'[r]
    <3>1. task' = [task EXCEPT ![r] = u]
      BY <1>1, <2>2, <2>4 DEF VerTypes
    <3> DEFINE n == [NoTask EXCEPT !.fn = v, !.waiters = {v}, !.pc = "queued"]
               w == [t EXCEPT !.waiters = @ \cup {v}]
               l == [t EXCEPT !.later = @ \cup {v}, !.laterFn = v]
    <3>2. task' = [task EXCEPT ![r] = CASE t.pc = "none" -> n [] t.pc = "queued" -> w [] OTHER -> l]
      BY <2>2
    <3>3. task \in [Routes -> TaskSet]
      BY <1>1 DEF VerTypes
    <3>4. w = [t EXCEPT !.waiters = @ \cup {v}] /\ l = [t EXCEPT !.later = @ \cup {v}, !.laterFn = v]
          /\ n = [NoTask EXCEPT !.fn = v, !.waiters = {v}, !.pc = "queued"]
      OBVIOUS
    <3> HIDE DEF n, w, l
    <3>5. u = CASE t.pc = "none" -> n [] t.pc = "queued" -> w [] OTHER -> l
      BY <2>4, <3>2, <3>3
    <3>6. \/ t.pc = "none" /\ u = n
          \/ t.pc = "queued" /\ u = w
          \/ t.pc \notin {"none", "queued"} /\ u = l
      BY <3>5
    <3> QED BY <3>1, <3>4, <3>6
  <2> HIDE DEF t
  <2>7. /\ u \in TaskSet /\ Tasked(u)
        /\ \/ u.fn = v /\ u.waiters = {v} /\ u.later = {} /\ u.laterFn = NoOne
           \/ u.fn = t.fn /\ u.waiters = t.waiters \cup {v} /\ u.later = t.later /\ u.laterFn = t.laterFn
           \/ u.fn = t.fn /\ u.waiters = t.waiters /\ u.later = t.later \cup {v} /\ u.laterFn = v /\ t.pc # "none"
    <3>1. CASE t.pc = "none" /\ u = [NoTask EXCEPT !.fn = v, !.waiters = {v}, !.pc = "queued"]
      <4>1. u = [fn |-> v, waiters |-> {v}, pc |-> "queued", later |-> {}, laterFn |-> NoOne]
        <5>1. NoTask = [fn |-> NoOne, waiters |-> {}, pc |-> "none", later |-> {}, laterFn |-> NoOne]
          BY DEF NoTask
        <5> QED BY ONLY <3>1, <5>1
      <4> QED BY <4>1 DEF TaskSet, Tasked
    <3>2. CASE t.pc = "queued" /\ u = [t EXCEPT !.waiters = @ \cup {v}]
      BY <2>4, <2>5, <3>2 DEF TaskSet, Tasked
    <3>3. CASE t.pc \notin {"none", "queued"} /\ u = [t EXCEPT !.later = @ \cup {v}, !.laterFn = v]
      BY <2>4, <2>5, <3>3 DEF TaskSet, Tasked
    <3> QED BY <2>6, <3>1, <3>2, <3>3
  <2>8. task' \in [Routes -> TaskSet] /\ task'[r] = u /\ \A s \in Routes : s # r => task'[s] = task[s]
    BY <1>1, <2>4, <2>6, <2>7 DEF VerTypes
  <2>9. VerTypes'
    BY <1>1, <1>3, <2>1, <2>8 DEF VerTypes
  <2>10. TasksSound'
    <3>0. \A s \in Routes : Tasked(task'[s])
      BY <1>1, <2>7, <2>8 DEF TasksSound
    <3>1. SUFFICES ASSUME NEW s \in Routes, NEW w \in Verifiers, w \notin canceled
                   PROVE  Awaited(ver'[w], task'[s], s, w)
      BY <1>3, <3>0 DEF TasksSound
    <3>2. Awaited(ver[w], task[s], s, w)
      BY <1>1, <3>1 DEF TasksSound
    <3>3. w # v => ver'[w] = ver[w]
      BY <1>3
    <3>4. CASE s # r
      <4>1. task'[s] = task[s]
        BY <2>8, <3>4
      <4>2. CASE w = v
        BY <2>3, <3>2, <3>4, <4>1, <4>2 DEF Awaited, x, z
      <4> QED BY <3>2, <3>3, <4>1, <4>2
    <3>5. CASE s = r
      <4>1. CASE w = v
        BY <2>3, <2>4, <2>5, <2>7, <2>8, <3>5, <4>1, VerifiersAssumption DEF Awaited, z
      <4>2. CASE w # v
        BY <2>7, <2>8, <3>2, <3>3, <3>5, <4>2, VerifiersAssumption DEF Awaited, t
      <4> QED BY <4>1, <4>2
    <3> QED BY <3>4, <3>5
  <2>11. Sessions'
    <3>1. \A s \in open : s[1] \in Verifiers
      BY <1>1 DEF VerTypes
    <3>2. \A w \in Verifiers : InBatch(w) => InBatch(w)'
      BY <1>3, <2>3 DEF InBatch, z
    <3> QED BY <1>1, <1>3, <2>1, <3>1, <3>2 DEF Sessions
  <2> QED BY <1>5, <2>9, <2>10, <2>11
<1> QED BY <1>9, <1>10, <1>11, <1>12, <1>13, <1>14 DEF BatchStep

\* A run ends: its waiters have their result, who came later has a task.
LEMMA DeliveredSafe ==
    ASSUME VerKnown, TasksSound, NEW r \in Routes, NEW what \in {"ok", "retry", "final"}, Delivered(r, what),
           pass' = pass, canceled' = canceled
    PROVE  /\ VersSound' /\ TasksSound' /\ ver' \in [Verifiers -> VerSet] /\ task' \in [Routes -> TaskSet]
           /\ \A u \in Verifiers : ver'[u].pc = ver[u].pc
<1> DEFINE t == task[r]
           next == t.later \ canceled
           u == IF next = {} THEN NoTask ELSE [NoTask EXCEPT !.fn = t.laterFn, !.waiters = next, !.pc = "queued"]
<1>1. /\ ver \in [Verifiers -> VerSet] /\ task \in [Routes -> TaskSet] /\ t \in TaskSet /\ Tasked(t)
  BY DEF VerKnown, VerTypes, TasksSound
<1>2. task' = [task EXCEPT ![r] = u]
  BY DEF Delivered
<1>3. /\ u \in TaskSet /\ Tasked(u)
      /\ \/ next = {} /\ u.fn = NoOne /\ u.waiters = {} /\ u.later = {} /\ u.laterFn = NoOne
         \/ next # {} /\ u.fn = t.laterFn /\ u.waiters = next /\ u.later = {} /\ u.laterFn = NoOne
  <2>1. NoTask = [fn |-> NoOne, waiters |-> {}, pc |-> "none", later |-> {}, laterFn |-> NoOne]
    BY DEF NoTask
  <2>2. CASE next = {}
    BY <2>1, <2>2 DEF TaskSet, Tasked
  <2>3. CASE next # {}
    <3>0. u = [NoTask EXCEPT !.fn = t.laterFn, !.waiters = next, !.pc = "queued"]
      BY <2>3
    <3>1. next \in SUBSET Verifiers /\ t.laterFn \in Verifiers /\ next # {}
      BY <1>1, <2>3 DEF TaskSet, Tasked
    <3> HIDE DEF u, next
    <3>2. u = [fn |-> t.laterFn, waiters |-> next, pc |-> "queued", later |-> {}, laterFn |-> NoOne]
      BY ONLY <2>1, <3>0
    <3> QED BY <3>1, <3>2 DEF TaskSet, Tasked
  <2> QED BY <2>2, <2>3
<1>4. next = t.later \ canceled
  OBVIOUS
<1> HIDE DEF u, next
<1>5. task' \in [Routes -> TaskSet] /\ task'[r] = u /\ \A s \in Routes : s # r => task'[s] = task[s]
  BY <1>1, <1>2, <1>3
<1>6. ver' = [v \in Verifiers |-> IF v \in t.waiters \ canceled THEN [ver[v] EXCEPT !.inbox = @ \cup {<<r, what>>}] ELSE ver[v]]
  BY DEF Delivered
<1>7. ASSUME NEW v \in Verifiers
      PROVE  /\ VSound(ver'[v], pass[v], v \in canceled) /\ ver'[v].pc = ver[v].pc /\ ver'[v].asked = ver[v].asked
             /\ IF v \in t.waiters \ canceled THEN ver'[v].inbox = ver[v].inbox \cup {<<r, what>>} ELSE ver'[v] = ver[v]
  <2>1. VSound(ver[v], pass[v], v \in canceled) /\ (v \in canceled \/ Awaited(ver[v], t, r, v))
    BY DEF VerKnown, VersSound, TasksSound
  <2>2. CASE v \in t.waiters \ canceled
    <3> DEFINE z == [ver[v] EXCEPT !.inbox = @ \cup {<<r, what>>}]
    <3>1. ver'[v] = z
      BY <1>6, <2>2
    <3>2. r \in ver[v].asked /\ \A y \in ver[v].inbox : y[1] # r
      BY <2>1, <2>2 DEF Awaited
    <3> HIDE DEF z
    <3>3. VSound(z, pass[v], v \in canceled) /\ z.pc = ver[v].pc /\ z.asked = ver[v].asked
          /\ z.inbox = ver[v].inbox \cup {<<r, what>>}
      BY <2>1, <3>2, AnswerSound DEF z
    <3> QED BY <2>2, <3>1, <3>3
  <2>3. CASE v \notin t.waiters \ canceled
    BY <1>6, <2>1, <2>3
  <2> QED BY <2>2, <2>3
<1>8. ver' \in [Verifiers -> VerSet]
  <2>1. \A v \in Verifiers : ver'[v] \in VerSet
    BY <1>7 DEF VSound
  <2> QED BY <1>6, <2>1
<1>9. VersSound'
  BY <1>7 DEF VersSound
<1>10. TasksSound'
  <2>0. \A s \in Routes : Tasked(task'[s])
    BY <1>3, <1>5 DEF TasksSound
  <2>1. SUFFICES ASSUME NEW s \in Routes, NEW v \in Verifiers, v \notin canceled
                 PROVE  Awaited(ver'[v], task'[s], s, v)
    BY <2>0 DEF TasksSound
  <2>2. Awaited(ver[v], task[s], s, v) /\ Awaited(ver[v], t, r, v)
    BY <2>1 DEF TasksSound
  <2>3. ver'[v].pc = ver[v].pc /\ ver'[v].asked = ver[v].asked
    BY <1>7
  <2>4. \A y \in ver'[v].inbox : y \in ver[v].inbox \/ (v \in t.waiters /\ y[1] = r)
    <3>1. CASE v \in t.waiters
      <4>1. ver'[v].inbox = ver[v].inbox \cup {<<r, what>>}
        BY <1>7, <2>1, <3>1
      <4> QED BY <3>1, <4>1
    <3>2. CASE v \notin t.waiters
      <4>1. ver'[v] = ver[v]
        BY <1>7, <3>2
      <4> QED BY <4>1
    <3> QED BY <3>1, <3>2
  <2>5. CASE s # r
    <3>1. task'[s] = task[s]
      BY <1>5, <2>5
    <3> QED BY <2>2, <2>3, <2>4, <2>5, <3>1 DEF Awaited
  <2>6. CASE s = r
    <3>1. v # NoOne
      BY VerifiersAssumption
    <3> HIDE DEF t
    <3>2. \A y \in ver'[v].inbox : v \in next => y[1] # r
      BY <1>4, <2>2, <2>4 DEF Awaited
    <3> QED BY <1>3, <1>4, <1>5, <2>1, <2>2, <2>3, <2>6, <3>1, <3>2 DEF Awaited
  <2> QED BY <2>5, <2>6
<1> QED BY <1>5, <1>7, <1>8, <1>9, <1>10

\* A task is taken by a worker, opens its session, ends.
LEMMA TaskStepSafe ==
    ASSUME VerSafe, NEW r \in Routes, TaskStep(r), menu' = menu
    PROVE  VerSafe' /\ canceled' = canceled /\ pass' = pass
<1>1. VerKnown /\ TasksSound /\ Sessions /\ VerTypes /\ VersSound /\ Passes
  BY DEF VerSafe, VerKnown
<1>2. canceled' = canceled /\ pass' = pass
  BY DEF TaskStep, RunTask, OpenSession, EndProbe
<1>3. Passes'
  BY <1>1, <1>2 DEF Passes, Taken
<1> DEFINE t == task[r]
<1>4. t \in TaskSet /\ Tasked(t) /\ ver \in [Verifiers -> VerSet] /\ task \in [Routes -> TaskSet]
  BY <1>1 DEF VerTypes, TasksSound
<1>5. ASSUME UNCHANGED ver, NEW u, task' = [task EXCEPT ![r] = u], u \in TaskSet, Tasked(u),
             \A v \in Verifiers : v \in canceled \/ Awaited(ver[v], u, r, v)
      PROVE  VersSound' /\ TasksSound' /\ ver' \in [Verifiers -> VerSet] /\ task' \in [Routes -> TaskSet]
             /\ \A v \in Verifiers : ver'[v].pc = ver[v].pc
  <2>1. task' \in [Routes -> TaskSet] /\ task'[r] = u /\ \A s \in Routes : s # r => task'[s] = task[s]
    BY <1>4, <1>5
  <2>2. TasksSound'
    BY <1>1, <1>2, <1>5, <2>1 DEF TasksSound
  <2>3. VersSound'
    BY <1>1, <1>2, <1>5 DEF VersSound
  <2> QED BY <1>4, <1>5, <2>1, <2>2, <2>3
<1>6. ASSUME VersSound', TasksSound', ver' \in [Verifiers -> VerSet], task' \in [Routes -> TaskSet],
             \A v \in Verifiers : ver'[v].pc = ver[v].pc,
             mapped' \subseteq Verifiers \X Routes, open' \subseteq Verifiers \X Routes, late' \subseteq Verifiers \X Routes,
             \A s \in open' : s \in open \/ InBatch(s[1]) \/ s \in late',
             late \subseteq late', \A s \in late' : s \in late \/ s[1] \in canceled
      PROVE  VerSafe' /\ canceled' = canceled /\ pass' = pass
  <2>1. VerTypes'
    BY <1>1, <1>6 DEF VerTypes
  <2>2. Sessions'
    <3>1. \A s \in open' : s[1] \in Verifiers
      BY <1>6
    <3>2. \A v \in Verifiers : InBatch(v) => InBatch(v)'
      BY <1>6 DEF InBatch
    <3> QED BY <1>1, <1>2, <1>6, <3>1, <3>2 DEF Sessions
  <2> QED BY <1>2, <1>3, <1>6, <2>1, <2>2 DEF VerSafe, VerKnown
<1>7. CASE RunTask(r)
  <2> DEFINE w == [t EXCEPT !.pc = "running", !.waiters = @ \ canceled]
             u == IF t.waiters \subseteq canceled THEN NoTask ELSE w
  <2>1. task' = [task EXCEPT ![r] = u] /\ UNCHANGED <<ver, mapped, open, late>> /\ t.pc = "queued"
    BY <1>7 DEF RunTask
  <2>2. NoTask = [fn |-> NoOne, waiters |-> {}, pc |-> "none", later |-> {}, laterFn |-> NoOne]
    BY DEF NoTask
  <2>3. w \in TaskSet /\ w.fn = t.fn /\ w.waiters = t.waiters \ canceled /\ w.later = t.later /\ w.laterFn = t.laterFn
    BY <1>4 DEF TaskSet
  <2>4. Tasked(w)
    BY <1>4, <2>1, <2>3 DEF Tasked
  <2>5. \A v \in Verifiers : v \in canceled \/ Awaited(ver[v], t, r, v)
    BY <1>1 DEF TasksSound
  <2> HIDE DEF w, t
  <2>6. u \in TaskSet /\ Tasked(u)
    BY <2>2, <2>3, <2>4 DEF TaskSet, Tasked
  <2>7. \A v \in Verifiers : v \in canceled \/ Awaited(ver[v], u, r, v)
    BY <2>2, <2>3, <2>5, VerifiersAssumption DEF Awaited
  <2> HIDE DEF u
  <2>8. VersSound' /\ TasksSound' /\ ver' \in [Verifiers -> VerSet] /\ task' \in [Routes -> TaskSet]
        /\ \A v \in Verifiers : ver'[v].pc = ver[v].pc
    BY <1>5, <2>1, <2>6, <2>7
  <2> QED BY <1>1, <1>6, <2>1, <2>8 DEF VerTypes
<1>8. CASE OpenSession(r)
  <2> DEFINE s == <<t.fn, r>>
  <2>0. t.pc = "running"
    BY <1>8 DEF OpenSession
  <2>1. t.fn \in Verifiers /\ s \in Verifiers \X Routes /\ s[1] = t.fn
    BY <1>4, <2>0 DEF Tasked
  <2>2. CASE /\ task' = [task EXCEPT ![r].pc = "probing"]
             /\ mapped' = mapped \cup {s}
             /\ open' = IF s \in mapped THEN open ELSE open \cup {s}
             /\ late' = IF s \notin mapped /\ ~InBatch(task[r].fn) THEN late \cup {s} ELSE late
             /\ UNCHANGED ver
    <3> DEFINE u == [t EXCEPT !.pc = "probing"]
    <3>1. task' = [task EXCEPT ![r] = u]
      BY <2>2
    <3>2. u \in TaskSet /\ u.fn = t.fn /\ u.waiters = t.waiters /\ u.later = t.later /\ u.laterFn = t.laterFn
      BY <1>4 DEF TaskSet
    <3>3. Tasked(u)
      BY <1>4, <2>0, <3>2 DEF Tasked
    <3>4. \A v \in Verifiers : v \in canceled \/ Awaited(ver[v], t, r, v)
      BY <1>1 DEF TasksSound
    <3> HIDE DEF u, t
    <3>5. \A v \in Verifiers : v \in canceled \/ Awaited(ver[v], u, r, v)
      BY <3>2, <3>4 DEF Awaited
    <3>6. VersSound' /\ TasksSound' /\ ver' \in [Verifiers -> VerSet] /\ task' \in [Routes -> TaskSet]
          /\ \A v \in Verifiers : ver'[v].pc = ver[v].pc
      BY <1>5, <2>2, <3>1, <3>2, <3>3, <3>5
    <3>7. t.fn \in canceled \/ InBatch(t.fn)
      BY <2>1, <3>4 DEF Awaited, InBatch
    <3>8. /\ mapped' \subseteq Verifiers \X Routes /\ open' \subseteq Verifiers \X Routes /\ late' \subseteq Verifiers \X Routes
      BY <1>1, <2>1, <2>2 DEF VerTypes
    <3>9. t = task[r]
      BY DEF t
    <3>10. CASE s \in mapped
      BY <1>6, <2>2, <3>6, <3>8, <3>10
    <3>11. CASE s \notin mapped
      BY <1>6, <2>1, <2>2, <3>6, <3>7, <3>8, <3>9, <3>11
    <3> QED BY <3>10, <3>11
  <2>3. ASSUME NEW what \in {"retry", "final"}, Delivered(r, what), UNCHANGED <<mapped, open, late>>
        PROVE  VerSafe' /\ canceled' = canceled /\ pass' = pass
    <3>1. VersSound' /\ TasksSound' /\ ver' \in [Verifiers -> VerSet] /\ task' \in [Routes -> TaskSet]
          /\ \A v \in Verifiers : ver'[v].pc = ver[v].pc
      BY <1>1, <1>2, <2>3, DeliveredSafe
    <3> QED BY <1>1, <1>6, <2>3, <3>1 DEF VerTypes
  <2> QED BY <1>8, <2>2, <2>3 DEF OpenSession
<1>9. CASE EndProbe(r)
  <2>1. PICK what \in {"ok", "retry", "final"} : Delivered(r, what) /\ mapped' \subseteq mapped /\ open' \subseteq open
    BY <1>9 DEF EndProbe
  <2>2. late' = late
    BY <1>9 DEF EndProbe
  <2>3. VersSound' /\ TasksSound' /\ ver' \in [Verifiers -> VerSet] /\ task' \in [Routes -> TaskSet]
        /\ \A v \in Verifiers : ver'[v].pc = ver[v].pc
    BY <1>1, <1>2, <2>1, DeliveredSafe
  <2> QED BY <1>1, <1>6, <2>1, <2>2, <2>3 DEF VerTypes
<1> QED BY <1>7, <1>8, <1>9 DEF TaskStep

-----------------------------------------------------------------------------
(* Both together.                                                          *)

Safe == JobsSafe /\ VerSafe

\* Feeder and workers leave what is to come of a batch.
LEMMA MovesVisits ==
    ASSUME NEW x, NEW p, NEW q, NEW o, Visits(x, p), Moves(o, p, q)
    PROVE  Visits(x, q)
  BY DEF Visits, Moves

\* Steps of others leave a batch what it has.
LEMMA VerStays ==
    ASSUME VerSafe, UNCHANGED <<menu, verVars>>, Passes', canceled \subseteq canceled',
           \A v \in Verifiers : Visits(ver[v], pass'[v])
    PROVE  VerSafe'
<1>1. VerTypes /\ VersSound /\ Passes /\ TasksSound /\ Sessions
  BY DEF VerSafe, VerKnown
<1>2. ver' = ver /\ task' = task /\ mapped' = mapped /\ open' = open /\ late' = late /\ menu' = menu
  BY DEF verVars
<1>3. VerTypes'
  BY <1>1, <1>2 DEF VerTypes
<1>4. ASSUME NEW v \in Verifiers PROVE VSound(ver[v], pass'[v], v \in canceled')
  BY <1>1 DEF VersSound, VSound, Judging
<1>5. VersSound'
  BY <1>2, <1>4 DEF VersSound
<1>6. TasksSound'
  BY <1>1, <1>2 DEF TasksSound
<1>7. Sessions'
  BY <1>1, <1>2 DEF Sessions, InBatch
<1> QED BY <1>3, <1>5, <1>6, <1>7 DEF VerSafe, VerKnown

\* And a job.
LEMMA JobsStay ==
    ASSUME JobsSafe, UNCHANGED <<menu, job, at, post, cancel, registered, eligible, stamp, closing, asked>>, Passes',
           \A j \in Jobs : Sound(job[j], pass'[j], at[j], j \in canceled')
    PROVE  JobsSafe'
<1>1. JobsTypes'
  BY DEF JobsSafe, JobsKnown, JobsTypes
<1>2. JobsSound'
  BY DEF JobsSound
<1>3. Cancels'
  BY DEF JobsSafe, Cancels, Quiet
<1> QED BY <1>1, <1>2, <1>3 DEF JobsSafe, JobsKnown

\* At first nothing runs.
LEMMA InitSafe ==
    ASSUME Init
    PROVE  Safe
<1>1. PICK m \in Menus : JobsInit(m) /\ VerifyInit(m.crew)
  BY DEF Init
<1>2. pass = [o \in Owners |-> NoPass] /\ canceled = {}
  BY DEF Init, PassInit
<1>3. ~NoPass.on /\ NoPass.probe = {}
  BY DEF NoPass
<1>4. Passes
  <2>1. Taken = {}
    BY <1>2, <1>3 DEF Taken
  <2>2. IsFiniteSet(Taken) /\ Cardinality(Taken) = 0 /\ 0 <= Slots
    BY <2>1, FS_EmptySet, SitesAssumption
  <2> QED BY <1>2, <2>2, NoPassTidy DEF Passes
<1>5. JobsSafe
  <2>1. /\ menu = m /\ job = [j \in Jobs |-> NoJob] /\ post = [w \in Jobs \cup {Canceler} |-> Nothing]
        /\ at = [j \in Jobs |-> IF j \in m.crew THEN "none" ELSE "over"]
        /\ cancel = NoCancel /\ registered = {} /\ eligible = Nodes /\ stamp = [j \in Jobs |-> 0]
        /\ closing = FALSE /\ asked = {}
    BY <1>1 DEF JobsInit
  <2>2. ASSUME NEW gone, NEW here \in {"none", "over"} PROVE Sound(NoJob, NoPass, here, gone)
    BY <1>3, NoJobSound
  <2>3. NoJob \in JobSet
    BY <2>2 DEF Sound
  <2>4. JobsSound
    <3>1. ASSUME NEW j \in Jobs PROVE Sound(job[j], pass[j], at[j], j \in canceled)
      <4>1. job[j] = NoJob /\ pass[j] = NoPass /\ at[j] \in {"none", "over"}
        BY <1>2, <2>1, JobsAssumption
      <4> QED BY <2>2, <4>1
    <3> QED BY <3>1 DEF JobsSound
  <2>5. JobsTypes
    <3>1. NoCancel \in [job : Jobs \cup {Unknown}, pc : {"idle", "call", "mark", "publish"}]
      BY DEF NoCancel
    <3>2. Nothing \in Posts
      BY DEF Posts
    <3>3. post \in [Jobs \cup {Canceler} -> Posts]
      BY <2>1, <3>2
    <3> QED BY <2>1, <2>3, <3>1, <3>3 DEF JobsTypes, Places
  <2>6. Cancels
    BY <2>1 DEF Cancels, NoCancel, Quiet
  <2> QED BY <1>4, <2>4, <2>5, <2>6 DEF JobsSafe, JobsKnown
<1>6. VerSafe
  <2>1. /\ menu = m /\ ver = [v \in Verifiers |-> IF v \in m.crew THEN NoVer ELSE [NoVer EXCEPT !.pc = "returned"]]
        /\ task = [r \in Routes |-> NoTask] /\ mapped = {} /\ open = {} /\ late = {}
    BY <1>1 DEF JobsInit, VerifyInit
  <2>2. ASSUME NEW gone, NEW x \in {NoVer, [NoVer EXCEPT !.pc = "returned"]} PROVE VSound(x, NoPass, gone)
    BY <1>3, NoVerSound
  <2>3. ASSUME NEW v \in Verifiers PROVE ver[v] \in VerSet /\ VSound(ver[v], pass[v], v \in canceled)
    <3>1. ver[v] \in {NoVer, [NoVer EXCEPT !.pc = "returned"]} /\ pass[v] = NoPass
      BY <1>2, <2>1, VerifiersAssumption
    <3>2. VSound(ver[v], pass[v], v \in canceled)
      BY <2>2, <3>1
    <3> QED BY <3>2 DEF VSound
  <2>4. NoTask \in TaskSet /\ NoTask.waiters = {} /\ NoTask.later = {} /\ NoTask.fn = NoOne /\ NoTask.laterFn = NoOne
        /\ NoTask.pc = "none"
    BY DEF NoTask, TaskSet
  <2>5. TasksSound
    BY <2>1, <2>4, VerifiersAssumption DEF TasksSound, Tasked, Awaited
  <2>6. VerTypes
    <3>1. ver \in [Verifiers -> VerSet]
      BY <2>1, <2>3
    <3> QED BY <2>1, <2>4, <3>1 DEF VerTypes
  <2>7. VersSound
    BY <2>3 DEF VersSound
  <2>8. Sessions
    BY <2>1 DEF Sessions
  <2> QED BY <1>4, <2>5, <2>6, <2>7, <2>8 DEF VerSafe, VerKnown
<1> QED BY <1>5, <1>6 DEF Safe

\* Every step keeps all of it.
LEMMA NextSafe ==
    ASSUME Safe, [Next]_vars
    PROVE  Safe'
<1>1. /\ JobsSafe /\ VerSafe /\ Passes /\ JobsSound /\ VersSound /\ menu \in Menus /\ pass \in [Owners -> PassSet]
      /\ canceled \subseteq Owners
  BY DEF Safe, JobsSafe, JobsKnown, VerSafe, VerKnown, Passes, JobsTypes
<1>2. \A v \in Verifiers : v \in Owners /\ v \notin Jobs /\ Visits(ver[v], pass[v])
  BY <1>1, OwnersAssumption DEF VersSound, VSound
<1>3. \A j \in Jobs : j \in Owners /\ j \notin Verifiers /\ Sound(job[j], pass[j], at[j], j \in canceled)
  BY <1>1, OwnersAssumption DEF JobsSound
<1>4. ASSUME UNCHANGED <<jobVars, EventVars>>
      PROVE  UNCHANGED <<menu, job, at, post, cancel, registered, eligible, stamp, closing, asked>>
  BY <1>4 DEF jobVars
<1>5. ASSUME NEW j \in Jobs, StartConnectivityJob(j) \/ JobStep(j) \/ Expire(j), UNCHANGED verVars
      PROVE  Safe'
  <2>1. JobsSafe'
    BY <1>1, <1>5, JobStepSafe
  <2>2. JobMoves(j) /\ OthersKept(j)
    BY <1>1, <1>5, JobStepMoves, OthersAreKept DEF JobsSafe, JobsKnown
  <2>3. Passes' /\ canceled' = canceled /\ menu' = menu /\ pass' = [pass EXCEPT ![j] = pass'[j]]
    BY <2>2 DEF JobMoves, OthersKept
  <2>4. \A v \in Verifiers : pass'[v] = pass[v]
    BY <1>1, <1>2, <2>3
  <2>5. VerSafe'
    BY <1>1, <1>2, <1>5, <2>3, <2>4, VerStays
  <2> QED BY <2>1, <2>5 DEF Safe
<1>6. ASSUME OtherStep, UNCHANGED verVars
      PROVE  Safe'
  <2>1. JobsSafe'
    BY <1>1, <1>6, OtherStepSafe
  <2>2. Passes'
    BY <2>1 DEF JobsSafe, JobsKnown
  <2>3. pass' = pass /\ menu' = menu /\ canceled \subseteq canceled'
    BY <1>6 DEF OtherStep, CancelConnectivityJob, Publishing, TakeSnapshot, SendEvent, CallCancel, MarkCanceling, CancelDone,
       NodeLeaves, BeginClose, CloseEvents, ClientStep
  <2>4. VerSafe'
    BY <1>1, <1>2, <1>6, <2>2, <2>3, VerStays
  <2> QED BY <2>1, <2>4 DEF Safe
<1>7. ASSUME VerSafe', UNCHANGED <<jobVars, EventVars>>, canceled \subseteq canceled', \A j \in Jobs : pass'[j] = pass[j]
      PROVE  Safe'
  <2>1. ASSUME NEW j \in Jobs PROVE Sound(job[j], pass'[j], at[j], j \in canceled')
    BY <1>3, <1>7, GoneSound
  <2>2. Passes'
    BY <1>7 DEF VerSafe, VerKnown
  <2>3. JobsSafe'
    BY <1>1, <1>4, <1>7, <2>1, <2>2, JobsStay
  <2> QED BY <1>7, <2>3 DEF Safe
<1>8. ASSUME NEW v \in Verifiers, BeginVerify(v, menu.policies) \/ BatchStep(v), UNCHANGED <<jobVars, EventVars>>
      PROVE  Safe'
  <2>1. VerSafe' /\ canceled' = canceled /\ pass' = [pass EXCEPT ![v] = pass'[v]]
    BY <1>1, <1>4, <1>8, BatchStepSafe
  <2>2. \A j \in Jobs : pass'[j] = pass[j]
    BY <1>1, <1>3, <2>1
  <2> QED BY <1>7, <1>8, <2>1, <2>2
<1>9. ASSUME NEW v \in Verifiers, CancelVerify(v), UNCHANGED <<jobVars, EventVars>>
      PROVE  Safe'
  <2>1. canceled' = canceled \cup {v} /\ pass' = pass /\ UNCHANGED verVars
    BY <1>9 DEF CancelVerify, Stay, verVars
  <2>2. Passes'
    BY <1>1, <1>2, <2>1 DEF Passes, Taken
  <2>3. VerSafe'
    BY <1>1, <1>2, <1>4, <1>9, <2>1, <2>2, VerStays
  <2> QED BY <1>7, <1>9, <2>1, <2>3
<1>10. ASSUME NEW r \in Routes, TaskStep(r), UNCHANGED <<jobVars, EventVars>>
       PROVE  Safe'
  <2>1. VerSafe' /\ canceled' = canceled /\ pass' = pass
    BY <1>1, <1>4, <1>10, TaskStepSafe
  <2> QED BY <1>7, <1>10, <2>1
<1>11. ASSUME NEW o \in Owners, PassStep(o, menu.causes), UNCHANGED <<jobVars, EventVars, verVars>>
       PROVE  Safe'
  <2>1. /\ Passes' /\ canceled' = canceled /\ pass' = [pass EXCEPT ![o] = pass'[o]]
        /\ pass[o].on /\ Moves(o, pass[o], pass'[o])
    BY <1>1, <1>11, PassStepMoves
  <2>2. \A u \in Owners : u # o => pass'[u] = pass[u]
    BY <1>1, <2>1
  <2>3. ASSUME NEW j \in Jobs PROVE Sound(job[j], pass'[j], at[j], j \in canceled')
    <3>1. CASE j = o
      BY <1>3, <2>1, <3>1, MovesSound
    <3>2. CASE j # o
      BY <1>3, <2>1, <2>2, <3>2
    <3> QED BY <3>1, <3>2
  <2>4. ASSUME NEW v \in Verifiers PROVE Visits(ver[v], pass'[v])
    <3>1. CASE v = o
      BY <1>2, <2>1, <3>1, MovesVisits
    <3>2. CASE v # o
      BY <1>2, <2>2, <3>2
    <3> QED BY <3>1, <3>2
  <2>5. JobsSafe'
    BY <1>1, <1>4, <1>11, <2>1, <2>3, JobsStay
  <2>6. VerSafe'
    BY <1>1, <1>4, <1>11, <2>1, <2>4, VerStays
  <2> QED BY <2>5, <2>6 DEF Safe
<1>12. ASSUME UNCHANGED vars
       PROVE  Safe'
  <2>1. pass' = pass /\ canceled' = canceled /\ UNCHANGED <<jobVars, EventVars>> /\ UNCHANGED verVars
    BY <1>12 DEF vars, PassVars
  <2>2. Passes'
    BY <1>1, <2>1 DEF Passes, Taken
  <2>3. VerSafe'
    BY <1>1, <1>2, <1>4, <2>1, <2>2, VerStays
  <2> QED BY <1>7, <2>1, <2>3
<1>13. CASE JobsNext /\ UNCHANGED verVars
  BY <1>5, <1>6, <1>13 DEF JobsNext, OtherStep
<1>14. CASE VerifyNext(menu.policies, menu.cancels > 0) /\ UNCHANGED <<jobVars, EventVars>>
  BY <1>8, <1>9, <1>10, <1>14 DEF VerifyNext
<1>15. CASE \E o \in Owners : PassStep(o, menu.causes) /\ UNCHANGED <<jobVars, EventVars, verVars>>
  BY <1>11, <1>15
<1> QED BY <1>12, <1>13, <1>14, <1>15 DEF Next

-----------------------------------------------------------------------------
(* What a client hears.                                                    *)

\* The channel holds an event or none.
Messages == [job : Jobs, what : Standings]
EventTypes ==
    /\ client \in {"off", "begun", "reading", "gone"} /\ shut \in BOOLEAN
    /\ chan \in {<<>>} \cup {<<e>> : e \in Messages}
    /\ displaced \subseteq Jobs /\ known \in [Jobs -> Standings \cup {Unknown}]
    /\ menu.watch \/ client = "off"

\* A snapshot that is to be sent, the event in the channel and what the client
\* knows are how the job stands, each unless there is a later one on its way.
Sent(j) == chan # <<>> /\ chan[1].job = j
Tells(j) ==
    /\ post[j] \notin {Nothing, Wanted} => post[j] = Told(j)
    /\ client \in {"begun", "reading"} /\ ~shut /\ Quiet(j) /\ job[j].status # "none" =>
           /\ Sent(j) => chan[1].what = Told(j)
           /\ client = "reading" /\ ~Sent(j) /\ j \notin displaced => known[j] = Told(j)
Hears == \A j \in Jobs \ asked : Tells(j)

EventsSafe == EventTypes /\ Hears

\* Nothing of a job or of the events changes.
LEMMA TellsTheSame ==
    ASSUME NEW i \in Jobs, Tells(i), job'[i] = job[i], post'[i] = post[i], UNCHANGED EventVars
    PROVE  Tells(i)'
  BY DEF Tells, Told, Quiet, Sent, EventVars

\* A job that changes how it stands publishes it, unless it is gone.
LEMMA Republished ==
    ASSUME JobsKnown, NEW j \in Jobs, StartConnectivityJob(j) \/ JobStep(j) \/ Expire(j)
    PROVE  \/ job'[j].status = job[j].status /\ job'[j].phase = job[j].phase
           \/ post' = IF menu.watch THEN [post EXCEPT ![j] = Wanted] ELSE post
           \/ job'[j].status = "none"
<1>1. job \in [Jobs -> JobSet]
  BY DEF JobsKnown, JobsTypes
<1>2. CASE \/ StartConnectivityJob(j) \/ FirstResult(j) \/ FirstPassOver(j) \/ RetryWait(j) \/ SecondResult(j)
           \/ AllPassed(j) \/ LastStatus(j)
  BY <1>2 DEF StartConnectivityJob, FirstResult, FirstPassOver, RetryWait, SecondResult, AllPassed, LastStatus, Finish, Due
<1>3. CASE Launch(j) \/ TakeResults(j)
  BY <1>3 DEF Launch, TakeResults, Finish, Due
<1>4. CASE SecondPassOver(j) \/ SaveRun(j) \/ Deregister(j)
  BY <1>4 DEF SecondPassOver, SaveRun, Deregister
<1>5. CASE SaveRunFails(j)
  BY <1>1, <1>5 DEF SaveRunFails, JobSet
<1>6. CASE Expire(j)
  BY <1>1, <1>6 DEF Expire, NoJob
<1> QED BY <1>2, <1>3, <1>4, <1>5, <1>6 DEF JobStep

\* At first there is no client.
LEMMA InitHears ==
    ASSUME Init
    PROVE  EventsSafe
<1>1. client = "off" /\ chan = <<>> /\ known = [j \in Jobs |-> Unknown] /\ shut = FALSE /\ displaced = {}
  BY DEF Init, JobsInit, EventInit
<1>2. post = [w \in Jobs \cup {Canceler} |-> Nothing]
  BY DEF Init, JobsInit
<1>3. EventTypes
  BY <1>1 DEF EventTypes
<1>4. Hears
  BY <1>1, <1>2 DEF Hears, Tells
<1> QED BY <1>3, <1>4 DEF EventsSafe

\* A step of a job.
LEMMA JobStepHears ==
    ASSUME Safe, EventsSafe, NEW j \in Jobs, StartConnectivityJob(j) \/ JobStep(j) \/ Expire(j)
    PROVE  EventsSafe'
<1>1. JobsKnown /\ JobsTypes /\ EventTypes /\ Hears
  BY DEF Safe, JobsSafe, JobsKnown, EventsSafe
<1>2. JobMoves(j) /\ OthersKept(j)
  BY <1>1, JobStepMoves, OthersAreKept
<1>3. UNCHANGED EventVars /\ menu' = menu /\ asked' = asked /\ Quiet(j)
  BY <1>2 DEF OthersKept, EventVars
<1>4. EventTypes'
  BY <1>1, <1>3 DEF EventTypes, EventVars
<1>5. ASSUME NEW i \in Jobs \ asked PROVE Tells(i)'
  <2>1. Tells(i)
    BY <1>1 DEF Hears
  <2>2. CASE i # j
    <3>1. job'[i] = job[i]
      BY <1>1, <1>2, <2>2 DEF JobMoves, JobsTypes
    <3>2. post'[i] = post[i]
      BY <1>1, <1>2, <2>2 DEF OthersKept, JobsTypes
    <3> QED BY <1>3, <2>1, <3>1, <3>2, TellsTheSame
  <2>3. CASE i = j
    <3>1. post'[j] \in {Nothing, Wanted}
      BY <1>1, <1>2, <1>3 DEF OthersKept, JobsTypes, Quiet
    <3>2. CASE job'[j].status = job[j].status /\ job'[j].phase = job[j].phase
      BY <1>3, <2>1, <2>3, <3>1, <3>2 DEF Tells, Told, Quiet, Sent, EventVars
    <3>3. CASE post' = IF menu.watch THEN [post EXCEPT ![j] = Wanted] ELSE post
      <4>1. CASE menu.watch
        <5>1. post'[j] = Wanted /\ Wanted # Nothing
          BY <1>1, <3>3, <4>1 DEF JobsTypes, Wanted, Nothing
        <5> QED BY <2>3, <5>1 DEF Tells, Quiet
      <4>2. CASE ~menu.watch
        <5>1. client' = "off"
          BY <1>1, <1>3, <4>2 DEF EventTypes, EventVars
        <5> QED BY <2>3, <3>1, <5>1 DEF Tells
      <4> QED BY <4>1, <4>2
    <3>4. CASE job'[j].status = "none"
      BY <2>3, <3>1, <3>4 DEF Tells
    <3> QED BY <1>1, <3>2, <3>3, <3>4, Republished
  <2> QED BY <2>2, <2>3
<1> QED BY <1>3, <1>4, <1>5 DEF EventsSafe, Hears

\* A snapshot is taken.
LEMMA TakeSnapshotHears ==
    ASSUME Safe, EventsSafe, NEW who \in Jobs \cup {Canceler}, TakeSnapshot(who)
    PROVE  EventsSafe'
<1>1. JobsTypes /\ EventTypes /\ Hears
  BY DEF Safe, JobsSafe, JobsKnown, EventsSafe
<1>2. /\ post' = [post EXCEPT ![who] = Told(JobOf(who))] /\ UNCHANGED EventVars /\ menu' = menu /\ asked' = asked /\ job' = job
  BY DEF TakeSnapshot
<1>3. EventTypes'
  BY <1>1, <1>2 DEF EventTypes, EventVars
<1>4. ASSUME NEW i \in Jobs \ asked PROVE Tells(i)'
  <2>1. Tells(i)
    BY <1>1 DEF Hears
  <2>2. CASE i # who
    <3>1. post'[i] = post[i]
      BY <1>1, <1>2, <2>2 DEF JobsTypes
    <3> QED BY <1>2, <2>1, <3>1, TellsTheSame
  <2>3. CASE i = who
    <3>1. JobOf(who) = i
      BY <2>3, JobsAssumption DEF JobOf
    <3>2. post'[i] = Told(i)
      BY <1>1, <1>2, <2>3, <3>1 DEF JobsTypes
    <3>3. Told(i) # Nothing /\ Told(i)' = Told(i)
      BY <1>2 DEF Told, Nothing
    <3> QED BY <3>2, <3>3 DEF Tells, Quiet
  <2> QED BY <2>2, <2>3
<1> QED BY <1>2, <1>3, <1>4 DEF EventsSafe, Hears

\* It is sent: what was in the channel is displaced.
LEMMA SendEventHears ==
    ASSUME Safe, EventsSafe, NEW who \in Jobs \cup {Canceler}, SendEvent(who)
    PROVE  EventsSafe'
<1> DEFINE e == Event(JobOf(who), post[who])
<1>1. JobsTypes /\ EventTypes /\ Hears /\ Cancels
  BY DEF Safe, JobsSafe, JobsKnown, EventsSafe
<1>2. /\ post' = [post EXCEPT ![who] = Nothing] /\ client' = client /\ known' = known /\ shut' = shut
      /\ menu' = menu /\ asked' = asked /\ job' = job /\ Publish(e) /\ post[who] \notin {Nothing, Wanted}
  BY DEF SendEvent
<1>3. JobOf(who) \in Jobs /\ (who = Canceler => JobOf(who) \in asked) /\ (who # Canceler => JobOf(who) = who)
  <2>1. CASE who = Canceler
    <3>1. cancel.pc = "publish"
      BY <1>1, <1>2, <2>1 DEF Cancels, Quiet
    <3> QED BY <1>1, <2>1, <3>1 DEF JobOf, Cancels, JobsTypes
  <2>2. CASE who # Canceler
    BY <2>2 DEF JobOf
  <2> QED BY <2>1, <2>2
<1>4. e \in Messages /\ e.job = JobOf(who) /\ e.what = post[who]
  BY <1>1, <1>2, <1>3 DEF Event, Messages, JobsTypes, Posts
<1> HIDE DEF e
<1>5. \/ client \in {"begun", "reading"} /\ ~shut /\ chan' = <<e>>
         /\ displaced' = (displaced \cup {d.job : d \in {chan[i] : i \in DOMAIN chan}}) \ {e.job}
      \/ ~(client \in {"begun", "reading"} /\ ~shut) /\ chan' = chan /\ displaced' = displaced
  BY <1>2 DEF Publish
<1>6. \A i \in Jobs : Sent(i) => i \in {d.job : d \in {chan[k] : k \in DOMAIN chan}}
  <2>1. CASE chan = <<>>
    BY <2>1 DEF Sent
  <2>2. ASSUME NEW d \in Messages, chan = <<d>> PROVE \A i \in Jobs : Sent(i) => i \in {b.job : b \in {chan[k] : k \in DOMAIN chan}}
    <3>1. chan[1] \in {chan[k] : k \in DOMAIN chan}
      BY <2>2
    <3> QED BY <3>1 DEF Sent
  <2> QED BY <1>1, <2>1, <2>2 DEF EventTypes
<1>7. \A d \in {chan[k] : k \in DOMAIN chan} : d.job \in Jobs
  BY <1>1 DEF EventTypes, Messages
<1>8. EventTypes'
  <2>1. chan' \in {<<>>} \cup {<<f>> : f \in Messages}
    BY <1>1, <1>4, <1>5 DEF EventTypes
  <2>2. displaced' \subseteq Jobs
    BY <1>1, <1>5, <1>7 DEF EventTypes
  <2> QED BY <1>1, <1>2, <2>1, <2>2 DEF EventTypes
<1>9. ASSUME NEW i \in Jobs \ asked PROVE Tells(i)'
  <2>1. Tells(i) /\ Told(i)' = Told(i) /\ i # Canceler
    BY <1>1, <1>2, JobsAssumption DEF Hears, Told
  <2>2. post'[i] = IF i = who THEN Nothing ELSE post[i]
    BY <1>1, <1>2 DEF JobsTypes
  <2>3. CASE ~(client \in {"begun", "reading"} /\ ~shut)
    BY <1>2, <2>1, <2>2, <2>3 DEF Tells
  <2>4. CASE client \in {"begun", "reading"} /\ ~shut
    <3>1. chan' = <<e>> /\ displaced' = (displaced \cup {d.job : d \in {chan[k] : k \in DOMAIN chan}}) \ {e.job}
      BY <1>5, <2>4
    <3>2. Sent(i)' <=> e.job = i
      BY <3>1 DEF Sent
    <3>3. CASE e.job = i
      <4>1. who = i
        BY <1>3, <1>4, <3>3
      <4>2. chan'[1].what = Told(i)
        BY <1>2, <1>4, <2>1, <3>1, <4>1 DEF Tells
      <4> QED BY <2>1, <2>2, <3>2, <3>3, <4>1, <4>2 DEF Tells
    <3>4. CASE e.job # i
      <4>1. who # i
        BY <1>3, <1>4, <2>1, <3>4
      <4>2. i \notin displaced' => i \notin displaced /\ ~Sent(i)
        BY <1>6, <3>1, <3>4
      <4> QED BY <1>2, <2>1, <2>2, <2>4, <3>2, <3>4, <4>1, <4>2 DEF Tells, Quiet
    <3> QED BY <3>3, <3>4
  <2> QED BY <2>3, <2>4
<1> QED BY <1>2, <1>8, <1>9 DEF EventsSafe, Hears

\* What the client does.
LEMMA ClientStepHears ==
    ASSUME Safe, EventsSafe, ClientStep
    PROVE  EventsSafe'
<1>1. JobsTypes /\ EventTypes /\ Hears
  BY DEF Safe, JobsSafe, JobsKnown, EventsSafe
<1>2. menu.watch /\ menu' = menu /\ job' = job /\ post' = post /\ asked' = asked
  BY DEF ClientStep
<1>3. \A i \in Jobs : Told(i)' = Told(i) /\ Told(i) \in Standings
  BY <1>1, <1>2 DEF Told, Standings, JobsTypes, JobSet
<1>4. ASSUME NEW i \in Jobs \ asked PROVE Tells(i) /\ (Quiet(i)' <=> Quiet(i)) /\ i \in Jobs
  BY <1>1, <1>2 DEF Hears, Quiet
<1>5. CASE Subscribe
  BY <1>1, <1>2, <1>3, <1>4, <1>5 DEF Subscribe, EventsSafe, EventTypes, Hears, Tells, Sent
<1>6. CASE Leave
  BY <1>1, <1>2, <1>3, <1>4, <1>6 DEF Leave, EventsSafe, EventTypes, Hears, Tells, Sent
<1>7. CASE Gone
  BY <1>1, <1>2, <1>3, <1>4, <1>7 DEF Gone, EventsSafe, EventTypes, Hears, Tells, Sent
<1>8. CASE Snapshot(View)
  <2>1. View \in [Jobs -> Standings \cup {Unknown}] /\ \A i \in Jobs : job[i].status # "none" => View[i] = Told(i)
    BY <1>3 DEF View
  <2>2. client = "begun" /\ client' = "reading" /\ known' = View /\ chan' = chan /\ shut' = shut /\ displaced' = displaced
    BY <1>8 DEF Snapshot
  <2>3. EventTypes'
    BY <1>1, <1>2, <2>1, <2>2 DEF EventTypes
  <2>4. ASSUME NEW i \in Jobs \ asked PROVE Tells(i)'
    BY <1>2, <1>3, <1>4, <2>1, <2>2 DEF Tells, Sent
  <2> QED BY <1>2, <2>3, <2>4 DEF EventsSafe, Hears
<1>9. CASE Read
  <2>1. PICK e \in Messages : chan = <<e>>
    BY <1>1, <1>9 DEF Read, EventTypes
  <2>2. /\ client = "reading" /\ client' = client /\ chan' = <<>> /\ shut' = shut /\ displaced' = displaced
        /\ known' = [known EXCEPT ![e.job] = e.what]
    BY <1>9, <2>1 DEF Read
  <2>3. EventTypes'
    BY <1>1, <1>2, <2>2 DEF EventTypes, Messages
  <2>4. ASSUME NEW i \in Jobs \ asked PROVE Tells(i)'
    <3>1. Sent(i) <=> e.job = i
      BY <2>1 DEF Sent
    <3>2. known'[i] = IF e.job = i THEN e.what ELSE known[i]
      BY <1>1, <2>2 DEF EventTypes
    <3>3. chan[1] = e /\ ~Sent(i)'
      BY <2>1, <2>2 DEF Sent
    <3> QED BY <1>2, <1>3, <1>4, <2>2, <3>1, <3>2, <3>3 DEF Tells
  <2> QED BY <1>2, <2>3, <2>4 DEF EventsSafe, Hears
<1> QED BY <1>5, <1>6, <1>7, <1>8, <1>9 DEF ClientStep

\* Every step.
LEMMA NextHears ==
    ASSUME Safe, EventsSafe, [Next]_vars
    PROVE  EventsSafe'
<1>1. JobsTypes /\ EventTypes /\ Hears /\ Cancels
  BY DEF Safe, JobsSafe, JobsKnown, EventsSafe
<1>2. ASSUME UNCHANGED <<menu, job, post, EventVars>>, asked \subseteq asked'
      PROVE  EventsSafe'
  <2>1. EventTypes'
    BY <1>1, <1>2 DEF EventTypes, EventVars
  <2>2. ASSUME NEW i \in Jobs \ asked PROVE Tells(i)'
    BY <1>1, <1>2, <2>2, TellsTheSame DEF Hears
  <2> QED BY <1>2, <2>1, <2>2 DEF EventsSafe, Hears
<1>3. ASSUME NEW j \in Jobs, StartConnectivityJob(j) \/ JobStep(j) \/ Expire(j)
      PROVE  EventsSafe'
  BY <1>3, JobStepHears
<1>4. ASSUME NEW j \in Jobs, CancelConnectivityJob(j)
      PROVE  EventsSafe'
  BY <1>2, <1>4 DEF CancelConnectivityJob
<1>5. CASE Publishing
  BY <1>5, TakeSnapshotHears, SendEventHears DEF Publishing
<1>6. CASE CallCancel \/ CancelDone \/ NodeLeaves \/ BeginClose
  BY <1>2, <1>6 DEF CallCancel, CancelDone, NodeLeaves, BeginClose
<1>7. CASE MarkCanceling
  <2> DEFINE j == cancel.job
  <2>1. /\ cancel.pc = "mark" /\ job' = [job EXCEPT ![j].phase = "canceling"]
        /\ post' \in {post, [post EXCEPT ![Canceler] = Wanted]}
        /\ menu' = menu /\ asked' = asked /\ UNCHANGED EventVars
    BY <1>7 DEF MarkCanceling, Due
  <2>2. j \in asked
    BY <1>1, <2>1 DEF Cancels
  <2> HIDE DEF j
  <2>3. EventTypes'
    BY <1>1, <2>1 DEF EventTypes, EventVars
  <2>4. ASSUME NEW i \in Jobs \ asked PROVE Tells(i)'
    <3>1. i # j /\ i # Canceler
      BY <2>2, JobsAssumption
    <3>2. job'[i] = job[i] /\ post'[i] = post[i]
      BY <1>1, <2>1, <3>1 DEF JobsTypes
    <3> QED BY <1>1, <2>1, <3>2, TellsTheSame DEF Hears
  <2> QED BY <2>1, <2>3, <2>4 DEF EventsSafe, Hears
<1>8. CASE CloseEvents
  <2>1. shut' = TRUE /\ UNCHANGED <<client, chan, known, displaced, menu, job, post, asked>>
    BY <1>8 DEF CloseEvents, CloseJobEvents
  <2>2. EventTypes'
    BY <1>1, <2>1 DEF EventTypes
  <2>3. ASSUME NEW i \in Jobs \ asked PROVE Tells(i)'
    BY <1>1, <2>1 DEF Hears, Tells, Told
  <2> QED BY <2>1, <2>2, <2>3 DEF EventsSafe, Hears
<1>9. CASE ClientStep
  BY <1>9, ClientStepHears
<1>10. CASE UNCHANGED <<jobVars, EventVars>>
  BY <1>2, <1>10 DEF jobVars
<1>11. CASE JobsNext
  BY <1>3, <1>4, <1>5, <1>6, <1>7, <1>8, <1>9, <1>11 DEF JobsNext
<1> QED BY <1>10, <1>11 DEF Next, vars

-----------------------------------------------------------------------------
(* The history: of the runs of the same tags and sites the newest are      *)
(* kept.  The order of runs is that of their stamps, so this is about sets *)
(* of numbers first.                                                       *)

Over(X, n) == {x \in X : x > n}

\* T is what is kept of V: what is not in it has enough above it in T, what is
\* in it has not.
Newest(T, V) ==
    /\ V \subseteq Nat /\ IsFiniteSet(V) /\ T \subseteq V
    /\ \A v \in V \ T : Cardinality(Over(T, v)) >= HistoryKeep
    /\ \A t \in T : Cardinality(Over(T, t)) < HistoryKeep

\* What is above a number is counted.
LEMMA OverCounts ==
    ASSUME NEW X, NEW Y, IsFiniteSet(Y), NEW n, NEW m, Over(X, n) \subseteq Over(Y, m)
    PROVE  /\ IsFiniteSet(Over(X, n)) /\ Cardinality(Over(X, n)) \in Nat /\ Cardinality(Over(Y, m)) \in Nat
           /\ Cardinality(Over(X, n)) <= Cardinality(Over(Y, m)) /\ IsFiniteSet(Over(Y, m))
<1>1. IsFiniteSet(Over(Y, m))
  BY FS_Subset DEF Over
<1>2. IsFiniteSet(Over(X, n)) /\ Cardinality(Over(X, n)) <= Cardinality(Over(Y, m))
  BY <1>1, FS_Subset
<1> QED BY <1>1, <1>2, FS_CardinalityType

\* The higher the fewer.
LEMMA OverFalls ==
    ASSUME NEW X, X \subseteq Nat, NEW n \in Nat, NEW m \in Nat, n > m
    PROVE  Over(X, n) \subseteq Over(X, m)
<1>1. SUFFICES ASSUME NEW x \in X, x > n PROVE x > m
  BY DEF Over
<1>2. x \in Nat
  OBVIOUS
<1> QED BY <1>1, <1>2

\* Which are kept does not depend on which were dropped.
LEMMA NewestAre ==
    ASSUME NEW T, NEW V, Newest(T, V), NEW x \in V
    PROVE  x \in T <=> Cardinality(Over(V, x)) < HistoryKeep
<1>1. V \subseteq Nat /\ IsFiniteSet(V) /\ T \subseteq V /\ IsFiniteSet(T) /\ HistoryKeep \in Nat
  BY FS_Subset, JobsAssumption DEF Newest
<1>2. CASE x \in T
  <2>1. ASSUME NEW y \in Over(V, x), y \notin T PROVE FALSE
    <3>1. Over(T, y) \subseteq Over(T, x) /\ y \in V
      <4>1. x \in Nat /\ y \in Nat /\ y > x /\ T \subseteq Nat /\ y \in V
        BY <1>1, <2>1 DEF Over
      <4> QED BY <4>1, OverFalls
    <3>2. Cardinality(Over(T, y)) <= Cardinality(Over(T, x)) /\ Cardinality(Over(T, y)) \in Nat /\ Cardinality(Over(T, x)) \in Nat
      BY <1>1, <3>1, OverCounts
    <3>3. Cardinality(Over(T, y)) >= HistoryKeep /\ Cardinality(Over(T, x)) < HistoryKeep
      BY <1>2, <2>1, <3>1 DEF Newest
    <3> QED BY <1>1, <3>2, <3>3
  <2>2. Over(V, x) = Over(T, x)
    <3>1. Over(V, x) \subseteq Over(T, x)
      BY <2>1 DEF Over
    <3>2. Over(T, x) \subseteq Over(V, x)
      BY <1>1 DEF Over
    <3> QED BY <3>1, <3>2
  <2> QED BY <1>2, <2>2 DEF Newest
<1>3. CASE x \notin T
  <2>1. Over(T, x) \subseteq Over(V, x)
    BY <1>1 DEF Over
  <2>2. Cardinality(Over(T, x)) <= Cardinality(Over(V, x)) /\ Cardinality(Over(T, x)) \in Nat /\ Cardinality(Over(V, x)) \in Nat
    BY <1>1, <2>1, OverCounts
  <2>3. Cardinality(Over(T, x)) >= HistoryKeep
    BY <1>3 DEF Newest
  <2> QED BY <1>1, <1>3, <2>2, <2>3
<1> QED BY <1>2, <1>3

\* One more, wherever it belongs, pushes out at most one: the newest are kept.
LEMMA NewestGrow ==
    ASSUME NEW T, NEW V, Newest(T, V), NEW n \in Nat, n \notin V, NEW A, A = T \cup {n},
           NEW U, U = {a \in A : Cardinality(Over(A, a)) < HistoryKeep}
    PROVE  Newest(U, V \cup {n})
<1>1. /\ V \subseteq Nat /\ IsFiniteSet(V) /\ T \subseteq V /\ IsFiniteSet(T) /\ HistoryKeep \in Nat
      /\ A \subseteq Nat /\ IsFiniteSet(A) /\ U \subseteq A /\ IsFiniteSet(U)
      /\ IsFiniteSet(V \cup {n})
  <2>1. V \subseteq Nat /\ IsFiniteSet(V) /\ T \subseteq V /\ IsFiniteSet(T) /\ HistoryKeep \in Nat
    BY FS_Subset, JobsAssumption DEF Newest
  <2>2. IsFiniteSet(A) /\ IsFiniteSet(V \cup {n})
    BY <2>1, FS_AddElement
  <2> QED BY <2>1, <2>2, FS_Subset
<1>2. ASSUME NEW X, NEW x, IsFiniteSet(X) PROVE Cardinality(Over(X, x)) \in Nat /\ IsFiniteSet(Over(X, x))
  BY <1>2, OverCounts
<1>3. ASSUME NEW t \in T
      PROVE  Cardinality(Over(A, t)) <= HistoryKeep /\ (t > n => Cardinality(Over(A, t)) < HistoryKeep)
  <2>1. Cardinality(Over(T, t)) < HistoryKeep /\ t \in Nat
    BY <1>1 DEF Newest
  <2>2. CASE t > n
    <3>1. Over(A, t) = Over(T, t)
      BY <1>1, <2>1, <2>2 DEF Over
    <3> QED BY <1>1, <1>2, <2>1, <3>1
  <2>3. CASE ~(t > n)
    <3>1. Over(A, t) \subseteq Over(T, t) \cup {n}
      BY <1>1 DEF Over
    <3>2. IsFiniteSet(Over(T, t) \cup {n}) /\ Cardinality(Over(T, t) \cup {n}) <= Cardinality(Over(T, t)) + 1
          /\ Cardinality(Over(T, t) \cup {n}) \in Nat
      BY <1>1, <1>2, OneMore
    <3>3. Cardinality(Over(A, t)) <= Cardinality(Over(T, t) \cup {n})
      BY <3>1, <3>2, FS_Subset
    <3> QED BY <1>1, <1>2, <2>1, <2>3, <3>2, <3>3
  <2> QED BY <2>2, <2>3
<1>4. ASSUME NEW a \in A \ U, NEW b \in A \ U, b > a PROVE FALSE
  <2>1. Cardinality(Over(A, b)) >= HistoryKeep /\ Cardinality(Over(A, b)) \in Nat /\ a \in Nat /\ b \in Nat
        /\ Cardinality(Over(A, a)) \in Nat
    BY <1>1, <1>2
  <2>2. CASE a \in T
    <3>1. Over(A, b) \cup {b} \subseteq Over(A, a) /\ b \notin Over(A, b)
      <4>1. \A x \in Over(A, b) : x \in A /\ x \in Nat /\ x > b
        BY <1>1 DEF Over
      <4>2. \A x \in Over(A, b) : x > a
        BY <1>4, <2>1, <4>1
      <4>3. ~(b > b)
        BY <2>1
      <4> QED BY <1>4, <4>1, <4>2, <4>3 DEF Over
    <3>2. Cardinality(Over(A, b) \cup {b}) = Cardinality(Over(A, b)) + 1 /\ IsFiniteSet(Over(A, b) \cup {b})
      BY <1>1, <1>2, <3>1, FS_AddElement
    <3>3. Cardinality(Over(A, b) \cup {b}) <= Cardinality(Over(A, a))
      BY <1>1, <1>2, <3>1, FS_Subset
    <3>4. Cardinality(Over(A, a)) <= HistoryKeep
      BY <1>3, <2>2
    <3> QED BY <1>1, <2>1, <3>2, <3>3, <3>4
  <2>3. CASE a = n
    <3>1. b \in T
      BY <1>4, <2>1, <2>3
    <3>2. Cardinality(Over(A, b)) < HistoryKeep
      BY <1>3, <1>4, <2>3, <3>1
    <3> QED BY <1>1, <2>1, <3>2
  <2> QED BY <2>2, <2>3
<1>5. ASSUME NEW v \in A \ U PROVE Cardinality(Over(U, v)) >= HistoryKeep
  <2>1. Over(A, v) = Over(U, v)
    BY <1>1, <1>4, <1>5 DEF Over
  <2>2. Cardinality(Over(A, v)) >= HistoryKeep
    BY <1>1, <1>2
  <2> QED BY <2>1, <2>2
<1>6. ASSUME NEW v \in V \ A PROVE Cardinality(Over(U, v)) >= HistoryKeep
  <2>1. Cardinality(Over(T, v)) >= HistoryKeep /\ v \in Nat
    BY <1>1 DEF Newest
  <2>2. CASE \E a \in A \ U : a > v
    <3>1. PICK a \in A \ U : a > v
      BY <2>2
    <3>2. Over(U, a) \subseteq Over(U, v)
      <4>1. a \in Nat /\ U \subseteq Nat
        BY <1>1
      <4> QED BY <2>1, <3>1, <4>1, OverFalls
    <3>3. Cardinality(Over(U, a)) <= Cardinality(Over(U, v))
      BY <1>1, <3>2, OverCounts
    <3>4. Cardinality(Over(U, a)) >= HistoryKeep
      BY <1>5
    <3> QED BY <1>1, <1>2, <3>3, <3>4
  <2>3. CASE ~\E a \in A \ U : a > v
    <3>1. Over(T, v) \subseteq Over(U, v)
      BY <1>1, <2>3 DEF Over
    <3>2. Cardinality(Over(T, v)) <= Cardinality(Over(U, v))
      BY <1>1, <3>1, OverCounts
    <3> QED BY <1>1, <1>2, <2>1, <3>2
  <2> QED BY <2>2, <2>3
<1>7. ASSUME NEW t \in U PROVE Cardinality(Over(U, t)) < HistoryKeep
  <2>1. Over(U, t) \subseteq Over(A, t)
    BY <1>1 DEF Over
  <2>2. Cardinality(Over(U, t)) <= Cardinality(Over(A, t))
    BY <1>1, <2>1, OverCounts
  <2> QED BY <1>1, <1>2, <2>2
<1>8. V \cup {n} \subseteq Nat /\ U \subseteq V \cup {n} /\ \A v \in (V \cup {n}) \ U : v \in A \ U \/ v \in V \ A
  BY <1>1
<1> QED BY <1>1, <1>5, <1>6, <1>7, <1>8 DEF Newest

\* Runs that differ in their stamps are counted by them.
LEMMA StampsCount ==
    ASSUME NEW X, IsFiniteSet(X), \A x, y \in X : x.stamp = y.stamp => x = y, NEW s
    PROVE  /\ IsFiniteSet({x.stamp : x \in X})
           /\ Cardinality({x \in X : x.stamp > s}) = Cardinality(Over({x.stamp : x \in X}, s))
<1> DEFINE Y == {x \in X : x.stamp > s}
           Z == Over({x.stamp : x \in X}, s)
           f == [x \in Y |-> x.stamp]
<1>1. IsFiniteSet({x.stamp : x \in X})
  <2> DEFINE S == {x.stamp : x \in X}
             g == [x \in X |-> x.stamp]
  <2>1. g \in [X -> S] /\ \A s1 \in S : \E x \in X : g[x] = s1
    OBVIOUS
  <2> HIDE DEF g, S
  <2>2. g \in Surjection(X, S)
    BY <2>1, Fun_IsSurj
  <2>3. IsFiniteSet(S)
    BY <2>2, FS_Surjection
  <2> QED BY <2>3 DEF S
<1>2. IsFiniteSet(Y)
  BY FS_Subset
<1>3. f \in [Y -> Z] /\ (\A x, y \in Y : f[x] = f[y] => x = y) /\ \A z \in Z : \E x \in Y : f[x] = z
  BY DEF Over
<1> HIDE DEF f, Y, Z
<1>4. f \in Bijection(Y, Z)
  BY <1>3, Fun_IsBij
<1>5. ExistsBijection(Y, Z)
  BY <1>4, Fun_ExistsBij
<1>6. Cardinality(Z) = Cardinality(Y)
  BY <1>2, <1>5, FS_Bijection
<1> QED BY <1>1, <1>6 DEF Y, Z

-----------------------------------------------------------------------------
(* The history of the system.                                              *)

\* Where a job has no stamp yet, and where its run has been saved or never
\* will be.
Before == {"none", "starting", "first", "waiting", "second", "passed", "saving"}
After  == {"saved", "ended", "over"}

\* Jobs have different stamps, given in order.
Stamped ==
    /\ \A j \in Jobs : (at[j] \in Before => stamp[j] = 0) /\ (at[j] = "storing" => stamp[j] > 0)
    /\ \A i, j \in Jobs : stamp[i] = stamp[j] /\ stamp[i] > 0 => i = j
    /\ \A j \in Jobs : stamp[j] <= Cardinality({i \in Jobs : stamp[i] > 0})

RunSet == [id : Jobs, stamp : Nat, tags : SUBSET AnyTags, targets : SUBSET Targets, results : SUBSET RowSet]
Scopes == (SUBSET AnyTags) \X (SUBSET Targets)
StampsIn(X, scope) == {x.stamp : x \in {y \in X : Scope(y) = scope}}
Bare(h) == [h EXCEPT !.results = {}]

\* What is saved are the runs of jobs that have been there; what is in the
\* history are the newest of each scope.
Recorded ==
    /\ history \subseteq RunSet /\ saved \subseteq RunSet /\ IsFiniteSet(history) /\ IsFiniteSet(saved)
    /\ \A g \in saved : g.results = {} /\ g.stamp = stamp[g.id] /\ g.stamp > 0 /\ at[g.id] \in After
    /\ \A g, h \in saved : g.stamp = h.stamp => g = h
    /\ \A h \in history : Bare(h) \in saved
    /\ \A g, h \in history : g.stamp = h.stamp => g = h
    /\ \A scope \in Scopes : Newest(StampsIn(history, scope), StampsIn(saved, scope))

HistorySafe == Stamped /\ Recorded

\* What is left of a run without its results.
LEMMA BareRun ==
    ASSUME NEW h \in RunSet
    PROVE  /\ Bare(h) \in RunSet /\ Bare(h).results = {} /\ Bare(h).stamp = h.stamp /\ Bare(h).id = h.id
           /\ Scope(Bare(h)) = Scope(h) /\ Scope(h) \in Scopes /\ h.stamp \in Nat
           /\ (h.results = {} => Bare(h) = h)
  BY DEF RunSet, Bare, Scope, Scopes

\* At first there is none.
LEMMA InitHistory ==
    ASSUME Init
    PROVE  HistorySafe
<1>1. history = {} /\ saved = {} /\ stamp = [j \in Jobs |-> 0]
  BY DEF Init, JobsInit
<1>2. PICK m \in Menus : at = [j \in Jobs |-> IF j \in m.crew THEN "none" ELSE "over"]
  BY DEF Init, JobsInit
<1>3. Stamped
  <2>1. {i \in Jobs : stamp[i] > 0} = {}
    BY <1>1
  <2>2. Cardinality({i \in Jobs : stamp[i] > 0}) = 0
    BY <2>1, FS_EmptySet
  <2> QED BY <1>1, <1>2, <2>2 DEF Stamped
<1>4. Newest({}, {})
  BY FS_EmptySet DEF Newest
<1>5. \A scope : StampsIn({}, scope) = {}
  BY DEF StampsIn
<1> QED BY <1>1, <1>3, <1>4, <1>5, FS_EmptySet DEF HistorySafe, Recorded

\* A step of a job that takes no stamp and saves nothing.
LEMMA OtherJobSteps ==
    ASSUME JobsTypes, NEW j \in Jobs,
           \/ StartConnectivityJob(j) \/ Launch(j) \/ FirstResult(j) \/ FirstPassOver(j) \/ RetryWait(j)
           \/ SecondResult(j) \/ SecondPassOver(j) \/ AllPassed(j) \/ SaveRunFails(j) \/ LastStatus(j)
           \/ Deregister(j) \/ Expire(j) \/ (TakeResults(j) /\ ~Complete(j))
    PROVE  /\ stamp' = stamp /\ history' = history /\ saved' = saved
           /\ \A i \in Jobs : /\ at'[i] \in Before => at[i] \in Before
                              /\ at'[i] = "storing" => at[i] = "storing"
                              /\ at[i] \in After => at'[i] \in After
<1>0. at \in [Jobs -> Places]
  BY DEF JobsTypes
<1>1. CASE StartConnectivityJob(j) \/ FirstResult(j) \/ SecondResult(j) \/ SecondPassOver(j)
  BY <1>0, <1>1 DEF StartConnectivityJob, FirstResult, SecondResult, SecondPassOver, Step, KeepRest, Before, After
<1>2. CASE Launch(j) \/ FirstPassOver(j) \/ RetryWait(j) \/ AllPassed(j)
  BY <1>0, <1>2 DEF Launch, FirstPassOver, RetryWait, AllPassed, KeepRest, Before, After
<1>3. CASE SaveRunFails(j) \/ LastStatus(j) \/ Deregister(j) \/ Expire(j)
  BY <1>0, <1>3 DEF SaveRunFails, LastStatus, Deregister, Expire, Step, KeepRest, Before, After
<1>4. CASE TakeResults(j) /\ ~Complete(j)
  BY <1>0, <1>4 DEF TakeResults, Before, After
<1> QED BY <1>1, <1>2, <1>3, <1>4

\* It leaves the history as it is.
LEMMA HistoryStays ==
    ASSUME HistorySafe, JobsTypes, stamp' = stamp, history' = history, saved' = saved,
           \A i \in Jobs : /\ at'[i] \in Before => at[i] \in Before
                           /\ at'[i] = "storing" => at[i] = "storing"
                           /\ at[i] \in After => at'[i] \in After
    PROVE  HistorySafe'
<1>1. Stamped'
  BY DEF HistorySafe, Stamped
<1>2. ASSUME NEW g \in saved PROVE g.results = {} /\ g.stamp = stamp[g.id] /\ g.stamp > 0 /\ at'[g.id] \in After
  <2>1. g.id \in Jobs
    BY DEF HistorySafe, Recorded, RunSet
  <2> QED BY <2>1 DEF HistorySafe, Recorded
<1>3. Recorded'
  BY <1>2 DEF HistorySafe, Recorded
<1> QED BY <1>1, <1>3 DEF HistorySafe

\* A job takes its stamp: the next one.
LEMMA TakeResultsRecords ==
    ASSUME HistorySafe, JobsTypes, NEW j \in Jobs, TakeResults(j), Complete(j)
    PROVE  HistorySafe'
<1> DEFINE given == {i \in Jobs : stamp[i] > 0}
           n == 1 + Cardinality(given)
<1>1. /\ at[j] = "saving" /\ at' = [at EXCEPT ![j] = "storing"] /\ stamp' = [stamp EXCEPT ![j] = n]
      /\ history' = history /\ saved' = saved
  BY DEF TakeResults
<1>2. at \in [Jobs -> Places] /\ stamp \in [Jobs -> Nat] /\ stamp[j] = 0
  BY <1>1 DEF JobsTypes, HistorySafe, Stamped, Before
<1>3. IsFiniteSet(given) /\ Cardinality(given) \in Nat /\ n = Cardinality(given) + 1 /\ j \notin given
  <2>1. IsFiniteSet(given)
    BY JobsAssumption, FS_Subset
  <2>2. Cardinality(given) \in Nat
    BY <2>1, FS_CardinalityType
  <2> QED BY <1>2, <2>1, <2>2
<1>4. \A i \in Jobs : stamp[i] <= Cardinality(given) /\ stamp[i] \in Nat
  BY <1>2 DEF HistorySafe, Stamped
<1>5. {i \in Jobs : stamp'[i] > 0} = given \cup {j}
  <2> HIDE DEF n
  <2>1. n > 0
    BY <1>3
  <2> QED BY <1>1, <1>2, <2>1
<1>6. Cardinality({i \in Jobs : stamp'[i] > 0}) = n
  <2> HIDE DEF given
  <2>1. Cardinality(given \cup {j}) = Cardinality(given) + 1
    BY <1>3, FS_AddElement
  <2> QED BY <1>3, <1>5, <2>1
<1> HIDE DEF n, given
<1>7. \A i \in Jobs : stamp'[i] = IF i = j THEN n ELSE stamp[i]
  BY <1>1, <1>2
<1>8. Stamped'
  <2>1. \A i \in Jobs : i # j => stamp[i] # n
    BY <1>3, <1>4
  <2>2. \A i, k \in Jobs : stamp'[i] = stamp'[k] /\ stamp'[i] > 0 => i = k
    BY <1>7, <2>1 DEF HistorySafe, Stamped
  <2>3. \A i \in Jobs : stamp'[i] <= n
    BY <1>3, <1>4, <1>7
  <2>4. ASSUME NEW i \in Jobs PROVE (at'[i] \in Before => stamp'[i] = 0) /\ (at'[i] = "storing" => stamp'[i] > 0)
    <3>1. CASE i = j
      BY <1>1, <1>2, <1>3, <1>7, <3>1 DEF Before
    <3>2. CASE i # j
      BY <1>1, <1>2, <1>7, <3>2 DEF HistorySafe, Stamped
    <3> QED BY <3>1, <3>2
  <2> QED BY <1>6, <2>2, <2>3, <2>4 DEF Stamped
<1>9. ASSUME NEW g \in saved PROVE g.results = {} /\ g.stamp = stamp'[g.id] /\ g.stamp > 0 /\ at'[g.id] \in After
  <2>1. g.id \in Jobs /\ at[g.id] \in After
    BY DEF HistorySafe, Recorded, RunSet
  <2>2. g.id # j
    BY <1>1, <2>1 DEF After
  <2> QED BY <1>1, <1>2, <1>7, <2>1, <2>2 DEF HistorySafe, Recorded
<1>10. Recorded'
  BY <1>1, <1>9 DEF HistorySafe, Recorded
<1> QED BY <1>8, <1>10 DEF HistorySafe

\* The run is saved, and what is no longer among the newest is dropped.
LEMMA SaveRunRecords ==
    ASSUME HistorySafe, JobsTypes, JobsSound, NEW j \in Jobs, SaveRun(j)
    PROVE  HistorySafe'
<1> DEFINE s == stamp[j]
           new == Run(j, s)
           sc == Scope(new)
           like == RunsLike(new)
           all == like \cup {new}
           kept == Kept(all)
<1>1. /\ at[j] = "storing" /\ at' = [at EXCEPT ![j] = "saved"] /\ stamp' = stamp
      /\ history' = (history \ like) \cup kept /\ saved' = saved \cup {Bare(new)}
  BY DEF SaveRun, Step, Bare
<1>2. at \in [Jobs -> Places] /\ s \in Nat /\ s > 0
  BY <1>1 DEF JobsTypes, HistorySafe, Stamped
<1>3. new \in RunSet /\ new.stamp = s /\ new.id = j
  BY <1>2 DEF JobsTypes, JobSet, RunSet, Run
<1>4. Bare(new) \in RunSet /\ Bare(new).results = {} /\ Bare(new).stamp = s /\ Bare(new).id = j /\ Scope(Bare(new)) = sc
      /\ sc \in Scopes
  BY <1>3, BareRun
<1>5. like = {h \in history : Scope(h) = sc}
  BY DEF RunsLike
<1>6. kept = {h \in all : Cardinality({g \in all : g.stamp > h.stamp}) < HistoryKeep} /\ kept \subseteq all
  BY DEF Kept
<1>a. all = like \cup {new} /\ sc = Scope(new)
  OBVIOUS
<1> HIDE DEF s, new, like, all, kept, sc
<1>7. \A g \in saved : g.stamp # s
  <2>1. SUFFICES ASSUME NEW g \in saved, g.stamp = s PROVE FALSE
    OBVIOUS
  <2>2. g.id \in Jobs /\ at[g.id] \in After /\ stamp[g.id] = s
    BY <2>1 DEF HistorySafe, Recorded, RunSet
  <2>3. g.id = j
    BY <1>2, <2>2 DEF HistorySafe, Stamped, s
  <2> QED BY <1>1, <2>2, <2>3 DEF After
<1>8. \A h \in history : h \in RunSet /\ h.stamp # s
  <2>1. SUFFICES ASSUME NEW h \in history PROVE h \in RunSet /\ h.stamp # s
    OBVIOUS
  <2>2. h \in RunSet /\ Bare(h) \in saved
    BY DEF HistorySafe, Recorded
  <2> QED BY <1>7, <2>2, BareRun
<1>9. history' \subseteq history \cup {new}
  BY <1>1, <1>5, <1>6, <1>a
<1>10. IsFiniteSet(history) /\ IsFiniteSet(saved)
  BY DEF HistorySafe, Recorded
<1>11. IsFiniteSet(history') /\ IsFiniteSet(saved') /\ IsFiniteSet(all)
  <2>1. IsFiniteSet(history \cup {new}) /\ IsFiniteSet(saved \cup {Bare(new)})
    BY <1>10, FS_AddElement
  <2>2. all \subseteq history \cup {new}
    BY <1>5, <1>a
  <2> QED BY <1>1, <1>9, <2>1, <2>2, FS_Subset
<1>12. ASSUME NEW g \in history', NEW h \in history', g.stamp = h.stamp PROVE g = h
  BY <1>3, <1>8, <1>9, <1>12 DEF HistorySafe, Recorded
<1>13. ASSUME NEW g \in saved', NEW h \in saved', g.stamp = h.stamp PROVE g = h
  BY <1>1, <1>4, <1>7, <1>13 DEF HistorySafe, Recorded
<1>14. ASSUME NEW h \in history' PROVE Bare(h) \in saved'
  BY <1>1, <1>9 DEF HistorySafe, Recorded
<1>15. ASSUME NEW g \in saved' PROVE g.results = {} /\ g.stamp = stamp[g.id] /\ g.stamp > 0 /\ at'[g.id] \in After
  <2>1. CASE g = Bare(new)
    BY <1>1, <1>2, <1>4, <2>1 DEF After, s
  <2>2. CASE g \in saved
    <3>1. g.id \in Jobs /\ at[g.id] \in After
      BY <2>2 DEF HistorySafe, Recorded, RunSet
    <3>2. at'[g.id] \in After
      BY <1>1, <1>2, <3>1 DEF After
    <3> QED BY <2>2, <3>2 DEF HistorySafe, Recorded
  <2> QED BY <1>1, <2>1, <2>2
<1>16. ASSUME NEW scope \in Scopes PROVE Newest(StampsIn(history', scope), StampsIn(saved', scope))
  <2>1. Newest(StampsIn(history, scope), StampsIn(saved, scope))
    BY DEF HistorySafe, Recorded
  <2>2. CASE scope # sc
    <3>1. \A h \in all : Scope(h) = sc
      BY <1>5, <1>a
    <3>2. {y \in history' : Scope(y) = scope} = {y \in history : Scope(y) = scope}
      BY <1>1, <1>5, <1>6, <2>2, <3>1
    <3>3. {y \in saved' : Scope(y) = scope} = {y \in saved : Scope(y) = scope}
      BY <1>1, <1>4, <2>2
    <3> QED BY <2>1, <3>2, <3>3 DEF StampsIn
  <2>3. CASE scope = sc
    <3> DEFINE T == StampsIn(history, sc)
               V == StampsIn(saved, sc)
               A == T \cup {s}
               U == {a \in A : Cardinality(Over(A, a)) < HistoryKeep}
    <3>1. s \notin V /\ Newest(T, V)
      BY <1>7, <2>1, <2>3 DEF StampsIn
    <3>2. Newest(U, V \cup {s})
      BY <1>2, <3>1, NewestGrow
    <3>3. StampsIn(saved', sc) = V \cup {s}
      BY <1>1, <1>4 DEF StampsIn
    <3>4. A = {x.stamp : x \in all}
      BY <1>3, <1>5, <1>a DEF StampsIn
    <3>5. {y \in history' : Scope(y) = sc} = kept
      BY <1>1, <1>5, <1>6, <1>a
    <3>6. \A x, y \in all : x.stamp = y.stamp => x = y
      BY <1>3, <1>5, <1>8, <1>a DEF HistorySafe, Recorded
    <3>7. \A x \in all : Cardinality({g \in all : g.stamp > x.stamp}) = Cardinality(Over({y.stamp : y \in all}, x.stamp))
      BY <1>11, <3>6, StampsCount
    <3>8. \A x \in all : x \in kept <=> x.stamp \in U
      <4>1. SUFFICES ASSUME NEW x \in all PROVE x \in kept <=> x.stamp \in U
        OBVIOUS
      <4>2. x.stamp \in A
        BY <3>4
      <4>3. Cardinality({g \in all : g.stamp > x.stamp}) = Cardinality(Over(A, x.stamp))
        BY <3>4, <3>7
      <4>4. x \in kept <=> Cardinality({g \in all : g.stamp > x.stamp}) < HistoryKeep
        BY <1>6
      <4> QED BY <4>2, <4>3, <4>4
    <3>9. U = {x.stamp : x \in kept}
      <4>1. ASSUME NEW u \in U PROVE u \in {x.stamp : x \in kept}
        <5>1. PICK x \in all : u = x.stamp
          BY <3>4
        <5> QED BY <3>8, <5>1
      <4>2. ASSUME NEW x \in kept PROVE x.stamp \in U
        BY <1>6, <3>8
      <4> QED BY <4>1, <4>2
    <3>10. StampsIn(history', sc) = U
      BY <3>5, <3>9 DEF StampsIn
    <3> QED BY <2>3, <3>2, <3>3, <3>10
  <2> QED BY <2>2, <2>3
<1>17. history' \subseteq RunSet /\ saved' \subseteq RunSet
  BY <1>1, <1>3, <1>4, <1>9 DEF HistorySafe, Recorded
<1>18. Recorded'
  BY <1>1, <1>11, <1>12, <1>13, <1>14, <1>15, <1>16, <1>17 DEF Recorded
<1>19. Stamped'
  <2>1. ASSUME NEW i \in Jobs PROVE (at'[i] \in Before => stamp[i] = 0) /\ (at'[i] = "storing" => stamp[i] > 0)
    BY <1>1, <1>2 DEF HistorySafe, Stamped, Before
  <2> QED BY <1>1, <2>1 DEF HistorySafe, Stamped
<1> QED BY <1>18, <1>19 DEF HistorySafe

\* Every step.
LEMMA NextHistory ==
    ASSUME HistorySafe, Safe, [Next]_vars
    PROVE  HistorySafe'
<1>1. JobsTypes /\ JobsSound
  BY DEF Safe, JobsSafe, JobsKnown
<1>2. ASSUME UNCHANGED <<at, stamp, history, saved>> PROVE HistorySafe'
  BY <1>1, <1>2, HistoryStays
<1>3. ASSUME NEW j \in Jobs, StartConnectivityJob(j) \/ JobStep(j) \/ Expire(j) PROVE HistorySafe'
  <2>1. CASE TakeResults(j) /\ Complete(j)
    BY <1>1, <2>1, TakeResultsRecords
  <2>2. CASE SaveRun(j)
    BY <1>1, <2>2, SaveRunRecords
  <2>3. CASE ~SaveRun(j) /\ ~(TakeResults(j) /\ Complete(j))
    BY <1>1, <1>3, <2>3, OtherJobSteps, HistoryStays DEF JobStep
  <2> QED BY <2>1, <2>2, <2>3
<1>4. CASE OtherStep
  BY <1>2, <1>4 DEF OtherStep, CancelConnectivityJob, Publishing, TakeSnapshot, SendEvent, CallCancel, MarkCanceling, CancelDone,
     NodeLeaves, BeginClose, CloseEvents, ClientStep
<1>5. CASE UNCHANGED <<jobVars, EventVars>>
  BY <1>2, <1>5 DEF jobVars
<1>6. CASE JobsNext
  BY <1>3, <1>4, <1>6 DEF JobsNext, OtherStep
<1> QED BY <1>5, <1>6 DEF Next, vars

-----------------------------------------------------------------------------
(* The properties.                                                         *)

\* What holds in every state.
AllSafe == Safe /\ EventsSafe /\ HistorySafe

\* The parts of a finite set add up.
LEMMA PartsAddUp ==
    ASSUME NEW A, NEW B, NEW C, IsFiniteSet(A), A = B \cup C, B \cap C = {}
    PROVE  IsFiniteSet(B) /\ IsFiniteSet(C) /\ Cardinality(A) = Cardinality(B) + Cardinality(C)
           /\ Cardinality(B) \in Nat /\ Cardinality(C) \in Nat
<1>1. IsFiniteSet(B) /\ IsFiniteSet(C)
  BY FS_Subset
<1>2. Cardinality(B) \in Nat /\ Cardinality(C) \in Nat
  BY <1>1, FS_CardinalityType
<1>3. Cardinality(B \cup C) = Cardinality(B) + Cardinality(C) - Cardinality(B \cap C)
  BY <1>1, FS_Union
<1>4. Cardinality(B \cap C) = 0
  BY FS_EmptySet
<1> QED BY <1>1, <1>2, <1>3, <1>4

\* The rows of a summary add up.
LEMMA SummaryAddsUp ==
    ASSUME JobsKnown, NEW j \in Jobs, NEW tag, NEW t
    PROVE  LET s == Summary(j, tag, t)
           IN  s.passed = s.first + s.recovered /\ s.total = s.passed + s.partial + s.failed
<1> DEFINE rows == Rows(j, tag, t)
           first == {x \in rows : x.first}
           again == {x \in rows : x.try > 1 /\ ~x.first /\ Usable(x)}
           passed == {x \in rows : x.res.verdict = "usable"}
           partial == {x \in rows : x.res.verdict = "partial"}
           failed == {x \in rows : x.res.verdict = "failed"}
<1>1. /\ job[j] \in JobSet /\ Rows1(job[j]) /\ IsFiniteSet(job[j].results)
  BY DEF JobsKnown, JobsTypes, JobsSound, Sound, Counts
<1>2. rows \subseteq job[j].results /\ IsFiniteSet(rows)
  BY <1>1, FS_Subset DEF Rows
<1>3. \A x \in rows : /\ x.res.verdict \in {"usable", "partial", "failed"} /\ x.try \in {1, 2}
                      /\ x.first \in BOOLEAN /\ (x.first <=> x.try = 1 /\ Usable(x))
  BY <1>1, <1>2 DEF JobSet, RowSet, Outcomes, Rows1
<1> HIDE DEF rows
<1>4. Cardinality(passed) = Cardinality(first) + Cardinality(again)
  <2>1. IsFiniteSet(passed)
    BY <1>2, FS_Subset
  <2>2. passed = first \cup again /\ first \cap again = {}
    BY <1>3 DEF Usable
  <2> HIDE DEF passed, first, again
  <2> QED BY <2>1, <2>2, PartsAddUp
<1>5. Cardinality(rows) = Cardinality(passed) + Cardinality(partial) + Cardinality(failed)
  <2> DEFINE rest == partial \cup failed
  <2>1. rows = passed \cup rest /\ passed \cap rest = {} /\ partial \cap failed = {}
    BY <1>3
  <2>2. rest = partial \cup failed
    OBVIOUS
  <2> HIDE DEF passed, partial, failed, rest
  <2>3. Cardinality(rows) = Cardinality(passed) + Cardinality(rest) /\ IsFiniteSet(rest)
    BY <1>2, <2>1, PartsAddUp
  <2>4. Cardinality(rest) = Cardinality(partial) + Cardinality(failed)
    BY <2>1, <2>2, <2>3, PartsAddUp
  <2>5. Cardinality(passed) \in Nat /\ Cardinality(partial) \in Nat /\ Cardinality(failed) \in Nat
    BY <1>2, <2>1, <2>2, <2>3, PartsAddUp
  <2> QED BY <2>3, <2>4, <2>5
<1> DEFINE s == Summary(j, tag, t)
<1>6. /\ s.total = Cardinality(rows) /\ s.first = Cardinality(first) /\ s.passed = Cardinality(passed)
      /\ s.partial = Cardinality(partial) /\ s.failed = Cardinality(failed) /\ s.recovered = Cardinality(again)
  BY DEF Summary, rows
<1> HIDE DEF s, first, again, passed, partial, failed
<1>7. s.passed = s.first + s.recovered /\ s.total = s.passed + s.partial + s.failed
  BY <1>4, <1>5, <1>6
<1> QED BY <1>7 DEF s

\* Counters and rows count results.
LEMMA CountersAreExact ==
    ASSUME JobsKnown
    PROVE  CountersExact
<1>1. ASSUME NEW j \in Jobs
      PROVE  /\ job[j].done = Cardinality(job[j].results)
             /\ job[j].retried = Cardinality({x \in job[j].results : x.try = 2})
             /\ job[j].retried <= job[j].retry
             /\ job[j].recovered = Cardinality({x \in job[j].results : x.try = 2 /\ Usable(x)})
  BY DEF JobsKnown, JobsSound, Sound, Counts, Twice, Rescued
<1>2. ASSUME NEW j \in Jobs, NEW tag \in job[j].tags, NEW t \in job[j].targets
      PROVE  LET s == Summary(j, tag, t)
             IN  s.passed = s.first + s.recovered /\ s.total = s.passed + s.partial + s.failed
  BY SummaryAddsUp
<1> QED BY <1>1, <1>2 DEF CountersExact

LEMMA ProgressIsExact ==
    ASSUME VersSound
    PROVE  ProgressAddsUp
<1>1. ASSUME NEW v \in Verifiers, NEW t \in Targets PROVE AddsAt(ver[v], t)
  BY DEF VersSound, VSound, Adds
<1>2. ASSUME NEW v \in Verifiers, NEW t \in Targets
      PROVE  LET p == ver[v].progress[t]
                 got == {x \in ver[v].sites : x.target = t}
             IN  /\ p.done = Cardinality(got)
                 /\ p.passed = Cardinality({x \in got : x.res.verdict = "usable"})
                 /\ p.passed + p.failed = p.done
                 /\ p.recovered <= p.retried
  BY <1>1 DEF AddsAt, At, Good, Usable
<1> QED BY <1>2 DEF ProgressAddsUp

LEMMA TypesAreCorrect ==
    ASSUME AllSafe
    PROVE  TypeOK
<1>1. /\ Passes /\ JobsTypes /\ VerTypes /\ VersSound /\ EventTypes
  BY DEF AllSafe, Safe, JobsSafe, JobsKnown, VerSafe, VerKnown, EventsSafe
<1>2. ASSUME NEW o \in Owners
      PROVE  /\ pass[o].left \cup pass[o].wait \cup pass[o].probe \subseteq Routes
             /\ pass[o].crew \in 0 .. Slots /\ pass[o].wish \in [Routes -> SUBSET Targets]
             /\ \A x \in pass[o].out : x.route \in Routes /\ x.target \in Targets /\ x.res \in Outcomes
  <2>1. pass[o] \in PassSet /\ Tidy(pass[o])
    BY <1>1 DEF Passes
  <2>2. Cardinality(Busy(pass[o])) \in Nat
    BY <2>1, FS_CardinalityType DEF Tidy
  <2>3. pass[o].crew \in 0 .. Slots
    BY <2>1, <2>2, SitesAssumption DEF Tidy, PassSet
  <2> QED BY <2>1, <2>3 DEF PassSet, Found
<1>3. ASSUME NEW j \in Jobs
      PROVE  /\ job[j].status \in {"none", "running"} \cup Terminal
             /\ DOMAIN job[j].routes \subseteq Routes /\ job[j].targets \subseteq Targets
             /\ stamp[j] \in Nat
  BY <1>1 DEF JobsTypes, JobSet, RouteMaps
<1>4. ASSUME NEW v \in Verifiers
      PROVE  ver[v].round \in 1 .. Rounds /\ ver[v].eligible \cup ver[v].probed \subseteq ver[v].policy.nodes
  BY <1>1 DEF VerTypes, VerSet, VersSound, VSound, Rounded
<1>5. Len(chan) <= 1
  <2>1. CASE chan = <<>>
    BY <2>1
  <2>2. ASSUME NEW e \in Messages, chan = <<e>> PROVE Len(chan) <= 1
    BY <2>2
  <2> QED BY <1>1, <2>1, <2>2 DEF EventTypes
<1> QED BY <1>1, <1>2, <1>3, <1>4, <1>5 DEF TypeOK, Passes, JobsTypes, VerTypes, EventTypes

\* Slots are held for passes that are under way, sessions for batches.
LEMMA NothingIsLeaked ==
    ASSUME Safe
    PROVE  NothingLeaks
<1>1. Passes /\ JobsSound /\ VersSound /\ Sessions
  BY DEF Safe, JobsSafe, JobsKnown, VerSafe, VerKnown
<1>2. ASSUME NEW s \in Taken PROVE InPass(s[1])
  <2>1. s[1] \in Owners /\ s[2] \in pass[s[1]].probe
    BY DEF Taken
  <2>2. pass[s[1]].on
    BY <1>1, <2>1 DEF Passes, Tidy, NoPass
  <2>3. CASE s[1] \in Jobs
    BY <1>1, <2>2, <2>3 DEF JobsSound, Sound, Placed, InPass
  <2>4. CASE s[1] \notin Jobs
    <3>1. s[1] \in Verifiers
      BY <2>1, <2>4, OwnersAssumption
    <3> QED BY <1>1, <2>2, <2>4, <3>1 DEF VersSound, VSound, Visits, InPass
  <2> QED BY <2>3, <2>4
<1> QED BY <1>1, <1>2 DEF NothingLeaks, SlotsHeld, SessionsClosed, Passes, Sessions

\* A finished job has all its results, tried again where it was worth it.
LEMMA FinishedAreHonest ==
    ASSUME JobsSound
    PROVE  FinishedIsHonest
<1>1. SUFFICES ASSUME NEW j \in Jobs, job[j].status = "finished"
               PROVE  /\ Complete(j)
                      /\ \A x \in job[j].results : ~x.res.cut /\ (~Usable(x) /\ x.res.retry => x.try = 2)
  BY DEF FinishedIsHonest
<1>2. /\ job[j] \in JobSet /\ Honest(job[j])
      /\ \A r \in DOMAIN job[j].routes, t \in job[j].targets : HasIn(job[j], r, t)
  BY <1>1 DEF JobsSound, Sound, Stages
<1>3. Complete(j)
  BY <1>2 DEF Complete, Has, HasIn
<1>4. ASSUME NEW x \in job[j].results PROVE ~x.res.cut /\ (~Usable(x) /\ x.res.retry => x.try = 2)
  <2>1. x.try \in {1, 2} /\ x \notin Left(job[j])
    BY <1>2 DEF JobSet, RowSet, Honest
  <2> QED BY <1>2, <2>1 DEF Honest, Left
<1> QED BY <1>3, <1>4

\* The verdicts of a batch that was not canceled.
LEMMA AllAreJudged ==
    ASSUME VersSound
    PROVE  EveryNodeJudged
  BY DEF VersSound, VSound, Judging, EveryNodeJudged, Passed, Usable

\* What a client knows that has read everything.
LEMMA KnowsAtTheEnd ==
    ASSUME EventsSafe
    PROVE  KnownAtTheEnd
<1>1. SUFFICES ASSUME client = "reading", ~shut, chan = <<>>, NEW j \in Jobs, AtRest(j), j \notin asked, j \notin displaced
               PROVE  known[j] = Told(j)
  BY DEF KnownAtTheEnd
<1>2. Tells(j)
  BY <1>1 DEF EventsSafe, Hears
<1> QED BY <1>1, <1>2 DEF Tells, Sent, AtRest

\* The newest runs of each scope are in the history, and no others.
LEMMA NewestAreKept ==
    ASSUME HistorySafe
    PROVE  HistoryIsNewest
<1>1. Recorded /\ \A h \in history : Bare(h) \in saved
  BY DEF HistorySafe, Recorded
<1>2. ASSUME NEW g \in saved
      PROVE  Bare(g) \in {Bare(h) : h \in history} <=>
                 Cardinality({k \in saved : Scope(k) = Scope(g) /\ k.stamp > g.stamp}) < HistoryKeep
  <2> DEFINE sc == Scope(g)
             mine == {y \in saved : Scope(y) = sc}
             T == StampsIn(history, sc)
             V == StampsIn(saved, sc)
  <2>1. g \in RunSet /\ g.results = {} /\ Bare(g) = g /\ sc \in Scopes
    BY <1>1, BareRun DEF Recorded
  <2>2. Newest(T, V) /\ g.stamp \in V
    BY <1>1, <2>1 DEF Recorded, StampsIn
  <2>3. g.stamp \in T <=> Cardinality(Over(V, g.stamp)) < HistoryKeep
    BY <2>2, NewestAre
  <2>4. V = {x.stamp : x \in mine} /\ IsFiniteSet(mine) /\ \A x, y \in mine : x.stamp = y.stamp => x = y
    BY <1>1, FS_Subset DEF StampsIn, Recorded
  <2>5. {k \in saved : Scope(k) = sc /\ k.stamp > g.stamp} = {k \in mine : k.stamp > g.stamp}
    OBVIOUS
  <2>6. Cardinality({k \in mine : k.stamp > g.stamp}) = Cardinality(Over(V, g.stamp))
    <3> HIDE DEF mine, V
    <3> QED BY <2>4, StampsCount
  <2>7. Bare(g) \in {Bare(h) : h \in history} <=> g.stamp \in T
    <3>1. ASSUME NEW h \in history, Bare(h) = Bare(g) PROVE g.stamp \in T
      <4>1. h \in RunSet
        BY <1>1 DEF Recorded
      <4>2. h.stamp = g.stamp /\ Scope(h) = sc
        BY <2>1, <3>1, <4>1, BareRun
      <4> QED BY <4>2 DEF StampsIn
    <3>2. ASSUME NEW h \in history, Scope(h) = sc, h.stamp = g.stamp PROVE Bare(h) = Bare(g)
      <4>1. Bare(h) \in saved /\ Bare(h).stamp = h.stamp
        BY <1>1, BareRun DEF Recorded
      <4> QED BY <1>1, <2>1, <3>2, <4>1 DEF Recorded
    <3> QED BY <3>1, <3>2 DEF StampsIn
  <2> HIDE DEF mine, T, V
  <2> QED BY <2>3, <2>5, <2>6, <2>7
<1> QED BY <1>1, <1>2 DEF HistoryIsNewest, Bare

\* How a route changed, seen from either side.
LEMMA ChangesMirror ==
    ASSUME NEW u \in {"missing", "usable", "partial", "failed"}, NEW v \in {"missing", "usable", "partial", "failed"}
    PROVE  /\ Change(u, v) = "newly usable" <=> Change(v, u) = "newly failed"
           /\ Change(u, v) = "still usable" <=> Change(v, u) = "still usable"
           /\ Change(u, v) = "still unusable" <=> Change(v, u) = "still unusable"
           /\ u # "missing" \/ v # "missing" => (Change(u, v) = "removed" <=> Change(v, u) = "no history")
  BY DEF Change

\* A route that has a result on one of the sites is not missing.
LEMMA VerdictIs ==
    ASSUME NEW results, NEW r, NEW targets
    PROVE  /\ Verdict(results, r, targets) \in {"missing", "usable", "partial", "failed"}
           /\ \A x \in results : x.route = r /\ x.target \in targets => Verdict(results, r, targets) # "missing"
  BY DEF Verdict

LEMMA ComparisonsMirror ==
    ASSUME JobsSound
    PROVE  ComparisonMirrors
<1> SUFFICES ASSUME NEW i \in Jobs, NEW j \in Jobs, job[i].targets = job[j].targets
             PROVE  LET a == job[i].results  b == job[j].results  ts == job[i].targets
                        there == Compare(a, b, ts)
                        back  == Compare(b, a, ts)
                    IN  /\ there["newly usable"] = back["newly failed"]
                        /\ there["removed"] = back["no history"]
                        /\ there["still usable"] = back["still usable"]
                        /\ there["still unusable"] = back["still unusable"]
  BY DEF ComparisonMirrors
<1> DEFINE a == job[i].results
           b == job[j].results
           ts == job[i].targets
           both == {x.route : x \in a \cup b}
           V(r) == Verdict(a, r, ts)
           W(r) == Verdict(b, r, ts)
           here(k) == {r \in both : Change(W(r), V(r)) = k}
           away(k) == {r \in both : Change(V(r), W(r)) = k}
<1>1. \A x \in a \cup b : x.target \in ts
  BY DEF JobsSound, Sound, Rows1
<1>2. ASSUME NEW r \in both
      PROVE  /\ V(r) \in {"missing", "usable", "partial", "failed"} /\ W(r) \in {"missing", "usable", "partial", "failed"}
             /\ V(r) # "missing" \/ W(r) # "missing"
  BY <1>1, VerdictIs
<1>3. Compare(a, b, ts) = [k \in Kinds |-> Cardinality(here(k))]
  BY DEF Compare
<1>4. Compare(b, a, ts) = [k \in Kinds |-> Cardinality(away(k))]
  <2>1. {x.route : x \in b \cup a} = both
    OBVIOUS
  <2> QED BY <2>1 DEF Compare
<1> HIDE DEF both, V, W
<1>5. here("newly usable") = away("newly failed")
  BY <1>2, ChangesMirror
<1>6. here("removed") = away("no history")
  <2>1. \A r \in both : Change(W(r), V(r)) = "removed" <=> Change(V(r), W(r)) = "no history"
    BY <1>2, ChangesMirror
  <2> QED BY <2>1
<1>7. here("still usable") = away("still usable")
  BY <1>2, ChangesMirror
<1>8. here("still unusable") = away("still unusable")
  BY ZenonT(40), <1>2, ChangesMirror
<1> HIDE DEF here, away, a, b, ts
<1>9. \A k \in Kinds : Compare(a, b, ts)[k] = Cardinality(here(k)) /\ Compare(b, a, ts)[k] = Cardinality(away(k))
  BY <1>3, <1>4
<1>10. /\ Compare(a, b, ts)["newly usable"] = Compare(b, a, ts)["newly failed"]
       /\ Compare(a, b, ts)["removed"] = Compare(b, a, ts)["no history"]
       /\ Compare(a, b, ts)["still usable"] = Compare(b, a, ts)["still usable"]
       /\ Compare(a, b, ts)["still unusable"] = Compare(b, a, ts)["still unusable"]
  BY <1>5, <1>6, <1>7, <1>8, <1>9 DEF Kinds
<1> QED BY <1>10 DEF a, b, ts

\* A job that is finished has one result for each of its sites.
LEMMA OverallIs ==
    ASSUME JobsSound
    PROVE  OverallFollows
<1> SUFFICES ASSUME NEW j \in Jobs, job[j].status = "finished", NEW r \in DOMAIN job[j].routes
             PROVE  LET all == Verdict(job[j].results, r, job[j].targets)
                        each == {Verdict(job[j].results, r, {t}) : t \in job[j].targets}
                    IN  (all = "usable" <=> each = {"usable"}) /\ (all = "failed" <=> each = {"failed"})
  BY DEF OverallFollows
<1> DEFINE R == job[j].results
           ts == job[j].targets
           seen == {x \in R : x.route = r /\ x.target \in ts}
           f == [t \in ts |-> CHOOSE x \in R : x.route = r /\ x.target = t]
<1>1. /\ job[j] \in JobSet /\ IsFiniteSet(R)
      /\ \A x, y \in R : x.route = y.route /\ x.target = y.target => x = y
      /\ \A t \in ts : \E x \in R : x.route = r /\ x.target = t
  BY DEF JobsSound, Sound, Counts, Rows1, Stages, HasIn
<1>2. \A t \in ts : f[t] \in R /\ f[t].route = r /\ f[t].target = t
  BY <1>1
<1>3. \A x \in R : x.res.verdict \in {"usable", "partial", "failed"}
  BY <1>1 DEF JobSet, RowSet, Outcomes
<1> HIDE DEF f
<1>4. f \in [ts -> seen] /\ (\A t, u \in ts : f[t] = f[u] => t = u) /\ \A x \in seen : \E t \in ts : f[t] = x
  <2>1. f = [t \in ts |-> f[t]]
    BY DEF f
  <2>2. \A x \in seen : f[x.target] = x
    BY <1>1, <1>2
  <2> QED BY <1>2, <2>1, <2>2
<1>5. IsFiniteSet(seen) /\ IsFiniteSet(ts)
  <2>1. ts \subseteq Targets
    BY <1>1 DEF JobSet
  <2> QED BY <1>1, <2>1, SitesAssumption, FS_Subset
<1>6. Cardinality(seen) = Cardinality(ts)
  <2> HIDE DEF seen, ts
  <2>1. ExistsBijection(ts, seen)
    BY <1>4, Fun_IsBij, Fun_ExistsBij
  <2> QED BY <1>5, <2>1, FS_Bijection
<1>7. ASSUME NEW t \in ts
      PROVE  Verdict(R, r, {t}) = f[t].res.verdict
  <2> DEFINE one == {x \in R : x.route = r /\ x.target \in {t}}
  <2>1. one = {f[t]}
    BY <1>1, <1>2
  <2>2. Cardinality({f[t]}) = 1 /\ Cardinality({t}) = 1
    BY FS_Singleton
  <2>3. Verdict(R, r, {t}) = IF one = {} THEN "missing"
                             ELSE IF Cardinality(one) = Cardinality({t}) /\ \A x \in one : Usable(x) THEN "usable"
                             ELSE IF \E x \in one : x.res.verdict # "failed" THEN "partial"
                             ELSE "failed"
    BY DEF Verdict
  <2>4. f[t].res.verdict \in {"usable", "partial", "failed"}
    BY <1>2, <1>3
  <2> HIDE DEF one
  <2>5. one # {} /\ Cardinality(one) = Cardinality({t})
    BY <2>1, <2>2
  <2>6. (\A x \in one : Usable(x)) <=> f[t].res.verdict = "usable"
    BY <2>1 DEF Usable
  <2>7. (\E x \in one : x.res.verdict # "failed") <=> f[t].res.verdict # "failed"
    BY <2>1
  <2> QED BY <2>3, <2>4, <2>5, <2>6, <2>7
<1>8. Verdict(R, r, ts) = IF seen = {} THEN "missing"
                          ELSE IF \A x \in seen : Usable(x) THEN "usable"
                          ELSE IF \E x \in seen : x.res.verdict # "failed" THEN "partial"
                          ELSE "failed"
  <2>1. Verdict(R, r, ts) = IF seen = {} THEN "missing"
                            ELSE IF Cardinality(seen) = Cardinality(ts) /\ \A x \in seen : Usable(x) THEN "usable"
                            ELSE IF \E x \in seen : x.res.verdict # "failed" THEN "partial"
                            ELSE "failed"
    BY DEF Verdict
  <2> HIDE DEF seen, ts
  <2> QED BY <1>6, <2>1
<1> DEFINE each == {Verdict(R, r, {t}) : t \in ts}
<1>9. each = {f[t].res.verdict : t \in ts}
  BY <1>7
<1>10. \A w : each = {w} <=> seen # {} /\ \A x \in seen : x.res.verdict = w
  <2> HIDE DEF each
  <2>1. \A x \in seen : \E t \in ts : f[t] = x
    BY <1>4
  <2>2. \A t \in ts : f[t] \in seen
    BY <1>4
  <2> HIDE DEF seen, ts
  <2> QED BY <1>9, <2>1, <2>2
<1>11. \A x \in seen : x.res.verdict \in {"usable", "partial", "failed"}
  BY <1>3
<1> HIDE DEF seen, each
<1>12. (Verdict(R, r, ts) = "usable" <=> each = {"usable"}) /\ (Verdict(R, r, ts) = "failed" <=> each = {"failed"})
  BY <1>8, <1>10, <1>11 DEF Usable
<1> QED BY <1>12 DEF each

\* All of it holds in every state of every behaviour.
THEOREM TestsAreSafe == Spec => []AllSafe
<1>1. Init => AllSafe
  BY InitSafe, InitHears, InitHistory DEF AllSafe
<1>2. AllSafe /\ [Next]_vars => AllSafe'
  BY NextSafe, NextHears, NextHistory DEF AllSafe
<1> QED BY <1>1, <1>2, PTL DEF Spec

\* NodeTester.batchSem and the sessions of a batch: no slot is held for a pass
\* that is over, no session is left open but one that a task opened after the
\* cancel of its batch.
THEOREM NothingLeaksCorrect == Spec => []NothingLeaks
<1>1. AllSafe => NothingLeaks
  BY NothingIsLeaked DEF AllSafe
<1> QED BY <1>1, TestsAreSafe, PTL

\* verifyNodes and verifySiteTargets: every node of a batch that was not
\* canceled has a verdict that its results bear out.
THEOREM EveryNodeJudgedCorrect == Spec => []EveryNodeJudged
<1>1. AllSafe => EveryNodeJudged
  BY AllAreJudged DEF AllSafe, Safe, VerSafe, VerKnown
<1> QED BY <1>1, TestsAreSafe, PTL

\* runConnectivityJob and finishConnectivityJob: "finished" is only said of a
\* job that is complete, tried what was worth it again and was not cut short.
THEOREM FinishedIsHonestCorrect == Spec => []FinishedIsHonest
<1>1. AllSafe => FinishedIsHonest
  BY FinishedAreHonest DEF AllSafe, Safe, JobsSafe, JobsKnown
<1> QED BY <1>1, TestsAreSafe, PTL

\* The counters of jobs, the rows of summaries and the progress of batches
\* are those of the results, and everything has its type.
THEOREM ResultsAddUpCorrect == Spec => []ResultsAddUp
<1>1. AllSafe => ResultsAddUp
  BY TypesAreCorrect, CountersAreExact, ProgressIsExact
  DEF AllSafe, Safe, JobsSafe, JobsKnown, VerSafe, VerKnown, ResultsAddUp
<1> QED BY <1>1, TestsAreSafe, PTL

\* publishJobEvent and handleJobEvents: a client that has read everything
\* knows how a job stands, but for a cancel or an event that was displaced.
THEOREM KnownAtTheEndCorrect == Spec => []KnownAtTheEnd
<1>1. AllSafe => KnownAtTheEnd
  BY KnowsAtTheEnd DEF AllSafe
<1> QED BY <1>1, TestsAreSafe, PTL

\* saveConnectivityRun, compareConnectivityResults and
\* aggregateConnectivityRoutes: the history keeps the newest runs, and what is
\* shown of them is true of their results.
THEOREM HistoryIsTrueCorrect == Spec => []HistoryIsTrue
<1>1. AllSafe => HistoryIsTrue
  BY NewestAreKept, ComparisonsMirror, OverallIs DEF AllSafe, Safe, JobsSafe, JobsKnown, HistoryIsTrue
<1> QED BY <1>1, TestsAreSafe, PTL

=============================================================================
