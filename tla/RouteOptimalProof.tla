------------------------- MODULE RouteOptimalProof -------------------------
(***************************************************************************)
(* What the invariants of RouteFinderProof amount to for a caller: over    *)
(* every star map, a route that is answered is a walk through the map that *)
(* no other walk undercuts, and an empty answer means that there is none.  *)
(* And what they amount to for the C++ int a distance is kept in.  Then    *)
(* the conclusion for ShortestRoute: the search implements it step by      *)
(* step; and that it answers what getRouteDijkstra answered before it.     *)
(***************************************************************************)
EXTENDS RouteFinderProof, ConnectionsRoute, FiniteSetTheorems, WellFoundedInduction

(***************************************************************************)
(* c labels each system of the walk r with the weight of the walk so far.  *)
(* A walk may fly a system more than once.                                 *)
(***************************************************************************)
Walk(r, c) ==
  /\ r \in Seq(System)
  /\ r # << >>
  /\ c \in [1 .. Len(r) -> Nat]
  /\ c[1] = 0
  /\ \A i \in 1 .. Len(r) - 1 :
       /\ r[i] \in DOMAIN vertexMap
       /\ r[i + 1] \in DOMAIN vertexMap[r[i]]
       /\ c[i + 1] = c[i] + Weight(r[i], r[i + 1])

(* The search is over and was not a question of staying put. *)
Answered == pc = "done" /\ start # finish

(***************************************************************************)
(* findRoute's own comment: it finds the best route from start to finish,  *)
(* and if no route is found, an empty vector is returned.                  *)
(***************************************************************************)
AnswerIsOptimal ==
  Answered =>
    IF path = << >>
    THEN \A r, c : Walk(r, c) /\ r[1] = start => r[Len(r)] # finish
    ELSE \E cost \in [1 .. Len(path) -> Nat] :
           /\ Walk(path, cost)
           /\ path[1] = start /\ path[Len(path)] = finish
           /\ \A r, c : Walk(r, c) /\ r[1] = start /\ r[Len(r)] = finish
                          => cost[Len(path)] <= c[Len(r)]

-----------------------------------------------------------------------------
(* Natural numbers are well ordered. *)
LEMMA LeastNatural ==
  ASSUME NEW T \in SUBSET Nat, T # {}
  PROVE  \E x \in T : \A y \in T : x <= y
<1>1. PICK x \in T : \A y \in T : ~(<<y, x>> \in OpToRel(<, Nat))
  BY WFMin, NatLessThanWellFounded
<1>2. \A y \in T : ~(y < x)
  BY <1>1 DEF OpToRel
<1> QED
  BY <1>2

(***************************************************************************)
(* An induction along a walk, by the least counterexample: what holds of   *)
(* its first position and passes from each position to the next holds of   *)
(* all of them.  good is the set of positions where it holds.              *)
(***************************************************************************)
LEMMA AlongWalk ==
  ASSUME NEW n \in Nat, NEW good,
         1 \in good,
         \A i \in 1 .. n - 1 : i \in good => i + 1 \in good
  PROVE  \A i \in 1 .. n : i \in good
<1> DEFINE bad == {i \in 1 .. n : i \notin good}
<1> SUFFICES ASSUME bad # {} PROVE FALSE
  OBVIOUS
<1>1. PICK i \in bad : \A j \in bad : i <= j
  <2>1. bad \in SUBSET Nat
    OBVIOUS
  <2> HIDE DEF bad
  <2> QED
    BY <2>1, LeastNatural
<1>2. i # 1 /\ i - 1 \in 1 .. n - 1 /\ i - 1 \notin bad
  BY <1>1
<1> QED
  BY <1>1, <1>2

(* No walk from start undercuts the potential of the system it ends in. *)
LEMMA PotentialIsLowerBound ==
  ASSUME IInv, Answered, path # << >>,
         NEW r, NEW c, Walk(r, c), r[1] = start
  PROVE  \A i \in 1 .. Len(r) : Potential(r[i]) <= c[i]
<1> DEFINE good == {i \in 1 .. Len(r) : Potential(r[i]) <= c[i]}
<1>1. Len(r) \in Nat \ {0} /\ r \in Seq(System) /\ c \in [1 .. Len(r) -> Nat]
  BY DEF Walk
<1>2. /\ start \in Settled /\ finish \in Settled /\ dist[start] = 0
      /\ \A a \in DOMAIN vertexMap : \A b \in DOMAIN vertexMap[a] :
           Potential(b) <= Potential(a) + Weight(a, b)
  BY DEF IInv, RouteCertified, Answered
<1>3. \A s : Potential(s) \in Nat
  BY <1>2 DEF Potential, IInv, TypeOK
<1>4. 1 \in good
  BY <1>1, <1>2 DEF Walk, Potential
<1>5. ASSUME NEW i \in 1 .. Len(r) - 1, i \in good
      PROVE  i + 1 \in good
  <2>1. /\ r[i] \in DOMAIN vertexMap /\ r[i + 1] \in DOMAIN vertexMap[r[i]]
        /\ c[i + 1] = c[i] + Weight(r[i], r[i + 1])
    BY <1>5 DEF Walk
  <2>2. Potential(r[i + 1]) <= Potential(r[i]) + Weight(r[i], r[i + 1])
    BY <1>2, <2>1
  <2>3. /\ Potential(r[i]) <= c[i] /\ c[i] \in Nat /\ Weight(r[i], r[i + 1]) \in Nat
        /\ Potential(r[i]) \in Nat /\ Potential(r[i + 1]) \in Nat
    BY <1>1, <1>3, <1>5, WeightPositive
  <2>4. Potential(r[i + 1]) <= c[i + 1]
    BY <2>1, <2>2, <2>3
  <2> QED
    BY <1>1, <2>4
<1> HIDE DEF good
<1>6. \A i \in 1 .. Len(r) : i \in good
  BY <1>1, <1>4, <1>5, AlongWalk
<1> QED
  BY <1>6 DEF good

(* The route answered is a walk that weighs what the destination is away. *)
LEMMA AnswerIsWalk ==
  ASSUME IInv, Answered, path # << >>
  PROVE  LET cost == [i \in 1 .. Len(path) |-> dist[path[i]]]
         IN  Walk(path, cost) /\ cost[Len(path)] = dist[finish]
<1> DEFINE cost == [i \in 1 .. Len(path) |-> dist[path[i]]]
<1>1. path \in Seq(System) /\ Len(path) \in Nat \ {0}
  BY DEF IInv, TypeOK
<1>2. /\ path[1] = start /\ path[Len(path)] = finish
      /\ start \in Settled /\ dist[start] = 0
      /\ \A i \in 1 .. Len(path) - 1 : path[i + 1] \in Settled /\ ReachedFrom(path[i + 1], path[i])
  BY DEF IInv, RouteCertified, Answered
<1>3. \A i \in 1 .. Len(path) : path[i] \in Settled
  <2>1. ASSUME NEW i \in 1 .. Len(path) PROVE path[i] \in Settled
    <3>1. CASE i = 1
      BY <1>2, <3>1
    <3>2. CASE i # 1
      <4>1. i - 1 \in 1 .. Len(path) - 1 /\ (i - 1) + 1 = i
        BY <1>1, <3>2
      <4> QED
        BY <1>2, <4>1
    <3> QED
      BY <3>1, <3>2
  <2> QED
    BY <2>1
<1>4. cost \in [1 .. Len(path) -> Nat]
  BY <1>3 DEF IInv, TypeOK
<1>5. cost[1] = 0 /\ cost[Len(path)] = dist[finish]
  BY <1>1, <1>2
<1>6. \A i \in 1 .. Len(path) - 1 :
        /\ path[i] \in DOMAIN vertexMap
        /\ path[i + 1] \in DOMAIN vertexMap[path[i]]
        /\ cost[i + 1] = cost[i] + Weight(path[i], path[i + 1])
  BY <1>1, <1>2 DEF ReachedFrom
<1> QED
  BY <1>1, <1>4, <1>5, <1>6 DEF Walk

(* A walk from start never leaves the settled systems of an empty answer. *)
LEMMA WalkStaysSettled ==
  ASSUME IInv, Answered, path = << >>,
         NEW r, NEW c, Walk(r, c), r[1] = start
  PROVE  r[Len(r)] # finish
<1> DEFINE good == {i \in 1 .. Len(r) : r[i] \in Settled}
<1>1. Len(r) \in Nat \ {0}
  BY DEF Walk
<1>2. /\ start \in Settled /\ finish \notin Settled
      /\ \A s \in Settled \cap DOMAIN vertexMap : DOMAIN vertexMap[s] \subseteq Settled
  BY DEF IInv, EmptyMeansUnreachable, Answered
<1>3. 1 \in good
  BY <1>1, <1>2
<1>4. \A i \in 1 .. Len(r) - 1 : i \in good => i + 1 \in good
  BY <1>1, <1>2 DEF Walk
<1> HIDE DEF good
<1>5. \A i \in 1 .. Len(r) : i \in good
  BY <1>1, <1>3, <1>4, AlongWalk
<1> QED
  BY <1>1, <1>2, <1>5 DEF good

(***************************************************************************)
(* findRoute is right on every map: the route it returns exists and weighs *)
(* no more than any walk from start to finish, whatever that walk revisits,*)
(* and it returns no route only if no walk leads from start to finish.     *)
(***************************************************************************)
THEOREM AnswerRight == Spec => []AnswerIsOptimal
<1>1. IInv => AnswerIsOptimal
  <2> SUFFICES ASSUME IInv, Answered PROVE AnswerIsOptimal
    BY DEF AnswerIsOptimal
  <2>1. CASE path = << >>
    BY <2>1, WalkStaysSettled DEF AnswerIsOptimal
  <2>2. CASE path # << >>
    <3> DEFINE cost == [i \in 1 .. Len(path) |-> dist[path[i]]]
    <3>1. Walk(path, cost) /\ cost[Len(path)] = dist[finish]
      BY <2>2, AnswerIsWalk
    <3>2. path[1] = start /\ path[Len(path)] = finish /\ finish \in Settled
      BY <2>2 DEF IInv, RouteCertified, Answered
    <3>3. ASSUME NEW r, NEW c, Walk(r, c), r[1] = start, r[Len(r)] = finish
          PROVE  dist[finish] <= c[Len(r)]
      <4>1. Len(r) \in 1 .. Len(r)
        BY <3>3 DEF Walk
      <4>2. Potential(finish) <= c[Len(r)]
        BY <2>2, <3>3, <4>1, PotentialIsLowerBound
      <4> QED
        BY <3>2, <4>2 DEF Potential
    <3>4. cost \in [1 .. Len(path) -> Nat]
      BY <3>1 DEF Walk
    <3> HIDE DEF cost
    <3> QED
      BY <2>2, <3>1, <3>2, <3>3, <3>4 DEF AnswerIsOptimal
  <2> QED
    BY <2>1, <2>2
<1> QED
  BY <1>1, Inductive, PTL

-----------------------------------------------------------------------------
(***************************************************************************)
(* The bound on distances.  A settled system is at most one hop of the     *)
(* greatest weight away per system settled before it.                      *)
(***************************************************************************)
SettledBounded ==
  /\ IsFiniteSet(Settled)
  /\ \A s \in Settled : dist[s] + MaxWeight <= Cardinality(Settled) * MaxWeight

BInv == SettledBounded /\ DistanceBounded

LEMMA MultipleGrows ==
  ASSUME NEW k \in Nat
  PROVE  /\ k * MaxWeight \in Nat
         /\ (k + 1) * MaxWeight = k * MaxWeight + MaxWeight
<1>1. MaxWeight \in Nat
  BY WeightBounds
<1> QED
  BY <1>1

LEMMA BoundSettle ==
  ASSUME IInv, BInv, NEW e, Settle(e)
  PROVE  BInv'
<1> DEFINE k == Cardinality(Settled)
<1>1. /\ Settled' = Settled \cup {e.sys} /\ e.sys \notin Settled
      /\ dist'[e.sys] = e.dist /\ e \in q /\ q' = q
      /\ \A s \in Settled : dist'[s] = dist[s]
  BY SettleExtends DEF Settle
<1>2. IsFiniteSet(Settled') /\ Cardinality(Settled') = k + 1 /\ k \in Nat
  BY <1>1, FS_AddElement, FS_CardinalityType DEF BInv, SettledBounded
<1>3. /\ k * MaxWeight \in Nat /\ MaxWeight \in Nat
      /\ Cardinality(Settled') * MaxWeight = k * MaxWeight + MaxWeight
  BY <1>2, MultipleGrows, WeightBounds
<1>4. \A f \in q : f.dist \in Nat /\ f.dist <= k * MaxWeight
  BY EntryFields DEF BInv, DistanceBounded, IInv
<1>5. \A s \in Settled : dist[s] \in Nat /\ dist[s] + MaxWeight <= k * MaxWeight
  BY DEF BInv, SettledBounded, IInv, TypeOK
<1> HIDE DEF k
<1>6. DistanceBounded'
  <2>1. MaxWeight' = MaxWeight
    OBVIOUS
  <2>2. \A f \in q : f.dist <= k * MaxWeight + MaxWeight
    BY <1>3, <1>4
  <2> QED
    BY <1>1, <1>3, <2>1, <2>2 DEF DistanceBounded
<1>7. \A s \in Settled' : dist'[s] + MaxWeight <= k * MaxWeight + MaxWeight
  BY <1>1, <1>3, <1>4, <1>5
<1> QED
  BY <1>2, <1>3, <1>6, <1>7 DEF BInv, SettledBounded

LEMMA BoundPush ==
  ASSUME IInv, BInv, PushNeighbour
  PROVE  BInv'
<1> DEFINE k == Cardinality(Settled)
<1>1. pc = "relax" /\ Frame
  BY DEF PushNeighbour, Push, Frame
<1>2. PICK n \in rest, e \in q :
        IsTop(e) /\ q' = q \cup {Entry(e.dist + Weight(curr, n), n, curr)}
  BY DEF PushNeighbour, Push
<1>3. e.dist = dist[curr] /\ curr \in Settled /\ dist[curr] \in Nat
  BY <1>1, <1>2, Relaxing, OneTop DEF Entry, IInv
<1>4. Weight(curr, n) \in Nat /\ Weight(curr, n) <= MaxWeight /\ MaxWeight \in Nat
  BY WeightBounds DEF Weight
<1>5. k \in Nat /\ k * MaxWeight \in Nat
  BY FS_CardinalityType, MultipleGrows DEF BInv, SettledBounded
<1>6. dist[curr] + MaxWeight <= k * MaxWeight
  BY <1>3 DEF BInv, SettledBounded
<1> HIDE DEF k
<1>7. e.dist + Weight(curr, n) <= k * MaxWeight
  BY <1>3, <1>4, <1>5, <1>6
<1>8. DistanceBounded'
  BY <1>1, <1>2, <1>7, FrameFacts DEF BInv, DistanceBounded, Entry, k
<1>9. SettledBounded'
  BY <1>1, FrameFacts DEF BInv, SettledBounded, Frame
<1> QED
  BY <1>8, <1>9 DEF BInv

(***************************************************************************)
(* No distance in the queue exceeds the number of settled systems times    *)
(* the weight of the heaviest hop: with the weights of the code, 10000 a   *)
(* hop, an int is wide enough for any map of up to 214748 systems.         *)
(***************************************************************************)
THEOREM DistancesFit == Spec => []DistanceBounded
<1>1. Init => BInv
  <2> SUFFICES ASSUME Init PROVE BInv
    OBVIOUS
  <2>1. Settled = {} /\ q = {}
    BY DEF Init, Settled, NoEntries
  <2> QED
    BY <2>1, FS_EmptySet DEF BInv, SettledBounded, DistanceBounded
<1>2. IInv /\ BInv /\ [Next]_vars => BInv'
  <2> SUFFICES ASSUME IInv, BInv, [Next]_vars PROVE BInv'
    OBVIOUS
  <2>1. CASE Arrive \/ Expand \/ ExpandUnmapped
    BY <2>1, BoundSettle DEF Arrive, Expand, ExpandUnmapped
  <2>2. CASE PushNeighbour
    BY <2>2, BoundPush
  <2>3. CASE \E s, f \in System, tags \in AvoidSets : FindRoute(s, f, tags)
    <3>1. Settled' = {}
      BY <2>3 DEF FindRoute, ClearVisited, Settled, NoEntries
    <3>2. \A e \in q' : e.dist = 0
      BY <2>3 DEF FindRoute, BeginCall, Entry
    <3>3. SettledBounded'
      BY <3>1, FS_EmptySet DEF SettledBounded
    <3>4. DistanceBounded'
      BY <3>1, <3>2, FS_EmptySet, WeightBounds DEF DistanceBounded
    <3> QED
      BY <3>3, <3>4 DEF BInv
  <2>4. CASE UNCHANGED <<visited, dist>> /\ q' \subseteq q
    <3>1. Settled' = Settled
      BY <2>4 DEF Settled
    <3> QED
      BY <2>4, <3>1 DEF BInv, SettledBounded, DistanceBounded
  <2>5. \/ Arrive \/ Expand \/ ExpandUnmapped \/ PushNeighbour
        \/ \E s, f \in System, tags \in AvoidSets : FindRoute(s, f, tags)
        \/ UNCHANGED <<visited, dist>> /\ q' \subseteq q
    BY DEF Next, Search, vars, Return, ReturnTrivial, PopVisited, SkipNeighbour, PopCurrent,
           Backtrack, ReturnPath
  <2> QED
    BY <2>1, <2>2, <2>3, <2>4, <2>5
<1>3. BInv => DistanceBounded
  BY DEF BInv
<1> QED
  BY <1>1, <1>2, <1>3, Inductive, PTL DEF Spec

-----------------------------------------------------------------------------
(***************************************************************************)
(* The refinement.  ShortestRoute speaks of routes that fly no system      *)
(* twice, of which a finite map has finitely many, and adds their weights  *)
(* up by a recursive function.  Its routes are walks, and the route that   *)
(* findRoute answers is one of its routes.                                 *)
(***************************************************************************)
LEMMA SameWeight ==
  \A types, tags : Promise!CalculateWeight(types, tags) = CalculateWeight(types, tags)
BY DEF Promise!CalculateWeight, CalculateWeight, Promise!FirstOf, FirstOf, Promise!Rank, Rank,
       Promise!Tag, Tag, Promise!SystemType, SystemType, Promise!ConnectionTag, ConnectionTag

LEMMA SameCount ==
  \A S : Promise!Cardinality(S) = Cardinality(S)
BY DEF Promise!Cardinality, Cardinality

(* The recursive function in Cost gives the last label of the walk. *)
LEMMA CostIsLabel ==
  ASSUME NEW r, NEW c, Walk(r, c)
  PROVE  Promise!Cost(r) = c[Len(r)]
<1> DEFINE Sums(g) == g = [i \in 1 .. Len(r) |->
                             IF i = 1 THEN 0 ELSE g[i - 1] + Weight(r[i - 1], r[i])]
           sum == CHOOSE g : Sums(g)
           good == {i \in 1 .. Len(r) : sum[i] = c[i]}
<1>1. Len(r) \in Nat \ {0} /\ c \in [1 .. Len(r) -> Nat] /\ c[1] = 0
  BY DEF Walk
<1>2. \A i \in 1 .. Len(r) - 1 : c[i + 1] = c[i] + Weight(r[i], r[i + 1])
  BY DEF Walk
<1>3. Sums(c)
  <2>1. ASSUME NEW i \in 1 .. Len(r), i # 1
        PROVE  c[i] = c[i - 1] + Weight(r[i - 1], r[i])
    <3>1. i - 1 \in 1 .. Len(r) - 1 /\ (i - 1) + 1 = i
      BY <1>1, <2>1
    <3> QED
      BY <1>2, <3>1
  <2> QED
    BY <1>1, <2>1
<1>4. Sums(sum)
  BY <1>3
<1>5. Promise!Cost(r) = sum[Len(r)]
  BY SameWeight DEF Promise!Cost, Weight
<1> HIDE DEF sum
<1>6. 1 \in good
  BY <1>1, <1>4
<1>7. ASSUME NEW i \in 1 .. Len(r) - 1, i \in good PROVE i + 1 \in good
  <2>1. /\ i + 1 \in 1 .. Len(r) /\ i + 1 # 1 /\ (i + 1) - 1 = i
        /\ sum[i] = c[i]
    BY <1>1, <1>7
  <2>2. sum[i + 1] = sum[i] + Weight(r[i], r[i + 1])
    BY <1>4, <2>1
  <2> QED
    BY <1>2, <2>1, <2>2
<1> HIDE DEF good, Sums
<1>8. \A i \in 1 .. Len(r) : i \in good
  BY <1>1, <1>6, <1>7, AlongWalk
<1> QED
  BY <1>1, <1>5, <1>8 DEF good

(* A route of ShortestRoute can be labelled, hop by hop, and so is a walk. *)
LEMMA RouteIsWalk ==
  ASSUME TypeOK, NEW r \in Promise!SimpleRoutes(start, finish)
  PROVE  /\ \E c : Walk(r, c)
         /\ r[1] = start /\ r[Len(r)] = finish
<1>1. PICK n \in 1 .. Cardinality(DOMAIN vertexMap) : r \in [1 .. n -> DOMAIN vertexMap]
  BY SameCount DEF Promise!SimpleRoutes
<1>2. n \in Nat \ {0} /\ r \in Seq(System) /\ Len(r) = n
  <2>1. n \in Nat \ {0}
    BY <1>1
  <2>2. r \in [1 .. n -> System]
    BY <1>1 DEF TypeOK, IsVertexMap
  <2> QED
    BY <2>1, <2>2
<1>3. /\ r[1] = start /\ r[Len(r)] = finish
      /\ \A i \in 1 .. n - 1 : r[i] \in DOMAIN vertexMap /\ r[i + 1] \in DOMAIN vertexMap[r[i]]
  BY <1>2 DEF Promise!SimpleRoutes, Promise!Hop
<1> DEFINE Labels(c, k) ==
             /\ c \in [1 .. k -> Nat] /\ c[1] = 0
             /\ \A i \in 1 .. k - 1 : c[i + 1] = c[i] + Weight(r[i], r[i + 1])
           good == {k \in 1 .. n : \E c : Labels(c, k)}
<1>4. 1 \in good
  <2>1. Labels([i \in 1 .. 1 |-> 0], 1)
    OBVIOUS
  <2> HIDE DEF Labels
  <2>2. \E c : Labels(c, 1)
    BY <2>1
  <2> QED
    BY <1>2, <2>2
<1>5. ASSUME NEW k \in 1 .. n - 1, k \in good PROVE k + 1 \in good
  <2>1. PICK c : Labels(c, k)
    BY <1>5
  <2> DEFINE hop == Weight(r[k], r[k + 1])
             d == [i \in 1 .. k + 1 |-> IF i = k + 1 THEN c[k] + hop ELSE c[i]]
  <2>2. hop \in Nat /\ k \in Nat \ {0} /\ k + 1 \in 1 .. n
    BY <1>2, WeightPositive
  <2>3. d \in [1 .. k + 1 -> Nat] /\ d[1] = 0 /\ d[k + 1] = d[k] + hop
    BY <2>1, <2>2
  <2>4. \A i \in 1 .. k - 1 : d[i + 1] = c[i + 1] /\ d[i] = c[i]
    BY <2>2
  <2>5. \A i \in 1 .. (k + 1) - 1 : d[i + 1] = d[i] + Weight(r[i], r[i + 1])
    <3> HIDE DEF d
    <3>1. \A i \in 1 .. k - 1 : d[i + 1] = d[i] + Weight(r[i], r[i + 1])
      BY <2>1, <2>4
    <3> QED
      BY <2>2, <2>3, <3>1
  <2>6. Labels(d, k + 1)
    BY <2>3, <2>5
  <2> QED
    BY <2>2, <2>6
<1> HIDE DEF good
<1>6. \A k \in 1 .. n : k \in good
  BY <1>2, <1>4, <1>5, AlongWalk
<1>7. PICK c : Labels(c, n)
  <2> HIDE DEF Labels
  <2>1. n \in 1 .. n /\ n \in good
    BY <1>2, <1>6
  <2> QED
    BY <2>1 DEF good
<1>8. Walk(r, c)
  BY <1>2, <1>3, <1>7 DEF Walk
<1> QED
  BY <1>3, <1>8

(* The route answered gets farther from start with each hop, so that it    *)
(* flies no system twice and is no longer than the map has systems.        *)
LEMMA AnswerIsRoute ==
  ASSUME IInv, Answered, path # << >>, IsFiniteSet(DOMAIN vertexMap)
  PROVE  path \in Promise!SimpleRoutes(start, finish)
<1> DEFINE n == Len(path)
           cost == [i \in 1 .. n |-> dist[path[i]]]
           good == {j \in 1 .. n : \A i \in 1 .. j - 1 : cost[i] < cost[j]}
<1>1. Walk(path, cost)
  BY AnswerIsWalk
<1>2. n \in Nat \ {0} /\ cost \in [1 .. n -> Nat] /\ path \in [1 .. n -> System]
  BY <1>1 DEF Walk
<1>3. path[1] = start /\ path[n] = finish /\ start # finish
  BY DEF IInv, RouteCertified, Answered
<1>4. \A i \in 1 .. n - 1 : path[i] \in DOMAIN vertexMap /\ path[i + 1] \in DOMAIN vertexMap[path[i]]
  BY <1>1 DEF Walk
<1>5. \A i \in 1 .. n - 1 : cost[i] < cost[i + 1]
  <2>1. \A i \in 1 .. n - 1 : cost[i + 1] = cost[i] + Weight(path[i], path[i + 1])
    BY <1>1 DEF Walk
  <2> HIDE DEF cost, n
  <2> QED
    BY <1>2, <2>1, WeightPositive
<1>6. \A j \in 1 .. n : j \in good
  <2> HIDE DEF cost, n
  <2>1. 1 \in good
    BY <1>2
  <2>2. ASSUME NEW j \in 1 .. n - 1, j \in good PROVE j + 1 \in good
    <3>1. /\ cost[j] < cost[j + 1] /\ j + 1 \in 1 .. n
          /\ \A i \in 1 .. j - 1 : cost[i] < cost[j]
      BY <1>2, <1>5, <2>2
    <3>2. ASSUME NEW i \in 1 .. (j + 1) - 1 PROVE cost[i] < cost[j + 1]
      <4>1. i = j \/ i \in 1 .. j - 1
        OBVIOUS
      <4>2. cost[i] \in Nat /\ cost[j] \in Nat /\ cost[j + 1] \in Nat
        BY <1>2, <3>1
      <4> QED
        BY <3>1, <4>1, <4>2
    <3> QED
      BY <3>1, <3>2
  <2> HIDE DEF good
  <2> QED
    BY <1>2, <2>1, <2>2, AlongWalk
<1>7. path \in [1 .. n -> DOMAIN vertexMap]
  <2>1. ASSUME NEW i \in 1 .. n PROVE path[i] \in DOMAIN vertexMap
    <3>1. CASE i # n
      <4> HIDE DEF n
      <4>1. i \in 1 .. n - 1
        BY <1>2, <3>1
      <4> QED
        BY <1>4, <4>1
    <3>2. CASE i = n
      <4>1. n - 1 \in 1 .. n - 1 /\ (n - 1) + 1 = n
        BY <1>2, <1>3
      <4>2. path[n] \in DOMAIN vertexMap[path[n - 1]] /\ path[n - 1] \in DOMAIN vertexMap
        BY <1>4, <4>1
      <4>3. Closed(vertexMap)
        BY DEF IInv, TypeOK
      <4> QED
        BY <3>2, <4>2, <4>3 DEF Closed
    <3> QED
      BY <3>1, <3>2
  <2> QED
    BY <1>2, <2>1
<1>8. \A i, j \in 1 .. n : path[i] = path[j] => i = j
  <2>1. ASSUME NEW i \in 1 .. n, NEW j \in 1 .. n, i < j PROVE path[i] # path[j]
    <3>1. i \in 1 .. j - 1 /\ j \in good
      <4> HIDE DEF n, good
      <4> QED
        BY <1>2, <1>6, <2>1
    <3>2. cost[i] < cost[j] /\ cost[i] \in Nat /\ cost[j] \in Nat
      BY <1>2, <3>1
    <3>3. cost[i] # cost[j]
      <4> HIDE DEF cost
      <4> QED
        BY <3>2
    <3> QED
      BY <3>3
  <2> HIDE DEF n
  <2>2. \A i, j \in 1 .. n : i < j \/ j < i \/ i = j
    BY <1>2
  <2> QED
    BY <2>1, <2>2
<1>9. n <= Cardinality(DOMAIN vertexMap) /\ Cardinality(DOMAIN vertexMap) \in Nat
  <2>1. path \in Injection(1 .. n, DOMAIN vertexMap)
    BY <1>7, <1>8 DEF Injection, IsInjective
  <2>2. Cardinality(1 .. n) <= Cardinality(DOMAIN vertexMap)
    BY <2>1, FS_Injection
  <2>3. Cardinality(1 .. n) = n
    BY <1>2, FS_Interval
  <2> QED
    BY <2>2, <2>3, FS_CardinalityType
<1>10. n \in 1 .. Cardinality(DOMAIN vertexMap)
  BY <1>2, <1>9
<1>11. Promise!IsInjective(path)
  BY <1>7, <1>8 DEF Promise!IsInjective
<1>12. \A i \in 1 .. n - 1 : Promise!Hop(path[i], path[i + 1])
  BY <1>4 DEF Promise!Hop
<1> QED
  <2>1. path \in UNION {[1 .. k -> DOMAIN vertexMap] : k \in 1 .. Promise!Cardinality(DOMAIN vertexMap)}
    <3> HIDE DEF n
    <3>1. n \in 1 .. Promise!Cardinality(DOMAIN vertexMap)
      BY <1>10, SameCount
    <3> QED
      BY <1>7, <3>1
  <2> QED
    BY <1>3, <1>11, <1>12, <2>1 DEF Promise!SimpleRoutes

(* Whatever the search has found when it is over may be answered. *)
LEMMA AnswerMayBeGiven ==
  IInv /\ Answered /\ IsFiniteSet(DOMAIN vertexMap) => path \in Promise!RightAnswers
<1> SUFFICES ASSUME IInv, Answered, IsFiniteSet(DOMAIN vertexMap)
             PROVE  path \in Promise!RightAnswers
  OBVIOUS
<1> DEFINE routes == Promise!SimpleRoutes(start, finish)
<1>1. TypeOK /\ start # finish
  BY DEF IInv, Answered
<1>2. CASE path = << >>
  <2>1. routes = {}
    BY <1>1, <1>2, RouteIsWalk, WalkStaysSettled
  <2>2. Promise!BestRoutes(start, finish) = {}
    BY <2>1 DEF Promise!BestRoutes
  <2> QED
    BY <1>1, <1>2, <2>2 DEF Promise!RightAnswers
<1>3. CASE path # << >>
  <2> DEFINE cost == [i \in 1 .. Len(path) |-> dist[path[i]]]
  <2>1. Walk(path, cost) /\ cost[Len(path)] = dist[finish]
    BY <1>3, AnswerIsWalk
  <2>2. path \in routes /\ Promise!Cost(path) = dist[finish]
    <3> HIDE DEF cost
    <3> QED
      BY <1>3, <2>1, AnswerIsRoute, CostIsLabel
  <2>3. ASSUME NEW other \in routes
        PROVE  dist[finish] <= Promise!Cost(other)
    <3>1. PICK c : Walk(other, c)
      BY <1>1, RouteIsWalk
    <3>2. other[1] = start /\ other[Len(other)] = finish
      BY <1>1, RouteIsWalk
    <3>3. Promise!Cost(other) = c[Len(other)]
      BY <3>1, CostIsLabel
    <3>4. Len(other) \in 1 .. Len(other)
      BY <3>1 DEF Walk
    <3>5. Potential(finish) <= c[Len(other)]
      BY <1>3, <3>1, <3>2, <3>4, PotentialIsLowerBound
    <3>6. finish \in Settled
      BY <1>3 DEF IInv, RouteCertified, Answered
    <3> QED
      BY <3>3, <3>5, <3>6 DEF Potential
  <2>4. path \in Promise!BestRoutes(start, finish)
    BY <2>2, <2>3 DEF Promise!BestRoutes
  <2> QED
    BY <1>1, <2>4 DEF Promise!RightAnswers
<1> QED
  BY <1>2, <1>3

MapFinite == IsFiniteSet(DOMAIN vertexMap)

(* The loaders have loaded finitely many systems; calls load no more. *)
LEMMA MapStaysFinite == Spec => []MapFinite
<1>1. Init => MapFinite
  BY LoadedAssumption DEF Init, MapFinite
<1>2. MapFinite /\ [Next]_vars => MapFinite'
  <2>1. [Next]_vars => vertexMap' = vertexMap
    BY DEF Next, Search, vars, FindRoute, BeginCall, ReturnTrivial, PopVisited, Arrive, Expand,
           ExpandUnmapped, SkipNeighbour, PushNeighbour, PopCurrent, Backtrack, ReturnPath,
           Settle, Push
  <2> QED
    BY <2>1 DEF MapFinite
<1> QED
  BY <1>1, <1>2, PTL DEF Spec

LEMMA StepIsPromised ==
  IInv /\ MapFinite /\ IInv' /\ MapFinite' /\ [Next]_vars => [Promise!Next]_(Promise!vars)
<1> SUFFICES ASSUME IInv, MapFinite, IInv', MapFinite', [Next]_vars
             PROVE  [Promise!Next]_(Promise!vars)
  OBVIOUS
<1> USE DEF callStatus
<1>1. CASE \E s, f \in System, tags \in AvoidSets : FindRoute(s, f, tags)
  <2>1. Promise!Ask
    BY <1>1 DEF Promise!Ask, FindRoute, BeginCall
  <2> QED
    BY <2>1 DEF Promise!Next
<1>2. CASE ReturnTrivial
  <2>1. start = finish
    BY <1>2 DEF ReturnTrivial, IInv, SearchOpen
  <2>2. <<start>> \in Promise!RightAnswers
    BY <2>1 DEF Promise!RightAnswers
  <2>3. Promise!Reply
    BY <1>2, <2>2 DEF Promise!Reply, ReturnTrivial, Return
  <2> QED
    BY <2>3 DEF Promise!Next
<1>3. CASE /\ pc \in {"loop", "relax", "path"} /\ pc' = "done"
           /\ UNCHANGED <<vertexMap, start, finish, avoid>>
  <2>1. start # finish
    BY <1>3 DEF IInv, SearchOpen, PathClimbs
  <2>2. Answered'
    BY <1>3, <2>1 DEF Answered
  <2>3. (path \in Promise!RightAnswers)'
    BY <2>2, AnswerMayBeGiven, PTL DEF MapFinite
  <2>4. Promise!RightAnswers' = Promise!RightAnswers
    BY <1>3 DEF Promise!RightAnswers, Promise!BestRoutes, Promise!SimpleRoutes, Promise!Hop,
                Promise!Cost
  <2>5. Promise!Reply
    BY <1>3, <2>3, <2>4 DEF Promise!Reply
  <2> QED
    BY <2>5 DEF Promise!Next
<1>4. CASE ExpandUnmapped /\ pc' = "crashed"
  <2>1. PICK e \in q : Settle(e) /\ e.sys # finish /\ e.sys \notin DOMAIN vertexMap
    BY <1>4 DEF ExpandUnmapped
  <2>2. e.sys = start
    <3>1. e = Entry(0, start, start) \/ (e.from \in DOMAIN vertexMap /\ e.sys \in DOMAIN vertexMap[e.from])
      BY <2>1 DEF IInv, QueueSupported
    <3>2. Closed(vertexMap)
      BY DEF IInv, TypeOK
    <3> QED
      BY <2>1, <3>1, <3>2 DEF Closed, Entry
  <2>3. Promise!MayDie
    BY <2>1, <2>2 DEF Promise!MayDie
  <2>4. Promise!Die
    BY <1>4, <2>1, <2>3 DEF Promise!Die, Settle
  <2> QED
    BY <2>4 DEF Promise!Next
<1>5. CASE /\ pc \in {"loop", "relax", "path"} /\ pc' \in {"loop", "relax", "path"}
           /\ UNCHANGED <<vertexMap, start, finish, avoid>>
  BY <1>5 DEF Promise!vars
<1>6. CASE UNCHANGED vars
  BY <1>6 DEF Promise!vars, vars
<1>7. CASE Search /\ ~ReturnTrivial
  <2>1. /\ pc \in {"loop", "relax", "path"}
        /\ UNCHANGED <<vertexMap, start, finish, avoid>>
        /\ pc' \in {"loop", "relax", "path", "done"} \/ (ExpandUnmapped /\ pc' = "crashed")
    BY <1>7 DEF Search, PopVisited, Arrive, Expand, ExpandUnmapped, SkipNeighbour,
                PushNeighbour, PopCurrent, Backtrack, ReturnPath, Settle, Push, Return
  <2> QED
    BY <1>3, <1>4, <1>5, <2>1
<1> QED
  BY <1>1, <1>2, <1>6, <1>7 DEF Next

(***************************************************************************)
(* The search implements its promise on every finite map, call after call: *)
(* seen from outside each of its steps asks, replies with a least-weight   *)
(* route, dies searching from an unmapped start, or changes nothing.       *)
(***************************************************************************)
THEOREM SearchKeepsPromise == Spec => AnswersAreShortest
<1>1. Init => Promise!Init
  BY SystemAssumption DEF Init, Promise!Init, callStatus
<1> QED
  BY <1>1, MapStaysFinite, Inductive, StepIsPromised, PTL DEF Spec, AnswersAreShortest, Promise!SafeSpec

-----------------------------------------------------------------------------
(***************************************************************************)
(* The search that findRoute replaced.  Its loops are functions of how     *)
(* many turns they have taken, so that the two can be followed turn by     *)
(* turn: each settles the same system, and waits for the same ones.        *)
(* First: what the old search's functions give.                            *)
(***************************************************************************)

(* An induction over the subsets of a finite set. *)
LEMMA EverySubset ==
  ASSUME NEW S, IsFiniteSet(S), NEW T, {} \in T,
         \A P \in SUBSET S : P # {} /\ (\A x \in P : P \ {x} \in T) => P \in T
  PROVE  SUBSET S \subseteq T
<1> DEFINE bad == {P \in SUBSET S : P \notin T}
           sizes == {Cardinality(P) : P \in bad}
<1> SUFFICES ASSUME bad # {} PROVE FALSE
  OBVIOUS
<1>1. \A P \in SUBSET S : IsFiniteSet(P) /\ Cardinality(P) \in Nat
  BY FS_Subset, FS_CardinalityType
<1>2. PICK k \in sizes : \A j \in sizes : k <= j
  <2>1. sizes \in SUBSET Nat /\ sizes # {}
    BY <1>1
  <2> HIDE DEF sizes
  <2> QED
    BY <2>1, LeastNatural
<1>3. PICK P \in bad : Cardinality(P) = k
  OBVIOUS
<1>4. ASSUME NEW x \in P PROVE P \ {x} \in T
  <2>1. Cardinality(P \ {x}) = Cardinality(P) - 1 /\ Cardinality(P) \in Nat
    BY <1>1, FS_RemoveElement
  <2>2. P \ {x} \in bad => Cardinality(P) <= Cardinality(P \ {x})
    BY <1>2, <1>3
  <2> QED
    BY <2>1, <2>2
<1> QED
  BY <1>3, <1>4

(* A finite set of systems has a last one. *)
LEMMA LastOne ==
  ASSUME NEW S \in SUBSET Int, IsFiniteSet(S)
  PROVE  \A P \in SUBSET S : P # {} => \E n \in P : \A m \in P : m <= n
<1> DEFINE T == {P \in SUBSET S : P # {} => \E n \in P : \A m \in P : m <= n}
<1>1. {} \in T
  OBVIOUS
<1>2. ASSUME NEW P \in SUBSET S, P # {}, \A x \in P : P \ {x} \in T
      PROVE  P \in T
  <2>1. PICK x \in P : TRUE
    BY <1>2
  <2>2. CASE P \ {x} = {}
    BY <2>2
  <2>3. CASE P \ {x} # {}
    <3>1. PICK n \in P \ {x} : \A m \in P \ {x} : m <= n
      BY <1>2, <2>3
    <3>2. CASE x <= n
      BY <3>1, <3>2
    <3>3. CASE ~(x <= n)
      <4>1. \A m \in P : m <= x
        BY <3>1, <3>3
      <4> QED
        BY <4>1
    <3> QED
      BY <3>2, <3>3
  <2> QED
    BY <2>2, <2>3
<1> HIDE DEF T
<1>3. SUBSET S \subseteq T
  BY <1>1, <1>2, EverySubset
<1> QED
  BY <1>3 DEF T

(* Both copies of calculateWeight weigh alike. *)
LEMMA BothWeighAlike ==
  \A types, tags : WeightBefore(types, tags) = CalculateWeight(types, tags)
BY BaseAssumption DEF WeightBefore, CalculateWeight

Queue == SUBSET [dist : Nat, sys : System, from : System]

(* An entry that precedes all the others is the one the queue has on top. *)
LEMMA TopIs ==
  ASSUME NEW Q \in Queue, NEW e \in Q, \A other \in Q : Precedes(e, other)
  PROVE  TopOf(Q) = e
<1> DEFINE top == TopOf(Q)
<1>1. top \in Q /\ \A other \in Q : Precedes(top, other)
  BY DEF TopOf
<1> HIDE DEF top
<1>2. /\ e.dist \in Nat /\ e.sys \in Int /\ e.from \in Int
      /\ top.dist \in Nat /\ top.sys \in Int /\ top.from \in Int
  BY <1>1, SystemAssumption DEF Queue
<1>3. e.dist = top.dist /\ e.sys = top.sys /\ e.from = top.from
  BY <1>1, <1>2 DEF Precedes
<1>4. e = top
  BY <1>1, <1>3 DEF Queue
<1> QED
  BY <1>4 DEF top

(***************************************************************************)
(* Though each push reads the top anew, it always finds the entry that was *)
(* on top before the first: what is pushed is farther away.                *)
(***************************************************************************)
LEMMA FilledIs ==
  ASSUME NEW Q \in Queue, NEW e \in Q, \A other \in Q : Precedes(e, other),
         NEW to, DOMAIN to \subseteq System, IsFiniteSet(DOMAIN to),
         NEW seen, NEW tags
  PROVE  /\ Filled(Q, to, seen, tags) =
              Q \cup {Entry(e.dist + CalculateWeight(to[n], tags), n, e.sys) :
                        n \in DOMAIN to \ DOMAIN seen}
         /\ TopOf(Filled(Q, to, seen, tags)) = e
<1> DEFINE next == DOMAIN to \ DOMAIN seen
           new(n) == Entry(e.dist + WeightBefore(to[n], tags), n, e.sys)
           Last(P) == CHOOSE n \in P : \A m \in P : m <= n
           Pushed(before, n) ==
             before \cup {Entry(TopOf(before).dist + WeightBefore(to[n], tags), n, TopOf(before).sys)}
           Fills(g) == g = [P \in SUBSET next |->
                              IF P = {} THEN Q ELSE Pushed(g[P \ {Last(P)}], Last(P))]
           filled == CHOOSE g : Fills(g)
           With(P) == Q \cup {new(n) : n \in P}
           all == [P \in SUBSET next |-> With(P)]
<1>1. Filled(Q, to, seen, tags) = filled[next]
  BY DEF Filled
<1>2. next \in SUBSET Int /\ IsFiniteSet(next) /\ next \subseteq System
  BY FS_Subset, SystemAssumption
<1>3. e.dist \in Nat /\ e.sys \in System
  BY DEF Queue
<1>4. ASSUME NEW P \in SUBSET next PROVE TopOf(With(P)) = e
  <2>1. ASSUME NEW n \in next
        PROVE  new(n) \in [dist : Nat, sys : System, from : System] /\ Precedes(e, new(n))
    <3>1. /\ WeightBefore(to[n], tags) \in Nat /\ WeightBefore(to[n], tags) >= 1
          /\ n \in System
      BY <1>2, WeightBounds, BothWeighAlike
    <3> QED
      BY <1>3, <3>1 DEF Entry, Precedes
  <2> HIDE DEF new, next
  <2>2. With(P) \in Queue /\ e \in With(P) /\ \A other \in With(P) : Precedes(e, other)
    BY <2>1 DEF Queue
  <2> HIDE DEF With
  <2> QED
    BY <2>2, TopIs
<1>5. ASSUME NEW P \in SUBSET next, P # {}
      PROVE  Last(P) \in P /\ P \ {Last(P)} \in SUBSET next
  <2>1. \E n \in P : \A m \in P : m <= n
    BY <1>2, <1>5, LastOne
  <2> QED
    BY <2>1
<1>6. \A P \in SUBSET next : With({}) = Q /\ \A n \in P : Pushed(With(P \ {n}), n) = With(P)
  <2> SUFFICES ASSUME NEW P \in SUBSET next, NEW n \in P
               PROVE  Pushed(With(P \ {n}), n) = With(P)
    OBVIOUS
  <2>1. TopOf(With(P \ {n})) = e
    <3>1. P \ {n} \in SUBSET next
      OBVIOUS
    <3> HIDE DEF With, next
    <3> QED
      BY <1>4, <3>1
  <2>2. Pushed(With(P \ {n}), n) = With(P \ {n}) \cup {new(n)}
    BY <2>1
  <2> HIDE DEF new, Pushed
  <2> QED
    BY <2>2
<1> HIDE DEF next, new, Last, Pushed, With
<1>7. Fills(all)
  <2>1. ASSUME NEW P \in SUBSET next
        PROVE  all[P] = IF P = {} THEN Q ELSE Pushed(all[P \ {Last(P)}], Last(P))
    BY <1>5, <1>6
  <2> QED
    BY <2>1
<1>8. Fills(filled)
  <2> HIDE DEF Fills, all
  <2> QED
    BY <1>7
<1> DEFINE T == {P \in SUBSET next : filled[P] = With(P)}
<1> HIDE DEF filled
<1>9. {} \in T
  BY <1>6, <1>8
<1>10. ASSUME NEW P \in SUBSET next, P # {}, \A x \in P : P \ {x} \in T
       PROVE  P \in T
  <2>1. filled[P \ {Last(P)}] = With(P \ {Last(P)}) /\ Last(P) \in P
    BY <1>5, <1>10
  <2>2. filled[P] = Pushed(filled[P \ {Last(P)}], Last(P))
    BY <1>8, <1>10
  <2> QED
    BY <1>6, <2>1, <2>2
<1> HIDE DEF T
<1>11. SUBSET next \subseteq T
  BY <1>2, <1>9, <1>10, EverySubset
<1>12. filled[next] = With(next)
  BY <1>11 DEF T
<1>13. TopOf(With(next)) = e
  BY <1>4
<1> QED
  BY <1>1, <1>12, <1>13, BothWeighAlike DEF With, new, next

-----------------------------------------------------------------------------
(* An induction over the natural numbers. *)
LEMMA FromZero ==
  ASSUME NEW T, 0 \in T, \A k \in Nat : k \in T => k + 1 \in T
  PROVE  Nat \subseteq T
<1> DEFINE bad == {k \in Nat : k \notin T}
<1> SUFFICES ASSUME bad # {} PROVE FALSE
  OBVIOUS
<1>1. PICK k \in bad : \A j \in bad : k <= j
  <2>1. bad \in SUBSET Nat
    OBVIOUS
  <2> HIDE DEF bad
  <2> QED
    BY <2>1, LeastNatural
<1>2. k # 0 /\ k - 1 \in Nat /\ k - 1 \notin bad
  BY <1>1
<1> QED
  BY <1>1, <1>2

(* The recursion over the turns gives one state after the other. *)
LEMMA TurnByTurn ==
  ASSUME NEW map, NEW from, NEW to, NEW tags, NEW n \in Nat
  PROVE  /\ AfterTurns(map, from, to, tags, 0) =
              [queue |-> {Entry(0, from, from)}, visited |-> NoEntries]
         /\ AfterTurns(map, from, to, tags, n + 1) =
              Turn(AfterTurns(map, from, to, tags, n), map, to, tags)
<1> DEFINE first == [queue |-> {Entry(0, from, from)}, visited |-> NoEntries]
           turn(s) == Turn(s, map, to, tags)
           Follows(g, k) == g = [i \in 0 .. k |-> IF i = 0 THEN first ELSE turn(g[i - 1])]
           after(k) == CHOOSE g : Follows(g, k)
<1>1. \A k : AfterTurns(map, from, to, tags, k) = after(k)[k]
  BY DEF AfterTurns
<1> HIDE DEF first, turn
<1>2. \A k \in Nat : \E g : Follows(g, k)
  <2> DEFINE T == {k \in Nat : \E g : Follows(g, k)}
  <2>1. 0 \in T
    <3>1. Follows([i \in 0 .. 0 |-> first], 0)
      OBVIOUS
    <3> HIDE DEF Follows
    <3> QED
      BY <3>1
  <2>2. ASSUME NEW k \in Nat, k \in T PROVE k + 1 \in T
    <3>1. PICK g : Follows(g, k)
      BY <2>2
    <3> DEFINE h == [i \in 0 .. k + 1 |-> IF i = k + 1 THEN turn(g[k]) ELSE g[i]]
    <3>2. \A i \in 0 .. k + 1 : h[i] = IF i = 0 THEN first ELSE turn(h[i - 1])
      <4> SUFFICES ASSUME NEW i \in 0 .. k + 1
                   PROVE  h[i] = IF i = 0 THEN first ELSE turn(h[i - 1])
        OBVIOUS
      <4>1. CASE i = k + 1
        BY <4>1
      <4>2. CASE i \in 0 .. k
        BY <3>1, <4>2
      <4> QED
        BY <4>1, <4>2
    <3>3. Follows(h, k + 1)
      BY <3>2
    <3> HIDE DEF Follows, h
    <3> QED
      BY <3>3
  <2> HIDE DEF T
  <2>3. Nat \subseteq T
    BY <2>1, <2>2, FromZero
  <2> QED
    BY <2>3 DEF T
<1>3. \A k \in Nat : Follows(after(k), k)
  <2> HIDE DEF Follows
  <2> QED
    BY <1>2
<1> HIDE DEF after
<1>4. after(0)[0] = first
  BY <1>3
<1>5. after(n + 1)[n + 1] = turn(after(n + 1)[n])
  BY <1>3
<1>6. after(n + 1)[n] = after(n)[n]
  <2> DEFINE T == {i \in Nat : i <= n => after(n + 1)[i] = after(n)[i]}
  <2>1. 0 \in T
    BY <1>3
  <2>2. ASSUME NEW i \in Nat, i \in T PROVE i + 1 \in T
    <3> SUFFICES ASSUME i + 1 <= n PROVE after(n + 1)[i + 1] = after(n)[i + 1]
      OBVIOUS
    <3>1. i + 1 \in 0 .. n /\ i + 1 \in 0 .. n + 1 /\ i + 1 # 0 /\ (i + 1) - 1 = i
      OBVIOUS
    <3>2. after(n + 1)[i] = after(n)[i]
      BY <2>2
    <3> QED
      BY <1>3, <3>1, <3>2
  <2> HIDE DEF T
  <2>3. Nat \subseteq T
    BY <2>1, <2>2, FromZero
  <2> QED
    BY <2>3 DEF T
<1> QED
  BY <1>1, <1>4, <1>5, <1>6 DEF first, turn

(* A search that has come to its last turn takes no more of them. *)
LEMMA NoMoreTurns ==
  ASSUME NEW map, NEW from, NEW to, NEW tags, NEW n \in Nat, NEW limit \in Nat, n <= limit,
         NEW s, s = AfterTurns(map, from, to, tags, n),
         \/ Undropped(s.queue, s.visited) = {}
         \/ TopOf(Undropped(s.queue, s.visited)).sys = to
  PROVE  AfterTurns(map, from, to, tags, limit) = s
<1> DEFINE T == {k \in Nat : AfterTurns(map, from, to, tags, n + k) = s}
<1>1. 0 \in T
  OBVIOUS
<1>2. Turn(s, map, to, tags) = s
  BY DEF Turn
<1>3. ASSUME NEW k \in Nat, k \in T PROVE k + 1 \in T
  <2>1. n + k \in Nat /\ n + (k + 1) = (n + k) + 1
    OBVIOUS
  <2> QED
    BY <1>2, <1>3, <2>1, TurnByTurn
<1> HIDE DEF T
<1>4. Nat \subseteq T
  BY <1>1, <1>3, FromZero
<1>5. limit - n \in T /\ n + (limit - n) = limit
  BY <1>4
<1> QED
  BY <1>5 DEF T

(* The first k of climb lead back from the destination to the start. *)
ClimbsBack(climb, k, seen, from, to) ==
  /\ climb[1] = to /\ climb[k] = from /\ seen[from] = from
  /\ \A i \in 2 .. k - 1 : climb[i] # from
  /\ \A i \in 1 .. k - 1 : seen[climb[i]] = climb[i + 1]

(* The do-while gives that climb, the right way round. *)
LEMMA WalkBackIs ==
  ASSUME NEW limit \in Nat, NEW k \in 2 .. limit, NEW climb, NEW seen, NEW from, NEW to,
         ClimbsBack(climb, k, seen, from, to)
  PROVE  WalkBack(seen, from, to, limit) = [i \in 1 .. k |-> climb[k + 1 - i]]
<1> USE DEF ClimbsBack
<1> DEFINE Follows(g) == g = [i \in 1 .. limit |-> IF i = 1 THEN to ELSE seen[g[i - 1]]]
           back == CHOOSE g : Follows(g)
           onward == [i \in 1 .. limit |-> IF i <= k THEN climb[i] ELSE from]
           Length(j) == back[j] = from /\ \A i \in 2 .. j - 1 : back[i] # from
           length == CHOOSE j \in 2 .. limit : Length(j)
           good == {i \in 1 .. limit : back[i] = onward[i]}
<1>1. WalkBack(seen, from, to, limit) = [i \in 1 .. length |-> back[length + 1 - i]]
  BY DEF WalkBack
<1>2. Follows(onward)
  <2>1. ASSUME NEW i \in 1 .. limit, i # 1 PROVE onward[i] = seen[onward[i - 1]]
    <3>1. CASE i <= k
      <4>1. i - 1 \in 1 .. k - 1 /\ (i - 1) + 1 = i
        BY <2>1, <3>1
      <4> QED
        BY <3>1, <4>1
    <3>2. CASE i = k + 1
      BY <3>2
    <3>3. CASE i > k + 1
      BY <3>3
    <3> QED
      BY <3>1, <3>2, <3>3
  <2> QED
    BY <2>1
<1>3. Follows(back)
  <2> HIDE DEF Follows, onward
  <2> QED
    BY <1>2
<1> HIDE DEF back
<1>4. 1 \in good
  BY <1>3
<1>5. ASSUME NEW i \in 1 .. limit - 1, i \in good PROVE i + 1 \in good
  <2>1. i + 1 \in 1 .. limit /\ i + 1 # 1 /\ (i + 1) - 1 = i
    OBVIOUS
  <2> QED
    BY <1>2, <1>3, <1>5, <2>1
<1> HIDE DEF good, Follows
<1>6. \A i \in 1 .. limit : i \in good
  BY <1>4, <1>5, AlongWalk
<1>7. \A i \in 1 .. k : back[i] = climb[i]
  BY <1>6 DEF good
<1>8. Length(k) /\ \A j \in 2 .. limit : Length(j) => j = k
  <2>1. Length(k)
    BY <1>7
  <2>2. ASSUME NEW j \in 2 .. limit, Length(j) PROVE j = k
    <3>1. ~(j < k)
      BY <1>7, <2>2
    <3>2. ~(k < j)
      BY <1>7, <2>2
    <3> QED
      BY <3>1, <3>2
  <2> QED
    BY <2>1, <2>2
<1>9. length = k
  <2> HIDE DEF Length
  <2> QED
    BY <1>8
<1>10. \A i \in 1 .. k : back[k + 1 - i] = climb[k + 1 - i]
  BY <1>7
<1> HIDE DEF length
<1>11. [i \in 1 .. length |-> back[length + 1 - i]] = [i \in 1 .. k |-> back[k + 1 - i]]
  BY <1>9
<1> QED
  BY <1>1, <1>10, <1>11

-----------------------------------------------------------------------------
(***************************************************************************)
(* Second: the two searches.  At the top of findRoute's loop the old       *)
(* search has taken one turn for each system settled, and what it has yet  *)
(* to consider waits in q.  While curr is expanded it has taken that turn  *)
(* already: its queue has what is still coming, and lacks the top.  On the *)
(* way back both follow the same predecessors.                             *)
(***************************************************************************)
OldAfter(n) == AfterTurns(vertexMap, start, finish, avoid, n)
OldRoute == GetRouteDijkstra(vertexMap, start, finish, avoid)
Systems == Cardinality(DOMAIN vertexMap)
Coming == {Entry(dist[curr] + Weight(curr, n), n, curr) : n \in rest \ Settled}

Comparable == start # finish /\ start \in DOMAIN vertexMap

LoopInStep ==
  pc = "loop" =>
    /\ OldAfter(Cardinality(Settled)).visited = visited
    /\ Undropped(OldAfter(Cardinality(Settled)).queue, visited) = Undropped(q, visited)

RelaxInStep ==
  pc = "relax" =>
    /\ OldAfter(Cardinality(Settled)).visited = visited
    /\ OldAfter(Cardinality(Settled)).queue =
         (q \cup Coming) \ {Entry(dist[curr], curr, visited[curr])}

PathInStep ==
  pc = "path" =>
    /\ OldRoute = WalkBack(visited, start, finish, Systems)
    /\ \A i \in 1 .. Len(path) : path[i] # start
    /\ \A i \in 1 .. Len(path) - 1 : path[i + 1] = visited[path[i]]

InStep == Comparable => LoopInStep /\ RelaxInStep /\ PathInStep

CInv == InStep /\ SameAsBefore

(* A step that leaves the map and the question alone leaves them the same. *)
LEMMA OldStays ==
  ASSUME UNCHANGED <<vertexMap, avoid, start, finish>>
  PROVE  /\ OldRoute' = OldRoute /\ Comparable' = Comparable /\ Systems' = Systems
         /\ \A n : OldAfter(n)' = OldAfter(n)
BY DEF OldRoute, Comparable, Systems, OldAfter

(* Whatever is settled is in the map, if the start is. *)
LEMMA SettledInMap ==
  ASSUME IInv, Comparable, MapFinite
  PROVE  /\ Settled \subseteq DOMAIN vertexMap /\ IsFiniteSet(Settled)
         /\ Systems \in Nat /\ Cardinality(Settled) \in 0 .. Systems
<1>1. \A s \in Settled : s \in DOMAIN vertexMap
  BY DEF IInv, DistancesTight, ReachedFrom, TypeOK, Closed, Comparable
<1> QED
  BY <1>1, FS_Subset, FS_CardinalityType DEF MapFinite, Systems

(* A system that is not settled yet keeps all that waits behind it. *)
LEMMA NothingDropped ==
  ASSUME IInv, NEW e, IsTop(e), e.sys \notin Settled
  PROVE  q \in Queue /\ Undropped(q, visited) = q /\ TopOf(q) = e
<1>1. q \in Queue /\ e \in q /\ \A other \in q : Precedes(e, other)
  BY DEF IInv, TypeOK, Queue, IsTop
<1> QED
  BY <1>1, TopIs DEF Undropped, Settled

(* What the old search answers when it has come to its last turn. *)
LEMMA OldEnds ==
  ASSUME IInv, Comparable, MapFinite, NEW s, s = OldAfter(Cardinality(Settled)),
         NEW left, left = Undropped(s.queue, s.visited),
         left = {} \/ TopOf(left).sys = finish
  PROVE  OldRoute = IF left = {} THEN << >>
                    ELSE WalkBack(Insert(s.visited, finish, TopOf(left).from), start, finish, Systems)
<1>1. AfterTurns(vertexMap, start, finish, avoid, Systems) = s
  BY SettledInMap, NoMoreTurns DEF OldAfter
<1> QED
  BY <1>1 DEF OldRoute, GetRouteDijkstra, Systems, Comparable

(* One turn of the old search visits the top and pushes all it leads to. *)
LEMMA OldTurn ==
  ASSUME IInv, Comparable, MapFinite, LoopInStep, pc = "loop", NEW e, IsTop(e),
         e.sys \notin Settled, e.sys # finish
  PROVE  /\ e.sys \in DOMAIN vertexMap
         /\ OldAfter(Cardinality(Settled) + 1) =
              [queue |-> (q \cup {Entry(e.dist + Weight(e.sys, n), n, e.sys) :
                                    n \in DOMAIN vertexMap[e.sys] \ (Settled \cup {e.sys})}) \ {e},
               visited |-> Insert(visited, e.sys, e.from)]
<1> DEFINE s == OldAfter(Cardinality(Settled))
           now == Insert(visited, e.sys, e.from)
           filled == Filled(q, vertexMap[e.sys], now, avoid)
<1>1. e \in q /\ e.sys \in DOMAIN vertexMap /\ \A other \in q : Precedes(e, other)
  BY DEF IsTop, IInv, QueueSupported, TypeOK, Closed, Comparable, Entry
<1>2. s.visited = visited /\ Undropped(s.queue, s.visited) = q /\ q # {} /\ TopOf(q) = e
  BY <1>1, NothingDropped DEF LoopInStep
<1>3. Turn(s, vertexMap, finish, avoid) = [queue |-> filled \ {TopOf(filled)}, visited |-> now]
  <2> HIDE DEF s
  <2> QED
    BY <1>2 DEF Turn
<1>4. OldAfter(Cardinality(Settled) + 1) = Turn(s, vertexMap, finish, avoid)
  BY SettledInMap, TurnByTurn DEF OldAfter
<1>5. DOMAIN now = Settled \cup {e.sys}
  BY DEF Insert, Settled
<1>6. DOMAIN vertexMap[e.sys] \subseteq System /\ IsFiniteSet(DOMAIN vertexMap[e.sys])
  BY <1>1, FS_Subset DEF IInv, TypeOK, IsVertexMap, Closed, MapFinite
<1>7. /\ filled = q \cup {Entry(e.dist + CalculateWeight(vertexMap[e.sys][n], avoid), n, e.sys) :
                            n \in DOMAIN vertexMap[e.sys] \ DOMAIN now}
      /\ TopOf(filled) = e
  <2> HIDE DEF now
  <2> QED
    BY <1>1, <1>6, NothingDropped, FilledIs
<1> HIDE DEF filled, now, s
<1>8. filled = q \cup {Entry(e.dist + Weight(e.sys, n), n, e.sys) :
                        n \in DOMAIN vertexMap[e.sys] \ (Settled \cup {e.sys})}
  BY <1>5, <1>7 DEF Weight
<1> QED
  BY <1>1, <1>3, <1>4, <1>7, <1>8 DEF now

-----------------------------------------------------------------------------
(* Third: each step of findRoute keeps the two in step. *)
LEMMA BeginInStep ==
  ASSUME IInv, NEW s \in System, NEW f \in System, NEW tags \in AvoidSets, FindRoute(s, f, tags)
  PROVE  CInv'
<1>1. /\ pc' \in {"trivial", "loop"} /\ visited' = NoEntries /\ start' = s
      /\ q' = {Entry(0, s, s)}
  BY DEF FindRoute, BeginCall, ClearVisited
<1>2. Cardinality(Settled)' = 0
  BY <1>1, FS_EmptySet DEF Settled, NoEntries
<1>3. OldAfter(0)' = [queue |-> {Entry(0, s, s)}, visited |-> NoEntries]
  BY <1>1, TurnByTurn DEF OldAfter
<1>4. LoopInStep'
  BY <1>1, <1>2, <1>3 DEF LoopInStep
<1> QED
  BY <1>1, <1>4 DEF CInv, InStep, RelaxInStep, PathInStep, SameAsBefore

LEMMA TrivialInStep ==
  ASSUME IInv, ReturnTrivial
  PROVE  CInv'
<1>1. start = finish /\ pc' = "done" /\ path' = <<start>> /\ UNCHANGED <<vertexMap, avoid, start, finish>>
  BY DEF ReturnTrivial, Return, IInv, SearchOpen
<1>2. OldRoute' = <<start>>
  BY <1>1 DEF OldRoute, GetRouteDijkstra
<1> QED
  BY <1>1, <1>2 DEF CInv, InStep, LoopInStep, RelaxInStep, PathInStep, SameAsBefore, OldRoute

(* The queue is exhausted for the one when it is for the other. *)
LEMMA ExhaustedInStep ==
  ASSUME IInv, MapFinite, start # finish, Frame, Return(<< >>),
         Comparable => LET s == OldAfter(Cardinality(Settled)) IN Undropped(s.queue, s.visited) = {}
  PROVE  CInv'
<1>1. pc' = "done" /\ path' = << >> /\ UNCHANGED <<vertexMap, avoid, start, finish>>
  BY DEF Return, Frame
<1>2. Comparable => OldRoute = << >>
  BY OldEnds
<1>3. SameAsBefore'
  BY <1>1, <1>2, OldStays DEF SameAsBefore, OldRoute, Comparable
<1> QED
  BY <1>1, <1>3 DEF CInv, InStep, LoopInStep, RelaxInStep, PathInStep

LEMMA PopVisitedInStep ==
  ASSUME IInv, MapFinite, CInv, PopVisited
  PROVE  CInv'
<1>1. PICK e \in q :
        /\ IsTop(e) /\ e.sys \in Settled
        /\ \/ q = {e} /\ Return(<< >>)
           \/ q # {e} /\ q' = q \ {e} /\ UNCHANGED <<pc, path>>
  BY DEF PopVisited, Settled
<1>2. pc = "loop" /\ Frame /\ start # finish
  BY DEF PopVisited, Frame, IInv, SearchOpen
<1>3. CASE q = {e} /\ Return(<< >>)
  <2>1. Undropped(q, visited) = {}
    BY <1>1, <1>3 DEF Undropped, Settled
  <2>2. Comparable =>
          LET s == OldAfter(Cardinality(Settled)) IN Undropped(s.queue, s.visited) = {}
    BY <1>2, <2>1 DEF CInv, InStep, LoopInStep
  <2> QED
    BY <1>2, <1>3, <2>2, ExhaustedInStep
<1>4. CASE q' = q \ {e} /\ UNCHANGED <<pc, path>>
  <2>1. ASSUME NEW other \in q, Precedes(other, e) PROVE other = e
    <3>1. Precedes(e, other)
      BY <1>1 DEF IsTop
    <3>2. /\ other = Entry(other.dist, other.sys, other.from) /\ e = Entry(e.dist, e.sys, e.from)
          /\ other.dist = e.dist /\ other.sys = e.sys /\ other.from = e.from
      BY <2>1, <3>1, EntryFields DEF IInv, Precedes
    <3> QED
      BY <3>2
  <2>2. Undropped(q \ {e}, visited) = Undropped(q, visited)
    BY <1>1, <2>1 DEF Undropped, Settled
  <2>3. UNCHANGED <<vertexMap, visited, avoid, start, finish>> /\ Settled' = Settled
    BY <1>2, FrameFacts DEF Frame
  <2>4. Comparable => LoopInStep'
    BY <1>2, <1>4, <2>2, <2>3, OldStays DEF CInv, InStep, LoopInStep
  <2> QED
    BY <1>2, <1>4, <2>3, <2>4, OldStays DEF CInv, InStep, RelaxInStep, PathInStep, SameAsBefore
<1> QED
  BY <1>1, <1>3, <1>4

LEMMA ArriveInStep ==
  ASSUME IInv, MapFinite, CInv, Arrive
  PROVE  CInv'
<1>1. PICK e \in q : Settle(e) /\ e.sys = finish /\ path' = <<finish>>
  BY DEF Arrive
<1>2. /\ pc = "loop" /\ pc' = "path" /\ IsTop(e) /\ finish \notin Settled
      /\ visited' = Insert(visited, finish, e.from)
      /\ UNCHANGED <<vertexMap, avoid, start, finish>>
  BY <1>1 DEF Arrive, Settle, Settled
<1>3. ASSUME Comparable PROVE PathInStep'
  <2> DEFINE s == OldAfter(Cardinality(Settled))
  <2>1. s.visited = visited /\ Undropped(s.queue, s.visited) = q /\ TopOf(q) = e /\ q # {}
    BY <1>1, <1>2, <1>3, NothingDropped DEF CInv, InStep, LoopInStep
  <2> HIDE DEF s
  <2>2. OldRoute = WalkBack(Insert(visited, finish, e.from), start, finish, Systems)
    BY <1>1, <1>3, <2>1, OldEnds DEF s
  <2>3. (OldRoute = WalkBack(visited, start, finish, Systems))'
    BY <1>2, <2>2, OldStays
  <2>4. start # finish /\ Len(path') = 1 /\ path'[1] = finish
    BY <1>1, <1>3 DEF Comparable
  <2> QED
    BY <1>2, <2>3, <2>4 DEF PathInStep
<1> QED
  BY <1>2, <1>3, OldStays DEF CInv, InStep, LoopInStep, RelaxInStep, SameAsBefore

LEMMA ExpandInStep ==
  ASSUME IInv, MapFinite, CInv, Expand
  PROVE  CInv'
<1>1. PICK e \in q :
        /\ Settle(e) /\ e.sys # finish
        /\ curr' = e.sys /\ rest' = DOMAIN vertexMap[e.sys]
  BY DEF Expand
<1>2. /\ pc = "loop" /\ pc' = "relax" /\ IsTop(e)
      /\ visited' = Insert(visited, e.sys, e.from) /\ q' = q
      /\ UNCHANGED <<vertexMap, avoid, start, finish>>
  BY <1>1 DEF Expand, Settle
<1>3. /\ e.sys \notin Settled /\ Settled' = Settled \cup {e.sys}
      /\ visited'[e.sys] = e.from /\ dist'[e.sys] = e.dist
      /\ \A a, b : Weight(a, b)' = Weight(a, b)
      /\ e = Entry(e.dist, e.sys, e.from)
  BY <1>1, SettleExtends, EntryFields DEF IInv
<1>4. ASSUME Comparable PROVE RelaxInStep'
  <2>1. Cardinality(Settled') = Cardinality(Settled) + 1
    BY <1>3, <1>4, SettledInMap, FS_AddElement
  <2>2. Coming' = {Entry(e.dist + Weight(e.sys, n), n, e.sys) :
                     n \in DOMAIN vertexMap[e.sys] \ (Settled \cup {e.sys})}
    BY <1>1, <1>3 DEF Coming
  <2>3. /\ OldAfter(Cardinality(Settled) + 1).visited = visited'
        /\ OldAfter(Cardinality(Settled) + 1).queue = (q \cup Coming') \ {e}
    <3>1. LoopInStep /\ e.sys \notin Settled /\ e.sys # finish
      BY <1>1, <1>3, <1>4 DEF CInv, InStep
    <3> DEFINE new == {Entry(e.dist + Weight(e.sys, n), n, e.sys) :
                         n \in DOMAIN vertexMap[e.sys] \ (Settled \cup {e.sys})}
    <3>2. OldAfter(Cardinality(Settled) + 1) =
            [queue |-> (q \cup new) \ {e}, visited |-> Insert(visited, e.sys, e.from)]
      BY <1>2, <1>4, <3>1, OldTurn
    <3>3. Coming' = new
      BY <2>2
    <3> HIDE DEF new
    <3> QED
      BY <1>2, <3>2, <3>3
  <2>4. OldAfter(Cardinality(Settled))' = OldAfter(Cardinality(Settled) + 1)
    BY <1>2, <2>1, OldStays
  <2>5. Entry(dist[curr], curr, visited[curr])' = e
    BY <1>1, <1>3 DEF Entry
  <2> QED
    BY <1>2, <2>3, <2>4, <2>5 DEF RelaxInStep
<1> QED
  BY <1>2, <1>4, OldStays DEF CInv, InStep, LoopInStep, PathInStep, SameAsBefore

(* Searching from an unmapped start there is nothing to compare with. *)
LEMMA UnmappedInStep ==
  ASSUME IInv, ExpandUnmapped
  PROVE  CInv'
<1>1. PICK e \in q : Settle(e) /\ e.sys # finish /\ e.sys \notin DOMAIN vertexMap
  BY DEF ExpandUnmapped
<1>2. pc' \in {"crashed", "relax"} /\ UNCHANGED <<vertexMap, avoid, start, finish>>
  BY <1>1 DEF ExpandUnmapped, Settle
<1>3. e.sys = start
  BY <1>1 DEF IInv, QueueSupported, TypeOK, Closed, Entry
<1>4. ~Comparable'
  BY <1>1, <1>2, <1>3 DEF Comparable
<1> QED
  BY <1>2, <1>4 DEF CInv, InStep, SameAsBefore

LEMMA SkipInStep ==
  ASSUME IInv, CInv, SkipNeighbour
  PROVE  CInv'
<1>1. PICK n \in rest : n \in Settled /\ rest' = rest \ {n}
  BY DEF SkipNeighbour, Settled
<1>2. pc = "relax" /\ Frame /\ UNCHANGED <<q, curr, pc>>
  BY DEF SkipNeighbour, Frame
<1>3. /\ UNCHANGED <<vertexMap, visited, avoid, start, finish, dist>> /\ Settled' = Settled
      /\ \A a, b : Weight(a, b)' = Weight(a, b)
  BY <1>2, FrameFacts DEF Frame
<1>4. Coming' = Coming
  BY <1>1, <1>2, <1>3 DEF Coming
<1>5. Comparable => RelaxInStep'
  BY <1>2, <1>3, <1>4, OldStays DEF CInv, InStep, RelaxInStep
<1> QED
  BY <1>2, <1>3, <1>5, OldStays DEF CInv, InStep, LoopInStep, PathInStep, SameAsBefore

(* What is pushed is what was still to come. *)
LEMMA PushInStep ==
  ASSUME IInv, CInv, PushNeighbour
  PROVE  CInv'
<1>1. PICK n \in rest, e \in q :
        n \notin Settled /\ IsTop(e) /\ Push(n, Entry(e.dist + Weight(curr, n), n, curr))
  BY DEF PushNeighbour, Settled
<1>2. pc = "relax" /\ Frame /\ UNCHANGED <<curr, pc>>
  BY DEF PushNeighbour, Push, Frame
<1>3. /\ UNCHANGED <<vertexMap, visited, avoid, start, finish, dist>> /\ Settled' = Settled
      /\ \A a, b : Weight(a, b)' = Weight(a, b)
  BY <1>2, FrameFacts DEF Frame
<1>4. e.dist = dist[curr]
  BY <1>1, <1>2, Relaxing, OneTop DEF IInv, Entry
<1>5. q' = q \cup {Entry(dist[curr] + Weight(curr, n), n, curr)} /\ rest' = rest \ {n}
  BY <1>1, <1>4 DEF Push
<1>6. q' \cup Coming' = q \cup Coming
  BY <1>1, <1>2, <1>3, <1>5 DEF Coming
<1>7. Comparable => RelaxInStep'
  BY <1>2, <1>3, <1>6, OldStays DEF CInv, InStep, RelaxInStep
<1> QED
  BY <1>2, <1>3, <1>7, OldStays DEF CInv, InStep, LoopInStep, PathInStep, SameAsBefore

LEMMA PopCurrentInStep ==
  ASSUME IInv, MapFinite, CInv, PopCurrent
  PROVE  CInv'
<1>1. PICK e \in q :
        /\ IsTop(e)
        /\ \/ q = {e} /\ Return(<< >>)
           \/ q # {e} /\ q' = q \ {e} /\ pc' = "loop" /\ UNCHANGED path
  BY DEF PopCurrent
<1>2. pc = "relax" /\ rest = {} /\ Frame /\ start # finish
  BY DEF PopCurrent, Frame, IInv, SearchOpen
<1>3. e = Entry(dist[curr], curr, visited[curr])
  BY <1>1, <1>2, Relaxing, OneTop DEF IInv
<1>4. Coming = {}
  BY <1>2 DEF Coming
<1>5. Comparable => /\ OldAfter(Cardinality(Settled)).visited = visited
                    /\ OldAfter(Cardinality(Settled)).queue = q \ {e}
  BY <1>2, <1>3, <1>4 DEF CInv, InStep, RelaxInStep
<1>6. CASE q = {e} /\ Return(<< >>)
  <2>1. Undropped(q \ {e}, visited) = {}
    BY <1>6 DEF Undropped
  <2>2. Comparable =>
          LET s == OldAfter(Cardinality(Settled)) IN Undropped(s.queue, s.visited) = {}
    BY <1>5, <2>1
  <2> QED
    BY <1>2, <1>6, <2>2, ExhaustedInStep
<1>7. CASE q' = q \ {e} /\ pc' = "loop"
  <2>1. UNCHANGED <<vertexMap, visited, avoid, start, finish>> /\ Settled' = Settled
    BY <1>2, FrameFacts DEF Frame
  <2>2. Comparable => LoopInStep'
    BY <1>5, <1>7, <2>1, OldStays DEF LoopInStep
  <2> QED
    BY <1>7, <2>1, <2>2, OldStays DEF CInv, InStep, RelaxInStep, PathInStep, SameAsBefore
<1> QED
  BY <1>1, <1>6, <1>7

LEMMA BacktrackInStep ==
  ASSUME IInv, CInv, Backtrack
  PROVE  CInv'
<1>1. /\ pc = "path" /\ pc' = "path" /\ CameFrom # start /\ path' = Append(path, CameFrom)
      /\ UNCHANGED <<vertexMap, visited, avoid, start, finish>>
  BY DEF Backtrack
<1> DEFINE n == Len(path)
<1>2. /\ n \in Nat \ {0} /\ Len(path') = n + 1 /\ path'[n + 1] = CameFrom
      /\ \A i \in 1 .. n : path'[i] = path[i]
  BY <1>1, Climbing
<1>3. ASSUME Comparable PROVE PathInStep'
  <2>1. /\ OldRoute = WalkBack(visited, start, finish, Systems)
        /\ \A i \in 1 .. n : path[i] # start
        /\ \A i \in 1 .. n - 1 : path[i + 1] = visited[path[i]]
    BY <1>1, <1>3 DEF CInv, InStep, PathInStep
  <2>2. \A i \in 1 .. n + 1 : path'[i] # start
    BY <1>1, <1>2, <2>1
  <2>3. \A i \in 1 .. n : path'[i + 1] = visited[path'[i]]
    BY <1>2, <2>1 DEF CameFrom
  <2>4. (OldRoute = WalkBack(visited, start, finish, Systems))'
    BY <1>1, <2>1, OldStays
  <2> QED
    BY <1>1, <1>2, <2>2, <2>3, <2>4 DEF PathInStep
<1> QED
  BY <1>1, <1>3, OldStays DEF CInv, InStep, LoopInStep, RelaxInStep, SameAsBefore

(* The route answered has no more systems than the map. *)
LEMMA AnswerFits ==
  IInv /\ MapFinite /\ Answered /\ path # << >> => Len(path) <= Systems
<1> SUFFICES ASSUME IInv, MapFinite, Answered, path # << >>
             PROVE  Len(path) <= Systems
  OBVIOUS
<1>1. path \in Promise!SimpleRoutes(start, finish)
  BY AnswerIsRoute DEF MapFinite
<1>2. PICK n \in 1 .. Systems : path \in [1 .. n -> DOMAIN vertexMap]
  BY <1>1, SameCount DEF Promise!SimpleRoutes, Systems
<1>3. path \in Seq(System)
  BY DEF IInv, TypeOK
<1>4. DOMAIN path = 1 .. Len(path) /\ Len(path) \in Nat
  BY <1>3
<1>5. DOMAIN path = 1 .. n /\ n \in Nat /\ n <= Systems
  BY <1>2 DEF Systems
<1> QED
  BY <1>4, <1>5

LEMMA ReturnPathInStep ==
  ASSUME IInv, MapFinite, CInv, ReturnPath, IInv', MapFinite'
  PROVE  CInv'
<1> DEFINE n == Len(path)
           climb == Append(path, start)
<1>1. /\ pc = "path" /\ pc' = "done" /\ CameFrom = start /\ path' = Reversed(climb)
      /\ UNCHANGED <<vertexMap, visited, avoid, start, finish>>
  BY DEF ReturnPath, Return
<1>2. /\ n \in Nat \ {0} /\ Len(climb) = n + 1 /\ climb[n + 1] = start
      /\ \A i \in 1 .. n : climb[i] = path[i]
  BY <1>1, Climbing DEF IInv, TypeOK
<1>3. /\ start # finish /\ path[1] = finish /\ start \in Settled /\ visited[start] = start
  BY <1>1, Climbing DEF IInv, PathClimbs, DistancesTight
<1> HIDE DEF climb
<1>4. path' = [i \in 1 .. n + 1 |-> climb[n + 2 - i]]
  BY <1>1, <1>2 DEF Reversed
<1>5. Len(path') = n + 1 /\ path' # << >>
  <2>1. path' \in Seq(System)
    BY DEF IInv, TypeOK
  <2>2. DOMAIN path' = 1 .. n + 1 /\ DOMAIN path' = 1 .. Len(path') /\ Len(path') \in Nat
    BY <1>4, <2>1
  <2> QED
    BY <1>2, <2>2
<1>6. n + 1 <= Systems
  <2>1. (Answered /\ path # << >>)'
    BY <1>1, <1>3, <1>5 DEF Answered
  <2>2. (Len(path) <= Systems)'
    BY <2>1, AnswerFits, PTL
  <2> QED
    BY <1>1, <1>5, <2>2, OldStays
<1>7. ASSUME Comparable PROVE path' = OldRoute
  <2>1. /\ OldRoute = WalkBack(visited, start, finish, Systems)
        /\ \A i \in 1 .. n : path[i] # start
        /\ \A i \in 1 .. n - 1 : path[i + 1] = visited[path[i]]
    BY <1>1, <1>7 DEF CInv, InStep, PathInStep
  <2>2. \A i \in 1 .. n : visited[climb[i]] = climb[i + 1]
    BY <1>1, <1>2, <2>1 DEF CameFrom
  <2>3. Systems \in Nat /\ n + 1 \in 2 .. Systems
    BY <1>2, <1>6, <1>7, SettledInMap
  <2>4. climb[1] = finish /\ \A i \in 2 .. (n + 1) - 1 : climb[i] # start
    BY <1>2, <1>3, <2>1
  <2>5. WalkBack(visited, start, finish, Systems) = [i \in 1 .. n + 1 |-> climb[(n + 1) + 1 - i]]
    <3> DEFINE k == n + 1
    <3>1. k - 1 = n /\ climb[k] = start
      BY <1>2
    <3>2. k \in 2 .. Systems /\ \A i \in 2 .. k - 1 : climb[i] # start
      BY <2>3, <2>4
    <3>3. \A i \in 1 .. k - 1 : visited[climb[i]] = climb[i + 1]
      BY <2>2, <3>1
    <3> HIDE DEF k, n
    <3>4. ClimbsBack(climb, k, visited, start, finish)
      BY <1>3, <2>4, <3>1, <3>2, <3>3 DEF ClimbsBack
    <3>5. WalkBack(visited, start, finish, Systems) = [i \in 1 .. k |-> climb[k + 1 - i]]
      BY <2>3, <3>2, <3>4, WalkBackIs
    <3> QED
      BY <3>5 DEF k
  <2>6. \A i \in 1 .. n + 1 : (n + 1) + 1 - i = n + 2 - i
    BY <1>2
  <2> QED
    BY <1>4, <2>1, <2>5, <2>6
<1>8. SameAsBefore'
  BY <1>1, <1>3, <1>7, OldStays DEF SameAsBefore, Comparable, OldRoute
<1> QED
  BY <1>1, <1>8 DEF CInv, InStep, LoopInStep, RelaxInStep, PathInStep

(***************************************************************************)
(* Nothing was lost when findRoute replaced getRouteDijkstra: in every map *)
(* the start of the question is in, both answer with the same route, not   *)
(* only with one of the same weight.                                       *)
(***************************************************************************)
THEOREM AnswersAsBefore == Spec => []SameAsBefore
<1>1. Init => CInv
  BY DEF Init, CInv, InStep, LoopInStep, RelaxInStep, PathInStep, SameAsBefore
<1>2. IInv /\ MapFinite /\ CInv /\ IInv' /\ MapFinite' /\ [Next]_vars => CInv'
  <2> SUFFICES ASSUME IInv, MapFinite, CInv, IInv', MapFinite', [Next]_vars PROVE CInv'
    OBVIOUS
  <2>1. CASE \E s, f \in System, tags \in AvoidSets : FindRoute(s, f, tags)
    BY <2>1, BeginInStep
  <2>2. CASE ReturnTrivial
    BY <2>2, TrivialInStep
  <2>3. CASE PopVisited
    BY <2>3, PopVisitedInStep
  <2>4. CASE Arrive
    BY <2>4, ArriveInStep
  <2>5. CASE Expand
    BY <2>5, ExpandInStep
  <2>6. CASE ExpandUnmapped
    BY <2>6, UnmappedInStep
  <2>7. CASE SkipNeighbour
    BY <2>7, SkipInStep
  <2>8. CASE PushNeighbour
    BY <2>8, PushInStep
  <2>9. CASE PopCurrent
    BY <2>9, PopCurrentInStep
  <2>10. CASE Backtrack
    BY <2>10, BacktrackInStep
  <2>11. CASE ReturnPath
    BY <2>11, ReturnPathInStep
  <2>12. CASE UNCHANGED vars
    <3>1. /\ UNCHANGED <<vertexMap, visited, avoid, start, finish, q, curr, rest, path, pc, dist>>
          /\ Settled' = Settled
      BY <2>12 DEF vars, Settled
    <3>2. Coming' = Coming
      BY <3>1 DEF Coming, Weight
    <3> QED
      BY <3>1, <3>2, OldStays
         DEF CInv, InStep, LoopInStep, RelaxInStep, PathInStep, SameAsBefore
  <2> QED
    BY <2>1, <2>2, <2>3, <2>4, <2>5, <2>6, <2>7, <2>8, <2>9, <2>10, <2>11, <2>12 DEF Next, Search
<1>3. CInv => SameAsBefore
  BY DEF CInv
<1> QED
  BY <1>1, <1>2, <1>3, Inductive, MapStaysFinite, PTL DEF Spec

-----------------------------------------------------------------------------
(***************************************************************************)
(* The end of a call.  Nothing is left to look at outside a pass of        *)
(* addNeighbours; and the systems at least as far as the one getPath has   *)
(* climbed to are as many as the hops it has taken, as each hop leads to a *)
(* nearer one.                                                             *)
(***************************************************************************)
NotNearer == {s \in Settled : dist[path[Len(path)]] <= dist[s]}

TInv ==
  /\ IsFiniteSet(q)
  /\ pc = "loop" => rest = {}
  /\ pc = "path" => Len(path) <= Cardinality(NotNearer)

Room == Cardinality(Places)
Unsettled == Places \ Settled
PerSystem == 2 * Room + 1
Searching == Cardinality(q) + 2 * Cardinality(rest) + Cardinality(Unsettled) * PerSystem + Room + 1

(* All that a call comes across is a place, and there are finitely many. *)
LEMMA PlacesKnown ==
  ASSUME IInv, MapFinite
  PROVE  /\ IsFiniteSet(Places) /\ Room \in Nat /\ Room >= 1
         /\ Settled \subseteq Places /\ IsFiniteSet(Settled) /\ Cardinality(Settled) <= Room
         /\ \A e \in q : e.sys \in Places
         /\ pc = "relax" => rest \subseteq Places
         /\ \A a \in DOMAIN vertexMap : DOMAIN vertexMap[a] \subseteq Places
<1>1. IsFiniteSet(Places) /\ Room \in Nat
  BY FS_AddElement, FS_CardinalityType DEF MapFinite, Places, Room
<1>2. Room >= 1
  BY <1>1, FS_EmptySet DEF Places, Room
<1>3. \A a \in DOMAIN vertexMap : DOMAIN vertexMap[a] \subseteq Places
  BY DEF IInv, TypeOK, Closed, Places
<1>4. Settled \subseteq Places
  <2>1. \A s \in Settled \ {start} : ReachedFrom(s, visited[s])
    BY DEF IInv, DistancesTight
  <2> QED
    BY <1>3, <2>1 DEF ReachedFrom, Places
<1>5. IsFiniteSet(Settled) /\ Cardinality(Settled) <= Room
  BY <1>1, <1>4, FS_Subset DEF Room
<1>6. \A e \in q : e.sys \in Places
  BY <1>3 DEF IInv, QueueSupported, Entry, Places
<1>7. pc = "relax" => rest \subseteq Places
  BY <1>3 DEF IInv, RestAdjacent, Places
<1> QED
  BY <1>1, <1>2, <1>3, <1>4, <1>5, <1>6, <1>7

(* Numbers of entries, of neighbours and of systems are natural numbers. *)
LEMMA SearchCounted ==
  ASSUME IInv, MapFinite, TInv, pc \in {"loop", "relax"}
  PROVE  /\ Cardinality(q) \in Nat /\ IsFiniteSet(rest) /\ Cardinality(rest) \in Nat
         /\ Cardinality(Unsettled) * PerSystem \in Nat
         /\ StepsLeft = Searching /\ Searching \in Nat /\ Searching >= Room + 1
<1>1. Room \in Nat
  BY PlacesKnown
<1>2. IsFiniteSet(rest) /\ Cardinality(rest) \in Nat
  BY PlacesKnown, FS_Subset, FS_EmptySet, FS_CardinalityType DEF TInv
<1>3. Cardinality(q) \in Nat
  BY FS_CardinalityType DEF TInv
<1>4. Cardinality(Unsettled) \in Nat /\ PerSystem \in Nat
  BY <1>1, PlacesKnown, FS_Subset, FS_CardinalityType DEF Unsettled, PerSystem
<1>5. Cardinality(Unsettled) * PerSystem \in Nat
  BY <1>4
<1>6. Searching \in Nat /\ Searching >= Room + 1
  BY <1>1, <1>2, <1>3, <1>5 DEF Searching
<1>7. StepsLeft = Searching
  BY DEF StepsLeft, Searching, Room, Unsettled, PerSystem
<1> QED
  BY <1>2, <1>3, <1>5, <1>6, <1>7

(* Only a new call changes the places. *)
LEMMA PlacesStay ==
  UNCHANGED <<vertexMap, start>> => Places' = Places /\ Room' = Room /\ PerSystem' = PerSystem
BY DEF Places, Room, PerSystem

(* Settling a system takes it off the account, with what it stood for. *)
LEMMA SettleSpends ==
  ASSUME IInv, MapFinite, NEW e, Settle(e)
  PROVE  /\ Room \in Nat /\ Room' = Room /\ PerSystem' = PerSystem
         /\ Cardinality(Unsettled) * PerSystem = Cardinality(Unsettled') * PerSystem + PerSystem
         /\ Cardinality(Unsettled') * PerSystem \in Nat
<1>1. /\ e.sys \in Places \ Settled /\ Settled' = Settled \cup {e.sys}
  BY SettleExtends, PlacesKnown
<1>2. Places' = Places /\ Room' = Room /\ PerSystem' = PerSystem
  BY PlacesStay DEF Settle
<1>3. Unsettled' = Unsettled \ {e.sys} /\ e.sys \in Unsettled
  BY <1>1, <1>2 DEF Unsettled
<1>4. IsFiniteSet(Unsettled)
  BY PlacesKnown, FS_Subset DEF Unsettled
<1> DEFINE k == Cardinality(Unsettled')
<1>5. k \in Nat /\ Cardinality(Unsettled) = k + 1
  <2>1. IsFiniteSet(Unsettled \ {e.sys}) /\ Cardinality(Unsettled \ {e.sys}) = Cardinality(Unsettled) - 1
    BY <1>3, <1>4, FS_RemoveElement
  <2>2. Cardinality(Unsettled) \in Nat /\ Cardinality(Unsettled \ {e.sys}) \in Nat
    BY <1>4, <2>1, FS_CardinalityType
  <2> QED
    BY <1>3, <2>1, <2>2
<1>6. Room \in Nat /\ PerSystem \in Nat
  BY PlacesKnown DEF PerSystem
<1> HIDE DEF k
<1>7. (k + 1) * PerSystem = k * PerSystem + PerSystem /\ k * PerSystem \in Nat
  BY <1>5, <1>6
<1> QED
  BY <1>2, <1>5, <1>6, <1>7 DEF k

(* While getPath walks back, it has yet to come across some system. *)
LEMMA PathCounted ==
  ASSUME IInv, MapFinite, TInv, pc = "path"
  PROVE  /\ IsFiniteSet(NotNearer) /\ Cardinality(NotNearer) \in Nat
         /\ StepsLeft = Room + 1 - Len(path) /\ StepsLeft \in Nat /\ StepsLeft >= 1
<1>1. IsFiniteSet(NotNearer) /\ Cardinality(NotNearer) <= Cardinality(Settled)
  BY PlacesKnown, FS_Subset DEF NotNearer
<1>2. Cardinality(NotNearer) \in Nat /\ Cardinality(Settled) \in Nat
  BY <1>1, PlacesKnown, FS_CardinalityType
<1>3. Len(path) \in Nat /\ Len(path) <= Room
  BY <1>1, <1>2, PlacesKnown, Climbing DEF TInv
<1>4. StepsLeft = Room + 1 - Len(path)
  BY DEF StepsLeft, Room
<1> QED
  BY <1>1, <1>2, <1>3, <1>4, PlacesKnown

Spends == StepsLeft' \in Nat /\ StepsLeft' < StepsLeft

(* A call that ends had at least the step that ended it. *)
LEMMA EndSpends ==
  ASSUME IInv, MapFinite, TInv, pc \in {"trivial", "loop", "relax", "path"},
         pc' \in {"done", "crashed"}, q' = {} \/ q' = q
  PROVE  TInv' /\ Spends
<1>1. StepsLeft \in Nat /\ StepsLeft >= 1
  <2>1. CASE pc = "trivial"
    BY <2>1 DEF StepsLeft
  <2>2. CASE pc \in {"loop", "relax"}
    BY <2>2, SearchCounted, PlacesKnown
  <2>3. CASE pc = "path"
    BY <2>3, PathCounted
  <2> QED
    BY <2>1, <2>2, <2>3
<1>2. StepsLeft' = 0
  BY DEF StepsLeft
<1>3. IsFiniteSet(q')
  BY FS_EmptySet DEF TInv
<1> QED
  BY <1>1, <1>2, <1>3 DEF Spends, TInv

(* The pop of an entry is paid for by the entry. *)
LEMMA DropSpends ==
  ASSUME IInv, MapFinite, TInv, pc \in {"loop", "relax"}, pc' = "loop", rest = {}, rest' = {},
         NEW e \in q, q' = q \ {e}, Frame
  PROVE  TInv' /\ Spends
<1>1. IsFiniteSet(q') /\ Cardinality(q') = Cardinality(q) - 1 /\ Cardinality(q') \in Nat
  <2>1. IsFiniteSet(q \ {e}) /\ Cardinality(q \ {e}) = Cardinality(q) - 1
    BY FS_RemoveElement DEF TInv
  <2> QED
    BY <2>1, FS_CardinalityType
<1>2. UNCHANGED <<Room, PerSystem, Unsettled>>
  BY PlacesStay, FrameFacts DEF Frame, Unsettled, Places
<1>3. StepsLeft' = Cardinality(q') + 2 * Cardinality(rest) + Cardinality(Unsettled) * PerSystem + Room + 1
  <2>1. StepsLeft' = (Cardinality(q) + 2 * Cardinality(rest) + Cardinality(Unsettled) * PerSystem + Room + 1)'
    BY DEF StepsLeft, Room, Unsettled, PerSystem
  <2> QED
    BY <1>2, <2>1
<1>4. StepsLeft' \in Nat /\ StepsLeft' < StepsLeft
  BY <1>1, <1>3, SearchCounted, PlacesKnown DEF Searching
<1> QED
  BY <1>1, <1>4 DEF TInv, Spends

(* A look at a neighbour pays for itself and for the entry it may push. *)
LEMMA LookSpends ==
  ASSUME IInv, MapFinite, TInv, pc = "relax", pc' = "relax",
         NEW n \in rest, rest' = rest \ {n}, NEW e, q' \in {q, q \cup {e}}, Frame
  PROVE  TInv' /\ Spends
<1>1. IsFiniteSet(q') /\ Cardinality(q') <= Cardinality(q) + 1 /\ Cardinality(q') \in Nat
  <2>1. Cardinality(q) \in Nat /\ IsFiniteSet(q)
    BY FS_CardinalityType DEF TInv
  <2>2. /\ IsFiniteSet(q \cup {e})
        /\ Cardinality(q \cup {e}) = IF e \in q THEN Cardinality(q) ELSE Cardinality(q) + 1
    BY <2>1, FS_AddElement
  <2>3. Cardinality(q \cup {e}) \in Nat
    BY <2>2, FS_CardinalityType
  <2>4. CASE q' = q
    BY <2>1, <2>4
  <2>5. CASE q' = q \cup {e}
    BY <2>1, <2>2, <2>3, <2>5
  <2> QED
    BY <2>4, <2>5
<1>2. Cardinality(rest') = Cardinality(rest) - 1 /\ Cardinality(rest') \in Nat
  <2>1. IsFiniteSet(rest)
    BY SearchCounted
  <2>2. IsFiniteSet(rest \ {n}) /\ Cardinality(rest \ {n}) = Cardinality(rest) - 1
    BY <2>1, FS_RemoveElement
  <2> QED
    BY <2>2, FS_CardinalityType
<1>3. UNCHANGED <<Room, PerSystem, Unsettled>>
  BY PlacesStay, FrameFacts DEF Frame, Unsettled, Places
<1>4. StepsLeft' = Cardinality(q') + 2 * Cardinality(rest') + Cardinality(Unsettled) * PerSystem + Room + 1
  <2>1. StepsLeft' = (Cardinality(q) + 2 * Cardinality(rest) + Cardinality(Unsettled) * PerSystem + Room + 1)'
    BY DEF StepsLeft, Room, Unsettled, PerSystem
  <2> QED
    BY <1>3, <2>1
<1>5. StepsLeft' \in Nat /\ StepsLeft' < StepsLeft
  BY <1>1, <1>2, <1>4, SearchCounted, PlacesKnown DEF Searching
<1> QED
  BY <1>1, <1>5 DEF TInv, Spends

(* Settling a system pays for a look at, and a pop for, every other one. *)
LEMMA ExpandSpends ==
  ASSUME IInv, MapFinite, TInv, NEW e, Settle(e), pc' = "relax", rest' \subseteq Places
  PROVE  TInv' /\ Spends
<1>1. pc = "loop" /\ q' = q
  BY DEF Settle
<1>2. Cardinality(rest) = 0
  BY <1>1, FS_EmptySet DEF TInv
<1>3. Cardinality(rest') \in Nat /\ Cardinality(rest') <= Room
  BY PlacesKnown, FS_Subset, FS_CardinalityType DEF Room
<1> DEFINE owed == Cardinality(Unsettled') * PerSystem
<1>4. StepsLeft' = Cardinality(q) + 2 * Cardinality(rest') + owed + Room + 1
  <2>1. StepsLeft' = (Cardinality(q) + 2 * Cardinality(rest) + Cardinality(Unsettled) * PerSystem + Room + 1)'
    BY DEF StepsLeft, Room, Unsettled, PerSystem
  <2> QED
    BY <1>1, <2>1, SettleSpends
<1>5. owed \in Nat /\ Cardinality(Unsettled) * PerSystem = owed + PerSystem
  BY SettleSpends
<1> HIDE DEF owed
<1>6. Cardinality(q) \in Nat /\ Room \in Nat /\ PerSystem = 2 * Room + 1
  BY <1>1, SearchCounted, PlacesKnown DEF PerSystem
<1>7. StepsLeft = Cardinality(q) + owed + PerSystem + Room + 1
  BY <1>1, <1>2, <1>5, <1>6, SearchCounted DEF Searching
<1>8. StepsLeft' \in Nat /\ StepsLeft' < StepsLeft
  BY <1>3, <1>4, <1>5, <1>6, <1>7
<1> QED
  BY <1>1, <1>8 DEF TInv, Spends

(* The destination settled, the way back is shorter than what is left. *)
LEMMA ArriveSpends ==
  ASSUME IInv, MapFinite, TInv, Arrive
  PROVE  TInv' /\ Spends
<1>1. PICK e \in q : Settle(e) /\ e.sys = finish
  BY DEF Arrive
<1>2. pc = "loop" /\ pc' = "path" /\ path' = <<finish>> /\ UNCHANGED <<q, finish>>
  BY <1>1 DEF Arrive, Settle
<1>3. /\ Settled' = Settled \cup {finish} /\ dist'[finish] \in Nat
  BY <1>1, SettleExtends
<1>4. Len(path') = 1 /\ path'[Len(path')] = finish
  BY <1>2
<1>5. finish \in NotNearer' /\ NotNearer' \subseteq Settled'
  BY <1>3, <1>4 DEF NotNearer
<1>6. IsFiniteSet(Settled')
  BY <1>3, PlacesKnown, FS_AddElement
<1>7. Cardinality(NotNearer') \in Nat /\ Cardinality(NotNearer') >= 1
  BY <1>5, <1>6, FS_Subset, FS_CardinalityType, FS_EmptySet
<1>8. TInv'
  BY <1>2, <1>4, <1>7 DEF TInv
<1>9. StepsLeft' = Room
  <2>1. Room' = Room /\ Room \in Nat
    BY <1>1, SettleSpends
  <2>2. StepsLeft' = Room' + 1 - Len(path')
    BY <1>2 DEF StepsLeft, Room
  <2> QED
    BY <1>4, <2>1, <2>2
<1>10. Room \in Nat /\ StepsLeft >= Room + 1 /\ StepsLeft \in Nat
  BY <1>2, SearchCounted, PlacesKnown
<1> QED
  BY <1>8, <1>9, <1>10 DEF Spends

(* A hop back leads to a system nearer than all those behind it. *)
LEMMA BacktrackSpends ==
  ASSUME IInv, MapFinite, TInv, Backtrack
  PROVE  TInv' /\ Spends
<1> DEFINE last == path[Len(path)]
<1>1. /\ pc = "path" /\ pc' = "path" /\ path' = Append(path, CameFrom)
      /\ Frame /\ q' = q
  BY DEF Backtrack, Frame
<1>2. /\ Len(path) \in Nat \ {0} /\ Len(path') = Len(path) + 1
      /\ path'[Len(path')] = CameFrom /\ CameFrom \in Settled
  BY <1>1, Climbing
<1>3. last \in Settled /\ dist[CameFrom] < dist[last]
  <2>1. last \in Settled
    BY <1>1, <1>2 DEF IInv, PathClimbs
  <2>2. dist[last] = dist[CameFrom] + Weight(CameFrom, last)
    BY <1>1, Climbing DEF ReachedFrom
  <2>3. dist[last] \in Nat /\ dist[CameFrom] \in Nat
    BY <1>2, <2>1 DEF IInv, TypeOK
  <2> QED
    BY <2>1, <2>2, <2>3, WeightPositive
<1>4. \A s \in Settled : dist[s] \in Nat
  BY DEF IInv, TypeOK
<1>5. NotNearer' = {s \in Settled : dist[CameFrom] <= dist[s]}
  BY <1>1, <1>2, FrameFacts DEF NotNearer, Frame
<1>6. NotNearer \cup {CameFrom} \subseteq NotNearer' /\ CameFrom \notin NotNearer
  BY <1>2, <1>3, <1>4, <1>5 DEF NotNearer
<1>7. IsFiniteSet(NotNearer') /\ NotNearer' \subseteq Settled
  BY <1>5, PlacesKnown, FS_Subset
<1> DEFINE wider == NotNearer \cup {CameFrom}
<1>8. Cardinality(wider) = Cardinality(NotNearer) + 1 /\ Cardinality(NotNearer) \in Nat
  BY <1>1, <1>6, PathCounted, FS_AddElement
<1>9. Cardinality(wider) <= Cardinality(NotNearer') /\ Cardinality(NotNearer') \in Nat
  BY <1>6, <1>7, FS_Subset, FS_CardinalityType
<1>10. Cardinality(NotNearer') <= Cardinality(Settled) /\ Cardinality(Settled) \in Nat
  BY <1>7, PlacesKnown, FS_Subset, FS_CardinalityType
<1>11. Len(path') <= Cardinality(NotNearer')
  BY <1>1, <1>2, <1>8, <1>9 DEF TInv
<1>12. TInv'
  BY <1>1, <1>11 DEF TInv
<1>13. Room' = Room /\ Room \in Nat /\ Cardinality(Settled) <= Room
  BY <1>1, PlacesStay, PlacesKnown DEF Frame
<1>14. StepsLeft' = Room + 1 - Len(path')
  BY <1>1, <1>13 DEF StepsLeft, Room
<1>15. StepsLeft = Room + 1 - Len(path)
  BY <1>1, PathCounted
<1> HIDE DEF wider
<1>16. Spends
  BY <1>2, <1>9, <1>10, <1>11, <1>13, <1>14, <1>15 DEF Spends
<1> QED
  BY <1>12, <1>16

LEMMA PopVisitedSpends ==
  ASSUME IInv, MapFinite, TInv, PopVisited
  PROVE  TInv' /\ Spends
<1>1. PICK e \in q : \/ q = {e} /\ Return(<< >>)
                     \/ q # {e} /\ q' = q \ {e} /\ UNCHANGED <<pc, path>>
  BY DEF PopVisited
<1>2. pc = "loop" /\ rest = {} /\ rest' = {} /\ Frame
  BY DEF PopVisited, TInv, Frame
<1>3. CASE Return(<< >>)
  BY <1>2, <1>3, EndSpends DEF Return
<1>4. CASE q' = q \ {e} /\ UNCHANGED pc
  BY <1>2, <1>4, DropSpends
<1> QED
  BY <1>1, <1>3, <1>4

LEMMA PopCurrentSpends ==
  ASSUME IInv, MapFinite, TInv, PopCurrent
  PROVE  TInv' /\ Spends
<1>1. PICK e \in q : \/ q = {e} /\ Return(<< >>)
                     \/ q # {e} /\ q' = q \ {e} /\ pc' = "loop" /\ UNCHANGED path
  BY DEF PopCurrent
<1>2. pc = "relax" /\ rest = {} /\ rest' = {} /\ Frame
  BY DEF PopCurrent, Frame
<1>3. CASE Return(<< >>)
  BY <1>2, <1>3, EndSpends DEF Return
<1>4. CASE q' = q \ {e} /\ pc' = "loop"
  BY <1>2, <1>4, DropSpends
<1> QED
  BY <1>1, <1>3, <1>4

(* Every step of a call brings it nearer to its end. *)
LEMMA SearchSpends ==
  ASSUME IInv, MapFinite, TInv, Search
  PROVE  TInv' /\ Spends /\ pc \notin {"idle", "done"}
<1>1. CASE ReturnTrivial
  BY <1>1, EndSpends DEF ReturnTrivial, Return
<1>2. CASE PopVisited
  BY <1>2, PopVisitedSpends DEF PopVisited
<1>3. CASE Arrive
  BY <1>3, ArriveSpends DEF Arrive, Settle
<1>4. CASE Expand
  <2>1. PICK e \in q : Settle(e) /\ e.sys \in DOMAIN vertexMap /\ rest' = DOMAIN vertexMap[e.sys]
    BY <1>4 DEF Expand
  <2>2. pc = "loop" /\ pc' = "relax" /\ rest' \subseteq Places
    BY <1>4, <2>1, PlacesKnown DEF Expand, Settle
  <2> QED
    BY <2>1, <2>2, ExpandSpends
<1>5. CASE ExpandUnmapped
  <2>1. PICK e \in q : /\ Settle(e)
                       /\ pc' = "crashed" \/ (pc' = "relax" /\ rest' = {start})
    BY <1>5 DEF ExpandUnmapped
  <2>2. pc = "loop" /\ q' = q
    BY <2>1 DEF Settle
  <2>3. CASE pc' = "crashed"
    BY <2>2, <2>3, EndSpends
  <2>4. CASE pc' = "relax" /\ rest' = {start}
    BY <2>1, <2>2, <2>4, ExpandSpends DEF Places
  <2> QED
    BY <2>1, <2>3, <2>4
<1>6. CASE SkipNeighbour
  <2>1. PICK n \in rest : rest' = rest \ {n}
    BY <1>6 DEF SkipNeighbour
  <2>2. pc = "relax" /\ pc' = "relax" /\ q' = q /\ Frame
    BY <1>6 DEF SkipNeighbour, Frame
  <2> QED
    BY <2>1, <2>2, LookSpends
<1>7. CASE PushNeighbour
  <2>1. PICK n \in rest, e \in q : Push(n, Entry(e.dist + Weight(curr, n), n, curr))
    BY <1>7 DEF PushNeighbour
  <2> DEFINE new == Entry(e.dist + Weight(curr, n), n, curr)
  <2>2. /\ pc = "relax" /\ pc' = "relax" /\ Frame
        /\ q' = q \cup {new} /\ rest' = rest \ {n}
    BY <1>7, <2>1 DEF PushNeighbour, Push, Frame
  <2> HIDE DEF new
  <2> QED
    BY <2>2, LookSpends
<1>8. CASE PopCurrent
  BY <1>8, PopCurrentSpends DEF PopCurrent
<1>9. CASE Backtrack
  BY <1>9, BacktrackSpends DEF Backtrack
<1>10. CASE ReturnPath
  BY <1>10, EndSpends DEF ReturnPath, Return
<1> QED
  BY <1>1, <1>2, <1>3, <1>4, <1>5, <1>6, <1>7, <1>8, <1>9, <1>10 DEF Search

(***************************************************************************)
(* No call goes on for ever, whatever map was loaded and whatever is       *)
(* asked: every step of findRoute lowers a natural number.  That is the    *)
(* half of EveryCallEnds a proof reaches here; the other, that a call has  *)
(* a step to take until it ends, is for TLC.                               *)
(***************************************************************************)
THEOREM EveryStepCounts == Spec => CallRunsDown
<1>1. Init => TInv
  BY FS_EmptySet DEF Init, TInv
<1>2. IInv /\ MapFinite /\ TInv /\ [Next]_vars => TInv'
  <2> SUFFICES ASSUME IInv, MapFinite, TInv, [Next]_vars PROVE TInv'
    OBVIOUS
  <2>1. CASE \E s, f \in System, tags \in AvoidSets : FindRoute(s, f, tags)
    <3>1. PICK first : q' = {first}
      BY <2>1 DEF FindRoute, BeginCall
    <3>2. rest' = {} /\ pc' # "path"
      BY <2>1 DEF FindRoute, BeginCall
    <3>3. IsFiniteSet(q')
      BY <3>1, FS_Singleton
    <3> QED
      BY <3>2, <3>3 DEF TInv
  <2>2. CASE Search
    BY <2>2, SearchSpends
  <2>3. CASE UNCHANGED vars
    BY <2>3 DEF vars, TInv, NotNearer, Settled
  <2> QED
    BY <2>1, <2>2, <2>3 DEF Next
<1>3. IInv /\ MapFinite /\ TInv /\ [Next]_vars =>
        [pc \notin {"idle", "done"} => StepsLeft' \in Nat /\ StepsLeft' < StepsLeft]_vars
  <2> SUFFICES ASSUME IInv, MapFinite, TInv, Next, pc \notin {"idle", "done"} PROVE Spends
    BY DEF Spends
  <2>1. Search
    BY DEF Next, FindRoute, BeginCall
  <2> QED
    BY <2>1, SearchSpends
<1> QED
  BY <1>1, <1>2, <1>3, Inductive, MapStaysFinite, PTL DEF Spec, CallRunsDown
=============================================================================
