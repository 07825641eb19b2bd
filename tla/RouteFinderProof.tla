-------------------------- MODULE RouteFinderProof --------------------------
(***************************************************************************)
(* Proofs about RouteFinder for every star map, every choice of tags and   *)
(* every positive weight.                                                  *)
(*                                                                         *)
(* The invariants that TLC checks are proved together with the facts that  *)
(* make them inductive: every entry that waits was pushed by a settled     *)
(* neighbour at the right distance (QueueSupported), lies beyond all that  *)
(* is settled (QueueBeyondSettled), and the path under construction climbs *)
(* settled predecessors (PathClimbs).                                      *)
(***************************************************************************)
EXTENDS RouteFinder, TLAPS

(* While the search goes on the destination differs and is not settled.    *)
SearchOpen ==
  /\ pc = "trivial" => start = finish
  /\ pc \in {"loop", "relax"} => start # finish /\ finish \notin Settled

(* Until the start is settled it waits alone. *)
StartFirst ==
  Settled = {} => q \subseteq {Entry(0, start, start)}

(* Whatever waits, the start aside, was pushed by a settled neighbour. *)
QueueSupported ==
  \A e \in q :
    \/ e = Entry(0, start, start)
    \/ /\ e.from \in Settled \cap DOMAIN vertexMap
       /\ e.sys \in DOMAIN vertexMap[e.from]
       /\ e.dist = dist[e.from] + Weight(e.from, e.sys)

(* What is left to look at are neighbours of curr, or start by accident. *)
RestAdjacent ==
  pc = "relax" =>
    \/ rest \subseteq {start}
    \/ curr \in DOMAIN vertexMap /\ rest \subseteq DOMAIN vertexMap[curr]

(* No hop raises the potential by more than its weight. *)
Feasible ==
  \A a \in DOMAIN vertexMap : \A b \in DOMAIN vertexMap[a] :
    Potential(b) <= Potential(a) + Weight(a, b)

(* getPath has walked settled predecessors from the destination so far. *)
PathClimbs ==
  pc = "path" =>
    /\ start # finish
    /\ finish \in Settled
    /\ path # << >>
    /\ path[1] = finish
    /\ path[Len(path)] # start
    /\ \A i \in 1 .. Len(path) : path[i] \in Settled
    /\ \A i \in 1 .. Len(path) - 1 : ReachedFrom(path[i], path[i + 1])
    /\ Feasible

IInv ==
  /\ TypeOK
  /\ SearchOpen
  /\ StartFirst
  /\ QueueSupported
  /\ QueueBeyondSettled
  /\ RestAdjacent
  /\ CurrentStaysOnTop
  /\ DistancesTight
  /\ FrontierComplete
  /\ NoEntryWaitsTwice
  /\ PathClimbs
  /\ EmptyMeansUnreachable
  /\ RouteCertified

-----------------------------------------------------------------------------
(* Every hop weighs something, and no more than MaxWeight. *)
LEMMA WeightBounds ==
  ASSUME NEW types, NEW tags
  PROVE  /\ CalculateWeight(types, tags) \in Nat
         /\ CalculateWeight(types, tags) >= 1
         /\ CalculateWeight(types, tags) <= MaxWeight
         /\ MaxWeight \in Nat
<1> DEFINE square == AVOID_WEIGHT * AVOID_WEIGHT
<1>1. square \in Nat /\ square >= 1 /\ square >= AVOID_WEIGHT
  BY WeightAssumption
<1>2. CalculateWeight(types, tags) \in {BASE_WEIGHT, AVOID_WEIGHT, square}
  BY DEF CalculateWeight
<1> HIDE DEF square
<1>3. MaxWeight = IF BASE_WEIGHT > square THEN BASE_WEIGHT ELSE square
  BY DEF MaxWeight, square
<1> QED
  BY <1>1, <1>2, <1>3, WeightAssumption

LEMMA WeightPositive ==
  \A a, b : Weight(a, b) \in Nat /\ Weight(a, b) >= 1
BY WeightBounds DEF Weight

(* What an entry that waits is made of. *)
LEMMA EntryFields ==
  ASSUME TypeOK, NEW e \in q
  PROVE  /\ e.dist \in Nat /\ e.sys \in System /\ e.from \in System
         /\ e.sys \in Int /\ e.from \in Int
         /\ e = Entry(e.dist, e.sys, e.from)
<1>1. e \in [dist : Nat, sys : System, from : System]
  BY DEF TypeOK
<1>2. e.dist \in Nat /\ e.sys \in System /\ e.from \in System
  BY <1>1
<1>3. e = Entry(e.dist, e.sys, e.from)
  BY <1>1 DEF Entry
<1> QED
  BY <1>2, <1>3, SystemAssumption

(* Two entries of a queue that both precede all the others are one. *)
LEMMA OneTop ==
  ASSUME TypeOK, NEW e, NEW f, IsTop(e), IsTop(f)
  PROVE  e = f
<1>1. e \in q /\ f \in q /\ Precedes(e, f) /\ Precedes(f, e)
  BY DEF IsTop
<1>2. e.dist = f.dist /\ e.sys = f.sys /\ e.from = f.from
  BY <1>1, EntryFields DEF Precedes
<1>3. e = Entry(e.dist, e.sys, e.from) /\ f = Entry(f.dist, f.sys, f.from)
  BY <1>1, EntryFields
<1> QED
  BY <1>2, <1>3

-----------------------------------------------------------------------------
(* Most steps leave the map, the call and what is settled alone. *)
Frame == UNCHANGED <<vertexMap, visited, avoid, start, finish, dist>>

LEMMA FrameFacts ==
  ASSUME Frame
  PROVE  /\ Settled' = Settled
         /\ \A a, b : Weight(a, b)' = Weight(a, b)
         /\ \A a, b : ReachedFrom(b, a)' = ReachedFrom(b, a)
         /\ Feasible' = Feasible
         /\ DistancesTight => DistancesTight'
<1>1. Settled' = Settled
  BY DEF Frame, Settled
<1>2. \A a, b : Weight(a, b)' = Weight(a, b)
  BY DEF Frame, Weight
<1>3. \A a, b : ReachedFrom(b, a)' = ReachedFrom(b, a)
  BY <1>1, <1>2 DEF Frame, ReachedFrom
<1>4. Feasible' = Feasible
  BY <1>1, <1>2 DEF Frame, Feasible, Potential
<1>5. DistancesTight => DistancesTight'
  BY <1>1, <1>3 DEF Frame, DistancesTight
<1> QED
  BY <1>1, <1>2, <1>3, <1>4, <1>5

(* A call that has just begun knows one entry and nothing settled. *)
LEMMA BeginKeeps ==
  ASSUME IInv, NEW s \in System, NEW f \in System, NEW tags \in AvoidSets, FindRoute(s, f, tags)
  PROVE  IInv'
<1> USE DEF IInv, FindRoute, BeginCall, ClearVisited
<1>1. Settled' = {}
  BY DEF Settled, NoEntries
<1>2. pc' \in {"trivial", "loop"} /\ (pc' = "loop" => start' # finish')
  OBVIOUS
<1>3. TypeOK'
  BY <1>1, <1>2, AvoidAssumption DEF TypeOK, Entry, NoEntries
<1>4. SearchOpen'
  BY <1>1, <1>2 DEF SearchOpen
<1>5. StartFirst' /\ QueueSupported'
  BY DEF StartFirst, QueueSupported, Entry
<1>6. QueueBeyondSettled' /\ DistancesTight' /\ FrontierComplete'
  BY <1>1 DEF QueueBeyondSettled, DistancesTight, FrontierComplete
<1>7. RestAdjacent' /\ CurrentStaysOnTop' /\ NoEntryWaitsTwice'
  BY <1>2 DEF RestAdjacent, CurrentStaysOnTop, NoEntryWaitsTwice
<1>8. PathClimbs' /\ EmptyMeansUnreachable' /\ RouteCertified'
  BY <1>2 DEF PathClimbs, EmptyMeansUnreachable, RouteCertified
<1> QED
  BY <1>3, <1>4, <1>5, <1>6, <1>7, <1>8

(* A step that returns leaves an empty queue; only the answer is in question. *)
LEMMA ReturnKeeps ==
  ASSUME IInv, Frame, NEW route \in Seq(System), Return(route), UNCHANGED <<curr, rest>>,
         EmptyMeansUnreachable', RouteCertified'
  PROVE  IInv'
<1> USE DEF IInv, Return
<1>1. TypeOK'
  BY FrameFacts DEF TypeOK, Frame
<1>2. SearchOpen' /\ RestAdjacent' /\ CurrentStaysOnTop' /\ FrontierComplete'
  BY DEF SearchOpen, RestAdjacent, CurrentStaysOnTop, FrontierComplete
<1>3. StartFirst' /\ QueueSupported' /\ QueueBeyondSettled'
  BY DEF StartFirst, QueueSupported, QueueBeyondSettled
<1>4. NoEntryWaitsTwice' /\ PathClimbs'
  BY DEF NoEntryWaitsTwice, PathClimbs
<1>5. DistancesTight'
  BY FrameFacts
<1> QED
  BY <1>1, <1>2, <1>3, <1>4, <1>5

LEMMA TrivialKeeps ==
  ASSUME IInv, ReturnTrivial
  PROVE  IInv'
<1> USE DEF ReturnTrivial
<1>1. <<start>> \in Seq(System)
  BY DEF IInv, TypeOK
<1>2. EmptyMeansUnreachable' /\ RouteCertified'
  BY DEF Return, EmptyMeansUnreachable, RouteCertified, IInv, SearchOpen
<1> QED
  BY <1>1, <1>2, ReturnKeeps DEF Frame

(* With nothing left to look at and only settled systems waiting, the      *)
(* settled systems have no hop out of them.                                *)
LEMMA ExhaustedKeeps ==
  ASSUME IInv, Frame, pc \in {"loop", "relax"}, pc = "relax" => rest = {},
         NEW e \in q, q = {e}, e.sys \in Settled,
         Return(<< >>), UNCHANGED <<curr, rest>>
  PROVE  IInv'
<1>1. << >> \in Seq(System)
  OBVIOUS
<1>2. start \in Settled /\ finish \notin Settled
  BY DEF IInv, DistancesTight, SearchOpen
<1>3. ASSUME NEW a \in Settled \cap DOMAIN vertexMap, NEW b \in DOMAIN vertexMap[a]
      PROVE  b \in Settled
  <2>1. HopCovered(a, b)
    BY DEF IInv, FrontierComplete
  <2> QED
    BY <2>1 DEF HopCovered
<1>4. EmptyMeansUnreachable'
  BY <1>2, <1>3, FrameFacts DEF EmptyMeansUnreachable, Frame
<1>5. RouteCertified'
  BY DEF RouteCertified, Return
<1> QED
  BY <1>1, <1>4, <1>5, ReturnKeeps

(* Dropping an entry of a settled system loses no shortcut. *)
LEMMA DropKeeps ==
  ASSUME IInv, Frame, pc \in {"loop", "relax"}, pc = "relax" => rest = {},
         NEW e \in q, e.sys \in Settled,
         q' = q \ {e}, pc' = "loop", UNCHANGED <<curr, rest, path>>
  PROVE  IInv'
<1> USE DEF IInv
<1>1. TypeOK'
  BY FrameFacts DEF TypeOK, Frame
<1>2. SearchOpen' /\ StartFirst'
  BY FrameFacts DEF SearchOpen, StartFirst, Frame
<1>3. QueueSupported'
  BY FrameFacts DEF QueueSupported, Frame
<1>4. QueueBeyondSettled'
  BY FrameFacts DEF QueueBeyondSettled, Frame
<1>5. FrontierComplete'
  <2>1. SUFFICES ASSUME NEW a \in Settled \cap DOMAIN vertexMap, NEW b \in DOMAIN vertexMap[a]
                 PROVE  HopCovered(a, b)'
    BY FrameFacts DEF FrontierComplete, Frame
  <2>2. HopCovered(a, b)
    BY DEF FrontierComplete
  <2>3. CASE b \in Settled /\ dist[b] <= dist[a] + Weight(a, b)
    BY <2>3, FrameFacts DEF HopCovered, Frame
  <2>4. CASE \E f \in q : f.sys = b /\ f.dist <= dist[a] + Weight(a, b)
    <3>1. PICK f \in q : f.sys = b /\ f.dist <= dist[a] + Weight(a, b)
      BY <2>4
    <3>2. CASE f # e
      BY <3>1, <3>2, FrameFacts DEF HopCovered, Frame
    <3>3. CASE f = e
      <4>1. b \in Settled /\ dist[b] <= f.dist
        BY <3>1, <3>3 DEF QueueBeyondSettled
      <4>2. dist[b] \in Nat /\ f.dist \in Nat /\ dist[a] + Weight(a, b) \in Nat
        BY <4>1, EntryFields, WeightPositive DEF TypeOK
      <4>3. dist[b] <= dist[a] + Weight(a, b)
        BY <3>1, <4>1, <4>2
      <4> QED
        BY <4>1, <4>3, FrameFacts DEF HopCovered, Frame
    <3> QED
      BY <3>2, <3>3
  <2> QED
    BY <2>2, <2>3, <2>4 DEF HopCovered
<1>6. RestAdjacent' /\ CurrentStaysOnTop' /\ NoEntryWaitsTwice' /\ PathClimbs'
  BY DEF RestAdjacent, CurrentStaysOnTop, NoEntryWaitsTwice, PathClimbs
<1>7. EmptyMeansUnreachable' /\ RouteCertified'
  BY DEF EmptyMeansUnreachable, RouteCertified
<1>8. DistancesTight'
  BY FrameFacts
<1> QED
  BY <1>1, <1>2, <1>3, <1>4, <1>5, <1>6, <1>7, <1>8

LEMMA PopVisitedKeeps ==
  ASSUME IInv, PopVisited
  PROVE  IInv'
<1>1. PICK e \in q :
        /\ e.sys \in Settled
        /\ \/ q = {e} /\ Return(<< >>)
           \/ q # {e} /\ q' = q \ {e} /\ UNCHANGED <<pc, path>>
  BY DEF PopVisited, Settled
<1>2. pc = "loop" /\ Frame /\ UNCHANGED <<curr, rest>>
  BY DEF PopVisited, Frame
<1>3. CASE q = {e} /\ Return(<< >>)
  BY <1>1, <1>2, <1>3, ExhaustedKeeps
<1>4. CASE q' = q \ {e} /\ UNCHANGED <<pc, path>>
  BY <1>1, <1>2, <1>4, DropKeeps
<1> QED
  BY <1>1, <1>3, <1>4

LEMMA PopCurrentKeeps ==
  ASSUME IInv, PopCurrent
  PROVE  IInv'
<1>1. PICK e \in q :
        /\ IsTop(e)
        /\ \/ q = {e} /\ Return(<< >>)
           \/ q # {e} /\ q' = q \ {e} /\ pc' = "loop" /\ UNCHANGED path
  BY DEF PopCurrent
<1>2. pc = "relax" /\ rest = {} /\ Frame /\ UNCHANGED <<curr, rest>>
  BY DEF PopCurrent, Frame
<1>3. e.sys \in Settled
  <2>1. curr \in Settled /\ IsTop(Entry(dist[curr], curr, visited[curr]))
    BY <1>2 DEF IInv, CurrentStaysOnTop
  <2>2. e = Entry(dist[curr], curr, visited[curr])
    BY <1>1, <2>1, OneTop DEF IInv
  <2> QED
    BY <2>1, <2>2 DEF Entry
<1>4. CASE q = {e} /\ Return(<< >>)
  BY <1>2, <1>3, <1>4, ExhaustedKeeps
<1>5. CASE q' = q \ {e} /\ pc' = "loop" /\ UNCHANGED path
  BY <1>1, <1>2, <1>3, <1>5, DropKeeps
<1> QED
  BY <1>1, <1>4, <1>5

(* While curr is expanded its entry is the top, and start is settled. *)
LEMMA Relaxing ==
  ASSUME IInv, pc = "relax"
  PROVE  /\ curr \in Settled /\ dist[curr] \in Nat
         /\ IsTop(Entry(dist[curr], curr, visited[curr]))
         /\ start \in Settled
         /\ \A s \in Settled : dist[s] \in Nat /\ dist[s] <= dist[curr]
<1>1. curr \in Settled /\ IsTop(Entry(dist[curr], curr, visited[curr]))
  BY DEF IInv, CurrentStaysOnTop
<1>2. start \in Settled
  BY <1>1 DEF IInv, DistancesTight
<1>3. \A s \in Settled : dist[s] \in Nat
  BY DEF IInv, TypeOK
<1>4. \A s \in Settled : dist[s] <= dist[curr]
  BY <1>1 DEF IInv, QueueBeyondSettled, IsTop, Entry
<1> QED
  BY <1>1, <1>2, <1>3, <1>4

LEMMA SkipKeeps ==
  ASSUME IInv, SkipNeighbour
  PROVE  IInv'
<1> USE DEF IInv
<1>1. PICK n \in rest : n \in Settled /\ rest' = rest \ {n}
  BY DEF SkipNeighbour, Settled
<1>2. pc = "relax" /\ Frame /\ UNCHANGED <<q, curr, path, pc>>
  BY DEF SkipNeighbour, Frame
<1>3. TypeOK' /\ SearchOpen' /\ StartFirst' /\ QueueSupported' /\ QueueBeyondSettled'
  BY <1>1, <1>2, FrameFacts
     DEF TypeOK, Frame, SearchOpen, StartFirst, QueueSupported, QueueBeyondSettled
<1>4. RestAdjacent' /\ NoEntryWaitsTwice'
  BY <1>1, <1>2, FrameFacts DEF RestAdjacent, NoEntryWaitsTwice, Frame
<1>5. CurrentStaysOnTop'
  BY <1>2, FrameFacts DEF CurrentStaysOnTop, IsTop, Frame
<1>6. FrontierComplete'
  <2>1. SUFFICES ASSUME NEW a \in Settled \cap DOMAIN vertexMap, NEW b \in DOMAIN vertexMap[a]
                 PROVE  HopCovered(a, b)'
    BY <1>2, FrameFacts DEF FrontierComplete, Frame
  <2>2. HopCovered(a, b)
    BY <1>2 DEF FrontierComplete
  <2>3. CASE a = curr /\ b = n
    <3>1. dist[n] <= dist[curr] /\ dist[n] \in Nat /\ dist[curr] \in Nat
      BY <1>1, <1>2, Relaxing
    <3>2. dist[n] <= dist[curr] + Weight(curr, n)
      BY <3>1, WeightPositive
    <3> QED
      BY <1>1, <1>2, <2>3, <3>2, FrameFacts DEF HopCovered, Frame
  <2>4. CASE ~(a = curr /\ b = n)
    BY <1>1, <1>2, <2>2, <2>4, FrameFacts DEF HopCovered, Frame
  <2> QED
    BY <2>3, <2>4
<1>7. PathClimbs' /\ EmptyMeansUnreachable' /\ RouteCertified'
  BY <1>2 DEF PathClimbs, EmptyMeansUnreachable, RouteCertified
<1>8. DistancesTight'
  BY <1>2, FrameFacts
<1> QED
  BY <1>3, <1>4, <1>5, <1>6, <1>7, <1>8

LEMMA PushKeeps ==
  ASSUME IInv, PushNeighbour
  PROVE  IInv'
<1> USE DEF IInv
<1> DEFINE top == Entry(dist[curr], curr, visited[curr])
           new(n) == Entry(dist[curr] + Weight(curr, n), n, curr)
<1>1. pc = "relax" /\ Frame /\ UNCHANGED <<curr, path, pc>>
  BY DEF PushNeighbour, Push, Frame
<1>2. PICK n \in rest, e \in q :
        /\ n \notin Settled
        /\ IsTop(e)
        /\ Push(n, Entry(e.dist + Weight(curr, n), n, curr))
  BY DEF PushNeighbour, Settled
<1>3. e = top /\ e.dist = dist[curr]
  BY <1>1, <1>2, Relaxing, OneTop DEF Entry
<1>4. q' = q \cup {new(n)} /\ rest' = rest \ {n}
  BY <1>2, <1>3 DEF Push
<1>5. curr \in DOMAIN vertexMap /\ n \in DOMAIN vertexMap[curr]
  BY <1>1, <1>2, Relaxing DEF RestAdjacent
<1>6. /\ new(n).dist \in Nat /\ new(n).dist = dist[curr] + Weight(curr, n)
      /\ new(n).sys = n /\ new(n).from = curr
      /\ dist[curr] < new(n).dist
  BY <1>1, Relaxing, WeightPositive DEF Entry
<1>7. TypeOK'
  <2>1. n \in System /\ curr \in System
    BY DEF TypeOK
  <2>2. new(n) \in [dist : Nat, sys : System, from : System]
    BY <1>6, <2>1 DEF Entry
  <2> QED
    BY <1>1, <1>4, <2>2, FrameFacts DEF TypeOK, Frame
<1> HIDE DEF new
<1>8. SearchOpen' /\ StartFirst'
  BY <1>1, Relaxing, FrameFacts DEF SearchOpen, StartFirst, Frame
<1>9. QueueSupported'
  BY <1>1, <1>4, <1>5, <1>6, Relaxing, FrameFacts DEF QueueSupported, Frame
<1>10. QueueBeyondSettled'
  <2>1. \A s \in Settled : dist[s] <= new(n).dist
    BY <1>1, <1>6, Relaxing
  <2> QED
    BY <1>1, <1>4, <2>1, FrameFacts DEF QueueBeyondSettled, Frame
<1>11. RestAdjacent' /\ NoEntryWaitsTwice'
  BY <1>1, <1>4, <1>6, FrameFacts DEF RestAdjacent, NoEntryWaitsTwice, Frame
<1>12. CurrentStaysOnTop'
  <2>1. Precedes(top, new(n))
    BY <1>6 DEF Precedes, Entry
  <2>2. curr \in Settled /\ IsTop(top)
    BY <1>1, Relaxing
  <2>3. top' = top
    BY <1>1 DEF Frame
  <2>4. IsTop(top)'
    BY <1>4, <2>1, <2>2, <2>3 DEF IsTop, Precedes
  <2> QED
    BY <1>1, <2>2, <2>4, FrameFacts DEF CurrentStaysOnTop
<1>13. FrontierComplete'
  <2>1. SUFFICES ASSUME NEW a \in Settled \cap DOMAIN vertexMap, NEW b \in DOMAIN vertexMap[a]
                 PROVE  HopCovered(a, b)'
    BY <1>1, FrameFacts DEF FrontierComplete, Frame
  <2>2. HopCovered(a, b)
    BY <1>1 DEF FrontierComplete
  <2>3. CASE a = curr /\ b = n
    <3>1. new(n).dist <= dist[a] + Weight(a, b)
      BY <1>6, <2>3
    <3> QED
      BY <1>1, <1>4, <1>6, <2>3, <3>1, FrameFacts DEF HopCovered, Frame
  <2>4. CASE ~(a = curr /\ b = n)
    BY <1>1, <1>4, <2>2, <2>4, FrameFacts DEF HopCovered, Frame
  <2> QED
    BY <2>3, <2>4
<1>14. PathClimbs' /\ EmptyMeansUnreachable' /\ RouteCertified'
  BY <1>1 DEF PathClimbs, EmptyMeansUnreachable, RouteCertified
<1>15. DistancesTight'
  BY <1>1, FrameFacts
<1> QED
  BY <1>7, <1>8, <1>9, <1>10, <1>11, <1>12, <1>13, <1>14, <1>15

-----------------------------------------------------------------------------
(* Settling the top adds one system, reached by a hop from a settled one   *)
(* and at least as far as any other, and leaves everything else as it was. *)
LEMMA SettleExtends ==
  ASSUME IInv, NEW e, Settle(e)
  PROVE  /\ e \in q /\ e.sys \notin Settled
         /\ Settled' = Settled \cup {e.sys}
         /\ visited'[e.sys] = e.from /\ dist'[e.sys] = e.dist
         /\ \A s \in Settled : visited'[s] = visited[s] /\ dist'[s] = dist[s]
         /\ visited' \in [Settled' -> System] /\ dist' \in [Settled' -> Nat]
         /\ Settled' \subseteq System
         /\ \A a, b : Weight(a, b)' = Weight(a, b)
<1> USE DEF IInv, Settle
<1>1. e \in q /\ e.sys \notin Settled
  BY DEF IsTop, Settled
<1>2. e.dist \in Nat /\ e.sys \in System /\ e.from \in System
  BY <1>1, EntryFields
<1>3. DOMAIN dist = DOMAIN visited
  BY DEF TypeOK, Settled
<1>4. Settled' = Settled \cup {e.sys} /\ DOMAIN dist' = Settled'
  BY <1>3 DEF Insert, Settled
<1>5. visited'[e.sys] = e.from /\ dist'[e.sys] = e.dist
  BY <1>1, <1>3 DEF Insert, Settled
<1>6. \A s \in Settled : visited'[s] = visited[s] /\ dist'[s] = dist[s]
  BY <1>3 DEF Insert, Settled
<1>7. visited' = [s \in Settled' |-> visited'[s]] /\ dist' = [s \in Settled' |-> dist'[s]]
  BY <1>3, <1>4 DEF Insert, Settled
<1>8. \A s \in Settled : visited[s] \in System /\ dist[s] \in Nat
  BY DEF TypeOK
<1>9. \A s \in Settled' : visited'[s] \in System /\ dist'[s] \in Nat
  BY <1>2, <1>4, <1>5, <1>6, <1>8
<1>10. visited' \in [Settled' -> System] /\ dist' \in [Settled' -> Nat]
  BY <1>7, <1>9
<1>11. Settled' \subseteq System
  BY <1>2, <1>4 DEF TypeOK
<1>12. \A a, b : Weight(a, b)' = Weight(a, b)
  BY DEF Weight
<1> QED
  BY <1>1, <1>4, <1>5, <1>6, <1>10, <1>11, <1>12

(* The parts of the invariant that only speak of the queue and of what is  *)
(* settled survive it.                                                     *)
LEMMA SettleKeeps ==
  ASSUME IInv, NEW e, Settle(e)
  PROVE  /\ StartFirst' /\ QueueSupported' /\ QueueBeyondSettled' /\ DistancesTight'
         /\ \A s \in Settled' : dist'[s] <= e.dist
         /\ e = Entry(0, start, start) \/ e.sys \in DOMAIN vertexMap
<1> USE DEF IInv
<1>1. UNCHANGED <<vertexMap, avoid, start, finish, q>> /\ IsTop(e)
  BY DEF Settle
<1>2. /\ e \in q /\ e.sys \notin Settled
      /\ Settled' = Settled \cup {e.sys}
      /\ visited'[e.sys] = e.from /\ dist'[e.sys] = e.dist
      /\ \A s \in Settled : visited'[s] = visited[s] /\ dist'[s] = dist[s]
      /\ \A a, b : Weight(a, b)' = Weight(a, b)
  BY SettleExtends
<1>3. \A f \in q : e.dist <= f.dist
  <2>1. \A f \in q : Precedes(e, f) /\ e.dist \in Nat /\ f.dist \in Nat
    BY <1>1, <1>2, EntryFields DEF IsTop
  <2> QED
    BY <2>1 DEF Precedes
<1>4. \A s \in Settled : dist[s] <= e.dist
  BY <1>2 DEF QueueBeyondSettled
<1>5. \A s \in Settled' : dist'[s] <= e.dist
  <2>1. e.dist <= e.dist
    BY <1>2, EntryFields
  <2> QED
    BY <1>2, <1>4, <2>1
<1>6. StartFirst'
  BY <1>2 DEF StartFirst
<1>7. QueueSupported'
  BY <1>1, <1>2 DEF QueueSupported
<1>8. QueueBeyondSettled'
  BY <1>1, <1>2, <1>3 DEF QueueBeyondSettled
<1>9. e = Entry(0, start, start) \/ e.sys \in DOMAIN vertexMap
  BY <1>2 DEF QueueSupported, TypeOK, Closed
<1>10. DistancesTight'
  <2>1. CASE Settled = {}
    <3>1. e = Entry(0, start, start)
      BY <1>2, <2>1 DEF StartFirst
    <3>2. e.sys = start /\ e.from = start /\ e.dist = 0
      BY <3>1 DEF Entry
    <3> QED
      BY <1>1, <1>2, <2>1, <3>2 DEF DistancesTight
  <2>2. CASE Settled # {}
    <3>1. /\ start \in Settled /\ visited[start] = start /\ dist[start] = 0
          /\ \A s \in Settled \ {start} : ReachedFrom(s, visited[s])
      BY <2>2 DEF DistancesTight
    <3>2. e # Entry(0, start, start) /\ e.sys # start
      BY <1>2, <3>1 DEF Entry
    <3>3. ReachedFrom(e.sys, e.from)'
      BY <1>1, <1>2, <3>2 DEF QueueSupported, ReachedFrom
    <3>4. \A s \in Settled \ {start} : ReachedFrom(s, visited[s])'
      BY <1>1, <1>2, <3>1 DEF ReachedFrom
    <3> QED
      BY <1>1, <1>2, <3>1, <3>3, <3>4 DEF DistancesTight
  <2> QED
    BY <2>1, <2>2
<1> QED
  BY <1>5, <1>6, <1>7, <1>8, <1>9, <1>10

LEMMA ArriveKeeps ==
  ASSUME IInv, Arrive
  PROVE  IInv'
<1> USE DEF IInv
<1>1. PICK e \in q : Settle(e) /\ e.sys = finish /\ path' = <<finish>>
  BY DEF Arrive
<1>2. pc = "loop" /\ pc' = "path" /\ UNCHANGED <<vertexMap, avoid, start, finish, q, curr, rest>>
  BY <1>1 DEF Arrive, Settle
<1>3. start # finish
  BY <1>2 DEF SearchOpen
<1>4. /\ Settled' = Settled \cup {finish} /\ finish \notin Settled
      /\ dist'[finish] = e.dist
      /\ \A s \in Settled : dist'[s] = dist[s]
      /\ dist' \in [Settled' -> Nat]
      /\ \A a, b : Weight(a, b)' = Weight(a, b)
  BY <1>1, SettleExtends
<1>5. e.dist \in Nat /\ \A s \in Settled' : dist'[s] \in Nat /\ dist'[s] <= e.dist
  BY <1>1, <1>4, SettleKeeps, EntryFields
<1>6. Feasible'
  <2>1. SUFFICES ASSUME NEW a \in DOMAIN vertexMap, NEW b \in DOMAIN vertexMap[a]
                 PROVE  Potential(b)' <= Potential(a)' + Weight(a, b)
    BY <1>2, <1>4 DEF Feasible
  <2>2. /\ Potential(b)' \in Nat /\ Potential(b)' <= e.dist
        /\ Potential(a)' \in Nat
        /\ Weight(a, b) \in Nat
    BY <1>2, <1>4, <1>5, WeightPositive DEF Potential
  <2>3. CASE a \notin Settled
    <3>1. Potential(a)' = e.dist
      BY <1>2, <1>4, <2>3 DEF Potential
    <3> QED
      BY <2>2, <3>1, <1>5
  <2>4. CASE a \in Settled
    <3>1. Potential(a)' = dist[a] /\ dist[a] \in Nat
      BY <1>2, <1>4, <1>5, <2>4 DEF Potential
    <3>2. HopCovered(a, b)
      BY <1>2, <2>4 DEF FrontierComplete
    <3>3. CASE b \in Settled /\ dist[b] <= dist[a] + Weight(a, b)
      BY <1>4, <3>1, <3>3 DEF Potential
    <3>4. CASE \E f \in q : f.sys = b /\ f.dist <= dist[a] + Weight(a, b)
      <4>1. PICK f \in q : f.dist <= dist[a] + Weight(a, b)
        BY <3>4
      <4>2. f.dist \in Nat /\ e.dist <= f.dist
        BY <1>1, <1>5, EntryFields DEF Settle, IsTop, Precedes
      <4> QED
        BY <1>5, <2>2, <3>1, <4>1, <4>2
    <3> QED
      BY <1>2, <3>2, <3>3, <3>4 DEF HopCovered
  <2> QED
    BY <2>3, <2>4
<1>7. PathClimbs'
  BY <1>1, <1>2, <1>3, <1>4, <1>6 DEF PathClimbs
<1>8. TypeOK'
  <2>1. path' \in Seq(System)
    BY <1>1 DEF TypeOK
  <2> QED
    BY <1>1, <1>2, <2>1, SettleExtends DEF TypeOK
<1>9. SearchOpen' /\ RestAdjacent' /\ CurrentStaysOnTop' /\ FrontierComplete' /\ NoEntryWaitsTwice'
  BY <1>2 DEF SearchOpen, RestAdjacent, CurrentStaysOnTop, FrontierComplete, NoEntryWaitsTwice
<1>10. EmptyMeansUnreachable' /\ RouteCertified'
  BY <1>2 DEF EmptyMeansUnreachable, RouteCertified
<1>11. StartFirst' /\ QueueSupported' /\ QueueBeyondSettled' /\ DistancesTight'
  BY <1>1, SettleKeeps
<1> QED
  BY <1>7, <1>8, <1>9, <1>10, <1>11

(* Expanding a system: whatever the search then looks at, the systems      *)
(* settled before are as well covered as they were.                        *)
LEMMA ExpandKeeps ==
  ASSUME IInv, NEW e \in q, Settle(e), e.sys # finish, curr' = e.sys, pc' = "relax", UNCHANGED path,
         \/ e.sys \in DOMAIN vertexMap /\ rest' = DOMAIN vertexMap[e.sys]
         \/ e.sys \notin DOMAIN vertexMap /\ rest' = {start}
  PROVE  IInv'
<1> USE DEF IInv
<1>1. pc = "loop" /\ UNCHANGED <<vertexMap, avoid, start, finish, q>> /\ IsTop(e)
  BY DEF Settle
<1>2. /\ e.sys \notin Settled
      /\ Settled' = Settled \cup {e.sys}
      /\ visited'[e.sys] = e.from /\ dist'[e.sys] = e.dist
      /\ \A s \in Settled : dist'[s] = dist[s]
      /\ \A a, b : Weight(a, b)' = Weight(a, b)
  BY SettleExtends
<1>3. e = Entry(e.dist, e.sys, e.from) /\ e.sys \in System /\ e.dist \in Nat
  BY EntryFields
<1>4. TypeOK'
  <2>1. rest' \subseteq System
    BY <1>1 DEF TypeOK, IsVertexMap
  <2> QED
    BY <1>1, <1>3, <2>1, SettleExtends DEF TypeOK
<1>5. SearchOpen'
  BY <1>1, <1>2 DEF SearchOpen
<1>6. RestAdjacent'
  BY <1>1 DEF RestAdjacent
<1>7. CurrentStaysOnTop'
  <2>1. Entry(dist[curr], curr, visited[curr])' = e
    BY <1>2, <1>3 DEF Entry
  <2>2. IsTop(e)'
    BY <1>1 DEF IsTop, Precedes
  <2> QED
    BY <1>2, <2>1, <2>2 DEF CurrentStaysOnTop
<1>8. FrontierComplete'
  <2>1. SUFFICES ASSUME NEW a \in Settled' \cap DOMAIN vertexMap, NEW b \in DOMAIN vertexMap[a]
                 PROVE  HopCovered(a, b)'
    BY <1>1 DEF FrontierComplete
  <2>2. CASE a = e.sys
    BY <1>1, <2>2 DEF HopCovered
  <2>3. CASE a \in Settled
    <3>1. HopCovered(a, b)
      BY <1>1, <2>3 DEF FrontierComplete
    <3> QED
      BY <1>1, <1>2, <2>3, <3>1 DEF HopCovered
  <2> QED
    BY <1>2, <2>2, <2>3
<1>9. NoEntryWaitsTwice'
  <2>1. SUFFICES ASSUME NEW n \in rest' \ Settled', NEW f \in q, f.sys = n, f.from = e.sys
                 PROVE  FALSE
    BY <1>1 DEF NoEntryWaitsTwice
  <2>2. f # Entry(0, start, start)
    BY <1>2, <2>1 DEF Entry
  <2> QED
    BY <1>2, <2>1, <2>2 DEF QueueSupported
<1>10. PathClimbs' /\ EmptyMeansUnreachable' /\ RouteCertified'
  BY DEF PathClimbs, EmptyMeansUnreachable, RouteCertified
<1>11. StartFirst' /\ QueueSupported' /\ QueueBeyondSettled' /\ DistancesTight'
  BY SettleKeeps
<1> QED
  BY <1>4, <1>5, <1>6, <1>7, <1>8, <1>9, <1>10, <1>11

(* A fault in the middle of a search disturbs no promise about answers. *)
LEMMA CrashKeeps ==
  ASSUME IInv, NEW e \in q, Settle(e), curr' = e.sys, pc' = "crashed", rest' = {}, UNCHANGED path
  PROVE  IInv'
<1> USE DEF IInv
<1>1. UNCHANGED <<vertexMap, avoid, start, finish, q>>
  BY DEF Settle
<1>2. TypeOK'
  BY <1>1, SettleExtends, EntryFields DEF TypeOK
<1>3. SearchOpen' /\ RestAdjacent' /\ CurrentStaysOnTop' /\ FrontierComplete' /\ NoEntryWaitsTwice'
  BY DEF SearchOpen, RestAdjacent, CurrentStaysOnTop, FrontierComplete, NoEntryWaitsTwice
<1>4. PathClimbs' /\ EmptyMeansUnreachable' /\ RouteCertified'
  BY DEF PathClimbs, EmptyMeansUnreachable, RouteCertified
<1>5. StartFirst' /\ QueueSupported' /\ QueueBeyondSettled' /\ DistancesTight'
  BY SettleKeeps
<1> QED
  BY <1>2, <1>3, <1>4, <1>5

-----------------------------------------------------------------------------
(* The last system of the path was reached from a settled neighbour. *)
LEMMA Climbing ==
  ASSUME IInv, pc = "path"
  PROVE  /\ Len(path) \in Nat \ {0} /\ path \in Seq(System)
         /\ CameFrom \in Settled /\ CameFrom \in System
         /\ ReachedFrom(path[Len(path)], CameFrom)
<1> USE DEF IInv
<1>1. path \in Seq(System) /\ path # << >>
  BY DEF TypeOK, PathClimbs
<1>2. Len(path) \in Nat \ {0}
  BY <1>1
<1>3. path[Len(path)] \in Settled \ {start}
  BY <1>2 DEF PathClimbs
<1>4. ReachedFrom(path[Len(path)], CameFrom)
  BY <1>3 DEF DistancesTight, CameFrom
<1> QED
  BY <1>1, <1>2, <1>4 DEF ReachedFrom, TypeOK

LEMMA BacktrackKeeps ==
  ASSUME IInv, Backtrack
  PROVE  IInv'
<1> USE DEF IInv
<1>1. pc = "path" /\ Frame /\ UNCHANGED <<q, curr, rest, pc>>
  BY DEF Backtrack, Frame
<1>2. CameFrom # start /\ path' = Append(path, CameFrom)
  BY DEF Backtrack
<1> DEFINE n == Len(path)
<1>3. /\ path' \in Seq(System) /\ Len(path') = n + 1 /\ path'[n + 1] = CameFrom
      /\ \A i \in 1 .. n : path'[i] = path[i]
      /\ n \in Nat \ {0}
  BY <1>1, <1>2, Climbing
<1>4. PathClimbs'
  <2>1. path' # << >> /\ path'[1] = finish' /\ path'[Len(path')] # start'
    BY <1>1, <1>2, <1>3 DEF PathClimbs, Frame
  <2>2. \A i \in 1 .. Len(path') : path'[i] \in Settled
    BY <1>1, <1>3, Climbing DEF PathClimbs
  <2>3. ASSUME NEW i \in 1 .. Len(path') - 1
        PROVE  ReachedFrom(path'[i], path'[i + 1])
    <3>1. CASE i = n
      BY <1>1, <1>3, <3>1, Climbing
    <3>2. CASE i \in 1 .. n - 1
      <4>1. ReachedFrom(path[i], path[i + 1]) /\ i \in 1 .. n /\ i + 1 \in 1 .. n
        BY <1>1, <3>2 DEF PathClimbs
      <4> QED
        BY <1>3, <4>1
    <3> QED
      BY <1>3, <3>1, <3>2
  <2>4. start' # finish' /\ finish' \in Settled' /\ Feasible'
    BY <1>1, FrameFacts DEF PathClimbs, Frame
  <2>5. \A i \in 1 .. Len(path') - 1 : ReachedFrom(path[i], path[i + 1])'
    <3>1. \A a, b : Weight(a, b)' = Weight(a, b)
      BY <1>1, FrameFacts
    <3> QED
      BY <1>1, <2>3, <3>1, FrameFacts DEF ReachedFrom, Frame
  <2> QED
    BY <1>1, <2>1, <2>2, <2>4, <2>5, FrameFacts DEF PathClimbs
<1>5. TypeOK'
  BY <1>1, <1>3, FrameFacts DEF TypeOK, Frame
<1>6. SearchOpen' /\ StartFirst' /\ QueueSupported' /\ QueueBeyondSettled'
  BY <1>1, FrameFacts DEF SearchOpen, StartFirst, QueueSupported, QueueBeyondSettled, Frame
<1>7. RestAdjacent' /\ CurrentStaysOnTop' /\ FrontierComplete' /\ NoEntryWaitsTwice'
  BY <1>1 DEF RestAdjacent, CurrentStaysOnTop, FrontierComplete, NoEntryWaitsTwice
<1>8. EmptyMeansUnreachable' /\ RouteCertified'
  BY <1>1 DEF EmptyMeansUnreachable, RouteCertified
<1>9. DistancesTight'
  BY <1>1, FrameFacts
<1> QED
  BY <1>4, <1>5, <1>6, <1>7, <1>8, <1>9

(* Reversing the climb gives a route in the direction of travel. *)
LEMMA ReturnPathKeeps ==
  ASSUME IInv, ReturnPath
  PROVE  IInv'
<1> USE DEF IInv
<1> DEFINE climb == Append(path, start)
           n == Len(path)
           route == Reversed(climb)
<1>1. pc = "path" /\ Frame /\ UNCHANGED <<curr, rest>> /\ CameFrom = start /\ Return(route)
  BY DEF ReturnPath, Frame
<1>2. /\ climb \in Seq(System) /\ Len(climb) = n + 1 /\ climb[n + 1] = start
      /\ \A i \in 1 .. n : climb[i] = path[i]
      /\ n \in Nat \ {0}
  BY <1>1, Climbing DEF TypeOK
<1>3. \A i \in 1 .. n : climb[i] \in Settled /\ ReachedFrom(climb[i], climb[i + 1])
  <2>1. ASSUME NEW i \in 1 .. n
        PROVE  climb[i] \in Settled /\ ReachedFrom(climb[i], climb[i + 1])
    <3>1. CASE i = n
      BY <1>1, <1>2, <3>1, Climbing DEF PathClimbs
    <3>2. CASE i \in 1 .. n - 1
      <4>1. ReachedFrom(path[i], path[i + 1]) /\ path[i] \in Settled /\ i + 1 \in 1 .. n
        BY <1>1, <3>2 DEF PathClimbs
      <4> QED
        BY <1>2, <4>1
    <3> QED
      BY <1>2, <3>1, <3>2
  <2> QED
    BY <2>1
<1> HIDE DEF climb
<1>4. route = [i \in 1 .. n + 1 |-> climb[n + 2 - i]]
  BY <1>2 DEF Reversed
<1>5. route \in Seq(System) /\ Len(route) = n + 1 /\ route # << >>
  <2>1. \A i \in 1 .. n + 1 : n + 2 - i \in 1 .. n + 1
    BY <1>2
  <2>2. \A i \in 1 .. n + 1 : climb[n + 2 - i] \in System
    BY <1>2, <2>1
  <2>3. route \in [1 .. n + 1 -> System]
    BY <1>4, <2>2
  <2>4. route \in Seq(System) /\ Len(route) = n + 1
    BY <1>2, <2>3
  <2> QED
    BY <1>2, <2>4
<1>6. route[1] = start /\ route[n + 1] = finish
  BY <1>1, <1>2, <1>4 DEF PathClimbs
<1>7. \A i \in 1 .. n : route[i + 1] \in Settled /\ ReachedFrom(route[i + 1], route[i])
  <2>1. ASSUME NEW i \in 1 .. n
        PROVE  route[i + 1] \in Settled /\ ReachedFrom(route[i + 1], route[i])
    <3>1. route[i + 1] = climb[n + 1 - i] /\ route[i] = climb[(n + 1 - i) + 1]
      BY <1>2, <1>4
    <3>2. n + 1 - i \in 1 .. n
      BY <1>2
    <3> QED
      BY <1>3, <3>1, <3>2
  <2> QED
    BY <2>1
<1> HIDE DEF route
<1>8. EmptyMeansUnreachable'
  BY <1>1, <1>5 DEF EmptyMeansUnreachable, Return
<1>9. RouteCertified'
  <2>1. path' = route /\ Settled' = Settled
    BY <1>1, FrameFacts DEF Return
  <2>2. start \in Settled /\ dist[start] = 0 /\ finish \in Settled /\ Feasible'
    BY <1>1, FrameFacts DEF PathClimbs, DistancesTight
  <2>3. \A i \in 1 .. n : path'[i + 1] \in Settled' /\ ReachedFrom(path[i + 1], path[i])'
    <3>1. \A a, b : Weight(a, b)' = Weight(a, b)
      BY <1>1, FrameFacts
    <3> QED
      BY <1>1, <1>7, <2>1, <3>1 DEF ReachedFrom, Frame
  <2>4. Len(path') - 1 = n /\ path'[1] = start' /\ path'[Len(path')] = finish'
    BY <1>1, <1>2, <1>5, <1>6, <2>1 DEF Frame
  <2> QED
    BY <1>1, <2>1, <2>2, <2>3, <2>4 DEF RouteCertified, Feasible, Frame
<1> QED
  BY <1>1, <1>5, <1>8, <1>9, ReturnKeeps

-----------------------------------------------------------------------------
LEMMA InitHolds == Init => IInv
<1> SUFFICES ASSUME Init PROVE IInv
  OBVIOUS
<1> USE DEF Init
<1>1. Settled = {} /\ start \in System
  BY SystemAssumption DEF Settled, NoEntries
<1>2. TypeOK
  BY <1>1, LoadedAssumption DEF TypeOK, NoEntries
<1>3. SearchOpen /\ StartFirst /\ QueueSupported /\ QueueBeyondSettled
  BY DEF SearchOpen, StartFirst, QueueSupported, QueueBeyondSettled
<1>4. RestAdjacent /\ CurrentStaysOnTop /\ FrontierComplete /\ NoEntryWaitsTwice
  BY DEF RestAdjacent, CurrentStaysOnTop, FrontierComplete, NoEntryWaitsTwice
<1>5. DistancesTight /\ PathClimbs /\ EmptyMeansUnreachable /\ RouteCertified
  BY <1>1 DEF DistancesTight, PathClimbs, EmptyMeansUnreachable, RouteCertified
<1> QED
  BY <1>2, <1>3, <1>4, <1>5 DEF IInv

LEMMA StutterKeeps ==
  ASSUME IInv, UNCHANGED vars
  PROVE  IInv'
<1> USE DEF vars, IInv
<1>1. Settled' = Settled /\ \A a, b : Weight(a, b)' = Weight(a, b)
  BY DEF Settled, Weight
<1>2. TypeOK' /\ SearchOpen' /\ StartFirst' /\ QueueBeyondSettled' /\ RestAdjacent'
  BY <1>1 DEF TypeOK, SearchOpen, StartFirst, QueueBeyondSettled, RestAdjacent
<1>3. QueueSupported' /\ NoEntryWaitsTwice' /\ CurrentStaysOnTop'
  BY <1>1 DEF QueueSupported, NoEntryWaitsTwice, CurrentStaysOnTop, IsTop
<1>4. DistancesTight'
  BY <1>1 DEF DistancesTight, ReachedFrom
<1>5. FrontierComplete'
  BY <1>1 DEF FrontierComplete, HopCovered
<1>6. PathClimbs'
  BY <1>1 DEF PathClimbs, ReachedFrom, Feasible, Potential
<1>7. EmptyMeansUnreachable'
  BY <1>1 DEF EmptyMeansUnreachable
<1>8. RouteCertified'
  BY <1>1 DEF RouteCertified, ReachedFrom, Potential
<1> QED
  BY <1>2, <1>3, <1>4, <1>5, <1>6, <1>7, <1>8

LEMMA StepKeeps == IInv /\ [Next]_vars => IInv'
<1> SUFFICES ASSUME IInv, [Next]_vars PROVE IInv'
  OBVIOUS
<1>1. CASE \E s, f \in System, tags \in AvoidSets : FindRoute(s, f, tags)
  BY <1>1, BeginKeeps
<1>2. CASE ReturnTrivial
  BY <1>2, TrivialKeeps
<1>3. CASE PopVisited
  BY <1>3, PopVisitedKeeps
<1>4. CASE Arrive
  BY <1>4, ArriveKeeps
<1>5. CASE Expand
  <2>1. PICK e \in q :
          /\ Settle(e) /\ e.sys # finish /\ e.sys \in DOMAIN vertexMap
          /\ curr' = e.sys /\ rest' = DOMAIN vertexMap[e.sys]
    BY <1>5 DEF Expand
  <2> QED
    BY <1>5, <2>1, ExpandKeeps DEF Expand
<1>6. CASE ExpandUnmapped
  <2>1. PICK e \in q :
          /\ Settle(e) /\ e.sys # finish /\ e.sys \notin DOMAIN vertexMap
          /\ curr' = e.sys
          /\ \/ pc' = "crashed" /\ rest' = {}
             \/ pc' = "relax" /\ rest' = {start}
    BY <1>6 DEF ExpandUnmapped
  <2> QED
    BY <1>6, <2>1, ExpandKeeps, CrashKeeps DEF ExpandUnmapped
<1>7. CASE SkipNeighbour
  BY <1>7, SkipKeeps
<1>8. CASE PushNeighbour
  BY <1>8, PushKeeps
<1>9. CASE PopCurrent
  BY <1>9, PopCurrentKeeps
<1>10. CASE Backtrack
  BY <1>10, BacktrackKeeps
<1>11. CASE ReturnPath
  BY <1>11, ReturnPathKeeps
<1>12. CASE UNCHANGED vars
  BY <1>12, StutterKeeps
<1> QED
  BY <1>1, <1>2, <1>3, <1>4, <1>5, <1>6, <1>7, <1>8, <1>9, <1>10, <1>11, <1>12 DEF Next, Search

-----------------------------------------------------------------------------
(* The inductive invariant holds throughout. *)
THEOREM Inductive == Spec => []IInv
<1>1. Init => IInv
  BY InitHolds
<1>2. IInv /\ [Next]_vars => IInv'
  BY StepKeeps
<1> QED
  BY <1>1, <1>2, PTL DEF Spec

(* The members, the locals and the history keep their types. *)
THEOREM TypeCorrect == Spec => []TypeOK
<1>1. IInv => TypeOK
  BY DEF IInv
<1> QED
  BY <1>1, Inductive, PTL

(* No push ever overtakes the entry of the system being expanded, so that  *)
(* q.top() is curr wherever addNeighbours and q.pop() take it to be.       *)
THEOREM TopIsCurrent == Spec => []CurrentStaysOnTop
<1>1. IInv => CurrentStaysOnTop
  BY DEF IInv
<1> QED
  BY <1>1, Inductive, PTL

(* The predecessors getPath follows are settled, adjacent and nearer.      *)
THEOREM PredecessorsTight == Spec => []DistancesTight
<1>1. IInv => DistancesTight
  BY DEF IInv
<1> QED
  BY <1>1, Inductive, PTL

(* No hop out of an expanded system is lost before the search ends. *)
THEOREM NoShortcutLost == Spec => []FrontierComplete
<1>1. IInv => FrontierComplete
  BY DEF IInv
<1> QED
  BY <1>1, Inductive, PTL

(* The queue never holds an entry twice. *)
THEOREM EntriesDiffer == Spec => []NoEntryWaitsTwice
<1>1. IInv => NoEntryWaitsTwice
  BY DEF IInv
<1> QED
  BY <1>1, Inductive, PTL

(* An empty answer means that no hop leads out of what start can reach.    *)
THEOREM EmptyIsRight == Spec => []EmptyMeansUnreachable
<1>1. IInv => EmptyMeansUnreachable
  BY DEF IInv
<1> QED
  BY <1>1, Inductive, PTL

(* Every route answered comes with its certificate of optimality. *)
THEOREM RouteIsRight == Spec => []RouteCertified
<1>1. IInv => RouteCertified
  BY DEF IInv
<1> QED
  BY <1>1, Inductive, PTL

(* A step that settles a system settles the top of the queue, beyond all   *)
(* that has been settled before: systems are settled in order of distance. *)
THEOREM OrderKept == Spec => SettledInOrder
<1> DEFINE InOrder == \A s \in Settled, t \in Settled' \ Settled : dist[s] <= dist'[t]
<1>1. IInv /\ [Next]_vars => [InOrder]_vars
  <2> SUFFICES ASSUME IInv, Next PROVE InOrder
    OBVIOUS
  <2>1. ASSUME NEW e, Settle(e) PROVE InOrder
    BY <2>1, SettleExtends, SettleKeeps DEF IInv, QueueBeyondSettled
  <2>2. CASE Arrive \/ Expand \/ ExpandUnmapped
    BY <2>1, <2>2 DEF Arrive, Expand, ExpandUnmapped
  <2>3. CASE visited' = visited \/ visited' = NoEntries
    BY <2>3 DEF Settled, NoEntries
  <2>4. visited' = visited \/ visited' = NoEntries \/ Arrive \/ Expand \/ ExpandUnmapped
    BY DEF Next, Search, FindRoute, ClearVisited, ReturnTrivial, PopVisited, SkipNeighbour,
           PushNeighbour, Push, PopCurrent, Backtrack, ReturnPath
  <2> QED
    BY <2>2, <2>3, <2>4
<1> QED
  BY <1>1, Inductive, PTL DEF Spec, SettledInOrder
=============================================================================
