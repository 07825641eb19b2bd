-------------------------- MODULE ConnectionsRoute --------------------------
(***************************************************************************)
(* Connections::getRouteDijkstra, the search that findRoute took over from *)
(* and that RoutePlanner.cpp still names in a comment, as a function of    *)
(* the map and the question.  Nothing calls it now; it is the reference    *)
(* its successor can be held against.                                      *)
(***************************************************************************)
EXTENDS RouteFinderRefinement

(* The finder's BASE_WEIGHT is what calculateWeight writes as 1 here. *)
ASSUME BaseAssumption == BASE_WEIGHT = 1

(* Fault: a frigate hole weighs what any avoided connection does. *)
WeightBeforeAlike(types, avoidTags) == IF avoidTags \cap types = {} THEN 1 ELSE AVOID_WEIGHT

(* Connections::calculateWeight, a second copy with a 1 of its own. *)
WeightBefore(types, avoidTags) ==
  LET hits == avoidTags \cap types
  IN  CASE hits = {} -> 1
        [] hits # {} /\ FirstOf(hits) = "Frigate" -> AVOID_WEIGHT * AVOID_WEIGHT
        [] OTHER -> AVOID_WEIGHT

TopOf(queue) == CHOOSE e \in queue : \A other \in queue : Precedes(e, other)

(* The inner while has popped every visited system that was on top. *)
Undropped(queue, visitedBefore) ==
  {e \in queue :
     \E other \in queue : other.sys \notin DOMAIN visitedBefore /\ Precedes(other, e)}

(* The neighbours are pushed in their order; each push reads the top anew. *)
Filled(queue, destinations, visitedBefore, avoidTags) ==
  LET filled[pushed \in SUBSET (DOMAIN destinations \ DOMAIN visitedBefore)] ==
        IF pushed = {} THEN queue
        ELSE LET n == CHOOSE n \in pushed : \A m \in pushed : m <= n
                 before == filled[pushed \ {n}]
                 top == TopOf(before)
             IN  before \cup {Entry(top.dist + WeightBefore(destinations[n], avoidTags), n, top.sys)}
  IN  filled[DOMAIN destinations \ DOMAIN visitedBefore]

(* One turn of the outer while, unless it is the last one. *)
Turn(s, connections, to, avoidTags) ==
  LET left == Undropped(s.queue, s.visited)
      top == TopOf(left)
      now == Insert(s.visited, top.sys, top.from)
      filled == Filled(left, connections[top.sys], now, avoidTags)
  IN  IF left = {} \/ top.sys = to THEN s
      ELSE [queue |-> filled \ {TopOf(filled)}, visited |-> now]

(* Every turn visits one more system, so there are no more than limit. *)
AfterTurns(connections, from, to, avoidTags, limit) ==
  LET after[n \in 0 .. limit] ==
        IF n = 0 THEN [queue |-> {Entry(0, from, from)}, visited |-> NoEntries]
        ELSE Turn(after[n - 1], connections, to, avoidTags)
  IN  after[limit]

(* The do-while follows visited back to the start; the route is reversed. *)
WalkBack(visitedBefore, from, to, limit) ==
  LET back[i \in 1 .. limit] == IF i = 1 THEN to ELSE visitedBefore[back[i - 1]]
      length == CHOOSE k \in 2 .. limit : back[k] = from /\ \A i \in 2 .. k - 1 : back[i] # from
  IN  [i \in 1 .. length |-> back[length + 1 - i]]

GetRouteDijkstra(connections, from, to, avoidTags) ==
  LET limit == Cardinality(DOMAIN connections)
      last == AfterTurns(connections, from, to, avoidTags, limit)
      left == Undropped(last.queue, last.visited)
  IN  CASE from = to -> <<from>>
        [] from # to /\ left = {} -> << >>
        [] OTHER -> WalkBack(Insert(last.visited, to, TopOf(left).from), from, to, limit)

-----------------------------------------------------------------------------
(***************************************************************************)
(* What findRoute answers, hop for hop, is what the search it replaced     *)
(* would have answered in the same map, ties included: wherever that one   *)
(* is defined, which is where the start is in the map.                     *)
(***************************************************************************)
SameAsBefore ==
  pc = "done" /\ (start = finish \/ start \in DOMAIN vertexMap) =>
    path = GetRouteDijkstra(vertexMap, start, finish, avoid)
=============================================================================
