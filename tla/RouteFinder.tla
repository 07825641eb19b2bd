----------------------------- MODULE RouteFinder -----------------------------
(***************************************************************************)
(* RouteFinder::findRoute: Dijkstra's algorithm over the star map, with a  *)
(* std::priority_queue that is never updated in place.  A system may wait  *)
(* in the queue several times; the first time it reaches the top settles   *)
(* it (visited), and later copies are popped and dropped.                  *)
(*                                                                         *)
(* One finder serves call after call: the members vertexMap, visited and   *)
(* avoid outlive a call, the queue and the other locals do not.  Each      *)
(* action below is one pass through a loop body, in the order of the code, *)
(* because several of them read q.top() again after the queue has changed. *)
(***************************************************************************)
EXTENDS VertexMap, Sequences, FiniteSets

CONSTANTS
  Loaded,      \* the star maps the loaders may have built
  AvoidSets    \* the sets of tags a caller may ask to avoid

ASSUME LoadedAssumption ==
  \A vertices \in Loaded :
    IsVertexMap(vertices) /\ Closed(vertices) /\ IsFiniteSet(DOMAIN vertices)
ASSUME AvoidAssumption == \A tags \in AvoidSets : tags \subseteq Tag

VARIABLES
  vertexMap,   \* member: the star map, loaded once by the constructor
  visited,     \* member: settled system -> the system it was reached from
  avoid,       \* member: the tags to avoid in the current call
  start,       \* argument of the current call
  finish,      \* argument of the current call
  q,           \* local RouteQueue: the entries waiting to be popped
  curr,        \* local: the system being expanded
  rest,        \* local: neighbours of curr addNeighbours has yet to look at
  path,        \* local of getPath, then the value returned
  pc,          \* where the call stands
  dist         \* history only: the distance each visited system settled at

vars == <<vertexMap, visited, avoid, start, finish, q, curr, rest, path, pc, dist>>

(***************************************************************************)
(* Operators marked "Fault:" are not part of the model.  Each is one of    *)
(* its definitions with a slip a programmer could make; substituted for    *)
(* it, the slip must break the property that PROJECT.json names.           *)
(***************************************************************************)

(* A queue element pair<distance, pair<system, system it is reached from>>. *)
Entry(d, s, f) == [dist |-> d, sys |-> s, from |-> f]

(* Fault: the queue element leads with the system instead of the distance. *)
PrecedesBySystem(a, b) ==
  \/ a.sys < b.sys
  \/ a.sys = b.sys /\ (a.dist < b.dist \/ (a.dist = b.dist /\ a.from <= b.from))

(* operator< on those pairs, made reflexive. *)
Precedes(a, b) ==
  \/ a.dist < b.dist
  \/ /\ a.dist = b.dist
     /\ \/ a.sys < b.sys
        \/ a.sys = b.sys /\ a.from <= b.from

(* Fault: std::greater is left out, which makes a max-heap. *)
IsGreatest(e) == e \in q /\ \A other \in q : Precedes(other, e)

(***************************************************************************)
(* top() under std::greater: the least entry.  The queue is a set here:    *)
(* NoEntryWaitsTwice says that no entry is ever pushed while an equal one  *)
(* is waiting, so a multiset would hold each entry once.                   *)
(***************************************************************************)
IsTop(e) == e \in q /\ \A other \in q : Precedes(e, other)

Weight(from, to) == CalculateWeight(vertexMap[from][to], avoid)

Return(route) ==
  /\ pc' = "done"
  /\ path' = route
  /\ q' = {}

-----------------------------------------------------------------------------
(* The constructor has run the loaders; no call has been made yet. *)
Init ==
  /\ vertexMap \in Loaded
  /\ visited = NoEntries
  /\ avoid = {}
  /\ start = CHOOSE s \in System : TRUE
  /\ finish = start
  /\ curr = start
  /\ q = {}
  /\ rest = {}
  /\ path = << >>
  /\ pc = "idle"
  /\ dist = NoEntries

(* A call begins: the start is queued and the other locals are fresh. *)
BeginCall(s, f, tags, first) ==
  /\ pc \in {"idle", "done"}
  /\ start' = s
  /\ finish' = f
  /\ avoid' = tags
  /\ q' = {first}
  /\ curr' = s
  /\ rest' = {}
  /\ path' = << >>
  /\ pc' = IF s = f THEN "trivial" ELSE "loop"
  /\ UNCHANGED vertexMap

ClearVisited ==
  /\ visited' = NoEntries
  /\ dist' = NoEntries

(* Fault: insertNext is given the start before the distance. *)
FindRouteArgumentsSwapped(s, f, tags) ==
  BeginCall(s, f, tags, Entry(s, 0, s)) /\ ClearVisited

(* Fault: the member visited is not cleared between calls. *)
FindRouteKeepingVisited(s, f, tags) ==
  BeginCall(s, f, tags, Entry(0, s, s)) /\ UNCHANGED <<visited, dist>>

FindRoute(s, f, tags) ==
  BeginCall(s, f, tags, Entry(0, s, s)) /\ ClearVisited

(* start == finish: a route of one system, whether or not the map has it. *)
ReturnTrivial ==
  /\ pc = "trivial"
  /\ Return(<<start>>)
  /\ UNCHANGED <<vertexMap, visited, avoid, start, finish, curr, rest, dist>>

(* Fault: the first leftover copy is taken for an exhausted queue. *)
PopVisitedGivingUp ==
  /\ pc = "loop"
  /\ \E e \in q : IsTop(e) /\ e.sys \in DOMAIN visited
  /\ Return(<< >>)
  /\ UNCHANGED <<vertexMap, visited, avoid, start, finish, curr, rest, dist>>

(* visited.insert fails: the top is a leftover copy of a settled system.   *)
(* The inner loop drops it and gives up once the queue is exhausted.       *)
PopVisited ==
  /\ pc = "loop"
  /\ \E e \in q :
       /\ IsTop(e)
       /\ e.sys \in DOMAIN visited
       /\ \/ q = {e} /\ Return(<< >>)
          \/ q # {e} /\ q' = q \ {e} /\ UNCHANGED <<pc, path>>
  /\ UNCHANGED <<vertexMap, visited, avoid, start, finish, curr, rest, dist>>

(* Fault: whether the insertion succeeded is not looked at. *)
SettleAgain(e) ==
  /\ pc = "loop"
  /\ IsTop(e)
  /\ visited' = Insert(visited, e.sys, e.from)
  /\ dist' = Insert(dist, e.sys, e.dist)
  /\ UNCHANGED <<vertexMap, avoid, start, finish, q>>

(* visited.insert succeeds for the top of the queue. *)
Settle(e) ==
  /\ pc = "loop"
  /\ IsTop(e)
  /\ e.sys \notin DOMAIN visited
  /\ visited' = Insert(visited, e.sys, e.from)
  /\ dist' = Insert(dist, e.sys, e.dist)
  /\ UNCHANGED <<vertexMap, avoid, start, finish, q>>

(* Fault: the search stops once the destination waits anywhere in the queue. *)
ArriveEarly ==
  /\ pc = "loop"
  /\ \E e \in q :
       /\ e.sys = finish /\ e.sys \notin DOMAIN visited
       /\ visited' = Insert(visited, e.sys, e.from)
       /\ dist' = Insert(dist, e.sys, e.dist)
  /\ path' = <<finish>>
  /\ pc' = "path"
  /\ UNCHANGED <<vertexMap, avoid, start, finish, q, curr, rest>>

(* The destination is settled: getPath starts from it. *)
Arrive ==
  /\ \E e \in q :
       /\ Settle(e)
       /\ e.sys = finish
       /\ path' = <<finish>>
  /\ pc' = "path"
  /\ UNCHANGED <<curr, rest>>

(* Any other system is expanded: addNeighbours iterates over a copy of tos. *)
Expand ==
  /\ \E e \in q :
       /\ Settle(e)
       /\ e.sys # finish
       /\ e.sys \in DOMAIN vertexMap
       /\ curr' = e.sys
       /\ rest' = DOMAIN vertexMap[e.sys]
  /\ pc' = "relax"
  /\ UNCHANGED path

(***************************************************************************)
(* vertexMap.find(currSys) is end() and is dereferenced all the same.      *)
(* With libstdc++ the adjacency map copied from there overlays the header  *)
(* of visited, the next member, whose only node holds start: the copy      *)
(* either faults (SIGSEGV, handler, exit) or has start as its only key.    *)
(***************************************************************************)
ExpandUnmapped ==
  /\ \E e \in q :
       /\ Settle(e)
       /\ e.sys # finish
       /\ e.sys \notin DOMAIN vertexMap
       /\ curr' = e.sys
       /\ \/ pc' = "crashed" /\ rest' = {}
          \/ pc' = "relax" /\ rest' = {start}
  /\ UNCHANGED path

(* The next key of the adjacency map, in std::map order. *)
IsNextNeighbour(n) == n \in rest /\ \A m \in rest : n <= m

(* Fault: the iterator is not advanced past a settled neighbour. *)
SkipNeighbourStuck ==
  /\ pc = "relax"
  /\ \E n \in rest : IsNextNeighbour(n) /\ n \in DOMAIN visited
  /\ UNCHANGED vars

(* addNeighbours leaves out a neighbour that is settled already. *)
SkipNeighbour ==
  /\ pc = "relax"
  /\ \E n \in rest :
       /\ IsNextNeighbour(n)
       /\ n \in DOMAIN visited
       /\ rest' = rest \ {n}
  /\ UNCHANGED <<vertexMap, visited, avoid, start, finish, q, curr, path, pc, dist>>

(* A push of the next neighbour n, as the entry given. *)
Push(n, entry) ==
  /\ q' = q \cup {entry}
  /\ rest' = rest \ {n}
  /\ UNCHANGED <<vertexMap, visited, avoid, start, finish, curr, path, pc, dist>>

(* Fault: insertNext is given the system before the distance. *)
PushArgumentsSwapped ==
  /\ pc = "relax"
  /\ \E n \in rest, e \in q :
       /\ IsNextNeighbour(n) /\ n \notin DOMAIN visited /\ IsTop(e)
       /\ Push(n, Entry(n, e.dist + Weight(curr, n), curr))

(* Fault: the distance travelled so far is left out. *)
PushWeightOnly ==
  /\ pc = "relax"
  /\ \E n \in rest :
       /\ IsNextNeighbour(n) /\ n \notin DOMAIN visited
       /\ Push(n, Entry(Weight(curr, n), n, curr))

(* Fault: a neighbour that waits already is not queued by a shorter way. *)
PushUnlessWaiting ==
  /\ pc = "relax"
  /\ \E n \in rest, e \in q :
       /\ IsNextNeighbour(n) /\ n \notin DOMAIN visited /\ IsTop(e)
       /\ IF \E waiting \in q : waiting.sys = n
          THEN rest' = rest \ {n}
               /\ UNCHANGED <<vertexMap, visited, avoid, start, finish, q, curr, path, pc, dist>>
          ELSE Push(n, Entry(e.dist + Weight(curr, n), n, curr))

(* It queues any other one, at a distance read from the top of the queue. *)
PushNeighbour ==
  /\ pc = "relax"
  /\ \E n \in rest, e \in q :
       /\ IsNextNeighbour(n)
       /\ n \notin DOMAIN visited
       /\ IsTop(e)
       /\ Push(n, Entry(e.dist + Weight(curr, n), n, curr))

(* After addNeighbours the top is popped, in the belief that it is curr. *)
PopCurrent ==
  /\ pc = "relax"
  /\ rest = {}
  /\ \E e \in q :
       /\ IsTop(e)
       /\ \/ q = {e} /\ Return(<< >>)
          \/ q # {e} /\ q' = q \ {e} /\ pc' = "loop" /\ UNCHANGED path
  /\ UNCHANGED <<vertexMap, visited, avoid, start, finish, curr, rest, dist>>

(* The settled system that the last one of the path was reached from. *)
CameFrom == visited[path[Len(path)]]

(* getPath: one turn of the do-while that does not reach start yet. *)
Backtrack ==
  /\ pc = "path"
  /\ CameFrom # start
  /\ path' = Append(path, CameFrom)
  /\ UNCHANGED <<vertexMap, visited, avoid, start, finish, q, curr, rest, pc, dist>>

(* The turn that does: the path is reversed and returned. *)
Reversed(route) == [i \in 1 .. Len(route) |-> route[Len(route) + 1 - i]]

ReturnPath ==
  /\ pc = "path"
  /\ CameFrom = start
  /\ Return(Reversed(Append(path, start)))
  /\ UNCHANGED <<vertexMap, visited, avoid, start, finish, curr, rest, dist>>

Search ==
  \/ ReturnTrivial \/ PopVisited \/ Arrive \/ Expand \/ ExpandUnmapped
  \/ SkipNeighbour \/ PushNeighbour \/ PopCurrent \/ Backtrack \/ ReturnPath

Next ==
  \/ \E s, f \in System, tags \in AvoidSets : FindRoute(s, f, tags)
  \/ Search

(* The code of a call runs to its end once entered; nothing makes a call. *)
Spec == Init /\ [][Next]_vars /\ WF_vars(Search)

-----------------------------------------------------------------------------
Settled == DOMAIN visited

(* Type correctness of the members, the locals and the history. *)
TypeOK ==
  /\ IsVertexMap(vertexMap) /\ Closed(vertexMap)
  /\ visited \in [Settled -> System]
  /\ Settled \subseteq System
  /\ avoid \subseteq Tag
  /\ start \in System
  /\ finish \in System
  /\ q \subseteq [dist : Nat, sys : System, from : System]
  /\ curr \in System
  /\ rest \subseteq System
  /\ path \in Seq(System)
  /\ pc \in {"idle", "trivial", "loop", "relax", "path", "done", "crashed"}
  /\ dist \in [Settled -> Nat]

(***************************************************************************)
(* addNeighbours reads the distance of curr from q.top() while it pushes,  *)
(* and q.pop() is meant to remove curr afterwards: no push may overtake    *)
(* the entry of the system being expanded.                                 *)
(***************************************************************************)
CurrentStaysOnTop ==
  pc = "relax" =>
    /\ curr \in Settled
    /\ IsTop(Entry(dist[curr], curr, visited[curr]))

(* A hop from a to b that leaves b reached at the cost of a plus the hop.  *)
ReachedFrom(b, a) ==
  /\ a \in Settled \cap DOMAIN vertexMap
  /\ b \in DOMAIN vertexMap[a]
  /\ dist[b] = dist[a] + Weight(a, b)

(***************************************************************************)
(* What getPath relies on to come to an end and to walk a real route: the  *)
(* system that visited names as the predecessor of a settled system is     *)
(* settled too, is adjacent to it, and is nearer by exactly that hop.      *)
(***************************************************************************)
DistancesTight ==
  Settled # {} =>
    /\ start \in Settled
    /\ visited[start] = start
    /\ dist[start] = 0
    /\ \A s \in Settled \ {start} : ReachedFrom(s, visited[s])

(***************************************************************************)
(* The comment on findRoute's queue: its top is the closest system.  Hence *)
(* nothing that waits is nearer than anything that has been settled.       *)
(***************************************************************************)
QueueBeyondSettled ==
  \A e \in q, s \in Settled : dist[s] <= e.dist

(***************************************************************************)
(* No shortcut is ever lost.  Each hop out of an expanded system leads to  *)
(* a system settled no farther than that hop allows, to one that waits in  *)
(* the queue at such a distance, or has yet to be looked at.               *)
(***************************************************************************)
HopCovered(a, b) ==
  \/ b \in Settled /\ dist[b] <= dist[a] + Weight(a, b)
  \/ \E e \in q : e.sys = b /\ e.dist <= dist[a] + Weight(a, b)
  \/ pc = "relax" /\ a = curr /\ b \in rest

FrontierComplete ==
  pc \in {"loop", "relax"} =>
    \A a \in Settled \cap DOMAIN vertexMap : \A b \in DOMAIN vertexMap[a] : HopCovered(a, b)

(***************************************************************************)
(* An empty answer is a proof of unreachability: the settled systems hold  *)
(* the start, lack the destination and have no hop that leads out of them. *)
(***************************************************************************)
EmptyMeansUnreachable ==
  pc = "done" /\ path = << >> =>
    /\ start \in Settled
    /\ finish \notin Settled
    /\ \A s \in Settled \cap DOMAIN vertexMap : DOMAIN vertexMap[s] \subseteq Settled

(* A lower bound on the distance of every system once finish is settled.   *)
Potential(s) == IF s \in Settled THEN dist[s] ELSE dist[finish]

(***************************************************************************)
(* A route that is answered carries its own proof of optimality.  It goes  *)
(* from start to finish hop by hop along the map, the potential of start   *)
(* is 0 and grows along the route by exactly the weight of each hop, and   *)
(* no hop anywhere in the map raises the potential by more than its        *)
(* weight: no other route can weigh less than dist[finish].                *)
(***************************************************************************)
RouteCertified ==
  pc = "done" /\ path # << >> /\ start # finish =>
    /\ path[1] = start
    /\ path[Len(path)] = finish
    /\ start \in Settled /\ finish \in Settled
    /\ dist[start] = 0
    /\ \A i \in 1 .. Len(path) - 1 :
         path[i + 1] \in Settled /\ ReachedFrom(path[i + 1], path[i])
    /\ \A a \in DOMAIN vertexMap : \A b \in DOMAIN vertexMap[a] :
         Potential(b) <= Potential(a) + Weight(a, b)

(***************************************************************************)
(* Distances are C++ ints: whatever waits in the queue is no farther than  *)
(* one hop of the greatest weight for each system settled, so that no sum  *)
(* overflows while the number of systems times that weight fits an int.    *)
(***************************************************************************)
DistanceBounded ==
  \A e \in q : e.dist <= Cardinality(Settled) * MaxWeight

(***************************************************************************)
(* The queue is a std::priority_queue, a multiset: a set does for it as    *)
(* long as a neighbour about to be pushed does not already wait as reached *)
(* from the same system.                                                   *)
(***************************************************************************)
NoEntryWaitsTwice ==
  pc = "relax" =>
    \A n \in rest \ Settled : \A e \in q : ~(e.sys = n /\ e.from = curr)

(***************************************************************************)
(* Systems are settled in order of distance: a step never settles one that *)
(* is nearer than one settled before it.                                   *)
(***************************************************************************)
SettledInOrder ==
  [][\A s \in Settled, t \in Settled' \ Settled : dist[s] <= dist'[t]]_vars

(* The systems a call can come across: the map's, and the start it is given. *)
Places == DOMAIN vertexMap \cup {start}

(***************************************************************************)
(* How many steps a call may still take.  Each waiting entry costs a pop;  *)
(* each neighbour a look and, if it is pushed, the pop of its entry; each  *)
(* system still to be settled as much for every neighbour it may have; and *)
(* what getPath has not flown yet is at most once through all the systems. *)
(***************************************************************************)
StepsLeft ==
  LET all == Cardinality(Places)
      unsettled == Cardinality(Places \ Settled)
  IN  CASE pc = "trivial" -> 1
        [] pc \in {"loop", "relax"} ->
             Cardinality(q) + 2 * Cardinality(rest) + unsettled * (2 * all + 1) + all + 1
        [] pc = "path" -> all + 1 - Len(path)
        [] OTHER -> 0

(***************************************************************************)
(* findRoute has four loops and a queue that grows while it is emptied:    *)
(* a copy dropped, a neighbour looked at or a hop walked back always       *)
(* brings the call nearer to its end, which is therefore never more than   *)
(* StepsLeft steps away, a square of the number of systems.                *)
(***************************************************************************)
CallRunsDown ==
  [][pc \notin {"idle", "done"} => StepsLeft' \in Nat /\ StepsLeft' < StepsLeft]_vars

(***************************************************************************)
(* The comment on findRoute: "if no route is found, an empty vector is     *)
(* returned".  From a system the map lacks there is no route either.       *)
(***************************************************************************)
NoRouteReturnsEmpty == pc # "crashed"

(***************************************************************************)
(* The comment in calculateWeight: who avoids frigate holes is likely not  *)
(* to fit through, "so make it weigh lots".  Whatever waits in the queue   *)
(* as reached through an avoided frigate hole has paid that weight.        *)
(***************************************************************************)
AvoidedFrigateHole(a, b) ==
  a \in DOMAIN vertexMap /\ b \in DOMAIN vertexMap[a] /\ "Frigate" \in avoid \cap vertexMap[a][b]

FrigateWeighsLots ==
  \A e \in q :
    e.sys \notin Settled /\ e.from \in Settled /\ AvoidedFrigateHole(e.from, e.sys) =>
      e.dist >= dist[e.from] + AVOID_WEIGHT * AVOID_WEIGHT
=============================================================================
