--------------------------- MODULE ShortestRoute ---------------------------
(***************************************************************************)
(* What the route finder promises its caller, with no word on how: a call  *)
(* names two systems and the tags to avoid, and the answer is one of the   *)
(* routes of least total weight, or no route when there is none.  The one  *)
(* way not to answer is to die searching from a system the map lacks.      *)
(***************************************************************************)
EXTENDS VertexMap, Sequences, SequencesExt

CONSTANTS Loaded, AvoidSets

VARIABLES
  vertexMap,   \* the star map, fixed
  start,       \* the question ...
  finish,
  avoid,
  status,      \* "waiting", "asked", "answered" or "dead"
  answer       \* the route answered

vars == <<vertexMap, start, finish, avoid, status, answer>>

-----------------------------------------------------------------------------
(* The routes from one system to another that fly no system twice.         *)
Hop(a, b) == a \in DOMAIN vertexMap /\ b \in DOMAIN vertexMap[a]

SimpleRoutes(from, to) ==
  {route \in UNION {[1 .. n -> DOMAIN vertexMap] : n \in 1 .. Cardinality(DOMAIN vertexMap)} :
     /\ route[1] = from
     /\ route[Len(route)] = to
     /\ IsInjective(route)
     /\ \A i \in 1 .. Len(route) - 1 : Hop(route[i], route[i + 1])}

(* The total weight of a route. *)
Cost(route) ==
  LET upTo[i \in 1 .. Len(route)] ==
        IF i = 1 THEN 0
        ELSE upTo[i - 1] + CalculateWeight(vertexMap[route[i - 1]][route[i]], avoid)
  IN  upTo[Len(route)]

(* Weights are positive, so a route of least weight flies no system twice. *)
BestRoutes(from, to) ==
  LET routes == SimpleRoutes(from, to)
  IN  {best \in routes : \A other \in routes : Cost(best) <= Cost(other)}

-----------------------------------------------------------------------------
Init ==
  /\ vertexMap \in Loaded
  /\ start \in System
  /\ finish = start
  /\ avoid = {}
  /\ status = "waiting"
  /\ answer = << >>

Ask ==
  /\ status \in {"waiting", "answered"}
  /\ start' \in System
  /\ finish' \in System
  /\ avoid' \in AvoidSets
  /\ status' = "asked"
  /\ answer' = << >>
  /\ UNCHANGED vertexMap

(* Nobody needs the map to stay where they are. *)
RightAnswers ==
  LET best == BestRoutes(start, finish)
  IN  CASE start = finish -> {<<start>>}
        [] start # finish /\ best = {} -> {<< >>}
        [] OTHER -> best

Reply ==
  /\ status = "asked"
  /\ status' = "answered"
  /\ answer' \in RightAnswers
  /\ UNCHANGED <<vertexMap, start, finish, avoid>>

MayDie == start # finish /\ start \notin DOMAIN vertexMap

Die ==
  /\ status = "asked"
  /\ MayDie
  /\ status' = "dead"
  /\ UNCHANGED <<vertexMap, start, finish, avoid, answer>>

Next == Ask \/ Reply \/ Die

(* Every question is settled one way or the other. *)
EveryQuestionSettled == status = "asked" ~> status \in {"answered", "dead"}

SafeSpec == Init /\ [][Next]_vars
Spec == SafeSpec /\ EveryQuestionSettled
=============================================================================
