----------------------- MODULE RouteFinderRefinement -----------------------
(***************************************************************************)
(* Dijkstra's search, seen by a caller who only watches the call and the   *)
(* answer, is ShortestRoute.  The queue, the settled systems and the path  *)
(* under construction are hidden; pc and path give the status and answer.  *)
(***************************************************************************)
EXTENDS RouteFinder

callStatus ==
  CASE pc = "idle" -> "waiting"
    [] pc = "done" -> "answered"
    [] pc = "crashed" -> "dead"
    [] OTHER -> "asked"

Promise ==
  INSTANCE ShortestRoute
    WITH status <- callStatus, answer <- IF pc = "done" THEN path ELSE << >>

(* Whatever findRoute returns is a least-weight route for this call's      *)
(* arguments, or empty only if there is none; it dies only searching from  *)
(* an unmapped start.  Earlier calls of the same finder make no difference.*)
AnswersAreShortest == Promise!SafeSpec

(* And every call comes to one of those ends. *)
EveryCallEnds == Promise!EveryQuestionSettled
=============================================================================
