--------------------------- MODULE ConnectionTags ---------------------------
(***************************************************************************)
(* The vocabulary of the router: the tags a connection carries, the order  *)
(* std::set<std::string> iterates them in, and the weight the search gives *)
(* to a connection once the user has named the tags to avoid.              *)
(***************************************************************************)
EXTENDS Integers

CONSTANTS
  BASE_WEIGHT,   \* weight of a connection nobody wants to avoid (1 in the code)
  AVOID_WEIGHT   \* weight of an avoided connection (100 in the code)

(***************************************************************************)
(* The search relies on weights being positive: a connection of weight 0   *)
(* could be popped before the system it was pushed from.                   *)
(***************************************************************************)
ASSUME WeightAssumption ==
  /\ BASE_WEIGHT \in Nat \ {0}
  /\ AVOID_WEIGHT \in Nat \ {0}

(* What SystemInfo::getType answers; "" stands for a system it does not know. *)
SystemType == {"", "HS", "LS", "NS", "JS", "Thera"}

(* What the loaders attach to a connection besides the type of its far end. *)
ConnectionTag ==
  {"Gate", "WH", "JB", "Thera", "JS", "Frigate", "EOL", "Reduced", "Crit"}

Tag == SystemType \cup ConnectionTag

(***************************************************************************)
(* Lexicographic rank of each tag: the order in which a std::set iterates. *)
(***************************************************************************)
Rank ==
  [t \in Tag |->
     CASE t = ""        -> 0 [] t = "Crit" -> 1 [] t = "EOL" -> 2
       [] t = "Frigate" -> 3 [] t = "Gate" -> 4 [] t = "HS"  -> 5
       [] t = "JB"      -> 6 [] t = "JS"   -> 7 [] t = "LS"  -> 8
       [] t = "NS"      -> 9 [] t = "Reduced" -> 10
       [] t = "Thera"   -> 11 [] t = "WH"  -> 12]

(* The first of the given tags in iteration order. *)
FirstOf(tags) == CHOOSE t \in tags : \A u \in tags : Rank[t] <= Rank[u]

(***************************************************************************)
(* calculateWeight walks the tags to avoid in order and lets the first one *)
(* the connection carries decide.                                          *)
(***************************************************************************)
CalculateWeight(types, avoidTags) ==
  LET hits == avoidTags \cap types
  IN  CASE hits = {} -> BASE_WEIGHT
        [] hits # {} /\ FirstOf(hits) = "Frigate" -> AVOID_WEIGHT * AVOID_WEIGHT
        [] OTHER -> AVOID_WEIGHT

(* The most a single connection can weigh. *)
MaxWeight ==
  IF BASE_WEIGHT > AVOID_WEIGHT * AVOID_WEIGHT
  THEN BASE_WEIGHT ELSE AVOID_WEIGHT * AVOID_WEIGHT
=============================================================================
