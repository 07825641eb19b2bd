------------------------------ MODULE VertexMap ------------------------------
(***************************************************************************)
(* The star map the router searches: VertexMap is a std::map from a system *)
(* to its Vertex, and a Vertex holds a std::map from each neighbouring     *)
(* system to the tags of the connection to it.  Vertex::from always equals *)
(* the key and is never read, so a vertex is its adjacency map here.       *)
(***************************************************************************)
EXTENDS ConnectionTags

CONSTANTS
  System,   \* the system identifiers in play (C++ ints)
  TypeOf    \* SystemInfo::getType as a function on them

ASSUME SystemAssumption == System \subseteq Int /\ System # {}
ASSUME TypeAssumption == TypeOf \in [System -> SystemType]

(* std::map::insert: an entry that is already there is left as it is. *)
Insert(m, k, v) ==
  [x \in DOMAIN m \cup {k} |-> IF x \in DOMAIN m THEN m[x] ELSE v]

(* A default-constructed std::map. *)
NoEntries == [x \in {} |-> {}]

(* Fault: the last word on a connection counts, not the first. *)
AddEdgeOverwriting(tos, to, types) ==
  [x \in DOMAIN tos \cup {to} |-> IF x = to THEN types ELSE tos[x]]

AddEdge(tos, to, types) == Insert(tos, to, types)

(***************************************************************************)
(* addConnection makes both vertices if need be, then one edge each way;   *)
(* every edge carries the type of the system it leads to.                  *)
(***************************************************************************)
AddConnection(vertices, from, to, tags) ==
  LET known == Insert(Insert(vertices, from, NoEntries), to, NoEntries)
      forth == [known EXCEPT ![from] = AddEdge(@, to, {TypeOf[to]} \cup tags)]
  IN  [forth EXCEPT ![to] = AddEdge(@, from, {TypeOf[from]} \cup tags)]

IsVertexMap(vertices) ==
  /\ DOMAIN vertices \subseteq System
  /\ \A s \in DOMAIN vertices :
       /\ DOMAIN vertices[s] \subseteq System
       /\ \A t \in DOMAIN vertices[s] : vertices[s][t] \subseteq Tag

(* Every edge leads to a vertex, so the search never looks up a missing one. *)
Closed(vertices) ==
  \A s \in DOMAIN vertices : DOMAIN vertices[s] \subseteq DOMAIN vertices

(* A connection can be flown both ways. *)
Symmetric(vertices) ==
  \A s, t \in DOMAIN vertices : t \in DOMAIN vertices[s] <=> s \in DOMAIN vertices[t]

(* Every edge names the type of its far end and both directions of a       *)
(* connection agree on everything else.                                    *)
TaggedAlike(vertices) ==
  \A s \in DOMAIN vertices : \A t \in DOMAIN vertices[s] :
    /\ TypeOf[t] \in vertices[s][t]
    /\ vertices[s][t] \cup {TypeOf[s]} = vertices[t][s] \cup {TypeOf[t]}

(* What the loaders promise the search. *)
WellFormed(vertices) ==
  /\ IsVertexMap(vertices)
  /\ Closed(vertices)
  /\ Symmetric(vertices)
  /\ TaggedAlike(vertices)
=============================================================================
