------------------------------ MODULE Sources ------------------------------
(***************************************************************************)
(* Where connections come from: the gates in the database, the wormholes   *)
(* and jump bridges of the corporation's chain, and the exits of Thera,    *)
(* the last two as Siggy reports them.  What a loader does with one source *)
(* is given as the list of connections it adds, in the order it adds them. *)
(*                                                                         *)
(* A JSON object is a std::map from key to value, so its members come in   *)
(* the order of their keys; a sequence stands for it.  Siggy writes an     *)
(* object without members as an array: the wormholes or the jump bridges   *)
(* are then skipped, an empty sequence here, while in the place of Thera's *)
(* exits it makes get_obj() throw as a null does, and counts as Nothing.   *)
(***************************************************************************)
EXTENDS VertexMap, Sequences, SequencesExt

CONSTANTS
  Jumps,     \* mapSolarSystemJumps: a sequence of [from, to]
  TheraId    \* 31000005

ASSUME SourcesAssumption ==
  /\ TheraId \in System
  /\ Jumps \in Seq([from : System, to : System])

Connection(from, to, tags) == [from |-> from, to |-> to, tags |-> tags]

(* What Siggy::getData comes back with when there is no JSON object to use. *)
Nothing == [kind |-> "null"]

(* Siggy answers with a JSON object; anything else makes get_obj() throw.  *)
IsObject(data) == data.kind = "object"

(***************************************************************************)
(* The chain: its wormholes, its jump bridges, and the names its members   *)
(* have given to systems.                                                  *)
(***************************************************************************)
NovaData(holes, bridges, names) ==
  [kind |-> "object", holes |-> holes, bridges |-> bridges, names |-> names]

TheraData(exits) == [kind |-> "object", exits |-> exits]

(* A wormhole of the chain; mass is "0", "1" (reduced) or "2" (critical). *)
Hole(from, to, frigate, eol, mass) ==
  [from |-> from, to |-> to, frigate |-> frigate, eol |-> eol, mass |-> mass]

HoleTags(hole) ==
  {"WH"} \cup (IF hole.frigate THEN {"Frigate"} ELSE {})
         \cup (IF hole.eol THEN {"EOL"} ELSE {})
         \cup (IF hole.mass = "1" THEN {"Reduced"} ELSE {})
         \cup (IF hole.mass = "2" THEN {"Crit"} ELSE {})

-----------------------------------------------------------------------------
JumpConnections ==
  [i \in DOMAIN Jumps |-> Connection(Jumps[i].from, Jumps[i].to, {"Gate"})]

NovaConnections(nova) ==
  [i \in DOMAIN nova.holes |->
     Connection(nova.holes[i].from, nova.holes[i].to, HoleTags(nova.holes[i]))]
  \o [i \in DOMAIN nova.bridges |->
        Connection(nova.bridges[i].from, nova.bridges[i].to, {"JB"})]

TheraConnections(thera) ==
  [i \in DOMAIN thera.exits |-> Connection(TheraId, thera.exits[i], {"Thera", "JS", "WH"})]

(* A loader adds its connections one after the other. *)
Load(vertices, connections) ==
  LET upTo[i \in 0 .. Len(connections)] ==
        IF i = 0 THEN vertices
        ELSE AddConnection(upTo[i - 1], connections[i].from, connections[i].to, connections[i].tags)
  IN  upTo[Len(connections)]

-----------------------------------------------------------------------------
(***************************************************************************)
(* What loading amounts to, without the loading: two systems are joined if *)
(* some connection joins them, and the first one in the list, whichever    *)
(* way round it is written, gives the tags.                                *)
(***************************************************************************)
Joins(c, a, b) == (c.from = a /\ c.to = b) \/ (c.from = b /\ c.to = a)

Explains(connections, vertices) ==
  /\ DOMAIN vertices = UNION {{connections[i].from, connections[i].to} : i \in DOMAIN connections}
  /\ \A a \in DOMAIN vertices :
       /\ DOMAIN vertices[a] =
            {b \in System : \E i \in DOMAIN connections : Joins(connections[i], a, b)}
       /\ \A b \in DOMAIN vertices[a] :
            \E i \in DOMAIN connections :
              /\ Joins(connections[i], a, b)
              /\ \A j \in 1 .. i - 1 : ~Joins(connections[j], a, b)
              /\ vertices[a][b] = {TypeOf[b]} \cup connections[i].tags
=============================================================================
