----------------------------- MODULE PageProof -----------------------------
(***************************************************************************)
(* What the two star maps say, and what a page therefore says of a hop:    *)
(* the request loop's invariant put together with what loading amounts to. *)
(***************************************************************************)
EXTENDS RoutePlannerProof

FinderList ==
  JumpConnections \o TheraConnections(theraLoaded) \o NovaConnections(novaLoaded)
PageList ==
  JumpConnections \o (IF loadSiggy THEN NovaConnections(novaData) ELSE << >>)
                  \o TheraConnections(theraData)

(* Every connection is flown in one of three ways. *)
Way == {"Gate", "WH", "JB"}
WithWay == {c \in Connections : c.tags \cap Way # {}}

-----------------------------------------------------------------------------
LEMMA ItemOfList ==
  ASSUME NEW S, NEW list \in Seq(S), NEW i \in DOMAIN list
  PROVE  list[i] \in S
OBVIOUS

LEMMA ConnectionListed ==
  ASSUME NEW from \in System, NEW to \in System, NEW tags \in SUBSET ConnectionTag,
         tags \cap Way # {}
  PROVE  Connection(from, to, tags) \in WithWay
<1>1. Connection(from, to, tags) \in Connections
  BY DEF Connection, Connections
<1>2. Connection(from, to, tags).tags = tags
  BY DEF Connection
<1> QED
  BY <1>1, <1>2 DEF WithWay

LEMMA GatesListed ==
  /\ JumpConnections \in Seq(WithWay)
  /\ \A i \in DOMAIN JumpConnections : JumpConnections[i].tags = {"Gate"}
<1>1. DOMAIN Jumps = 1 .. Len(Jumps) /\ Len(Jumps) \in Nat
  BY SourcesAssumption
<1>2. ASSUME NEW i \in DOMAIN Jumps
      PROVE  Connection(Jumps[i].from, Jumps[i].to, {"Gate"}) \in WithWay
  <2>1. Jumps[i] \in [from : System, to : System]
    BY ItemOfList, SourcesAssumption
  <2>2. {"Gate"} \in SUBSET ConnectionTag /\ {"Gate"} \cap Way # {}
    BY DEF ConnectionTag, Way
  <2> QED
    BY <2>1, <2>2, ConnectionListed
<1>3. JumpConnections \in Seq(WithWay)
  BY <1>1, <1>2 DEF JumpConnections
<1>4. ASSUME NEW i \in DOMAIN JumpConnections
      PROVE  JumpConnections[i].tags = {"Gate"}
  BY DEF JumpConnections, Connection
<1> QED
  BY <1>3, <1>4

LEMMA TheraListed ==
  ASSUME NEW thera \in TheraAnswers
  PROVE  TheraConnections(thera) \in Seq(WithWay)
<1>1. thera.exits \in Seq(System)
  BY TheraAssumption
<1>2. DOMAIN thera.exits = 1 .. Len(thera.exits) /\ Len(thera.exits) \in Nat
  BY <1>1
<1>3. ASSUME NEW i \in DOMAIN thera.exits
      PROVE  Connection(TheraId, thera.exits[i], {"Thera", "JS", "WH"}) \in WithWay
  <2>1. thera.exits[i] \in System
    BY <1>1, <1>2
  <2>2. {"Thera", "JS", "WH"} \in SUBSET ConnectionTag /\ {"Thera", "JS", "WH"} \cap Way # {}
    BY DEF ConnectionTag, Way
  <2>3. TheraId \in System
    BY SourcesAssumption
  <2> QED
    BY <2>1, <2>2, <2>3, ConnectionListed
<1> QED
  BY <1>2, <1>3 DEF TheraConnections

LEMMA NovaListed ==
  ASSUME NEW nova \in NovaAnswers
  PROVE  NovaConnections(nova) \in Seq(WithWay)
<1> DEFINE holes == [i \in DOMAIN nova.holes |->
                       Connection(nova.holes[i].from, nova.holes[i].to, HoleTags(nova.holes[i]))]
           bridges == [i \in DOMAIN nova.bridges |->
                         Connection(nova.bridges[i].from, nova.bridges[i].to, {"JB"})]
           Holes == [from : System, to : System, frigate : BOOLEAN, eol : BOOLEAN,
                     mass : {"0", "1", "2"}]
<1>1. nova.holes \in Seq(Holes) /\ nova.bridges \in Seq([from : System, to : System])
  BY NovaAssumption
<1>2. /\ DOMAIN nova.holes = 1 .. Len(nova.holes) /\ Len(nova.holes) \in Nat
      /\ DOMAIN nova.bridges = 1 .. Len(nova.bridges) /\ Len(nova.bridges) \in Nat
  BY <1>1
<1>3. ASSUME NEW hole \in Holes
      PROVE  Connection(hole.from, hole.to, HoleTags(hole)) \in WithWay
  <2>1. HoleTags(hole) \in SUBSET ConnectionTag /\ "WH" \in HoleTags(hole)
    BY DEF HoleTags, ConnectionTag
  <2>2. HoleTags(hole) \cap Way # {} /\ hole.from \in System /\ hole.to \in System
    BY <2>1 DEF Way
  <2> QED
    BY <2>1, <2>2, ConnectionListed
<1>4. ASSUME NEW bridge \in [from : System, to : System]
      PROVE  Connection(bridge.from, bridge.to, {"JB"}) \in WithWay
  <2>1. {"JB"} \in SUBSET ConnectionTag /\ {"JB"} \cap Way # {}
    BY DEF ConnectionTag, Way
  <2>2. bridge.from \in System /\ bridge.to \in System
    OBVIOUS
  <2> QED
    BY <2>1, <2>2, ConnectionListed
<1>5. holes \in Seq(WithWay)
  <2> HIDE DEF Holes
  <2>1. \A i \in DOMAIN nova.holes : nova.holes[i] \in Holes
    BY <1>1, ItemOfList
  <2> QED
    BY <1>2, <1>3, <2>1
<1>6. bridges \in Seq(WithWay)
  <2>1. \A i \in DOMAIN nova.bridges : nova.bridges[i] \in [from : System, to : System]
    BY <1>1, ItemOfList
  <2> QED
    BY <1>2, <1>4, <2>1
<1> HIDE DEF holes, bridges
<1>7. holes \o bridges \in Seq(WithWay)
  BY <1>5, <1>6
<1> QED
  BY <1>7 DEF NovaConnections, holes, bridges

LEMMA AreConnections ==
  ASSUME NEW list \in Seq(WithWay)
  PROVE  list \in Seq(Connections)
BY DEF WithWay

-----------------------------------------------------------------------------
LEMMA GateMapExplained == Explained(JumpConnections, GateMap)
<1>1. JumpConnections \in Seq(Connections) /\ << >> \in Seq(Connections)
  BY GatesListed, AreConnections
<1>2. Explained(<< >> \o JumpConnections, GateMap)
  BY <1>1, EmptyExplained, LoadExplained DEF GateMap
<1>3. << >> \o JumpConnections = JumpConnections
  BY <1>1
<1> QED
  BY <1>2, <1>3

LEMMA FinderExplained ==
  ASSUME PlannerInv, Started
  PROVE  FinderList \in Seq(WithWay) /\ Explained(FinderList, vertexMap)
<1> DEFINE J == JumpConnections
           T == TheraConnections(theraLoaded)
           N == NovaConnections(novaLoaded)
<1>1. theraLoaded \in TheraAnswers /\ novaLoaded \in NovaAnswers
  BY DEF PlannerInv, DataInv
<1>2. J \in Seq(WithWay) /\ T \in Seq(WithWay) /\ N \in Seq(WithWay)
  BY <1>1, GatesListed, TheraListed, NovaListed
<1>3. J \in Seq(Connections) /\ T \in Seq(Connections) /\ N \in Seq(Connections)
  BY <1>2, AreConnections
<1>4. vertexMap = Load(Load(GateMap, T), N)
  BY DEF PlannerInv, MapsInv
<1> HIDE DEF J, T, N
<1>5. J \o T \in Seq(Connections)
  BY <1>3
<1>6. Explained(J, GateMap)
  BY GateMapExplained DEF J
<1>7. Explained(J \o T, Load(GateMap, T))
  BY <1>3, <1>6, LoadExplained
<1>8. Explained((J \o T) \o N, Load(Load(GateMap, T), N))
  BY <1>3, <1>5, <1>7, LoadExplained
<1>9. (J \o T) \o N \in Seq(WithWay)
  BY <1>2
<1> QED
  BY <1>4, <1>8, <1>9 DEF FinderList, J, T, N

LEMMA PageExplained ==
  ASSUME PlannerInv, pc \in {"route", "print"}, verdict = "valid"
  PROVE  PageList \in Seq(WithWay) /\ Explained(PageList, connections)
<1> DEFINE J == JumpConnections
           N == IF loadSiggy THEN NovaConnections(novaData) ELSE << >>
           T == TheraConnections(theraData)
<1>1. theraData \in TheraAnswers /\ novaData \in NovaAnswers
  BY DEF PlannerInv, DataInv
<1>2. J \in Seq(WithWay) /\ T \in Seq(WithWay) /\ N \in Seq(WithWay)
  <2>1. << >> \in Seq(WithWay)
    OBVIOUS
  <2> QED
    BY <1>1, <2>1, GatesListed, TheraListed, NovaListed
<1>3. J \in Seq(Connections) /\ T \in Seq(Connections) /\ N \in Seq(Connections)
  BY <1>2, AreConnections
<1>4. connections = Load(ChainMap, T)
  BY DEF PlannerInv, MapsInv
<1>5. Explained(J, GateMap)
  BY GateMapExplained
<1>6. Explained(J \o N, ChainMap)
  <2>1. CASE loadSiggy
    BY <1>3, <1>5, <2>1, LoadExplained DEF ChainMap
  <2>2. CASE ~loadSiggy
    <3>1. J \o N = J
      BY <1>3, <2>2
    <3> QED
      BY <1>5, <2>2, <3>1 DEF ChainMap
  <2> QED
    BY <2>1, <2>2
<1> HIDE DEF J, N, T
<1>7. J \o N \in Seq(Connections)
  BY <1>3
<1>8. Explained((J \o N) \o T, Load(ChainMap, T))
  BY <1>3, <1>6, <1>7, LoadExplained
<1>9. (J \o N) \o T \in Seq(WithWay)
  BY <1>2
<1> QED
  BY <1>4, <1>8, <1>9 DEF PageList, J, N, T

-----------------------------------------------------------------------------
(* Two systems that a list joins are joined in the map it explains.        *)
LEMMA EdgeOfList ==
  ASSUME NEW list \in Seq(WithWay), NEW m, Explained(list, m), NEW a, NEW b, Joined(list, a, b)
  PROVE  /\ a \in DOMAIN m /\ b \in DOMAIN m[a]
         /\ \E tags : FirstHas(list, a, b, tags) /\ m[a][b] = {TypeOf[b]} \cup tags
<1>1. PICK i \in DOMAIN list : Joins(list[i], a, b)
  BY DEF Joined
<1>2. list[i] \in Connections
  <2>1. list[i] \in WithWay
    BY ItemOfList
  <2> QED
    BY <2>1 DEF WithWay
<1>3. b \in System
  BY <1>1, <1>2 DEF Joins, Connections
<1>4. a \in DOMAIN m
  BY <1>1 DEF Joins, Explained, Says
<1>5. b \in DOMAIN m[a]
  BY <1>3, <1>4 DEF Explained, Says
<1> QED
  BY <1>4, <1>5 DEF Explained, Says

LEMMA ListOfEdge ==
  ASSUME NEW list, NEW m, Explained(list, m), NEW a \in DOMAIN m, NEW b \in DOMAIN m[a]
  PROVE  Joined(list, a, b)
BY DEF Explained, Says

LEMMA FirstHasWay ==
  ASSUME NEW list \in Seq(WithWay), NEW a, NEW b, NEW tags, FirstHas(list, a, b, tags)
  PROVE  tags \cap Way # {}
<1>1. PICK i \in DOMAIN list : tags = list[i].tags
  BY DEF FirstHas
<1>2. list[i] \in WithWay
  BY ItemOfList
<1> QED
  BY <1>1, <1>2 DEF WithWay

LEMMA FirstOfGates ==
  ASSUME NEW a, NEW b, NEW tags, FirstHas(JumpConnections, a, b, tags)
  PROVE  tags = {"Gate"}
BY GatesListed DEF FirstHas

(* What a row shows of the connection it is reached by. *)
Unshown == {"HS", "LS", "NS", "JS", "Thera"}
Shown(a, b) == GetConnectionType(a, b) \ Unshown

LEMMA JoinedIsShown ==
  ASSUME PlannerInv, pc = "print", verdict = "valid", NEW a, NEW b, Joined(PageList, a, b)
  PROVE  Shown(a, b) # {}
<1>1. PageList \in Seq(WithWay) /\ Explained(PageList, connections)
  BY PageExplained
<1>2. /\ a \in DOMAIN connections /\ b \in DOMAIN connections[a]
      /\ \E tags : FirstHas(PageList, a, b, tags) /\ connections[a][b] = {TypeOf[b]} \cup tags
  BY <1>1, EdgeOfList
<1>3. PICK tags : FirstHas(PageList, a, b, tags) /\ connections[a][b] = {TypeOf[b]} \cup tags
  BY <1>2
<1>4. tags \cap Way # {}
  BY <1>1, <1>3, FirstHasWay
<1>5. GetConnectionType(a, b) = {TypeOf[b]} \cup tags
  BY <1>2, <1>3 DEF GetConnectionType
<1> QED
  BY <1>4, <1>5 DEF Shown, Unshown, Way

LEMMA GateIsShown ==
  ASSUME PlannerInv, pc = "print", verdict = "valid",
         NEW j \in DOMAIN Jumps, NEW a, NEW b, {Jumps[j].from, Jumps[j].to} = {a, b}
  PROVE  Shown(a, b) = {"Gate"}
<1> DEFINE behind == (IF loadSiggy THEN NovaConnections(novaData) ELSE << >>)
                     \o TheraConnections(theraData)
<1>1. PageList \in Seq(WithWay) /\ Explained(PageList, connections)
  BY PageExplained
<1>2. Joined(JumpConnections, a, b)
  BY DEF Joined, Joins, JumpConnections, Connection
<1>3. /\ JumpConnections \in Seq(Connections) /\ behind \in Seq(Connections)
      /\ PageList = JumpConnections \o behind
  <2> DEFINE N == IF loadSiggy THEN NovaConnections(novaData) ELSE << >>
             T == TheraConnections(theraData)
  <2>1. theraData \in TheraAnswers /\ novaData \in NovaAnswers
    BY DEF PlannerInv, DataInv
  <2>2. N \in Seq(WithWay) /\ T \in Seq(WithWay)
    BY <2>1, TheraListed, NovaListed
  <2>3. JumpConnections \in Seq(Connections) /\ N \in Seq(Connections) /\ T \in Seq(Connections)
    BY <2>2, GatesListed, AreConnections
  <2> HIDE DEF N, T
  <2>4. N \o T \in Seq(Connections) /\ JumpConnections \o (N \o T) = (JumpConnections \o N) \o T
    BY <2>3
  <2> QED
    BY <2>3, <2>4 DEF PageList, N, T
<1> HIDE DEF behind
<1>4. Joined(PageList, a, b)
  BY <1>2, <1>3, JoinedInBoth
<1>5. /\ a \in DOMAIN connections /\ b \in DOMAIN connections[a]
      /\ \E tags : FirstHas(PageList, a, b, tags) /\ connections[a][b] = {TypeOf[b]} \cup tags
  BY <1>1, <1>4, EdgeOfList
<1>6. PICK tags : FirstHas(PageList, a, b, tags) /\ connections[a][b] = {TypeOf[b]} \cup tags
  BY <1>5
<1>7. FirstHas(JumpConnections, a, b, tags)
  BY <1>2, <1>3, <1>6, FirstInBoth
<1>8. tags = {"Gate"}
  BY <1>7, FirstOfGates
<1>9. TypeOf[b] \in Unshown
  <2>1. Jumps[j] \in [from : Known, to : Known]
    BY ItemOfList, DatabaseAssumption
  <2>2. b \in Known
    BY <2>1
  <2>3. TypeOf[b] \in SystemType /\ TypeOf[b] # ""
    BY <2>2, TypeAssumption DEF Known
  <2> QED
    BY <2>3 DEF SystemType, Unshown
<1>10. GetConnectionType(a, b) = {TypeOf[b]} \cup {"Gate"}
  BY <1>5, <1>6, <1>8 DEF GetConnectionType
<1> QED
  BY <1>9, <1>10 DEF Shown, Unshown

(* While Siggy says what it said to the loaders, the two lists differ only *)
(* in the order of the chain and Thera's exits.                            *)
LEMMA TwoOrders ==
  ASSUME PlannerInv, Started, pc \in {"route", "print"}, verdict = "valid", loadSiggy,
         novaData = novaLoaded, theraData = theraLoaded, NEW a, NEW b
  PROVE  LET J == JumpConnections
             N == NovaConnections(novaData)
             T == TheraConnections(theraData)
         IN  /\ Joined(FinderList, a, b) <=> Joined(J, a, b) \/ Joined(T, a, b) \/ Joined(N, a, b)
             /\ Joined(PageList, a, b) <=> Joined(J, a, b) \/ Joined(N, a, b) \/ Joined(T, a, b)
             /\ \A t : FirstHas(FinderList, a, b, t) <=>
                         \/ FirstHas(J, a, b, t)
                         \/ ~Joined(J, a, b) /\ FirstHas(T, a, b, t)
                         \/ ~Joined(J, a, b) /\ ~Joined(T, a, b) /\ FirstHas(N, a, b, t)
             /\ \A t : FirstHas(PageList, a, b, t) <=>
                         \/ FirstHas(J, a, b, t)
                         \/ ~Joined(J, a, b) /\ FirstHas(N, a, b, t)
                         \/ ~Joined(J, a, b) /\ ~Joined(N, a, b) /\ FirstHas(T, a, b, t)
<1> DEFINE J == JumpConnections
           N == NovaConnections(novaData)
           T == TheraConnections(theraData)
<1>1. theraData \in TheraAnswers /\ novaData \in NovaAnswers
  BY DEF PlannerInv, DataInv
<1>2. J \in Seq(Connections) /\ T \in Seq(Connections) /\ N \in Seq(Connections)
  BY <1>1, GatesListed, TheraListed, NovaListed, AreConnections
<1>3. FinderList = (J \o T) \o N /\ PageList = (J \o N) \o T
  BY DEF FinderList, PageList
<1> HIDE DEF J, N, T
<1>4. J \o T \in Seq(Connections) /\ J \o N \in Seq(Connections)
  BY <1>2
<1>5. /\ Joined(J \o T, a, b) <=> Joined(J, a, b) \/ Joined(T, a, b)
      /\ Joined(J \o N, a, b) <=> Joined(J, a, b) \/ Joined(N, a, b)
      /\ Joined((J \o T) \o N, a, b) <=> Joined(J \o T, a, b) \/ Joined(N, a, b)
      /\ Joined((J \o N) \o T, a, b) <=> Joined(J \o N, a, b) \/ Joined(T, a, b)
  BY <1>2, <1>4, JoinedInBoth
<1>6. ASSUME NEW t
      PROVE  /\ FirstHas(J \o T, a, b, t) <=>
                  FirstHas(J, a, b, t) \/ (~Joined(J, a, b) /\ FirstHas(T, a, b, t))
             /\ FirstHas(J \o N, a, b, t) <=>
                  FirstHas(J, a, b, t) \/ (~Joined(J, a, b) /\ FirstHas(N, a, b, t))
             /\ FirstHas((J \o T) \o N, a, b, t) <=>
                  FirstHas(J \o T, a, b, t) \/ (~Joined(J \o T, a, b) /\ FirstHas(N, a, b, t))
             /\ FirstHas((J \o N) \o T, a, b, t) <=>
                  FirstHas(J \o N, a, b, t) \/ (~Joined(J \o N, a, b) /\ FirstHas(T, a, b, t))
  BY <1>2, <1>4, FirstInBoth
<1> QED
  BY <1>3, <1>5, <1>6 DEF J, N, T

LEMMA SameJoined ==
  ASSUME PlannerInv, Started, pc \in {"route", "print"}, verdict = "valid", loadSiggy,
         novaData = novaLoaded, theraData = theraLoaded, NEW a, NEW b, Joined(FinderList, a, b)
  PROVE  Joined(PageList, a, b)
BY TwoOrders

LEMMA SameFirst ==
  ASSUME PlannerInv, Started, pc \in {"route", "print"}, verdict = "valid", loadSiggy,
         novaData = novaLoaded, theraData = theraLoaded, NEW a, NEW b, NEW t,
         ~(Joined(NovaConnections(novaData), a, b) /\ Joined(TheraConnections(theraData), a, b)),
         FirstHas(FinderList, a, b, t)
  PROVE  FirstHas(PageList, a, b, t)
<1>1. /\ FirstHas(NovaConnections(novaData), a, b, t) => Joined(NovaConnections(novaData), a, b)
      /\ FirstHas(TheraConnections(theraData), a, b, t) => Joined(TheraConnections(theraData), a, b)
  BY FirstIsJoined
<1> QED
  BY <1>1, TwoOrders

-----------------------------------------------------------------------------
(* A page is kept, taken back, or printed. *)
LEMMA PageSteps ==
  ASSUME [PlannerNext]_plannerVars
  PROVE  \/ PrintPage
         \/ page' = Unprinted
         \/ page' = page /\ (pc' = "accept" => pc = "loadNova")
         \/ UNCHANGED plannerVars
<1>1. CASE Accept
  BY <1>1 DEF Accept
<1>2. CASE Setup \/ DieOfData \/ Reload \/ FindRoute \/ Stop
  BY <1>2 DEF Setup, DieOfData, Reload, ReloadGates, Rename, ReloadNova, ReloadThera, FindRoute, Stop
<1>3. CASE Ask
  BY <1>3 DEF Ask, StartNova, StartThera, LoadThera, LoadNova, UpdateNova, UpdateThera, Fetch
<1> QED
  BY <1>1, <1>2, <1>3 DEF PlannerNext, Compute

(* The rows are the systems of the route, each with what it is reached by. *)
LEMMA RowsOfPath ==
  ASSUME PlannerInv, PrintPage
  PROVE  /\ pc = "print" /\ pc' = "accept"
         /\ Len(page'.rows) >= 2 => verdict = "valid"
         /\ \A i \in 2 .. Len(page'.rows) :
              /\ path[i - 1] \in DOMAIN vertexMap /\ path[i] \in DOMAIN vertexMap[path[i - 1]]
              /\ page'.rows[i - 1].sys = path[i - 1] /\ page'.rows[i].sys = path[i]
              /\ page'.rows[i].tags = Shown(path[i - 1], path[i])
<1>1. pc = "print" /\ pc' = "accept" /\ page'.rows = [i \in DOMAIN path |-> Row(i)]
  BY DEF PrintPage
<1>2. /\ path \in Seq(DOMAIN vertexMap \cup {GetSID(start)})
      /\ path = << >> \/ (verdict = "valid" /\ Leads(path))
  BY <1>1 DEF PlannerInv, PathInv
<1>3. DOMAIN path = 1 .. Len(path) /\ Len(path) \in Nat
  BY <1>2
<1>4. page'.rows = [i \in 1 .. Len(path) |-> Row(i)] /\ Len(page'.rows) = Len(path)
  BY <1>1, <1>3
<1>5. ASSUME NEW i \in 2 .. Len(path)
      PROVE  /\ path[i - 1] \in DOMAIN vertexMap /\ path[i] \in DOMAIN vertexMap[path[i - 1]]
             /\ page'.rows[i - 1].sys = path[i - 1] /\ page'.rows[i].sys = path[i]
             /\ page'.rows[i].tags = Shown(path[i - 1], path[i])
  <2>1. page'.rows[i - 1] = Row(i - 1) /\ page'.rows[i] = Row(i)
    BY <1>3, <1>4
  <2>2. Row(i - 1).sys = path[i - 1] /\ Row(i).sys = path[i]
    BY DEF Row
  <2>3. Row(i).tags = Shown(path[i - 1], path[i])
    BY <1>3 DEF Row, Shown, Unshown
  <2>4. path # << >>
    BY <1>3
  <2>5. path[i - 1] \in DOMAIN vertexMap /\ path[i] \in DOMAIN vertexMap[path[i - 1]]
    BY <1>2, <2>4 DEF Leads
  <2> QED
    BY <2>1, <2>2, <2>3, <2>5
<1>6. Len(path) >= 2 => verdict = "valid"
  BY <1>2
<1> QED
  BY <1>1, <1>4, <1>5, <1>6

-----------------------------------------------------------------------------
(* The map that is searched says what the sources said at the start, for   *)
(* skies of any size (the constructor of RouteFinder and addConnection).   *)
THEOREM FinderMapRight == PlannerSpec => []FinderMapExplained
<1>1. PlannerInv => FinderMapExplained
  <2> SUFFICES ASSUME PlannerInv, Started
               PROVE  WellFormed(vertexMap) /\ Explains(FinderList, vertexMap)
    BY DEF FinderMapExplained, FinderList
  <2> QED
    BY FinderExplained, ExplainsSays DEF Explained
<1> QED
  BY LoopInvariant, <1>1, PTL

(* The map hops are described from says what Siggy said last, and nothing  *)
(* it said before (Connections::clearAllConnections and the reload).       *)
THEOREM DescriptionsRight == PlannerSpec => []DescriptionsFresh
<1>1. PlannerInv => DescriptionsFresh
  <2> SUFFICES ASSUME PlannerInv, pc \in {"route", "print"}, verdict = "valid"
               PROVE  WellFormed(connections) /\ Explains(PageList, connections)
    BY DEF DescriptionsFresh, PageList
  <2> QED
    BY PageExplained, ExplainsSays DEF Explained
<1> QED
  BY LoopInvariant, <1>1, PTL

(* Whatever else joins the two systems of a gate, the gates were loaded    *)
(* first and the page says "Gate" (loadJumpConnections, then the others).  *)
THEOREM GatesRight == PlannerSpec => []GatesShownAsGates
<1>1. PlannerInit => GatesShownAsGates
  BY DEF PlannerInit, Unprinted, GatesShownAsGates
<1>2. PlannerInv /\ GatesShownAsGates /\ [PlannerNext]_plannerVars => GatesShownAsGates'
  <2> SUFFICES ASSUME PlannerInv, GatesShownAsGates, [PlannerNext]_plannerVars
               PROVE  GatesShownAsGates'
    OBVIOUS
  <2>1. CASE PrintPage
    <3>1. ASSUME NEW i \in 2 .. Len(page'.rows), NEW j \in DOMAIN Jumps,
                 {Jumps[j].from, Jumps[j].to} = {page'.rows[i - 1].sys, page'.rows[i].sys}
          PROVE  page'.rows[i].tags = {"Gate"}
      <4>1. Len(page'.rows) >= 2
        BY <3>1
      <4>2. pc = "print" /\ verdict = "valid"
        BY <2>1, <4>1, RowsOfPath
      <4>3. /\ page'.rows[i - 1].sys = path[i - 1] /\ page'.rows[i].sys = path[i]
            /\ page'.rows[i].tags = Shown(path[i - 1], path[i])
        BY <2>1, RowsOfPath
      <4> QED
        BY <3>1, <4>2, <4>3, GateIsShown
    <3> QED
      BY <3>1 DEF GatesShownAsGates
  <2>2. CASE page' = Unprinted
    BY <2>2 DEF GatesShownAsGates, Unprinted
  <2>3. CASE page' = page
    BY <2>3 DEF GatesShownAsGates
  <2> QED
    BY <2>1, <2>2, <2>3, PageSteps DEF plannerVars
<1> QED
  BY LoopInvariant, <1>1, <1>2, PTL DEF PlannerSpec

(* While the chain and Thera are what they were at the start, the reload   *)
(* finds every connection the search can have used.                        *)
THEOREM UnchangedRight == PlannerSpec => []UnchangedChainDescribed
<1>1. PlannerInit => UnchangedChainDescribed
  BY DEF PlannerInit, Unprinted, UnchangedChainDescribed
<1>2. PlannerInv /\ UnchangedChainDescribed /\ [PlannerNext]_plannerVars => UnchangedChainDescribed'
  <2> SUFFICES ASSUME PlannerInv, UnchangedChainDescribed, [PlannerNext]_plannerVars
               PROVE  UnchangedChainDescribed'
    OBVIOUS
  <2>1. CASE PrintPage
    <3>1. UNCHANGED <<loadSiggy, novaData, theraData, novaLoaded, theraLoaded>>
      BY <2>1 DEF PrintPage, siggyVars, loaderVars
    <3>2. ASSUME NEW i \in 2 .. Len(page'.rows),
                 loadSiggy, novaData = novaLoaded, theraData = theraLoaded
          PROVE  page'.rows[i].tags # {}
      <4>1. Len(page'.rows) >= 2
        BY <3>2
      <4>2. pc = "print" /\ verdict = "valid"
        BY <2>1, <4>1, RowsOfPath
      <4>3. /\ path[i - 1] \in DOMAIN vertexMap /\ path[i] \in DOMAIN vertexMap[path[i - 1]]
            /\ page'.rows[i].tags = Shown(path[i - 1], path[i])
        BY <2>1, RowsOfPath
      <4>4. Started
        BY <4>2 DEF Started
      <4>5. Joined(FinderList, path[i - 1], path[i])
        BY <4>3, <4>4, FinderExplained, ListOfEdge
      <4>6. Joined(PageList, path[i - 1], path[i])
        BY <3>2, <4>2, <4>4, <4>5, SameJoined
      <4> QED
        BY <4>2, <4>3, <4>6, JoinedIsShown
    <3> QED
      BY <3>1, <3>2 DEF UnchangedChainDescribed
  <2>2. CASE page' = Unprinted
    BY <2>2 DEF UnchangedChainDescribed, Unprinted
  <2>3. CASE page' = page /\ (pc' = "accept" => pc = "loadNova")
    <3>1. pc' = "accept" => page = Unprinted
      BY <2>3 DEF PlannerInv, ControlInv, Starting
    <3> QED
      BY <2>3, <3>1 DEF UnchangedChainDescribed, Unprinted
  <2>4. CASE UNCHANGED plannerVars
    BY <2>4 DEF UnchangedChainDescribed, plannerVars, siggyVars, loaderVars
  <2> QED
    BY <2>1, <2>2, <2>3, <2>4, PageSteps
<1> QED
  BY LoopInvariant, <1>1, <1>2, PTL DEF PlannerSpec

(* The two maps are filled in different orders; of a connection that not   *)
(* both the chain and Thera name, they have the same tags all the same.    *)
THEOREM TagsRight == PlannerSpec => []TagsAgree
<1>1. PlannerInv => TagsAgree
  <2> SUFFICES ASSUME PlannerInv, pc \in {"route", "print"}, verdict = "valid", loadSiggy,
                      novaData = novaLoaded, theraData = theraLoaded,
                      NEW a \in DOMAIN vertexMap, NEW b \in DOMAIN vertexMap[a],
                      ~(Joined(NovaConnections(novaData), a, b) /\ Joined(TheraConnections(theraData), a, b))
               PROVE  connections[a][b] = vertexMap[a][b]
    BY DEF TagsAgree, Names, Joined
  <2>1. Started
    BY DEF Started
  <2>2. FinderList \in Seq(WithWay) /\ Explained(FinderList, vertexMap)
    BY <2>1, FinderExplained
  <2>3. PageList \in Seq(WithWay) /\ Explained(PageList, connections)
    BY PageExplained
  <2>4. Joined(FinderList, a, b)
    BY <2>2, ListOfEdge
  <2>5. Joined(PageList, a, b)
    BY <2>1, <2>4, SameJoined
  <2>6. PICK t : FirstHas(FinderList, a, b, t) /\ vertexMap[a][b] = {TypeOf[b]} \cup t
    BY <2>2, <2>4, EdgeOfList
  <2>7. PICK u : FirstHas(PageList, a, b, u) /\ connections[a][b] = {TypeOf[b]} \cup u
    BY <2>3, <2>5, EdgeOfList
  <2>8. FirstHas(PageList, a, b, t)
    BY <2>1, <2>6, SameFirst
  <2>9. t = u
    BY <2>3, <2>7, <2>8, AreConnections, FirstIsOne
  <2> QED
    BY <2>6, <2>7, <2>9
<1> QED
  BY LoopInvariant, <1>1, PTL

-----------------------------------------------------------------------------
(* What the parser leaves: tags, and systems if the request is valid. *)
AskedInv ==
  /\ avoidSet \subseteq Tag
  /\ verdict = "valid" => GetSID(start) \in System

(* Each map is what some list of connections says, at every moment. *)
Listed(m) == \E list \in Seq(Connections) : Explained(list, m)

StateInv ==
  /\ AskedInv
  /\ loadSiggy \in BOOLEAN
  /\ Listed(vertexMap) /\ Listed(connections)
  /\ DOMAIN nicknames \subseteq Known
  /\ path \in Seq(System)
  /\ page.printed \in BOOLEAN

LEMMA ReceiveAsks ==
  ASSUME NEW r, Receive(r)
  PROVE  AskedInv'
<1>1. ASSUME NEW avoidMap PROVE GetAvoidSet(avoidMap) \subseteq Tag
  <2>1. ASSUME NEW name, NEW value, NEW tag \in Tag PROVE Line(name, value, tag).tag \in Tag
    BY DEF Line
  <2>2. /\ "Frigate" \in Tag /\ "Reduced" \in Tag /\ "Crit" \in Tag /\ "EOL" \in Tag
        /\ "WH" \in Tag /\ "JB" \in Tag /\ "HS" \in Tag /\ "LS" \in Tag /\ "NS" \in Tag
        /\ "JS" \in Tag /\ "Thera" \in Tag
    BY DEF Tag, SystemType, ConnectionTag
  <2>3. \A line \in AvoidLines : line.tag \in Tag
    BY <2>1, <2>2 DEF AvoidLines
  <2> QED
    BY <2>3 DEF GetAvoidSet
<1>2. ASSUME NEW s, NEW f, Verdict(s, f) = "valid" PROVE GetSID(s) \in System
  <2>1. s # "" /\ GetSID(s) # NoSID
    BY <1>2 DEF Verdict
  <2>2. \/ GetSID(s) = SIDOf["j105934"]
        \/ Lower[s] \in DOMAIN SIDOf /\ GetSID(s) = SIDOf[Lower[s]]
    BY <2>1, Zenon DEF GetSID
  <2> QED
    BY <2>2, ParserAssumption, DatabaseAssumption
<1>3. CASE r.uri = "favicon"
  BY <1>3 DEF Receive, Take, AskedInv
<1>4. CASE r.uri # "favicon"
  <2>1. PICK parsed :
          /\ start' = parsed.start
          /\ avoidSet' = GetAvoidSet(parsed.avoidMap)
          /\ verdict' = Verdict(parsed.start, parsed.finish)
    BY <1>4 DEF Receive, Take
  <2>2. GetSID(start)' = GetSID(parsed.start)
    BY <2>1 DEF GetSID
  <2> QED
    BY <1>1, <1>2, <2>1, <2>2 DEF AskedInv
<1> QED
  BY <1>3, <1>4

LEMMA LoadListed ==
  ASSUME NEW m, Listed(m), NEW list \in Seq(WithWay)
  PROVE  Listed(Load(m, list))
<1>1. PICK done \in Seq(Connections) : Explained(done, m)
  BY DEF Listed
<1>2. list \in Seq(Connections)
  BY AreConnections
<1>3. done \o list \in Seq(Connections)
  BY <1>2
<1>4. Explained(done \o list, Load(m, list))
  BY <1>1, <1>2, LoadExplained
<1> QED
  BY <1>3, <1>4 DEF Listed

LEMMA EmptyListed == Listed(NoEntries)
<1>1. << >> \in Seq(Connections)
  OBVIOUS
<1> QED
  BY <1>1, EmptyExplained DEF Listed

LEMMA GateMapListed == Listed(GateMap)
BY EmptyListed, GatesListed, LoadListed DEF GateMap

LEMMA StateInitInv == PlannerInit => StateInv
<1> SUFFICES ASSUME PlannerInit PROVE StateInv
  OBVIOUS
<1>1. << >> \in Seq(System) /\ DOMAIN NoEntries = {} /\ Unprinted.printed \in BOOLEAN
  BY DEF NoEntries, Unprinted
<1> QED
  BY <1>1, EmptyListed DEF PlannerInit, ParserInit, StateInv, AskedInv

LEMMA StateNextInv ==
  ASSUME PlannerInv, StateInv, [PlannerNext]_plannerVars
  PROVE  StateInv'
<1> USE DEF StateInv
<1>1. ASSUME UNCHANGED parserVars PROVE AskedInv'
  BY <1>1 DEF AskedInv, parserVars, GetSID
<1>2. ASSUME vertexMap' = vertexMap PROVE Listed(vertexMap)'
  BY <1>2 DEF Listed
<1>3. ASSUME connections' = connections PROVE Listed(connections)'
  BY <1>3 DEF Listed
<1>4. ASSUME NEW nova PROVE DOMAIN Renamed(nova) \subseteq Known
  BY DEF Renamed, NamedAnew
<1>5. CASE Accept
  <2>1. AskedInv'
    BY <1>5, ReceiveAsks DEF Accept
  <2>2. Listed(connections')
    BY <1>5, EmptyListed DEF Accept
  <2>3. << >> \in Seq(System) /\ Unprinted.printed \in BOOLEAN
    BY DEF Unprinted
  <2> QED
    BY <1>2, <1>5, <2>1, <2>2, <2>3 DEF Accept, loaderVars
<1>6. CASE Setup
  <2>1. Listed(vertexMap') /\ Listed(connections')
    BY <1>6, GateMapListed DEF Setup, GateMap
  <2> QED
    BY <1>1, <1>4, <1>6, <2>1 DEF Setup
<1>7. CASE LoadThera
  <2>1. Listed(vertexMap')
    BY <1>2, <1>7, LoadListed, TheraListed DEF LoadThera
  <2> QED
    BY <1>1, <1>3, <1>7, <2>1 DEF LoadThera
<1>8. CASE LoadNova
  <2>1. Listed(vertexMap')
    BY <1>2, <1>8, LoadListed, NovaListed DEF LoadNova
  <2> QED
    BY <1>1, <1>3, <1>8, <2>1 DEF LoadNova
<1>9. CASE ReloadGates
  <2>1. Gates \in Seq(WithWay)
    BY GatesListed DEF Gates
  <2>2. Listed(connections')
    BY <1>9, <2>1, LoadListed DEF ReloadGates
  <2> QED
    BY <1>1, <1>2, <1>9, <2>2 DEF ReloadGates, loaderVars
<1>10. CASE Rename
  BY <1>1, <1>2, <1>3, <1>4, <1>10 DEF Rename, loaderVars
<1>11. CASE ReloadNova
  <2>1. Listed(connections')
    BY <1>11, LoadListed, NovaListed DEF ReloadNova, PlannerInv, DataInv
  <2> QED
    BY <1>1, <1>2, <1>11, <2>1 DEF ReloadNova, loaderVars
<1>12. CASE ReloadThera
  <2>1. theraData \in TheraAnswers
    <3>1. ~IsObject(Nothing)
      BY DEF IsObject, Nothing
    <3> QED
      BY <1>12, <3>1 DEF ReloadThera, PlannerInv, DataInv
  <2>2. Listed(connections')
    BY <1>12, <2>1, LoadListed, TheraListed DEF ReloadThera
  <2> QED
    BY <1>1, <1>2, <1>12, <2>2 DEF ReloadThera, loaderVars
<1>13. CASE FindRoute
  <2>1. path' \in Seq(System)
    <3>1. CASE path' = path
      BY <3>1
    <3>2. CASE path' \in Finder!RightAnswers
      <4>1. DOMAIN vertexMap \subseteq System
        BY DEF Listed, Explained, WellFormed, IsVertexMap
      <4>2. GetSID(start) \in System
        BY <1>13 DEF AskedInv, FindRoute, PlannerInv, ControlInv, Serving
      <4>3. path' \in Seq(DOMAIN vertexMap \cup {GetSID(start)})
        BY <3>2, AnswersLead
      <4> QED
        BY <4>1, <4>2, <4>3
    <3> QED
      BY <1>13, <3>1, <3>2 DEF FindRoute
  <2> QED
    BY <1>1, <1>2, <1>3, <1>13, <2>1 DEF FindRoute, loaderVars
<1>14. CASE DieOfData \/ PrintPage \/ Stop
  <2>1. page'.printed \in BOOLEAN
    <3>1. CASE PrintPage
      BY <3>1 DEF PrintPage
    <3>2. CASE DieOfData \/ Stop
      BY <3>2 DEF DieOfData, Stop
    <3> QED
      BY <1>14, <3>1, <3>2
  <2>2. UNCHANGED <<parserVars, loaderVars, connections, nicknames, path>>
    BY <1>14 DEF DieOfData, PrintPage, Stop
  <2> QED
    BY <1>1, <1>2, <1>3, <2>1, <2>2 DEF loaderVars
<1>15. CASE StartNova \/ StartThera \/ UpdateNova \/ UpdateThera
  BY <1>1, <1>2, <1>3, <1>15 DEF StartNova, StartThera, UpdateNova, UpdateThera, loaderVars
<1>16. CASE UNCHANGED plannerVars
  BY <1>1, <1>2, <1>3, <1>16 DEF plannerVars, loaderVars
<1> QED
  BY <1>5, <1>6, <1>7, <1>8, <1>9, <1>10, <1>11, <1>12, <1>13, <1>14, <1>15, <1>16
     DEF PlannerNext, Compute, Reload, Ask

(* The values every variable may have; nobody writes a system that is not  *)
(* there into a map, a route or the nicknames.                             *)
THEOREM PlannerTyped == PlannerSpec => []PlannerTypeOK
<1>1. PlannerInit => StateInv
  BY StateInitInv
<1>2. PlannerInv /\ StateInv /\ [PlannerNext]_plannerVars => StateInv'
  BY StateNextInv
<1>3. PlannerInv /\ StateInv => PlannerTypeOK
  <2> SUFFICES ASSUME PlannerInv, StateInv PROVE PlannerTypeOK
    OBVIOUS
  <2>1. IsVertexMap(vertexMap) /\ IsVertexMap(connections)
    BY DEF StateInv, Listed, Explained, WellFormed
  <2>2. handles \in 0 .. MaxOpen
    BY MaxOpenAssumption DEF PlannerInv, HandlesInv
  <2>3. /\ pc \in {"startNova", "startThera", "setup", "loadThera", "loadNova", "accept", "updateNova",
                   "updateThera", "reload", "rename", "reloadNova", "reloadThera", "route", "print",
                   "dead", "stopped"}
        /\ verdict \in {"none", "favicon", "valid", "invalid"}
    BY DEF PlannerInv, ControlInv, Starting, Serving
  <2> QED
    BY <2>1, <2>2, <2>3 DEF PlannerTypeOK, StateInv, AskedInv, PlannerInv, DataInv
<1> QED
  BY LoopInvariant, <1>1, <1>2, <1>3, PTL DEF PlannerSpec
=============================================================================
