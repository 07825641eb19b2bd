------------------------- MODULE RoutePlannerProof -------------------------
(***************************************************************************)
(* The request loop, for any sky, any requests and anything Siggy may say: *)
(* where each of the two star maps comes from, that a page answers its own *)
(* request, and that names are those of the present chain.  What loading a *)
(* list of connections amounts to is not looked into here.  Before that,   *)
(* what the loop takes from the URI of a request.                          *)
(***************************************************************************)
EXTENDS RoutePlanner, LoadProof

(***************************************************************************)
(* What parseURI makes of a URI with any number of arguments, and that     *)
(* nothing of an earlier request takes part in it.                         *)
(***************************************************************************)
Parsed == [start |-> "", finish |-> "", avoidMap |-> [name \in {} |-> ""]]

(* What has been parsed after each argument. *)
Turns(g, args, n) ==
  g = [i \in 0 .. n |-> IF i = 0 THEN Parsed ELSE Absorb(g[i - 1], args[i])]

LEMMA TurnsExist ==
  ASSUME NEW args, NEW n \in Nat
  PROVE  \E g : Turns(g, args, n)
<1> DEFINE good == {k \in 0 .. n : \E g : Turns(g, args, k)}
<1>1. 0 \in good
  <2>1. Turns([i \in 0 .. 0 |-> Parsed], args, 0)
    BY DEF Turns
  <2> QED
    BY <2>1
<1>2. ASSUME NEW k \in 0 .. n - 1, k \in good
      PROVE  k + 1 \in good
  <2>1. PICK g : Turns(g, args, k)
    BY <1>2
  <2> DEFINE next == Absorb(g[k], args[k + 1])
             h == [i \in 0 .. k + 1 |-> IF i = k + 1 THEN next ELSE g[i]]
  <2>2. \A i \in 0 .. k : g[i] = IF i = 0 THEN Parsed ELSE Absorb(g[i - 1], args[i])
    BY <2>1 DEF Turns
  <2>3. ASSUME NEW i \in 0 .. k + 1
        PROVE  h[i] = IF i = 0 THEN Parsed ELSE Absorb(h[i - 1], args[i])
    <3>1. CASE i = k + 1
      <4>1. h[i] = next /\ h[i - 1] = g[k] /\ i # 0
        BY <3>1
      <4> QED
        BY <3>1, <4>1
    <3>2. CASE i # k + 1 /\ i # 0
      <4>1. i \in 0 .. k /\ h[i] = g[i] /\ h[i - 1] = g[i - 1]
        BY <3>2
      <4> QED
        BY <2>2, <3>2, <4>1
    <3>3. CASE i = 0
      BY <2>2, <3>3
    <3> QED
      BY <3>1, <3>2, <3>3
  <2>4. Turns(h, args, k + 1)
    <3> HIDE DEF h, next
    <3>1. h = [i \in 0 .. k + 1 |-> h[i]]
      BY DEF h
    <3> QED
      BY <2>3, <3>1 DEF Turns
  <2> QED
    BY <2>4
<1> HIDE DEF good
<1>3. n \in good
  BY <1>1, <1>2, UpTo
<1> QED
  BY <1>3 DEF good

LEMMA ParseIsLastTurn ==
  ASSUME NEW args, Len(args) \in Nat
  PROVE  \E g : Turns(g, args, Len(args)) /\ ParseURI(args, "", "") = g[Len(args)]
<1> DEFINE f == CHOOSE g : Turns(g, args, Len(args))
<1>1. Turns(f, args, Len(args))
  BY TurnsExist
<1>2. ParseURI(args, "", "") = f[Len(args)]
  BY DEF ParseURI, Turns, Parsed
<1> QED
  BY <1>1, <1>2

-----------------------------------------------------------------------------
(* First and last among the first k arguments. *)
FirstTo(args, k, name, value) ==
  \E i \in 1 .. k :
    /\ Gives(args[i], name) /\ args[i][2] = value
    /\ \A j \in 1 .. i - 1 : ~Gives(args[j], name)

LastTo(args, k, name, value) ==
  \/ value = "" /\ \A i \in 1 .. k : ~Gives(args[i], name)
  \/ \E i \in 1 .. k :
       /\ Gives(args[i], name) /\ args[i][2] = value
       /\ \A j \in i + 1 .. k : ~Gives(args[j], name)

(* What has been parsed tells of the first k arguments. *)
Tells(parsed, args, k) ==
  /\ LastTo(args, k, "start", parsed.start)
  /\ LastTo(args, k, "finish", parsed.finish)
  /\ \A name : name \in DOMAIN parsed.avoidMap <=> \E i \in 1 .. k : Gives(args[i], name)
  /\ \A name \in DOMAIN parsed.avoidMap : FirstTo(args, k, name, parsed.avoidMap[name])

LEMMA LastStep ==
  ASSUME NEW args, NEW k \in Nat, NEW name, NEW value, LastTo(args, k, name, value)
  PROVE  LastTo(args, k + 1, name,
                IF Gives(args[k + 1], name) THEN args[k + 1][2] ELSE value)
<1>1. CASE Gives(args[k + 1], name)
  <2>1. k + 1 \in 1 .. k + 1 /\ \A j \in (k + 1) + 1 .. k + 1 : FALSE
    OBVIOUS
  <2> QED
    BY <1>1, <2>1 DEF LastTo
<1>2. CASE ~Gives(args[k + 1], name)
  <2>1. CASE value = "" /\ \A i \in 1 .. k : ~Gives(args[i], name)
    <3>1. ASSUME NEW i \in 1 .. k + 1 PROVE ~Gives(args[i], name)
      <4>1. i = k + 1 \/ i \in 1 .. k
        OBVIOUS
      <4> QED
        BY <1>2, <2>1, <4>1
    <3> QED
      BY <1>2, <2>1, <3>1 DEF LastTo
  <2>2. ASSUME NEW i \in 1 .. k, Gives(args[i], name), args[i][2] = value,
               \A j \in i + 1 .. k : ~Gives(args[j], name)
        PROVE  LastTo(args, k + 1, name, value)
    <3>1. i \in 1 .. k + 1
      OBVIOUS
    <3>2. ASSUME NEW j \in i + 1 .. k + 1 PROVE ~Gives(args[j], name)
      <4>1. j = k + 1 \/ j \in i + 1 .. k
        OBVIOUS
      <4> QED
        BY <1>2, <2>2, <4>1
    <3> QED
      BY <2>2, <3>1, <3>2 DEF LastTo
  <2> QED
    BY <1>2, <2>1, <2>2 DEF LastTo
<1> QED
  BY <1>1, <1>2

LEMMA FirstStep ==
  ASSUME NEW args, NEW k \in Nat, NEW name, NEW value
  PROVE  /\ FirstTo(args, k, name, value) => FirstTo(args, k + 1, name, value)
         /\ Gives(args[k + 1], name) /\ (\A i \in 1 .. k : ~Gives(args[i], name)) =>
              FirstTo(args, k + 1, name, args[k + 1][2])
<1>1. 1 .. k \subseteq 1 .. k + 1 /\ k + 1 \in 1 .. k + 1 /\ (k + 1) - 1 = k
  OBVIOUS
<1> QED
  BY <1>1 DEF FirstTo

LEMMA AbsorbTells ==
  ASSUME NEW args, NEW k \in Nat, NEW parsed, Tells(parsed, args, k)
  PROVE  Tells(Absorb(parsed, args[k + 1]), args, k + 1)
<1> DEFINE arg == args[k + 1]
           new == Absorb(parsed, arg)
<1>1. CASE Len(arg) # 2
  <2>1. new = parsed /\ \A name : ~Gives(arg, name)
    BY <1>1 DEF Absorb, Gives
  <2>2. /\ LastTo(args, k + 1, "start", parsed.start)
        /\ LastTo(args, k + 1, "finish", parsed.finish)
    BY <2>1, LastStep DEF Tells
  <2>3. \A name : (\E i \in 1 .. k + 1 : Gives(args[i], name)) <=> (\E i \in 1 .. k : Gives(args[i], name))
    BY <2>1
  <2>4. \A name \in DOMAIN parsed.avoidMap : FirstTo(args, k + 1, name, parsed.avoidMap[name])
    BY FirstStep DEF Tells
  <2> QED
    BY <2>1, <2>2, <2>3, <2>4 DEF Tells
<1>2. CASE Len(arg) = 2
  <2>1. \A name : Gives(arg, name) <=> name = arg[1]
    BY <1>2 DEF Gives
  <2>2. /\ new.start = IF arg[1] = "start" THEN arg[2] ELSE parsed.start
        /\ new.finish = IF arg[1] = "finish" THEN arg[2] ELSE parsed.finish
        /\ new.avoidMap = [name \in DOMAIN parsed.avoidMap \cup {arg[1]} |->
                             IF name \in DOMAIN parsed.avoidMap
                             THEN parsed.avoidMap[name] ELSE arg[2]]
    BY <1>2 DEF Absorb
  <2> HIDE DEF new, arg
  <2>3. /\ LastTo(args, k + 1, "start", new.start)
        /\ LastTo(args, k + 1, "finish", new.finish)
    BY <2>1, <2>2, LastStep DEF Tells, arg
  <2>4. ASSUME NEW name
        PROVE  name \in DOMAIN new.avoidMap <=> \E i \in 1 .. k + 1 : Gives(args[i], name)
    <3>1. name \in DOMAIN new.avoidMap <=> name \in DOMAIN parsed.avoidMap \/ name = arg[1]
      BY <2>2
    <3>2. (\E i \in 1 .. k + 1 : Gives(args[i], name)) <=>
          (\E i \in 1 .. k : Gives(args[i], name)) \/ Gives(arg, name)
      BY DEF arg
    <3> QED
      BY <2>1, <3>1, <3>2 DEF Tells
  <2>5. ASSUME NEW name \in DOMAIN new.avoidMap
        PROVE  FirstTo(args, k + 1, name, new.avoidMap[name])
    <3>1. CASE name \in DOMAIN parsed.avoidMap
      <4>1. new.avoidMap[name] = parsed.avoidMap[name] /\ FirstTo(args, k, name, parsed.avoidMap[name])
        BY <2>2, <3>1 DEF Tells
      <4> QED
        BY <4>1, FirstStep
    <3>2. CASE name \notin DOMAIN parsed.avoidMap
      <4>1. new.avoidMap[name] = arg[2] /\ name = arg[1]
        BY <2>2, <3>2
      <4>2. Gives(arg, name) /\ \A i \in 1 .. k : ~Gives(args[i], name)
        BY <2>1, <3>2, <4>1 DEF Tells
      <4> QED
        BY <4>1, <4>2, FirstStep DEF arg
    <3> QED
      BY <3>1, <3>2
  <2> QED
    BY <2>3, <2>4, <2>5 DEF Tells, new, arg
<1> QED
  BY <1>1, <1>2

LEMMA ParseTells ==
  ASSUME NEW args, Len(args) \in Nat
  PROVE  Tells(ParseURI(args, "", ""), args, Len(args))
<1> DEFINE n == Len(args)
<1>1. PICK g : Turns(g, args, n) /\ ParseURI(args, "", "") = g[n]
  BY ParseIsLastTurn
<1> DEFINE good == {k \in 0 .. n : Tells(g[k], args, k)}
<1>2. 0 \in good
  <2>1. g[0] = Parsed
    <3>1. 0 \in 0 .. n
      OBVIOUS
    <3> HIDE DEF n, good
    <3> QED
      BY <1>1, <3>1 DEF Turns
  <2>2. Parsed.start = "" /\ Parsed.finish = "" /\ DOMAIN Parsed.avoidMap = {} /\ 1 .. 0 = {}
    <3> DEFINE none == [name \in {} |-> ""]
    <3>1. DOMAIN none = {} /\ 1 .. 0 = {}
      OBVIOUS
    <3> HIDE DEF none
    <3>2. Parsed = [start |-> "", finish |-> "", avoidMap |-> none]
      BY DEF Parsed, none
    <3> QED
      BY <3>1, <3>2
  <2>3. Tells(Parsed, args, 0)
    BY <2>2 DEF Tells, LastTo
  <2>4. Tells(g[0], args, 0) /\ 0 \in 0 .. n
    BY <2>1, <2>3
  <2> QED
    BY <2>4
<1>3. ASSUME NEW k \in 0 .. n - 1, k \in good PROVE k + 1 \in good
  <2>1. k + 1 \in 0 .. n /\ k + 1 # 0 /\ (k + 1) - 1 = k /\ k \in Nat
    OBVIOUS
  <2>2. g[k + 1] = Absorb(g[k], args[k + 1])
    BY <1>1, <2>1 DEF Turns
  <2>3. Tells(g[k], args, k)
    BY <1>3
  <2> QED
    BY <2>1, <2>2, <2>3, AbsorbTells
<1>4. n \in good
  <2> HIDE DEF good, n
  <2>1. n \in Nat
    BY DEF n
  <2>2. \A i \in 0 .. n : i \in good
    BY <1>2, <1>3, <2>1, UpTo
  <2> QED
    BY <2>1, <2>2
<1> QED
  BY <1>1, <1>4

-----------------------------------------------------------------------------
(* The boxes whose value is the tag they stand for. *)
Plain ==
  {Box("frigate", "Frigate"), Box("hs", "HS"), Box("reduced", "Reduced"), Box("wh", "WH"),
   Box("ls", "LS"), Box("crit", "Crit"), Box("jb", "JB"), Box("ns", "NS"), Box("js", "JS"),
   Box("thera", "Thera")}

LEMMA PlainBoxes ==
  ASSUME NEW b \in Range(Boxes) \ {Box("gate", "Gate"), Box("eol", "EOL")}
  PROVE  b \in Plain
BY DEF Range, Boxes, Plain

(* A plain box has one line in getAvoidSet, and its tag no other. *)
LEMMA OneLine ==
  ASSUME NEW b \in Plain
  PROVE  /\ Line(b.name, b.value, b.value) \in AvoidLines
         /\ \A line \in AvoidLines : line.tag = b.value => line.name = b.name /\ line.value = b.value
BY DEF Plain, AvoidLines, Line, Box

LEMMA AvoidedIfFirst ==
  ASSUME NEW args, Len(args) \in Nat, NEW parsed, Tells(parsed, args, Len(args)), NEW b \in Plain
  PROVE  b.value \in GetAvoidSet(parsed.avoidMap) <=> FirstTo(args, Len(args), b.name, b.value)
<1> DEFINE m == parsed.avoidMap
<1>1. b.value \in GetAvoidSet(m) <=>
        \E line \in AvoidLines : line.name \in DOMAIN m /\ m[line.name] = line.value /\ line.tag = b.value
  BY DEF GetAvoidSet
<1>2. LET line == Line(b.name, b.value, b.value)
      IN  line.name = b.name /\ line.value = b.value /\ line.tag = b.value
  BY DEF Line
<1>3. b.value \in GetAvoidSet(m) <=> b.name \in DOMAIN m /\ m[b.name] = b.value
  BY <1>1, <1>2, OneLine
<1>4. ASSUME b.name \in DOMAIN m, m[b.name] = b.value
      PROVE  FirstTo(args, Len(args), b.name, b.value)
  BY <1>4 DEF Tells
<1>5. ASSUME FirstTo(args, Len(args), b.name, b.value)
      PROVE  b.name \in DOMAIN m /\ m[b.name] = b.value
  <2>1. PICK i \in 1 .. Len(args) :
          Gives(args[i], b.name) /\ args[i][2] = b.value /\ \A j \in 1 .. i - 1 : ~Gives(args[j], b.name)
    BY <1>5 DEF FirstTo
  <2>2. b.name \in DOMAIN m
    BY <2>1 DEF Tells
  <2>3. PICK k \in 1 .. Len(args) :
          Gives(args[k], b.name) /\ args[k][2] = m[b.name] /\ \A j \in 1 .. k - 1 : ~Gives(args[j], b.name)
    BY <2>2 DEF Tells, FirstTo
  <2>4. ~(i < k) /\ ~(k < i)
    BY <2>1, <2>3
  <2>5. i = k
    BY <2>4
  <2> QED
    BY <2>1, <2>2, <2>3, <2>5
<1> QED
  BY <1>3, <1>4, <1>5

LEMMA ReceiveOutcome ==
  ASSUME NEW r \in Requests, Receive(r)
  PROVE  OutcomeFromURIAlone'
<1>1. CASE r.uri = "favicon"
  BY <1>1 DEF Receive, Take, OutcomeFromURIAlone
<1>2. CASE r.uri # "favicon"
  <2> DEFINE args == r.args
             parsed == ParseURI(args, "", "")
  <2>1. Len(args) \in Nat /\ DOMAIN args = 1 .. Len(args)
    BY RequestAssumption
  <2>2. /\ request' = r /\ start' = parsed.start /\ finish' = parsed.finish
        /\ avoidSet' = GetAvoidSet(parsed.avoidMap)
        /\ verdict' = Verdict(parsed.start, parsed.finish)
    BY <1>2 DEF Receive, Take
  <2> HIDE DEF parsed, args
  <2>3. Tells(parsed, args, Len(args))
    BY <2>1, ParseTells DEF parsed
  <2>4. LastGiven(args, "start", parsed.start) /\ LastGiven(args, "finish", parsed.finish)
    BY <2>1, <2>3 DEF Tells, LastTo, LastGiven
  <2>5. ASSUME NEW b \in Range(Boxes) \ {Box("gate", "Gate"), Box("eol", "EOL")}
        PROVE  b.value \in GetAvoidSet(parsed.avoidMap) <=> FirstGiven(args, b.name, b.value)
    BY <2>1, <2>3, PlainBoxes, AvoidedIfFirst DEF FirstTo, FirstGiven
  <2>6. GetSID("") = NoSID
    BY Zenon DEF GetSID
  <2>7. Verdict(parsed.start, parsed.finish) = "valid" <=>
          GetSID(parsed.start) # NoSID /\ GetSID(parsed.finish) # NoSID
    BY <2>6 DEF Verdict
  <2>8. GetSID(start)' = GetSID(parsed.start) /\ GetSID(finish)' = GetSID(parsed.finish)
    BY <2>2 DEF GetSID
  <2>9. request'.args = args
    BY <2>2 DEF args
  <2> QED
    BY <2>2, <2>4, <2>5, <2>7, <2>8, <2>9 DEF OutcomeFromURIAlone
<1> QED
  BY <1>1, <1>2

(* Whatever was asked before, however long a URI is and whatever it        *)
(* repeats, the question is the one of that URI (parseURI and the head of  *)
(* the loop in FCGI).                                                      *)
THEOREM QuestionFromURI == ParserSpec => []OutcomeFromURIAlone
<1>1. ParserInit => OutcomeFromURIAlone
  BY DEF ParserInit, OutcomeFromURIAlone
<1>2. OutcomeFromURIAlone /\ [ParserNext]_parserVars => OutcomeFromURIAlone'
  <2>1. ASSUME ParserNext PROVE OutcomeFromURIAlone'
    BY <2>1, ReceiveOutcome DEF ParserNext
  <2>2. ASSUME OutcomeFromURIAlone, UNCHANGED parserVars PROVE OutcomeFromURIAlone'
    BY <2>2 DEF OutcomeFromURIAlone, parserVars, GetSID
  <2> QED
    BY <2>1, <2>2
<1> QED
  BY <1>1, <1>2, PTL DEF ParserSpec

-----------------------------------------------------------------------------
(* The request loop. *)

Starting == {"startNova", "startThera", "setup", "loadThera", "loadNova"}
Serving == {"updateNova", "updateThera", "reload", "rename", "reloadNova", "reloadThera", "route"}

(* Where the loop stands and what the verdict then is. *)
ControlInv ==
  /\ pc \in Starting \cup Serving \cup {"accept", "print", "dead", "stopped"}
  /\ pc \in Starting => verdict = "none" /\ page = Unprinted
  /\ pc \in Serving => verdict = "valid"
  /\ pc = "print" => verdict \in {"valid", "invalid"}
  /\ verdict \in {"none", "favicon", "valid", "invalid"}

(* What Siggy has said, and where it is known to be an object. *)
DataInv ==
  /\ novaData \in NovaAnswers \cup {Nothing} /\ theraData \in TheraAnswers \cup {Nothing}
  /\ novaLoaded \in NovaAnswers \cup {Nothing} /\ theraLoaded \in TheraAnswers \cup {Nothing}
  /\ pc = "loadNova" \/ Started => theraLoaded \in TheraAnswers
  /\ Started => novaLoaded \in NovaAnswers
  /\ pc \in {"reloadNova", "reloadThera", "route"} \/ (pc = "print" /\ verdict = "valid") =>
       novaData \in NovaAnswers
  /\ pc = "route" \/ (pc = "print" /\ verdict = "valid") => theraData \in TheraAnswers

(* A reload finds a descriptor left, since asking Siggy took one. *)
HandlesInv ==
  /\ handles \in Nat /\ handles <= MaxOpen
  /\ pc = "reload" => Free > 0

(* The gates, and what has been loaded behind them. *)
GateMap == Load(NoEntries, JumpConnections)
ChainMap == IF loadSiggy THEN Load(GateMap, NovaConnections(novaData)) ELSE GateMap

MapsInv ==
  /\ pc = "loadThera" => vertexMap = GateMap
  /\ pc = "loadNova" => vertexMap = Load(GateMap, TheraConnections(theraLoaded))
  /\ Started =>
       vertexMap = Load(Load(GateMap, TheraConnections(theraLoaded)), NovaConnections(novaLoaded))
  /\ pc \in {"updateNova", "updateThera", "reload"} => connections = NoEntries
  /\ pc \in {"rename", "reloadNova"} => connections = GateMap
  /\ pc = "reloadNova" => loadSiggy
  /\ pc = "reloadThera" => connections = ChainMap
  /\ pc \in {"route", "print"} /\ verdict = "valid" =>
       connections = Load(ChainMap, TheraConnections(theraData))

(* The names of the present chain are among the nicknames. *)
NamesKnown ==
  \A s \in DOMAIN novaData.names \cap Known :
    s \in DOMAIN nicknames /\ nicknames[s] = novaData.names[s]

NamesInv ==
  /\ pc \in {"reloadNova", "reloadThera", "route", "print"} /\ verdict = "valid" => NamesKnown
  /\ NamesCurrent

(* A route that answers the question the parser left. *)
Leads(route) ==
  /\ route[1] = GetSID(start)
  /\ route[Len(route)] = GetSID(finish)
  /\ \A i \in 2 .. Len(route) :
       route[i - 1] \in DOMAIN vertexMap /\ route[i] \in DOMAIN vertexMap[route[i - 1]]

PathInv ==
  /\ pc = "print" =>
       /\ path \in Seq(DOMAIN vertexMap \cup {GetSID(start)})
       /\ path = << >> \/ (verdict = "valid" /\ Leads(path))
  /\ PageAnswersRequest

-----------------------------------------------------------------------------
(* The three ways a request can go. *)
LEMMA AcceptGoesOn ==
  ASSUME Accept
  PROVE  /\ pc = "accept"
         /\ \/ verdict' = "favicon" /\ pc' = "accept"
            \/ verdict' = "invalid" /\ pc' = "print"
            \/ verdict' = "valid" /\ pc' = "updateNova"
<1>1. PICK r \in Requests : Receive(r)
  BY DEF Accept
<1>2. verdict' \in {"favicon", "invalid", "valid"}
  BY <1>1 DEF Receive, Take, Verdict
<1>3. pc = "accept" /\ pc' = AfterVerdict
  BY DEF Accept
<1> QED
  BY <1>2, <1>3 DEF AfterVerdict

LEMMA ControlInitInv == PlannerInit => ControlInv
BY DEF PlannerInit, ParserInit, ControlInv, Starting, Serving

LEMMA ControlNextInv ==
  ASSUME ControlInv, [PlannerNext]_plannerVars
  PROVE  ControlInv'
<1> USE DEF ControlInv, Starting, Serving
<1>1. CASE Accept
  BY <1>1, AcceptGoesOn
<1>2. CASE Setup \/ DieOfData \/ PrintPage \/ Stop
  BY <1>2 DEF Setup, DieOfData, LacksObject, NamesUnknown, PrintPage, Stop, parserVars
<1>3. CASE Reload
  BY <1>3 DEF Reload, ReloadGates, Rename, ReloadNova, ReloadThera, parserVars
<1>4. CASE FindRoute
  BY <1>4 DEF FindRoute, parserVars
<1>5. CASE Ask
  BY <1>5 DEF Ask, StartNova, StartThera, LoadThera, LoadNova, UpdateNova, UpdateThera, Fetch,
              parserVars
<1>6. CASE UNCHANGED plannerVars
  BY <1>6 DEF plannerVars, parserVars
<1> QED
  BY <1>1, <1>2, <1>3, <1>4, <1>5, <1>6 DEF PlannerNext, Compute

LEMMA DataInitInv == PlannerInit => DataInv
BY DEF PlannerInit, DataInv, Started

LEMMA DataNextInv ==
  ASSUME DataInv, ControlInv, [PlannerNext]_plannerVars
  PROVE  DataInv'
<1> USE DEF DataInv, Started
<1>0. ~IsObject(Nothing)
  BY DEF IsObject, Nothing
<1>1. CASE Accept
  <2>1. UNCHANGED <<novaData, theraData, novaLoaded, theraLoaded>>
    BY <1>1 DEF Accept, siggyVars, loaderVars
  <2> QED
    BY <1>1, <2>1, AcceptGoesOn
<1>2. CASE Setup \/ DieOfData \/ PrintPage \/ Stop
  <2>1. /\ UNCHANGED <<novaData, theraData, novaLoaded, theraLoaded>>
        /\ pc' \in {"loadThera", "dead"} \/ (pc \in {"print", "accept"} /\ pc' \in {"accept", "stopped"})
    BY <1>2 DEF Setup, DieOfData, PrintPage, Stop, siggyVars, loaderVars
  <2> QED
    BY <2>1
<1>3. CASE Reload
  <2>1. UNCHANGED <<novaData, theraData, novaLoaded, theraLoaded>>
    BY <1>3 DEF Reload, ReloadGates, Rename, ReloadNova, ReloadThera, siggyVars, loaderVars
  <2>2. \/ pc = "reload" /\ pc' = "rename"
        \/ pc = "rename" /\ pc' \in {"reloadNova", "reloadThera"} /\ IsObject(novaData)
        \/ pc = "reloadNova" /\ pc' = "reloadThera"
        \/ pc = "reloadThera" /\ pc' = "route" /\ IsObject(theraData)
    BY <1>3 DEF Reload, ReloadGates, Rename, ReloadNova, ReloadThera
  <2> QED
    BY <1>0, <2>1, <2>2
<1>4. CASE FindRoute
  BY <1>4 DEF FindRoute, siggyVars, loaderVars, ControlInv, Serving
<1>5. CASE StartNova \/ StartThera \/ UpdateNova \/ UpdateThera
  BY <1>5 DEF StartNova, StartThera, UpdateNova, UpdateThera, Fetch, loaderVars
<1>6. CASE LoadThera
  BY <1>6 DEF LoadThera, siggyVars
<1>7. CASE LoadNova
  BY <1>7 DEF LoadNova, siggyVars
<1>8. CASE UNCHANGED plannerVars
  BY <1>8 DEF plannerVars, siggyVars, loaderVars, parserVars
<1> QED
  BY <1>1, <1>2, <1>3, <1>4, <1>5, <1>6, <1>7, <1>8 DEF PlannerNext, Compute, Ask

LEMMA HandlesInitInv == PlannerInit => HandlesInv
BY MaxOpenAssumption DEF PlannerInit, HandlesInv

LEMMA HandlesNextInv ==
  ASSUME HandlesInv, [PlannerNext]_plannerVars
  PROVE  HandlesInv'
<1> USE MaxOpenAssumption DEF HandlesInv
<1>1. CASE Accept
  <2>1. pc' # "reload" /\ handles' = handles
    BY <1>1, AcceptGoesOn DEF Accept
  <2> QED
    BY <2>1
<1>2. CASE Setup \/ DieOfData \/ PrintPage \/ Stop \/ FindRoute
  BY <1>2 DEF Setup, DieOfData, PrintPage, Stop, FindRoute
<1>3. CASE ReloadGates
  <2>1. pc = "reload" /\ handles' = handles + 1 /\ pc' = "rename" /\ Free > 0
    BY <1>3 DEF ReloadGates
  <2>2. handles + 1 <= MaxOpen
    BY <2>1 DEF Free, InRequest, Reloading
  <2> QED
    BY <2>1, <2>2
<1>4. CASE Rename \/ ReloadNova \/ ReloadThera
  BY <1>4 DEF Rename, ReloadNova, ReloadThera
<1>5. CASE UpdateThera
  <2>1. handles' = handles /\ pc = "updateThera" /\ (pc' = "reload" => Free > 0)
    BY <1>5 DEF UpdateThera, Fetch
  <2>2. pc' = "reload" => Free' = Free
    BY <2>1 DEF Free, InRequest, Reloading
  <2> QED
    BY <2>1, <2>2
<1>6. CASE StartNova \/ StartThera \/ LoadThera \/ LoadNova \/ UpdateNova
  BY <1>6 DEF StartNova, StartThera, LoadThera, LoadNova, UpdateNova, Fetch
<1>7. CASE UNCHANGED plannerVars
  BY <1>7 DEF plannerVars, Free, InRequest, Reloading
<1> QED
  BY <1>1, <1>2, <1>3, <1>4, <1>5, <1>6, <1>7 DEF PlannerNext, Compute, Reload, Ask

-----------------------------------------------------------------------------
LEMMA MapsInitInv == PlannerInit => MapsInv
BY DEF PlannerInit, MapsInv, Started

LEMMA MapsNextInv ==
  ASSUME HandlesInv, MapsInv, [PlannerNext]_plannerVars
  PROVE  MapsInv'
<1> USE DEF MapsInv, Started
<1>0. GateMap' = GateMap
  BY DEF GateMap
<1>1. CASE Accept
  <2>1. /\ pc = "accept"
        /\ \/ verdict' = "favicon" /\ pc' = "accept"
           \/ verdict' = "invalid" /\ pc' = "print"
           \/ verdict' = "valid" /\ pc' = "updateNova"
    BY <1>1, AcceptGoesOn
  <2>2. connections' = IF verdict' = "valid" THEN NoEntries ELSE connections
    BY <1>1 DEF Accept
  <2>3. UNCHANGED <<theraLoaded, novaLoaded, vertexMap>>
    BY <1>1 DEF Accept, loaderVars
  <2> QED
    BY <1>0, <2>1, <2>2, <2>3
<1>2. CASE Setup
  BY <1>0, <1>2 DEF Setup, GateMap
<1>3. CASE LoadThera
  BY <1>0, <1>3 DEF LoadThera
<1>4. CASE LoadNova
  BY <1>0, <1>4 DEF LoadNova
<1>5. CASE ReloadGates
  <2>1. pc = "reload" /\ Free > 0 /\ connections = NoEntries
    BY <1>5 DEF ReloadGates, HandlesInv
  <2>2. connections' = GateMap /\ pc' = "rename" /\ UNCHANGED loaderVars
    BY <1>5, <2>1 DEF ReloadGates, Gates, GateMap
  <2> QED
    BY <1>0, <2>1, <2>2 DEF loaderVars
<1>6. CASE Rename
  <2>1. /\ pc = "rename" /\ pc' = IF loadSiggy THEN "reloadNova" ELSE "reloadThera"
        /\ UNCHANGED <<loadSiggy, novaData, theraLoaded, novaLoaded, vertexMap, connections>>
    BY <1>6 DEF Rename, siggyVars, loaderVars
  <2>2. ~loadSiggy => ChainMap' = GateMap
    BY <1>0, <2>1 DEF ChainMap
  <2> QED
    BY <1>0, <2>1, <2>2
<1>7. CASE ReloadNova
  <2>1. /\ pc = "reloadNova" /\ pc' = "reloadThera"
        /\ connections' = Load(connections, NovaConnections(novaData))
        /\ UNCHANGED <<loadSiggy, novaData, theraLoaded, novaLoaded, vertexMap>>
    BY <1>7 DEF ReloadNova, siggyVars, loaderVars
  <2> QED
    BY <1>0, <2>1 DEF ChainMap
<1>8. CASE ReloadThera
  <2>1. /\ pc = "reloadThera" /\ pc' = "route"
        /\ connections' = Load(connections, TheraConnections(theraData))
        /\ UNCHANGED <<loadSiggy, novaData, theraData, theraLoaded, novaLoaded, vertexMap>>
    BY <1>8 DEF ReloadThera, siggyVars, loaderVars
  <2>2. ChainMap' = ChainMap
    BY <1>0, <2>1 DEF ChainMap
  <2> QED
    BY <1>0, <2>1, <2>2
<1>9. CASE FindRoute
  <2>1. /\ pc = "route" /\ pc' \in {"print", "dead"}
        /\ UNCHANGED <<loadSiggy, novaData, theraData, theraLoaded, novaLoaded, vertexMap,
                       connections, verdict>>
    BY <1>9 DEF FindRoute, siggyVars, loaderVars, parserVars
  <2>2. ChainMap' = ChainMap
    BY <1>0, <2>1 DEF ChainMap
  <2> QED
    BY <1>0, <2>1, <2>2
<1>10. CASE DieOfData \/ PrintPage \/ Stop
  <2>1. /\ pc' \in {"dead", "accept", "stopped"}
        /\ pc' # "dead" => pc \in {"print", "accept"}
        /\ UNCHANGED <<theraLoaded, novaLoaded, vertexMap>>
    BY <1>10 DEF DieOfData, PrintPage, Stop, loaderVars
  <2> QED
    BY <1>0, <2>1
<1>11. CASE StartNova \/ StartThera \/ UpdateNova \/ UpdateThera
  <2>1. /\ pc' \in {"startThera", "setup", "updateThera", "reload", "dead"}
        /\ pc' \in {"updateThera", "reload"} => pc \in {"updateNova", "updateThera"}
        /\ UNCHANGED <<theraLoaded, novaLoaded, vertexMap, connections>>
    BY <1>11 DEF StartNova, StartThera, UpdateNova, UpdateThera, Fetch, loaderVars
  <2> QED
    BY <1>0, <2>1
<1>12. CASE UNCHANGED plannerVars
  <2>1. ChainMap' = ChainMap
    BY <1>0, <1>12 DEF ChainMap, plannerVars, siggyVars, loaderVars
  <2> QED
    BY <1>0, <1>12, <2>1 DEF plannerVars, siggyVars, loaderVars, parserVars
<1> QED
  BY <1>1, <1>2, <1>3, <1>4, <1>5, <1>6, <1>7, <1>8, <1>9, <1>10, <1>11, <1>12
     DEF PlannerNext, Compute, Reload, Ask

-----------------------------------------------------------------------------
LEMMA NamesInitInv == PlannerInit => NamesInv
BY DEF PlannerInit, ParserInit, NamesInv, NamesCurrent

LEMMA NamesNextInv ==
  ASSUME ControlInv, NamesInv, [PlannerNext]_plannerVars
  PROVE  NamesInv'
<1> USE DEF NamesInv
<1>1. CASE Accept
  BY <1>1, AcceptGoesOn DEF NamesCurrent
<1>2. CASE Rename
  <2>1. /\ pc' \in {"reloadNova", "reloadThera"}
        /\ nicknames' = Renamed(novaData) /\ novaData' = novaData
    BY <1>2 DEF Rename, siggyVars
  <2>2. NamesKnown'
    BY <2>1 DEF NamesKnown, Renamed, NamedAnew
  <2> QED
    BY <2>1, <2>2 DEF NamesCurrent
<1>3. CASE PrintPage
  <2>1. /\ pc = "print" /\ pc' = "accept"
        /\ page'.rows = [i \in DOMAIN path |-> Row(i)]
        /\ UNCHANGED <<verdict, novaData, nicknames, path>>
    BY <1>3 DEF PrintPage, siggyVars, parserVars
  <2>2. ASSUME verdict' = "valid", NEW i \in DOMAIN page'.rows,
               page'.rows[i].sys \in DOMAIN novaData'.names \cap Known
        PROVE  page'.rows[i].nick = novaData'.names[page'.rows[i].sys]
    <3>1. NamesKnown
      BY <2>1, <2>2
    <3>2. page'.rows[i] = Row(i)
      BY <2>1, <2>2
    <3>3. Row(i).sys = path[i]
      BY DEF Row
    <3>4. path[i] \in DOMAIN nicknames /\ nicknames[path[i]] = novaData.names[path[i]]
      BY <2>1, <2>2, <3>1, <3>2, <3>3 DEF NamesKnown
    <3>5. Row(i).nick = nicknames[path[i]]
      BY <3>4 DEF Row
    <3> QED
      BY <2>1, <3>2, <3>3, <3>4, <3>5
  <2> QED
    BY <2>1, <2>2 DEF NamesCurrent
<1>4. CASE ReloadNova \/ ReloadThera \/ FindRoute
  <2>1. /\ pc \in {"reloadNova", "reloadThera", "route"} /\ pc' # "accept"
        /\ UNCHANGED <<verdict, novaData, nicknames>>
    BY <1>4 DEF ReloadNova, ReloadThera, FindRoute, siggyVars, parserVars
  <2> QED
    BY <2>1 DEF NamesCurrent, NamesKnown
<1>5. CASE LoadNova
  <2>1. verdict' = "none"
    BY <1>5 DEF LoadNova, ControlInv, Starting, parserVars
  <2> QED
    BY <2>1 DEF NamesCurrent
<1>6. CASE Setup \/ DieOfData \/ Stop \/ ReloadGates
  BY <1>6 DEF Setup, DieOfData, Stop, ReloadGates, NamesCurrent
<1>7. CASE StartNova \/ StartThera \/ LoadThera \/ UpdateNova \/ UpdateThera
  BY <1>7 DEF StartNova, StartThera, LoadThera, UpdateNova, UpdateThera, Fetch, NamesCurrent
<1>8. CASE UNCHANGED plannerVars
  BY <1>8 DEF plannerVars, siggyVars, parserVars, NamesCurrent, NamesKnown
<1> QED
  BY <1>1, <1>2, <1>3, <1>4, <1>5, <1>6, <1>7, <1>8 DEF PlannerNext, Compute, Reload, Ask

-----------------------------------------------------------------------------
(* The finder's promise, as far as a page shows it: an answer is no route, *)
(* or one from the first system to the second along the map.               *)
LEMMA AnswersLead ==
  ASSUME NEW route \in Finder!RightAnswers
  PROVE  /\ route \in Seq(DOMAIN vertexMap \cup {GetSID(start)})
         /\ route = << >> \/ Leads(route)
<1> DEFINE S == DOMAIN vertexMap \cup {GetSID(start)}
<1>1. CASE GetSID(start) = GetSID(finish)
  <2>1. route = <<GetSID(start)>>
    BY <1>1 DEF Finder!RightAnswers
  <2>2. route \in Seq(S) /\ Len(route) = 1 /\ route[1] = GetSID(start)
    BY <2>1
  <2> QED
    BY <1>1, <2>2 DEF Leads
<1>2. CASE route = << >>
  BY <1>2
<1>3. CASE GetSID(start) # GetSID(finish) /\ route # << >>
  <2>1. route \in Finder!SimpleRoutes(GetSID(start), GetSID(finish))
    BY <1>3 DEF Finder!RightAnswers, Finder!BestRoutes
  <2>2. /\ route[1] = GetSID(start) /\ route[Len(route)] = GetSID(finish)
        /\ \A i \in 1 .. Len(route) - 1 : Finder!Hop(route[i], route[i + 1])
    BY <2>1 DEF Finder!SimpleRoutes
  <2>3. PICK n \in Nat : route \in [1 .. n -> DOMAIN vertexMap]
    BY <2>1 DEF Finder!SimpleRoutes
  <2>4. route \in Seq(S) /\ Len(route) = n
    BY <2>3
  <2>5. ASSUME NEW i \in 2 .. Len(route)
        PROVE  route[i - 1] \in DOMAIN vertexMap /\ route[i] \in DOMAIN vertexMap[route[i - 1]]
    <3>1. i - 1 \in 1 .. Len(route) - 1 /\ (i - 1) + 1 = i
      BY <2>4
    <3>2. Finder!Hop(route[i - 1], route[(i - 1) + 1])
      BY <2>2, <3>1
    <3> QED
      BY <3>1, <3>2 DEF Finder!Hop
  <2> QED
    BY <2>2, <2>4, <2>5 DEF Leads
<1> QED
  BY <1>1, <1>2, <1>3

LEMMA PathInitInv == PlannerInit => PathInv
BY DEF PlannerInit, PathInv, PageAnswersRequest, Unprinted

LEMMA PathNextInv ==
  ASSUME ControlInv, PathInv, [PlannerNext]_plannerVars
  PROVE  PathInv'
<1> USE DEF PathInv
<1>1. CASE Accept
  <2>1. pc' # "updateNova" => verdict' # "valid"
    BY <1>1, AcceptGoesOn
  <2>2. path' = << >> /\ page' = Unprinted
    BY <1>1 DEF Accept
  <2> QED
    BY <2>2 DEF PageAnswersRequest, Unprinted
<1>2. CASE FindRoute
  <2>1. UNCHANGED <<start, finish, verdict, vertexMap>>
    BY <1>2 DEF FindRoute, parserVars, loaderVars
  <2>2. pc' = "print" => path' \in Finder!RightAnswers
    BY <1>2 DEF FindRoute
  <2>3. verdict = "valid" /\ pc' # "accept"
    BY <1>2 DEF FindRoute, ControlInv, Serving
  <2>4. GetSID(start)' = GetSID(start) /\ GetSID(finish)' = GetSID(finish)
    BY <2>1
  <2>5. ASSUME pc' = "print"
        PROVE  /\ path' \in Seq(DOMAIN vertexMap \cup {GetSID(start)})
               /\ path' = << >> \/ Leads(path')
    BY <2>2, <2>5, AnswersLead
  <2>6. Leads(path') => Leads(path)'
    BY <2>1, <2>4 DEF Leads
  <2> QED
    BY <2>1, <2>3, <2>4, <2>5, <2>6 DEF PageAnswersRequest
<1>3. CASE PrintPage
  <2>1. /\ pc = "print" /\ pc' = "accept"
        /\ page'.rows = [i \in DOMAIN path |-> Row(i)]
        /\ UNCHANGED <<start, finish, verdict, vertexMap, path>>
    BY <1>3 DEF PrintPage, parserVars, loaderVars
  <2>2. CASE path = << >>
    <3>1. page'.rows = << >>
      BY <2>1, <2>2
    <3> QED
      BY <2>1, <3>1 DEF PageAnswersRequest
  <2>3. CASE path # << >>
    <3>1. verdict = "valid" /\ Leads(path) /\ path \in Seq(DOMAIN vertexMap \cup {GetSID(start)})
      BY <2>1, <2>3
    <3>2. /\ Len(path) \in Nat /\ Len(path) > 0 /\ DOMAIN path = 1 .. Len(path)
      BY <2>3, <3>1
    <3>3. page'.rows = [i \in 1 .. Len(path) |-> Row(i)]
      BY <2>1, <3>2
    <3>4. /\ Len(page'.rows) = Len(path)
          /\ \A i \in 1 .. Len(path) : page'.rows[i].sys = path[i]
      <4>1. Len(page'.rows) = Len(path)
        BY <3>2, <3>3
      <4>2. ASSUME NEW i \in 1 .. Len(path)
            PROVE  page'.rows[i].sys = path[i]
        <5>1. page'.rows[i] = Row(i)
          BY <3>3
        <5>2. Row(i).sys = path[i]
          BY DEF Row
        <5> QED
          BY <5>1, <5>2
      <4> QED
        BY <4>1, <4>2
    <3>5. GetSID(start)' = GetSID(start) /\ GetSID(finish)' = GetSID(finish)
      BY <2>1
    <3> QED
      BY <2>1, <3>1, <3>2, <3>4, <3>5 DEF PageAnswersRequest, Leads
  <2> QED
    BY <2>2, <2>3
<1>4. CASE Setup \/ DieOfData \/ Stop \/ Reload
  BY <1>4 DEF Setup, DieOfData, Stop, Reload, ReloadGates, Rename, ReloadNova, ReloadThera,
              PageAnswersRequest
<1>5. CASE LoadNova
  <2>1. page' = Unprinted /\ pc' # "print"
    BY <1>5 DEF LoadNova, ControlInv, Starting
  <2> QED
    BY <2>1 DEF PageAnswersRequest, Unprinted
<1>6. CASE StartNova \/ StartThera \/ LoadThera \/ UpdateNova \/ UpdateThera
  BY <1>6 DEF StartNova, StartThera, LoadThera, UpdateNova, UpdateThera, Fetch,
              PageAnswersRequest
<1>7. CASE UNCHANGED plannerVars
  BY <1>7 DEF plannerVars, parserVars, loaderVars, PageAnswersRequest, Leads
<1> QED
  BY <1>1, <1>2, <1>3, <1>4, <1>5, <1>6, <1>7 DEF PlannerNext, Compute, Ask

-----------------------------------------------------------------------------
(* The parts hold together. *)
PlannerInv == ControlInv /\ DataInv /\ HandlesInv /\ MapsInv /\ NamesInv /\ PathInv

THEOREM LoopInvariant == PlannerSpec => []PlannerInv
<1>1. PlannerInit => PlannerInv
  BY ControlInitInv, DataInitInv, HandlesInitInv, MapsInitInv, NamesInitInv, PathInitInv DEF PlannerInv
<1>2. PlannerInv /\ [PlannerNext]_plannerVars => PlannerInv'
  BY ControlNextInv, DataNextInv, HandlesNextInv, MapsNextInv, NamesNextInv, PathNextInv DEF PlannerInv
<1> QED
  BY <1>1, <1>2, PTL DEF PlannerSpec

(* However Siggy answers, a page shows a route from this request's start   *)
(* to its finish along the finder's map, or none (printRoute and FCGI).    *)
THEOREM PageRight == PlannerSpec => []PageAnswersRequest
<1>1. PlannerInv => PageAnswersRequest
  BY DEF PlannerInv, PathInv
<1> QED
  BY LoopInvariant, <1>1, PTL

(* However the chain is renamed from request to request, a page has the    *)
(* names of now (updateWithSiggy).                                         *)
THEOREM NamesRight == PlannerSpec => []NamesCurrent
<1>1. PlannerInv => NamesCurrent
  BY DEF PlannerInv, NamesInv
<1> QED
  BY LoopInvariant, <1>1, PTL

(* The finder searches what the sources said at the start, hops are        *)
(* described from what Siggy said last, and neither map has anything of an *)
(* earlier request in it (clearAllConnections and the reload).             *)
THEOREM MapsReloaded ==
  PlannerSpec =>
    [](/\ Started =>
            vertexMap = Load(Load(GateMap, TheraConnections(theraLoaded)), NovaConnections(novaLoaded))
       /\ pc \in {"route", "print"} /\ verdict = "valid" =>
            connections = Load(ChainMap, TheraConnections(theraData)))
<1>1. PlannerInv =>
        /\ Started =>
             vertexMap = Load(Load(GateMap, TheraConnections(theraLoaded)), NovaConnections(novaLoaded))
        /\ pc \in {"route", "print"} /\ verdict = "valid" =>
             connections = Load(ChainMap, TheraConnections(theraData))
  BY DEF PlannerInv, MapsInv
<1> QED
  BY LoopInvariant, <1>1, PTL

(* No more is opened than may be, and the database of a reload always is.  *)
THEOREM DescriptorsSuffice ==
  PlannerSpec => [](handles <= MaxOpen /\ (pc = "reload" => Free > 0))
<1>1. PlannerInv => handles <= MaxOpen /\ (pc = "reload" => Free > 0)
  BY DEF PlannerInv, HandlesInv
<1> QED
  BY LoopInvariant, <1>1, PTL
=============================================================================
