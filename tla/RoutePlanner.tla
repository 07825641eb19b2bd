---------------------------- MODULE RoutePlanner ----------------------------
(***************************************************************************)
(* The process: FCGI() in RoutePlanner.cpp.  At startup it asks Siggy for  *)
(* the chain and for Thera's exits, once for Siggy s and once more for the *)
(* two loaders that fill the route finder's map; then it serves one        *)
(* request after the other, asking Siggy again for each.                   *)
(*                                                                         *)
(* So there are two star maps.  The finder's vertexMap is what routes are  *)
(* searched in, and is never filled again; connections is emptied and      *)
(* filled for each request, and is what a hop is described from.           *)
(*                                                                         *)
(* Siggy is a server elsewhere: what it answers may differ from question   *)
(* to question, may be no JSON object, or may never come.                  *)
(***************************************************************************)
EXTENDS RequestParser, Sources

CONSTANTS
  NovaAnswers,    \* what Siggy may say of the chain
  TheraAnswers,   \* what Siggy may say of Thera's exits
  MaxOpen         \* how many files and sockets the process may have open

(* A request and a question to Siggy take one more than the three databases. *)
ASSUME MaxOpenAssumption == MaxOpen \in Nat /\ MaxOpen > 4

(* The systems the database has; find() of another is end().               *)
Known == {s \in System : TypeOf[s] # ""}

(* The database names its own systems, and its gates join them. *)
ASSUME DatabaseAssumption ==
  /\ \A name \in DOMAIN SIDOf : SIDOf[name] \in System
  /\ Jumps \in Seq([from : Known, to : Known])

ASSUME NovaAssumption ==
  \A nova \in NovaAnswers :
    /\ IsObject(nova) /\ DOMAIN nova.names \subseteq System
    /\ nova.holes \in Seq([from : System, to : System, frigate : BOOLEAN, eol : BOOLEAN,
                          mass : {"0", "1", "2"}])
    /\ nova.bridges \in Seq([from : System, to : System])

(* Thera always has an exit, or else its exits are no object. *)
ASSUME TheraAssumption ==
  \A thera \in TheraAnswers : IsObject(thera) /\ thera.exits \in Seq(System) \ {<< >>}

VARIABLES
  loadSiggy,      \* FALSE if the program was started with an argument
  novaData,       \* Siggy s: the chain
  theraData,      \* Siggy s: Thera's exits
  novaLoaded,     \* novaLoader.siggyData
  theraLoaded,    \* theraLoader.siggyData
  vertexMap,      \* routeFinder.vertexMap
  connections,    \* Connections c
  nicknames,      \* the nicknames in SystemInfo, for the systems that have one
  path,           \* what findRoute returned for the present request
  handles,        \* databases opened, none of which is ever closed
  page,           \* the rows of the page printed for it, or Unprinted
  pc              \* where FCGI() stands

siggyVars == <<novaData, theraData>>
loaderVars == <<loadSiggy, novaLoaded, theraLoaded, vertexMap>>
plannerVars ==
  <<parserVars, siggyVars, loaderVars, connections, nicknames, path, handles, page, pc>>

Unprinted == [printed |-> FALSE, rows |-> << >>]

-----------------------------------------------------------------------------
(* What may still be opened: a request holds its connection open, and      *)
(* sqlite3_close is called nowhere.                                        *)
Reloading == pc \in {"reload", "rename", "reloadNova", "reloadThera"}
InRequest == Reloading \/ pc \in {"updateNova", "updateThera", "route", "print"}
Free == MaxOpen - handles - (IF InRequest THEN 1 ELSE 0)

(* Fault: the socket is kept open from one question to the next. *)
FetchKeepingSocket(answers, datum, next) ==
  \/ datum' \in answers \cup {Nothing} /\ pc' = next
  \/ pc' = "dead" /\ UNCHANGED datum

(* A question to Siggy.  The blocking call comes back with a JSON object,  *)
(* or with a null or a number if Siggy answers an error or the exchange    *)
(* fails; resolving or connecting throws where nothing catches, and does   *)
(* so when no socket is to be had.  SiggyFetch has the details.            *)
Fetch(answers, datum, next) ==
  \/ Free > 0 /\ datum' \in answers \cup {Nothing} /\ pc' = next
  \/ pc' = "dead" /\ UNCHANGED datum

(* A name written where find() of an unknown system points goes into       *)
(* members of SystemInfo nobody reads, or kills the process.               *)
NamedAnew(nova) == [s \in DOMAIN nova.names \cap Known |-> nova.names[s]]

(* Fault: a system that has a nickname keeps it. *)
RenamedOnce(nova) == nicknames @@ NamedAnew(nova)

(* Fault: an unknown system ends the update, which is then not made. *)
RenamedIfAllKnown(nova) ==
  IF DOMAIN nova.names \subseteq Known THEN NamedAnew(nova) @@ nicknames ELSE nicknames

(* SystemInfo::updateWithSiggy: names are added and changed, never removed. *)
Renamed(nova) ==
  LET anew == NamedAnew(nova)
  IN  [s \in DOMAIN anew \cup DOMAIN nicknames |->
         IF s \in DOMAIN anew THEN anew[s] ELSE nicknames[s]]

-----------------------------------------------------------------------------
PlannerInit ==
  /\ ParserInit
  /\ loadSiggy \in BOOLEAN
  /\ novaData = Nothing /\ theraData = Nothing
  /\ novaLoaded = Nothing /\ theraLoaded = Nothing
  /\ vertexMap = NoEntries
  /\ connections = NoEntries
  /\ nicknames = NoEntries
  /\ path = << >>
  /\ handles = 0
  /\ page = Unprinted
  /\ pc = "startNova"

(* Siggy's constructor. *)
StartNova ==
  /\ pc = "startNova"
  /\ Fetch(NovaAnswers, novaData, "startThera")
  /\ UNCHANGED <<parserVars, theraData, loaderVars, connections, nicknames, path, handles, page>>

StartThera ==
  /\ pc = "startThera"
  /\ Fetch(TheraAnswers, theraData, "setup")
  /\ UNCHANGED <<parserVars, novaData, loaderVars, connections, nicknames, path, handles, page>>

(* SystemInfo, the constructor of Connections, and the first loader, each  *)
(* with a database handle of its own.                                      *)
Setup ==
  /\ pc = "setup"
  /\ IsObject(novaData)
  /\ nicknames' = Renamed(novaData)
  /\ connections' = Load(NoEntries, JumpConnections)
  /\ vertexMap' = Load(NoEntries, JumpConnections)
  /\ handles' = 3
  /\ pc' = "loadThera"
  /\ UNCHANGED <<parserVars, loadSiggy, siggyVars, novaLoaded, theraLoaded, path, page>>

LoadThera ==
  /\ pc = "loadThera"
  /\ \/ /\ theraLoaded' \in TheraAnswers
        /\ vertexMap' = Load(vertexMap, TheraConnections(theraLoaded'))
        /\ pc' = "loadNova"
     \/ pc' = "dead" /\ UNCHANGED <<theraLoaded, vertexMap>>
  /\ UNCHANGED <<parserVars, loadSiggy, siggyVars, novaLoaded, connections, nicknames, path, handles, page>>

LoadNova ==
  /\ pc = "loadNova"
  /\ \/ /\ novaLoaded' \in NovaAnswers
        /\ vertexMap' = Load(vertexMap, NovaConnections(novaLoaded'))
        /\ pc' = "accept"
     \/ pc' = "dead" /\ UNCHANGED <<novaLoaded, vertexMap>>
  /\ UNCHANGED <<parserVars, loadSiggy, siggyVars, theraLoaded, connections, nicknames, path, handles, page>>

-----------------------------------------------------------------------------
(* The three ways to go on from the head of the loop. *)
AfterVerdict ==
  CASE verdict' = "favicon" -> "accept"
    [] verdict' = "invalid" -> "print"
    [] verdict' = "valid" -> "updateNova"

(* Fault: path is declared outside the loop. *)
AcceptKeepingPath ==
  /\ pc = "accept"
  /\ \E r \in Requests : Receive(r)
  /\ pc' = AfterVerdict
  /\ connections' = IF verdict' = "valid" THEN NoEntries ELSE connections
  /\ page' = Unprinted
  /\ UNCHANGED <<siggyVars, loaderVars, nicknames, path, handles>>

(* Fault: clearAllConnections is not called. *)
AcceptWithoutClearing ==
  /\ pc = "accept"
  /\ \E r \in Requests : Receive(r)
  /\ pc' = AfterVerdict
  /\ path' = << >>
  /\ page' = Unprinted
  /\ UNCHANGED <<siggyVars, loaderVars, connections, nicknames, handles>>

(* Accepting takes a descriptor as well; without one the loop ends. *)
Accept ==
  /\ pc = "accept" /\ Free > 0
  /\ \E r \in Requests : Receive(r)
  /\ pc' = AfterVerdict
  /\ connections' = IF verdict' = "valid" THEN NoEntries ELSE connections
  /\ path' = << >>
  /\ page' = Unprinted
  /\ UNCHANGED <<siggyVars, loaderVars, nicknames, handles>>

(* FCGX_Accept_r reports an error, for want of a descriptor or another     *)
(* reason, or the server shuts the process down.                           *)
Stop ==
  /\ pc = "accept"
  /\ pc' = "stopped"
  /\ UNCHANGED <<parserVars, siggyVars, loaderVars, connections, nicknames, path, handles, page>>

(* Siggy::update, first half and second half. *)
UpdateNova ==
  /\ pc = "updateNova"
  /\ Fetch(NovaAnswers, novaData, "updateThera")
  /\ UNCHANGED <<parserVars, theraData, loaderVars, connections, nicknames, path, handles, page>>

UpdateThera ==
  /\ pc = "updateThera"
  /\ Fetch(TheraAnswers, theraData, "reload")
  /\ UNCHANGED <<parserVars, novaData, loaderVars, connections, nicknames, path, handles, page>>

(* A database that cannot be opened has no rows, which is not noticed. *)
Gates == IF Free > 0 THEN JumpConnections ELSE << >>

(* Fault: as it is, but the database is closed again. *)
ReloadGatesClosing ==
  /\ pc = "reload"
  /\ connections' = Load(connections, Gates)
  /\ pc' = "rename"
  /\ UNCHANGED <<parserVars, siggyVars, loaderVars, nicknames, path, handles, page>>

ReloadGates ==
  /\ pc = "reload"
  /\ connections' = Load(connections, Gates)
  /\ handles' = IF Free > 0 THEN handles + 1 ELSE handles
  /\ pc' = "rename"
  /\ UNCHANGED <<parserVars, siggyVars, loaderVars, nicknames, path, page>>

Rename ==
  /\ pc = "rename"
  /\ IsObject(novaData)
  /\ nicknames' = Renamed(novaData)
  /\ pc' = IF loadSiggy THEN "reloadNova" ELSE "reloadThera"
  /\ UNCHANGED <<parserVars, siggyVars, loaderVars, connections, path, handles, page>>

(* Fault: the gates are loaded behind the chain. *)
ReloadNovaBeforeGates ==
  /\ pc = "reloadNova"
  /\ connections' = Load(Load(NoEntries, NovaConnections(novaData)), JumpConnections)
  /\ pc' = "reloadThera"
  /\ UNCHANGED <<parserVars, siggyVars, loaderVars, nicknames, path, handles, page>>

ReloadNova ==
  /\ pc = "reloadNova"
  /\ connections' = Load(connections, NovaConnections(novaData))
  /\ pc' = "reloadThera"
  /\ UNCHANGED <<parserVars, siggyVars, loaderVars, nicknames, path, handles, page>>

(* Fault: the call of loadTheraConnections is lost. *)
ReloadTheraLost ==
  /\ pc = "reloadThera"
  /\ pc' = "route"
  /\ UNCHANGED <<parserVars, siggyVars, loaderVars, connections, nicknames, path, handles, page>>

ReloadThera ==
  /\ pc = "reloadThera"
  /\ IsObject(theraData)
  /\ connections' = Load(connections, TheraConnections(theraData))
  /\ pc' = "route"
  /\ UNCHANGED <<parserVars, siggyVars, loaderVars, nicknames, path, handles, page>>

(* get_obj() throws on a null or a number, at startup as well as later; at *)
(* startup Thera's exits as fetched for Siggy s are not looked at.         *)
LacksObject ==
  \/ pc \in {"setup", "rename"} /\ ~IsObject(novaData)
  \/ pc = "reloadThera" /\ ~IsObject(theraData)

NamesUnknown ==
  pc \in {"setup", "rename"} /\ IsObject(novaData) /\ ~(DOMAIN novaData.names \subseteq Known)

(* Fault: the exception is caught and the same data is looked at again. *)
DieOfDataRetrying == LacksObject /\ UNCHANGED plannerVars

DieOfData ==
  /\ LacksObject \/ NamesUnknown
  /\ pc' = "dead"
  /\ UNCHANGED <<parserVars, siggyVars, loaderVars, connections, nicknames, path, handles, page>>

-----------------------------------------------------------------------------
(* The finder is used by its promise; RouteFinderRefinement shows that the *)
(* search keeps it.                                                        *)
Finder ==
  INSTANCE ShortestRoute
    WITH start <- GetSID(start), finish <- GetSID(finish), avoid <- avoidSet,
         status <- "asked", answer <- path, Loaded <- {}, AvoidSets <- {}

FindRoute ==
  /\ pc = "route"
  /\ \/ path' \in Finder!RightAnswers /\ pc' = "print"
     \/ Finder!MayDie /\ pc' = "dead" /\ UNCHANGED path
  /\ UNCHANGED <<parserVars, siggyVars, loaderVars, connections, nicknames, handles, page>>

(* Connections::getConnectionType *)
GetConnectionType(from, to) ==
  IF from \in DOMAIN connections /\ to \in DOMAIN connections[from]
  THEN connections[from][to] ELSE {}

(* One row of the table: how the system is reached, its name (here its     *)
(* number) and its nickname.  The types of systems are not printed.        *)
Row(i) ==
  [tags |-> IF i = 1 THEN {}
            ELSE GetConnectionType(path[i - 1], path[i]) \ {"HS", "LS", "NS", "JS", "Thera"},
   sys  |-> path[i],
   nick |-> IF path[i] \in DOMAIN nicknames THEN nicknames[path[i]] ELSE ""]

(* printRoute; no rows stand for "Destination not reachable". *)
PrintPage ==
  /\ pc = "print"
  /\ page' = [printed |-> TRUE, rows |-> [i \in DOMAIN path |-> Row(i)]]
  /\ pc' = "accept"
  /\ UNCHANGED <<parserVars, siggyVars, loaderVars, connections, nicknames, path, handles>>

-----------------------------------------------------------------------------
(* What the process does by itself, and what it waits for Siggy to do. *)
Reload == ReloadGates \/ Rename \/ ReloadNova \/ ReloadThera
Compute == Setup \/ Reload \/ DieOfData \/ PrintPage
Ask == StartNova \/ StartThera \/ LoadThera \/ LoadNova \/ UpdateNova \/ UpdateThera

PlannerNext == Compute \/ FindRoute \/ Ask \/ Accept \/ Stop

(* Computing goes on and findRoute comes back, which EveryCallEnds says of *)
(* it; neither Siggy nor a visitor owes the process anything.              *)
PlannerSpec ==
  PlannerInit /\ [][PlannerNext]_plannerVars /\ WF_plannerVars(Compute) /\ []<>(pc # "route")

-----------------------------------------------------------------------------
Started == pc \notin {"startNova", "startThera", "setup", "loadThera", "loadNova", "dead"}

PlannerTypeOK ==
  /\ pc \in {"startNova", "startThera", "setup", "loadThera", "loadNova", "accept", "updateNova",
             "updateThera", "reload", "rename", "reloadNova", "reloadThera", "route", "print", "dead",
             "stopped"}
  /\ verdict \in {"none", "favicon", "valid", "invalid"}
  /\ avoidSet \subseteq Tag
  /\ loadSiggy \in BOOLEAN
  /\ novaData \in NovaAnswers \cup {Nothing} /\ novaLoaded \in NovaAnswers \cup {Nothing}
  /\ theraData \in TheraAnswers \cup {Nothing} /\ theraLoaded \in TheraAnswers \cup {Nothing}
  /\ IsVertexMap(vertexMap) /\ IsVertexMap(connections)
  /\ DOMAIN nicknames \subseteq Known
  /\ handles \in 0 .. MaxOpen
  /\ path \in Seq(System)
  /\ page.printed \in BOOLEAN

(***************************************************************************)
(* The map that is searched is well formed, and is exactly what the gates, *)
(* Thera's exits and the chain said when the process started, the earlier  *)
(* of these three deciding the tags of a connection several of them name.  *)
(***************************************************************************)
FinderMapExplained ==
  Started =>
    /\ WellFormed(vertexMap)
    /\ Explains(JumpConnections \o TheraConnections(theraLoaded) \o NovaConnections(novaLoaded),
                vertexMap)

(***************************************************************************)
(* What hops are described from is what Siggy said last, with no trace of  *)
(* earlier requests.                                                       *)
(***************************************************************************)
DescriptionsFresh ==
  pc \in {"route", "print"} /\ verdict = "valid" =>
    /\ WellFormed(connections)
    /\ Explains(JumpConnections \o (IF loadSiggy THEN NovaConnections(novaData) ELSE << >>)
                                \o TheraConnections(theraData), connections)

(***************************************************************************)
(* The page answers the request it is printed for, not an earlier one:     *)
(* without a valid request there is no route on it, and a route on it goes *)
(* from this request's start to its finish along the finder's map.         *)
(***************************************************************************)
PageAnswersRequest ==
  pc = "accept" /\ page.printed =>
    LET rows == page.rows
    IN  /\ verdict = "invalid" => rows = << >>
        /\ rows # << >> =>
             /\ rows[1].sys = GetSID(start)
             /\ rows[Len(rows)].sys = GetSID(finish)
             /\ \A i \in 2 .. Len(rows) : rows[i].sys \in DOMAIN vertexMap[rows[i - 1].sys]

(***************************************************************************)
(* A hop through a gate is shown as a gate, however stale the map of the   *)
(* route and whatever else Siggy says of the same two systems.             *)
(***************************************************************************)
GatesShownAsGates ==
  \A i \in 2 .. Len(page.rows) :
    (\E j \in DOMAIN Jumps :
       {Jumps[j].from, Jumps[j].to} = {page.rows[i - 1].sys, page.rows[i].sys})
    => page.rows[i].tags = {"Gate"}

(***************************************************************************)
(* While Siggy tells a request what it told the loaders, every hop of the  *)
(* route is described.                                                     *)
(***************************************************************************)
UnchangedChainDescribed ==
  loadSiggy /\ pc = "accept" /\ novaData = novaLoaded /\ theraData = theraLoaded =>
    \A i \in 2 .. Len(page.rows) : page.rows[i].tags # {}

(***************************************************************************)
(* A system of the chain goes by the name it has in Siggy now, also when   *)
(* it had another one at an earlier request, and when the chain has a      *)
(* system that the database lacks.                                         *)
(***************************************************************************)
NamesCurrent ==
  pc = "accept" /\ verdict = "valid" =>
    \A i \in DOMAIN page.rows :
      page.rows[i].sys \in DOMAIN novaData.names \cap Known =>
        page.rows[i].nick = novaData.names[page.rows[i].sys]

(***************************************************************************)
(* A request is answered, or the process dies of it, unless Siggy leaves a *)
(* question open for ever: the sockets have no timeout.                    *)
(***************************************************************************)
Waiting == pc \in {"startNova", "startThera", "loadThera", "loadNova", "updateNova", "updateThera"}

AnsweredUnlessSiggyHangs ==
  (InRequest ~> pc \in {"accept", "dead"}) \/ <>[]Waiting

(***************************************************************************)
(* Search and page agree on the tags of a connection while Siggy tells a   *)
(* request what it told the loaders, although the two maps are filled in   *)
(* different orders: all but those that both the chain and Thera name.     *)
(***************************************************************************)
Names(list, a, b) == \E i \in DOMAIN list : Joins(list[i], a, b)

TagsAgree ==
  /\ pc \in {"route", "print"} /\ verdict = "valid" /\ loadSiggy
  /\ novaData = novaLoaded /\ theraData = theraLoaded
  => \A a \in DOMAIN vertexMap : \A b \in DOMAIN vertexMap[a] :
       \/ connections[a][b] = vertexMap[a][b]
       \/ Names(NovaConnections(novaData), a, b) /\ Names(TheraConnections(theraData), a, b)

(***************************************************************************)
(* Each valid request costs a descriptor for good, so no process serves    *)
(* such requests for ever, however Siggy answers.                          *)
(***************************************************************************)
NotServedForever == <>[](pc # "reload")

(***************************************************************************)
(* The loaders are there to give the finder "up-to-date map info": a route *)
(* found uses connections there are.                                       *)
(***************************************************************************)
RouteUpToDate ==
  pc = "print" /\ loadSiggy =>
    \A i \in 2 .. Len(path) : GetConnectionType(path[i - 1], path[i]) # {}
=============================================================================
