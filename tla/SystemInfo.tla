----------------------------- MODULE SystemInfo -----------------------------
(***************************************************************************)
(* SystemInfo's constructor, which reads mapSolarSystems row by row and    *)
(* sorts the systems into classes, its getters, and getHTMLColour, which   *)
(* judges the security a second time for the page.  What RequestParser and *)
(* VertexMap call SIDOf and TypeOf is what is in sID and systems at the    *)
(* end.  Nicknames are RoutePlanner's.                                     *)
(*                                                                         *)
(* A row has its security in hundredths, a system in tenths.               *)
(***************************************************************************)
EXTENDS ConnectionTags

CONSTANTS
  Rows,    \* mapSolarSystems: a set of [id, name, length, security]
  Lower    \* Misc::lowerCase on the names

(* solarSystemID is the table's key. *)
ASSUME RowsAssumption ==
  \A r, s \in Rows : r.security \in -100 .. 100 /\ (r.id = s.id => r = s)

VARIABLES
  unread,     \* the rows the query has yet to return, in an order unknown
  sID,        \* lower-case name to system
  systems     \* system to [name, security, type]

infoVars == <<unread, sID, systems>>

-----------------------------------------------------------------------------
(* The hundredths that end in 5 and whose float lies below them, so that   *)
(* they round to the tenth below and not to the one above.                 *)
RoundedDown == {-85, -55, -15, -5, 35, 45, 65, 95}

(* Fault: the half is not added before floor is taken. *)
TenthsTruncated(security) == security \div 10

(* floor((float)security * 10.0 + 0.5) *)
Tenths(security) ==
  IF security \in RoundedDown THEN (security - 5) \div 10 ELSE (security + 5) \div 10

(* Fault: a half is not high security. *)
TypeOfRowStrict(row) ==
  LET security == Tenths(row.security)
  IN  CASE row.name = "Thera" -> "Thera"
        [] row.name # "Thera" /\ security > 5 -> "HS"
        [] row.name # "Thera" /\ security \in 1 .. 5 -> "LS"
        [] row.name # "Thera" /\ security \in -9 .. 0 -> "NS"
        [] OTHER -> IF row.length < 7 THEN "NS" ELSE "JS"

(* At -1.0 the length of the name tells known from wormhole space. *)
TypeOfRow(row) ==
  LET security == Tenths(row.security)
  IN  CASE row.name = "Thera" -> "Thera"
        [] row.name # "Thera" /\ security >= 5 -> "HS"
        [] row.name # "Thera" /\ security \in 1 .. 4 -> "LS"
        [] row.name # "Thera" /\ security \in -9 .. 0 -> "NS"
        [] OTHER -> IF row.length < 7 THEN "NS" ELSE "JS"

(* std::map::insert: of two entries the first stays. *)
Inserted(m, k, v) == [x \in DOMAIN m \cup {k} |-> IF x \in DOMAIN m THEN m[x] ELSE v]

InfoInit ==
  /\ unread = Rows
  /\ sID = [n \in {} |-> 0]
  /\ systems = [s \in {} |-> 0]

(* Fault: names are kept as they are written. *)
LoadRowAsWritten(row) ==
  /\ sID' = Inserted(sID, row.name, row.id)
  /\ systems' = Inserted(systems, row.id,
       [name |-> row.name, security |-> Tenths(row.security), type |-> TypeOfRow(row)])

LoadRow(row) ==
  /\ sID' = Inserted(sID, Lower[row.name], row.id)
  /\ systems' = Inserted(systems, row.id,
       [name |-> row.name, security |-> Tenths(row.security), type |-> TypeOfRow(row)])

InfoNext == \E row \in unread : LoadRow(row) /\ unread' = unread \ {row}
InfoSpec == InfoInit /\ [][InfoNext]_infoVars

-----------------------------------------------------------------------------
(* getSecurity and getType; -100 (here -1000 tenths) and "" stand for an unknown system. *)
GetSecurity(id) == IF id \in DOMAIN systems THEN systems[id].security ELSE -1000
GetType(id) == IF id \in DOMAIN systems THEN systems[id].type ELSE ""

(* getHTMLColour: red, orange, green. *)
GetHTMLColour(id) ==
  CASE GetSecurity(id) <= 0 -> "#FF0000"
    [] GetSecurity(id) \in 1 .. 4 -> "#FF8000"
    [] OTHER -> "#O1DF3A"

(***************************************************************************)
(* Every system read so far is found by its name, whatever its case, and   *)
(* what a name finds has that name: of two systems that share one, the one *)
(* read first.                                                             *)
(***************************************************************************)
NamesResolve ==
  /\ \A id \in DOMAIN systems :
       /\ systems[id].type \in SystemType \ {""}
       /\ Lower[systems[id].name] \in DOMAIN sID
  /\ \A n \in DOMAIN sID : sID[n] \in DOMAIN systems /\ Lower[systems[sID[n]].name] = n

(***************************************************************************)
(* The page and the search judge security alike: green is high security,   *)
(* orange low, red everything else, Thera aside, whose class is its name.  *)
(***************************************************************************)
ColourTellsClass ==
  \A id \in DOMAIN systems :
    GetType(id) # "Thera" =>
      /\ (GetHTMLColour(id) = "#O1DF3A") = (GetType(id) = "HS")
      /\ (GetHTMLColour(id) = "#FF8000") = (GetType(id) = "LS")

(***************************************************************************)
(* The security shown is a nearest tenth of the one in the database, on    *)
(* either side of zero.                                                    *)
(***************************************************************************)
SecurityNearest ==
  \A row \in Rows \ unread :
    GetSecurity(row.id) * 10 - row.security \in -5 .. 5
=============================================================================
