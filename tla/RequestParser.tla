--------------------------- MODULE RequestParser ---------------------------
(***************************************************************************)
(* From a URI to a question for the route finder.  The variables start,    *)
(* finish and avoidSet live outside the request loop of FCGI() and carry   *)
(* over from one request to the next unless they are reset.                *)
(***************************************************************************)
EXTENDS ConnectionTags, Sequences, SequencesExt

CONSTANTS
  SIDOf,      \* SystemInfo::sID: the system of each lower-case proper name
  Lower,      \* Misc::lowerCase on the names that may be asked for
  Encode,     \* what a browser's form makes of a typed name
  Requests    \* the requests that may arrive

NoSID == -1

ASSUME ParserAssumption ==
  /\ "j105934" \in DOMAIN SIDOf
  /\ \A name \in DOMAIN SIDOf : SIDOf[name] # NoSID

(* split gives a list of lists. *)
ASSUME RequestAssumption == \A r \in Requests : r.args \in Seq(Seq(STRING))

VARIABLES
  request,    \* the request last accepted
  start,      \* the starting system's name, "" if none
  finish,     \* the finish system's name, "" if none
  avoidSet,   \* the tags to avoid
  verdict     \* "none" before the first request, then "favicon", "valid" or "invalid"

parserVars == <<request, start, finish, avoidSet, verdict>>

-----------------------------------------------------------------------------
(***************************************************************************)
(* The form.  A box that is not ticked is left out of the URI; a text box  *)
(* left empty gives "start=", which splits into one element.               *)
(***************************************************************************)
Box(name, value) == [name |-> name, value |-> value]

Boxes ==
  <<Box("frigate", "Frigate"), Box("gate", "Gate"), Box("hs", "HS"), Box("reduced", "Reduced"),
    Box("wh", "WH"), Box("ls", "LS"), Box("crit", "Crit"), Box("jb", "JB"), Box("ns", "NS"),
    Box("eol", "EOL"), Box("js", "JS"), Box("thera", "Thera")>>

TextArg(name, typed) == IF typed = "" THEN <<name>> ELSE <<name, Encode[typed]>>

FormRequest(from, to, ticked) ==
  [uri   |-> "form",
   from  |-> from,
   to    |-> to,
   boxes |-> ticked,
   args  |-> <<TextArg("start", from), TextArg("finish", to)>>
             \o LET sent == SelectSeq(Boxes, LAMBDA b : b.value \in ticked)
                IN  [i \in DOMAIN sent |-> <<sent[i].name, sent[i].value>>]]

(* A URI somebody wrote, bookmarked or edited: its args, split at '='. *)
LinkRequest(args) == [uri |-> "link", args |-> args]

FaviconRequest == [uri |-> "favicon", args |-> << >>]

-----------------------------------------------------------------------------
(* SystemInfo::getSID *)
GetSID(name) ==
  CASE name = "" -> NoSID
    [] name # "" /\ Lower[name] = "nova" -> SIDOf["j105934"]
    [] name # "" /\ Lower[name] # "nova" /\ Lower[name] \in DOMAIN SIDOf -> SIDOf[Lower[name]]
    [] OTHER -> NoSID

(* Each line of Misc::getAvoidSet: a box, the value looked for, the tag.   *)
Line(name, value, tag) == [name |-> name, value |-> value, tag |-> tag]

AvoidLines ==
  {Line("frigate", "Frigate", "Frigate"), Line("reduced", "Reduced", "Reduced"),
   Line("crit", "Crit", "Crit"), Line("eol", "EOL", "EOL"), Line("gate", "Gate", "EOL"),
   Line("wh", "WH", "WH"), Line("jb", "JB", "JB"), Line("hs", "HS", "HS"), Line("ls", "LS", "LS"),
   Line("ns", "NS", "NS"), Line("js", "JS", "JS"), Line("thera", "Thera", "Thera")}

(* Fault: the name of the box is taken for the tag. *)
GetAvoidSetNames(avoidMap) ==
  {line.name : line \in {l \in AvoidLines :
                           l.name \in DOMAIN avoidMap /\ avoidMap[l.name] = l.value}}

GetAvoidSet(avoidMap) ==
  {line.tag : line \in {l \in AvoidLines :
                          l.name \in DOMAIN avoidMap /\ avoidMap[l.name] = l.value}}

(* Fault: repeated parameters overwrite one another. *)
AbsorbOverwriting(parsed, param) ==
  IF Len(param) # 2 THEN parsed
  ELSE [start    |-> IF param[1] = "start" THEN param[2] ELSE parsed.start,
        finish   |-> IF param[1] = "finish" THEN param[2] ELSE parsed.finish,
        avoidMap |-> [name \in DOMAIN parsed.avoidMap \cup {param[1]} |->
                       IF name = param[1] THEN param[2] ELSE parsed.avoidMap[name]]]

(* One turn of parseURI's loop.  insert keeps the first value of a name.   *)
Absorb(parsed, param) ==
  IF Len(param) # 2 THEN parsed
  ELSE [start    |-> IF param[1] = "start" THEN param[2] ELSE parsed.start,
        finish   |-> IF param[1] = "finish" THEN param[2] ELSE parsed.finish,
        avoidMap |-> [name \in DOMAIN parsed.avoidMap \cup {param[1]} |->
                       IF name \in DOMAIN parsed.avoidMap THEN parsed.avoidMap[name] ELSE param[2]]]

(* parseURI is given the caller's start and finish by reference.           *)
ParseURI(args, s, f) ==
  LET upTo[i \in 0 .. Len(args)] ==
        IF i = 0 THEN [start |-> s, finish |-> f, avoidMap |-> [name \in {} |-> ""]]
        ELSE Absorb(upTo[i - 1], args[i])
  IN  upTo[Len(args)]

Verdict(s, f) ==
  IF s = "" \/ f = "" \/ GetSID(s) = NoSID \/ GetSID(f) = NoSID THEN "invalid" ELSE "valid"

(***************************************************************************)
(* The head of the request loop: start, finish and avoidSet are reset, a   *)
(* request for the icon is passed over, any other one is parsed.           *)
(***************************************************************************)
Take(r, s, f) ==
  /\ request' = r
  /\ IF r.uri = "favicon"
     THEN start' = s /\ finish' = f /\ avoidSet' = {} /\ verdict' = "favicon"
     ELSE LET parsed == ParseURI(r.args, s, f)
          IN  /\ start' = parsed.start
              /\ finish' = parsed.finish
              /\ avoidSet' = GetAvoidSet(parsed.avoidMap)
              /\ verdict' = Verdict(parsed.start, parsed.finish)

(* Fault: the names of the previous request are not reset. *)
ReceiveWithoutReset(r) == Take(r, start, finish)

Receive(r) == Take(r, "", "")

-----------------------------------------------------------------------------
ParserInit ==
  /\ request = FaviconRequest
  /\ start = ""
  /\ finish = ""
  /\ avoidSet = {}
  /\ verdict = "none"

ParserNext == \E r \in Requests : Receive(r)

ParserSpec == ParserInit /\ [][ParserNext]_parserVars

-----------------------------------------------------------------------------
(* What a URI says of a name, read without the parser. *)
Gives(arg, name) == Len(arg) = 2 /\ arg[1] = name

FirstGiven(args, name, value) ==
  \E i \in DOMAIN args :
    /\ Gives(args[i], name) /\ args[i][2] = value
    /\ \A j \in 1 .. i - 1 : ~Gives(args[j], name)

LastGiven(args, name, value) ==
  \/ value = "" /\ \A i \in DOMAIN args : ~Gives(args[i], name)
  \/ \E i \in DOMAIN args :
       /\ Gives(args[i], name) /\ args[i][2] = value
       /\ \A j \in i + 1 .. Len(args) : ~Gives(args[j], name)

(***************************************************************************)
(* What is asked of the finder is a matter of the present URI alone,       *)
(* whatever was asked before.  If it names a system twice the last one     *)
(* counts, if it sets a box twice the first one does, and a request is     *)
(* valid just if it names two systems there are.                           *)
(***************************************************************************)
OutcomeFromURIAlone ==
  verdict \in {"valid", "invalid"} =>
    /\ LastGiven(request.args, "start", start)
    /\ LastGiven(request.args, "finish", finish)
    /\ \A b \in Range(Boxes) \ {Box("gate", "Gate"), Box("eol", "EOL")} :
         b.value \in avoidSet <=> FirstGiven(request.args, b.name, b.value)
    /\ verdict = "valid" <=> GetSID(start) # NoSID /\ GetSID(finish) # NoSID

(***************************************************************************)
(* The form says "Avoid:" over its boxes, Stargate among them: what is     *)
(* ticked is what is avoided.                                              *)
(***************************************************************************)
TickedIsAvoided ==
  verdict = "valid" /\ request.uri = "form" => avoidSet = request.boxes

(***************************************************************************)
(* The form asks for proper names and says that case does not matter:      *)
(* typing two of them makes a valid request.                               *)
(***************************************************************************)
ProperNamesAccepted ==
  request.uri = "form" /\ {Lower[request.from], Lower[request.to]} \subseteq DOMAIN SIDOf =>
    verdict = "valid"
=============================================================================
