---------------------------- MODULE AnswerReader ----------------------------
(***************************************************************************)
(* What the loaders make of a JSON value: NovaLoader and Connections of    *)
(* the chain, TheraLoader and Connections of Thera's exits, SystemInfo of  *)
(* the names.  Each walks the value and demands of every member it comes   *)
(* to that it be there and be of a kind.  A member that is not there is    *)
(* find() returning end(), which is dereferenced all the same; one of      *)
(* another kind makes get_obj(), get_str() or get_int() throw.  What has   *)
(* been added before stays.                                                *)
(*                                                                         *)
(* JsonReader builds the value, so the properties are about texts that are *)
(* cut short as well.                                                      *)
(***************************************************************************)
EXTENDS JsonReader

CONSTANTS
  Trees,      \* what Siggy may have meant to say, and every part of it
  Size(_, _)  \* how much of a tree there is behind its first items

Demand(path, kind) == [path |-> path, kind |-> kind]

(* Fault: a string that is not there counts as one that says nothing. *)
MetLeniently(v, d) ==
  \/ d.path \notin DOMAIN v /\ d.kind = "string"
  \/ d.path \in DOMAIN v /\ d.kind = "any"
  \/ d.path \in DOMAIN v /\ d.kind = "object" /\ v[d.path] = "object"
  \/ d.path \in DOMAIN v /\ d.kind = "string" /\ v[d.path] \notin {"object", "array"} \cup Scalars
  \/ d.path \in DOMAIN v /\ d.kind = "int" /\ v[d.path] \in Scalars

Met(v, d) ==
  /\ d.path \in DOMAIN v
  /\ d.kind = "object" => v[d.path] = "object"
  /\ d.kind = "string" => v[d.path] \notin {"object", "array"} \cup Scalars
  /\ d.kind = "int" => v[d.path] \in Scalars \ {"true", "false", "null"}

(* A step of a walk: what it demands, and what it then adds. *)
Step(demands, adds) == [demands |-> demands, adds |-> adds]
MetBy(v, step) == \A d \in step.demands : Met(v, d)

(* There is a step for each member of an object; none if it is no object. *)
Members(v, path) ==
  IF path \in DOMAIN v /\ v[path] = "object" THEN Children(v, path) ELSE {}

At(v, path, member) ==
  IF Append(path, member) \in DOMAIN v THEN v[Append(path, member)] ELSE ""

Strings(path, members) ==
  {Demand(path, "object")} \cup {Demand(Append(path, m), "string") : m \in members}

Opening(path, kind) ==
  {Demand(<< >>, "object"), Demand(<< "chainMap" >>, "object"), Demand(path, kind)}

Holes == << "chainMap", "wormholes" >>
Bridges == << "chainMap", "jumpbridges" >>
Systems == << "chainMap", "systems" >>

HoleStep(v, path) ==
  Step(Opening(Holes, "any")
         \cup Strings(path, {"from_system_id", "to_system_id", "frigate_sized", "eol", "mass"}),
       {[source |-> "hole", from |-> At(v, path, "from_system_id"), to |-> At(v, path, "to_system_id"),
         frigate |-> At(v, path, "frigate_sized") = "1", eol |-> At(v, path, "eol") = "1",
         mass |-> At(v, path, "mass")]})

BridgeStep(v, path) ==
  Step(Opening(Bridges, "any") \cup Strings(path, {"from_system_id", "to_system_id"}),
       {[source |-> "bridge", from |-> At(v, path, "from_system_id"), to |-> At(v, path, "to_system_id")]})

NameStep(v, path) ==
  Step(Opening(Systems, "object") \cup Strings(path, {"displayName"}),
       {[source |-> "name", sys |-> Last(path), nick |-> At(v, path, "displayName")]})

ExitStep(v, path) ==
  LET system == Append(path, "system")
  IN  Step({Demand(<< >>, "object"), Demand(path, "object"), Demand(system, "object"),
            Demand(Append(system, "id"), "int")},
           {[source |-> "exit", to |-> At(v, system, "id")]})

(* loadSiggyConnections, and NovaLoader::loadConnection *)
NovaWalk(v) ==
  {HoleStep(v, p) : p \in Members(v, Holes)} \cup {BridgeStep(v, p) : p \in Members(v, Bridges)}

(* updateWithSiggy *)
NamesWalk(v) == {NameStep(v, p) : p \in Members(v, Systems)}

(* loadTheraConnections, and TheraLoader::loadConnection *)
TheraWalk(v) == {ExitStep(v, p) : p \in Members(v, << >>)}

(* A walk ends at its first unmet demand, or gets past it: what is read    *)
(* behind end() may look like a value that is to be skipped.  So this is   *)
(* the most that may be added, and the order of the steps is left out.     *)
Added(v, walk) == UNION {step.adds : step \in {s \in walk : MetBy(v, s)}}

-----------------------------------------------------------------------------
(***************************************************************************)
(* What a text says, without the reading.  A tree has at its root a token, *)
(* or "object" or "array", and under that its items, each with a key.      *)
(***************************************************************************)
Compound(tree) == tree.at \in {"object", "array"}

ASSUME TreesAssumption ==
  \A tree \in Trees :
    /\ tree.at \in STRING
    /\ ~Compound(tree) => tree.at \notin Punctuation /\ tree.items = << >>
    /\ tree.items \in Seq([key : STRING, tree : Trees])
    /\ \A i \in DOMAIN tree.items :
         /\ tree.at = "object" => IsString(tree.items[i].key)
         /\ tree.at = "array" => tree.items[i].key = ElementName(i - 1)
    /\ tree.at = "array" =>
         \A i, j \in DOMAIN tree.items : tree.items[i].key = tree.items[j].key => i = j

(* They are finite, so that recursion along them ends. *)
ASSUME SizeAssumption ==
  \A tree \in Trees : \A n \in 0 .. Len(tree.items) :
    /\ Size(tree, n) \in Nat
    /\ n # Len(tree.items) => Size(tree.items[n + 1].tree, 0) < Size(tree, n)
    /\ \A m \in 0 .. n : m # n => Size(tree, n) < Size(tree, m)

Open(kind) == IF kind = "object" THEN "{" ELSE "["
Close(kind) == IF kind = "object" THEN "}" ELSE "]"
Key(tree, i) == IF tree.at = "object" THEN << tree.items[i].key, ":" >> ELSE << >>

Written(left, tree) ==
  IF Compound(tree) THEN << Open(tree.at) >> \o left[<< tree, 0 >>] ELSE << tree.at >>

(* The text of a compound, from behind its first n items. *)
Places == UNION {{<< tree, n >> : n \in 0 .. Len(tree.items)} : tree \in {t \in Trees : Compound(t)}}

LeftBy(left, tree, n) ==
  IF n = Len(tree.items) THEN << Close(tree.at) >>
  ELSE (IF n = 0 THEN << >> ELSE << "," >>)
         \o (Key(tree, n + 1) \o (Written(left, tree.items[n + 1].tree) \o left[<< tree, n + 1 >>]))

Left[x \in Places] == LeftBy(Left, x[1], x[2])

Text(tree) == Written(Left, tree)

(* Of items with one key the last counts. *)
Lasting(tree) ==
  {i \in DOMAIN tree.items : \A j \in DOMAIN tree.items : j > i => tree.items[j].key # tree.items[i].key}

ValueBy(values, tree) ==
  [p \in {<< >>} \cup UNION {{<< tree.items[i].key >> \o q : q \in DOMAIN values[tree.items[i].tree]} :
                            i \in Lasting(tree)} |->
     IF p = << >> THEN tree.at
     ELSE LET i == CHOOSE j \in Lasting(tree) : tree.items[j].key = Head(p)
          IN  values[tree.items[i].tree][Tail(p)]]

Value[tree \in Trees] == ValueBy(Value, tree)

DifferBy(differ, tree) ==
  Lasting(tree) = DOMAIN tree.items /\ \A i \in DOMAIN tree.items : differ[tree.items[i].tree]

NamesDiffer[tree \in Trees] == DifferBy(NamesDiffer, tree)

(***************************************************************************)
(* A text that comes whole is accepted, and read to its end as what it     *)
(* says.                                                                   *)
(***************************************************************************)
ReadsWhole ==
  \A tree \in Trees :
    Returned /\ source = Text(tree) => Accepted /\ value = Value[tree] /\ text = << >>

(***************************************************************************)
(* A text that is cut short, at whatever token, is refused: the verdict    *)
(* that getData does not look at would tell it from a whole one.           *)
(***************************************************************************)
CutIsRefused ==
  \A tree \in Trees :
    Returned /\ IsStrictPrefix(source, Text(tree)) => ~Accepted

(***************************************************************************)
(* What a text that is cut short leaves in the value, though it is         *)
(* refused, is a part of what the whole would have said: members are       *)
(* missing, and none is put where it does not belong or made up.           *)
(***************************************************************************)
CutIsPartial ==
  \A tree \in Trees :
    IsPrefix(source, Text(tree)) /\ NamesDiffer[tree] =>
      \A p \in DOMAIN value : p \in DOMAIN Value[tree] /\ value[p] = Value[tree][p]

(***************************************************************************)
(* However short an answer is cut, the loaders add no connection, tag or   *)
(* name that the whole answer does not have.                               *)
(***************************************************************************)
CutNeverInvents ==
  \A tree \in Trees :
    Returned /\ IsPrefix(source, Text(tree)) /\ NamesDiffer[tree] =>
      /\ Added(value, NovaWalk(value)) \subseteq Added(Value[tree], NovaWalk(Value[tree]))
      /\ Added(value, NamesWalk(value)) \subseteq Added(Value[tree], NamesWalk(Value[tree]))
      /\ Added(value, TheraWalk(value)) \subseteq Added(Value[tree], TheraWalk(Value[tree]))
=============================================================================
