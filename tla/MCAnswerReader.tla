--------------------------- MODULE MCAnswerReader ---------------------------
(***************************************************************************)
(* Answers for TLC, whole, cut after every token, and malformed.           *)
(***************************************************************************)
EXTENDS AnswerReader

MCScalars == {"null", "7", "9"}
MCElementName(i) == ToString(i)

Member(key, tree) == [key |-> key, tree |-> tree]
LeafOf(token) == [at |-> token, items |-> << >>]
ObjectOf(members) == [at |-> "object", items |-> members]
ArrayOf(elements) ==
  [at |-> "array", items |-> [i \in DOMAIN elements |-> Member(ToString(i - 1), elements[i])]]

String(key, s) == Member(key, LeafOf(s))
HoleTree(from, to, frigate, eol, mass) ==
  ObjectOf(<< String("to_system_id", to), String("from_system_id", from), String("mass", mass),
              String("eol", eol), String("frigate_sized", frigate) >>)
BridgeTree(from, to) == ObjectOf(<< String("from_system_id", from), String("to_system_id", to) >>)
NameTree(nick) == ObjectOf(<< String("displayName", nick) >>)

Chain(holes, bridges) ==
  ObjectOf(<< Member("chainMap", ObjectOf(
    << Member("jumpbridges", bridges),
       Member("systems", ObjectOf(<< Member("s1", NameTree("home")), Member("s2", NameTree("exit")) >>)),
       Member("wormholes", holes) >>)) >>)

ExitTree(id) == ObjectOf(<< Member("system", ObjectOf(<< Member("id", LeafOf(id)) >>)) >>)

NovaTrees ==
  {Chain(ObjectOf(<< Member("h2", HoleTree("j1", "jita", "1", "1", "2")),
                     Member("h1", HoleTree("j1", "j2", "0", "0", "1")) >>), ArrayOf(<< >>)),
   Chain(ArrayOf(<< >>), ObjectOf(<< Member("b1", BridgeTree("jita", "j2")) >>))}

TheraTrees == {ObjectOf(<< Member("t1", ExitTree("7")), Member("t2", ExitTree("9")) >>), ArrayOf(<< >>)}

(* A name said twice, an array with elements, a leaf for a text. *)
OddTrees ==
  {ObjectOf(<< Member("a", BridgeTree("j1", "j2")), Member("b", LeafOf("7")), Member("a", LeafOf("9")) >>),
   ArrayOf(<< LeafOf("7"), ObjectOf(<< >>), ArrayOf(<< LeafOf("x") >>) >>),
   LeafOf("x")}

MCAnswers == NovaTrees \cup TheraTrees \cup OddTrees

RECURSIVE PartsOf(_)
PartsOf(tree) == {tree} \cup UNION {PartsOf(tree.items[i].tree) : i \in DOMAIN tree.items}
MCTrees == UNION {PartsOf(tree) : tree \in MCAnswers}
MCSize(tree, n) == IF Compound(tree) THEN Len(Left[<< tree, n >>]) ELSE 0

(* A comma too many, a missing colon or value, brackets that do not match, *)
(* a page of HTML, an array that begins with a comma: each is refused.     *)
Malformed ==
  {<< "{", "a", ":", "[", ",", "b", ":", "7", "}" >>,
   << "{", "a", ":", "7", ",", "}" >>, << "{", "a", "7", "}" >>, << "[", "7", "}" >>,
   << "[", "7", ",", "]" >>, << "{", "7", ":", "x", "}" >>, << ":", "x" >>,
   << "{", "a", ":", "}" >>, << "{", "a", ":", "{", ",", "b", ":", "7", "}", "}" >>,
   << "{", "a", ":", "[", "}", ",", "b", ":", "7", "}" >>}

MCTexts ==
  Malformed \cup UNION {{SubSeq(Text(t), 1, n) : n \in 0 .. Len(Text(t))} : t \in MCAnswers}
=============================================================================
