----------------------------- MODULE JsonReader -----------------------------
(***************************************************************************)
(* json_spirit::read as getData calls it: the value is built by semantic   *)
(* actions while the text is parsed, in the place where the caller will    *)
(* look for it.  Where the grammar misses a piece a throw_not_... function *)
(* throws; read_range catches that and returns false, and what has been    *)
(* built so far stays, which is what a caller sees that does not look at   *)
(* the verdict.  A text is a sequence of tokens, so it may end between any *)
(* two of them, but not within one.                                        *)
(*                                                                         *)
(* A value is a function from the paths there are in it to what stands     *)
(* there: "object", "array" or the token of a leaf; the root is << >>.  A  *)
(* path is a sequence of names, an element of an array going by its index. *)
(***************************************************************************)
EXTENDS Naturals, FiniteSets, Sequences, SequencesExt, TLC

CONSTANTS
  Texts,           \* the texts to read
  Scalars,         \* the leaves that are not strings: numbers, true, false, null
  ElementName(_)   \* how paths name the first, second, ... element of an array, from 0

(* "object" and "array" say what stands at a path and are no tokens. *)
ASSUME TokenAssumption == \A t \in Texts : t \in Seq(STRING \ {"object", "array"})

Punctuation == {"{", "}", "[", "]", ",", ":"}
IsString(token) == token \notin Punctuation \cup Scalars
StartsValue(token) == token \notin {"}", "]", ",", ":"}

VARIABLES
  source,    \* the text that is read
  text,      \* what of it is left
  value,     \* value_
  current,   \* the path of *current_p_; stack_ holds the paths before it
  name,      \* name_
  within,    \* the rules object_ and array_ the grammar is in
  expect     \* what it expects there; or nothing more, or "thrown"

jsonVars == <<source, text, value, current, name, within, expect>>

NoValue == [p \in {} |-> ""]
-----------------------------------------------------------------------------
Children(v, p) == {q \in DOMAIN v : Len(q) = Len(p) + 1 /\ IsPrefix(p, q)}

(* Where add_to_current puts what it adds. *)
Place ==
  CASE value = NoValue -> << >>
    [] value # NoValue /\ value[current] = "array" ->
         Append(current, ElementName(Cardinality(Children(value, current))))
    [] OTHER -> Append(current, name)

(* Adding under a name that is there already replaces what it had. *)
With(what) ==
  [p \in {q \in DOMAIN value : ~IsPrefix(Place, q)} \cup {Place} |->
     IF p = Place THEN what ELSE value[p]]

Ahead(token) == text # << >> /\ Head(text) = token
Take == text' = Tail(text) /\ UNCHANGED source

(* A member or an element can begin with this token. *)
StartsItem(token) ==
  IF Last(within) = "object" THEN IsString(token) ELSE StartsValue(token)

ItemAhead == expect \in {"item or end", "item"} /\ text # << >> /\ StartsItem(Head(text))
ValueAhead ==
  \/ expect = "value" /\ text # << >> /\ StartsValue(Head(text))
  \/ ItemAhead /\ Last(within) = "array"

(* After a value the rule it was part of goes on. *)
Afterwards(rules) == IF rules = << >> THEN "nothing" ELSE ", or end"

JsonInit ==
  /\ source \in Texts /\ text = source
  /\ value = NoValue /\ current = << >> /\ name = ""
  /\ within = << >> /\ expect = "value"

(* Fault: what was added last is added to next. *)
LeafBecomingCurrent ==
  /\ ValueAhead /\ Head(text) \notin Punctuation
  /\ Take
  /\ value' = With(Head(text))
  /\ current' = Place
  /\ expect' = Afterwards(within)
  /\ UNCHANGED <<name, within>>

(* new_str, new_int and the rest. *)
Leaf ==
  /\ ValueAhead /\ Head(text) \notin Punctuation
  /\ Take
  /\ value' = With(Head(text))
  /\ expect' = Afterwards(within)
  /\ UNCHANGED <<current, name, within>>

BeginCompound(open, kind) ==
  /\ ValueAhead /\ Ahead(open)
  /\ Take
  /\ value' = With(kind)
  /\ current' = Place
  /\ within' = Append(within, kind)
  /\ expect' = "item or end"
  /\ UNCHANGED name

BeginObj == BeginCompound("{", "object")
BeginArray == BeginCompound("[", "array")

MayEnd(close, kind) ==
  expect \in {", or end", "item or end"} /\ Last(within) = kind /\ Ahead(close)

(* Fault: the parent is not taken from the stack. *)
EndCompoundStaying(close, kind) ==
  /\ MayEnd(close, kind)
  /\ Take
  /\ within' = Front(within)
  /\ expect' = Afterwards(within')
  /\ UNCHANGED <<value, current, name>>

EndCompound(close, kind) ==
  /\ MayEnd(close, kind)
  /\ Take
  /\ current' = IF current = << >> THEN << >> ELSE Front(current)
  /\ within' = Front(within)
  /\ expect' = Afterwards(within')
  /\ UNCHANGED <<value, name>>

EndObj == EndCompound("}", "object")
EndArray == EndCompound("]", "array")

(* Fault: the member is made at once, to be filled in later. *)
NewNamePlacing ==
  /\ ItemAhead /\ Last(within) = "object"
  /\ Take
  /\ name' = Head(text)
  /\ expect' = ":"
  /\ value' = Append(current, Head(text)) :> "null" @@ value
  /\ UNCHANGED <<current, within>>

(* The assertion, that an object is under construction, never fails: see   *)
(* JsonTypeOK.                                                             *)
NewName ==
  /\ ItemAhead /\ Last(within) = "object"
  /\ Take
  /\ name' = Head(text)
  /\ expect' = ":"
  /\ UNCHANGED <<value, current, within>>

Colon ==
  /\ expect = ":" /\ Ahead(":")
  /\ Take
  /\ expect' = "value"
  /\ UNCHANGED <<value, current, name, within>>

(* A comma nothing can follow is left where it is. *)
CommaAhead == expect = ", or end" /\ Ahead(",") /\ Len(text) > 1 /\ StartsItem(text[2])

Comma ==
  /\ CommaAhead
  /\ Take
  /\ expect' = "item"
  /\ UNCHANGED <<value, current, name, within>>

NoColon == expect = ":" /\ ~Ahead(":")
NotAValue == expect = "value" /\ ~ValueAhead
NoEnd ==
  /\ expect \in {", or end", "item or end"} /\ ~ItemAhead /\ ~CommaAhead
  /\ ~MayEnd("}", "object") /\ ~MayEnd("]", "array")

(* Fault: an error function that returns, so that the grammar goes on as   *)
(* if the missing piece had been there.                                    *)
GoOn ==
  /\ \/ NoColon /\ expect' = "value" /\ UNCHANGED within
     \/ NotAValue /\ expect' = Afterwards(within) /\ UNCHANGED within
     \/ NoEnd /\ within' = Front(within) /\ expect' = Afterwards(within')
  /\ UNCHANGED <<source, text, value, current, name>>

(* throw_not_colon, throw_not_value, and throw_not_object or _array. *)
Throw ==
  /\ NoColon \/ NotAValue \/ NoEnd
  /\ expect' = "thrown"
  /\ UNCHANGED <<source, text, value, current, name, within>>

JsonNext ==
  \/ Leaf \/ BeginObj \/ BeginArray \/ EndObj \/ EndArray \/ NewName \/ Colon \/ Comma
  \/ Throw

JsonSpec == JsonInit /\ [][JsonNext]_jsonVars

(* read has returned true, or false. *)
Accepted == expect = "nothing"
Returned == Accepted \/ expect = "thrown"
-----------------------------------------------------------------------------
(***************************************************************************)
(* Whatever the text, the value hangs together, and the compounds from its *)
(* root to the one under construction are those of the rules the grammar   *)
(* is in.  So an end always has its parent to go to, and the assertions of *)
(* new_name and add_to_current, on what *current_p_ is, never fail.        *)
(***************************************************************************)
JsonTypeOK ==
  /\ IsSuffix(text, source)
  /\ value # NoValue => current \in DOMAIN value
  /\ IF within = << >> THEN current = << >> ELSE Len(within) = Len(current) + 1
  /\ \A i \in DOMAIN within : value[SubSeq(current, 1, i - 1)] = within[i]
  /\ \A p \in DOMAIN value :
       p # << >> => Front(p) \in DOMAIN value /\ value[Front(p)] \in {"object", "array"}
=============================================================================
