-------------------------- MODULE JsonReaderProof --------------------------
(***************************************************************************)
(* The JSON reader for any text: the value hangs together, and its actions *)
(* and its grammar agree on what is under construction.  And for the text  *)
(* of any tree, whole or cut anywhere between two tokens: the whole is     *)
(* accepted as the tree's value, a cut one is refused and leaves a part of *)
(* it, of which the loaders make nothing that the whole would not have     *)
(* given.                                                                  *)
(***************************************************************************)
EXTENDS AnswerReader, FiniteSetTheorems, SequenceTheorems, NaturalsInduction,
        WellFoundedInduction, TLAPS

(* The provers do not know of a string that it is one. *)
Token == STRING \cup Punctuation \cup {""}
PathStep == Token \cup {ElementName(n) : n \in Nat}
Path == Seq(PathStep)
Kinds == {"object", "array"}

(* No path but a child's parent has it, and only compounds have children. *)
HangsTogether(v) ==
  \A p \in DOMAIN v : p # << >> => Front(p) \in DOMAIN v /\ v[Front(p)] \in Kinds

ValueType ==
  /\ value = [p \in DOMAIN value |-> value[p]]
  /\ DOMAIN value \subseteq Path /\ IsFiniteSet(DOMAIN value)
  /\ HangsTogether(value)

Cursor ==
  /\ current \in Path /\ name \in Token /\ within \in Seq(Kinds)
  /\ value = NoValue => within = << >> /\ current = << >>
  /\ value # NoValue => current \in DOMAIN value
  /\ within # << >> => value[current] \in Kinds

Grammar ==
  /\ expect \in {"value", "item or end", "item", ":", ", or end", "nothing", "thrown"}
  /\ expect \in {"item or end", "item", ":", ", or end"} => within # << >>
  /\ value # NoValue /\ expect = "value" => within # << >>

(* The first n steps of a path. *)
Upto(p, n) == SubSeq(p, 1, n)

(* The rules the grammar is in go with the compounds on the way from the   *)
(* root to the one under construction.                                     *)
Nested ==
  /\ within = << >> => current = << >>
  /\ within # << >> => Len(within) = Len(current) + 1
  /\ \A i \in 1 .. Len(within) :
       Upto(current, i - 1) \in DOMAIN value /\ value[Upto(current, i - 1)] = within[i]

Read ==
  /\ source \in Seq(Token) /\ text \in Seq(Token)
  /\ \E done \in Seq(Token) : source = done \o text

JsonInv == Read /\ ValueType /\ Cursor /\ Grammar /\ Nested

-----------------------------------------------------------------------------
(***************************************************************************)
(* Paths and texts.                                                        *)
(***************************************************************************)
LEMMA PrefixOf ==
  ASSUME NEW p \in Path, NEW q \in Path
  PROVE  IsPrefix(p, q) <=> Len(p) <= Len(q) /\ \A i \in 1 .. Len(p) : p[i] = q[i]
<1>1. Len(p) \in Nat /\ Len(q) \in Nat
  BY LenProperties DEF Path
<1>2. SubSeq(p, 1, Len(p)) = p
  BY SubSeqFull DEF Path
<1>3. ASSUME Len(p) <= Len(q)
      PROVE  /\ SubSeq(q, 1, Len(p)) \in Path /\ Len(SubSeq(q, 1, Len(p))) = Len(p)
             /\ \A i \in 1 .. Len(p) : SubSeq(q, 1, Len(p))[i] = q[i]
  <2>1. \A i \in 1 .. Len(p) : q[i] \in PathStep
    BY <1>1, <1>3, ElementOfSeq DEF Path
  <2>2. 1 \in Int /\ Len(p) \in Int
    BY <1>1
  <2>3. /\ SubSeq(q, 1, Len(p)) \in Seq(PathStep)
        /\ Len(SubSeq(q, 1, Len(p))) = IF 1 <= Len(p) THEN Len(p) - 1 + 1 ELSE 0
        /\ \A i \in 1 .. Len(p) - 1 + 1 : SubSeq(q, 1, Len(p))[i] = q[1 + i - 1]
    BY <2>1, <2>2, SubSeqProperties
  <2> QED
    BY <1>1, <2>3 DEF Path
<1> DEFINE h == SubSeq(q, 1, Len(p))
<1>4. IsPrefix(p, q) <=> Len(p) <= Len(q) /\ p = h
  BY <1>2 DEF IsPrefix
<1> HIDE DEF h
<1>5. ASSUME Len(p) <= Len(q), \A i \in 1 .. Len(p) : p[i] = q[i]
      PROVE  p = h
  <2>1. h \in Path /\ Len(h) = Len(p) /\ \A i \in 1 .. Len(p) : p[i] = h[i]
    BY <1>3, <1>5 DEF h
  <2> QED
    BY <2>1, SeqEqual DEF Path
<1>6. ASSUME Len(p) <= Len(q), p = h
      PROVE  \A i \in 1 .. Len(p) : p[i] = q[i]
  BY <1>3, <1>6 DEF h
<1> QED
  BY <1>4, <1>5, <1>6

LEMMA AppendPath ==
  ASSUME NEW p \in Path, NEW k \in PathStep
  PROVE  /\ Append(p, k) \in Path /\ Len(Append(p, k)) = Len(p) + 1 /\ Append(p, k) # << >>
         /\ \A i \in 1 .. Len(p) : Append(p, k)[i] = p[i]
         /\ Append(p, k)[Len(p) + 1] = k
BY AppendProperties DEF Path

LEMMA FrontSeq ==
  ASSUME NEW S, NEW p \in Seq(S), p # << >>
  PROVE  /\ Len(p) \in Nat \ {0} /\ Front(p) \in Seq(S) /\ Len(Front(p)) = Len(p) - 1
         /\ \A i \in 1 .. Len(p) - 1 : Front(p)[i] = p[i]
<1>1. Len(p) \in Nat \ {0}
  BY EmptySeq
<1>2. \A i \in 1 .. Len(p) - 1 : p[i] \in S
  BY <1>1, ElementOfSeq
<1>3. 1 \in Int /\ Len(p) - 1 \in Int
  BY <1>1
<1>4. /\ Front(p) \in Seq(S)
      /\ Len(Front(p)) = IF 1 <= Len(p) - 1 THEN Len(p) - 1 - 1 + 1 ELSE 0
      /\ \A i \in 1 .. Len(p) - 1 - 1 + 1 : Front(p)[i] = p[1 + i - 1]
  BY <1>2, <1>3, SubSeqProperties DEF Front
<1>5. Front(p) \in Seq(S)
  BY <1>4
<1>6. Len(Front(p)) = Len(p) - 1
  <2>1. \A n \in Nat \ {0} : (IF 1 <= n - 1 THEN n - 1 - 1 + 1 ELSE 0) = n - 1
    OBVIOUS
  <2> QED
    BY <1>1, <1>4, <2>1, Zenon
<1>7. \A i \in 1 .. Len(p) - 1 : Front(p)[i] = p[i]
  <2> SUFFICES ASSUME NEW i \in 1 .. Len(p) - 1 PROVE Front(p)[i] = p[i]
    OBVIOUS
  <2>1. i \in 1 .. Len(p) - 1 - 1 + 1 /\ 1 + i - 1 = i
    BY <1>1
  <2> QED
    BY <1>4, <2>1
<1> QED
  BY <1>1, <1>5, <1>6, <1>7

LEMMA FrontPath ==
  ASSUME NEW p \in Path, p # << >>
  PROVE  /\ Len(p) \in Nat \ {0} /\ Front(p) \in Path /\ Len(Front(p)) = Len(p) - 1
         /\ \A i \in 1 .. Len(p) - 1 : Front(p)[i] = p[i]
BY FrontSeq DEF Path

LEMMA FrontOfAppend ==
  ASSUME NEW p \in Path, NEW k \in PathStep
  PROVE  Front(Append(p, k)) = p
<1>1. /\ Append(p, k) \in Path /\ Len(Append(p, k)) = Len(p) + 1 /\ Append(p, k) # << >>
      /\ \A i \in 1 .. Len(p) : Append(p, k)[i] = p[i]
  BY AppendPath
<1>2. Len(p) \in Nat
  BY LenProperties DEF Path
<1> DEFINE a == Append(p, k)
<1>3. /\ Front(a) \in Path /\ Len(Front(a)) = Len(p)
      /\ \A i \in 1 .. Len(p) : Front(a)[i] = p[i]
  <2>1. a \in Path /\ Len(a) = Len(p) + 1 /\ a # << >> /\ \A i \in 1 .. Len(p) : a[i] = p[i]
    BY <1>1
  <2> HIDE DEF a
  <2>2. /\ Front(a) \in Path /\ Len(Front(a)) = Len(a) - 1
        /\ \A i \in 1 .. Len(a) - 1 : Front(a)[i] = a[i]
    BY <2>1, FrontPath
  <2>3. Len(a) - 1 = Len(p)
    BY <1>2, <2>1
  <2> QED
    BY <2>1, <2>2, <2>3
<1> QED
  BY <1>3, SeqEqual DEF Path

LEMMA UptoIs ==
  ASSUME NEW p \in Path, NEW n \in 0 .. Len(p)
  PROVE  /\ Upto(p, n) \in Path /\ Len(Upto(p, n)) = n
         /\ \A i \in 1 .. n : Upto(p, n)[i] = p[i]
<1>1. Len(p) \in Nat /\ 1 \in Int /\ n \in Int
  BY LenProperties DEF Path
<1>2. \A i \in 1 .. n : p[i] \in PathStep
  BY <1>1, ElementOfSeq DEF Path
<1>3. /\ Upto(p, n) \in Seq(PathStep)
      /\ Len(Upto(p, n)) = IF 1 <= n THEN n - 1 + 1 ELSE 0
      /\ \A i \in 1 .. n - 1 + 1 : Upto(p, n)[i] = p[1 + i - 1]
  BY <1>1, <1>2, SubSeqProperties DEF Upto
<1> QED
  BY <1>1, <1>3 DEF Path

LEMMA UptoAll ==
  ASSUME NEW p \in Path
  PROVE  Upto(p, Len(p)) = p
BY SubSeqFull DEF Upto, Path

(* Two paths that begin alike. *)
LEMMA UptoAlike ==
  ASSUME NEW p \in Path, NEW q \in Path, NEW n \in 0 .. Len(p), n <= Len(q),
         \A i \in 1 .. n : p[i] = q[i]
  PROVE  Upto(p, n) = Upto(q, n)
<1>1. n \in 0 .. Len(q)
  BY LenProperties DEF Path
<1>2. /\ Upto(p, n) \in Path /\ Len(Upto(p, n)) = n /\ \A i \in 1 .. n : Upto(p, n)[i] = p[i]
      /\ Upto(q, n) \in Path /\ Len(Upto(q, n)) = n /\ \A i \in 1 .. n : Upto(q, n)[i] = q[i]
  BY <1>1, UptoIs
<1> QED
  BY <1>2, SeqEqual DEF Path

LEMMA SuffixOf ==
  ASSUME NEW s \in Seq(Token), NEW t \in Seq(Token), NEW d \in Seq(Token), s = d \o t
  PROVE  IsSuffix(t, s)
<1> DEFINE r == Reverse(t)
           q == Reverse(s)
<1>1. /\ Len(t) \in Nat /\ Len(d) \in Nat /\ Len(s) = Len(d) + Len(t)
      /\ \A i \in 1 .. Len(d) + Len(t) : s[i] = IF i <= Len(d) THEN d[i] ELSE t[i - Len(d)]
  BY ConcatProperties, LenProperties
<1>2. /\ r \in Seq(Token) /\ Len(r) = Len(t)
      /\ \A k \in 1 .. Len(t) : r[k] = t[(Len(t) - k) + 1]
  BY <1>1 DEF Reverse
<1>3. /\ q \in Seq(Token) /\ Len(q) = Len(s)
      /\ \A k \in 1 .. Len(s) : q[k] = s[(Len(s) - k) + 1]
  BY <1>1 DEF Reverse
<1> HIDE DEF r, q
<1>4. \A k \in 1 .. Len(t) : r[k] = q[k]
  <2> SUFFICES ASSUME NEW k \in 1 .. Len(t) PROVE r[k] = q[k]
    OBVIOUS
  <2>1. k \in 1 .. Len(s) /\ (Len(s) - k) + 1 \in 1 .. Len(d) + Len(t)
        /\ (Len(s) - k) + 1 > Len(d) /\ ((Len(s) - k) + 1) - Len(d) = (Len(t) - k) + 1
    BY <1>1
  <2>2. s[(Len(s) - k) + 1] = t[(Len(t) - k) + 1]
    BY <1>1, <2>1
  <2> QED
    BY <1>2, <1>3, <2>1, <2>2
<1>5. /\ SubSeq(q, 1, Len(t)) \in Seq(Token) /\ Len(SubSeq(q, 1, Len(t))) = Len(t)
      /\ \A k \in 1 .. Len(t) : SubSeq(q, 1, Len(t))[k] = q[k]
  BY <1>1, <1>3
<1> DEFINE y == SubSeq(q, 1, Len(t))
<1>6. y \in Seq(Token) /\ Len(y) = Len(r) /\ \A k \in 1 .. Len(r) : y[k] = r[k]
  BY <1>2, <1>4, <1>5
<1> HIDE DEF y
<1>7. r = y /\ SubSeq(r, 1, Len(r)) = r
  BY <1>2, <1>6, SeqEqual, SubSeqFull
<1> QED
  BY <1>1, <1>2, <1>3, <1>7 DEF IsSuffix, IsPrefix, r, q, y

LEMMA HeadAndTail ==
  ASSUME NEW S, NEW s \in Seq(S), s # << >>
  PROVE  /\ s = << Head(s) >> \o Tail(s) /\ Head(s) = s[1] /\ Head(s) \in S
         /\ Tail(s) \in Seq(S) /\ << Head(s) >> \in Seq(S)
         /\ Len(s) \in Nat \ {0} /\ Len(Tail(s)) = Len(s) - 1
<1>1. Len(s) \in Nat \ {0}
  BY EmptySeq
<1>2. 1 \in 1 .. Len(s) /\ Len(s) \in 1 .. Len(s)
  BY <1>1
<1>3. SubSeq(s, 1, Len(s)) = << s[1] >> \o SubSeq(s, 1 + 1, Len(s))
  BY <1>2, SubSeqRecursiveFirst
<1>4. Tail(s) = SubSeq(s, 1 + 1, Len(s)) /\ SubSeq(s, 1, Len(s)) = s
  BY TailIsSubSeq, SubSeqFull
<1>5. Head(s) = s[1]
  BY DEF Head
<1>6. /\ Head(s) \in S /\ Tail(s) \in Seq(S) /\ Len(Tail(s)) = Len(s) - 1
  BY HeadTailProperties
<1>7. << Head(s) >> \in Seq(S)
  BY <1>6
<1> QED
  BY <1>1, <1>3, <1>4, <1>5, <1>6, <1>7, Zenon

(* A token is taken. *)
LEMMA TakeRead ==
  ASSUME Read, Take, text # << >>
  PROVE  Read' /\ text = << Head(text) >> \o text' /\ Head(text) \in Token
<1>1. PICK done \in Seq(Token) : source = done \o text
  BY DEF Read
<1> DEFINE h == << Head(text) >>
           t == Tail(text)
<1>2. /\ text = h \o t /\ Head(text) \in Token /\ h \in Seq(Token) /\ t \in Seq(Token)
  BY HeadAndTail DEF Read
<1>3. text' = t /\ source' = source
  BY DEF Take
<1> HIDE DEF h, t
<1>4. done \o h \in Seq(Token) /\ (done \o h) \o t = done \o (h \o t)
  BY <1>1, <1>2, ConcatAssociative, ConcatProperties
<1>5. source = (done \o h) \o t
  BY <1>1, <1>2, <1>4
<1> QED
  BY <1>2, <1>3, <1>4, <1>5 DEF Read, h

-----------------------------------------------------------------------------
(***************************************************************************)
(* What is added, and where.                                               *)
(***************************************************************************)
Placeable == value = NoValue \/ value[current] \in Kinds

LEMMA NothingThere ==
  ASSUME ValueType
  PROVE  value = NoValue <=> DOMAIN value = {}
<1>1. value = NoValue => DOMAIN value = {}
  BY DEF NoValue
<1>2. ASSUME DOMAIN value = {} PROVE value = NoValue
  <2>1. value = [p \in DOMAIN value |-> value[p]]
    BY DEF ValueType
  <2>2. value = [p \in {} |-> value[p]]
    BY <1>2, <2>1
  <2> QED
    BY <2>2 DEF NoValue
<1> QED
  BY <1>1, <1>2

LEMMA ChildCount ==
  ASSUME ValueType, NEW p \in Path
  PROVE  IsFiniteSet(Children(value, p)) /\ ElementName(Cardinality(Children(value, p))) \in PathStep
<1>1. Children(value, p) \in SUBSET DOMAIN value /\ IsFiniteSet(DOMAIN value)
  BY DEF Children, ValueType
<1>2. IsFiniteSet(Children(value, p))
  BY <1>1, FS_Subset
<1>3. Cardinality(Children(value, p)) \in Nat
  BY <1>2, FS_CardinalityType
<1> QED
  BY <1>2, <1>3 DEF PathStep

LEMMA PlaceFacts ==
  ASSUME ValueType, Cursor, Placeable
  PROVE  /\ Place \in Path
         /\ value = NoValue => Place = << >>
         /\ value # NoValue =>
              /\ \E k \in PathStep : Place = Append(current, k)
              /\ value[current] = "object" => Place = Append(current, name)
              /\ value[current] = "array" =>
                   Place = Append(current, ElementName(Cardinality(Children(value, current))))
              /\ value[current] \in Kinds
<1>1. current \in Path /\ name \in PathStep
  BY DEF Cursor, PathStep
<1>2. ElementName(Cardinality(Children(value, current))) \in PathStep
  BY <1>1, ChildCount
<1>3. CASE value = NoValue
  <2>1. Place = << >>
    BY <1>3 DEF Place
  <2> QED
    BY <1>3, <2>1, EmptySeq DEF Path
<1>4. CASE value # NoValue
  <2>1. value[current] \in Kinds
    BY <1>4 DEF Placeable
  <2>2. CASE value[current] = "array"
    <3>1. Place = Append(current, ElementName(Cardinality(Children(value, current))))
      BY <1>4, <2>2 DEF Place
    <3>2. Place \in Path
      BY <1>1, <1>2, <3>1, AppendPath
    <3> QED
      BY <1>2, <1>4, <2>1, <2>2, <3>1, <3>2
  <2>3. CASE value[current] = "object"
    <3>1. Place = Append(current, name)
      BY <1>4, <2>3 DEF Place
    <3>2. Place \in Path
      BY <1>1, <3>1, AppendPath
    <3> QED
      BY <1>1, <1>4, <2>1, <2>3, <3>1, <3>2
  <2> QED
    BY <2>1, <2>2, <2>3 DEF Kinds
<1> QED
  BY <1>3, <1>4

LEMMA AddedThere ==
  ASSUME ValueType, Placeable, Cursor, NEW what, value' = With(what)
  PROVE  /\ \A p \in Path : p \in DOMAIN value' <=>
              p = Place \/ (p \in DOMAIN value /\ ~IsPrefix(Place, p))
         /\ DOMAIN value' \subseteq Path /\ IsFiniteSet(DOMAIN value')
         /\ value' = [p \in DOMAIN value' |-> value'[p]] /\ value' # NoValue
         /\ value'[Place] = what
         /\ \A p \in DOMAIN value' : p # Place => p \in DOMAIN value /\ value'[p] = value[p]
<1> DEFINE kept == {q \in DOMAIN value : ~IsPrefix(Place, q)}
<1>1. value' = [p \in kept \cup {Place} |-> IF p = Place THEN what ELSE value[p]]
  BY DEF With
<1>2. kept \in SUBSET DOMAIN value /\ DOMAIN value \subseteq Path /\ IsFiniteSet(DOMAIN value)
      /\ Place \in Path
  BY PlaceFacts DEF ValueType
<1>3. IsFiniteSet(kept \cup {Place})
  <2>1. IsFiniteSet(kept)
    BY <1>2, FS_Subset
  <2> QED
    BY <2>1, FS_AddElement
<1>4. \A p : p \in kept <=> p \in DOMAIN value /\ ~IsPrefix(Place, p)
  OBVIOUS
<1> HIDE DEF kept
<1>5. DOMAIN value' = kept \cup {Place}
  BY <1>1
<1>6. value' = [p \in DOMAIN value' |-> value'[p]]
  BY <1>1, <1>5
<1>7. value' # NoValue
  BY <1>5 DEF NoValue
<1>8. value'[Place] = what /\ \A p \in DOMAIN value' : p # Place => value'[p] = value[p]
  BY <1>1, <1>5
<1>9. \A p : p \in DOMAIN value' <=> p = Place \/ (p \in DOMAIN value /\ ~IsPrefix(Place, p))
  <2>1. \A p : p \in DOMAIN value' <=> p \in kept \/ p = Place
    BY <1>5
  <2> QED
    BY <1>4, <2>1, Zenon
<1>10. DOMAIN value' \subseteq Path
  BY <1>2, <1>9
<1>11. IsFiniteSet(DOMAIN value')
  BY <1>3, <1>5
<1> QED
  BY <1>6, <1>7, <1>8, <1>9, <1>10, <1>11

LEMMA Placed ==
  ASSUME ValueType, Cursor, Placeable, NEW what, value' = With(what)
  PROVE  /\ ValueType' /\ value' # NoValue
         /\ Place \in DOMAIN value' /\ value'[Place] = what
         /\ value # NoValue => current \in DOMAIN value' /\ value'[current] = value[current]
<1>1. /\ \A p \in Path : p \in DOMAIN value' <=>
              p = Place \/ (p \in DOMAIN value /\ ~IsPrefix(Place, p))
      /\ DOMAIN value' \subseteq Path /\ IsFiniteSet(DOMAIN value')
      /\ value' = [p \in DOMAIN value' |-> value'[p]] /\ value' # NoValue
      /\ value'[Place] = what
      /\ \A p \in DOMAIN value' : p # Place => p \in DOMAIN value /\ value'[p] = value[p]
  BY AddedThere
<1>2. Place \in Path
  BY PlaceFacts
<1>3. ASSUME value # NoValue
      PROVE  /\ current \in DOMAIN value' /\ value'[current] = value[current]
             /\ value[current] \in Kinds /\ Front(Place) = current
  <2>1. PICK k \in PathStep : Place = Append(current, k)
    BY <1>3, PlaceFacts
  <2>2. current \in Path /\ current \in DOMAIN value
    BY <1>3 DEF Cursor
  <2>3. Len(current) \in Nat /\ Len(Place) = Len(current) + 1
    BY <2>1, <2>2, AppendPath, LenProperties DEF Path
  <2>4. ~IsPrefix(Place, current) /\ current # Place
    <3>1. ~(Len(Place) <= Len(current))
      BY <2>3
    <3> QED
      BY <1>2, <2>2, <3>1, PrefixOf
  <2>5. current \in DOMAIN value' /\ value'[current] = value[current]
    BY <1>1, <2>2, <2>4
  <2> QED
    BY <1>3, <2>1, <2>2, <2>5, FrontOfAppend, PlaceFacts
<1>4. HangsTogether(value')
  <2> SUFFICES ASSUME NEW p \in DOMAIN value', p # << >>
               PROVE  Front(p) \in DOMAIN value' /\ value'[Front(p)] \in Kinds
    BY DEF HangsTogether
  <2>1. p \in Path
    BY <1>1
  <2>2. CASE p = Place
    <3>1. value # NoValue
      BY <2>2, PlaceFacts
    <3> QED
      BY <1>3, <2>2, <3>1
  <2>3. CASE p # Place
    <3>1. p \in DOMAIN value /\ ~IsPrefix(Place, p)
      BY <1>1, <2>1, <2>3
    <3>2. Front(p) \in DOMAIN value /\ value[Front(p)] \in Kinds
      BY <3>1 DEF ValueType, HangsTogether
    <3>3. /\ Len(p) \in Nat \ {0} /\ Front(p) \in Path /\ Len(Front(p)) = Len(p) - 1
          /\ \A i \in 1 .. Len(p) - 1 : Front(p)[i] = p[i]
      BY <2>1, FrontPath
    <3>4. ~IsPrefix(Place, Front(p))
      <4> SUFFICES ASSUME IsPrefix(Place, Front(p)) PROVE IsPrefix(Place, p)
        BY <3>1
      <4>1. Len(Place) <= Len(Front(p)) /\ \A i \in 1 .. Len(Place) : Place[i] = Front(p)[i]
        BY <1>2, <3>3, PrefixOf
      <4>2. Len(Place) \in Nat
        BY <1>2, LenProperties DEF Path
      <4>3. Len(Place) <= Len(p) /\ \A i \in 1 .. Len(Place) : i \in 1 .. Len(p) - 1
        BY <3>3, <4>1, <4>2
      <4> QED
        BY <1>2, <2>1, <3>3, <4>1, <4>3, PrefixOf
    <3>5. Front(p) # Place
      <4>1. Len(Front(p)) \in Nat
        BY <3>3, LenProperties DEF Path
      <4>2. IsPrefix(Front(p), Front(p))
        BY <3>3, <4>1, PrefixOf
      <4> QED
        BY <3>4, <4>2
    <3>6. Front(p) \in DOMAIN value'
      BY <1>1, <3>2, <3>3, <3>4
    <3> QED
      BY <1>1, <3>2, <3>5, <3>6
  <2> QED
    BY <2>2, <2>3
<1>5. ValueType'
  BY <1>1, <1>4 DEF ValueType, HangsTogether
<1>6. Place \in DOMAIN value'
  BY <1>1, <1>2, Zenon
<1> QED
  BY <1>1, <1>3, <1>5, <1>6

-----------------------------------------------------------------------------
(***************************************************************************)
(* The value hangs together, whatever the text.                            *)
(***************************************************************************)
LEMMA NoRules == within = << >> /\ current = << >> => Nested
<1> SUFFICES ASSUME within = << >>, current = << >> PROVE Nested
  OBVIOUS
<1>1. Len(within) = 0
  OBVIOUS
<1>2. \A i \in 1 .. Len(within) : FALSE
  BY <1>1
<1> QED
  BY <1>2 DEF Nested

LEMMA InitInv == JsonInit => JsonInv
<1> SUFFICES ASSUME JsonInit PROVE JsonInv
  OBVIOUS
<1>1. source \in Seq(Token) /\ text = source /\ << >> \in Seq(Token) /\ source = << >> \o text
  <2>1. source \in Seq(STRING \ {"object", "array"}) /\ text = source
    BY TokenAssumption DEF JsonInit
  <2>2. source \in Seq(Token)
    <3>1. STRING \ {"object", "array"} \subseteq Token
      BY DEF Token
    <3> QED
      BY <2>1, <3>1, SeqMonotonic
  <2> QED
    BY <2>1, <2>2, EmptySeq, ConcatEmptySeq
<1>2. Read
  BY <1>1 DEF Read
<1>3. value = NoValue /\ DOMAIN value = {}
  BY DEF JsonInit, NoValue
<1>4. ValueType
  BY <1>3, FS_EmptySet DEF ValueType, HangsTogether, NoValue
<1>5. Cursor
  <2>1. << >> \in Seq(PathStep) /\ << >> \in Seq(Kinds)
    BY EmptySeq
  <2>2. current = << >> /\ within = << >> /\ name = ""
    BY DEF JsonInit
  <2>3. "" \in Token
    BY DEF Token
  <2> QED
    BY <1>3, <2>1, <2>2, <2>3 DEF Cursor, Path
<1>6. Grammar
  BY <1>3 DEF JsonInit, Grammar
<1>7. Nested
  BY NoRules DEF JsonInit
<1> QED
  BY <1>2, <1>4, <1>5, <1>6, <1>7 DEF JsonInv

LEMMA ValueThere ==
  ASSUME JsonInv, ValueAhead
  PROVE  /\ text # << >> /\ Placeable
         /\ within # << >> <=> value # NoValue
         /\ value = NoValue => within = << >> /\ current = << >>
<1>1. text # << >> /\ expect \in {"value", "item or end", "item"}
  BY DEF ValueAhead, ItemAhead
<1>2. value # NoValue => within # << >>
  BY <1>1 DEF JsonInv, Grammar
<1> QED
  BY <1>1, <1>2 DEF JsonInv, Cursor, Placeable

(* What is added leaves all that it is added under.                        *)
LEMMA StillNested ==
  ASSUME JsonInv, Placeable, value # NoValue, NEW what, value' = With(what),
         NEW i \in 1 .. Len(within)
  PROVE  Upto(current, i - 1) \in DOMAIN value' /\ value'[Upto(current, i - 1)] = within[i]
<1> DEFINE u == Upto(current, i - 1)
<1>1. /\ current \in Path /\ within \in Seq(Kinds) /\ ValueType /\ Cursor
      /\ u \in DOMAIN value /\ value[u] = within[i]
  BY DEF JsonInv, Cursor, Nested
<1>2. Len(current) \in Nat /\ Len(within) \in Nat
  BY <1>1, LenProperties DEF Path
<1>3. Len(within) = Len(current) + 1
  BY <1>2, EmptySeq DEF JsonInv, Nested
<1>4. i - 1 \in 0 .. Len(current)
  BY <1>2, <1>3
<1>5. u \in Path /\ Len(u) = i - 1
  BY <1>1, <1>4, UptoIs
<1>6. PICK k \in PathStep : Place = Append(current, k)
  BY <1>1, PlaceFacts
<1>7. Place \in Path /\ Len(Place) = Len(current) + 1
  BY <1>1, <1>6, AppendPath
<1> HIDE DEF u
<1>8. Len(u) < Len(Place)
  BY <1>2, <1>4, <1>5, <1>7
<1>9. ~IsPrefix(Place, u) /\ u # Place
  <2>1. ~(Len(Place) <= Len(u))
    BY <1>2, <1>4, <1>5, <1>7
  <2> QED
    BY <1>5, <1>7, <1>8, <2>1, PrefixOf
<1>10. u \in DOMAIN value' /\ value'[u] = value[u]
  BY <1>1, <1>5, <1>9, AddedThere
<1> QED
  BY <1>1, <1>10 DEF u

LEMMA LeafInv ==
  ASSUME JsonInv, Leaf
  PROVE  JsonInv'
<1>1. /\ ValueAhead /\ Take /\ value' = With(Head(text)) /\ expect' = Afterwards(within)
      /\ current' = current /\ name' = name /\ within' = within
  BY DEF Leaf
<1>2. text # << >> /\ Placeable /\ (within # << >> => value # NoValue)
  BY <1>1, ValueThere
<1>3. Read'
  BY <1>1, <1>2, TakeRead DEF JsonInv
<1>4. /\ ValueType' /\ value' # NoValue
      /\ Place \in DOMAIN value' /\ value'[Place] = Head(text)
      /\ value # NoValue => current \in DOMAIN value' /\ value'[current] = value[current]
  BY <1>1, <1>2, Placed DEF JsonInv
<1>5. current' \in DOMAIN value'
  <2>1. CASE value = NoValue
    <3>1. Place = << >> /\ current = << >>
      BY <1>2, <2>1, PlaceFacts DEF JsonInv, Cursor
    <3> QED
      BY <1>1, <1>4, <3>1
  <2> QED
    BY <1>1, <1>4, <2>1
<1>6. Cursor'
  <2>1. within' # << >> => value'[current'] = value[current]
    BY <1>1, <1>2, <1>4
  <2> QED
    BY <1>1, <1>4, <1>5, <2>1 DEF JsonInv, Cursor
<1>7. Grammar'
  BY <1>1, <1>4 DEF Grammar, Afterwards
<1>8. Nested'
  <2>1. CASE value = NoValue
    <3>1. within = << >> /\ current = << >>
      BY <1>1, <2>1, ValueThere
    <3> QED
      BY <1>1, <3>1 DEF Nested
  <2>2. CASE value # NoValue
    <3>1. \A i \in 1 .. Len(within) :
            Upto(current, i - 1) \in DOMAIN value' /\ value'[Upto(current, i - 1)] = within[i]
      BY <1>1, <1>2, <2>2, StillNested
    <3>2. /\ within = << >> => current = << >>
          /\ within # << >> => Len(within) = Len(current) + 1
      BY DEF JsonInv, Nested
    <3> QED
      BY <1>1, <3>1, <3>2 DEF Nested
  <2> QED
    BY <2>1, <2>2
<1> QED
  BY <1>3, <1>4, <1>6, <1>7, <1>8 DEF JsonInv

LEMMA BeginInv ==
  ASSUME JsonInv, NEW open, NEW kind \in Kinds, BeginCompound(open, kind)
  PROVE  JsonInv'
<1>1. /\ ValueAhead /\ Take /\ value' = With(kind) /\ expect' = "item or end"
      /\ current' = Place /\ name' = name /\ within' = Append(within, kind)
  BY DEF BeginCompound
<1>2. text # << >> /\ Placeable /\ (within # << >> <=> value # NoValue)
  BY <1>1, ValueThere
<1>3. Read'
  BY <1>1, <1>2, TakeRead DEF JsonInv
<1>4. /\ ValueType' /\ value' # NoValue /\ Place \in DOMAIN value' /\ value'[Place] = kind
  BY <1>1, <1>2, Placed DEF JsonInv
<1>5. /\ within' \in Seq(Kinds) /\ within' # << >> /\ Len(within') = Len(within) + 1
      /\ Len(within) \in Nat /\ within'[Len(within) + 1] = kind
      /\ \A i \in 1 .. Len(within) : within'[i] = within[i]
  <2>1. within \in Seq(Kinds)
    BY DEF JsonInv, Cursor
  <2>2. Len(within) \in Nat
    BY <2>1, LenProperties
  <2>3. /\ Append(within, kind) \in Seq(Kinds) /\ Append(within, kind) # << >>
        /\ Len(Append(within, kind)) = Len(within) + 1
        /\ Append(within, kind)[Len(within) + 1] = kind
        /\ \A i \in 1 .. Len(within) : Append(within, kind)[i] = within[i]
    BY <2>1, AppendProperties
  <2> QED
    BY <1>1, <2>2, <2>3
<1>6. /\ Place \in Path /\ Len(Place) = Len(within)
      /\ \A i \in 1 .. Len(within) :
           Upto(Place, i - 1) \in DOMAIN value' /\ value'[Upto(Place, i - 1)] = within[i]
  <2>1. CASE value = NoValue
    <3>1. Place = << >> /\ within = << >> /\ Place \in Path
      BY <1>2, <2>1, PlaceFacts DEF JsonInv, Cursor
    <3>2. Len(within) = 0 /\ Len(Place) = 0
      BY <3>1
    <3>3. \A i \in 1 .. Len(within) : FALSE
      BY <3>2
    <3> QED
      BY <3>1, <3>2, <3>3
  <2>2. CASE value # NoValue
    <3>1. PICK k \in PathStep : Place = Append(current, k)
      BY <1>2, <2>2, PlaceFacts DEF JsonInv
    <3>2. current \in Path /\ Len(current) \in Nat
      BY LenProperties DEF JsonInv, Cursor, Path
    <3>3. Place \in Path /\ Len(Place) = Len(current) + 1
          /\ \A i \in 1 .. Len(current) : Place[i] = current[i]
      BY <3>1, <3>2, AppendPath
    <3>4. Len(within) = Len(current) + 1
      BY <1>2, <2>2 DEF JsonInv, Nested
    <3>5. ASSUME NEW i \in 1 .. Len(within)
          PROVE  Upto(Place, i - 1) \in DOMAIN value' /\ value'[Upto(Place, i - 1)] = within[i]
      <4>1. /\ i - 1 \in 0 .. Len(current) /\ i - 1 <= Len(Place)
            /\ \A m \in 1 .. i - 1 : current[m] = Place[m]
        BY <3>2, <3>3, <3>4
      <4>2. Upto(current, i - 1) = Upto(Place, i - 1)
        BY <3>2, <3>3, <4>1, UptoAlike
      <4>3. Upto(current, i - 1) \in DOMAIN value' /\ value'[Upto(current, i - 1)] = within[i]
        BY <1>1, <1>2, <2>2, StillNested
      <4> QED
        BY <4>2, <4>3
    <3> QED
      BY <3>3, <3>4, <3>5
  <2> QED
    BY <2>1, <2>2
<1>7. Cursor'
  BY <1>1, <1>4, <1>5, <1>6 DEF JsonInv, Cursor
<1>8. Grammar'
  BY <1>1, <1>5 DEF Grammar
<1>9. Nested'
  <2>1. ASSUME NEW i \in 1 .. Len(within')
        PROVE  Upto(Place, i - 1) \in DOMAIN value' /\ value'[Upto(Place, i - 1)] = within'[i]
    <3>1. CASE i \in 1 .. Len(within)
      BY <1>5, <1>6, <3>1
    <3>2. CASE i = Len(within) + 1
      <4>1. i - 1 = Len(Place)
        BY <1>5, <1>6, <3>2
      <4>2. Upto(Place, i - 1) = Place
        BY <1>6, <4>1, UptoAll
      <4> QED
        BY <1>4, <1>5, <3>2, <4>2
    <3> QED
      BY <1>5, <3>1, <3>2
  <2>2. Len(within') = Len(Place) + 1
    BY <1>5, <1>6
  <2> QED
    BY <1>1, <1>5, <2>1, <2>2 DEF Nested
<1> QED
  BY <1>3, <1>4, <1>7, <1>8, <1>9 DEF JsonInv

LEMMA EndInv ==
  ASSUME JsonInv, NEW close, NEW kind, EndCompound(close, kind)
  PROVE  JsonInv'
<1>1. /\ MayEnd(close, kind) /\ Take /\ value' = value /\ name' = name
      /\ current' = IF current = << >> THEN << >> ELSE Front(current)
      /\ within' = Front(within) /\ expect' = Afterwards(within')
  BY DEF EndCompound
<1>2. text # << >> /\ expect \in {", or end", "item or end"}
  BY <1>1 DEF MayEnd, Ahead
<1>3. within # << >> /\ value # NoValue
  BY <1>2 DEF JsonInv, Grammar, Cursor
<1>4. Read'
  BY <1>1, <1>2, TakeRead DEF JsonInv
<1>5. ValueType'
  BY <1>1 DEF JsonInv, ValueType, HangsTogether
<1>6. /\ Len(within) \in Nat \ {0} /\ within' \in Seq(Kinds) /\ Len(within') = Len(within) - 1
      /\ \A i \in 1 .. Len(within) - 1 : within'[i] = within[i]
      /\ Len(within) = Len(current) + 1
      /\ current \in DOMAIN value /\ value[current] \in Kinds /\ current \in Path
  BY <1>1, <1>3, FrontSeq DEF JsonInv, Cursor, Nested
<1>7. /\ current' \in Path /\ current' \in DOMAIN value /\ value[current'] \in Kinds
      /\ Nested'
  <2>1. CASE current = << >>
    <3>1. current' = << >> /\ Len(current) = 0
      BY <1>1, <2>1
    <3>2. within' = << >>
      BY <1>6, <3>1, EmptySeq
    <3>3. \A i \in 1 .. Len(within') : FALSE
      BY <1>6, <3>1
    <3> QED
      BY <1>6, <2>1, <3>1, <3>2, <3>3 DEF Nested
  <2>2. CASE current # << >>
    <3>1. current' = Front(current)
      BY <1>1, <2>2
    <3>2. /\ Len(current) \in Nat \ {0} /\ Front(current) \in Path
          /\ Len(Front(current)) = Len(current) - 1
          /\ \A i \in 1 .. Len(current) - 1 : Front(current)[i] = current[i]
      BY <1>6, <2>2, FrontPath
    <3>3. Front(current) \in DOMAIN value /\ value[Front(current)] \in Kinds
      BY <1>6, <2>2 DEF JsonInv, ValueType, HangsTogether
    <3>4. Len(within') = Len(current') + 1 /\ Len(within') # 0
      BY <1>6, <3>1, <3>2
    <3>5. ASSUME NEW i \in 1 .. Len(within')
          PROVE  Upto(current', i - 1) \in DOMAIN value' /\ value'[Upto(current', i - 1)] = within'[i]
      <4>1. /\ i \in 1 .. Len(within) /\ i \in 1 .. Len(within) - 1
            /\ i - 1 \in 0 .. Len(Front(current)) /\ i - 1 <= Len(current)
            /\ \A m \in 1 .. i - 1 : Front(current)[m] = current[m]
        BY <1>6, <3>2
      <4>2. Upto(Front(current), i - 1) = Upto(current, i - 1)
        BY <1>6, <3>2, <4>1, UptoAlike
      <4>3. Upto(current, i - 1) \in DOMAIN value /\ value[Upto(current, i - 1)] = within[i]
        BY <4>1 DEF JsonInv, Nested
      <4> QED
        BY <1>1, <1>6, <3>1, <4>1, <4>2, <4>3
    <3>6. within' # << >>
      BY <3>4
    <3>7. Nested'
      BY <3>4, <3>5, <3>6 DEF Nested
    <3> QED
      BY <3>1, <3>2, <3>3, <3>7
  <2> QED
    BY <2>1, <2>2
<1>8. Cursor'
  BY <1>1, <1>3, <1>6, <1>7 DEF JsonInv, Cursor
<1>9. Grammar'
  BY <1>1, <1>3 DEF Grammar, Afterwards
<1> QED
  BY <1>4, <1>5, <1>7, <1>8, <1>9 DEF JsonInv

LEMMA NameInv ==
  ASSUME JsonInv, NewName \/ Colon \/ Comma
  PROVE  JsonInv'
<1>1. within # << >> /\ current' = current /\ within' = within /\ value' = value
  BY DEF NewName, Colon, Comma, ItemAhead, CommaAhead, JsonInv, Grammar
<1>2. ValueType' /\ Nested'
  BY <1>1 DEF JsonInv, ValueType, HangsTogether, Nested
<1>3. CASE NewName
  <2>1. text # << >> /\ Take /\ name' = Head(text) /\ expect' = ":"
    BY <1>3 DEF NewName, ItemAhead
  <2>2. Read' /\ Head(text) \in Token
    BY <2>1, TakeRead DEF JsonInv
  <2> QED
    BY <1>1, <1>2, <2>1, <2>2 DEF JsonInv, Cursor, Grammar
<1>4. CASE Colon \/ Comma
  <2>1. text # << >> /\ Take /\ name' = name /\ expect' \in {"value", "item"}
    BY <1>4 DEF Colon, Comma, CommaAhead, Ahead
  <2>2. Read'
    BY <2>1, TakeRead DEF JsonInv
  <2> QED
    BY <1>1, <1>2, <2>1, <2>2 DEF JsonInv, Cursor, Grammar
<1> QED
  BY <1>3, <1>4

LEMMA ThrowInv ==
  ASSUME JsonInv, Throw
  PROVE  JsonInv'
<1>1. UNCHANGED <<source, text, value, current, name, within>> /\ expect' = "thrown"
  BY DEF Throw
<1> QED
  BY <1>1 DEF JsonInv, Read, ValueType, HangsTogether, Cursor, Grammar, Nested

LEMMA StepInv ==
  ASSUME JsonInv, [JsonNext]_jsonVars
  PROVE  JsonInv'
<1>1. CASE Leaf
  BY <1>1, LeafInv
<1>2. CASE BeginObj \/ BeginArray
  BY <1>2, BeginInv DEF BeginObj, BeginArray, Kinds
<1>3. CASE EndObj \/ EndArray
  BY <1>3, EndInv DEF EndObj, EndArray
<1>4. CASE NewName \/ Colon \/ Comma
  BY <1>4, NameInv
<1>5. CASE Throw
  BY <1>5, ThrowInv
<1>6. CASE UNCHANGED jsonVars
  BY <1>6 DEF jsonVars, JsonInv, Read, ValueType, HangsTogether, Cursor, Grammar, Nested
<1> QED
  BY <1>1, <1>2, <1>3, <1>4, <1>5, <1>6 DEF JsonNext

(* At every step of the reading, of any text and up to the error if there  *)
(* is one, the value, the cursor in it and the place in the grammar fit    *)
(* each other: the rules the grammar is in are the compounds on the way to *)
(* the one under construction.                                             *)
THEOREM ReaderInvariant == JsonSpec => []JsonInv
<1>1. JsonInv /\ [JsonNext]_jsonVars => JsonInv'
  BY StepInv
<1> QED
  BY InitInv, <1>1, PTL DEF JsonSpec

(* JsonTypeOK for any texts: *current_p_ is always what json_spirit's      *)
(* actions assert it to be.                                                *)
THEOREM ValueHangsTogether == JsonSpec => []JsonTypeOK
<1>1. JsonInv => JsonTypeOK
  <2> SUFFICES ASSUME JsonInv PROVE JsonTypeOK
    OBVIOUS
  <2>1. IsSuffix(text, source)
    BY SuffixOf DEF JsonInv, Read
  <2>2. /\ value # NoValue => current \in DOMAIN value
        /\ \A p \in DOMAIN value :
             p # << >> => Front(p) \in DOMAIN value /\ value[Front(p)] \in {"object", "array"}
    BY DEF JsonInv, ValueType, HangsTogether, Cursor, Kinds
  <2>3. /\ within = << >> => current = << >>
        /\ within # << >> => Len(within) = Len(current) + 1
    BY DEF JsonInv, Nested
  <2>4. \A i \in DOMAIN within : value[SubSeq(current, 1, i - 1)] = within[i]
    <3>1. DOMAIN within = 1 .. Len(within)
      BY LenProperties DEF JsonInv, Cursor
    <3> QED
      BY <3>1 DEF JsonInv, Nested, Upto
  <2> QED
    BY <2>1, <2>2, <2>3, <2>4 DEF JsonTypeOK
<1> QED
  BY ReaderInvariant, <1>1, PTL

-----------------------------------------------------------------------------
(***************************************************************************)
(* A recursion along numbers that become less defines a function.  (The    *)
(* step of the recursion is a function as well, F[x] of the values so far.) *)
(***************************************************************************)
LEMMA LeastNumber ==
  ASSUME NEW T \in SUBSET Nat, T # {}
  PROVE  \E x \in T : \A y \in T : x <= y
<1>1. PICK x \in T : \A y \in T : ~(<<y, x>> \in OpToRel(<, Nat))
  BY WFMin, NatLessThanWellFounded
<1>2. \A y \in T : ~(y < x)
  BY <1>1 DEF OpToRel
<1> QED
  BY <1>2

LEMMA Along ==
  ASSUME NEW S, NEW rank \in [S -> Nat], NEW T,
         \A x \in S : (\A y \in S : rank[y] < rank[x] => y \in T) => x \in T
  PROVE  S \subseteq T
<1> DEFINE bad == {x \in S : x \notin T}
           ranks == {rank[x] : x \in bad}
<1> SUFFICES ASSUME bad # {} PROVE FALSE
  OBVIOUS
<1>1. ranks \in SUBSET Nat /\ ranks # {}
  OBVIOUS
<1>2. PICK r \in ranks : \A s \in ranks : r <= s
  <2> HIDE DEF ranks
  <2> QED
    BY <1>1, LeastNumber
<1>3. PICK x \in bad : rank[x] = r
  OBVIOUS
<1>4. \A y \in S : rank[y] < rank[x] => y \in T
  <2> SUFFICES ASSUME NEW y \in S, rank[y] < rank[x], y \in bad PROVE FALSE
    OBVIOUS
  <2>1. r <= rank[y]
    BY <1>2
  <2>2. rank[y] \in Nat /\ rank[x] \in Nat
    OBVIOUS
  <2> QED
    BY <1>3, <2>1, <2>2
<1> QED
  BY <1>3, <1>4

Alike(S, rank, x, f, g) == \A y \in S : rank[y] < rank[x] => f[y] = g[y]

Recurring(S, V, rank, F) ==
  /\ V # {} /\ rank \in [S -> Nat]
  /\ \A x \in S, f \in [S -> V] : F[x][f] \in V
  /\ \A x \in S, f \in [S -> V], g \in [S -> V] :
       Alike(S, rank, x, f, g) => F[x][f] = F[x][g]

Solvable(S, V, F) == \E h \in [S -> V] : h = [x \in S |-> F[x][h]]

LEMMA Recursion ==
  ASSUME NEW S, NEW V, NEW rank, NEW F, Recurring(S, V, rank, F)
  PROVE  Solvable(S, V, F)
<1> USE DEF Recurring
<1> DEFINE good(n, h) == h \in [S -> V] /\ \A x \in S : rank[x] < n => h[x] = F[x][h]
<1>1. ASSUME NEW n \in Nat, NEW g, NEW h, good(n, g), good(n, h)
      PROVE  \A x \in S : rank[x] < n => g[x] = h[x]
  <2> DEFINE T == {x \in S : rank[x] < n => g[x] = h[x]}
  <2>1. ASSUME NEW x \in S, \A y \in S : rank[y] < rank[x] => y \in T
        PROVE  x \in T
    <3> SUFFICES ASSUME rank[x] < n PROVE g[x] = h[x]
      OBVIOUS
    <3>1. \A y \in S : rank[y] < rank[x] => rank[y] < n
      <4>1. rank[x] \in Nat /\ \A y \in S : rank[y] \in Nat
        OBVIOUS
      <4> QED
        BY <4>1
    <3>2. Alike(S, rank, x, g, h)
      BY <2>1, <3>1 DEF Alike
    <3>3. F[x][g] = F[x][h]
      BY <1>1, <3>2
    <3> QED
      BY <1>1, <3>3
  <2>2. S \subseteq T
    <3> HIDE DEF T
    <3> QED
      BY <2>1, Along
  <2> QED
    BY <2>2
<1>2. \A n \in Nat : \E h : good(n, h)
  <2> DEFINE bad == {n \in Nat : ~\E h : good(n, h)}
  <2> SUFFICES ASSUME bad # {} PROVE FALSE
    OBVIOUS
  <2>1. bad \in SUBSET Nat
    OBVIOUS
  <2>2. PICK m \in bad : \A k \in bad : m <= k
    <3> HIDE DEF bad
    <3> QED
      BY <2>1, LeastNumber
  <2>3. m # 0
    <3> SUFFICES ASSUME m = 0 PROVE FALSE
      OBVIOUS
    <3>1. PICK v \in V : TRUE
      OBVIOUS
    <3>2. \A x \in S : ~(rank[x] < 0)
      OBVIOUS
    <3>3. good(0, [x \in S |-> v])
      BY <3>1, <3>2
    <3> QED
      BY <3>3
  <2>4. m - 1 \in Nat /\ m - 1 \notin bad
    BY <2>2, <2>3
  <2>5. PICK h : good(m - 1, h)
    BY <2>4
  <2> DEFINE next == [x \in S |-> F[x][h]]
  <2>6. next \in [S -> V]
    BY <2>5
  <2>7. ASSUME NEW x \in S, rank[x] < m PROVE next[x] = F[x][next]
    <3>1. \A y \in S : rank[y] < rank[x] => rank[y] < m - 1
      <4>1. rank[x] \in Nat /\ m \in Nat /\ \A y \in S : rank[y] \in Nat
        OBVIOUS
      <4> QED
        BY <2>7, <4>1
    <3>2. Alike(S, rank, x, h, next)
      BY <2>5, <3>1 DEF Alike
    <3> QED
      BY <2>5, <2>6, <3>2
  <2>8. good(m, next)
    <3> HIDE DEF next
    <3> QED
      BY <2>6, <2>7
  <2> QED
    BY <2>8
<1> DEFINE stage(n) == CHOOSE h : good(n, h)
           h == [x \in S |-> stage(rank[x] + 1)[x]]
<1>3. \A n \in Nat : good(n, stage(n))
  <2> HIDE DEF good
  <2> QED
    BY <1>2, Zenon
<1> HIDE DEF stage
<1>4. h \in [S -> V]
  <2> SUFFICES ASSUME NEW x \in S PROVE stage(rank[x] + 1)[x] \in V
    OBVIOUS
  <2>1. rank[x] + 1 \in Nat
    OBVIOUS
  <2>2. stage(rank[x] + 1) \in [S -> V]
    BY <1>3, <2>1
  <2> QED
    BY <2>2
<1>5. ASSUME NEW x \in S PROVE h[x] = F[x][h]
  <2> DEFINE n == rank[x] + 1
             g == stage(n)
  <2>1. n \in Nat /\ rank[x] < n
    OBVIOUS
  <2>2. good(n, g)
    BY <1>3, <2>1
  <2>3. g[x] = F[x][g] /\ h[x] = g[x] /\ g \in [S -> V]
    BY <2>1, <2>2
  <2>4. Alike(S, rank, x, g, h)
    <3> SUFFICES ASSUME NEW y \in S, rank[y] < rank[x] PROVE g[y] = h[y]
      BY DEF Alike
    <3> DEFINE k == rank[y] + 1
    <3>1. k \in Nat /\ rank[y] < k
      OBVIOUS
    <3>2. good(k, stage(k))
      BY <1>3, <3>1
    <3>3. good(k, g)
      <4>1. \A z \in S : rank[z] < k => rank[z] < n
        <5>1. rank[x] \in Nat /\ rank[y] \in Nat /\ \A z \in S : rank[z] \in Nat
          OBVIOUS
        <5> QED
          BY <5>1
      <4> HIDE DEF n, g, k, h
      <4> QED
        BY <2>2, <4>1
    <3>4. stage(k)[y] = g[y]
      <4> HIDE DEF n, g, k, h, good
      <4> QED
        BY <1>1, <3>1, <3>2, <3>3
    <3>5. h[y] = stage(k)[y]
      OBVIOUS
    <3> QED
      BY <3>4, <3>5
  <2>5. F[x][g] = F[x][h]
    <3> HIDE DEF g, h
    <3> QED
      BY <1>4, <2>3, <2>4
  <2> QED
    BY <2>3, <2>5
<1>6. h = [x \in S |-> F[x][h]]
  <2> DEFINE k == [x \in S |-> F[x][h]]
  <2>1. \A x \in S : h[x] = k[x]
    <3> HIDE DEF h
    <3> QED
      BY <1>5
  <2>2. h = [x \in S |-> h[x]]
    <3> HIDE DEF h
    <3> QED
      BY <1>4
  <2> HIDE DEF h
  <2> QED
    BY <2>1, <2>2
<1> QED
  BY <1>4, <1>6 DEF Solvable
-----------------------------------------------------------------------------
(***************************************************************************)
(* Trees, their texts and their values.                                    *)
(***************************************************************************)
Item(tree, i) == tree.items[i].tree
KeyOf(tree, i) == tree.items[i].key

LEMMA TreeFacts ==
  ASSUME NEW tree \in Trees
  PROVE  /\ Len(tree.items) \in Nat /\ DOMAIN tree.items = 1 .. Len(tree.items)
         /\ \A i \in 1 .. Len(tree.items) : Item(tree, i) \in Trees /\ KeyOf(tree, i) \in STRING
         /\ ~Compound(tree) => tree.items = << >>
         /\ tree.at \in STRING
<1>1. tree.items \in Seq([key : STRING, tree : Trees])
  BY TreesAssumption
<1>2. Len(tree.items) \in Nat /\ DOMAIN tree.items = 1 .. Len(tree.items)
  BY <1>1, LenProperties
<1>3. \A i \in 1 .. Len(tree.items) : tree.items[i] \in [key : STRING, tree : Trees]
  BY <1>1, ElementOfSeq
<1> QED
  BY <1>2, <1>3, TreesAssumption DEF Item, KeyOf

LEMMA KeyIsStep == \A k \in STRING : k \in Token /\ k \in PathStep
BY DEF Token, PathStep

LEMMA KeyType ==
  ASSUME NEW tree \in Trees, NEW i \in 1 .. Len(tree.items)
  PROVE  Key(tree, i) \in Seq(Token)
<1>1. KeyOf(tree, i) \in Token /\ ":" \in Token
  BY TreeFacts, KeyIsStep DEF Token, Punctuation
<1> QED
  BY <1>1, EmptySeq DEF Key, KeyOf

LEMMA OneToken == \A a \in Token : << a >> \in Seq(Token)
OBVIOUS

LEMMA PlaceOfTree ==
  ASSUME NEW x \in Places
  PROVE  /\ x[1] \in Trees /\ Compound(x[1]) /\ x[2] \in 0 .. Len(x[1].items)
         /\ Len(x[1].items) \in Nat /\ Size(x[1], x[2]) \in Nat
<1>1. PICK tree \in Trees : Compound(tree) /\ x \in {<< tree, n >> : n \in 0 .. Len(tree.items)}
  BY DEF Places
<1>2. PICK n \in 0 .. Len(tree.items) : x = << tree, n >>
  BY <1>1
<1>3. x[1] = tree /\ x[2] = n
  BY <1>2
<1> QED
  BY <1>1, <1>3, TreeFacts, SizeAssumption

LEMMA LaterPlaces ==
  ASSUME NEW x \in Places, x[2] # Len(x[1].items)
  PROVE  LET tree == x[1]
             n == x[2]
             item == tree.items[n + 1].tree
         IN  /\ item \in Trees /\ n + 1 \in 1 .. Len(tree.items)
             /\ << tree, n + 1 >> \in Places /\ Size(tree, n + 1) < Size(tree, n)
             /\ Compound(item) => << item, 0 >> \in Places /\ Size(item, 0) < Size(tree, n)
<1> DEFINE tree == x[1]
           n == x[2]
           item == tree.items[n + 1].tree
<1>1. /\ tree \in Trees /\ Compound(tree) /\ n \in 0 .. Len(tree.items)
      /\ Len(tree.items) \in Nat /\ n # Len(tree.items)
  BY PlaceOfTree
<1> HIDE DEF tree, n
<1>2. n + 1 \in 1 .. Len(tree.items) /\ n + 1 \in 0 .. Len(tree.items) /\ n \in 0 .. n + 1 /\ n # n + 1
  BY <1>1
<1>3. item \in Trees
  BY <1>1, <1>2, TreeFacts DEF Item
<1>4. Size(tree, n + 1) < Size(tree, n) /\ Size(item, 0) < Size(tree, n)
  BY <1>1, <1>2, SizeAssumption
<1>5. Len(item.items) \in Nat /\ 0 \in 0 .. Len(item.items)
  BY <1>3, TreeFacts
<1> HIDE DEF item
<1>6. << tree, n + 1 >> \in Places /\ (Compound(item) => << item, 0 >> \in Places)
  BY <1>1, <1>2, <1>3, <1>5 DEF Places
<1> QED
  BY <1>2, <1>3, <1>4, <1>6 DEF tree, n, item

LEMMA LeftIs ==
  Left \in [Places -> Seq(Token)] /\ \A x \in Places : Left[x] = LeftBy(Left, x[1], x[2])
<1> DEFINE V == Seq(Token)
           F == [x \in Places |-> [f \in [Places -> V] |-> LeftBy(f, x[1], x[2])]]
           rank == [x \in Places |-> Size(x[1], x[2])]
<1>1. rank \in [Places -> Nat] /\ V # {}
  BY PlaceOfTree, EmptySeq
<1>2. ASSUME NEW x \in Places, NEW f, \A y \in Places : rank[y] < rank[x] => f[y] \in V
      PROVE  LeftBy(f, x[1], x[2]) \in V
  <2> DEFINE tree == x[1]
             n == x[2]
             item == tree.items[n + 1].tree
             k == Key(tree, n + 1)
             t == Written(f, item)
             l == f[<< tree, n + 1 >>]
             c == IF n = 0 THEN << >> ELSE << "," >>
  <2>1. CASE n = Len(tree.items)
    <3>1. Close(tree.at) \in Token
      BY DEF Close, Token, Punctuation
    <3>2. LeftBy(f, tree, n) = << Close(tree.at) >>
      BY <2>1, Zenon DEF LeftBy
    <3> QED
      BY <3>1, <3>2, OneToken
  <2>2. CASE n # Len(tree.items)
    <3>1. /\ tree \in Trees /\ item \in Trees /\ n + 1 \in 1 .. Len(tree.items)
          /\ << tree, n + 1 >> \in Places /\ Size(tree, n + 1) < Size(tree, n)
          /\ Compound(item) => << item, 0 >> \in Places /\ Size(item, 0) < Size(tree, n)
      BY <2>2, PlaceOfTree, LaterPlaces
    <3>0. /\ rank[x] = Size(tree, n) /\ rank[<< tree, n + 1 >>] = Size(tree, n + 1)
          /\ Compound(item) => rank[<< item, 0 >>] = Size(item, 0)
      BY <3>1
    <3> HIDE DEF tree, n, item, rank
    <3>2. k \in V /\ l \in V
      <4>1. k \in V
        BY <3>1, KeyType
      <4>2. l \in V
        BY <1>2, <3>0, <3>1, Zenon
      <4> QED
        BY <4>1, <4>2
    <3>3. t \in V
      <4>1. item.at \in Token /\ Open(item.at) \in Token
        BY <3>1, TreeFacts, KeyIsStep DEF Open, Token, Punctuation
      <4>2. << item.at >> \in V /\ << Open(item.at) >> \in V
        BY <4>1, OneToken
      <4>3. CASE Compound(item)
        <5>1. f[<< item, 0 >>] \in V
          BY <1>2, <3>0, <3>1, <4>3, Zenon
        <5>2. t = << Open(item.at) >> \o f[<< item, 0 >>]
          BY <4>3, Zenon DEF Written
        <5> QED
          BY <4>2, <5>1, <5>2, ConcatProperties, Zenon
      <4>4. CASE ~Compound(item)
        BY <4>2, <4>4, Zenon DEF Written
      <4> QED
        BY <4>3, <4>4
    <3>4. c \in V
      <4>1. "," \in Token
        BY DEF Token, Punctuation
      <4>2. << "," >> \in V /\ << >> \in V
        BY <4>1, OneToken, EmptySeq, Zenon
      <4> QED
        BY <4>2, Zenon
    <3>5. LeftBy(f, tree, n) = c \o (k \o (t \o l))
      BY <2>2, Zenon DEF LeftBy, item
    <3> HIDE DEF k, t, l, c
    <3>6. t \o l \in V
      BY <3>2, <3>3, ConcatProperties
    <3>7. k \o (t \o l) \in V
      BY <3>2, <3>6, ConcatProperties, Zenon
    <3>8. c \o (k \o (t \o l)) \in V
      BY <3>4, <3>7, ConcatProperties, Zenon
    <3> QED
      BY <3>5, <3>8, Zenon DEF tree, n
  <2> QED
    BY <2>1, <2>2
<1>3. ASSUME NEW x \in Places, NEW f \in [Places -> V], NEW g \in [Places -> V],
             Alike(Places, rank, x, f, g)
      PROVE  LeftBy(f, x[1], x[2]) = LeftBy(g, x[1], x[2])
  <2> DEFINE tree == x[1]
             n == x[2]
             item == tree.items[n + 1].tree
  <2>1. CASE n = Len(tree.items)
    BY <2>1, Zenon DEF LeftBy
  <2>2. CASE n # Len(tree.items)
    <3>1. /\ << tree, n + 1 >> \in Places /\ Size(tree, n + 1) < Size(tree, n)
          /\ Compound(item) => << item, 0 >> \in Places /\ Size(item, 0) < Size(tree, n)
      BY <2>2, LaterPlaces
    <3>2. /\ rank[x] = Size(tree, n) /\ rank[<< tree, n + 1 >>] = Size(tree, n + 1)
          /\ Compound(item) => rank[<< item, 0 >>] = Size(item, 0)
      BY <3>1
    <3> HIDE DEF tree, n, item, rank
    <3>3. /\ f[<< tree, n + 1 >>] = g[<< tree, n + 1 >>]
          /\ Compound(item) => f[<< item, 0 >>] = g[<< item, 0 >>]
      BY <1>3, <3>1, <3>2, Zenon DEF Alike
    <3>4. Written(f, item) = Written(g, item)
      BY <3>3, Zenon DEF Written
    <3>5. LeftBy(f, tree, n) = LeftBy(g, tree, n)
      BY <3>3, <3>4, Zenon DEF LeftBy, item
    <3> QED
      BY <3>5 DEF tree, n
  <2> QED
    BY <2>1, <2>2
<1>4. /\ \A x \in Places, f \in [Places -> V] : F[x][f] = LeftBy(f, x[1], x[2])
      /\ Left = CHOOSE h : h = [x \in Places |-> LeftBy(h, x[1], x[2])]
  BY DEF Left
<1> HIDE DEF V, F, rank
<1>5. \A x \in Places, f \in [Places -> V] : F[x][f] \in V
  <2> SUFFICES ASSUME NEW x \in Places, NEW f \in [Places -> V] PROVE F[x][f] \in V
    OBVIOUS
  <2>1. \A y \in Places : f[y] \in V
    OBVIOUS
  <2>2. LeftBy(f, x[1], x[2]) \in V
    BY <1>2, <2>1
  <2> QED
    BY <1>4, <2>2
<1>6. \A x \in Places, f \in [Places -> V], g \in [Places -> V] :
        Alike(Places, rank, x, f, g) => F[x][f] = F[x][g]
  BY <1>3, <1>4
<1>7. PICK h \in [Places -> V] : h = [x \in Places |-> F[x][h]]
  <2>1. Recurring(Places, V, rank, F)
    BY <1>1, <1>5, <1>6 DEF Recurring
  <2>2. Solvable(Places, V, F)
    BY <2>1, Recursion
  <2> QED
    BY <2>2, Zenon DEF Solvable
<1>8. h = [x \in Places |-> LeftBy(h, x[1], x[2])]
  <2>1. \A x \in Places : F[x][h] = LeftBy(h, x[1], x[2])
    BY <1>4
  <2> QED
    BY <1>7, <2>1
<1>9. Left = [x \in Places |-> LeftBy(Left, x[1], x[2])]
  BY <1>4, <1>8, Zenon
<1>10. \A x \in Places : Left[x] = LeftBy(Left, x[1], x[2])
  BY <1>9
<1> DEFINE T == {x \in Places : Left[x] \in V}
<1>11. ASSUME NEW x \in Places, \A y \in Places : rank[y] < rank[x] => y \in T
       PROVE  x \in T
  <2>1. \A y \in Places : rank[y] < rank[x] => Left[y] \in V
    BY <1>11
  <2>2. LeftBy(Left, x[1], x[2]) \in V
    BY <1>2, <2>1
  <2> QED
    BY <1>10, <2>2
<1>12. Places \subseteq T
  <2> HIDE DEF T
  <2> QED
    BY <1>1, <1>11, Along
<1>13. Left = [x \in Places |-> Left[x]]
  BY <1>9
<1> QED
  BY <1>10, <1>12, <1>13 DEF V

LEMMA LeftType ==
  ASSUME NEW tree \in Trees, Compound(tree), NEW n \in 0 .. Len(tree.items)
  PROVE  Left[<< tree, n >>] \in Seq(Token) /\ Left[<< tree, n >>] = LeftBy(Left, tree, n)
<1>1. << tree, n >> \in Places
  BY DEF Places
<1> QED
  BY <1>1, LeftIs

LEMMA TextFacts ==
  ASSUME NEW tree \in Trees
  PROVE  /\ Text(tree) \in Seq(Token)
         /\ Compound(tree) => /\ Text(tree) = << Open(tree.at) >> \o Left[<< tree, 0 >>]
                              /\ << Open(tree.at) >> \in Seq(Token)
         /\ ~Compound(tree) => Text(tree) = << tree.at >>
         /\ << tree.at >> \in Seq(Token)
<1>1. Len(tree.items) \in Nat /\ tree.at \in Token /\ Open(tree.at) \in Token
  BY TreeFacts, KeyIsStep DEF Open, Token, Punctuation
<1>2. << tree.at >> \in Seq(Token) /\ << Open(tree.at) >> \in Seq(Token)
  BY <1>1
<1>3. CASE Compound(tree)
  <2>1. Text(tree) = << Open(tree.at) >> \o Left[<< tree, 0 >>]
    BY <1>3 DEF Text, Written
  <2>2. Left[<< tree, 0 >>] \in Seq(Token)
    BY <1>1, <1>3, LeftType
  <2> QED
    BY <1>2, <1>3, <2>1, <2>2, ConcatProperties
<1>4. CASE ~Compound(tree)
  BY <1>2, <1>4 DEF Text, Written
<1> QED
  BY <1>3, <1>4

LEMMA Regroup ==
  \A s \in Seq(Token), t \in Seq(Token), u \in Seq(Token) : (s \o t) \o u = s \o (t \o u)
BY ConcatAssociative

(* What a compound's text goes on with, with what follows the compound. *)
LEMMA LeftOver ==
  ASSUME NEW tree \in Trees, Compound(tree), NEW n \in 0 .. Len(tree.items),
         NEW left \in Seq(Token)
  PROVE  /\ Left[<< tree, n >>] \o left \in Seq(Token)
         /\ n = Len(tree.items) =>
              Left[<< tree, n >>] \o left = << Close(tree.at) >> \o left
         /\ n < Len(tree.items) =>
              LET rest == Key(tree, n + 1)
                            \o (Text(Item(tree, n + 1)) \o (Left[<< tree, n + 1 >>] \o left))
              IN  /\ n = 0 => Left[<< tree, n >>] \o left = rest
                  /\ n # 0 => Left[<< tree, n >>] \o left = << "," >> \o rest
<1>1. Left[<< tree, n >>] \in Seq(Token) /\ Left[<< tree, n >>] = LeftBy(Left, tree, n)
  BY LeftType
<1>2. Left[<< tree, n >>] \o left \in Seq(Token)
  BY <1>1, ConcatProperties
<1>3. ASSUME n = Len(tree.items)
      PROVE  Left[<< tree, n >>] \o left = << Close(tree.at) >> \o left
  BY <1>1, <1>3 DEF LeftBy
<1>4. ASSUME n < Len(tree.items)
      PROVE  LET rest == Key(tree, n + 1)
                           \o (Text(Item(tree, n + 1)) \o (Left[<< tree, n + 1 >>] \o left))
             IN  /\ n = 0 => Left[<< tree, n >>] \o left = rest
                 /\ n # 0 => Left[<< tree, n >>] \o left = << "," >> \o rest
  <2> DEFINE k == Key(tree, n + 1)
             t == Text(Item(tree, n + 1))
             l == Left[<< tree, n + 1 >>]
             c == IF n = 0 THEN << >> ELSE << "," >>
  <2>1. Len(tree.items) \in Nat /\ n + 1 \in 1 .. Len(tree.items) /\ n + 1 \in 0 .. Len(tree.items)
    BY <1>4, TreeFacts
  <2>2. k \in Seq(Token) /\ t \in Seq(Token) /\ l \in Seq(Token)
    BY <2>1, KeyType, TreeFacts, TextFacts, LeftType
  <2>3. c \in Seq(Token) /\ << "," >> \in Seq(Token)
    <3>1. "," \in Token
      BY DEF Token, Punctuation
    <3>2. << >> \in Seq(Token)
      BY EmptySeq
    <3>3. << "," >> \in Seq(Token)
      BY <3>1, OneToken
    <3> QED
      BY <3>2, <3>3
  <2>4. Left[<< tree, n >>] = c \o (k \o (t \o l))
    <3>1. n # Len(tree.items)
      BY <1>4, <2>1
    <3>2. LeftBy(Left, tree, n) =
            (IF n = 0 THEN << >> ELSE << "," >>)
              \o (Key(tree, n + 1) \o (Written(Left, tree.items[n + 1].tree) \o Left[<< tree, n + 1 >>]))
      BY <3>1, Zenon DEF LeftBy
    <3> QED
      BY <1>1, <3>2, Zenon DEF Text, Item
  <2> DEFINE m == t \o l
             r == k \o m
             u == l \o left
  <2>5. m \in Seq(Token) /\ r \in Seq(Token) /\ u \in Seq(Token)
    BY <2>2, ConcatProperties
  <2>6. c = IF n = 0 THEN << >> ELSE << "," >>
    OBVIOUS
  <2>7. Left[<< tree, n >>] = c \o r /\ m = t \o l /\ r = k \o m /\ u = l \o left
    BY <2>4
  <2> HIDE DEF k, t, l, c, m, r, u
  <2>8. (c \o r) \o left = c \o (r \o left)
    BY <2>3, <2>5, Regroup
  <2>9. r \o left = k \o (m \o left) /\ m \o left = t \o u
    <3>1. (k \o m) \o left = k \o (m \o left)
      BY <2>2, <2>5, Regroup
    <3>2. (t \o l) \o left = t \o (l \o left)
      BY <2>2, Regroup
    <3> QED
      BY <2>7, <3>1, <3>2
  <2>10. t \o u \in Seq(Token) /\ k \o (t \o u) \in Seq(Token)
    BY <2>2, <2>5, ConcatProperties
  <2>11. Left[<< tree, n >>] \o left = c \o (k \o (t \o u))
    BY <2>7, <2>8, <2>9
  <2>12. << >> \o (k \o (t \o u)) = k \o (t \o u)
    BY <2>10, ConcatEmptySeq
  <2>13. /\ n = 0 => Left[<< tree, n >>] \o left = k \o (t \o u)
         /\ n # 0 => Left[<< tree, n >>] \o left = << "," >> \o (k \o (t \o u))
    BY <2>6, <2>11, <2>12
  <2> QED
    BY <2>13 DEF k, t, l, u
<1> QED
  BY <1>2, <1>3, <1>4

LEMMA SameStart ==
  ASSUME NEW a \in Token, NEW b \in Token, NEW s \in Seq(Token), NEW t \in Seq(Token),
         << a >> \o s = << b >> \o t
  PROVE  a = b /\ s = t
<1>1. /\ << a >> \in Seq(Token) /\ Len(<< a >>) = 1 /\ << a >>[1] = a
      /\ << b >> \in Seq(Token) /\ Len(<< b >>) = 1 /\ << b >>[1] = b
  OBVIOUS
<1> DEFINE x == << a >>
           y == << b >>
<1>2. x \in Seq(Token) /\ y \in Seq(Token) /\ Len(x) = 1 /\ Len(y) = 1 /\ x[1] = a /\ y[1] = b
  BY <1>1
<1>3. x \o s = y \o t
  OBVIOUS
<1> HIDE DEF x, y
<1>4. (x \o s)[1] = a /\ (y \o t)[1] = b
  <2>1. 1 \in 1 .. Len(x) + Len(s) /\ 1 \in 1 .. Len(y) + Len(t)
    BY <1>2, LenProperties
  <2> QED
    BY <1>2, <2>1, ConcatProperties
<1>5. a = b
  BY <1>3, <1>4
<1>6. x = y
  BY <1>5 DEF x, y
<1>7. x \o s = x \o t
  BY <1>3, <1>6
<1> QED
  BY <1>2, <1>5, <1>7, ConcatSimplifications

-----------------------------------------------------------------------------
LEMMA SplitPath ==
  ASSUME NEW q \in Path, q # << >>
  PROVE  q = << Head(q) >> \o Tail(q) /\ Head(q) \in PathStep /\ Tail(q) \in Path
BY HeadAndTail DEF Path

LEMMA StepThen ==
  ASSUME NEW k \in PathStep, NEW q \in Path
  PROVE  /\ << k >> \o q \in Path /\ << k >> \o q # << >>
         /\ Head(<< k >> \o q) = k /\ Tail(<< k >> \o q) = q
<1> DEFINE h == << k >>
           s == h \o q
<1>1. h \in Seq(PathStep) /\ Len(h) = 1 /\ h[1] = k /\ q \in Seq(PathStep) /\ Len(q) \in Nat
  BY LenProperties DEF Path
<1> HIDE DEF h
<1>2. /\ s \in Seq(PathStep) /\ Len(s) = 1 + Len(q)
      /\ \A i \in 1 .. 1 + Len(q) : s[i] = IF i <= 1 THEN h[i] ELSE q[i - 1]
  <2>1. /\ s \in Seq(PathStep) /\ Len(s) = Len(h) + Len(q)
        /\ \A i \in 1 .. Len(h) + Len(q) : s[i] = IF i <= Len(h) THEN h[i] ELSE q[i - Len(h)]
    BY <1>1, ConcatProperties
  <2> HIDE DEF s
  <2> QED
    BY <1>1, <2>1
<1> HIDE DEF s
<1>3. s # << >>
  BY <1>1, <1>2, EmptySeq
<1>4. Head(s) = s[1] /\ Tail(s) \in Seq(PathStep) /\ Len(Tail(s)) = Len(q)
      /\ \A i \in 1 .. Len(Tail(s)) : Tail(s)[i] = s[i + 1]
  BY <1>1, <1>2, <1>3, HeadAndTail, HeadTailProperties
<1>5. Head(s) = k
  BY <1>1, <1>2, <1>4
<1>6. \A i \in 1 .. Len(q) : i + 1 \in 1 .. 1 + Len(q) /\ ~(i + 1 <= 1) /\ (i + 1) - 1 = i
  BY <1>1
<1>7. \A i \in 1 .. Len(q) : Tail(s)[i] = q[i]
  BY <1>2, <1>4, <1>6
<1>8. Tail(s) = q
  BY <1>1, <1>4, <1>7, SeqEqual
<1> QED
  BY <1>2, <1>3, <1>5, <1>8 DEF Path, s, h

LEMMA CatPath ==
  ASSUME NEW p \in Path, NEW q \in Path
  PROVE  /\ p \o q \in Path /\ Len(p \o q) = Len(p) + Len(q) /\ Len(p) \in Nat /\ Len(q) \in Nat
         /\ \A i \in 1 .. Len(p) : (p \o q)[i] = p[i]
         /\ q # << >> => (p \o q)[Len(p) + 1] = Head(q) /\ Len(q) > 0
<1>1. /\ p \o q \in Path /\ Len(p \o q) = Len(p) + Len(q) /\ Len(p) \in Nat /\ Len(q) \in Nat
      /\ \A i \in 1 .. Len(p) + Len(q) : (p \o q)[i] = IF i <= Len(p) THEN p[i] ELSE q[i - Len(p)]
  BY ConcatProperties, LenProperties DEF Path
<1>2. \A i \in 1 .. Len(p) : (p \o q)[i] = p[i]
  BY <1>1
<1>3. ASSUME q # << >> PROVE (p \o q)[Len(p) + 1] = Head(q) /\ Len(q) > 0
  <2>1. Len(q) \in Nat \ {0} /\ Head(q) = q[1]
    BY <1>3, HeadAndTail DEF Path
  <2>2. /\ Len(p) + 1 \in 1 .. Len(p) + Len(q) /\ ~(Len(p) + 1 <= Len(p))
        /\ (Len(p) + 1) - Len(p) = 1
    BY <1>1, <2>1
  <2> QED
    BY <1>1, <2>1, <2>2
<1> QED
  BY <1>1, <1>2, <1>3

LEMMA AppendCat ==
  ASSUME NEW p \in Path, NEW k \in PathStep, NEW q \in Path
  PROVE  Append(p, k) \o q = p \o (<< k >> \o q)
<1> DEFINE h == << k >>
<1>1. h \in Seq(PathStep) /\ Append(p, k) = p \o h
  BY AppendIsConcat DEF Path
<1> HIDE DEF h
<1>2. (p \o h) \o q = p \o (h \o q)
  BY <1>1, ConcatAssociative DEF Path
<1> QED
  BY <1>1, <1>2 DEF h

(* Paths from e on, and a longer path along e. *)
LEMMA Through ==
  ASSUME NEW place \in Path, NEW e \in Path, NEW q \in Path,
         Len(place) > Len(e), \A i \in 1 .. Len(e) : place[i] = e[i]
  PROVE  /\ ~IsPrefix(place, e) /\ e # place
         /\ q # << >> =>
              /\ IsPrefix(place, e \o q) => Head(q) = place[Len(e) + 1]
              /\ e \o q = place => Head(q) = place[Len(e) + 1]
              /\ Len(place) = Len(e) + 1 /\ Head(q) = place[Len(e) + 1] => IsPrefix(place, e \o q)
<1> DEFINE p == e \o q
<1>1. /\ p \in Path /\ Len(p) = Len(e) + Len(q) /\ Len(e) \in Nat /\ Len(q) \in Nat
      /\ \A i \in 1 .. Len(e) : p[i] = e[i]
      /\ q # << >> => p[Len(e) + 1] = Head(q) /\ Len(q) > 0
  BY CatPath
<1>2. Len(place) \in Nat
  BY LenProperties DEF Path
<1> HIDE DEF p
<1>3. ~(Len(place) <= Len(e))
  BY <1>1, <1>2
<1>4. ~IsPrefix(place, e)
  BY <1>3, PrefixOf
<1>5. e # place
  BY <1>1, <1>3
<1>6. ASSUME q # << >>, IsPrefix(place, p) PROVE Head(q) = place[Len(e) + 1]
  <2>1. Len(e) + 1 \in 1 .. Len(place)
    BY <1>1, <1>2
  <2>2. place[Len(e) + 1] = p[Len(e) + 1]
    BY <1>1, <1>6, <2>1, PrefixOf
  <2> QED
    BY <1>1, <1>6, <2>2
<1>7. ASSUME q # << >>, p = place PROVE Head(q) = place[Len(e) + 1]
  BY <1>1, <1>7
<1>8. ASSUME q # << >>, Len(place) = Len(e) + 1, Head(q) = place[Len(e) + 1]
      PROVE  IsPrefix(place, p)
  <2>1. Len(place) <= Len(p)
    BY <1>1, <1>8
  <2>2. \A i \in 1 .. Len(place) : place[i] = p[i]
    <3> SUFFICES ASSUME NEW i \in 1 .. Len(place) PROVE place[i] = p[i]
      OBVIOUS
    <3>1. i \in 1 .. Len(e) \/ i = Len(e) + 1
      BY <1>1, <1>8
    <3> QED
      BY <1>1, <1>8, <3>1
  <2> QED
    BY <1>1, <2>1, <2>2, PrefixOf
<1> QED
  BY <1>4, <1>5, <1>6, <1>7, <1>8 DEF p

(* Among its first m items, the last that has its key. *)
LastOf(tree, m, j) == j \in 1 .. m /\ \A k \in j + 1 .. m : KeyOf(tree, k) # KeyOf(tree, j)

LEMMA LastingIs ==
  ASSUME NEW tree \in Trees
  PROVE  /\ \A j : j \in Lasting(tree) <=> LastOf(tree, Len(tree.items), j)
         /\ Lasting(tree) \subseteq 1 .. Len(tree.items)
         /\ \A i, j \in Lasting(tree) : KeyOf(tree, i) = KeyOf(tree, j) => i = j
<1>1. Len(tree.items) \in Nat /\ DOMAIN tree.items = 1 .. Len(tree.items)
  BY TreeFacts
<1>2. \A j : j \in Lasting(tree) <=>
        j \in 1 .. Len(tree.items)
        /\ \A k \in 1 .. Len(tree.items) : k > j => KeyOf(tree, k) # KeyOf(tree, j)
  BY <1>1 DEF Lasting, KeyOf
<1>3. \A i, j \in Lasting(tree) : KeyOf(tree, i) = KeyOf(tree, j) => i = j
  BY <1>1, <1>2
<1>4. \A j : j \in Lasting(tree) <=> LastOf(tree, Len(tree.items), j)
  BY <1>1, <1>2 DEF LastOf
<1> QED
  BY <1>2, <1>3, <1>4

LEMMA ItemSize ==
  ASSUME NEW tree \in Trees, NEW i \in DOMAIN tree.items
  PROVE  /\ Item(tree, i) \in Trees /\ Size(tree, 0) \in Nat
         /\ Size(Item(tree, i), 0) < Size(tree, 0)
<1>1. Len(tree.items) \in Nat /\ i \in 1 .. Len(tree.items) /\ Item(tree, i) \in Trees
  BY TreeFacts
<1> DEFINE n == i - 1
<1>2. /\ n \in 0 .. Len(tree.items) /\ n # Len(tree.items) /\ n + 1 = i
      /\ 0 \in 0 .. Len(tree.items) /\ 0 \in 0 .. n
  BY <1>1
<1> HIDE DEF n
<1>3. Size(tree, n) \in Nat /\ Size(tree, 0) \in Nat /\ (n # 0 => Size(tree, n) < Size(tree, 0))
  BY <1>2, SizeAssumption
<1>4. Size(tree.items[i].tree, 0) < Size(tree, n)
  BY <1>2, SizeAssumption
<1>5. Size(Item(tree, i), 0) \in Nat
  <2>1. Len(Item(tree, i).items) \in Nat
    BY <1>1, TreeFacts
  <2>2. 0 \in 0 .. Len(Item(tree, i).items)
    BY <2>1
  <2> QED
    BY <1>1, <2>2, SizeAssumption
<1> QED
  BY <1>1, <1>3, <1>4, <1>5 DEF Item

Height == [tree \in Trees |-> Size(tree, 0)]

LEMMA HeightFacts ==
  /\ Height \in [Trees -> Nat]
  /\ \A tree \in Trees : \A i \in DOMAIN tree.items :
       Item(tree, i) \in Trees /\ Height[Item(tree, i)] < Height[tree]
<1>1. \A tree \in Trees : Size(tree, 0) \in Nat
  <2> SUFFICES ASSUME NEW tree \in Trees PROVE Size(tree, 0) \in Nat
    OBVIOUS
  <2>1. Len(tree.items) \in Nat
    BY TreeFacts
  <2>2. 0 \in 0 .. Len(tree.items)
    BY <2>1
  <2> QED
    BY <2>2, SizeAssumption
<1> QED
  BY <1>1, ItemSize DEF Height

(* What a tree can say. *)
Said == UNION {[D -> STRING] : D \in SUBSET Path}

LEMMA IsSaid == \A v : v \in Said <=> v \in [DOMAIN v -> STRING] /\ DOMAIN v \subseteq Path
BY DEF Said

LEMMA ValueByType ==
  ASSUME NEW tree \in Trees, NEW f, \A i \in DOMAIN tree.items : f[Item(tree, i)] \in Said
  PROVE  ValueBy(f, tree) \in Said
<1> DEFINE under(i) == {<< tree.items[i].key >> \o q : q \in DOMAIN f[tree.items[i].tree]}
           dom == {<< >>} \cup UNION {under(i) : i \in Lasting(tree)}
           at(p) == IF p = << >> THEN tree.at
                    ELSE LET i == CHOOSE j \in Lasting(tree) : tree.items[j].key = Head(p)
                         IN  f[tree.items[i].tree][Tail(p)]
<1>1. ValueBy(f, tree) = [p \in dom |-> at(p)]
  BY Zenon DEF ValueBy
<1>2. \A i \in Lasting(tree) :
        /\ i \in DOMAIN tree.items /\ KeyOf(tree, i) \in PathStep
        /\ f[Item(tree, i)] \in [DOMAIN f[Item(tree, i)] -> STRING]
        /\ DOMAIN f[Item(tree, i)] \subseteq Path
  BY LastingIs, TreeFacts, KeyIsStep, IsSaid
<1>3. ASSUME NEW p \in dom, p # << >>
      PROVE  p \in Path /\ at(p) \in STRING
  <2>1. PICK i \in Lasting(tree) : p \in under(i)
    BY <1>3
  <2>2. PICK q \in DOMAIN f[tree.items[i].tree] : p = << tree.items[i].key >> \o q
    BY <2>1
  <2>3. q \in Path /\ tree.items[i].key \in PathStep /\ f[tree.items[i].tree][q] \in STRING
    BY <1>2, <2>2 DEF Item, KeyOf
  <2>4. p \in Path /\ Head(p) = tree.items[i].key /\ Tail(p) = q
    BY <2>2, <2>3, StepThen
  <2>5. \A j \in Lasting(tree) : tree.items[j].key = Head(p) => j = i
    BY <2>4, LastingIs DEF KeyOf
  <2>6. i = CHOOSE j \in Lasting(tree) : tree.items[j].key = Head(p)
    BY <2>4, <2>5, Zenon
  <2>7. at(p) = f[tree.items[i].tree][q]
    BY <1>3, <2>4, <2>6, Zenon
  <2> QED
    BY <2>3, <2>4, <2>7
<1>4. at(<< >>) \in STRING /\ << >> \in Path
  BY TreeFacts, EmptySeq DEF Path
<1>5. \A p \in dom : p \in Path /\ at(p) \in STRING
  BY <1>3, <1>4
<1> HIDE DEF dom, at
<1> QED
  BY <1>1, <1>5 DEF Said

LEMMA ValueByAlike ==
  ASSUME NEW tree \in Trees, NEW f, NEW g,
         \A i \in DOMAIN tree.items : f[Item(tree, i)] = g[Item(tree, i)] /\ f[Item(tree, i)] \in Said
  PROVE  ValueBy(f, tree) = ValueBy(g, tree)
<1> DEFINE under(v, i) == {<< tree.items[i].key >> \o q : q \in DOMAIN v[tree.items[i].tree]}
           dom(v) == {<< >>} \cup UNION {under(v, i) : i \in Lasting(tree)}
           at(v, p) == IF p = << >> THEN tree.at
                       ELSE LET i == CHOOSE j \in Lasting(tree) : tree.items[j].key = Head(p)
                            IN  v[tree.items[i].tree][Tail(p)]
<1>1. /\ ValueBy(f, tree) = [p \in dom(f) |-> at(f, p)]
      /\ ValueBy(g, tree) = [p \in dom(g) |-> at(g, p)]
  BY Zenon DEF ValueBy
<1>2. \A i \in Lasting(tree) :
        /\ i \in DOMAIN tree.items /\ KeyOf(tree, i) \in PathStep
        /\ f[tree.items[i].tree] = g[tree.items[i].tree]
        /\ DOMAIN f[tree.items[i].tree] \subseteq Path
  BY LastingIs, TreeFacts, KeyIsStep, IsSaid DEF Item
<1>3. dom(f) = dom(g)
  <2>1. \A i \in Lasting(tree) : under(f, i) = under(g, i)
    BY <1>2
  <2> HIDE DEF under
  <2> QED
    BY <2>1
<1>4. ASSUME NEW p \in dom(f), p # << >>
      PROVE  at(f, p) = at(g, p)
  <2>1. PICK i \in Lasting(tree) : p \in under(f, i)
    BY <1>4
  <2>2. PICK q \in DOMAIN f[tree.items[i].tree] : p = << tree.items[i].key >> \o q
    BY <2>1
  <2>3. q \in Path /\ tree.items[i].key \in PathStep
    BY <1>2, <2>2 DEF KeyOf
  <2>4. Head(p) = tree.items[i].key
    BY <2>2, <2>3, StepThen
  <2> DEFINE l == CHOOSE j \in Lasting(tree) : tree.items[j].key = Head(p)
  <2>5. l \in Lasting(tree)
    BY <2>4, Zenon
  <2>6. at(f, p) = f[tree.items[l].tree][Tail(p)] /\ at(g, p) = g[tree.items[l].tree][Tail(p)]
    BY <1>4, Zenon
  <2> HIDE DEF l, at
  <2>7. f[tree.items[l].tree] = g[tree.items[l].tree]
    BY <1>2, <2>5
  <2> QED
    BY <2>6, <2>7, Zenon
<1>5. \A p \in dom(f) : at(f, p) = at(g, p)
  BY <1>4, Zenon
<1> HIDE DEF dom, at
<1> QED
  BY <1>1, <1>3, <1>5

LEMMA ValueIs ==
  \A tree \in Trees : Value[tree] = ValueBy(Value, tree) /\ Value[tree] \in Said
<1> DEFINE F == [tree \in Trees |-> [f \in [Trees -> Said] |-> ValueBy(f, tree)]]
<1>1. Height \in [Trees -> Nat] /\ Said # {}
  <2>1. NoValue \in Said
    BY IsSaid DEF NoValue
  <2> QED
    BY <2>1, HeightFacts
<1>2. \A tree \in Trees, f \in [Trees -> Said] : F[tree][f] = ValueBy(f, tree)
  OBVIOUS
<1>3. \A tree \in Trees, f \in [Trees -> Said] : ValueBy(f, tree) \in Said
  BY ValueByType, HeightFacts
<1>4. ASSUME NEW tree \in Trees, NEW f \in [Trees -> Said], NEW g \in [Trees -> Said],
             Alike(Trees, Height, tree, f, g)
      PROVE  ValueBy(f, tree) = ValueBy(g, tree)
  <2>1. \A i \in DOMAIN tree.items : f[Item(tree, i)] = g[Item(tree, i)] /\ f[Item(tree, i)] \in Said
    BY <1>4, HeightFacts DEF Alike
  <2> QED
    BY <2>1, ValueByAlike
<1> HIDE DEF F
<1>5. PICK h \in [Trees -> Said] : h = [tree \in Trees |-> F[tree][h]]
  <2>1. \A tree \in Trees, f \in [Trees -> Said] : F[tree][f] \in Said
    BY <1>2, <1>3
  <2>2. \A tree \in Trees, f \in [Trees -> Said], g \in [Trees -> Said] :
          Alike(Trees, Height, tree, f, g) => F[tree][f] = F[tree][g]
    BY <1>2, <1>4
  <2>3. Recurring(Trees, Said, Height, F)
    BY <1>1, <2>1, <2>2 DEF Recurring
  <2>4. Solvable(Trees, Said, F)
    BY <2>3, Recursion
  <2> QED
    BY <2>4, Zenon DEF Solvable
<1>6. h = [tree \in Trees |-> ValueBy(h, tree)]
  BY <1>2, <1>5
<1>7. Value = CHOOSE k : k = [tree \in Trees |-> ValueBy(k, tree)]
  BY DEF Value
<1>8. Value = [tree \in Trees |-> ValueBy(Value, tree)]
  BY <1>6, <1>7, Zenon
<1>9. \A tree \in Trees : Value[tree] = ValueBy(Value, tree)
  BY <1>8
<1> DEFINE T == {tree \in Trees : Value[tree] \in Said}
<1>10. ASSUME NEW tree \in Trees, \A t \in Trees : Height[t] < Height[tree] => t \in T
       PROVE  tree \in T
  <2>1. \A i \in DOMAIN tree.items : Value[Item(tree, i)] \in Said
    BY <1>10, HeightFacts
  <2>2. ValueBy(Value, tree) \in Said
    BY <2>1, ValueByType
  <2> QED
    BY <1>9, <2>2
<1>11. Trees \subseteq T
  <2> HIDE DEF T
  <2> QED
    BY <1>1, <1>10, Along
<1> QED
  BY <1>9, <1>11

LEMMA DifferIs == \A tree \in Trees : NamesDiffer[tree] = DifferBy(NamesDiffer, tree)
<1> DEFINE F == [tree \in Trees |-> [f \in [Trees -> BOOLEAN] |-> DifferBy(f, tree)]]
<1>1. Height \in [Trees -> Nat] /\ BOOLEAN # {}
  BY HeightFacts
<1>2. \A tree \in Trees, f \in [Trees -> BOOLEAN] : F[tree][f] = DifferBy(f, tree)
  OBVIOUS
<1>3. \A tree \in Trees, f \in [Trees -> BOOLEAN] : DifferBy(f, tree) \in BOOLEAN
  BY DEF DifferBy
<1>4. ASSUME NEW tree \in Trees, NEW f \in [Trees -> BOOLEAN], NEW g \in [Trees -> BOOLEAN],
             Alike(Trees, Height, tree, f, g)
      PROVE  DifferBy(f, tree) = DifferBy(g, tree)
  <2>1. \A i \in DOMAIN tree.items : f[tree.items[i].tree] = g[tree.items[i].tree]
    BY <1>4, HeightFacts DEF Alike, Item
  <2>2. DifferBy(f, tree) <=> DifferBy(g, tree)
    BY <2>1, Zenon DEF DifferBy
  <2> QED
    BY <1>3, <2>2
<1> HIDE DEF F
<1>5. PICK h \in [Trees -> BOOLEAN] : h = [tree \in Trees |-> F[tree][h]]
  <2>1. \A tree \in Trees, f \in [Trees -> BOOLEAN] : F[tree][f] \in BOOLEAN
    BY <1>2, <1>3
  <2>2. \A tree \in Trees, f \in [Trees -> BOOLEAN], g \in [Trees -> BOOLEAN] :
          Alike(Trees, Height, tree, f, g) => F[tree][f] = F[tree][g]
    BY <1>2, <1>4
  <2>3. Recurring(Trees, BOOLEAN, Height, F)
    BY <1>1, <2>1, <2>2 DEF Recurring
  <2>4. Solvable(Trees, BOOLEAN, F)
    BY <2>3, Recursion
  <2> QED
    BY <2>4, Zenon DEF Solvable
<1>6. h = [tree \in Trees |-> DifferBy(h, tree)]
  BY <1>2, <1>5
<1>7. NamesDiffer = CHOOSE k : k = [tree \in Trees |-> DifferBy(k, tree)]
  BY DEF NamesDiffer
<1>8. NamesDiffer = [tree \in Trees |-> DifferBy(NamesDiffer, tree)]
  BY <1>6, <1>7, Zenon
<1> QED
  BY <1>8

LEMMA ValueFacts ==
  ASSUME NEW tree \in Trees
  PROVE  /\ DOMAIN Value[tree] \subseteq Path
         /\ << >> \in DOMAIN Value[tree] /\ Value[tree][<< >>] = tree.at
         /\ Value[tree] = [p \in DOMAIN Value[tree] |-> Value[tree][p]]
         /\ \A q \in Path : q # << >> =>
              /\ q \in DOMAIN Value[tree] =>
                   \E i \in Lasting(tree) :
                     KeyOf(tree, i) = Head(q) /\ Tail(q) \in DOMAIN Value[Item(tree, i)]
              /\ \A i \in Lasting(tree) :
                   KeyOf(tree, i) = Head(q) /\ Tail(q) \in DOMAIN Value[Item(tree, i)] =>
                     q \in DOMAIN Value[tree] /\ Value[tree][q] = Value[Item(tree, i)][Tail(q)]
<1> DEFINE under(i) == {<< tree.items[i].key >> \o q : q \in DOMAIN Value[tree.items[i].tree]}
           dom == {<< >>} \cup UNION {under(i) : i \in Lasting(tree)}
           at(p) == IF p = << >> THEN tree.at
                    ELSE LET i == CHOOSE j \in Lasting(tree) : tree.items[j].key = Head(p)
                         IN  Value[tree.items[i].tree][Tail(p)]
<1>1. Value[tree] = [p \in dom |-> at(p)]
  BY ValueIs, Zenon DEF ValueBy
<1>2. DOMAIN Value[tree] = dom
  BY <1>1
<1>3. \A t \in Trees : DOMAIN Value[t] \subseteq Path
  BY ValueIs DEF Said
<1>4. \A i \in Lasting(tree) : Item(tree, i) \in Trees /\ KeyOf(tree, i) \in PathStep
  BY LastingIs, TreeFacts, KeyIsStep
<1>5. << >> \in dom /\ at(<< >>) = tree.at
  OBVIOUS
<1>6. ASSUME NEW q \in Path, q # << >>, q \in dom
      PROVE  \E i \in Lasting(tree) :
               KeyOf(tree, i) = Head(q) /\ Tail(q) \in DOMAIN Value[Item(tree, i)]
  <2>1. PICK i \in Lasting(tree) : q \in under(i)
    BY <1>6
  <2>2. PICK r \in DOMAIN Value[Item(tree, i)] : q = << KeyOf(tree, i) >> \o r
    BY <2>1 DEF Item, KeyOf
  <2>3. r \in Path /\ KeyOf(tree, i) \in PathStep
    BY <1>3, <1>4, <2>2
  <2>4. Head(q) = KeyOf(tree, i) /\ Tail(q) = r
    BY <2>2, <2>3, StepThen
  <2> QED
    BY <2>2, <2>4
<1>7. ASSUME NEW q \in Path, q # << >>, NEW i \in Lasting(tree),
             KeyOf(tree, i) = Head(q), Tail(q) \in DOMAIN Value[Item(tree, i)]
      PROVE  q \in dom /\ at(q) = Value[Item(tree, i)][Tail(q)]
  <2>1. q = << KeyOf(tree, i) >> \o Tail(q)
    BY <1>7, SplitPath
  <2>2. q \in under(i)
    BY <1>7, <2>1 DEF Item, KeyOf
  <2>3. (CHOOSE j \in Lasting(tree) : tree.items[j].key = Head(q)) = i
    <3>1. \A j \in Lasting(tree) : tree.items[j].key = Head(q) => j = i
      BY <1>7, LastingIs DEF KeyOf
    <3>2. tree.items[i].key = Head(q)
      BY <1>7 DEF KeyOf
    <3>3. \E j \in Lasting(tree) : tree.items[j].key = Head(q)
      BY <3>2
    <3> QED
      BY <3>1, <3>3, Zenon
  <2> DEFINE c == CHOOSE j \in Lasting(tree) : tree.items[j].key = Head(q)
  <2>4. at(q) = Value[tree.items[c].tree][Tail(q)]
    BY <1>7, Zenon
  <2>5. q \in dom
    BY <2>2
  <2>6. c = i
    BY <2>3
  <2> HIDE DEF c, dom, at
  <2> QED
    BY <2>4, <2>5, <2>6 DEF Item
<1> HIDE DEF dom, at
<1>8. Value[tree] = [p \in DOMAIN Value[tree] |-> Value[tree][p]]
  BY <1>1, <1>2
<1>9. \A q \in dom : Value[tree][q] = at(q)
  BY <1>1
<1>10. DOMAIN Value[tree] \subseteq Path
  BY <1>3
<1>11. << >> \in DOMAIN Value[tree] /\ Value[tree][<< >>] = tree.at
  BY <1>2, <1>5, <1>9
<1>12. ASSUME NEW q \in Path, q # << >>, q \in DOMAIN Value[tree]
       PROVE  \E i \in Lasting(tree) :
                KeyOf(tree, i) = Head(q) /\ Tail(q) \in DOMAIN Value[Item(tree, i)]
  BY <1>2, <1>6, <1>12
<1>13. ASSUME NEW q \in Path, q # << >>, NEW i \in Lasting(tree),
              KeyOf(tree, i) = Head(q), Tail(q) \in DOMAIN Value[Item(tree, i)]
       PROVE  q \in DOMAIN Value[tree] /\ Value[tree][q] = Value[Item(tree, i)][Tail(q)]
  BY <1>2, <1>7, <1>9, <1>13
<1> QED
  BY <1>8, <1>10, <1>11, <1>12, <1>13

LEMMA LeafValue ==
  ASSUME NEW tree \in Trees, ~Compound(tree)
  PROVE  DOMAIN Value[tree] = {<< >>} /\ Value[tree] = [p \in {<< >>} |-> tree.at]
<1>1. tree.items = << >> /\ Len(tree.items) = 0 /\ 1 .. Len(tree.items) = {}
  BY TreeFacts
<1>2. Lasting(tree) = {}
  BY <1>1, LastingIs
<1>3. \A q \in DOMAIN Value[tree] : q = << >>
  BY <1>2, ValueFacts
<1>4. DOMAIN Value[tree] = {<< >>} /\ Value[tree][<< >>] = tree.at
  BY <1>3, ValueFacts
<1>5. Value[tree] = [p \in DOMAIN Value[tree] |-> Value[tree][p]]
  BY ValueFacts
<1>6. [p \in DOMAIN Value[tree] |-> Value[tree][p]] = [p \in {<< >>} |-> tree.at]
  BY <1>4
<1> QED
  BY <1>4, <1>5, <1>6

-----------------------------------------------------------------------------
(***************************************************************************)
(* A compound being read: its tree and path, how many of its items are     *)
(* done and begun, and what the text has after it.  The value holds        *)
(* nothing under its path but what the items say, the last of each key,    *)
(* and of those that are done everything.                                  *)
(***************************************************************************)
Frames == [tree : Trees, path : Path, done : Nat, begun : Nat, left : Seq(Token)]

SaysUnder(v, f, q, j) ==
  /\ LastOf(f.tree, f.begun, j) /\ KeyOf(f.tree, j) = Head(q)
  /\ j <= f.done =>
       /\ Tail(q) \in DOMAIN Value[Item(f.tree, j)]
       /\ v[f.path \o q] = Value[Item(f.tree, j)][Tail(q)]

Holds(v, f) ==
  /\ f.path \in DOMAIN v /\ v[f.path] = f.tree.at
  /\ \A q \in Path : q # << >> /\ f.path \o q \in DOMAIN v =>
       \E j \in 1 .. f.begun : SaysUnder(v, f, q, j)
  /\ \A j \in 1 .. f.done : LastOf(f.tree, f.begun, j) =>
       \A q \in DOMAIN Value[Item(f.tree, j)] : f.path \o (<< KeyOf(f.tree, j) >> \o q) \in DOMAIN v

(* w is v with something new at a place. *)
NewAt(w, v, place) ==
  /\ \A p \in Path : p \in DOMAIN w <=> p = place \/ (p \in DOMAIN v /\ ~IsPrefix(place, p))
  /\ \A p \in DOMAIN w : p # place => p \in DOMAIN v /\ w[p] = v[p]

LEMMA FrameFacts ==
  ASSUME NEW f \in Frames, f.begun <= Len(f.tree.items), f.done <= f.begun
  PROVE  /\ f.tree \in Trees /\ f.path \in Path /\ f.done \in Nat /\ f.begun \in Nat
         /\ Len(f.tree.items) \in Nat /\ f.left \in Seq(Token)
         /\ \A j \in 1 .. f.begun : /\ Item(f.tree, j) \in Trees
                                    /\ KeyOf(f.tree, j) \in PathStep
                                    /\ DOMAIN Value[Item(f.tree, j)] \subseteq Path
<1>1. /\ f.tree \in Trees /\ f.path \in Path /\ f.done \in Nat /\ f.begun \in Nat
      /\ f.left \in Seq(Token)
  BY DEF Frames
<1>2. Len(f.tree.items) \in Nat
  BY <1>1, TreeFacts
<1>3. \A j \in 1 .. f.begun : j \in 1 .. Len(f.tree.items)
  BY <1>1, <1>2
<1>4. \A j \in 1 .. f.begun : Item(f.tree, j) \in Trees /\ KeyOf(f.tree, j) \in PathStep
  BY <1>1, <1>3, TreeFacts, KeyIsStep
<1> QED
  BY <1>1, <1>2, <1>4, ValueFacts

LEMMA NothingBelow ==
  ASSUME NEW v, NEW w, NEW place \in Path, NewAt(w, v, place)
  PROVE  place \in DOMAIN w /\ \A q \in Path : place \o q \in DOMAIN w => q = << >>
<1>1. place \in DOMAIN w
  BY Zenon DEF NewAt
<1>2. ASSUME NEW q \in Path, place \o q \in DOMAIN w, q # << >> PROVE FALSE
  <2>1. /\ place \o q \in Path /\ Len(place \o q) = Len(place) + Len(q)
        /\ Len(place) \in Nat /\ Len(q) \in Nat /\ Len(q) > 0
        /\ \A i \in 1 .. Len(place) : (place \o q)[i] = place[i]
    BY <1>2, CatPath
  <2>2. Len(place) <= Len(place \o q) /\ Len(place) # Len(place \o q)
    BY <2>1
  <2>3. IsPrefix(place, place \o q) /\ place \o q # place
    BY <2>1, <2>2, PrefixOf
  <2> QED
    BY <1>2, <2>1, <2>3, Zenon DEF NewAt
<1> QED
  BY <1>1, <1>2

LEMMA HoldsBeside ==
  ASSUME NEW v, NEW w, NEW place \in Path, NewAt(w, v, place),
         NEW e \in Frames, NEW f \in Frames,
         e.tree = f.tree, e.path = f.path, e.done = f.done,
         f.begun = f.done + 1, f.begun <= Len(f.tree.items),
         Len(place) > Len(f.path), \A i \in 1 .. Len(f.path) : place[i] = f.path[i],
         place[Len(f.path) + 1] = KeyOf(f.tree, f.begun),
         \/ e.begun = f.begun
         \/ e.begun = f.done /\ Len(place) = Len(f.path) + 1,
         Holds(v, e)
  PROVE  Holds(w, f)
<1> DEFINE t == f.tree
           b == f.begun
<1>1. /\ t \in Trees /\ f.path \in Path /\ f.done \in Nat /\ b \in Nat /\ b = f.done + 1
      /\ \A j \in 1 .. b : KeyOf(t, j) \in PathStep /\ DOMAIN Value[Item(t, j)] \subseteq Path
  <2>1. f.done <= f.begun
    BY DEF Frames
  <2> QED
    BY <2>1, FrameFacts
<1>2. \A q \in Path :
        /\ ~IsPrefix(place, f.path) /\ f.path # place
        /\ q # << >> =>
             /\ IsPrefix(place, f.path \o q) => Head(q) = KeyOf(t, b)
             /\ f.path \o q = place => Head(q) = KeyOf(t, b)
             /\ Len(place) = Len(f.path) + 1 /\ Head(q) = KeyOf(t, b) => IsPrefix(place, f.path \o q)
  BY <1>1, Through
<1>3. f.path \in DOMAIN w /\ w[f.path] = t.at
  <2>1. f.path \in DOMAIN v /\ v[f.path] = t.at
    BY DEF Holds
  <2>2. ~IsPrefix(place, f.path) /\ f.path # place
    BY <1>2, EmptySeq DEF Path
  <2>3. f.path \in DOMAIN w
    BY <1>1, <2>1, <2>2, Zenon DEF NewAt
  <2> QED
    BY <2>1, <2>2, <2>3 DEF NewAt
<1>4. ASSUME NEW q \in Path, q # << >>, f.path \o q \in DOMAIN w
      PROVE  \E j \in 1 .. b : SaysUnder(w, f, q, j)
  <2>1. f.path \o q \in Path
    BY <1>1, CatPath
  <2>2. CASE f.path \o q = place
    <3>1. Head(q) = KeyOf(t, b)
      BY <1>2, <1>4, <2>2
    <3>2. b \in 1 .. b /\ ~(b <= f.done) /\ b + 1 .. b = {}
      BY <1>1
    <3>3. LastOf(t, b, b)
      BY <3>2 DEF LastOf
    <3>4. SaysUnder(w, f, q, b)
      BY <3>1, <3>2, <3>3 DEF SaysUnder
    <3> QED
      BY <3>2, <3>4
  <2>3. CASE f.path \o q # place
    <3>1. /\ f.path \o q \in DOMAIN v /\ w[f.path \o q] = v[f.path \o q]
          /\ ~IsPrefix(place, f.path \o q)
      BY <1>4, <2>1, <2>3, Zenon DEF NewAt
    <3>2. PICK j \in 1 .. e.begun : SaysUnder(v, e, q, j)
      BY <1>4, <3>1 DEF Holds
    <3>3. /\ LastOf(t, e.begun, j) /\ KeyOf(t, j) = Head(q)
          /\ j <= f.done =>
               /\ Tail(q) \in DOMAIN Value[Item(t, j)]
               /\ v[f.path \o q] = Value[Item(t, j)][Tail(q)]
      BY <3>2 DEF SaysUnder
    <3>4. j \in 1 .. b /\ LastOf(t, b, j)
      <4>1. CASE e.begun = b
        BY <3>2, <3>3, <4>1
      <4>2. CASE e.begun = f.done /\ Len(place) = Len(f.path) + 1
        <5>1. KeyOf(t, b) # KeyOf(t, j)
          BY <1>2, <1>4, <3>1, <3>3, <4>2
        <5>2. j \in 1 .. b /\ \A k \in j + 1 .. b : k = b \/ k \in j + 1 .. f.done
          BY <1>1, <3>2, <4>2
        <5>3. \A k \in j + 1 .. f.done : KeyOf(t, k) # KeyOf(t, j)
          BY <3>3, <4>2 DEF LastOf
        <5> QED
          BY <5>1, <5>2, <5>3 DEF LastOf
      <4> QED
        BY <4>1, <4>2
    <3>5. SaysUnder(w, f, q, j)
      BY <3>1, <3>3, <3>4 DEF SaysUnder
    <3> QED
      BY <3>4, <3>5
  <2> QED
    BY <2>2, <2>3
<1>5. ASSUME NEW j \in 1 .. f.done, LastOf(t, b, j), NEW q \in DOMAIN Value[Item(t, j)]
      PROVE  f.path \o (<< KeyOf(t, j) >> \o q) \in DOMAIN w
  <2> DEFINE r == << KeyOf(t, j) >> \o q
  <2>1. j \in 1 .. b /\ b \in j + 1 .. b
    BY <1>1
  <2>2. KeyOf(t, b) # KeyOf(t, j)
    BY <1>5, <2>1 DEF LastOf
  <2>3. q \in Path /\ KeyOf(t, j) \in PathStep
    BY <1>1, <2>1
  <2>4. r \in Path /\ r # << >> /\ Head(r) = KeyOf(t, j)
    BY <2>3, StepThen
  <2>5. LastOf(t, e.begun, j)
    <3>1. CASE e.begun = b
      BY <1>5, <3>1
    <3>2. CASE e.begun = f.done
      BY <1>1, <1>5, <3>2 DEF LastOf
    <3> QED
      BY <3>1, <3>2
  <2>6. f.path \o r \in DOMAIN v
    BY <2>5 DEF Holds
  <2> HIDE DEF r
  <2>7. ~IsPrefix(place, f.path \o r)
    BY <1>2, <2>2, <2>4
  <2>8. f.path \o r \in Path
    BY <1>1, <2>4, CatPath
  <2>9. f.path \o r \in DOMAIN w
    BY <2>6, <2>7, <2>8, Zenon DEF NewAt
  <2> QED
    BY <2>9 DEF r
<1> QED
  BY <1>3, <1>4, <1>5 DEF Holds

(* A leaf has been added as the item begun. *)
LEMMA LeafDone ==
  ASSUME NEW w, NEW f \in Frames, NEW h \in Frames,
         h.tree = f.tree, h.path = f.path, h.begun = f.begun, h.done = f.begun,
         f.begun = f.done + 1, f.begun <= Len(f.tree.items),
         ~Compound(Item(f.tree, f.begun)),
         NEW place, place = Append(f.path, KeyOf(f.tree, f.begun)),
         place \in DOMAIN w, w[place] = Item(f.tree, f.begun).at,
         \A q \in Path : place \o q \in DOMAIN w => q = << >>,
         Holds(w, f)
  PROVE  Holds(w, h)
<1> DEFINE t == f.tree
           b == f.begun
<1>1. /\ t \in Trees /\ f.path \in Path /\ f.done \in Nat /\ b \in Nat /\ b = f.done + 1
      /\ b \in 1 .. b /\ Item(t, b) \in Trees /\ KeyOf(t, b) \in PathStep
  <2>1. f.done <= f.begun /\ f.begun \in Nat /\ f.begun \in 1 .. f.begun
    BY DEF Frames
  <2> QED
    BY <2>1, FrameFacts
<1>2. DOMAIN Value[Item(t, b)] = {<< >>} /\ Value[Item(t, b)][<< >>] = Item(t, b).at
  BY <1>1, LeafValue
<1>3. << >> \in Path
  BY EmptySeq DEF Path
<1>4. f.path \o (<< KeyOf(t, b) >> \o << >>) = place
  <2>1. Append(f.path, KeyOf(t, b)) \o << >> = f.path \o (<< KeyOf(t, b) >> \o << >>)
    BY <1>1, <1>3, AppendCat
  <2>2. place \in Path
    BY <1>1, AppendPath
  <2>3. place \o << >> = place
    BY <2>2, ConcatEmptySeq DEF Path
  <2> QED
    BY <2>1, <2>3
<1>5. ASSUME NEW q \in Path, q # << >>, f.path \o q \in DOMAIN w
      PROVE  \E j \in 1 .. b : SaysUnder(w, h, q, j)
  <2>1. PICK j \in 1 .. b : SaysUnder(w, f, q, j)
    BY <1>5 DEF Holds
  <2>2. CASE j <= f.done
    <3>1. SaysUnder(w, h, q, j)
      BY <2>1, <2>2 DEF SaysUnder
    <3> QED
      BY <3>1
  <2>3. CASE ~(j <= f.done)
    <3>1. j = b
      BY <1>1, <2>3
    <3>2. Head(q) = KeyOf(t, b) /\ LastOf(t, b, b)
      BY <2>1, <3>1 DEF SaysUnder
    <3>3. q = << KeyOf(t, b) >> \o Tail(q) /\ Tail(q) \in Path
      BY <1>5, <3>2, SplitPath
    <3>4. f.path \o q = place \o Tail(q)
      <4>1. place \o Tail(q) = f.path \o (<< KeyOf(t, b) >> \o Tail(q))
        BY <1>1, <3>3, AppendCat
      <4> QED
        BY <3>3, <4>1, Zenon
    <3>5. Tail(q) = << >>
      BY <1>5, <3>3, <3>4
    <3>6. f.path \o q = place
      BY <1>4, <3>3, <3>5
    <3>7. /\ Tail(q) \in DOMAIN Value[Item(t, b)]
          /\ w[h.path \o q] = Value[Item(t, b)][Tail(q)]
      BY <1>2, <3>5, <3>6
    <3>8. SaysUnder(w, h, q, b)
      BY <3>2, <3>7 DEF SaysUnder
    <3> QED
      BY <1>1, <3>8
  <2> QED
    BY <2>2, <2>3
<1>6. ASSUME NEW j \in 1 .. b, LastOf(t, b, j), NEW q \in DOMAIN Value[Item(t, j)]
      PROVE  f.path \o (<< KeyOf(t, j) >> \o q) \in DOMAIN w
  <2>1. CASE j \in 1 .. f.done
    BY <1>6, <2>1 DEF Holds
  <2>2. CASE j = b
    <3>1. q = << >>
      BY <1>2, <1>6, <2>2
    <3> QED
      BY <1>4, <2>2, <3>1
  <2> QED
    BY <1>1, <2>1, <2>2
<1>7. f.path \in DOMAIN w /\ w[f.path] = t.at
  BY DEF Holds
<1> QED
  BY <1>5, <1>6, <1>7 DEF Holds

(* A compound that is done has all its tree says, and nothing else.        *)
LEMMA AllSaid ==
  ASSUME NEW v, NEW c \in Frames, c.done = c.begun, c.begun = Len(c.tree.items), Holds(v, c)
  PROVE  \A q \in Path :
           /\ c.path \o q \in DOMAIN v => q \in DOMAIN Value[c.tree]
           /\ q \in DOMAIN Value[c.tree] =>
                c.path \o q \in DOMAIN v /\ v[c.path \o q] = Value[c.tree][q]
<1> DEFINE t == c.tree
           n == Len(t.items)
<1>1. t \in Trees /\ c.path \in Path /\ n \in Nat
  BY TreeFacts DEF Frames
<1>2. c.path \in DOMAIN v /\ v[c.path] = t.at
  BY DEF Holds
<1>3. c.path \o << >> = c.path
  BY <1>1, ConcatEmptySeq DEF Path
<1>4. << >> \in DOMAIN Value[t] /\ Value[t][<< >>] = t.at
  BY <1>1, ValueFacts
<1>5. ASSUME NEW q \in Path, q # << >>, c.path \o q \in DOMAIN v
      PROVE  q \in DOMAIN Value[t] /\ v[c.path \o q] = Value[t][q]
  <2>1. PICK j \in 1 .. n : SaysUnder(v, c, q, j)
    BY <1>5 DEF Holds
  <2>2. /\ LastOf(t, n, j) /\ KeyOf(t, j) = Head(q)
        /\ Tail(q) \in DOMAIN Value[Item(t, j)]
        /\ v[c.path \o q] = Value[Item(t, j)][Tail(q)]
    BY <1>1, <2>1 DEF SaysUnder
  <2>3. j \in Lasting(t)
    BY <1>1, <2>2, LastingIs
  <2>4. q \in DOMAIN Value[t] /\ Value[t][q] = Value[Item(t, j)][Tail(q)]
    BY <1>1, <1>5, <2>2, <2>3, ValueFacts
  <2> QED
    BY <2>2, <2>4
<1>6. ASSUME NEW q \in Path, q # << >>, q \in DOMAIN Value[t]
      PROVE  c.path \o q \in DOMAIN v
  <2>1. PICK j \in Lasting(t) : KeyOf(t, j) = Head(q) /\ Tail(q) \in DOMAIN Value[Item(t, j)]
    BY <1>1, <1>6, ValueFacts
  <2>2. LastOf(t, n, j) /\ j \in 1 .. n
    BY <1>1, LastingIs
  <2>3. c.path \o (<< KeyOf(t, j) >> \o Tail(q)) \in DOMAIN v
    BY <2>1, <2>2 DEF Holds
  <2>4. q = << KeyOf(t, j) >> \o Tail(q)
    BY <1>6, <2>1, SplitPath
  <2> QED
    BY <2>3, <2>4, Zenon
<1> HIDE DEF t, n
<1>7. ASSUME NEW q \in Path
      PROVE  /\ c.path \o q \in DOMAIN v => q \in DOMAIN Value[t]
             /\ q \in DOMAIN Value[t] =>
                  c.path \o q \in DOMAIN v /\ v[c.path \o q] = Value[t][q]
  <2>1. CASE q = << >>
    BY <1>2, <1>3, <1>4, <2>1
  <2>2. CASE q # << >>
    BY <1>5, <1>6, <2>2
  <2> QED
    BY <2>1, <2>2
<1> QED
  BY <1>7 DEF t

(* A compound has been read as the item begun. *)
LEMMA CompoundDone ==
  ASSUME NEW v, NEW f \in Frames, NEW h \in Frames, NEW c \in Frames,
         h.tree = f.tree, h.path = f.path, h.begun = f.begun, h.done = f.begun,
         f.begun = f.done + 1, f.begun <= Len(f.tree.items),
         c.tree = Item(f.tree, f.begun), c.path = Append(f.path, KeyOf(f.tree, f.begun)),
         c.done = c.begun, c.begun = Len(c.tree.items),
         Holds(v, f), Holds(v, c)
  PROVE  Holds(v, h)
<1> DEFINE t == f.tree
           b == f.begun
           k == KeyOf(t, b)
<1>1. /\ t \in Trees /\ f.path \in Path /\ f.done \in Nat /\ b \in Nat /\ b = f.done + 1
      /\ b \in 1 .. b /\ k \in PathStep /\ DOMAIN Value[c.tree] \subseteq Path
  <2>1. f.done <= f.begun /\ f.begun \in Nat /\ f.begun \in 1 .. f.begun
    BY DEF Frames
  <2> QED
    BY <2>1, FrameFacts
<1>2. \A q \in Path :
        /\ c.path \o q \in DOMAIN v => q \in DOMAIN Value[c.tree]
        /\ q \in DOMAIN Value[c.tree] =>
             c.path \o q \in DOMAIN v /\ v[c.path \o q] = Value[c.tree][q]
  BY AllSaid
<1>3. \A q \in Path : c.path \o q = f.path \o (<< k >> \o q)
  BY <1>1, AppendCat
<1>4. ASSUME NEW q \in Path, q # << >>, f.path \o q \in DOMAIN v
      PROVE  \E j \in 1 .. b : SaysUnder(v, h, q, j)
  <2>1. PICK j \in 1 .. b : SaysUnder(v, f, q, j)
    BY <1>4 DEF Holds
  <2>2. CASE j <= f.done
    <3>1. SaysUnder(v, h, q, j)
      BY <2>1, <2>2 DEF SaysUnder
    <3> QED
      BY <3>1
  <2>3. CASE ~(j <= f.done)
    <3>1. j = b
      BY <1>1, <2>3
    <3>2. Head(q) = k /\ LastOf(t, b, b)
      BY <2>1, <3>1 DEF SaysUnder
    <3>3. q = << k >> \o Tail(q) /\ Tail(q) \in Path
      BY <1>4, <3>2, SplitPath
    <3>4. f.path \o q = c.path \o Tail(q)
      <4>1. c.path \o Tail(q) = f.path \o (<< k >> \o Tail(q))
        BY <1>3, <3>3
      <4> QED
        BY <3>3, <4>1, Zenon
    <3>5. /\ Tail(q) \in DOMAIN Value[Item(t, b)]
          /\ v[h.path \o q] = Value[Item(t, b)][Tail(q)]
      BY <1>2, <1>4, <3>3, <3>4
    <3>6. SaysUnder(v, h, q, b)
      BY <3>2, <3>5 DEF SaysUnder
    <3> QED
      BY <1>1, <3>6
  <2> QED
    BY <2>2, <2>3
<1>5. ASSUME NEW j \in 1 .. b, LastOf(t, b, j), NEW q \in DOMAIN Value[Item(t, j)]
      PROVE  f.path \o (<< KeyOf(t, j) >> \o q) \in DOMAIN v
  <2>1. CASE j \in 1 .. f.done
    BY <1>5, <2>1 DEF Holds
  <2>2. CASE j = b
    <3>1. q \in Path /\ q \in DOMAIN Value[c.tree]
      BY <1>1, <1>5, <2>2
    <3>2. c.path \o q \in DOMAIN v
      BY <1>2, <3>1
    <3> QED
      BY <1>3, <2>2, <3>1, <3>2
  <2> QED
    BY <1>1, <2>1, <2>2
<1>6. f.path \in DOMAIN v /\ v[f.path] = t.at
  BY DEF Holds
<1> QED
  BY <1>4, <1>5, <1>6 DEF Holds

(* The root has been read. *)
LEMMA RootDone ==
  ASSUME ValueType, NEW c \in Frames, c.path = << >>, c.done = c.begun,
         c.begun = Len(c.tree.items), Holds(value, c)
  PROVE  value = Value[c.tree]
<1>1. \A q \in Path : << >> \o q = q
  BY ConcatEmptySeq DEF Path
<1>2. c.tree \in Trees
  BY DEF Frames
<1>3. DOMAIN value \subseteq Path /\ DOMAIN Value[c.tree] \subseteq Path
  BY <1>2, ValueFacts DEF ValueType
<1>4. \A q \in Path :
        /\ q \in DOMAIN value <=> q \in DOMAIN Value[c.tree]
        /\ q \in DOMAIN Value[c.tree] => value[q] = Value[c.tree][q]
  <2> SUFFICES ASSUME NEW q \in Path
               PROVE  /\ q \in DOMAIN value <=> q \in DOMAIN Value[c.tree]
                      /\ q \in DOMAIN Value[c.tree] => value[q] = Value[c.tree][q]
    OBVIOUS
  <2> DEFINE p == c.path \o q
  <2>1. /\ p \in DOMAIN value => q \in DOMAIN Value[c.tree]
        /\ q \in DOMAIN Value[c.tree] => p \in DOMAIN value /\ value[p] = Value[c.tree][q]
    BY AllSaid
  <2>2. p = q
    BY <1>1
  <2> HIDE DEF p
  <2> QED
    BY <2>1, <2>2
<1>5. DOMAIN value = DOMAIN Value[c.tree]
  BY <1>3, <1>4
<1>6. \A q \in DOMAIN value : value[q] = Value[c.tree][q]
  BY <1>3, <1>4, <1>5
<1>7. /\ value = [p \in DOMAIN value |-> value[p]]
      /\ Value[c.tree] = [p \in DOMAIN Value[c.tree] |-> Value[c.tree][p]]
  BY <1>2, ValueFacts DEF ValueType
<1>8. [p \in DOMAIN value |-> value[p]] = [p \in DOMAIN Value[c.tree] |-> Value[c.tree][p]]
  BY <1>5, <1>6
<1> QED
  BY <1>7, <1>8


-----------------------------------------------------------------------------
(***************************************************************************)
(* The text of a tree as the grammar comes through it: a frame for each of *)
(* the rules it is in, and what the innermost still has to come.           *)
(***************************************************************************)
After(f, i) == Left[<< f.tree, i >>] \o f.left
Behind(f) == Text(Item(f.tree, f.done + 1)) \o After(f, f.done + 1)

Under(f, g) ==
  /\ g.tree = Item(f.tree, f.begun) /\ g.path = Append(f.path, KeyOf(f.tree, f.begun))
  /\ g.left = After(f, f.begun)

(* The frame d of n. *)
Link(v, cur, win, n, fr, d) ==
  /\ Compound(fr[d].tree) /\ win[d] = fr[d].tree.at
  /\ Len(fr[d].path) = d - 1 /\ \A i \in 1 .. d - 1 : cur[i] = fr[d].path[i]
  /\ fr[d].begun <= Len(fr[d].tree.items)
  /\ Holds(v, fr[d])
  /\ d = n => fr[d].begun = fr[d].done /\ fr[d].path = cur
  /\ d # n => /\ fr[d].begun = fr[d].done + 1 /\ Under(fr[d], fr[d + 1])
              /\ cur[d] = KeyOf(fr[d].tree, fr[d].begun)

Spine(v, cur, win, root, n, fr) ==
  /\ n \in Nat \ {0} /\ fr \in [1 .. n -> Frames] /\ Len(win) = n
  /\ fr[1].tree = root /\ fr[1].left = << >> /\ fr[1].path = << >>
  /\ \A d \in 1 .. n : Link(v, cur, win, n, fr, d)

GoesOn(f, ex, nm, rest) ==
  \/ ex = "item or end" /\ f.done = 0 /\ rest = After(f, 0)
  \/ ex = ", or end" /\ f.done # 0 /\ rest = After(f, f.done)
  \/ /\ f.done < Len(f.tree.items)
     /\ \/ ex = "item" /\ f.done # 0 /\ rest = Key(f.tree, f.done + 1) \o Behind(f)
        \/ /\ f.tree.at = "object" /\ nm = KeyOf(f.tree, f.done + 1)
           /\ \/ ex = ":" /\ rest = << ":" >> \o Behind(f)
              \/ ex = "value" /\ rest = Behind(f)

(* The tokens of s and m are a and then r; a has been taken from s.          *)
ComesNext(s, m, a, r) ==
  /\ s \in Seq(Token) /\ m \in Seq(Token) /\ a \in Token /\ r \in Seq(Token)
  /\ s # << >> /\ s \o m = << a >> \o r

Taken(s, m, a, r) == Head(s) = a /\ Tail(s) \o m = r

LEMMA Ahead1 ==
  ASSUME NEW s, NEW m, NEW a, NEW r, ComesNext(s, m, a, r)
  PROVE  Taken(s, m, a, r)
<1>1. /\ s \in Seq(Token) /\ m \in Seq(Token) /\ a \in Token /\ r \in Seq(Token)
      /\ s # << >> /\ s \o m = << a >> \o r
  BY DEF ComesNext
<1> DEFINE h == << Head(s) >>
           t == Tail(s)
           b == Head(s)
           c == t \o m
<1>2. s = h \o t /\ h \in Seq(Token) /\ t \in Seq(Token) /\ b \in Token
  BY <1>1, HeadAndTail
<1> HIDE DEF t, h
<1>3. (h \o t) \o m = h \o (t \o m) /\ t \o m \in Seq(Token)
  BY <1>1, <1>2, Regroup, ConcatProperties
<1>4. h \o (t \o m) = << a >> \o r /\ h = << b >>
  BY <1>1, <1>2, <1>3 DEF h
<1> HIDE DEF b
<1>5. /\ a \in Token /\ b \in Token /\ c \in Seq(Token) /\ r \in Seq(Token)
      /\ << b >> \o c = << a >> \o r
  BY <1>1, <1>2, <1>3, <1>4
<1> HIDE DEF c
<1>6. b = a /\ c = r
  BY <1>5, SameStart
<1> QED
  BY <1>6, Zenon DEF t, b, c, Taken

(* The texts of what comes after a frame's items. *)
LEMMA FrameText ==
  ASSUME NEW f \in Frames, Compound(f.tree), f.done <= Len(f.tree.items)
  PROVE  /\ f.tree \in Trees /\ f.done \in Nat /\ Len(f.tree.items) \in Nat
         /\ After(f, f.done) \in Seq(Token) /\ f.left \in Seq(Token)
         /\ f.done = Len(f.tree.items) => After(f, f.done) = << Close(f.tree.at) >> \o f.left
         /\ f.done < Len(f.tree.items) =>
              LET i == f.done + 1
              IN  /\ i \in 1 .. Len(f.tree.items) /\ Item(f.tree, i) \in Trees
                  /\ KeyOf(f.tree, i) \in STRING
                  /\ After(f, i) \in Seq(Token) /\ Behind(f) \in Seq(Token)
                  /\ Key(f.tree, i) \in Seq(Token)
                  /\ f.done = 0 => After(f, f.done) = Key(f.tree, i) \o Behind(f)
<1>1. f.tree \in Trees /\ f.done \in Nat /\ f.left \in Seq(Token) /\ Len(f.tree.items) \in Nat
  BY TreeFacts DEF Frames
<1>2. f.done \in 0 .. Len(f.tree.items)
  BY <1>1
<1>3. /\ After(f, f.done) \in Seq(Token)
      /\ f.done = Len(f.tree.items) => After(f, f.done) = << Close(f.tree.at) >> \o f.left
  BY <1>1, <1>2, LeftOver DEF After
<1>4. ASSUME f.done < Len(f.tree.items)
      PROVE  LET i == f.done + 1
             IN  /\ i \in 1 .. Len(f.tree.items) /\ Item(f.tree, i) \in Trees
                 /\ KeyOf(f.tree, i) \in STRING
                 /\ After(f, i) \in Seq(Token) /\ Behind(f) \in Seq(Token)
                 /\ Key(f.tree, i) \in Seq(Token)
                 /\ f.done = 0 => After(f, f.done) = Key(f.tree, i) \o Behind(f)
  <2> DEFINE i == f.done + 1
  <2>1. i \in 1 .. Len(f.tree.items) /\ i \in 0 .. Len(f.tree.items)
    BY <1>1, <1>4
  <2>2. Item(f.tree, i) \in Trees /\ KeyOf(f.tree, i) \in STRING /\ Key(f.tree, i) \in Seq(Token)
    BY <1>1, <2>1, TreeFacts, KeyType
  <2>3. After(f, i) \in Seq(Token)
    BY <1>1, <2>1, LeftOver DEF After
  <2>4. Behind(f) \in Seq(Token)
    BY <2>2, <2>3, TextFacts, ConcatProperties DEF Behind
  <2>5. f.done = 0 => After(f, f.done) = Key(f.tree, i) \o Behind(f)
    BY <1>1, <1>2, <1>4, LeftOver DEF After, Behind
  <2> QED
    BY <2>1, <2>2, <2>3, <2>4, <2>5
<1> QED
  BY <1>1, <1>3, <1>4

LEMMA CommaText ==
  ASSUME NEW f \in Frames, Compound(f.tree), f.done < Len(f.tree.items), f.done # 0
  PROVE  After(f, f.done) = << "," >> \o (Key(f.tree, f.done + 1) \o Behind(f))
<1>1. f.tree \in Trees /\ f.done \in Nat /\ f.left \in Seq(Token) /\ Len(f.tree.items) \in Nat
  BY TreeFacts DEF Frames
<1>2. f.done \in 0 .. Len(f.tree.items)
  BY <1>1
<1> QED
  BY <1>1, <1>2, LeftOver DEF After, Behind

(* What an item begins with. *)
LEMMA ItemText ==
  ASSUME NEW tree \in Trees, NEW i \in 1 .. Len(tree.items), NEW rest \in Seq(Token)
  PROVE  /\ tree.at = "object" =>
              /\ KeyOf(tree, i) \in Token /\ IsString(KeyOf(tree, i))
              /\ Key(tree, i) \o rest = << KeyOf(tree, i) >> \o (<< ":" >> \o rest)
              /\ << ":" >> \o rest \in Seq(Token)
         /\ tree.at # "object" => Key(tree, i) \o rest = rest
<1>1. ASSUME tree.at # "object" PROVE Key(tree, i) \o rest = rest
  BY <1>1, ConcatEmptySeq DEF Key
<1>2. ASSUME tree.at = "object"
      PROVE  /\ KeyOf(tree, i) \in Token /\ IsString(KeyOf(tree, i))
             /\ Key(tree, i) \o rest = << KeyOf(tree, i) >> \o (<< ":" >> \o rest)
             /\ << ":" >> \o rest \in Seq(Token)
  <2> DEFINE k == KeyOf(tree, i)
  <2>1. i \in DOMAIN tree.items
    BY TreeFacts
  <2>2. k \in Token /\ IsString(k)
    BY <1>2, <2>1, TreesAssumption, TreeFacts, KeyIsStep DEF KeyOf
  <2>3. ":" \in Token
    BY DEF Token, Punctuation
  <2>4. << k >> \in Seq(Token) /\ << ":" >> \in Seq(Token)
    BY <2>2, <2>3, OneToken
  <2>5. Key(tree, i) = << k, ":" >>
    BY <1>2 DEF Key, KeyOf
  <2> HIDE DEF k
  <2>6. << k, ":" >> = << k >> \o << ":" >>
    BY <2>2, <2>3
  <2>7. (<< k >> \o << ":" >>) \o rest = << k >> \o (<< ":" >> \o rest)
    BY <2>4, Regroup
  <2>8. << ":" >> \o rest \in Seq(Token)
    BY <2>4, ConcatProperties
  <2> QED
    BY <2>2, <2>5, <2>6, <2>7, <2>8 DEF k
<1> QED
  BY <1>1, <1>2

LEMMA BehindText ==
  ASSUME NEW f \in Frames, Compound(f.tree), f.done < Len(f.tree.items)
  PROVE  LET item == Item(f.tree, f.done + 1)
             rest == After(f, f.done + 1)
         IN  /\ ~Compound(item) =>
                  item.at \in Token /\ item.at \notin Punctuation /\ Behind(f) = << item.at >> \o rest
             /\ Compound(item) =>
                  /\ Open(item.at) \in Token
                  /\ Left[<< item, 0 >>] \o rest \in Seq(Token)
                  /\ Behind(f) = << Open(item.at) >> \o (Left[<< item, 0 >>] \o rest)
<1> DEFINE item == Item(f.tree, f.done + 1)
           rest == After(f, f.done + 1)
<1>1. item \in Trees /\ rest \in Seq(Token)
  <2>1. f.done <= Len(f.tree.items)
    BY TreeFacts DEF Frames
  <2> QED
    BY <2>1, FrameText
<1>2. ASSUME ~Compound(item)
      PROVE  item.at \in Token /\ item.at \notin Punctuation /\ Behind(f) = << item.at >> \o rest
  <2>1. item.at \in Token /\ item.at \notin Punctuation
    BY <1>1, <1>2, TreeFacts, TreesAssumption, KeyIsStep
  <2>2. Text(item) = << item.at >>
    BY <1>1, <1>2, TextFacts
  <2> QED
    BY <2>1, <2>2 DEF Behind
<1>3. ASSUME Compound(item)
      PROVE  /\ Open(item.at) \in Token
             /\ Left[<< item, 0 >>] \o rest \in Seq(Token)
             /\ Behind(f) = << Open(item.at) >> \o (Left[<< item, 0 >>] \o rest)
  <2> DEFINE h == << Open(item.at) >>
             l == Left[<< item, 0 >>]
  <2>1. Text(item) = h \o l /\ h \in Seq(Token)
    BY <1>1, <1>3, TextFacts
  <2>2. 0 \in 0 .. Len(item.items)
    BY <1>1, TreeFacts
  <2>3. l \in Seq(Token)
    BY <1>1, <1>3, <2>2, LeftType
  <2> HIDE DEF h, l
  <2>4. (h \o l) \o rest = h \o (l \o rest) /\ l \o rest \in Seq(Token)
    BY <1>1, <2>1, <2>3, Regroup, ConcatProperties
  <2>5. Behind(f) = h \o (l \o rest)
    BY <2>1, <2>4 DEF Behind
  <2>6. Open(item.at) \in Token
    BY DEF Open, Token, Punctuation
  <2> QED
    BY <2>4, <2>5, <2>6 DEF h, l
<1> QED
  BY <1>2, <1>3

LEMMA TextHead ==
  ASSUME NEW tree \in Trees
  PROVE  \E a \in Token, r \in Seq(Token) : Text(tree) = << a >> \o r /\ StartsValue(a)
<1>1. CASE Compound(tree)
  <2>1. Text(tree) = << Open(tree.at) >> \o Left[<< tree, 0 >>]
    BY <1>1, TextFacts
  <2>2. Left[<< tree, 0 >>] \in Seq(Token)
    <3>1. 0 \in 0 .. Len(tree.items)
      BY TreeFacts
    <3> QED
      BY <1>1, <3>1, LeftType
  <2>3. Open(tree.at) \in Token /\ StartsValue(Open(tree.at))
    BY DEF Open, Token, Punctuation, StartsValue
  <2> QED
    BY <2>1, <2>2, <2>3, Zenon
<1>2. CASE ~Compound(tree)
  <2> DEFINE s == << tree.at >>
  <2>1. Text(tree) = s /\ s \in Seq(Token) /\ << >> \in Seq(Token)
    BY <1>2, TextFacts, EmptySeq
  <2>2. tree.at \in Token /\ StartsValue(tree.at)
    <3>1. tree.at \in Token /\ tree.at \notin Punctuation
      BY <1>2, TreeFacts, TreesAssumption, KeyIsStep
    <3> QED
      BY <3>1 DEF StartsValue, Punctuation
  <2> HIDE DEF s
  <2>3. s \o << >> = s
    BY <2>1, ConcatEmptySeq
  <2>4. Text(tree) = << tree.at >> \o << >>
    BY <2>1, <2>3 DEF s
  <2> QED
    BY <2>1, <2>2, <2>4, Zenon
<1> QED
  BY <1>1, <1>2

LEMMA BehindHead ==
  ASSUME NEW f \in Frames, Compound(f.tree), f.done < Len(f.tree.items)
  PROVE  \E a \in Token, r \in Seq(Token) : Behind(f) = << a >> \o r /\ StartsValue(a)
<1> DEFINE item == Item(f.tree, f.done + 1)
           rest == After(f, f.done + 1)
<1>1. item \in Trees /\ rest \in Seq(Token)
  <2>1. f.done <= Len(f.tree.items)
    BY TreeFacts DEF Frames
  <2> QED
    BY <2>1, FrameText
<1>2. Behind(f) = Text(item) \o rest
  BY DEF Behind
<1> HIDE DEF item, rest
<1>3. PICK a \in Token, r \in Seq(Token) : Text(item) = << a >> \o r /\ StartsValue(a)
  BY <1>1, TextHead
<1> DEFINE s == << a >>
<1>4. s \in Seq(Token)
  BY OneToken
<1> HIDE DEF s
<1>5. (s \o r) \o rest = s \o (r \o rest) /\ r \o rest \in Seq(Token)
  BY <1>1, <1>4, Regroup, ConcatProperties
<1>6. Behind(f) = << a >> \o (r \o rest)
  BY <1>2, <1>3, <1>5, Zenon DEF s
<1> QED
  BY <1>3, <1>5, <1>6, Zenon

LEMMA ItemHead ==
  ASSUME NEW f \in Frames, Compound(f.tree), f.done < Len(f.tree.items)
  PROVE  \E a \in Token, r \in Seq(Token) :
           /\ Key(f.tree, f.done + 1) \o Behind(f) = << a >> \o r
           /\ IF f.tree.at = "object" THEN IsString(a) ELSE StartsValue(a)
<1> DEFINE i == f.done + 1
<1>1. f.tree \in Trees /\ i \in 1 .. Len(f.tree.items) /\ Behind(f) \in Seq(Token)
  <2>1. f.done <= Len(f.tree.items)
    BY TreeFacts DEF Frames
  <2> QED
    BY <2>1, FrameText
<1> HIDE DEF i
<1>2. CASE f.tree.at = "object"
  <2>1. /\ KeyOf(f.tree, i) \in Token /\ IsString(KeyOf(f.tree, i))
        /\ Key(f.tree, i) \o Behind(f) = << KeyOf(f.tree, i) >> \o (<< ":" >> \o Behind(f))
        /\ << ":" >> \o Behind(f) \in Seq(Token)
    BY <1>1, <1>2, ItemText
  <2> QED
    BY <1>2, <2>1, Zenon DEF i
<1>3. CASE f.tree.at # "object"
  <2>1. Key(f.tree, i) \o Behind(f) = Behind(f)
    BY <1>1, <1>3, ItemText
  <2>2. \E a \in Token, r \in Seq(Token) : Behind(f) = << a >> \o r /\ StartsValue(a)
    BY BehindHead
  <2> QED
    BY <1>3, <2>1, <2>2, Zenon DEF i
<1> QED
  BY <1>2, <1>3

-----------------------------------------------------------------------------
(***************************************************************************)
(* The elements of an array go by their indices.                           *)
(***************************************************************************)
LEMMA ChildOf ==
  ASSUME NEW p \in Path, NEW c \in Path, Len(c) = Len(p) + 1, IsPrefix(p, c)
  PROVE  \E k \in PathStep : c = Append(p, k)
<1>1. Len(p) \in Nat /\ \A i \in 1 .. Len(p) : p[i] = c[i]
  BY PrefixOf, LenProperties DEF Path
<1> DEFINE k == c[Len(p) + 1]
           a == Append(p, k)
<1>2. k \in PathStep
  <2>1. Len(p) + 1 \in 1 .. Len(c)
    BY <1>1
  <2> QED
    BY <2>1, ElementOfSeq DEF Path
<1> HIDE DEF k
<1>3. /\ a \in Path /\ Len(a) = Len(p) + 1 /\ a[Len(p) + 1] = k
      /\ \A i \in 1 .. Len(p) : a[i] = p[i]
  BY <1>2, AppendPath
<1> HIDE DEF a
<1>4. \A i \in 1 .. Len(c) : a[i] = c[i]
  <2> SUFFICES ASSUME NEW i \in 1 .. Len(c) PROVE a[i] = c[i]
    OBVIOUS
  <2>1. i \in 1 .. Len(p) \/ i = Len(p) + 1
    BY <1>1
  <2> QED
    BY <1>1, <1>3, <2>1 DEF k
<1>5. a = c
  BY <1>3, <1>4, SeqEqual DEF Path
<1> QED
  BY <1>2, <1>5 DEF a

LEMMA SameStep ==
  ASSUME NEW p \in Path, NEW j \in PathStep, NEW k \in PathStep, Append(p, j) = Append(p, k)
  PROVE  j = k
<1>1. Append(p, j)[Len(p) + 1] = j /\ Append(p, k)[Len(p) + 1] = k
  BY AppendPath
<1> QED
  BY <1>1

LEMMA ArrayCount ==
  ASSUME ValueType, NEW f \in Frames, Compound(f.tree), f.begun = f.done,
         f.done <= Len(f.tree.items), f.tree.at = "array", Holds(value, f)
  PROVE  Cardinality(Children(value, f.path)) = f.done
<1> DEFINE t == f.tree
           n == f.done
           C == Children(value, f.path)
           g == [j \in 1 .. n |-> Append(f.path, KeyOf(t, j))]
<1>1. /\ t \in Trees /\ f.path \in Path /\ n \in Nat
      /\ \A j \in 1 .. n : KeyOf(t, j) \in PathStep /\ DOMAIN Value[Item(t, j)] \subseteq Path
      /\ \A j \in 1 .. n : Item(t, j) \in Trees
  <2>1. f.done <= f.begun
    BY DEF Frames
  <2> QED
    BY <2>1, FrameFacts
<1>2. \A i, j \in 1 .. n : KeyOf(t, i) = KeyOf(t, j) => i = j
  <2>1. \A j \in 1 .. n : j \in DOMAIN t.items
    BY <1>1, TreeFacts
  <2>2. \A i, j \in DOMAIN t.items : t.items[i].key = t.items[j].key => i = j
    BY <1>1, TreesAssumption
  <2> QED
    BY <2>1, <2>2 DEF KeyOf
<1>3. ASSUME NEW j \in 1 .. n
      PROVE  Append(f.path, KeyOf(t, j)) \in C
  <2> DEFINE k == KeyOf(t, j)
             c == Append(f.path, k)
  <2>1. LastOf(t, f.begun, j)
    <3>1. \A i \in j + 1 .. n : i \in 1 .. n /\ i # j
      BY <1>1
    <3> QED
      BY <1>2, <3>1 DEF LastOf
  <2>2. << >> \in DOMAIN Value[Item(t, j)] /\ k \in PathStep
    BY <1>1, ValueFacts
  <2>3. f.path \o (<< k >> \o << >>) \in DOMAIN value
    BY <2>1, <2>2 DEF Holds
  <2>4. << >> \in Path
    BY EmptySeq DEF Path
  <2>5. c \o << >> = f.path \o (<< k >> \o << >>)
    BY <1>1, <2>2, <2>4, AppendCat
  <2>6. c \in Path /\ Len(c) = Len(f.path) + 1 /\ \A i \in 1 .. Len(f.path) : c[i] = f.path[i]
    BY <1>1, <2>2, AppendPath
  <2> HIDE DEF c
  <2>7. c \o << >> = c
    BY <2>6, ConcatEmptySeq DEF Path
  <2>8. c \in DOMAIN value
    BY <2>3, <2>5, <2>7
  <2>9. Len(f.path) \in Nat /\ Len(f.path) <= Len(c)
    BY <1>1, <2>6, LenProperties DEF Path
  <2>10. IsPrefix(f.path, c)
    BY <1>1, <2>6, <2>9, PrefixOf
  <2> QED
    BY <2>6, <2>8, <2>10 DEF Children, c
<1>4. ASSUME NEW c \in C
      PROVE  \E j \in 1 .. n : c = Append(f.path, KeyOf(t, j))
  <2>1. c \in DOMAIN value /\ c \in Path /\ Len(c) = Len(f.path) + 1 /\ IsPrefix(f.path, c)
    BY DEF Children, ValueType
  <2>2. PICK k \in PathStep : c = Append(f.path, k)
    BY <1>1, <2>1, ChildOf
  <2>3. << >> \in Path
    BY EmptySeq DEF Path
  <2> DEFINE q == << k >> \o << >>
  <2>4. q \in Path /\ q # << >> /\ Head(q) = k
    BY <2>2, <2>3, StepThen
  <2>5. c \o << >> = f.path \o q
    BY <1>1, <2>2, <2>3, AppendCat
  <2>6. c \o << >> = c
    BY <2>1, ConcatEmptySeq DEF Path
  <2> HIDE DEF q
  <2>7. PICK j \in 1 .. f.begun : SaysUnder(value, f, q, j)
    BY <2>1, <2>4, <2>5, <2>6 DEF Holds
  <2>8. KeyOf(t, j) = k
    BY <2>4, <2>7 DEF SaysUnder
  <2> QED
    BY <2>2, <2>7, <2>8
<1>5. \A i, j \in 1 .. n : Append(f.path, KeyOf(t, i)) = Append(f.path, KeyOf(t, j)) => i = j
  BY <1>1, <1>2, SameStep
<1>6. \A j \in 1 .. n : g[j] = Append(f.path, KeyOf(t, j))
  OBVIOUS
<1> HIDE DEF C
<1>7. g \in [1 .. n -> C]
  BY <1>3
<1> HIDE DEF g
<1>8. g \in Bijection(1 .. n, C)
  <2>1. DOMAIN g = 1 .. n
    BY <1>7
  <2>2. \A i, j \in DOMAIN g : g[i] = g[j] => i = j
    BY <1>5, <1>6, <2>1
  <2>3. \A c \in C : \E j \in 1 .. n : g[j] = c
    BY <1>4, <1>6
  <2> QED
    BY <1>7, <2>2, <2>3 DEF Bijection, Injection, Surjection, IsInjective
<1>9. IsFiniteSet(1 .. n) /\ Cardinality(1 .. n) = n
  <2>1. \A a, b \in Int : IsFiniteSet(a .. b) /\ Cardinality(a .. b) = IF a > b THEN 0 ELSE b - a + 1
    BY FS_Interval
  <2>2. 1 \in Int /\ n \in Int
    BY <1>1
  <2>3. IsFiniteSet(1 .. n) /\ Cardinality(1 .. n) = IF 1 > n THEN 0 ELSE n - 1 + 1
    BY <2>1, <2>2
  <2> HIDE DEF n
  <2> QED
    BY <1>1, <2>3
<1>10. Cardinality(C) = Cardinality(1 .. n)
  BY <1>8, <1>9, FS_Bijection, Zenon DEF ExistsBijection
<1> QED
  BY <1>9, <1>10 DEF C

-----------------------------------------------------------------------------
(***************************************************************************)
(* The steps of the grammar, as long as the text is that of a tree.        *)
(***************************************************************************)
TopFrame(v, cur, win, n, f) ==
  /\ f \in Frames /\ Compound(f.tree) /\ Last(win) = f.tree.at /\ f.tree.at \in Kinds
  /\ f.begun = f.done /\ f.done <= Len(f.tree.items)
  /\ f.path = cur /\ Len(cur) = n - 1 /\ Holds(v, f) /\ v[cur] = f.tree.at
  /\ cur \in Path /\ cur \in DOMAIN v

LEMMA SpineTop ==
  ASSUME NEW v, NEW cur, NEW win \in Seq(Kinds), NEW root, NEW n, NEW fr, Spine(v, cur, win, root, n, fr)
  PROVE  TopFrame(v, cur, win, n, fr[n])
<1>1. n \in Nat \ {0} /\ fr \in [1 .. n -> Frames] /\ Link(v, cur, win, n, fr, n) /\ Len(win) = n
  BY DEF Spine
<1>2. fr[n] \in Frames
  BY <1>1
<1>3. /\ Compound(fr[n].tree) /\ win[n] = fr[n].tree.at
      /\ fr[n].begun = fr[n].done /\ fr[n].begun <= Len(fr[n].tree.items)
      /\ fr[n].path = cur /\ Len(fr[n].path) = n - 1 /\ Holds(v, fr[n])
  BY <1>1 DEF Link
<1>4. Last(win) = fr[n].tree.at
  BY <1>1, <1>3 DEF Last
<1>5. v[cur] = fr[n].tree.at /\ cur \in DOMAIN v
  BY <1>3 DEF Holds
<1>6. cur \in Path
  BY <1>2, <1>3 DEF Frames
<1>7. fr[n].tree.at \in Kinds
  BY <1>3 DEF Compound, Kinds
<1> QED
  BY <1>2, <1>3, <1>4, <1>5, <1>6, <1>7 DEF TopFrame

LEMMA ItemStart ==
  ASSUME JsonInv, NEW f \in Frames, Compound(f.tree), f.done <= Len(f.tree.items),
         Last(within) = f.tree.at, NEW missing \in Seq(Token),
         GoesOn(f, expect, name, text \o missing), ItemAhead
  PROVE  f.done < Len(f.tree.items) /\ text \o missing = Key(f.tree, f.done + 1) \o Behind(f)
<1>1. /\ expect \in {"item or end", "item"} /\ text # << >> /\ StartsItem(Head(text))
      /\ text \in Seq(Token)
  BY DEF ItemAhead, JsonInv, Read
<1>2. CASE expect = "item"
  BY <1>2 DEF GoesOn
<1>3. CASE expect = "item or end"
  <2>1. f.done = 0 /\ text \o missing = After(f, f.done)
    BY <1>3 DEF GoesOn
  <2>2. ASSUME f.done = Len(f.tree.items) PROVE FALSE
    <3>1. text \o missing = << Close(f.tree.at) >> \o f.left /\ f.left \in Seq(Token)
      BY <2>1, <2>2, FrameText
    <3>2. Close(f.tree.at) \in Token
      BY DEF Close, Token, Punctuation
    <3>3. Head(text) = Close(f.tree.at)
      <4>1. ComesNext(text, missing, Close(f.tree.at), f.left)
        BY <1>1, <3>1, <3>2 DEF ComesNext
      <4> QED
        BY <4>1, Ahead1 DEF Taken
    <3>4. ~StartsItem(Close(f.tree.at))
      BY DEF StartsItem, IsString, StartsValue, Close, Punctuation, Compound
    <3> QED
      BY <1>1, <3>3, <3>4
  <2>3. f.done < Len(f.tree.items)
    <3>1. f.done \in Nat /\ Len(f.tree.items) \in Nat
      BY TreeFacts DEF Frames
    <3> QED
      BY <2>2, <3>1
  <2>4. After(f, f.done) = Key(f.tree, f.done + 1) \o Behind(f)
    BY <2>1, <2>3, FrameText
  <2> QED
    BY <2>1, <2>3, <2>4
<1> QED
  BY <1>1, <1>2, <1>3

LEMMA ValueStart ==
  ASSUME JsonInv, NEW root, NEW n, NEW fr, Spine(value, current, within, root, n, fr),
         NEW missing \in Seq(Token), GoesOn(fr[n], expect, name, text \o missing), ValueAhead
  PROVE  /\ fr[n].done < Len(fr[n].tree.items) /\ text \o missing = Behind(fr[n])
         /\ Place = Append(current, KeyOf(fr[n].tree, fr[n].done + 1))
         /\ Placeable /\ text # << >>
<1> DEFINE f == fr[n]
           i == f.done + 1
<1>1. /\ f \in Frames /\ Compound(f.tree) /\ Last(within) = f.tree.at
      /\ f.begun = f.done /\ f.done <= Len(f.tree.items)
      /\ f.path = current /\ Holds(value, f) /\ value[current] = f.tree.at
      /\ current \in DOMAIN value
  <2>1. within \in Seq(Kinds)
    BY DEF JsonInv, Cursor
  <2>2. TopFrame(value, current, within, n, fr[n])
    BY <2>1, SpineTop
  <2> QED
    BY <2>2 DEF TopFrame
<1>2. ValueType /\ Cursor /\ value # NoValue /\ Placeable /\ text # << >>
  BY <1>1, ValueThere DEF JsonInv, NoValue
<1> HIDE DEF f
<1>3. GoesOn(f, expect, name, text \o missing)
  BY DEF f
<1>4. CASE expect = "value"
  <2>1. /\ f.done < Len(f.tree.items) /\ text \o missing = Behind(f)
        /\ f.tree.at = "object" /\ name = KeyOf(f.tree, i)
    BY <1>3, <1>4 DEF GoesOn
  <2>2. Place = Append(current, name)
    BY <1>1, <1>2, <2>1, PlaceFacts
  <2> QED
    BY <1>2, <2>1, <2>2 DEF f
<1>5. CASE expect # "value"
  <2>1. ItemAhead /\ Last(within) = "array"
    BY <1>5 DEF ValueAhead
  <2>2. f.done < Len(f.tree.items) /\ text \o missing = Key(f.tree, i) \o Behind(f)
    BY <1>1, <1>3, <2>1, ItemStart
  <2>3. f.tree \in Trees /\ i \in 1 .. Len(f.tree.items) /\ Behind(f) \in Seq(Token)
    BY <1>1, <2>2, FrameText
  <2>4. text \o missing = Behind(f)
    BY <1>1, <2>1, <2>2, <2>3, ItemText
  <2>5. Cardinality(Children(value, current)) = f.done
    BY <1>1, <1>2, <2>1, ArrayCount
  <2>6. Place = Append(current, ElementName(f.done))
    BY <1>1, <1>2, <2>1, <2>5, PlaceFacts
  <2>7. KeyOf(f.tree, i) = ElementName(f.done)
    <3>1. i \in DOMAIN f.tree.items /\ i - 1 = f.done
      BY <1>1, <2>3, TreeFacts DEF Frames
    <3> QED
      BY <1>1, <2>1, <2>3, <3>1, TreesAssumption DEF KeyOf
  <2> QED
    BY <1>2, <2>2, <2>4, <2>6, <2>7 DEF f
<1> QED
  BY <1>4, <1>5

(* The frames below, and the innermost with one more item begun. *)
LEMMA SpineBeside ==
  ASSUME NEW v, NEW w, NEW cur, NEW win \in Seq(Kinds), NEW root, NEW n, NEW fr,
         Spine(v, cur, win, root, n, fr),
         fr[n].done < Len(fr[n].tree.items),
         NEW place \in Path, place = Append(cur, KeyOf(fr[n].tree, fr[n].done + 1)),
         NewAt(w, v, place),
         NEW g \in Frames, g.tree = fr[n].tree, g.path = fr[n].path, g.done = fr[n].done,
         g.begun = fr[n].done + 1
  PROVE  Holds(w, g) /\ \A d \in 1 .. n - 1 : Holds(w, fr[d])
<1>1. /\ n \in Nat \ {0} /\ fr \in [1 .. n -> Frames]
      /\ \A d \in 1 .. n : Link(v, cur, win, n, fr, d)
  BY DEF Spine
<1>2. /\ fr[n] \in Frames /\ fr[n].begun = fr[n].done /\ fr[n].path = cur /\ Len(cur) = n - 1
      /\ Holds(v, fr[n]) /\ cur \in Path /\ fr[n].done \in Nat /\ fr[n].tree \in Trees
  <2>1. TopFrame(v, cur, win, n, fr[n])
    BY SpineTop
  <2> QED
    BY <2>1 DEF TopFrame, Frames
<1>3. KeyOf(fr[n].tree, fr[n].done + 1) \in PathStep
  <2>1. fr[n].done + 1 \in 1 .. Len(fr[n].tree.items)
    BY <1>2, TreeFacts
  <2> QED
    BY <1>2, <2>1, TreeFacts, KeyIsStep
<1>4. /\ Len(place) = n /\ place[n] = KeyOf(fr[n].tree, fr[n].done + 1)
      /\ \A i \in 1 .. n - 1 : place[i] = cur[i]
  BY <1>1, <1>2, <1>3, AppendPath
<1>5. Holds(w, g)
  <2>1. Len(place) > Len(g.path) /\ \A i \in 1 .. Len(g.path) : place[i] = g.path[i]
    BY <1>1, <1>2, <1>4
  <2>2. place[Len(g.path) + 1] = KeyOf(g.tree, g.begun) /\ Len(place) = Len(g.path) + 1
    BY <1>1, <1>2, <1>4
  <2>3. g.begun = g.done + 1 /\ g.begun <= Len(g.tree.items)
    BY <1>2, TreeFacts
  <2> QED
    BY <1>2, <2>1, <2>2, <2>3, HoldsBeside
<1>6. ASSUME NEW d \in 1 .. n - 1 PROVE Holds(w, fr[d])
  <2> DEFINE f == fr[d]
  <2>1. d \in 1 .. n /\ d # n /\ d <= n - 1 /\ d \in Nat
    BY <1>1
  <2>2. f \in Frames /\ Link(v, cur, win, n, fr, d)
    BY <1>1, <2>1
  <2>3. /\ Len(f.path) = d - 1 /\ \A i \in 1 .. d - 1 : cur[i] = f.path[i]
        /\ f.begun <= Len(f.tree.items) /\ Holds(v, f)
        /\ f.begun = f.done + 1 /\ cur[d] = KeyOf(f.tree, f.begun)
    BY <2>1, <2>2 DEF Link
  <2> HIDE DEF f
  <2>4. Len(place) > Len(f.path) /\ \A i \in 1 .. Len(f.path) : place[i] = f.path[i]
    BY <1>1, <1>4, <2>1, <2>3
  <2>5. place[Len(f.path) + 1] = KeyOf(f.tree, f.begun)
    <3>1. Len(f.path) + 1 = d /\ place[d] = cur[d]
      BY <1>1, <1>4, <2>1, <2>3
    <3> QED
      BY <2>3, <3>1
  <2>6. Holds(w, f)
    BY <2>2, <2>3, <2>4, <2>5, HoldsBeside DEF f
  <2> QED
    BY <2>6 DEF f
<1> QED
  BY <1>5, <1>6

-----------------------------------------------------------------------------
(* One more item is done in the innermost frame. *)
OneMore(w, n, fr, g, gr) ==
  /\ g \in Frames /\ g.tree = fr[n].tree /\ g.path = fr[n].path /\ g.left = fr[n].left
  /\ g.begun = g.done /\ g.done <= Len(g.tree.items)
  /\ Holds(w, g) /\ \A d \in 1 .. n - 1 : Holds(w, fr[d])
  /\ gr = [fr EXCEPT ![n] = g]

LEMMA SpineSame ==
  ASSUME NEW v, NEW w, NEW cur, NEW win, NEW root, NEW n, NEW fr, Spine(v, cur, win, root, n, fr),
         NEW g, NEW gr, OneMore(w, n, fr, g, gr)
  PROVE  Spine(w, cur, win, root, n, gr) /\ gr[n] = g
<1> USE DEF OneMore
<1>1. /\ n \in Nat \ {0} /\ fr \in [1 .. n -> Frames] /\ Len(win) = n
      /\ fr[1].tree = root /\ fr[1].left = << >> /\ fr[1].path = << >>
      /\ \A d \in 1 .. n : Link(v, cur, win, n, fr, d)
  BY DEF Spine
<1>2. n \in 1 .. n /\ 1 \in 1 .. n
  BY <1>1
<1>3. /\ gr \in [1 .. n -> Frames] /\ gr[n] = g
      /\ \A d \in 1 .. n : d # n => gr[d] = fr[d]
  BY <1>1, <1>2
<1>4. gr[1].tree = root /\ gr[1].left = << >> /\ gr[1].path = << >>
  BY <1>1, <1>2, <1>3
<1>5. ASSUME NEW d \in 1 .. n PROVE Link(w, cur, win, n, gr, d)
  <2>1. /\ Compound(fr[d].tree) /\ win[d] = fr[d].tree.at
        /\ Len(fr[d].path) = d - 1 /\ \A i \in 1 .. d - 1 : cur[i] = fr[d].path[i]
        /\ fr[d].begun <= Len(fr[d].tree.items)
        /\ d = n => fr[d].path = cur
        /\ d # n => /\ fr[d].begun = fr[d].done + 1 /\ Under(fr[d], fr[d + 1])
                    /\ cur[d] = KeyOf(fr[d].tree, fr[d].begun)
    BY <1>1 DEF Link
  <2>2. CASE d = n
    BY <1>3, <2>1, <2>2 DEF Link
  <2>3. CASE d # n
    <3>1. d \in 1 .. n - 1 /\ d + 1 \in 1 .. n /\ gr[d] = fr[d]
      BY <1>1, <1>3, <2>3
    <3>2. Holds(w, fr[d])
      BY <3>1
    <3>3. gr[d + 1].tree = fr[d + 1].tree /\ gr[d + 1].path = fr[d + 1].path
          /\ gr[d + 1].left = fr[d + 1].left
      <4>1. CASE d + 1 = n
        BY <1>3, <4>1
      <4>2. CASE d + 1 # n
        BY <1>3, <3>1, <4>2
      <4> QED
        BY <4>1, <4>2
    <3>4. Under(gr[d], gr[d + 1])
      BY <2>1, <2>3, <3>1, <3>3 DEF Under
    <3> QED
      BY <2>1, <2>3, <3>1, <3>2, <3>4 DEF Link
  <2> QED
    BY <2>2, <2>3
<1> QED
  BY <1>1, <1>3, <1>4, <1>5 DEF Spine

(* A compound begins. *)
Pushed(w, n, fr, g, h, gr) ==
  /\ fr[n].done < Len(fr[n].tree.items)
  /\ g \in Frames /\ g.tree = fr[n].tree /\ g.path = fr[n].path /\ g.left = fr[n].left
  /\ g.done = fr[n].done /\ g.begun = fr[n].done + 1
  /\ Holds(w, g) /\ \A d \in 1 .. n - 1 : Holds(w, fr[d])
  /\ h \in Frames /\ Under(g, h) /\ Compound(h.tree) /\ h.done = 0 /\ h.begun = 0 /\ Holds(w, h)
  /\ gr = [d \in 1 .. n + 1 |-> IF d = n + 1 THEN h ELSE IF d = n THEN g ELSE fr[d]]

LEMMA SpinePush ==
  ASSUME NEW v, NEW w, NEW cur, NEW win \in Seq(Kinds), NEW root, NEW n, NEW fr,
         Spine(v, cur, win, root, n, fr), NEW g, NEW h, NEW gr, Pushed(w, n, fr, g, h, gr)
  PROVE  Spine(w, h.path, Append(win, h.tree.at), root, n + 1, gr) /\ gr[n + 1] = h
<1> USE DEF Pushed
<1>1. /\ n \in Nat \ {0} /\ fr \in [1 .. n -> Frames] /\ Len(win) = n
      /\ fr[1].tree = root /\ fr[1].left = << >> /\ fr[1].path = << >>
      /\ \A d \in 1 .. n : Link(v, cur, win, n, fr, d)
  BY DEF Spine
<1>2. n \in 1 .. n /\ 1 \in 1 .. n /\ n + 1 # n /\ n + 1 \in 1 .. n + 1 /\ n + 1 \in Nat \ {0}
      /\ \A d \in 1 .. n + 1 : d = n + 1 \/ d = n \/ (d \in 1 .. n /\ d \in 1 .. n - 1)
  BY <1>1
<1>3. /\ gr \in [1 .. n + 1 -> Frames] /\ gr[n + 1] = h /\ gr[n] = g
      /\ \A d \in 1 .. n - 1 : gr[d] = fr[d]
  BY <1>1, <1>2
<1>4. gr[1].tree = root /\ gr[1].left = << >> /\ gr[1].path = << >>
  <2>1. CASE n = 1
    BY <1>1, <1>3, <2>1
  <2>2. CASE n # 1
    <3>1. 1 \in 1 .. n - 1
      BY <1>1, <2>2
    <3> QED
      BY <1>1, <1>3, <3>1
  <2> QED
    BY <2>1, <2>2
<1> DEFINE place == h.path
           win2 == Append(win, h.tree.at)
           key == KeyOf(g.tree, g.begun)
<1>5. /\ fr[n].path = cur /\ Len(cur) = n - 1 /\ cur \in Path /\ fr[n].tree \in Trees
  <2>1. TopFrame(v, cur, win, n, fr[n])
    BY SpineTop
  <2> QED
    BY <2>1 DEF TopFrame, Frames
<1>6. key \in PathStep /\ g.begun <= Len(g.tree.items) /\ g.begun \in Nat
  <2>1. fr[n].done \in Nat /\ Len(fr[n].tree.items) \in Nat
    <3>1. fr[n] \in Frames
      BY <1>1, <1>2
    <3> QED
      BY <1>5, <3>1, TreeFacts DEF Frames
  <2>2. g.begun \in 1 .. Len(g.tree.items)
    BY <2>1
  <2>3. g.tree \in Trees
    BY <1>5
  <2>4. key \in STRING
    BY <2>2, <2>3, TreeFacts
  <2> HIDE DEF key
  <2>5. key \in PathStep
    BY <2>4, KeyIsStep
  <2>6. Len(g.tree.items) \in Nat
    BY <2>1
  <2> QED
    BY <2>2, <2>5, <2>6
<1>7. /\ Len(place) = n /\ place[n] = key /\ \A i \in 1 .. n - 1 : place[i] = cur[i]
  <2>1. place = Append(cur, key)
    BY <1>5 DEF Under
  <2> HIDE DEF place, key
  <2> QED
    BY <1>1, <1>5, <1>6, <2>1, AppendPath
<1>8. /\ win2[n + 1] = h.tree.at /\ \A d \in 1 .. n : win2[d] = win[d]
      /\ Len(win2) = n + 1
  <2>1. h.tree.at \in Kinds
    BY DEF Compound, Kinds
  <2> QED
    BY <1>1, <2>1, AppendProperties
<1> HIDE DEF place, win2, key
<1>9. ASSUME NEW d \in 1 .. n + 1 PROVE Link(w, place, win2, n + 1, gr, d)
  <2>1. CASE d = n + 1
    <3>1. 0 <= Len(h.tree.items)
      <4>1. h.tree \in Trees
        BY DEF Frames
      <4> QED
        BY <4>1, TreeFacts
    <3>2. (n + 1) - 1 = n
      BY <1>1
    <3> QED
      BY <1>2, <1>3, <1>7, <1>8, <2>1, <3>1, <3>2 DEF Link, place
  <2>2. CASE d = n
    <3>1. Compound(fr[n].tree) /\ win[n] = fr[n].tree.at /\ Len(fr[n].path) = n - 1
      BY <1>1, <1>2 DEF Link
    <3>2. gr[d] = g /\ gr[d + 1] = h /\ win2[d] = win[d]
      BY <1>2, <1>3, <1>8, <2>2
    <3>3. \A i \in 1 .. d - 1 : place[i] = g.path[i]
      BY <1>5, <1>7, <2>2
    <3> QED
      BY <1>2, <1>6, <1>7, <2>2, <3>1, <3>2, <3>3 DEF Link, key
  <2>3. CASE d \in 1 .. n /\ d \in 1 .. n - 1
    <3>1. /\ d # n /\ d # n + 1 /\ d + 1 \in 1 .. n /\ (d + 1 = n \/ d + 1 \in 1 .. n - 1)
          /\ \A i \in 1 .. d - 1 : i \in 1 .. n - 1
      BY <1>1, <2>3
    <3>2. /\ Compound(fr[d].tree) /\ win[d] = fr[d].tree.at
          /\ Len(fr[d].path) = d - 1 /\ \A i \in 1 .. d - 1 : cur[i] = fr[d].path[i]
          /\ fr[d].begun <= Len(fr[d].tree.items)
          /\ fr[d].begun = fr[d].done + 1 /\ Under(fr[d], fr[d + 1])
          /\ cur[d] = KeyOf(fr[d].tree, fr[d].begun)
      BY <1>1, <2>3, <3>1 DEF Link
    <3>3. gr[d] = fr[d] /\ Holds(w, fr[d]) /\ win2[d] = win[d] /\ place[d] = cur[d]
      BY <1>3, <1>7, <1>8, <2>3
    <3>4. gr[d + 1].tree = fr[d + 1].tree /\ gr[d + 1].path = fr[d + 1].path
          /\ gr[d + 1].left = fr[d + 1].left
      <4>1. CASE d + 1 = n
        BY <1>3, <4>1
      <4>2. CASE d + 1 \in 1 .. n - 1
        BY <1>3, <4>2
      <4> QED
        BY <3>1, <4>1, <4>2
    <3>5. Under(gr[d], gr[d + 1])
      BY <3>2, <3>3, <3>4 DEF Under
    <3>6. \A i \in 1 .. d - 1 : place[i] = fr[d].path[i]
      BY <1>7, <3>1, <3>2
    <3> QED
      BY <3>1, <3>2, <3>3, <3>5, <3>6 DEF Link
  <2> QED
    BY <1>2, <2>1, <2>2, <2>3
<1>10. Spine(w, place, win2, root, n + 1, gr)
  BY <1>2, <1>3, <1>4, <1>8, <1>9 DEF Spine
<1> QED
  BY <1>3, <1>10 DEF place, win2

(* A compound within another ends. *)
Popped(v, n, fr, g, gr) ==
  /\ n # 1
  /\ g \in Frames /\ g.tree = fr[n - 1].tree /\ g.path = fr[n - 1].path
  /\ g.left = fr[n - 1].left /\ g.begun = g.done /\ g.done = fr[n - 1].begun
  /\ Holds(v, g)
  /\ gr = [d \in 1 .. n - 1 |-> IF d = n - 1 THEN g ELSE fr[d]]

SpineOut(v, cur, win, root, n, g, gr) ==
  Spine(v, Front(cur), Front(win), root, n - 1, gr) /\ gr[n - 1] = g

LEMMA SpinePop ==
  ASSUME NEW v, NEW cur, NEW win \in Seq(Kinds), NEW root, NEW n, NEW fr,
         Spine(v, cur, win, root, n, fr), NEW g, NEW gr, Popped(v, n, fr, g, gr)
  PROVE  SpineOut(v, cur, win, root, n, g, gr)
<1> USE DEF Popped
<1>1. /\ n \in Nat \ {0} /\ fr \in [1 .. n -> Frames] /\ Len(win) = n
      /\ fr[1].tree = root /\ fr[1].left = << >> /\ fr[1].path = << >>
      /\ \A d \in 1 .. n : Link(v, cur, win, n, fr, d)
  BY DEF Spine
<1> DEFINE m == n - 1
<1>2. /\ m \in Nat \ {0} /\ m \in 1 .. n /\ m \in 1 .. m /\ 1 \in 1 .. m /\ m # n /\ m + 1 = n
      /\ \A d \in 1 .. m : d \in 1 .. n /\ d # n /\ (d = m \/ (d # m /\ d + 1 \in 1 .. m))
  BY <1>1
<1>3. /\ gr \in [1 .. m -> Frames] /\ gr[m] = g /\ \A d \in 1 .. m : d # m => gr[d] = fr[d]
      /\ \A d \in 1 .. m : gr[d].tree = fr[d].tree /\ gr[d].path = fr[d].path
                           /\ gr[d].left = fr[d].left
  BY <1>1, <1>2
<1>4. gr[1].tree = root /\ gr[1].left = << >> /\ gr[1].path = << >>
  BY <1>1, <1>2, <1>3
<1>5. Front(cur) = fr[m].path /\ Len(cur) = m
      /\ \A i \in 1 .. m - 1 : Front(cur)[i] = cur[i]
  <2>1. TopFrame(v, cur, win, n, fr[n])
    BY SpineTop
  <2>2. fr[n].path = cur /\ Len(cur) = m /\ cur \in Path
    BY <2>1 DEF TopFrame
  <2>3. Link(v, cur, win, n, fr, m) /\ fr[m] \in Frames
    BY <1>1, <1>2
  <2>4. fr[n].path = Append(fr[m].path, KeyOf(fr[m].tree, fr[m].begun))
    BY <1>2, <2>3 DEF Link, Under
  <2>5. fr[m].path \in Path /\ KeyOf(fr[m].tree, fr[m].begun) \in PathStep
    <3>1. /\ fr[m].tree \in Trees /\ fr[m].path \in Path /\ fr[m].done \in Nat
          /\ fr[m].begun <= Len(fr[m].tree.items) /\ fr[m].begun = fr[m].done + 1
      BY <1>2, <2>3 DEF Link, Frames
    <3>2. fr[m].begun \in 1 .. Len(fr[m].tree.items)
      BY <3>1, TreeFacts
    <3> QED
      BY <3>1, <3>2, TreeFacts, KeyIsStep
  <2>6. Front(cur) = fr[m].path
    BY <2>2, <2>4, <2>5, FrontOfAppend
  <2>7. \A i \in 1 .. m - 1 : Front(cur)[i] = cur[i]
    <3>1. cur # << >>
      BY <1>2, <2>2, EmptySeq
    <3> QED
      BY <2>2, <3>1, FrontPath
  <2> QED
    BY <2>2, <2>6, <2>7
<1>6. Len(Front(win)) = m /\ \A d \in 1 .. m : Front(win)[d] = win[d]
  <2>1. win # << >>
    BY <1>1, EmptySeq
  <2> QED
    BY <1>1, <2>1, FrontSeq
<1> HIDE DEF m
<1>7. ASSUME NEW d \in 1 .. m PROVE Link(v, Front(cur), Front(win), m, gr, d)
  <2>1. /\ Compound(fr[d].tree) /\ win[d] = fr[d].tree.at
        /\ Len(fr[d].path) = d - 1 /\ \A i \in 1 .. d - 1 : cur[i] = fr[d].path[i]
        /\ fr[d].begun <= Len(fr[d].tree.items) /\ Holds(v, fr[d])
        /\ fr[d].begun = fr[d].done + 1 /\ Under(fr[d], fr[d + 1])
        /\ cur[d] = KeyOf(fr[d].tree, fr[d].begun)
    BY <1>1, <1>2 DEF Link
  <2>2. \A i \in 1 .. d - 1 : Front(cur)[i] = fr[d].path[i]
    <3>1. \A i \in 1 .. d - 1 : i \in 1 .. m - 1
      BY <1>2
    <3> QED
      BY <1>5, <2>1, <3>1
  <2>3. CASE d = m
    BY <1>3, <1>5, <1>6, <2>1, <2>2, <2>3 DEF Link
  <2>4. CASE d # m
    <3>1. d + 1 \in 1 .. m /\ d \in 1 .. m - 1
      BY <1>2, <2>4
    <3>2. Under(gr[d], gr[d + 1])
      BY <1>3, <2>1, <2>4, <3>1 DEF Under
    <3>3. Front(cur)[d] = cur[d] /\ gr[d] = fr[d]
      BY <1>3, <1>5, <2>4, <3>1
    <3> QED
      BY <1>6, <2>1, <2>2, <2>4, <3>2, <3>3 DEF Link
  <2> QED
    BY <2>3, <2>4
<1>8. Spine(v, Front(cur), Front(win), root, m, gr)
  BY <1>2, <1>3, <1>4, <1>6, <1>7 DEF Spine
<1> QED
  BY <1>3, <1>8, Zenon DEF m, SpineOut

-----------------------------------------------------------------------------
(***************************************************************************)
(* On track, and off it.                                                   *)
(***************************************************************************)
PartOf(v, w) == \A p \in DOMAIN v : p \in DOMAIN w /\ v[p] = w[p]

InSpine(root, missing) ==
  \E n \in Nat : \E fr \in [1 .. n -> Frames] :
    Spine(value, current, within, root, n, fr) /\ GoesOn(fr[n], expect, name, text \o missing)

OnTrack(root, missing) ==
  \/ /\ within = << >> /\ expect = "value" /\ value = NoValue /\ text \o missing = Text(root)
  \/ within = << >> /\ expect = "nothing" /\ value = Value[root] /\ text \o missing = << >>
  \/ InSpine(root, missing)

(* The text has ended before its time, and nothing is done any more. *)
OffTrack(root, missing) ==
  /\ expect = "thrown" /\ missing # << >>
  /\ NamesDiffer[root] => PartOf(value, Value[root])

Track(root) ==
  \E missing \in Seq(Token) :
    source \o missing = Text(root) /\ (OnTrack(root, missing) \/ OffTrack(root, missing))

LEMMA NewPlace ==
  ASSUME ValueType, Placeable, Cursor, NEW what, value' = With(what)
  PROVE  NewAt(value', value, Place) /\ value'[Place] = what /\ Place \in DOMAIN value'
<1>1. /\ \A p \in Path : p \in DOMAIN value' <=>
           p = Place \/ (p \in DOMAIN value /\ ~IsPrefix(Place, p))
      /\ \A p \in DOMAIN value' : p # Place => p \in DOMAIN value /\ value'[p] = value[p]
      /\ value'[Place] = what
  BY AddedThere
<1>2. NewAt(value', value, Place)
  BY <1>1, Zenon DEF NewAt
<1> QED
  BY <1>1, <1>2, PlaceFacts, NothingBelow

LEMMA LeafTrack ==
  ASSUME JsonInv, Leaf, NEW root, NEW n \in Nat, NEW fr \in [1 .. n -> Frames],
         Spine(value, current, within, root, n, fr),
         NEW missing \in Seq(Token), GoesOn(fr[n], expect, name, text \o missing)
  PROVE  InSpine(root, missing)'
<1> DEFINE f == fr[n]
           i == f.done + 1
           g == [f EXCEPT !.begun = f.done + 1]
           h == [f EXCEPT !.begun = f.done + 1, !.done = f.done + 1]
           hr == [fr EXCEPT ![n] = h]
<1>1. /\ ValueAhead /\ Head(text) \notin Punctuation /\ text' = Tail(text)
      /\ value' = With(Head(text)) /\ expect' = Afterwards(within)
      /\ current' = current /\ name' = name /\ within' = within
  BY DEF Leaf, Take
<1>2. /\ ValueType /\ Cursor /\ text \in Seq(Token) /\ within \in Seq(Kinds)
  BY DEF JsonInv, Cursor, Read
<1>3. TopFrame(value, current, within, n, f)
  BY <1>2, SpineTop
<1>4. /\ f.done < Len(f.tree.items) /\ text \o missing = Behind(f)
      /\ Place = Append(current, KeyOf(f.tree, i)) /\ Placeable /\ text # << >>
  BY <1>1, ValueStart
<1>5. /\ f \in Frames /\ Compound(f.tree) /\ f.begun = f.done /\ f.path = current
      /\ Holds(value, f) /\ n \in Nat \ {0} /\ Len(within) = n
  BY <1>3 DEF TopFrame, Spine
<1> HIDE DEF f
<1>6. /\ f.done \in Nat /\ Len(f.tree.items) \in Nat /\ i \in 1 .. Len(f.tree.items)
      /\ i \in Nat /\ i <= Len(f.tree.items) /\ f.tree \in Trees /\ i # 0
  BY <1>4, <1>5, TreeFacts DEF Frames
<1>7. After(f, i) \in Seq(Token) /\ Behind(f) \in Seq(Token)
  <2>1. f.done <= Len(f.tree.items)
    BY <1>6
  <2> QED
    BY <1>4, <1>5, <2>1, FrameText
<1>8. /\ ~Compound(Item(f.tree, i)) /\ Head(text) = Item(f.tree, i).at
      /\ text' \o missing = After(f, i)
  <2>1. ASSUME Compound(Item(f.tree, i)) PROVE FALSE
    <3> DEFINE a == Open(Item(f.tree, i).at)
               r == Left[<< Item(f.tree, i), 0 >>] \o After(f, i)
    <3>1. a \in Token /\ r \in Seq(Token) /\ Behind(f) = << a >> \o r
      BY <1>4, <1>5, <2>1, BehindText
    <3>2. a \in Punctuation
      BY DEF Open, Punctuation
    <3> HIDE DEF a, r
    <3>3. ComesNext(text, missing, a, r)
      BY <1>2, <1>4, <3>1 DEF ComesNext
    <3>4. Taken(text, missing, a, r)
      BY <3>3, Ahead1
    <3> QED
      BY <1>1, <3>2, <3>4 DEF Taken
  <2>2. /\ Item(f.tree, i).at \in Token /\ Behind(f) = << Item(f.tree, i).at >> \o After(f, i)
    BY <1>4, <1>5, <2>1, BehindText
  <2>3. Head(text) = Item(f.tree, i).at /\ Tail(text) \o missing = After(f, i)
    <3>1. ComesNext(text, missing, Item(f.tree, i).at, After(f, i))
      BY <1>2, <1>4, <1>7, <2>2 DEF ComesNext
    <3>2. Taken(text, missing, Item(f.tree, i).at, After(f, i))
      BY <3>1, Ahead1
    <3> QED
      BY <3>2 DEF Taken
  <2> QED
    BY <1>1, <2>1, <2>3
<1>9. /\ NewAt(value', value, Place) /\ value'[Place] = Head(text) /\ Place \in DOMAIN value'
      /\ Place \in Path
  BY <1>1, <1>2, <1>4, NewPlace, PlaceFacts
<1>10. /\ g \in Frames /\ g.tree = f.tree /\ g.path = f.path /\ g.done = f.done /\ g.begun = i
       /\ h \in Frames /\ h.tree = f.tree /\ h.path = f.path /\ h.left = f.left
       /\ h.done = i /\ h.begun = i
  BY <1>5, <1>6 DEF Frames
<1> HIDE DEF g, h
<1>11. Holds(value', g) /\ \A d \in 1 .. n - 1 : Holds(value', fr[d])
  BY <1>2, <1>4, <1>9, <1>10, SpineBeside DEF f
<1>12. Holds(value', h)
  <2>1. \A q \in Path : Place \o q \in DOMAIN value' => q = << >>
    BY <1>9, NothingBelow
  <2>2. /\ h.tree = g.tree /\ h.path = g.path /\ h.begun = g.begun /\ h.done = g.begun
        /\ g.begun = g.done + 1 /\ g.begun <= Len(g.tree.items)
        /\ ~Compound(Item(g.tree, g.begun)) /\ Place = Append(g.path, KeyOf(g.tree, g.begun))
        /\ value'[Place] = Item(g.tree, g.begun).at
    BY <1>4, <1>5, <1>6, <1>8, <1>9, <1>10
  <2> QED
    BY <1>9, <1>10, <1>11, <2>1, <2>2, LeafDone
<1>13. hr = [fr EXCEPT ![n] = h]
  OBVIOUS
<1>14. hr \in [1 .. n -> Frames]
  BY <1>10
<1> HIDE DEF hr
<1>15. Spine(value', current, within, root, n, hr) /\ hr[n] = h
  <2>1. h.begun = h.done /\ h.done <= Len(h.tree.items)
    BY <1>6, <1>10
  <2>2. h.tree = fr[n].tree /\ h.path = fr[n].path /\ h.left = fr[n].left
    BY <1>10 DEF f
  <2>3. OneMore(value', n, fr, h, hr)
    BY <1>10, <1>11, <1>12, <1>13, <2>1, <2>2 DEF OneMore
  <2> QED
    BY <2>3, SpineSame
<1>16. GoesOn(h, expect', name', text' \o missing)
  <2>1. expect' = ", or end"
    <3>1. within # << >>
      BY <1>5, EmptySeq
    <3> QED
      BY <1>1, <3>1 DEF Afterwards
  <2>2. After(h, h.done) = After(f, i)
    BY <1>10 DEF After
  <2> QED
    BY <1>6, <1>8, <1>10, <2>1, <2>2 DEF GoesOn
<1>17. Spine(value', current', within', root, n, hr) /\ GoesOn(hr[n], expect', name', text' \o missing)
  BY <1>1, <1>15, <1>16
<1> QED
  BY <1>14, <1>17 DEF InSpine

LEMMA BeginTrack ==
  ASSUME JsonInv, NEW kind \in Kinds, BeginCompound(Open(kind), kind),
         NEW root, NEW n \in Nat, NEW fr \in [1 .. n -> Frames],
         Spine(value, current, within, root, n, fr),
         NEW missing \in Seq(Token), GoesOn(fr[n], expect, name, text \o missing)
  PROVE  InSpine(root, missing)'
<1> DEFINE f == fr[n]
           i == f.done + 1
           item == Item(f.tree, i)
           g == [f EXCEPT !.begun = f.done + 1]
           h == [tree |-> item, path |-> Place, done |-> 0, begun |-> 0, left |-> After(f, i)]
           gr == [d \in 1 .. n + 1 |-> IF d = n + 1 THEN h ELSE IF d = n THEN g ELSE fr[d]]
<1>1. /\ ValueAhead /\ Head(text) = Open(kind) /\ text' = Tail(text)
      /\ value' = With(kind) /\ expect' = "item or end"
      /\ current' = Place /\ name' = name /\ within' = Append(within, kind)
  BY DEF BeginCompound, Take, Ahead
<1>2. /\ ValueType /\ Cursor /\ text \in Seq(Token) /\ within \in Seq(Kinds)
  BY DEF JsonInv, Cursor, Read
<1>3. TopFrame(value, current, within, n, f)
  BY <1>2, SpineTop
<1>4. /\ f.done < Len(f.tree.items) /\ text \o missing = Behind(f)
      /\ Place = Append(current, KeyOf(f.tree, i)) /\ Placeable /\ text # << >>
  BY <1>1, ValueStart
<1>5. /\ f \in Frames /\ Compound(f.tree) /\ f.begun = f.done /\ f.path = current
      /\ Holds(value, f) /\ n \in Nat \ {0} /\ Len(within) = n
  BY <1>3 DEF TopFrame, Spine
<1> HIDE DEF f
<1>6. /\ f.done \in Nat /\ Len(f.tree.items) \in Nat /\ i \in 1 .. Len(f.tree.items)
      /\ i \in Nat /\ i <= Len(f.tree.items) /\ f.tree \in Trees /\ i # 0 /\ item \in Trees
  BY <1>4, <1>5, TreeFacts DEF Frames
<1>7. After(f, i) \in Seq(Token) /\ Behind(f) \in Seq(Token)
  <2>1. f.done <= Len(f.tree.items)
    BY <1>6
  <2> QED
    BY <1>4, <1>5, <2>1, FrameText
<1>8. /\ Compound(item) /\ kind = item.at
      /\ text' \o missing = Left[<< item, 0 >>] \o After(f, i)
  <2>1. ASSUME ~Compound(item) PROVE FALSE
    <3>1. /\ item.at \in Token /\ item.at \notin Punctuation
          /\ Behind(f) = << item.at >> \o After(f, i)
      BY <1>4, <1>5, <2>1, BehindText
    <3>2. ComesNext(text, missing, item.at, After(f, i))
      BY <1>2, <1>4, <1>7, <3>1 DEF ComesNext
    <3>3. Head(text) = item.at
      BY <3>2, Ahead1 DEF Taken
    <3>4. Open(kind) \in Punctuation
      BY DEF Open, Punctuation
    <3> QED
      BY <1>1, <3>1, <3>3, <3>4
  <2>2. /\ Open(item.at) \in Token /\ Left[<< item, 0 >>] \o After(f, i) \in Seq(Token)
        /\ Behind(f) = << Open(item.at) >> \o (Left[<< item, 0 >>] \o After(f, i))
    BY <1>4, <1>5, <2>1, BehindText
  <2>3. ComesNext(text, missing, Open(item.at), Left[<< item, 0 >>] \o After(f, i))
    BY <1>2, <1>4, <2>2 DEF ComesNext
  <2>4. Taken(text, missing, Open(item.at), Left[<< item, 0 >>] \o After(f, i))
    BY <2>3, Ahead1
  <2>5. Head(text) = Open(item.at) /\ Tail(text) \o missing = Left[<< item, 0 >>] \o After(f, i)
    BY <2>4, Zenon DEF Taken
  <2>6. kind = item.at
    <3>1. item.at \in Kinds /\ Open(kind) = Open(item.at)
      BY <1>1, <2>1, <2>5 DEF Compound, Kinds
    <3>2. \A j, k \in Kinds : Open(j) = Open(k) => j = k
      <4>1. "{" # "["
        OBVIOUS
      <4>2. \A k \in Kinds : k = "object" \/ (k = "array" /\ k # "object")
        BY DEF Kinds
      <4> QED
        BY <4>1, <4>2, Zenon DEF Open
    <3> QED
      BY <3>1, <3>2
  <2> QED
    BY <1>1, <2>1, <2>5, <2>6
<1>9. /\ NewAt(value', value, Place) /\ value'[Place] = kind /\ Place \in DOMAIN value'
      /\ Place \in Path
  BY <1>1, <1>2, <1>4, NewPlace, PlaceFacts
<1>10. /\ g \in Frames /\ g.tree = f.tree /\ g.path = f.path /\ g.done = f.done /\ g.begun = i
       /\ g.left = f.left
       /\ h \in Frames /\ h.tree = item /\ h.path = Place /\ h.left = After(f, i)
       /\ h.done = 0 /\ h.begun = 0
  BY <1>5, <1>6, <1>7, <1>9 DEF Frames
<1>11. gr = [d \in 1 .. n + 1 |-> IF d = n + 1 THEN h ELSE IF d = n THEN g ELSE fr[d]]
  OBVIOUS
<1>12. gr \in [1 .. n + 1 -> Frames] /\ n + 1 \in Nat
  <2>1. \A d \in 1 .. n + 1 : d # n + 1 => fr[d] \in Frames
    BY <1>5
  <2> HIDE DEF g, h
  <2> QED
    BY <1>10, <2>1
<1> HIDE DEF g, h, gr
<1>13. Holds(value', g) /\ \A d \in 1 .. n - 1 : Holds(value', fr[d])
  BY <1>2, <1>4, <1>9, <1>10, SpineBeside DEF f
<1>14. Under(g, h)
  <2>1. After(g, i) = After(f, i)
    BY <1>10 DEF After
  <2> QED
    BY <1>4, <1>5, <1>10, <2>1 DEF Under
<1>15. Holds(value', h)
  <2>1. \A q \in Path : Place \o q \in DOMAIN value' => q = << >>
    BY <1>9, NothingBelow
  <2>2. 1 .. 0 = {}
    OBVIOUS
  <2> QED
    BY <1>8, <1>9, <1>10, <2>1, <2>2 DEF Holds
<1>16. Pushed(value', n, fr, g, h, gr)
  BY <1>4, <1>8, <1>10, <1>11, <1>13, <1>14, <1>15 DEF Pushed, f
<1>17. Spine(value', h.path, Append(within, h.tree.at), root, n + 1, gr) /\ gr[n + 1] = h
  BY <1>2, <1>16, SpinePush
<1>18. GoesOn(h, expect', name', text' \o missing)
  BY <1>1, <1>8, <1>10 DEF GoesOn, After
<1>19. /\ Spine(value', current', within', root, n + 1, gr)
       /\ GoesOn(gr[n + 1], expect', name', text' \o missing)
  BY <1>1, <1>8, <1>10, <1>17, <1>18
<1> QED
  BY <1>12, <1>19 DEF InSpine

LEMMA EndTrack ==
  ASSUME JsonInv, NEW kind \in Kinds, EndCompound(Close(kind), kind),
         NEW root, NEW n \in Nat, NEW fr \in [1 .. n -> Frames],
         Spine(value, current, within, root, n, fr),
         NEW missing \in Seq(Token), GoesOn(fr[n], expect, name, text \o missing)
  PROVE  OnTrack(root, missing)'
<1> DEFINE f == fr[n]
<1>1. /\ expect \in {", or end", "item or end"} /\ Last(within) = kind
      /\ text # << >> /\ Head(text) = Close(kind) /\ text' = Tail(text)
      /\ value' = value /\ expect' = Afterwards(within') /\ name' = name
      /\ within' = Front(within)
      /\ current' = IF current = << >> THEN << >> ELSE Front(current)
  BY DEF EndCompound, MayEnd, Take, Ahead
<1>2. /\ ValueType /\ text \in Seq(Token) /\ within \in Seq(Kinds)
  BY DEF JsonInv, Cursor, Read
<1>3. TopFrame(value, current, within, n, f)
  BY <1>2, SpineTop
<1>4. /\ f \in Frames /\ Compound(f.tree) /\ f.begun = f.done /\ f.path = current
      /\ f.done <= Len(f.tree.items) /\ kind = f.tree.at
      /\ Holds(value, f) /\ Len(current) = n - 1 /\ current \in Path
  BY <1>1, <1>3 DEF TopFrame
<1>5. /\ n \in Nat \ {0} /\ Len(within) = n /\ fr[1].left = << >> /\ fr[1].tree = root
      /\ \A d \in 1 .. n : Link(value, current, within, n, fr, d)
  BY DEF Spine
<1>6. text \o missing = After(f, f.done)
  BY <1>1 DEF GoesOn
<1> HIDE DEF f
<1>7. /\ f.tree \in Trees /\ f.done \in Nat /\ Len(f.tree.items) \in Nat
      /\ f.left \in Seq(Token)
  BY <1>4, TreeFacts DEF Frames
<1>8. f.done = Len(f.tree.items)
  <2> SUFFICES ASSUME f.done < Len(f.tree.items) PROVE FALSE
    BY <1>4, <1>7
  <2> DEFINE i == f.done + 1
             item == Item(f.tree, i)
  <2>1. /\ i \in 1 .. Len(f.tree.items) /\ item \in Trees /\ Behind(f) \in Seq(Token)
        /\ Key(f.tree, i) \in Seq(Token) /\ After(f, i) \in Seq(Token)
        /\ f.done = 0 => After(f, f.done) = Key(f.tree, i) \o Behind(f)
    BY <1>4, FrameText
  <2>2. \E a \in Token, r \in Seq(Token) :
          text \o missing = << a >> \o r /\ a # Close(kind)
    <3>1. CASE f.done # 0
      <4>1. After(f, f.done) = << "," >> \o (Key(f.tree, i) \o Behind(f))
        BY <1>4, <3>1, CommaText
      <4>2. Key(f.tree, i) \o Behind(f) \in Seq(Token)
        BY <2>1, ConcatProperties
      <4>3. "," \in Token /\ "," # Close(kind)
        BY DEF Token, Punctuation, Close
      <4> QED
        BY <1>6, <4>1, <4>2, <4>3, Zenon
    <3>2. CASE f.done = 0
      <4>1. PICK a \in Token, r \in Seq(Token) :
              /\ Key(f.tree, i) \o Behind(f) = << a >> \o r
              /\ IF f.tree.at = "object" THEN IsString(a) ELSE StartsValue(a)
        BY <1>4, ItemHead
      <4>2. a # Close(kind)
        BY <4>1 DEF IsString, StartsValue, Punctuation, Close
      <4>3. text \o missing = << a >> \o r
        BY <1>6, <2>1, <3>2, <4>1, Zenon
      <4> QED
        BY <4>2, <4>3, Zenon
    <3> QED
      BY <3>1, <3>2
  <2>3. PICK a \in Token, r \in Seq(Token) : text \o missing = << a >> \o r /\ a # Close(kind)
    BY <2>2
  <2>4. ComesNext(text, missing, a, r)
    BY <1>1, <1>2, <2>3 DEF ComesNext
  <2>5. Head(text) = a
    BY <2>4, Ahead1 DEF Taken
  <2> QED
    BY <1>1, <2>3, <2>5
<1>9. text' \o missing = f.left
  <2>1. After(f, f.done) = << Close(f.tree.at) >> \o f.left
    BY <1>4, <1>8, FrameText
  <2>2. Close(f.tree.at) \in Token
    BY DEF Close, Token, Punctuation
  <2>3. ComesNext(text, missing, Close(f.tree.at), f.left)
    BY <1>1, <1>2, <1>6, <1>7, <2>1, <2>2 DEF ComesNext
  <2>4. Taken(text, missing, Close(f.tree.at), f.left)
    BY <2>3, Ahead1
  <2> QED
    BY <1>1, <2>4 DEF Taken
<1>10. CASE n = 1
  <2>1. f.path = << >> /\ f.left = << >> /\ f.tree = root
    BY <1>5, <1>10 DEF Spine, f
  <2>2. value = Value[root]
    BY <1>2, <1>4, <1>8, <2>1, RootDone
  <2>3. within' = << >>
    <3>1. within # << >>
      BY <1>5, EmptySeq
    <3>2. Front(within) \in Seq(Kinds) /\ Len(Front(within)) = 0
      BY <1>2, <1>5, <1>10, <3>1, FrontSeq
    <3> QED
      BY <1>1, <3>2, EmptySeq
  <2>4. expect' = "nothing"
    BY <1>1, <2>3 DEF Afterwards
  <2> QED
    BY <1>1, <1>9, <2>1, <2>2, <2>3, <2>4 DEF OnTrack
<1>11. CASE n # 1
  <2> DEFINE b == fr[n - 1]
             g == [b EXCEPT !.done = b.begun]
             gr == [d \in 1 .. n - 1 |-> IF d = n - 1 THEN g ELSE fr[d]]
  <2>1. /\ n - 1 \in 1 .. n /\ n - 1 # n /\ (n - 1) + 1 = n /\ n - 1 \in Nat
        /\ b \in Frames /\ Link(value, current, within, n, fr, n - 1)
    BY <1>5, <1>11
  <2>2. /\ b.begun = b.done + 1 /\ Under(b, f) /\ b.begun <= Len(b.tree.items) /\ Holds(value, b)
    BY <2>1 DEF Link, f
  <2>3. gr \in [1 .. n - 1 -> Frames] /\ g \in Frames
    <3>1. g \in Frames
      BY <2>1, <2>2 DEF Frames
    <3>2. \A d \in 1 .. n - 1 : fr[d] \in Frames
      BY <1>5
    <3> HIDE DEF g
    <3> QED
      BY <3>1, <3>2
  <2> HIDE DEF b
  <2>4. /\ g.tree = b.tree /\ g.path = b.path /\ g.left = b.left
        /\ g.begun = b.begun /\ g.done = b.begun /\ b.begun \in Nat /\ b.begun # 0
    BY <2>1, <2>2 DEF Frames
  <2>5. gr = [d \in 1 .. n - 1 |-> IF d = n - 1 THEN g ELSE fr[d]]
    OBVIOUS
  <2> HIDE DEF g, gr
  <2>6. Holds(value, g)
    <3>1. /\ f.tree = Item(b.tree, b.begun) /\ f.path = Append(b.path, KeyOf(b.tree, b.begun))
          /\ f.done = f.begun /\ f.begun = Len(f.tree.items)
      BY <1>4, <1>8, <2>2 DEF Under
    <3> QED
      BY <1>4, <2>1, <2>2, <2>3, <2>4, <3>1, CompoundDone
  <2>7. Popped(value, n, fr, g, gr)
    <3>1. /\ g.tree = fr[n - 1].tree /\ g.path = fr[n - 1].path /\ g.left = fr[n - 1].left
          /\ g.done = fr[n - 1].begun
      BY <2>4, Zenon DEF b
    <3>2. g.begun = g.done
      BY <2>4
    <3> QED
      BY <1>11, <2>3, <2>5, <2>6, <3>1, <3>2, Zenon DEF Popped
  <2>8. Spine(value, Front(current), Front(within), root, n - 1, gr) /\ gr[n - 1] = g
    <3>1. SpineOut(value, current, within, root, n, g, gr)
      BY <1>2, <2>7, SpinePop
    <3> QED
      BY <3>1, Zenon DEF SpineOut
  <2>9. current' = Front(current)
    <3>1. current # << >>
      BY <1>4, <1>5, <1>11, EmptySeq
    <3> QED
      BY <1>1, <3>1
  <2>10. expect' = ", or end"
    <3>1. within # << >>
      BY <1>5, EmptySeq
    <3>2. Len(Front(within)) = n - 1
      BY <1>2, <1>5, <3>1, FrontSeq
    <3>3. Front(within) # << >>
      BY <1>5, <1>11, <3>2, EmptySeq
    <3> QED
      BY <1>1, <3>3 DEF Afterwards
  <2>11. text' \o missing = After(g, g.done)
    BY <1>9, <2>2, <2>4 DEF Under, After
  <2>12. GoesOn(g, expect', name', text' \o missing)
    BY <2>4, <2>10, <2>11 DEF GoesOn
  <2>13. /\ Spine(value', current', within', root, n - 1, gr)
         /\ GoesOn(gr[n - 1], expect', name', text' \o missing)
    BY <1>1, <2>8, <2>9, <2>12
  <2>14. InSpine(root, missing)'
    BY <2>1, <2>3, <2>13 DEF InSpine
  <2> QED
    BY <2>14 DEF OnTrack
<1> QED
  BY <1>10, <1>11

(* The root, as long as nothing has been read. *)
LEMMA RootTrack ==
  ASSUME JsonInv, NEW root \in Trees, NEW missing \in Seq(Token), value = NoValue,
         within = << >>, text \o missing = Text(root),
         \/ Leaf
         \/ \E kind \in Kinds : BeginCompound(Open(kind), kind)
  PROVE  OnTrack(root, missing)'
<1>1. /\ ValueAhead /\ text # << >> /\ Place = << >> /\ text \in Seq(Token) /\ text' = Tail(text)
      /\ ValueType /\ Cursor /\ Placeable /\ << >> \in Path
  <2>1. ValueAhead /\ text' = Tail(text)
    BY DEF Leaf, BeginCompound, Take
  <2>2. ValueType /\ Cursor /\ text \in Seq(Token)
    BY DEF JsonInv, Read
  <2>3. Placeable /\ text # << >>
    BY <2>1, ValueThere
  <2> QED
    BY <2>1, <2>2, <2>3, PlaceFacts, EmptySeq DEF Path
<1>2. DOMAIN value = {}
  BY <1>1, NothingThere
<1>3. ASSUME NEW what, value' = With(what)
      PROVE  /\ DOMAIN value' = {<< >>} /\ value'[<< >>] = what
             /\ value' = [p \in {<< >>} |-> what]
  <2>1. /\ \A p \in Path : p \in DOMAIN value' <=>
             p = Place \/ (p \in DOMAIN value /\ ~IsPrefix(Place, p))
        /\ DOMAIN value' \subseteq Path /\ value'[Place] = what
        /\ value' = [p \in DOMAIN value' |-> value'[p]]
    BY <1>1, <1>3, AddedThere
  <2>2. \A p \in Path : p \in DOMAIN value' <=> p = << >>
    BY <1>1, <1>2, <2>1
  <2>3. DOMAIN value' = {<< >>} /\ value'[<< >>] = what
    BY <1>1, <2>1, <2>2
  <2>4. value' = [p \in {<< >>} |-> value'[p]]
    BY <2>1, <2>3
  <2>5. [p \in {<< >>} |-> value'[p]] = [p \in {<< >>} |-> what]
    BY <2>3
  <2> QED
    BY <2>3, <2>4, <2>5
<1>4. CASE Compound(root)
  <2> DEFINE left == Left[<< root, 0 >>]
             f == [tree |-> root, path |-> << >>, done |-> 0, begun |-> 0, left |-> << >>]
             fr == [d \in 1 .. 1 |-> f]
  <2>1. Text(root) = << Open(root.at) >> \o left /\ Len(root.items) \in Nat
    BY <1>4, TextFacts, TreeFacts
  <2>2. left \in Seq(Token)
    <3>1. 0 \in 0 .. Len(root.items)
      BY <2>1
    <3> QED
      BY <1>4, <3>1, LeftType
  <2>3. Open(root.at) \in Token /\ Open(root.at) \in Punctuation
    BY DEF Open, Token, Punctuation
  <2> HIDE DEF left
  <2>4. ComesNext(text, missing, Open(root.at), left)
    BY <1>1, <2>1, <2>2, <2>3 DEF ComesNext
  <2>5. Taken(text, missing, Open(root.at), left)
    BY <2>4, Ahead1
  <2>6. Head(text) = Open(root.at) /\ text' \o missing = left
    BY <1>1, <2>5 DEF Taken
  <2>7. PICK kind \in Kinds : BeginCompound(Open(kind), kind)
    BY <2>3, <2>6 DEF Leaf
  <2>8. /\ Head(text) = Open(kind) /\ value' = With(kind) /\ current' = Place
        /\ expect' = "item or end" /\ within' = Append(within, kind)
    BY <2>7 DEF BeginCompound, Ahead
  <2>9. kind = root.at
    <3>1. root.at \in Kinds /\ Open(kind) = Open(root.at)
      BY <1>4, <2>6, <2>8 DEF Compound, Kinds
    <3>2. \A j, k \in Kinds : Open(j) = Open(k) => j = k
      <4>1. "{" # "["
        OBVIOUS
      <4>2. \A k \in Kinds : k = "object" \/ (k = "array" /\ k # "object")
        BY DEF Kinds
      <4> QED
        BY <4>1, <4>2, Zenon DEF Open
    <3> QED
      BY <3>1, <3>2
  <2>10. DOMAIN value' = {<< >>} /\ value'[<< >>] = root.at /\ current' = << >>
    BY <1>1, <1>3, <2>8, <2>9
  <2>11. /\ f \in Frames /\ f.tree = root /\ f.path = << >> /\ f.done = 0 /\ f.begun = 0
         /\ f.left = << >> /\ << >> \in Seq(Token)
    BY <1>1, EmptySeq DEF Frames
  <2>12. fr \in [1 .. 1 -> Frames] /\ fr[1] = f
    BY <2>11
  <2> HIDE DEF f, fr
  <2>13. Holds(value', f)
    <3>1. \A q \in Path : f.path \o q = q
      <4> SUFFICES ASSUME NEW q \in Path PROVE f.path \o q = q
        OBVIOUS
      <4>1. << >> \o q = q
        BY ConcatEmptySeq DEF Path
      <4> QED
        BY <2>11, <4>1
    <3>2. \A q \in Path : f.path \o q \in DOMAIN value' => q = << >>
      BY <2>10, <3>1
    <3>3. 1 .. 0 = {}
      OBVIOUS
    <3> QED
      BY <2>10, <2>11, <3>2, <3>3 DEF Holds
  <2>14. Len(within') = 1 /\ within'[1] = root.at
    <3>1. within' = Append(<< >>, root.at)
      BY <2>8, <2>9
    <3>2. Append(<< >>, root.at) = << root.at >>
      OBVIOUS
    <3> QED
      BY <3>1, <3>2
  <2>15. Link(value', current', within', 1, fr, 1)
    <3>1. Len(<< >>) = 0 /\ 1 .. 1 - 1 = {} /\ 1 - 1 = 0
      OBVIOUS
    <3> QED
      BY <1>4, <2>1, <2>10, <2>11, <2>12, <2>13, <2>14, <3>1 DEF Link
  <2>16. Spine(value', current', within', root, 1, fr)
    <3>1. 1 \in Nat \ {0} /\ \A d \in 1 .. 1 : d = 1
      OBVIOUS
    <3> QED
      BY <2>11, <2>12, <2>14, <2>15, <3>1 DEF Spine
  <2>17. text' \o missing = After(f, 0)
    <3>1. left \o << >> = left
      BY <2>2, ConcatEmptySeq
    <3>2. After(f, 0) = left \o << >>
      BY <2>11 DEF After, left
    <3> QED
      BY <2>6, <3>1, <3>2
  <2>18. GoesOn(fr[1], expect', name', text' \o missing)
    BY <2>8, <2>11, <2>12, <2>17 DEF GoesOn
  <2>19. InSpine(root, missing)'
    BY <2>12, <2>16, <2>18 DEF InSpine
  <2> QED
    BY <2>19 DEF OnTrack
<1>5. CASE ~Compound(root)
  <2>1. root.at \in Token /\ root.at \notin Punctuation /\ << >> \in Seq(Token)
    BY <1>5, TreeFacts, TreesAssumption, KeyIsStep, EmptySeq
  <2> DEFINE s == << root.at >>
  <2>2. Text(root) = s /\ s \in Seq(Token)
    BY <1>5, TextFacts
  <2> HIDE DEF s
  <2>3. s \o << >> = s
    BY <2>2, ConcatEmptySeq
  <2>4. text \o missing = << root.at >> \o << >>
    BY <2>2, <2>3 DEF s
  <2>5. ComesNext(text, missing, root.at, << >>)
    BY <1>1, <2>1, <2>4, Zenon DEF ComesNext
  <2>6. Taken(text, missing, root.at, << >>)
    BY <2>5, Ahead1
  <2>7. Head(text) = root.at /\ text' \o missing = << >>
    BY <1>1, <2>6, Zenon DEF Taken
  <2>8. \A kind \in Kinds : Open(kind) \in Punctuation
    BY DEF Open, Punctuation
  <2>9. Leaf
    BY <2>1, <2>7, <2>8 DEF BeginCompound, Ahead
  <2>10. value' = With(root.at) /\ expect' = Afterwards(within) /\ within' = within
    BY <2>7, <2>9 DEF Leaf
  <2>11. value' = Value[root]
    BY <1>3, <1>5, <2>10, LeafValue
  <2>12. expect' = "nothing"
    BY <2>10 DEF Afterwards
  <2> QED
    BY <2>7, <2>10, <2>11, <2>12 DEF OnTrack
<1> QED
  BY <1>4, <1>5

(* The steps that leave the value as it is. *)
LEMMA NameTrack ==
  ASSUME JsonInv, NewName \/ Colon \/ Comma, NEW root, NEW n \in Nat, NEW fr \in [1 .. n -> Frames],
         Spine(value, current, within, root, n, fr),
         NEW missing \in Seq(Token), GoesOn(fr[n], expect, name, text \o missing)
  PROVE  InSpine(root, missing)'
<1> DEFINE f == fr[n]
           i == f.done + 1
<1>1. /\ value' = value /\ current' = current /\ within' = within /\ text' = Tail(text)
      /\ text # << >> /\ text \in Seq(Token) /\ within \in Seq(Kinds)
  BY DEF NewName, Colon, Comma, Take, ItemAhead, CommaAhead, Ahead, JsonInv, Read, Cursor
<1>2. TopFrame(value, current, within, n, f)
  BY <1>1, SpineTop
<1>3. /\ f \in Frames /\ Compound(f.tree) /\ f.begun = f.done /\ f.path = current
      /\ f.done <= Len(f.tree.items) /\ Last(within) = f.tree.at
      /\ value[current] = f.tree.at
  BY <1>2 DEF TopFrame
<1> HIDE DEF f
<1>4. GoesOn(f, expect, name, text \o missing)
  BY DEF f
<1>5. SUFFICES GoesOn(f, expect', name', text' \o missing)
  <2>1. GoesOn(fr[n], expect', name', text' \o missing)
    BY <1>5 DEF f
  <2>2. Spine(value', current', within', root, n, fr)
    BY <1>1
  <2> QED
    BY <2>1, <2>2 DEF InSpine
<1>6. ASSUME f.done < Len(f.tree.items)
      PROVE  /\ f.tree \in Trees /\ i \in 1 .. Len(f.tree.items) /\ Behind(f) \in Seq(Token)
             /\ Key(f.tree, i) \o Behind(f) \in Seq(Token)
  <2>1. /\ f.tree \in Trees /\ i \in 1 .. Len(f.tree.items) /\ Behind(f) \in Seq(Token)
        /\ Key(f.tree, i) \in Seq(Token)
    BY <1>3, <1>6, FrameText
  <2> QED
    BY <2>1, ConcatProperties
<1>7. CASE NewName
  <2>1. ItemAhead /\ Last(within) = "object" /\ name' = Head(text) /\ expect' = ":"
    BY <1>7 DEF NewName
  <2>2. f.done < Len(f.tree.items) /\ text \o missing = Key(f.tree, i) \o Behind(f)
    BY <1>3, <1>4, <2>1, ItemStart
  <2>3. /\ KeyOf(f.tree, i) \in Token
        /\ Key(f.tree, i) \o Behind(f) = << KeyOf(f.tree, i) >> \o (<< ":" >> \o Behind(f))
        /\ << ":" >> \o Behind(f) \in Seq(Token)
    BY <1>3, <1>6, <2>1, <2>2, ItemText
  <2>4. ComesNext(text, missing, KeyOf(f.tree, i), << ":" >> \o Behind(f))
    BY <1>1, <2>2, <2>3, Zenon DEF ComesNext
  <2>5. Taken(text, missing, KeyOf(f.tree, i), << ":" >> \o Behind(f))
    BY <2>4, Ahead1, Zenon
  <2>6. name' = KeyOf(f.tree, i) /\ text' \o missing = << ":" >> \o Behind(f)
    BY <1>1, <2>1, <2>5, Zenon DEF Taken
  <2>7. f.tree.at = "object"
    BY <1>3, <2>1
  <2> QED
    BY <2>1, <2>2, <2>6, <2>7, Zenon DEF GoesOn
<1>8. CASE Colon
  <2>1. expect = ":" /\ expect' = "value" /\ name' = name
    BY <1>8 DEF Colon
  <2>2. /\ f.done < Len(f.tree.items) /\ text \o missing = << ":" >> \o Behind(f)
        /\ f.tree.at = "object" /\ name = KeyOf(f.tree, i)
    BY <1>4, <2>1 DEF GoesOn
  <2>3. ":" \in Token
    BY DEF Token, Punctuation
  <2>4. ComesNext(text, missing, ":", Behind(f))
    BY <1>1, <1>6, <2>2, <2>3, Zenon DEF ComesNext
  <2>5. Taken(text, missing, ":", Behind(f))
    BY <2>4, Ahead1, Zenon
  <2>6. text' \o missing = Behind(f)
    BY <1>1, <2>5, Zenon DEF Taken
  <2> QED
    BY <2>1, <2>2, <2>6, Zenon DEF GoesOn
<1>9. CASE Comma
  <2>1. expect = ", or end" /\ Head(text) = "," /\ expect' = "item" /\ name' = name
    BY <1>9 DEF Comma, CommaAhead, Ahead
  <2>2. f.done # 0 /\ text \o missing = After(f, f.done)
    BY <1>4, <2>1 DEF GoesOn
  <2>3. f.done # Len(f.tree.items)
    <3> SUFFICES ASSUME f.done = Len(f.tree.items) PROVE FALSE
      OBVIOUS
    <3>1. text \o missing = << Close(f.tree.at) >> \o f.left /\ f.left \in Seq(Token)
      BY <1>3, <2>2, FrameText
    <3>2. Close(f.tree.at) \in Token /\ Close(f.tree.at) # ","
      BY DEF Close, Token, Punctuation
    <3>3. ComesNext(text, missing, Close(f.tree.at), f.left)
      BY <1>1, <3>1, <3>2 DEF ComesNext
    <3>4. Taken(text, missing, Close(f.tree.at), f.left)
      BY <3>3, Ahead1
    <3> QED
      BY <2>1, <3>2, <3>4 DEF Taken
  <2>4. f.done < Len(f.tree.items)
    <3>1. f.done \in Nat /\ Len(f.tree.items) \in Nat
      BY <1>3, TreeFacts DEF Frames
    <3> QED
      BY <1>3, <2>3, <3>1
  <2>5. text \o missing = << "," >> \o (Key(f.tree, i) \o Behind(f))
    BY <1>3, <2>2, <2>4, CommaText, Zenon
  <2>6. "," \in Token
    BY DEF Token, Punctuation
  <2>7. ComesNext(text, missing, ",", Key(f.tree, i) \o Behind(f))
    BY <1>1, <1>6, <2>4, <2>5, <2>6, Zenon DEF ComesNext
  <2>8. Taken(text, missing, ",", Key(f.tree, i) \o Behind(f))
    BY <2>7, Ahead1, Zenon
  <2>9. text' \o missing = Key(f.tree, i) \o Behind(f)
    BY <1>1, <2>8, Zenon DEF Taken
  <2> QED
    BY <2>1, <2>2, <2>4, <2>9, Zenon DEF GoesOn
<1> QED
  BY <1>7, <1>8, <1>9

-----------------------------------------------------------------------------
(***************************************************************************)
(* What has been read of a tree is a part of what it says.                 *)
(***************************************************************************)
(* What stands under a frame's path is in its tree. *)
Fits(v, f) ==
  \A q \in Path : f.path \o q \in DOMAIN v =>
    q \in DOMAIN Value[f.tree] /\ v[f.path \o q] = Value[f.tree][q]

LEMMA FrameFits ==
  ASSUME NEW v, NEW f \in Frames, f.begun <= Len(f.tree.items), Holds(v, f),
         Lasting(f.tree) = DOMAIN f.tree.items,
         \/ f.begun = f.done
         \/ f.begun = f.done + 1 /\ \E g \in Frames : Under(f, g) /\ Fits(v, g)
  PROVE  Fits(v, f)
<1> DEFINE t == f.tree
<1>1. /\ t \in Trees /\ f.path \in Path /\ f.done \in Nat /\ f.begun \in Nat
      /\ Len(t.items) \in Nat /\ DOMAIN t.items = 1 .. Len(t.items)
  BY TreeFacts DEF Frames
<1>2. SUFFICES ASSUME NEW q \in Path, f.path \o q \in DOMAIN v
               PROVE  q \in DOMAIN Value[t] /\ v[f.path \o q] = Value[t][q]
  BY DEF Fits
<1>3. CASE q = << >>
  <2>1. f.path \o << >> = f.path
    BY <1>1, ConcatEmptySeq DEF Path
  <2>2. << >> \in DOMAIN Value[t] /\ Value[t][<< >>] = t.at
    BY <1>1, ValueFacts
  <2>3. v[f.path] = t.at
    BY DEF Holds
  <2> HIDE DEF t
  <2> QED
    BY <1>3, <2>1, <2>2, <2>3
<1>4. CASE q # << >>
  <2>1. PICK j \in 1 .. f.begun : SaysUnder(v, f, q, j)
    BY <1>2, <1>4 DEF Holds
  <2>2. /\ KeyOf(t, j) = Head(q)
        /\ j <= f.done => /\ Tail(q) \in DOMAIN Value[Item(t, j)]
                          /\ v[f.path \o q] = Value[Item(t, j)][Tail(q)]
    BY <2>1 DEF SaysUnder
  <2>3. j \in Lasting(t)
    BY <1>1
  <2>4. Tail(q) \in DOMAIN Value[Item(t, j)] /\ v[f.path \o q] = Value[Item(t, j)][Tail(q)]
    <3>1. CASE j <= f.done
      BY <2>2, <3>1
    <3>2. CASE ~(j <= f.done)
      <4>1. f.begun = f.done + 1 /\ j = f.begun
        BY <1>1, <3>2
      <4>2. PICK g \in Frames : Under(f, g) /\ Fits(v, g)
        BY <1>1, <4>1
      <4>3. /\ q = << KeyOf(t, j) >> \o Tail(q) /\ Tail(q) \in Path
            /\ KeyOf(t, j) \in PathStep
        BY <1>4, <2>2, SplitPath
      <4>4. g.tree = Item(t, j) /\ g.path = Append(f.path, KeyOf(t, j))
        BY <4>1, <4>2 DEF Under
      <4>5. Append(f.path, KeyOf(t, j)) \o Tail(q) = f.path \o (<< KeyOf(t, j) >> \o Tail(q))
        BY <1>1, <4>3, AppendCat
      <4> DEFINE p == g.path \o Tail(q)
      <4>6. p = f.path \o q
        BY <4>3, <4>4, <4>5, Zenon
      <4>7. p \in DOMAIN v => Tail(q) \in DOMAIN Value[g.tree] /\ v[p] = Value[g.tree][Tail(q)]
        BY <4>2, <4>3 DEF Fits
      <4> HIDE DEF p
      <4> QED
        BY <1>2, <4>4, <4>6, <4>7
    <3> QED
      BY <3>1, <3>2
  <2>5. q \in DOMAIN Value[t] /\ Value[t][q] = Value[Item(t, j)][Tail(q)]
    BY <1>1, <1>4, <2>2, <2>3, <2>4, ValueFacts
  <2> QED
    BY <2>4, <2>5
<1> QED
  BY <1>3, <1>4

LEMMA PartOfWhole ==
  ASSUME ValueType, NEW cur, NEW win, NEW root, NEW n, NEW fr,
         Spine(value, cur, win, root, n, fr), NamesDiffer[root]
  PROVE  PartOf(value, Value[root])
<1>1. /\ n \in Nat \ {0} /\ fr \in [1 .. n -> Frames]
      /\ fr[1].tree = root /\ fr[1].path = << >>
      /\ \A d \in 1 .. n : Link(value, cur, win, n, fr, d)
  BY DEF Spine
<1>2. ASSUME NEW d \in 1 .. n
      PROVE  /\ fr[d] \in Frames /\ fr[d].tree \in Trees /\ fr[d].done \in Nat
             /\ fr[d].begun <= Len(fr[d].tree.items) /\ Holds(value, fr[d])
             /\ Len(fr[d].tree.items) \in Nat
             /\ DOMAIN fr[d].tree.items = 1 .. Len(fr[d].tree.items)
             /\ d = n => fr[d].begun = fr[d].done
             /\ d # n => fr[d].begun = fr[d].done + 1 /\ Under(fr[d], fr[d + 1])
  <2>1. fr[d] \in Frames
    BY <1>1
  <2>2. fr[d].tree \in Trees /\ fr[d].done \in Nat
    BY <2>1 DEF Frames
  <2>3. /\ fr[d].begun <= Len(fr[d].tree.items) /\ Holds(value, fr[d])
        /\ d = n => fr[d].begun = fr[d].done
        /\ d # n => fr[d].begun = fr[d].done + 1 /\ Under(fr[d], fr[d + 1])
    BY <1>1 DEF Link
  <2>4. /\ Len(fr[d].tree.items) \in Nat
        /\ DOMAIN fr[d].tree.items = 1 .. Len(fr[d].tree.items)
    BY <2>2, TreeFacts
  <2> QED
    BY <2>1, <2>2, <2>3, <2>4
<1>3. \A d \in 1 .. n : NamesDiffer[fr[d].tree]
  <2> DEFINE T == {d \in 1 .. n : ~NamesDiffer[fr[d].tree]}
  <2> SUFFICES ASSUME T # {} PROVE FALSE
    OBVIOUS
  <2>1. PICK d \in T : \A y \in T : d <= y
    <3>1. T \in SUBSET Nat
      BY <1>1
    <3> HIDE DEF T
    <3> QED
      BY <3>1, LeastNumber
  <2>2. d \in 1 .. n /\ ~NamesDiffer[fr[d].tree]
    OBVIOUS
  <2>3. d # 1
    BY <1>1, <2>2
  <2> DEFINE e == d - 1
  <2>4. e \in 1 .. n /\ e # n /\ e + 1 = d /\ ~(d <= e)
    BY <1>1, <2>2, <2>3
  <2>5. NamesDiffer[fr[e].tree]
    BY <2>1, <2>4
  <2>6. /\ fr[e].tree \in Trees /\ fr[e].begun \in DOMAIN fr[e].tree.items
        /\ fr[d].tree = fr[e].tree.items[fr[e].begun].tree
    <3> HIDE DEF e
    <3>1. /\ fr[e].tree \in Trees /\ fr[e].done \in Nat
          /\ fr[e].begun <= Len(fr[e].tree.items) /\ Len(fr[e].tree.items) \in Nat
          /\ DOMAIN fr[e].tree.items = 1 .. Len(fr[e].tree.items)
          /\ fr[e].begun = fr[e].done + 1 /\ Under(fr[e], fr[d])
      BY <1>2, <2>4
    <3>2. fr[e].begun \in 1 .. Len(fr[e].tree.items)
      BY <3>1
    <3> QED
      BY <3>1, <3>2 DEF Under, Item
  <2>7. NamesDiffer[fr[e].tree] = DifferBy(NamesDiffer, fr[e].tree)
    BY <2>6, DifferIs
  <2>8. NamesDiffer[fr[e].tree.items[fr[e].begun].tree]
    BY <2>5, <2>6, <2>7 DEF DifferBy
  <2> QED
    BY <2>2, <2>6, <2>8
<1>4. \A d \in 1 .. n : Lasting(fr[d].tree) = DOMAIN fr[d].tree.items
  <2> SUFFICES ASSUME NEW d \in 1 .. n PROVE Lasting(fr[d].tree) = DOMAIN fr[d].tree.items
    OBVIOUS
  <2>1. NamesDiffer[fr[d].tree] = DifferBy(NamesDiffer, fr[d].tree) /\ NamesDiffer[fr[d].tree]
    BY <1>2, <1>3, DifferIs
  <2> QED
    BY <2>1 DEF DifferBy
<1>5. \A d \in 1 .. n : Fits(value, fr[d])
  <2> DEFINE T == {k \in 0 .. n - 1 : ~Fits(value, fr[n - k])}
  <2> SUFFICES ASSUME T # {} PROVE FALSE
    <3> SUFFICES ASSUME NEW d \in 1 .. n, ~Fits(value, fr[d]) PROVE n - d \in T
      OBVIOUS
    <3>1. n - d \in 0 .. n - 1 /\ n - (n - d) = d
      BY <1>1
    <3> QED
      BY <3>1
  <2>1. PICK k \in T : \A y \in T : k <= y
    <3>1. T \in SUBSET Nat
      BY <1>1
    <3> HIDE DEF T
    <3> QED
      BY <3>1, LeastNumber
  <2> DEFINE d == n - k
  <2>2. d \in 1 .. n /\ ~Fits(value, fr[d])
    BY <1>1
  <2>3. ASSUME d # n PROVE Fits(value, fr[d + 1])
    <3>1. k - 1 \in 0 .. n - 1 /\ n - (k - 1) = d + 1 /\ ~(k <= k - 1)
      BY <1>1, <2>3
    <3>2. k - 1 \notin T
      BY <2>1, <3>1
    <3>3. Fits(value, fr[n - (k - 1)])
      BY <3>1, <3>2
    <3> QED
      BY <3>1, <3>3
  <2> HIDE DEF d
  <2>4. d # n => d + 1 \in 1 .. n
    BY <1>1, <2>2
  <2>5. /\ fr[d] \in Frames /\ fr[d].begun <= Len(fr[d].tree.items) /\ Holds(value, fr[d])
        /\ Lasting(fr[d].tree) = DOMAIN fr[d].tree.items
    BY <1>2, <1>4, <2>2
  <2>6. \/ fr[d].begun = fr[d].done
        \/ fr[d].begun = fr[d].done + 1 /\ \E g \in Frames : Under(fr[d], g) /\ Fits(value, g)
    <3>1. CASE d = n
      BY <1>2, <2>2, <3>1
    <3>2. CASE d # n
      <4>1. fr[d].begun = fr[d].done + 1 /\ Under(fr[d], fr[d + 1]) /\ fr[d + 1] \in Frames
        BY <1>2, <2>2, <2>4, <3>2
      <4> QED
        BY <2>3, <3>2, <4>1
    <3> QED
      BY <3>1, <3>2
  <2>7. Fits(value, fr[d])
    BY <2>5, <2>6, FrameFits
  <2> QED
    BY <2>2, <2>7
<1>6. Fits(value, fr[1])
  BY <1>1, <1>5
<1>7. ASSUME NEW p \in DOMAIN value PROVE p \in DOMAIN Value[root] /\ value[p] = Value[root][p]
  <2>1. p \in Path
    BY DEF ValueType
  <2> DEFINE q == fr[1].path \o p
  <2>2. q = p
    <3>1. << >> \o p = p
      BY <2>1, ConcatEmptySeq DEF Path
    <3> QED
      BY <1>1, <3>1
  <2>3. q \in DOMAIN value =>
          p \in DOMAIN Value[fr[1].tree] /\ value[q] = Value[fr[1].tree][p]
    BY <1>6, <2>1 DEF Fits
  <2> HIDE DEF q
  <2> QED
    BY <1>1, <1>7, <2>2, <2>3
<1> QED
  BY <1>7 DEF PartOf

-----------------------------------------------------------------------------
(***************************************************************************)
(* The grammar misses a piece of a tree's text only where that was cut.    *)
(***************************************************************************)
Begins(kind, token) == IF kind = "object" THEN IsString(token) ELSE StartsValue(token)

(* What the rest of the text begins with. *)
Heads(f, ex, rest) ==
  \E a \in Token, r \in Seq(Token) :
    /\ rest = << a >> \o r
    /\ ex = ":" => a = ":"
    /\ ex = "value" => StartsValue(a)
    /\ ex \in {"item or end", ", or end"} =>
         \/ a = Close(f.tree.at)
         \/ ex = "item or end" /\ Begins(f.tree.at, a)
         \/ /\ ex = ", or end" /\ a = ","
            /\ \E b \in Token, q \in Seq(Token) : r = << b >> \o q /\ Begins(f.tree.at, b)

LEMMA MoreToCome ==
  ASSUME NEW m \in Seq(Token), NEW a \in Token, NEW r \in Seq(Token), << >> \o m = << a >> \o r
  PROVE  m # << >>
<1> SUFFICES ASSUME m = << >> PROVE FALSE
  OBVIOUS
<1> DEFINE s == << a >>
<1>1. s \in Seq(Token) /\ s # << >>
  BY OneToken
<1> HIDE DEF s
<1>2. << >> \o m = << >>
  BY ConcatEmptySeq
<1>3. s \o r = << >>
  BY <1>2 DEF s
<1> QED
  BY <1>1, <1>3, ConcatEqualIffEmpty

LEMMA RestHead ==
  ASSUME NEW f \in Frames, Compound(f.tree), f.done <= Len(f.tree.items),
         NEW ex, NEW nm, NEW rest, GoesOn(f, ex, nm, rest)
  PROVE  Heads(f, ex, rest)
<1> DEFINE k == Key(f.tree, f.done + 1)
<1>1. /\ f.done \in Nat /\ Len(f.tree.items) \in Nat
  BY TreeFacts DEF Frames
<1>2. ASSUME f.done < Len(f.tree.items)
      PROVE  /\ Behind(f) \in Seq(Token) /\ k \o Behind(f) \in Seq(Token)
             /\ \E a \in Token, r \in Seq(Token) : Behind(f) = << a >> \o r /\ StartsValue(a)
             /\ \E a \in Token, r \in Seq(Token) :
                  k \o Behind(f) = << a >> \o r /\ Begins(f.tree.at, a)
  <2>1. Behind(f) \in Seq(Token) /\ k \in Seq(Token)
    BY <1>2, FrameText
  <2>2. k \o Behind(f) \in Seq(Token)
    BY <2>1, ConcatProperties
  <2>3. \E a \in Token, r \in Seq(Token) : Behind(f) = << a >> \o r /\ StartsValue(a)
    BY <1>2, BehindHead
  <2>4. \E a \in Token, r \in Seq(Token) :
          k \o Behind(f) = << a >> \o r /\ Begins(f.tree.at, a)
    BY <1>2, ItemHead, Zenon DEF Begins
  <2> QED
    BY <2>1, <2>2, <2>3, <2>4
<1>3. ASSUME ex \in {"item or end", ", or end"}, rest = After(f, f.done),
             ex = "item or end" <=> f.done = 0
      PROVE  \E a \in Token, r \in Seq(Token) :
               /\ rest = << a >> \o r
               /\ \/ a = Close(f.tree.at)
                  \/ ex = "item or end" /\ Begins(f.tree.at, a)
                  \/ /\ ex = ", or end" /\ a = ","
                     /\ \E b \in Token, q \in Seq(Token) :
                          r = << b >> \o q /\ Begins(f.tree.at, b)
  <2>1. CASE f.done = Len(f.tree.items)
    <3>1. After(f, f.done) = << Close(f.tree.at) >> \o f.left /\ f.left \in Seq(Token)
      BY <2>1, FrameText
    <3>2. Close(f.tree.at) \in Token
      BY DEF Close, Token, Punctuation
    <3> QED
      BY <1>3, <3>1, <3>2, Zenon
  <2>2. CASE f.done # Len(f.tree.items)
    <3>1. f.done < Len(f.tree.items)
      BY <1>1, <2>2
    <3>2. CASE f.done = 0
      <4>1. After(f, f.done) = k \o Behind(f)
        BY <3>1, <3>2, FrameText
      <4> QED
        BY <1>2, <1>3, <3>1, <3>2, <4>1, Zenon
    <3>3. CASE f.done # 0
      <4>1. After(f, f.done) = << "," >> \o (k \o Behind(f))
        BY <3>1, <3>3, CommaText
      <4>2. "," \in Token /\ ex = ", or end"
        BY <1>3, <3>3 DEF Token, Punctuation
      <4> HIDE DEF k
      <4> QED
        BY <1>2, <1>3, <3>1, <4>1, <4>2, Zenon
    <3> QED
      BY <3>2, <3>3
  <2> QED
    BY <2>1, <2>2
<1>4. CASE ex = ":" \/ ex = "value" \/ ex = "item"
  <2>1. /\ f.done < Len(f.tree.items)
        /\ ex = ":" => rest = << ":" >> \o Behind(f)
        /\ ex = "value" => rest = Behind(f)
        /\ ex = "item" => rest = k \o Behind(f)
        /\ ex # "item or end" /\ ex # ", or end"
    BY <1>4 DEF GoesOn
  <2>2. ":" \in Token
    BY DEF Token, Punctuation
  <2>3. ":" # "value" /\ "item" # "value" /\ ":" # "item"
    OBVIOUS
  <2> HIDE DEF k
  <2>4. CASE ex = ":"
    BY <1>2, <2>1, <2>2, <2>3, <2>4, Zenon DEF Heads
  <2>5. CASE ex = "value"
    BY <1>2, <2>1, <2>3, <2>5, Zenon DEF Heads
  <2>6. CASE ex = "item"
    BY <1>2, <2>1, <2>3, <2>6, Zenon DEF Heads
  <2> QED
    BY <1>4, <2>4, <2>5, <2>6
<1>5. CASE ~(ex = ":" \/ ex = "value" \/ ex = "item")
  <2>1. /\ ex \in {"item or end", ", or end"} /\ rest = After(f, f.done)
        /\ ex = "item or end" <=> f.done = 0
        /\ ex # ":" /\ ex # "value"
    BY <1>5 DEF GoesOn
  <2> QED
    BY <1>3, <2>1, Zenon DEF Heads
<1> QED
  BY <1>4, <1>5

LEMMA TrackPart ==
  ASSUME ValueType, NEW root, NEW missing, OnTrack(root, missing), NamesDiffer[root]
  PROVE  PartOf(value, Value[root])
<1>1. CASE value = NoValue
  <2>1. DOMAIN value = {}
    BY <1>1 DEF NoValue
  <2> QED
    BY <2>1 DEF PartOf
<1>2. CASE value = Value[root]
  BY <1>2 DEF PartOf
<1>3. CASE InSpine(root, missing)
  BY <1>3, PartOfWhole DEF InSpine
<1> QED
  BY <1>1, <1>2, <1>3 DEF OnTrack

LEMMA ThrowTrack ==
  ASSUME JsonInv, Throw, NEW root \in Trees, NEW missing \in Seq(Token), OnTrack(root, missing)
  PROVE  OffTrack(root, missing)'
<1>1. /\ value' = value /\ expect' = "thrown" /\ text \in Seq(Token)
      /\ ValueType /\ within \in Seq(Kinds)
  BY DEF Throw, JsonInv, Read, Cursor
<1>2. NamesDiffer[root] => PartOf(value, Value[root])
  BY <1>1, TrackPart
<1>3. SUFFICES missing # << >>
  BY <1>1, <1>2 DEF OffTrack, PartOf
<1>4. ASSUME NEW a \in Token, NEW r \in Seq(Token), text \o missing = << a >> \o r
      PROVE  /\ text = << >> => missing # << >>
             /\ text # << >> => Head(text) = a /\ Tail(text) \o missing = r
  <2>1. ASSUME text = << >> PROVE missing # << >>
    BY <1>4, <2>1, MoreToCome
  <2>2. ASSUME text # << >> PROVE Head(text) = a /\ Tail(text) \o missing = r
    <3>1. ComesNext(text, missing, a, r)
      BY <1>1, <1>4, <2>2 DEF ComesNext
    <3>2. Taken(text, missing, a, r)
      BY <3>1, Ahead1
    <3> QED
      BY <3>2 DEF Taken
  <2> QED
    BY <2>1, <2>2
<1>5. CASE within = << >> /\ expect = "value" /\ value = NoValue /\ text \o missing = Text(root)
  <2>1. PICK a \in Token, r \in Seq(Token) : Text(root) = << a >> \o r /\ StartsValue(a)
    BY TextHead
  <2>2. ~ValueAhead
    BY <1>5 DEF Throw, NoColon, NotAValue, NoEnd
  <2>3. text = << >>
    <3> SUFFICES ASSUME text # << >> PROVE FALSE
      OBVIOUS
    <3>1. text \o missing = << a >> \o r
      BY <1>5, <2>1
    <3>2. Head(text) = a
      BY <1>4, <3>1
    <3> QED
      BY <1>5, <2>1, <2>2, <3>2 DEF ValueAhead
  <2> QED
    BY <1>4, <1>5, <2>1, <2>3
<1>6. CASE InSpine(root, missing)
  <2>0. PICK n \in Nat : \E fr \in [1 .. n -> Frames] :
          Spine(value, current, within, root, n, fr) /\ GoesOn(fr[n], expect, name, text \o missing)
    BY <1>6 DEF InSpine
  <2>1. PICK fr \in [1 .. n -> Frames] :
          Spine(value, current, within, root, n, fr) /\ GoesOn(fr[n], expect, name, text \o missing)
    BY <2>0
  <2> DEFINE f == fr[n]
  <2>2. TopFrame(value, current, within, n, f)
    BY <1>1, <2>1, SpineTop
  <2>3. /\ f \in Frames /\ Compound(f.tree) /\ f.done <= Len(f.tree.items)
        /\ Last(within) = f.tree.at /\ f.tree.at \in Kinds
    BY <2>2 DEF TopFrame
  <2>4. GoesOn(f, expect, name, text \o missing)
    BY <2>1
  <2> HIDE DEF f
  <2>5. PICK a \in Token, r \in Seq(Token) :
          /\ text \o missing = << a >> \o r
          /\ expect = ":" => a = ":"
          /\ expect = "value" => StartsValue(a)
          /\ expect \in {"item or end", ", or end"} =>
               \/ a = Close(f.tree.at)
               \/ expect = "item or end" /\ Begins(f.tree.at, a)
               \/ /\ expect = ", or end" /\ a = ","
                  /\ \E b \in Token, q \in Seq(Token) : r = << b >> \o q /\ Begins(f.tree.at, b)
    <3>1. Heads(f, expect, text \o missing)
      BY <2>3, <2>4, RestHead
    <3> QED
      BY <3>1, Zenon DEF Heads
  <2>6. \A token : StartsItem(token) <=> Begins(f.tree.at, token)
    BY <2>3 DEF StartsItem, Begins
  <2>7. CASE text = << >>
    BY <1>4, <2>5, <2>7
  <2>8. CASE text # << >>
    <3>1. Head(text) = a /\ Tail(text) \o missing = r
      BY <1>4, <2>5, <2>8
    <3>2. expect # ":"
      BY <2>5, <2>8, <3>1 DEF Throw, NoColon, NotAValue, NoEnd, Ahead
    <3>3. expect # "value"
      BY <2>5, <2>8, <3>1 DEF Throw, NoColon, NotAValue, NoEnd, ValueAhead
    <3>4. /\ expect \in {", or end", "item or end"} /\ ~ItemAhead /\ ~CommaAhead
          /\ ~MayEnd("}", "object") /\ ~MayEnd("]", "array")
      BY <3>2, <3>3 DEF Throw, NoColon, NotAValue, NoEnd
    <3>5. a # Close(f.tree.at)
      <4>1. CASE f.tree.at = "object"
        BY <2>3, <2>8, <3>1, <3>4, <4>1 DEF MayEnd, Ahead, Close
      <4>2. CASE f.tree.at = "array"
        BY <2>3, <2>8, <3>1, <3>4, <4>2 DEF MayEnd, Ahead, Close
      <4> QED
        BY <2>3, <4>1, <4>2 DEF Kinds
    <3>6. ~(expect = "item or end" /\ Begins(f.tree.at, a))
      BY <2>6, <2>8, <3>1, <3>4 DEF ItemAhead
    <3>7. /\ expect = ", or end" /\ a = ","
          /\ \E b \in Token, q \in Seq(Token) : r = << b >> \o q /\ Begins(f.tree.at, b)
      BY <2>5, <3>4, <3>5, <3>6
    <3>8. PICK b \in Token, q \in Seq(Token) : r = << b >> \o q /\ Begins(f.tree.at, b)
      BY <3>7
    <3> DEFINE t == Tail(text)
    <3>9. /\ t \in Seq(Token) /\ Len(text) \in Nat \ {0} /\ Len(t) = Len(text) - 1
          /\ \A i \in 1 .. Len(t) : t[i] = text[i + 1]
      BY <1>1, <2>8, HeadAndTail, HeadTailProperties
    <3>10. t \o missing = << b >> \o q
      BY <3>1, <3>8
    <3> HIDE DEF t
    <3>11. t = << >>
      <4> SUFFICES ASSUME t # << >> PROVE FALSE
        OBVIOUS
      <4>1. ComesNext(t, missing, b, q)
        BY <3>8, <3>9, <3>10 DEF ComesNext
      <4>2. Taken(t, missing, b, q)
        BY <4>1, Ahead1
      <4>3. Head(t) = b
        BY <4>2 DEF Taken
      <4>4. Len(t) \in Nat \ {0} /\ Head(t) = t[1]
        BY <3>9, HeadAndTail
      <4>5. 1 \in 1 .. Len(t) /\ 1 + 1 = 2 /\ Len(text) > 1
        BY <3>9, <4>4
      <4>6. text[2] = b
        BY <3>9, <4>3, <4>4, <4>5
      <4> QED
        BY <2>6, <2>8, <3>1, <3>4, <3>7, <3>8, <4>5, <4>6 DEF CommaAhead, Ahead
    <3> QED
      BY <3>8, <3>10, <3>11, MoreToCome
  <2> QED
    BY <2>7, <2>8
<1>7. expect # "nothing"
  BY DEF Throw, NoColon, NotAValue, NoEnd
<1> QED
  BY <1>5, <1>6, <1>7 DEF OnTrack

-----------------------------------------------------------------------------
(***************************************************************************)
(* Every step stays on track or leaves it for good.                        *)
(***************************************************************************)
LEMMA Brackets ==
  /\ BeginObj \/ BeginArray => \E kind \in Kinds : BeginCompound(Open(kind), kind)
  /\ EndObj \/ EndArray => \E kind \in Kinds : EndCompound(Close(kind), kind)
<1>1. "object" \in Kinds /\ "array" \in Kinds /\ "array" # "object"
  BY DEF Kinds
<1>2. Open("object") = "{" /\ Open("array") = "[" /\ Close("object") = "}" /\ Close("array") = "]"
  BY <1>1, Zenon DEF Open, Close
<1> QED
  BY <1>1, <1>2, Zenon DEF BeginObj, BeginArray, EndObj, EndArray

LEMMA SpineStep ==
  ASSUME JsonInv, JsonNext, ~Throw, NEW root \in Trees, NEW missing \in Seq(Token),
         InSpine(root, missing)
  PROVE  OnTrack(root, missing)'
<1>1. PICK n \in Nat : \E fr \in [1 .. n -> Frames] :
        Spine(value, current, within, root, n, fr) /\ GoesOn(fr[n], expect, name, text \o missing)
  BY DEF InSpine
<1>2. PICK fr \in [1 .. n -> Frames] :
        Spine(value, current, within, root, n, fr) /\ GoesOn(fr[n], expect, name, text \o missing)
  BY <1>1
<1>3. CASE Leaf
  <2>1. InSpine(root, missing)'
    BY <1>2, <1>3, LeafTrack
  <2> QED
    BY <2>1 DEF OnTrack
<1>4. CASE BeginObj \/ BeginArray
  <2>1. PICK kind \in Kinds : BeginCompound(Open(kind), kind)
    BY <1>4, Brackets, Zenon
  <2>2. InSpine(root, missing)'
    BY <1>2, <2>1, BeginTrack
  <2> QED
    BY <2>2 DEF OnTrack
<1>5. CASE EndObj \/ EndArray
  <2>1. PICK kind \in Kinds : EndCompound(Close(kind), kind)
    BY <1>5, Brackets, Zenon
  <2> QED
    BY <1>2, <2>1, EndTrack
<1>6. CASE NewName \/ Colon \/ Comma
  <2>1. InSpine(root, missing)'
    BY <1>2, <1>6, NameTrack
  <2> QED
    BY <2>1 DEF OnTrack
<1> QED
  BY <1>3, <1>4, <1>5, <1>6 DEF JsonNext

LEMMA OnTrackStep ==
  ASSUME JsonInv, JsonNext, NEW root \in Trees, NEW missing \in Seq(Token), OnTrack(root, missing)
  PROVE  OnTrack(root, missing)' \/ OffTrack(root, missing)'
<1>1. CASE Throw
  BY <1>1, ThrowTrack
<1>2. CASE ~Throw /\ InSpine(root, missing)
  BY <1>2, SpineStep
<1>3. CASE /\ ~Throw /\ within = << >> /\ expect = "value" /\ value = NoValue
           /\ text \o missing = Text(root)
  <2>1. Leaf \/ BeginObj \/ BeginArray
    BY <1>3 DEF JsonNext, EndObj, EndArray, EndCompound, MayEnd, NewName, ItemAhead,
                Colon, Comma, CommaAhead
  <2>2. Leaf \/ \E kind \in Kinds : BeginCompound(Open(kind), kind)
    BY <2>1, Brackets, Zenon
  <2> QED
    BY <1>3, <2>2, RootTrack
<1>4. CASE expect = "nothing"
  BY <1>4 DEF JsonNext, Leaf, BeginObj, BeginArray, BeginCompound, ValueAhead, EndObj, EndArray,
              EndCompound, MayEnd, NewName, ItemAhead, Colon, Comma, CommaAhead,
              Throw, NoColon, NotAValue, NoEnd
<1> QED
  BY <1>1, <1>2, <1>3, <1>4 DEF OnTrack

LEMMA OffTrackStep ==
  ASSUME JsonNext, NEW root, NEW missing, OffTrack(root, missing)
  PROVE  FALSE
<1>1. expect = "thrown"
  BY DEF OffTrack
<1> QED
  BY <1>1 DEF JsonNext, Leaf, BeginObj, BeginArray, BeginCompound, ValueAhead, EndObj, EndArray,
              EndCompound, MayEnd, NewName, ItemAhead, Colon, Comma, CommaAhead,
              Throw, NoColon, NotAValue, NoEnd

LEMMA SameSource == [JsonNext]_jsonVars => source' = source
BY DEF JsonNext, Leaf, BeginObj, BeginArray, BeginCompound, EndObj, EndArray, EndCompound,
       NewName, Colon, Comma, Throw, Take, jsonVars

(* What is cut from the end of some tree's text is read on its track.      *)
KeepsTrack == \A root \in Trees : IsPrefix(source, Text(root)) => Track(root)

LEMMA TrackStep ==
  ASSUME JsonInv, [JsonNext]_jsonVars, NEW root \in Trees, Track(root)
  PROVE  Track(root)'
<1>1. PICK missing \in Seq(Token) :
        source \o missing = Text(root) /\ (OnTrack(root, missing) \/ OffTrack(root, missing))
  BY DEF Track
<1>2. source' \o missing = Text(root)
  BY <1>1, SameSource
<1>3. SUFFICES OnTrack(root, missing)' \/ OffTrack(root, missing)'
  BY <1>1, <1>2 DEF Track
<1>4. CASE JsonNext
  BY <1>1, <1>4, OnTrackStep, OffTrackStep
<1>5. CASE UNCHANGED jsonVars
  BY <1>1, <1>5 DEF jsonVars, OnTrack, OffTrack, InSpine, PartOf, NoValue
<1> QED
  BY <1>4, <1>5

LEMMA PrefixRest ==
  ASSUME NEW s \in Seq(Token), NEW t \in Seq(Token), IsPrefix(s, t)
  PROVE  \E missing \in Seq(Token) : s \o missing = t
<1> DEFINE k == Len(s)
           n == Len(t)
<1>1. /\ k \in Nat /\ n \in Nat /\ k <= n
      /\ SubSeq(s, 1, k) = SubSeq(t, 1, k)
  BY LenProperties DEF IsPrefix
<1>2. SubSeq(s, 1, k) = s /\ SubSeq(t, 1, n) = t
  BY SubSeqFull
<1>3. /\ 1 \in 1 .. n + 1 /\ k \in 1 - 1 .. n /\ n \in k .. n
  BY <1>1
<1>4. SubSeq(t, 1, k) \o SubSeq(t, k + 1, n) = SubSeq(t, 1, n)
  <2> HIDE DEF k, n
  <2> QED
    BY <1>3, ConcatAdjacentSubSeq DEF n
<1>5. SubSeq(t, k + 1, n) \in Seq(Token)
  <2>1. \A i \in k + 1 .. n : t[i] \in Token
    BY <1>1, ElementOfSeq
  <2> QED
    BY <1>1, <2>1, SubSeqProperties
<1> QED
  BY <1>1, <1>2, <1>4, <1>5

(* At every step what has been read of a text that some tree begins with   *)
(* and what is left of it are the two parts of that tree's text, or the    *)
(* text has ended too early and has been refused.                          *)
THEOREM TrackKept == JsonSpec => []KeepsTrack
<1>1. JsonInit => KeepsTrack
  <2> SUFFICES ASSUME JsonInit, NEW root \in Trees, IsPrefix(source, Text(root))
               PROVE  Track(root)
    BY DEF KeepsTrack
  <2>1. source \in Seq(Token) /\ text = source
    BY InitInv DEF JsonInv, Read, JsonInit
  <2>2. Text(root) \in Seq(Token)
    BY TextFacts
  <2>3. PICK missing \in Seq(Token) : source \o missing = Text(root)
    BY <2>1, <2>2, PrefixRest
  <2>4. OnTrack(root, missing)
    BY <2>1, <2>3 DEF OnTrack, JsonInit
  <2> QED
    BY <2>3, <2>4 DEF Track
<1>2. JsonInv /\ KeepsTrack /\ [JsonNext]_jsonVars => KeepsTrack'
  BY TrackStep, SameSource DEF KeepsTrack
<1> QED
  BY ReaderInvariant, <1>1, <1>2, PTL DEF JsonSpec

-----------------------------------------------------------------------------
(***************************************************************************)
(* What the reading comes to.                                              *)
(***************************************************************************)
LEMMA OnItsTrack ==
  ASSUME JsonInv, KeepsTrack, NEW root \in Trees, IsPrefix(source, Text(root)), NamesDiffer[root]
  PROVE  PartOf(value, Value[root])
<1>1. PICK missing \in Seq(Token) :
        source \o missing = Text(root) /\ (OnTrack(root, missing) \/ OffTrack(root, missing))
  BY DEF KeepsTrack, Track
<1>2. CASE OnTrack(root, missing)
  <2>1. ValueType
    BY DEF JsonInv
  <2> QED
    BY <1>2, <2>1, TrackPart
<1>3. CASE OffTrack(root, missing)
  BY <1>3 DEF OffTrack
<1> QED
  BY <1>1, <1>2, <1>3

(* A text that is accepted has been read to the end of what it says.       *)
LEMMA EndOfTrack ==
  ASSUME JsonInv, expect = "nothing", NEW tree \in Trees, NEW missing \in Seq(Token),
         OnTrack(tree, missing) \/ OffTrack(tree, missing)
  PROVE  value = Value[tree] /\ text = << >> /\ missing = << >>
<1>1. OnTrack(tree, missing)
  BY DEF OffTrack
<1>2. ~InSpine(tree, missing)
  BY DEF InSpine, GoesOn
<1>3. value = Value[tree] /\ text \o missing = << >>
  BY <1>1, <1>2 DEF OnTrack
<1>4. text \in Seq(Token)
  BY DEF JsonInv, Read
<1> QED
  BY <1>3, <1>4, ConcatEqualIffEmpty

(***************************************************************************)
(* json_spirit accepts every text that comes whole, however deep it nests  *)
(* and however names repeat, and reads it to its end as what it says.      *)
(***************************************************************************)
THEOREM WholeIsRead == JsonSpec => []ReadsWhole
<1>1. JsonInv /\ KeepsTrack => ReadsWhole
  <2> SUFFICES ASSUME JsonInv, KeepsTrack, NEW tree \in Trees, Returned, source = Text(tree)
               PROVE  Accepted /\ value = Value[tree] /\ text = << >>
    BY DEF ReadsWhole
  <2>1. source \in Seq(Token) /\ Len(source) \in Nat
    BY LenProperties DEF JsonInv, Read
  <2>2. IsPrefix(source, Text(tree))
    BY <2>1 DEF IsPrefix
  <2>3. PICK missing \in Seq(Token) :
          source \o missing = Text(tree) /\ (OnTrack(tree, missing) \/ OffTrack(tree, missing))
    BY <2>2 DEF KeepsTrack, Track
  <2>4. missing = << >>
    BY <2>1, <2>3, ConcatSimplifications
  <2>5. OnTrack(tree, missing)
    BY <2>3, <2>4 DEF OffTrack
  <2>6. expect # "thrown"
    BY <2>5 DEF OnTrack, InSpine, GoesOn
  <2>7. expect = "nothing"
    BY <2>6 DEF Returned, Accepted
  <2> QED
    BY <2>3, <2>7, EndOfTrack DEF Accepted
<1> QED
  BY ReaderInvariant, TrackKept, <1>1, PTL

(***************************************************************************)
(* However deep a text nests and wherever between two tokens it is cut,    *)
(* read_range returns false.                                               *)
(***************************************************************************)
THEOREM CutRefused == JsonSpec => []CutIsRefused
<1>1. JsonInv /\ KeepsTrack => CutIsRefused
  <2> SUFFICES ASSUME JsonInv, KeepsTrack, NEW tree \in Trees,
                      IsPrefix(source, Text(tree)), source # Text(tree), expect = "nothing"
               PROVE  FALSE
    BY DEF CutIsRefused, IsStrictPrefix, Accepted
  <2>1. source \in Seq(Token)
    BY DEF JsonInv, Read
  <2>2. PICK missing \in Seq(Token) :
          source \o missing = Text(tree) /\ (OnTrack(tree, missing) \/ OffTrack(tree, missing))
    BY DEF KeepsTrack, Track
  <2>3. missing = << >>
    BY <2>2, EndOfTrack
  <2> QED
    BY <2>1, <2>2, <2>3, ConcatEmptySeq
<1> QED
  BY ReaderInvariant, TrackKept, <1>1, PTL

(***************************************************************************)
(* However short a text is cut, nothing is in the value, at any step of    *)
(* the reading, that the whole text does not say at the same place.        *)
(***************************************************************************)
THEOREM CutIsRead == JsonSpec => []CutIsPartial
<1>1. JsonInv /\ KeepsTrack => CutIsPartial
  BY OnItsTrack DEF CutIsPartial, PartOf
<1> QED
  BY ReaderInvariant, TrackKept, <1>1, PTL

(* A part of a value has fewer members, and what its steps add the whole   *)
(* value's add.                                                            *)
LEMMA MembersOfPart ==
  ASSUME NEW v, NEW w, PartOf(v, w), NEW path
  PROVE  Members(v, path) \subseteq Members(w, path)
BY DEF PartOf, Members, Children

LEMMA MetInPart ==
  ASSUME NEW v, NEW w, PartOf(v, w), NEW d, Met(v, d)
  PROVE  Met(w, d)
BY DEF PartOf, Met

LEMMA AddedByPart ==
  ASSUME NEW v, NEW w, PartOf(v, w), NEW S, NEW T,
         \A step \in S : MetBy(v, step) => step \in T
  PROVE  Added(v, S) \subseteq Added(w, T)
<1>1. \A step : MetBy(v, step) => MetBy(w, step)
  BY MetInPart DEF MetBy
<1> QED
  BY <1>1 DEF Added

LEMMA AtInPart ==
  ASSUME NEW v, NEW w, PartOf(v, w), NEW path, NEW members,
         \A d \in Strings(path, members) : Met(v, d)
  PROVE  \A m \in members : At(v, path, m) = At(w, path, m)
<1> SUFFICES ASSUME NEW m \in members
             PROVE  At(v, path, m) = At(w, path, m)
  OBVIOUS
<1>1. Met(v, Demand(Append(path, m), "string"))
  BY DEF Strings
<1> DEFINE p == Append(path, m)
<1>2. p \in DOMAIN v
  BY <1>1 DEF Met, Demand
<1>3. p \in DOMAIN w /\ v[p] = w[p]
  BY <1>2 DEF PartOf
<1> QED
  BY <1>2, <1>3 DEF At

LEMMA HoleOfPart ==
  ASSUME NEW v, NEW w, PartOf(v, w), NEW path, MetBy(v, HoleStep(v, path))
  PROVE  HoleStep(v, path) = HoleStep(w, path)
<1> DEFINE members == {"from_system_id", "to_system_id", "frigate_sized", "eol", "mass"}
<1>1. \A d \in Strings(path, members) : Met(v, d)
  BY DEF MetBy, HoleStep, Step
<1>2. \A m \in members : At(v, path, m) = At(w, path, m)
  <2> HIDE DEF members
  <2> QED
    BY <1>1, AtInPart
<1>3. /\ At(v, path, "from_system_id") = At(w, path, "from_system_id")
      /\ At(v, path, "to_system_id") = At(w, path, "to_system_id")
      /\ At(v, path, "frigate_sized") = At(w, path, "frigate_sized")
      /\ At(v, path, "eol") = At(w, path, "eol")
      /\ At(v, path, "mass") = At(w, path, "mass")
  BY <1>2
<1> QED
  BY <1>3, Zenon DEF HoleStep

LEMMA BridgeOfPart ==
  ASSUME NEW v, NEW w, PartOf(v, w), NEW path, MetBy(v, BridgeStep(v, path))
  PROVE  BridgeStep(v, path) = BridgeStep(w, path)
<1> DEFINE members == {"from_system_id", "to_system_id"}
<1>1. \A d \in Strings(path, members) : Met(v, d)
  BY DEF MetBy, BridgeStep, Step
<1>2. \A m \in members : At(v, path, m) = At(w, path, m)
  <2> HIDE DEF members
  <2> QED
    BY <1>1, AtInPart
<1>3. /\ At(v, path, "from_system_id") = At(w, path, "from_system_id")
      /\ At(v, path, "to_system_id") = At(w, path, "to_system_id")
  BY <1>2
<1> QED
  BY <1>3, Zenon DEF BridgeStep

LEMMA NameOfPart ==
  ASSUME NEW v, NEW w, PartOf(v, w), NEW path, MetBy(v, NameStep(v, path))
  PROVE  NameStep(v, path) = NameStep(w, path)
<1> DEFINE members == {"displayName"}
<1>1. \A d \in Strings(path, members) : Met(v, d)
  BY DEF MetBy, NameStep, Step
<1>2. \A m \in members : At(v, path, m) = At(w, path, m)
  <2> HIDE DEF members
  <2> QED
    BY <1>1, AtInPart
<1>3. At(v, path, "displayName") = At(w, path, "displayName")
  BY <1>2
<1> QED
  BY <1>3, Zenon DEF NameStep

LEMMA ExitOfPart ==
  ASSUME NEW v, NEW w, PartOf(v, w), NEW path, MetBy(v, ExitStep(v, path))
  PROVE  ExitStep(v, path) = ExitStep(w, path)
<1> DEFINE system == Append(path, "system")
           p == Append(system, "id")
<1>1. Met(v, Demand(p, "int"))
  BY DEF MetBy, ExitStep, Step
<1>2. p \in DOMAIN v
  BY <1>1 DEF Met, Demand
<1>3. p \in DOMAIN w /\ v[p] = w[p]
  BY <1>2 DEF PartOf
<1>4. At(v, system, "id") = At(w, system, "id")
  BY <1>2, <1>3 DEF At
<1> QED
  BY <1>4, Zenon DEF ExitStep

(***************************************************************************)
(* So the loaders make no connection, tag or name of a cut answer that the *)
(* whole answer does not have.                                             *)
(***************************************************************************)
THEOREM NothingInvented == JsonSpec => []CutNeverInvents
<1>1. ASSUME NEW v, NEW w, PartOf(v, w)
      PROVE  /\ Added(v, NovaWalk(v)) \subseteq Added(w, NovaWalk(w))
             /\ Added(v, NamesWalk(v)) \subseteq Added(w, NamesWalk(w))
             /\ Added(v, TheraWalk(v)) \subseteq Added(w, TheraWalk(w))
  <2>1. \A step \in NovaWalk(v) : MetBy(v, step) => step \in NovaWalk(w)
    <3> SUFFICES ASSUME NEW step \in NovaWalk(v), MetBy(v, step)
                 PROVE  step \in NovaWalk(w)
      OBVIOUS
    <3>1. CASE \E p \in Members(v, Holes) : step = HoleStep(v, p)
      BY <1>1, <3>1, HoleOfPart, MembersOfPart DEF NovaWalk
    <3>2. CASE \E p \in Members(v, Bridges) : step = BridgeStep(v, p)
      BY <1>1, <3>2, BridgeOfPart, MembersOfPart DEF NovaWalk
    <3> QED
      BY <3>1, <3>2 DEF NovaWalk
  <2>2. \A step \in NamesWalk(v) : MetBy(v, step) => step \in NamesWalk(w)
    BY <1>1, NameOfPart, MembersOfPart DEF NamesWalk
  <2>3. \A step \in TheraWalk(v) : MetBy(v, step) => step \in TheraWalk(w)
    BY <1>1, ExitOfPart, MembersOfPart DEF TheraWalk
  <2> QED
    BY <1>1, <2>1, <2>2, <2>3, AddedByPart
<1>2. JsonInv /\ KeepsTrack => CutNeverInvents
  BY <1>1, OnItsTrack DEF CutNeverInvents
<1> QED
  BY ReaderInvariant, TrackKept, <1>2, PTL
=============================================================================
