----------------------------- MODULE LoadProof -----------------------------
(***************************************************************************)
(* addConnection keeps a star map well formed whatever connections come in *)
(* whatever order, repeated, reversed or from a system to itself; and what *)
(* loading a list of any length amounts to: the map is explained by the    *)
(* list, the first connection of two systems giving the tags.              *)
(***************************************************************************)
EXTENDS Sources, TLAPS, WellFoundedInduction

(* The neighbours of a system, none if the map lacks it. *)
Neighbours(vertices, s) == IF s \in DOMAIN vertices THEN DOMAIN vertices[s] ELSE {}

(***************************************************************************)
(* What addConnection leaves behind, vertex by vertex and edge by edge:    *)
(* the edges there were, with their tags, and one edge each way.           *)
(***************************************************************************)
Adds(new, vertices, from, to, tags) ==
  /\ DOMAIN new = DOMAIN vertices \cup {from, to}
  /\ \A s \in DOMAIN new :
       DOMAIN new[s] = Neighbours(vertices, s) \cup (IF s = from THEN {to} ELSE {})
                                               \cup (IF s = to THEN {from} ELSE {})
  /\ \A s \in DOMAIN vertices : \A t \in DOMAIN vertices[s] : new[s][t] = vertices[s][t]
  /\ to \notin Neighbours(vertices, from) => new[from][to] = {TypeOf[to]} \cup tags
  /\ from \notin Neighbours(vertices, to) => new[to][from] = {TypeOf[from]} \cup tags

LEMMA AddConnectionAdds ==
  ASSUME NEW vertices, NEW from, NEW to, NEW tags
  PROVE  Adds(AddConnection(vertices, from, to, tags), vertices, from, to, tags)
<1> DEFINE known == Insert(Insert(vertices, from, NoEntries), to, NoEntries)
           tos(s) == Neighbours(vertices, s)
           out == {TypeOf[to]} \cup tags
           back == {TypeOf[from]} \cup tags
           forth == [known EXCEPT ![from] = Insert(@, to, out)]
           new == AddConnection(vertices, from, to, tags)
<1>0. new = [forth EXCEPT ![to] = Insert(@, from, back)]
  BY DEF AddConnection, AddEdge
<1> HIDE DEF new
<1>1. DOMAIN known = DOMAIN vertices \cup {from, to}
  BY DEF Insert
<1>2. \A s \in DOMAIN known :
        /\ DOMAIN known[s] = tos(s)
        /\ s \in DOMAIN vertices => known[s] = vertices[s]
  BY DEF Insert, NoEntries, Neighbours
<1> HIDE DEF known, out, back
<1>3. DOMAIN forth = DOMAIN known /\ forth[from] = Insert(known[from], to, out)
      /\ \A s \in DOMAIN known : s # from => forth[s] = known[s]
  BY <1>1
<1> HIDE DEF forth
<1>4. \A s \in DOMAIN known : DOMAIN forth[s] = tos(s) \cup (IF s = from THEN {to} ELSE {})
  <2>1. DOMAIN forth[from] = DOMAIN known[from] \cup {to}
    BY <1>3 DEF Insert
  <2> QED
    BY <1>2, <1>3, <2>1
<1>5. DOMAIN new = DOMAIN known /\ new[to] = Insert(forth[to], from, back)
      /\ \A s \in DOMAIN known : s # to => new[s] = forth[s]
  BY <1>0, <1>1, <1>3
<1>6. \A s \in DOMAIN known :
        DOMAIN new[s] = tos(s) \cup (IF s = from THEN {to} ELSE {})
                               \cup (IF s = to THEN {from} ELSE {})
  <2>1. DOMAIN new[to] = DOMAIN forth[to] \cup {from}
    BY <1>5 DEF Insert
  <2> QED
    BY <1>1, <1>4, <1>5, <2>1
<1>7. \A s \in DOMAIN vertices : \A t \in DOMAIN vertices[s] : forth[s][t] = vertices[s][t]
  <2>1. \A t \in DOMAIN known[from] : forth[from][t] = known[from][t]
    BY <1>3 DEF Insert
  <2> QED
    BY <1>1, <1>2, <1>3, <2>1
<1>8. \A s \in DOMAIN vertices : \A t \in DOMAIN vertices[s] : new[s][t] = vertices[s][t]
  <2>1. \A t \in DOMAIN forth[to] : new[to][t] = forth[to][t]
    BY <1>5 DEF Insert
  <2>2. \A s \in DOMAIN vertices : s \in DOMAIN known /\ DOMAIN vertices[s] \subseteq DOMAIN forth[s]
    BY <1>1, <1>4 DEF Neighbours
  <2> QED
    BY <1>5, <1>7, <2>1, <2>2
<1>9. ASSUME to \notin tos(from) PROVE new[from][to] = out
  <2>1. forth[from][to] = out
    <3>1. to \notin DOMAIN known[from]
      BY <1>1, <1>2, <1>9
    <3> QED
      BY <1>3, <3>1 DEF Insert
  <2>2. CASE from # to
    BY <1>1, <1>5, <2>1, <2>2
  <2>3. CASE from = to
    <3>1. from \in DOMAIN forth[to]
      BY <1>1, <1>4, <2>3
    <3> QED
      BY <1>5, <2>1, <2>3, <3>1 DEF Insert
  <2> QED
    BY <2>2, <2>3
<1>10. ASSUME from \notin tos(to) PROVE new[to][from] = back
  <2>1. CASE from # to
    <3>1. from \notin DOMAIN forth[to]
      BY <1>1, <1>4, <1>10, <2>1
    <3> QED
      BY <1>5, <3>1 DEF Insert
  <2>2. CASE from = to
    BY <1>9, <1>10, <2>2 DEF out, back
  <2> QED
    BY <2>1, <2>2
<1> QED
  BY <1>1, <1>5, <1>6, <1>8, <1>9, <1>10 DEF out, back, new, Adds

(***************************************************************************)
(* The loaders may feed any connections in any order: the map they build   *)
(* stays one the search can rely on.  Every edge leads to a vertex, every  *)
(* connection can be flown both ways, and both directions are tagged alike *)
(* apart from the type of the far end.                                     *)
(***************************************************************************)
THEOREM ConnectionKeepsWellFormed ==
  ASSUME NEW vertices, WellFormed(vertices),
         NEW from \in System, NEW to \in System, NEW tags \in SUBSET ConnectionTag
  PROVE  WellFormed(AddConnection(vertices, from, to, tags))
<1> DEFINE new == AddConnection(vertices, from, to, tags)
<1>0. Adds(new, vertices, from, to, tags)
  BY AddConnectionAdds
<1> HIDE DEF new
<1>1. /\ DOMAIN new = DOMAIN vertices \cup {from, to}
      /\ \A s \in DOMAIN new :
           DOMAIN new[s] = Neighbours(vertices, s) \cup (IF s = from THEN {to} ELSE {})
                                                   \cup (IF s = to THEN {from} ELSE {})
      /\ \A s \in DOMAIN vertices : \A t \in DOMAIN vertices[s] : new[s][t] = vertices[s][t]
      /\ to \notin Neighbours(vertices, from) => new[from][to] = {TypeOf[to]} \cup tags
      /\ from \notin Neighbours(vertices, to) => new[to][from] = {TypeOf[from]} \cup tags
  BY <1>0 DEF Adds
<1>2. TypeOf[from] \in Tag /\ TypeOf[to] \in Tag /\ tags \subseteq Tag
  BY TypeAssumption DEF Tag
<1>3. to \in Neighbours(vertices, from) <=> from \in Neighbours(vertices, to)
  BY DEF WellFormed, Symmetric, Closed, Neighbours
<1>4. \A s \in DOMAIN new : \A t \in DOMAIN new[s] :
        \/ s \in DOMAIN vertices /\ t \in DOMAIN vertices[s]
        \/ s = from /\ t = to /\ to \notin Neighbours(vertices, from)
        \/ s = to /\ t = from /\ from \notin Neighbours(vertices, to)
  BY <1>1 DEF Neighbours
<1>5. IsVertexMap(new)
  <2>1. DOMAIN new \subseteq System
    BY <1>1 DEF WellFormed, IsVertexMap
  <2>2. ASSUME NEW s \in DOMAIN new, NEW t \in DOMAIN new[s]
        PROVE  t \in System /\ new[s][t] \subseteq Tag
    BY <1>1, <1>2, <1>4, <2>2 DEF WellFormed, IsVertexMap
  <2> QED
    BY <2>1, <2>2 DEF IsVertexMap
<1>6. Closed(new)
  BY <1>1, <1>4 DEF WellFormed, Closed
<1>7. Symmetric(new)
  <2>1. \A s, t \in DOMAIN vertices : t \in Neighbours(vertices, s) <=> s \in Neighbours(vertices, t)
    BY DEF WellFormed, Symmetric, Neighbours
  <2>2. \A s, t : t \in Neighbours(vertices, s) <=> s \in Neighbours(vertices, t)
    BY <2>1 DEF WellFormed, Closed, Neighbours
  <2> QED
    BY <1>1, <2>2 DEF Symmetric
<1>8. TaggedAlike(new)
  <2>1. ASSUME NEW s \in DOMAIN new, NEW t \in DOMAIN new[s]
        PROVE  /\ TypeOf[t] \in new[s][t]
               /\ new[s][t] \cup {TypeOf[s]} = new[t][s] \cup {TypeOf[t]}
    <3>1. CASE s \in DOMAIN vertices /\ t \in DOMAIN vertices[s]
      <4>1. t \in DOMAIN vertices /\ s \in DOMAIN vertices[t]
        BY <3>1 DEF WellFormed, Closed, Symmetric
      <4> QED
        BY <1>1, <3>1, <4>1 DEF WellFormed, TaggedAlike
    <3>2. CASE s = from /\ t = to /\ to \notin Neighbours(vertices, from)
      BY <1>1, <1>3, <3>2
    <3>3. CASE s = to /\ t = from /\ from \notin Neighbours(vertices, to)
      BY <1>1, <1>3, <3>3
    <3> QED
      BY <1>4, <2>1, <3>1, <3>2, <3>3
  <2> QED
    BY <2>1 DEF TaggedAlike
<1> QED
  BY <1>5, <1>6, <1>7, <1>8 DEF WellFormed, new

-----------------------------------------------------------------------------
Connections == [from : System, to : System, tags : SUBSET ConnectionTag]

(* The first connection of a and b in a list has these tags. *)
FirstHas(list, a, b, tags) ==
  \E i \in DOMAIN list :
    /\ Joins(list[i], a, b)
    /\ \A j \in 1 .. i - 1 : ~Joins(list[j], a, b)
    /\ tags = list[i].tags

Joined(list, a, b) == \E i \in DOMAIN list : Joins(list[i], a, b)

-----------------------------------------------------------------------------
LEMMA LeastNatural ==
  ASSUME NEW T \in SUBSET Nat, T # {}
  PROVE  \E x \in T : \A y \in T : x <= y
<1>1. PICK x \in T : \A y \in T : ~(<<y, x>> \in OpToRel(<, Nat))
  BY WFMin, NatLessThanWellFounded
<1>2. \A y \in T : ~(y < x)
  BY <1>1 DEF OpToRel
<1> QED
  BY <1>2

(* Induction up to n, by the least counterexample. *)
LEMMA UpTo ==
  ASSUME NEW n \in Nat, NEW good,
         0 \in good,
         \A i \in 0 .. n - 1 : i \in good => i + 1 \in good
  PROVE  \A i \in 0 .. n : i \in good
<1> DEFINE bad == {i \in 0 .. n : i \notin good}
<1> SUFFICES ASSUME bad # {} PROVE FALSE
  OBVIOUS
<1>1. PICK i \in bad : \A j \in bad : i <= j
  <2>1. bad \in SUBSET Nat
    OBVIOUS
  <2> HIDE DEF bad
  <2> QED
    BY <2>1, LeastNatural
<1>2. i # 0 /\ i - 1 \in 0 .. n - 1 /\ i - 1 \notin bad
  BY <1>1
<1> QED
  BY <1>1, <1>2

-----------------------------------------------------------------------------
(* The map after each connection of the list. *)
Stages(g, vertices, list, n) ==
  g = [i \in 0 .. n |->
         IF i = 0 THEN vertices
         ELSE AddConnection(g[i - 1], list[i].from, list[i].to, list[i].tags)]

LEMMA StagesExist ==
  ASSUME NEW vertices, NEW list, NEW n \in Nat
  PROVE  \E g : Stages(g, vertices, list, n)
<1> DEFINE good == {k \in 0 .. n : \E g : Stages(g, vertices, list, k)}
<1>1. 0 \in good
  <2>1. Stages([i \in 0 .. 0 |-> vertices], vertices, list, 0)
    BY DEF Stages
  <2> QED
    BY <2>1
<1>2. ASSUME NEW k \in 0 .. n - 1, k \in good
      PROVE  k + 1 \in good
  <2>1. PICK g : Stages(g, vertices, list, k)
    BY <1>2
  <2> DEFINE c == list[k + 1]
             next == AddConnection(g[k], c.from, c.to, c.tags)
             h == [i \in 0 .. k + 1 |-> IF i = k + 1 THEN next ELSE g[i]]
  <2>2. \A i \in 0 .. k : g[i] = IF i = 0 THEN vertices
          ELSE AddConnection(g[i - 1], list[i].from, list[i].to, list[i].tags)
    BY <2>1 DEF Stages
  <2>3. ASSUME NEW i \in 0 .. k + 1
        PROVE  h[i] = IF i = 0 THEN vertices
                      ELSE AddConnection(h[i - 1], list[i].from, list[i].to, list[i].tags)
    <3>1. CASE i = k + 1
      <4>1. h[i] = next /\ h[i - 1] = g[k] /\ i # 0
        BY <3>1
      <4> QED
        BY <3>1, <4>1
    <3>2. CASE i # k + 1 /\ i # 0
      <4>1. i \in 0 .. k /\ h[i] = g[i] /\ h[i - 1] = g[i - 1]
        BY <3>2
      <4> QED
        BY <2>2, <3>2, <4>1
    <3>3. CASE i = 0
      BY <2>2, <3>3
    <3> QED
      BY <3>1, <3>2, <3>3
  <2>4. Stages(h, vertices, list, k + 1)
    <3> HIDE DEF h, next
    <3>1. h = [i \in 0 .. k + 1 |-> h[i]]
      BY DEF h
    <3> QED
      BY <2>3, <3>1 DEF Stages
  <2> QED
    BY <2>4
<1> HIDE DEF good
<1>3. n \in good
  BY <1>1, <1>2, UpTo
<1> QED
  BY <1>3 DEF good

LEMMA LoadIsLastStage ==
  ASSUME NEW vertices, NEW list, Len(list) \in Nat
  PROVE  \E g : Stages(g, vertices, list, Len(list)) /\ Load(vertices, list) = g[Len(list)]
<1> DEFINE f == CHOOSE g : Stages(g, vertices, list, Len(list))
<1>1. Stages(f, vertices, list, Len(list))
  BY StagesExist
<1>2. Load(vertices, list) = f[Len(list)]
  BY DEF Load, Stages
<1> QED
  BY <1>1, <1>2
-----------------------------------------------------------------------------
(* Explains, entry by entry. *)
Says(list, m) ==
  /\ \A a : a \in DOMAIN m <=> \E i \in DOMAIN list : a = list[i].from \/ a = list[i].to
  /\ \A a \in DOMAIN m : \A b : b \in DOMAIN m[a] <=> b \in System /\ Joined(list, a, b)
  /\ \A a \in DOMAIN m : \A b \in DOMAIN m[a] :
       \E tags : FirstHas(list, a, b, tags) /\ m[a][b] = {TypeOf[b]} \cup tags

LEMMA ExplainsSays ==
  ASSUME NEW list, NEW m
  PROVE  Explains(list, m) <=> Says(list, m)
<1> DEFINE ends == UNION {{list[i].from, list[i].to} : i \in DOMAIN list}
<1>1. \A a : a \in ends <=> \E i \in DOMAIN list : a = list[i].from \/ a = list[i].to
  OBVIOUS
<1>2. DOMAIN m = ends <=>
        \A a : a \in DOMAIN m <=> \E i \in DOMAIN list : a = list[i].from \/ a = list[i].to
  <2> HIDE DEF ends
  <2> QED
    BY <1>1
<1>3. ASSUME NEW a \in DOMAIN m
      PROVE  DOMAIN m[a] = {b \in System : Joined(list, a, b)} <=>
             \A b : b \in DOMAIN m[a] <=> b \in System /\ Joined(list, a, b)
  OBVIOUS
<1>4. ASSUME NEW a \in DOMAIN m, NEW b \in DOMAIN m[a]
      PROVE  (\E tags : FirstHas(list, a, b, tags) /\ m[a][b] = {TypeOf[b]} \cup tags) <=>
             \E i \in DOMAIN list :
               /\ Joins(list[i], a, b)
               /\ \A j \in 1 .. i - 1 : ~Joins(list[j], a, b)
               /\ m[a][b] = {TypeOf[b]} \cup list[i].tags
  BY DEF FirstHas
<1>5. Explains(list, m) <=>
        /\ DOMAIN m = ends
        /\ \A a \in DOMAIN m :
             /\ DOMAIN m[a] = {b \in System : Joined(list, a, b)}
             /\ \A b \in DOMAIN m[a] :
                  \E i \in DOMAIN list :
                    /\ Joins(list[i], a, b)
                    /\ \A j \in 1 .. i - 1 : ~Joins(list[j], a, b)
                    /\ m[a][b] = {TypeOf[b]} \cup list[i].tags
  BY DEF Explains, Joined
<1> HIDE DEF ends
<1> QED
  BY <1>2, <1>3, <1>4, <1>5 DEF Says

Explained(list, m) == Says(list, m) /\ WellFormed(m)

(* A list after another one. *)
LEMMA JoinedInBoth ==
  ASSUME NEW s \in Seq(Connections), NEW t \in Seq(Connections), NEW a, NEW b
  PROVE  Joined(s \o t, a, b) <=> Joined(s, a, b) \/ Joined(t, a, b)
<1>1. ASSUME NEW i \in DOMAIN s PROVE i \in DOMAIN (s \o t) /\ (s \o t)[i] = s[i]
  OBVIOUS
<1>2. ASSUME NEW i \in DOMAIN t
      PROVE  Len(s) + i \in DOMAIN (s \o t) /\ (s \o t)[Len(s) + i] = t[i]
  OBVIOUS
<1>3. ASSUME NEW i \in DOMAIN (s \o t)
      PROVE  \/ i \in DOMAIN s /\ (s \o t)[i] = s[i]
             \/ i - Len(s) \in DOMAIN t /\ (s \o t)[i] = t[i - Len(s)]
  OBVIOUS
<1> QED
  BY <1>1, <1>2, <1>3 DEF Joined

LEMMA FirstInBoth ==
  ASSUME NEW s \in Seq(Connections), NEW t \in Seq(Connections), NEW a, NEW b, NEW tags
  PROVE  FirstHas(s \o t, a, b, tags) <=>
           \/ FirstHas(s, a, b, tags)
           \/ ~Joined(s, a, b) /\ FirstHas(t, a, b, tags)
<1>1. ASSUME FirstHas(s, a, b, tags) PROVE FirstHas(s \o t, a, b, tags)
  <2>1. PICK i \in DOMAIN s :
          Joins(s[i], a, b) /\ (\A j \in 1 .. i - 1 : ~Joins(s[j], a, b)) /\ tags = s[i].tags
    BY <1>1 DEF FirstHas
  <2>2. i \in DOMAIN (s \o t) /\ \A j \in 1 .. i : (s \o t)[j] = s[j]
    OBVIOUS
  <2> QED
    BY <2>1, <2>2 DEF FirstHas
<1>2. ASSUME ~Joined(s, a, b), FirstHas(t, a, b, tags) PROVE FirstHas(s \o t, a, b, tags)
  <2>1. PICK i \in DOMAIN t :
          Joins(t[i], a, b) /\ (\A j \in 1 .. i - 1 : ~Joins(t[j], a, b)) /\ tags = t[i].tags
    BY <1>2 DEF FirstHas
  <2>2. PICK k \in Nat : k = Len(s) + i
    OBVIOUS
  <2>3. k \in DOMAIN (s \o t) /\ (s \o t)[k] = t[i]
    BY <2>2
  <2>4. ASSUME NEW j \in 1 .. k - 1 PROVE ~Joins((s \o t)[j], a, b)
    <3>1. CASE j <= Len(s)
      <4>1. (s \o t)[j] = s[j] /\ j \in DOMAIN s
        BY <3>1, <2>2
      <4> QED
        BY <1>2, <4>1 DEF Joined
    <3>2. CASE j > Len(s)
      <4>1. PICK l \in Nat : l = j - Len(s)
        BY <3>2
      <4>2. (s \o t)[j] = t[l] /\ l \in 1 .. i - 1
        BY <3>2, <2>2, <4>1
      <4>3. ~Joins(t[l], a, b)
        BY <2>1, <4>2
      <4> QED
        BY <4>2, <4>3
    <3>3. j <= Len(s) \/ j > Len(s)
      OBVIOUS
    <3> QED
      BY <3>1, <3>2, <3>3
  <2> QED
    BY <2>1, <2>3, <2>4 DEF FirstHas
<1>3. ASSUME FirstHas(s \o t, a, b, tags)
      PROVE  FirstHas(s, a, b, tags) \/ (~Joined(s, a, b) /\ FirstHas(t, a, b, tags))
  <2>1. PICK i \in DOMAIN (s \o t) :
          /\ Joins((s \o t)[i], a, b)
          /\ \A j \in 1 .. i - 1 : ~Joins((s \o t)[j], a, b)
          /\ tags = (s \o t)[i].tags
    BY <1>3 DEF FirstHas
  <2>2. CASE i <= Len(s)
    <3>1. i \in DOMAIN s /\ \A j \in 1 .. i : (s \o t)[j] = s[j]
      BY <2>2
    <3> QED
      BY <2>1, <3>1 DEF FirstHas
  <2>3. CASE i > Len(s)
    <3>1. /\ i - Len(s) \in DOMAIN t /\ (s \o t)[i] = t[i - Len(s)]
          /\ \A j \in 1 .. i - Len(s) - 1 : (s \o t)[Len(s) + j] = t[j] /\ Len(s) + j \in 1 .. i - 1
          /\ \A j \in DOMAIN s : (s \o t)[j] = s[j] /\ j \in 1 .. i - 1
      BY <2>3
    <3> QED
      BY <2>1, <3>1 DEF FirstHas, Joined
  <2> QED
    BY <2>2, <2>3
<1> QED
  BY <1>1, <1>2, <1>3

(* There is one first. *)
LEMMA FirstIsOne ==
  ASSUME NEW s \in Seq(Connections), NEW a, NEW b, NEW t, NEW u,
         FirstHas(s, a, b, t), FirstHas(s, a, b, u)
  PROVE  t = u
<1>1. PICK i \in DOMAIN s :
        Joins(s[i], a, b) /\ (\A j \in 1 .. i - 1 : ~Joins(s[j], a, b)) /\ t = s[i].tags
  BY DEF FirstHas
<1>2. PICK k \in DOMAIN s :
        Joins(s[k], a, b) /\ (\A j \in 1 .. k - 1 : ~Joins(s[j], a, b)) /\ u = s[k].tags
  BY DEF FirstHas
<1>3. ~(i < k) /\ ~(k < i)
  BY <1>1, <1>2
<1>4. i = k
  BY <1>3
<1> QED
  BY <1>1, <1>2, <1>4

LEMMA FirstIsJoined ==
  ASSUME NEW s, NEW a, NEW b, NEW t, FirstHas(s, a, b, t)
  PROVE  Joined(s, a, b)
BY DEF FirstHas, Joined

-----------------------------------------------------------------------------
(* One more connection, in the list and in the map. *)
LEMMA AddExplained ==
  ASSUME NEW list \in Seq(Connections), NEW m, Explained(list, m), NEW c \in Connections
  PROVE  Explained(list \o <<c>>, AddConnection(m, c.from, c.to, c.tags))
<1> DEFINE new == AddConnection(m, c.from, c.to, c.tags)
           longer == list \o <<c>>
<1>1. /\ c.from \in System /\ c.to \in System /\ c.tags \in SUBSET ConnectionTag
      /\ <<c>> \in Seq(Connections)
  BY DEF Connections
<1>2. WellFormed(new)
  BY <1>1, ConnectionKeepsWellFormed DEF Explained
<1>3. Adds(new, m, c.from, c.to, c.tags)
  BY AddConnectionAdds
<1>4. \A a, b : Joined(<<c>>, a, b) <=> Joins(c, a, b)
  BY DEF Joined
<1>5. \A a, b : FirstHas(<<c>>, a, b, c.tags) <=> Joins(c, a, b)
  BY DEF FirstHas
<1>6. \A a, b : Joined(longer, a, b) <=> Joined(list, a, b) \/ Joins(c, a, b)
  BY <1>1, <1>4, JoinedInBoth
<1>7. ASSUME NEW a, NEW b, NEW tags
      PROVE  /\ FirstHas(list, a, b, tags) => FirstHas(longer, a, b, tags)
             /\ ~Joined(list, a, b) /\ Joins(c, a, b) => FirstHas(longer, a, b, c.tags)
  BY <1>1, <1>5, FirstInBoth
<1>8. \A a : (\E i \in DOMAIN longer : a = longer[i].from \/ a = longer[i].to) <=>
             (\E i \in DOMAIN list : a = list[i].from \/ a = list[i].to) \/ a \in {c.from, c.to}
  <2>1. /\ DOMAIN longer = DOMAIN list \cup {Len(list) + 1}
        /\ longer[Len(list) + 1] = c
        /\ \A i \in DOMAIN list : longer[i] = list[i]
    OBVIOUS
  <2> HIDE DEF longer
  <2> QED
    BY <2>1
<1>9. \A a, b : b \in Neighbours(m, a) <=> b \in System /\ Joined(list, a, b)
  <2>1. \A a, b : Joined(list, a, b) => a \in DOMAIN m
    BY DEF Explained, Says, Joined, Joins
  <2> QED
    BY <2>1 DEF Explained, Says, Neighbours
<1> HIDE DEF new, longer
<1>10. \A a : a \in DOMAIN new <=> \E i \in DOMAIN longer : a = longer[i].from \/ a = longer[i].to
  <2>1. DOMAIN new = DOMAIN m \cup {c.from, c.to}
    BY <1>3 DEF Adds
  <2>2. \A a : a \in DOMAIN m <=> \E i \in DOMAIN list : a = list[i].from \/ a = list[i].to
    BY DEF Explained, Says
  <2> QED
    BY <1>8, <2>1, <2>2
<1>11. ASSUME NEW a \in DOMAIN new
       PROVE  \A b : b \in DOMAIN new[a] <=> b \in System /\ Joined(longer, a, b)
  <2>1. DOMAIN new[a] = Neighbours(m, a) \cup (IF a = c.from THEN {c.to} ELSE {})
                                         \cup (IF a = c.to THEN {c.from} ELSE {})
    BY <1>3 DEF Adds
  <2>2. \A b : Joins(c, a, b) <=> (a = c.from /\ b = c.to) \/ (a = c.to /\ b = c.from)
    BY DEF Joins
  <2> QED
    BY <1>1, <1>6, <1>9, <2>1, <2>2
<1>12. ASSUME NEW a \in DOMAIN new, NEW b \in DOMAIN new[a]
       PROVE  \E tags : FirstHas(longer, a, b, tags) /\ new[a][b] = {TypeOf[b]} \cup tags
  <2>1. CASE b \in Neighbours(m, a)
    <3>1. a \in DOMAIN m /\ b \in DOMAIN m[a] /\ new[a][b] = m[a][b]
      BY <1>3, <2>1 DEF Adds, Neighbours
    <3>2. PICK tags : FirstHas(list, a, b, tags) /\ m[a][b] = {TypeOf[b]} \cup tags
      BY <3>1 DEF Explained, Says
    <3> QED
      BY <1>7, <3>1, <3>2
  <2>2. CASE b \notin Neighbours(m, a)
    <3>1. Joins(c, a, b) /\ ~Joined(list, a, b)
      BY <1>6, <1>9, <1>11, <2>2
    <3>2. new[a][b] = {TypeOf[b]} \cup c.tags
      BY <1>3, <2>2, <3>1 DEF Adds, Joins
    <3> QED
      BY <1>7, <3>1, <3>2
  <2> QED
    BY <2>1, <2>2
<1> QED
  BY <1>2, <1>10, <1>11, <1>12 DEF Explained, Says, new, longer

(* An empty map says what an empty list says. *)
LEMMA EmptyExplained == Explained(<< >>, NoEntries)
BY DEF Explained, Says, NoEntries, WellFormed, IsVertexMap, Closed, Symmetric, TaggedAlike

(* However many connections a list has, the loaded map is explained by what *)
(* explained the map before, and the list behind it.                        *)
THEOREM LoadExplained ==
  ASSUME NEW done \in Seq(Connections), NEW list \in Seq(Connections),
         NEW m, Explained(done, m)
  PROVE  Explained(done \o list, Load(m, list))
<1> DEFINE n == Len(list)
<1>1. PICK g : Stages(g, m, list, n) /\ Load(m, list) = g[n]
  BY LoadIsLastStage
<1>2. n \in Nat
  OBVIOUS
<1> DEFINE part(i) == done \o SubSeq(list, 1, i)
           good == {i \in 0 .. n : Explained(part(i), g[i])}
<1>3. 0 \in good
  <2>1. part(0) = done /\ g[0] = m
    BY <1>1 DEF Stages
  <2>2. Explained(part(0), g[0])
    BY <2>1
  <2> QED
    BY <1>2, <2>2
<1>4. ASSUME NEW i \in 0 .. n - 1, i \in good
      PROVE  i + 1 \in good
  <2> DEFINE c == list[i + 1]
  <2>1. i + 1 \in 0 .. n /\ i + 1 # 0 /\ (i + 1) - 1 = i /\ c \in Connections
    OBVIOUS
  <2>2. g[i + 1] = AddConnection(g[i], c.from, c.to, c.tags)
    BY <1>1, <2>1 DEF Stages
  <2>3. part(i + 1) = part(i) \o <<c>>
    OBVIOUS
  <2>4. part(i) \in Seq(Connections)
    OBVIOUS
  <2>5. Explained(part(i), g[i])
    BY <1>4
  <2> HIDE DEF part, c
  <2>6. Explained(part(i) \o <<c>>, AddConnection(g[i], c.from, c.to, c.tags))
    BY <2>1, <2>4, <2>5, AddExplained
  <2> QED
    BY <2>1, <2>2, <2>3, <2>6
<1>5. n \in good
  <2> HIDE DEF good, n, part
  <2>1. \A i \in 0 .. n - 1 : i \in good => i + 1 \in good
    BY <1>4
  <2>2. \A i \in 0 .. n : i \in good
    BY <1>2, <1>3, <2>1, UpTo
  <2>3. n \in 0 .. n
    BY <1>2
  <2> QED
    BY <2>2, <2>3
<1> HIDE DEF good, n
<1>6. part(n) = done \o list
  BY DEF n
<1> QED
  BY <1>1, <1>5, <1>6 DEF good
=============================================================================
