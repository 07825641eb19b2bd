-------------------------- MODULE SystemInfoProof --------------------------
(***************************************************************************)
(* The classification of systems, for any table of systems with securities *)
(* between -1.0 and 1.0, in whatever order its rows come.                  *)
(***************************************************************************)
EXTENDS SystemInfo, TLAPS

SystemOf(row) == [name |-> row.name, security |-> Tenths(row.security), type |-> TypeOfRow(row)]

(* What has been read is in systems, under its own number, and every name  *)
(* leads to a system of that name.                                         *)
InfoInv ==
  /\ unread \subseteq Rows
  /\ DOMAIN systems = {row.id : row \in Rows \ unread}
  /\ \A row \in Rows \ unread : systems[row.id] = SystemOf(row)
  /\ \A row \in Rows \ unread : Lower[row.name] \in DOMAIN sID
  /\ \A n \in DOMAIN sID : \E row \in Rows \ unread : sID[n] = row.id /\ Lower[row.name] = n

-----------------------------------------------------------------------------
(* Rounding goes to a tenth no further than half a tenth away. *)
LEMMA TenthsNear ==
  ASSUME NEW s \in -100 .. 100
  PROVE  Tenths(s) \in Int /\ Tenths(s) * 10 - s \in -5 .. 5
<1>1. CASE s \in RoundedDown
  BY <1>1, SMTT(30) DEF RoundedDown, Tenths
<1>2. CASE s \notin RoundedDown
  <2>1. Tenths(s) = (s + 5) \div 10
    BY <1>2 DEF Tenths
  <2> QED
    BY <2>1
<1> QED
  BY <1>1, <1>2

(* The classes are told apart by the tenths, Thera by its name. *)
LEMMA ClassOfTenths ==
  ASSUME NEW row \in Rows
  PROVE  /\ TypeOfRow(row) \in SystemType \ {""}
         /\ (TypeOfRow(row) = "Thera") = (row.name = "Thera")
         /\ row.name # "Thera" =>
              /\ (TypeOfRow(row) = "HS") = (Tenths(row.security) >= 5)
              /\ (TypeOfRow(row) = "LS") = (Tenths(row.security) \in 1 .. 4)
<1>1. Tenths(row.security) \in Int
  BY TenthsNear, RowsAssumption
<1> QED
  BY <1>1 DEF TypeOfRow, SystemType

LEMMA InfoInitInv == InfoInit => InfoInv
BY DEF InfoInit, InfoInv

LEMMA LoadRowInv ==
  ASSUME InfoInv, NEW row \in unread, LoadRow(row), unread' = unread \ {row}
  PROVE  InfoInv'
<1>1. row \in Rows /\ Rows \ unread' = (Rows \ unread) \cup {row}
  BY DEF InfoInv
<1>2. row.id \notin DOMAIN systems
  BY <1>1, RowsAssumption DEF InfoInv
<1>3. /\ DOMAIN systems' = DOMAIN systems \cup {row.id}
      /\ systems'[row.id] = SystemOf(row)
      /\ \A id \in DOMAIN systems : systems'[id] = systems[id]
  BY <1>2 DEF LoadRow, Inserted, SystemOf
<1>4. /\ DOMAIN sID' = DOMAIN sID \cup {Lower[row.name]}
      /\ \A n \in DOMAIN sID : sID'[n] = sID[n]
      /\ Lower[row.name] \notin DOMAIN sID => sID'[Lower[row.name]] = row.id
  BY DEF LoadRow, Inserted
<1>5. unread' \subseteq Rows /\ DOMAIN systems' = {r.id : r \in Rows \ unread'}
  BY <1>1, <1>3 DEF InfoInv
<1>6. \A r \in Rows \ unread' : systems'[r.id] = SystemOf(r)
  BY <1>1, <1>3 DEF InfoInv
<1>7. \A r \in Rows \ unread' : Lower[r.name] \in DOMAIN sID'
  BY <1>1, <1>4 DEF InfoInv
<1>8. ASSUME NEW n \in DOMAIN sID'
      PROVE  \E r \in Rows \ unread' : sID'[n] = r.id /\ Lower[r.name] = n
  <2>1. CASE n \in DOMAIN sID
    BY <2>1, <1>1, <1>4 DEF InfoInv
  <2>2. CASE n \notin DOMAIN sID
    BY <2>2, <1>1, <1>4
  <2> QED
    BY <2>1, <2>2
<1>9. (\A r \in Rows \ unread : SystemOf(r)' = SystemOf(r)) /\ SystemOf(row)' = SystemOf(row)
  BY DEF SystemOf
<1> QED
  BY <1>5, <1>6, <1>7, <1>8 DEF InfoInv

(* InfoInv holds however the rows come. *)
THEOREM RowsRead == InfoSpec => []InfoInv
<1>1. InfoInv /\ [InfoNext]_infoVars => InfoInv'
  <2> SUFFICES ASSUME InfoInv, [InfoNext]_infoVars PROVE InfoInv'
    OBVIOUS
  <2>1. CASE InfoNext
    BY <2>1, LoadRowInv DEF InfoNext
  <2>2. CASE UNCHANGED infoVars
    BY <2>2 DEF infoVars, InfoInv
  <2> QED
    BY <2>1, <2>2
<1> QED
  BY InfoInitInv, <1>1, PTL DEF InfoSpec

(* What the getters say of a row that has been read. *)
LEMMA ReadRow ==
  ASSUME InfoInv, NEW row \in Rows \ unread
  PROVE  /\ row.id \in DOMAIN systems
         /\ systems[row.id].name = row.name
         /\ systems[row.id].type = TypeOfRow(row)
         /\ GetSecurity(row.id) = Tenths(row.security)
         /\ GetType(row.id) = TypeOfRow(row)
<1>1. row.id \in DOMAIN systems /\ systems[row.id] = SystemOf(row)
  BY DEF InfoInv
<1>2. /\ SystemOf(row).name = row.name
      /\ SystemOf(row).type = TypeOfRow(row)
      /\ SystemOf(row).security = Tenths(row.security)
  BY DEF SystemOf
<1>3. GetSecurity(row.id) = systems[row.id].security /\ GetType(row.id) = systems[row.id].type
  BY <1>1 DEF GetSecurity, GetType
<1> QED
  BY <1>1, <1>2, <1>3

(* Whatever the table, every system is found by its name and by nothing    *)
(* that is not its name (SystemInfo's constructor and getSID).             *)
THEOREM NamesFound == InfoSpec => []NamesResolve
<1>1. InfoInv => NamesResolve
  <2> SUFFICES ASSUME InfoInv PROVE NamesResolve
    OBVIOUS
  <2>1. ASSUME NEW id \in DOMAIN systems
        PROVE  systems[id].type \in SystemType \ {""} /\ Lower[systems[id].name] \in DOMAIN sID
    <3>1. PICK row \in Rows \ unread : id = row.id
      BY DEF InfoInv
    <3>2. Lower[row.name] \in DOMAIN sID
      BY DEF InfoInv
    <3>3. systems[id].name = row.name /\ systems[id].type = TypeOfRow(row)
      BY <3>1, ReadRow
    <3> QED
      BY <3>2, <3>3, ClassOfTenths
  <2>2. ASSUME NEW n \in DOMAIN sID
        PROVE  sID[n] \in DOMAIN systems /\ Lower[systems[sID[n]].name] = n
    <3>1. PICK row \in Rows \ unread : sID[n] = row.id /\ Lower[row.name] = n
      BY DEF InfoInv
    <3> QED
      BY <3>1, ReadRow
  <2> QED
    BY <2>1, <2>2 DEF NamesResolve
<1> QED
  BY RowsRead, <1>1, PTL

(* Whatever the table, getHTMLColour and the classes agree on where high   *)
(* and low security begin.                                                 *)
THEOREM ColoursRight == InfoSpec => []ColourTellsClass
<1>1. InfoInv => ColourTellsClass
  <2> SUFFICES ASSUME InfoInv, NEW id \in DOMAIN systems, GetType(id) # "Thera"
               PROVE  /\ (GetHTMLColour(id) = "#O1DF3A") = (GetType(id) = "HS")
                      /\ (GetHTMLColour(id) = "#FF8000") = (GetType(id) = "LS")
    BY DEF ColourTellsClass
  <2>1. PICK row \in Rows \ unread : id = row.id
    BY DEF InfoInv
  <2>2. GetSecurity(id) = Tenths(row.security) /\ GetType(id) = TypeOfRow(row)
    BY <2>1, ReadRow
  <2>3. Tenths(row.security) \in Int
    BY TenthsNear, RowsAssumption
  <2>4. /\ (GetHTMLColour(id) = "#O1DF3A") = (Tenths(row.security) >= 5)
        /\ (GetHTMLColour(id) = "#FF8000") = (Tenths(row.security) \in 1 .. 4)
    BY <2>2, <2>3 DEF GetHTMLColour
  <2> QED
    BY <2>2, <2>4, ClassOfTenths
<1> QED
  BY RowsRead, <1>1, PTL

(* Whatever the table, the page shows a nearest tenth.                     *)
THEOREM SecurityRight == InfoSpec => []SecurityNearest
<1>1. InfoInv => SecurityNearest
  <2> SUFFICES ASSUME InfoInv, NEW row \in Rows \ unread
               PROVE  GetSecurity(row.id) * 10 - row.security \in -5 .. 5
    BY DEF SecurityNearest
  <2>1. GetSecurity(row.id) = Tenths(row.security)
    BY ReadRow
  <2> QED
    BY <2>1, TenthsNear, RowsAssumption
<1> QED
  BY RowsRead, <1>1, PTL
=============================================================================
