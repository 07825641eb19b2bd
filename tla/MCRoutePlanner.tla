--------------------------- MODULE MCRoutePlanner ---------------------------
(***************************************************************************)
(* A sky of six systems for TLC: 1 and 3 are joined by a gate, 2 is the    *)
(* chain's home, 4 is a wormhole system nothing leads to, 5 is Thera, and  *)
(* 6 is one the chain has a name for and the database does not know.       *)
(***************************************************************************)
EXTENDS RoutePlanner

MCSystem == 1 .. 6
MCTypeOf == <<"HS", "JS", "LS", "JS", "Thera", "">>
MCJumps == << [from |-> 1, to |-> 3] >>
MCSIDOf == "jita" :> 1 @@ "j105934" :> 2 @@ "amamake" :> 3 @@ "j4" :> 4 @@ "thera" :> 5
MCLower == [name \in DOMAIN MCSIDOf \cup {"nova", "nowhere"} |-> name]
MCEncode == MCLower

(* What the chain may be: home opens on 3, or on 1 with a hole beside the  *)
(* gate from 1 to 3, or on 3 with a dying hole beside an exit of Thera.    *)
HomeTo(s, mass) == Hole(2, s, FALSE, FALSE, mass)

MCNovaAnswers ==
  {NovaData(<<HomeTo(3, "2")>>, << >>, 2 :> "home"),
   NovaData(<<HomeTo(1, "0"), Hole(3, 1, FALSE, TRUE, "1")>>, << >>, 2 :> "home" @@ 3 :> "exit"),
   NovaData(<<HomeTo(3, "0"), Hole(5, 1, TRUE, TRUE, "0")>>,
            << [from |-> 1, to |-> 2] >>, 2 :> "base" @@ 6 :> "lost")}

MCTheraAnswers == {TheraData(<<1>>), TheraData(<<3, 1>>)}

MCRequests ==
  {FaviconRequest,
   FormRequest("jita", "nova", {}),
   FormRequest("jita", "nova", {"Gate", "WH"}),
   LinkRequest(<< <<"start", "amamake">> >>),
   FormRequest("j4", "thera", {}),
   FormRequest("jita", "nowhere", {"Frigate"}),
   FormRequest("thera", "nova", {"EOL"})}

(***************************************************************************)
(* A smaller sky for the other run: the gate joins 1 and 4, the chain     *)
(* opens on either, and nothing leads to 3.                                *)
(***************************************************************************)
FewJumps == << [from |-> 1, to |-> 4] >>

FewNovaAnswers ==
  {NovaData(<<HomeTo(1, "0")>>, << >>, 2 :> "home"),
   NovaData(<<HomeTo(4, "0")>>, << >>, 2 :> "home" @@ 4 :> "exit")}

FewTheraAnswers == {TheraData(<<1>>)}

FewRequests ==
  {FaviconRequest, FormRequest("jita", "nova", {}), FormRequest("amamake", "thera", {}),
   FormRequest("jita", "nowhere", {})}
=============================================================================
