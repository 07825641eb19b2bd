-------------------------- MODULE MCRequestParser --------------------------
(***************************************************************************)
(* Requests for TLC: every form one can submit with three boxes ticked or  *)
(* not, and every URI of up to three arguments out of nine, among them the *)
(* same name twice, arguments that do not split in two, and a box with a   *)
(* value no form sends.                                                    *)
(***************************************************************************)
EXTENDS RequestParser

MCSIDOf == "jita" :> 1 @@ "j105934" :> 2 @@ "old man star" :> 3

MCLower ==
  "Jita" :> "jita" @@ "jita" :> "jita" @@ "NOVA" :> "nova" @@ "nowhere" :> "nowhere"
  @@ "Old Man Star" :> "old man star" @@ "Old+Man+Star" :> "old+man+star"

PlainTyped == {"", "Jita", "jita", "NOVA", "nowhere"}

(* A form writes a space as '+', and nothing in the code turns it back.    *)
MCEncode ==
  [name \in PlainTyped \cup {"Old Man Star"} |->
     IF name = "Old Man Star" THEN "Old+Man+Star" ELSE name]

Arg ==
  {<<"start", "Jita">>, <<"start", "nowhere">>, <<"finish", "NOVA">>, <<"finish", "jita">>,
   <<"start">>, <<"wh", "WH">>, <<"wh", "JB">>, <<"hs", "HS">>, <<"hs", "HS", "HS">>}

Links == {LinkRequest(args) : args \in UNION {[1 .. n -> Arg] : n \in 0 .. 3}}

Forms(typed, boxes) ==
  {FormRequest(from, to, ticked) : from, to \in typed, ticked \in SUBSET boxes}

PlainRequests == {FaviconRequest} \cup Links \cup Forms(PlainTyped, {"WH", "Frigate", "HS"})

GateRequests == Forms(PlainTyped, {"Gate", "EOL", "WH"})

SpacedRequests == Forms({"Jita", "NOVA", "Old Man Star"}, {})
=============================================================================
