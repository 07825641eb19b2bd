---------------------------- MODULE MCSystemInfo ----------------------------
(***************************************************************************)
(* Systems at the borders between classes, with securities between two     *)
(* tenths; two names that differ in case only; Thera.                      *)
(***************************************************************************)
EXTENDS SystemInfo, TLC

Row(id, name, length, security) ==
  [id |-> id, name |-> name, length |-> length, security |-> security]

MCRows ==
  {Row(1, "Jita", 4, 95), Row(2, "Amamake", 7, 45), Row(3, "Rancer", 6, 44), Row(4, "Uedama", 6, 46),
   Row(5, "Tama", 4, 5), Row(6, "HED-GP", 6, 4), Row(7, "Skarkon", 7, -5), Row(8, "X-BV98", 6, -99),
   Row(9, "J105934", 7, -99), Row(10, "Thera", 5, -99), Row(11, "TAMA", 4, -95)}

MCLower ==
  "Jita" :> "jita" @@ "Amamake" :> "amamake" @@ "Rancer" :> "rancer" @@ "Uedama" :> "uedama"
    @@ "Tama" :> "tama" @@ "TAMA" :> "tama" @@ "HED-GP" :> "hed-gp" @@ "Skarkon" :> "skarkon"
    @@ "X-BV98" :> "x-bv98" @@ "J105934" :> "j105934" @@ "Thera" :> "thera"
=============================================================================
