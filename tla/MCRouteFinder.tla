--------------------------- MODULE MCRouteFinder ---------------------------
(***************************************************************************)
(* Small star maps for TLC.  They are built with AddConnection, as the     *)
(* loaders build theirs.                                                   *)
(***************************************************************************)
EXTENDS ConnectionsRoute, SequencesExt

MCSystem == 0 .. 4

(* Two classes of systems make the two directions of a hop weigh unlike. *)
MCTypeOf == <<"LS", "HS", "LS", "NS">> @@ (0 :> "HS")

(* A list of connections [from, to, tags], loaded in order. *)
Load(connections) ==
  FoldLeft(LAMBDA vertices, c : AddConnection(vertices, c.from, c.to, c.tags),
           NoEntries, connections)

Connection(a, b, tags) == [from |-> a, to |-> b, tags |-> tags]

(***************************************************************************)
(* Every pair of 0 .. 3 is unconnected, joined by a gate or joined by a    *)
(* wormhole at the end of its life, frigate-sized in the case of 0 and 3.  *)
(* System 4 is never connected, like a wormhole system Siggy knows no      *)
(* connection of.                                                          *)
(***************************************************************************)
Pairs == << <<0, 1>>, <<0, 2>>, <<0, 3>>, <<1, 2>>, <<1, 3>>, <<2, 3>> >>

Tags(p, kind) ==
  CASE kind = "gate" -> {"Gate"}
    [] kind = "hole" /\ p = <<0, 3>> -> {"WH", "Frigate"}
    [] OTHER -> {"WH", "EOL"}

(* kinds[i] says how the i-th pair is joined. *)
MapOf(kinds) ==
  Load(LET joined == SelectSeq(<<1, 2, 3, 4, 5, 6>>, LAMBDA i : kinds[i] # "none")
       IN  [j \in 1 .. Len(joined) |->
              LET p == Pairs[joined[j]] IN Connection(p[1], p[2], Tags(p, kinds[joined[j]]))])

AllMaps == {MapOf(kinds) : kinds \in [1 .. 6 -> {"none", "gate", "hole"}]}

MCAvoidSets == {{}, {"EOL", "Frigate"}, {"LS"}}

(* A frigate hole at the end of its life beside a way round through gates. *)
DyingFrigateHole ==
  {Load(<<Connection(0, 1, {"Gate"}), Connection(1, 2, {"Gate"}), Connection(2, 3, {"Gate"}),
          Connection(0, 3, {"WH", "Frigate", "EOL"})>>)}
=============================================================================
