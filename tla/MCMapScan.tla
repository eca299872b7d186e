------------------------------ MODULE MCMapScan ------------------------------
(* Instances of MapScan for TLC: a world four map blocks wide (Side = 4)   *)
(* and two nodes to a map block's side, so that negative coordinates, both *)
(* ends of an axis and multiples of Side all occur.                        *)
EXTENDS MapScan

SmallWorld == {<<-2, -2, -2>>, <<1, 1, 1>>, <<-1, 0, -2>>, <<0, -2, 1>>,
               <<1, -1, -1>>, <<-2, 0, 0>>, <<0, 1, 0>>, <<0, 0, -1>>, <<-1, -1, 0>>}
SmallCorners == {<<-2, -2, -2>>, <<1, 1, 1>>, <<-1, 0, -2>>, <<0, -2, 1>>, <<1, -1, 0>>}
SmallDeletable == {<<-1, 0, -2>>, <<-1, -1, 0>>}
=============================================================================
