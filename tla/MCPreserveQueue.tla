--------------------------- MODULE MCPreserveQueue ---------------------------
(* Instances of PreserveQueue for TLC: anthropocene blocks whose cubes of  *)
(* radius 1 overlap, touch, or lie at the edge of the map.                 *)
EXTENDS PreserveQueue, TLC

Pos == INSTANCE MapPos WITH HalfSide <- 2048, BlockSide <- 16

World == {<<0, 0, 0>>, <<1, 0, -1>>, <<2, 2, 2>>, <<-2048, 2047, 0>>}
MCCube(p) == Pos!CubeAround(p, 1)
=============================================================================
