-------------------------------- MODULE MapPos --------------------------------
(***************************************************************************)
(* Positions of map blocks and nodes, and the integers that stand for them *)
(* in the databases (src/lib/map_reader/pos.h, pos.cc).  A position is a   *)
(* triple <<x, y, z>>.  The code's map is a cube with HalfSide = 2048 map  *)
(* blocks on either side of the origin, a map block one of 16 nodes; TLC   *)
(* computes with 32 bits and checks smaller maps.                          *)
(***************************************************************************)
EXTENDS Integers, Sequences

CONSTANTS HalfSide,   \* 2048: map block coordinates are -HalfSide..HalfSide-1
          BlockSide   \* 16: nodes per side of a map block

ASSUME MapPosAssumption == HalfSide \in Nat \ {0} /\ BlockSide \in Nat \ {0}

Side == 2 * HalfSide
Coords == -HalfSide .. HalfSide - 1
MapBlockPoses == Coords \X Coords \X Coords

MinPos == <<-HalfSide, -HalfSide, -HalfSide>>
MaxPos == <<HalfSide - 1, HalfSide - 1, HalfSide - 1>>

-----------------------------------------------------------------------------
(* Machine arithmetic.                                                     *)

Int16(n) == ((n + 32768) % 65536) - 32768

(* Division of C++ rounds towards zero.                                    *)
Quotient(a, b) == IF a >= 0 THEN a \div b ELSE -((-a) \div b)

unsigned_to_signed(i, maxPositive) ==
    IF i < maxPositive THEN i ELSE i - maxPositive * 2

(* What the code calls the modulo of python: for a negative multiple of    *)
(* mod it is mod, not 0.                                                   *)
pythonmodulo(i, mod) == IF i >= 0 THEN i % mod ELSE mod - ((-i) % mod)

-----------------------------------------------------------------------------
(* Map blocks.                                                             *)

block_as_int(p) == p[3] * (Side * Side) + p[2] * Side + p[1]

MapBlockId(p) == block_as_int(p)

(* The lowest coordinate of an id, and the id without it.                  *)
LowCoord(id) == unsigned_to_signed(pythonmodulo(id, Side), HalfSide)

(* Faulty: a negative coordinate's borrow is not given back.               *)
DropCoord_NoBorrow(id) == Quotient(id, Side)

DropCoord(id) == Quotient(id - LowCoord(id), Side)

MapBlockPos(id) == <<LowCoord(id), LowCoord(DropCoord(id)),
                     LowCoord(DropCoord(DropCoord(id)))>>

-----------------------------------------------------------------------------
(* Nodes: `node' counts the nodes of a map block, x first.                 *)

NodesPerBlock == BlockSide * BlockSide * BlockSide

NodePos(id, node) ==
    LET b == MapBlockPos(id)
    IN  <<b[1] * BlockSide + (node % BlockSide),
          b[2] * BlockSide + ((node \div BlockSide) % BlockSide),
          b[3] * BlockSide + ((node \div (BlockSide * BlockSide)) % BlockSide)>>

(* NodePos::MapBlockId; `>>' rounds down.                                  *)
BlockOfNode(n) == MapBlockId(<<n[1] \div BlockSide, n[2] \div BlockSide,
                               n[3] \div BlockSide>>)

(* The key of the nodes table: each coordinate masked to its own field.    *)
NodeSide == Side * BlockSide

(* Faulty: the coordinates are masked to the map blocks' bits.             *)
NodePosId_NarrowField(n) == (n[1] % Side) + (n[2] % Side) * NodeSide
                                + (n[3] % Side) * (NodeSide * NodeSide)

NodePosId(n) == (n[1] % NodeSide) + (n[2] % NodeSide) * NodeSide
                    + (n[3] % NodeSide) * (NodeSide * NodeSide)

-----------------------------------------------------------------------------
(* The region to analyze.                                                  *)

inside(p, a, b) == \A i \in 1 .. 3 : a[i] <= p[i] /\ p[i] < b[i]

Lesser(m, n) == IF m > n THEN n ELSE m
Greater(m, n) == IF m > n THEN m ELSE n

(* min_pos.sort(&max_pos): the pair of corners afterwards.                 *)
sort(p, q) == <<[i \in 1 .. 3 |-> Lesser(p[i], q[i])],
                [i \in 1 .. 3 |-> Greater(p[i], q[i])]>>

(* The positions DoMerge inserts for one anthropocene position.            *)
CubeAround(p, radius) ==
    LET Near(i) == {Int16(n) : n \in p[i] - radius .. p[i] + radius}
    IN  Near(1) \X Near(2) \X Near(3)
=============================================================================
