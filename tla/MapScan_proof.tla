----------------------------- MODULE MapScan_proof -----------------------------
(***************************************************************************)
(* Theorems about MapScan and the positions of MapPos, for a map and map   *)
(* blocks of any size, any world, any region and any rows that may be      *)
(* deleted.                                                                *)
(***************************************************************************)
EXTENDS MapScan, TLAPS

-----------------------------------------------------------------------------
(* Division of integers by a positive number: quotient and rest are        *)
(* unique.                                                                 *)

(* A positive multiple of n is no smaller than n.                          *)
LEMMA MultipleAtLeast ==
    ASSUME NEW n \in Nat, NEW d \in Int, d >= 1 PROVE n * d >= n
OBVIOUS

LEMMA DivModOf ==
    ASSUME NEW a \in Int, NEW n \in Nat \ {0}
    PROVE  /\ a \div n \in Int /\ a % n \in 0 .. n - 1
           /\ a = n * (a \div n) + (a % n)
OBVIOUS

LEMMA DivisionIsUnique ==
    ASSUME NEW n \in Nat, NEW q \in Int, NEW k \in Int,
           NEW r \in 0 .. n - 1, NEW s \in 0 .. n - 1, n * q + r = n * k + s
    PROVE  q = k /\ r = s
<1>1. n * (q - k) = s - r
  OBVIOUS
<1>2. ~ (q - k >= 1)
  BY <1>1, MultipleAtLeast
<1>3. n * (k - q) = r - s
  OBVIOUS
<1>4. ~ (k - q >= 1)
  BY <1>3, MultipleAtLeast
<1>5. q = k
  BY <1>2, <1>4
<1> QED BY <1>5

LEMMA DivModUnique ==
    ASSUME NEW n \in Nat \ {0}, NEW q \in Int, NEW r \in 0 .. n - 1
    PROVE  (n * q + r) \div n = q /\ (n * q + r) % n = r
<1> DEFINE a == n * q + r
<1>0. a \in Int
  OBVIOUS
<1> HIDE DEF a
<1>1. /\ a \div n \in Int /\ a % n \in 0 .. n - 1
      /\ a = n * (a \div n) + (a % n)
  BY <1>0, DivModOf
<1>2. a = n * q + r
  BY DEF a
<1>3. n * (a \div n) + (a % n) = n * q + r
  BY <1>1, <1>2
<1>4. a \div n = q /\ a % n = r
  BY <1>1, <1>3, DivisionIsUnique
<1> QED BY <1>4 DEF a

-----------------------------------------------------------------------------
(* The id of a map block (pos.h): the low coordinate and the rest of an id,*)
(* whose signs and whose multiples of Side the code treats case by case.   *)

LEMMA SideIsPositive == Side \in Nat \ {0} /\ Side = 2 * HalfSide /\ HalfSide \in Nat \ {0}
BY MapPosAssumption DEF Side

(* unsigned_to_signed after pythonmodulo finds the coordinate, though      *)
(* pythonmodulo of a negative multiple of Side is Side and not 0.          *)
LEMMA LowCoordOfSum ==
    ASSUME NEW k \in Int, NEW c \in Coords
    PROVE  LowCoord(Side * k + c) = c
<1> DEFINE id == Side * k + c
           m == pythonmodulo(id, Side)
<1>0. /\ Side \in Nat \ {0} /\ Side = 2 * HalfSide /\ HalfSide \in Nat \ {0}
      /\ c \in Int /\ -HalfSide <= c /\ c <= HalfSide - 1
  BY SideIsPositive DEF Coords
<1>1. id \in Int
  BY <1>0
<1>2. CASE id >= 0 /\ c >= 0
  <2>1. c \in 0 .. Side - 1
    BY <1>0, <1>2
  <2>2. m = c
    BY <1>0, <1>2, <2>1, DivModUnique DEF pythonmodulo
  <2> QED BY <1>0, <1>2, <2>2 DEF LowCoord, unsigned_to_signed
<1>3. CASE id >= 0 /\ c < 0
  <2>1. c + Side \in 0 .. Side - 1 /\ k - 1 \in Int
    BY <1>0, <1>3
  <2>2. id = Side * (k - 1) + (c + Side)
    BY <1>0
  <2>3. id % Side = c + Side
    <3>1. (Side * (k - 1) + (c + Side)) % Side = c + Side
      BY <1>0, <2>1, DivModUnique
    <3> QED BY ONLY <2>2, <3>1
  <2>4. m = c + Side
    BY <1>3, <2>3 DEF pythonmodulo
  <2> QED BY <1>0, <2>4 DEF LowCoord, unsigned_to_signed
<1>4. CASE id < 0 /\ c <= 0
  <2>1. -c \in 0 .. Side - 1 /\ -k \in Int
    BY <1>0, <1>4
  <2>2. -id = Side * (-k) + (-c)
    BY <1>0
  <2>3. (-id) % Side = -c
    <3>1. (Side * (-k) + (-c)) % Side = -c
      BY <1>0, <2>1, DivModUnique
    <3> QED BY ONLY <2>2, <3>1
  <2>4. m = Side + c
    BY <1>0, <1>1, <1>4, <2>3 DEF pythonmodulo
  <2> QED BY <1>0, <2>4 DEF LowCoord, unsigned_to_signed
<1>5. CASE id < 0 /\ c > 0
  <2>1. Side - c \in 0 .. Side - 1 /\ -k - 1 \in Int
    BY <1>0, <1>5
  <2>2. -id = Side * (-k - 1) + (Side - c)
    BY <1>0
  <2>3. (-id) % Side = Side - c
    <3>1. (Side * (-k - 1) + (Side - c)) % Side = Side - c
      BY <1>0, <2>1, DivModUnique
    <3> QED BY ONLY <2>2, <3>1
  <2>4. m = c
    BY <1>0, <1>1, <1>5, <2>3 DEF pythonmodulo
  <2> QED BY <1>0, <1>5, <2>4 DEF LowCoord, unsigned_to_signed
<1> QED BY <1>0, <1>1, <1>2, <1>3, <1>4, <1>5

(* The division is exact, so that C++ rounds nothing.                      *)
LEMMA DropCoordOfSum ==
    ASSUME NEW k \in Int, NEW c \in Coords
    PROVE  DropCoord(Side * k + c) = k
<1>0. Side \in Nat \ {0} /\ c \in Int
  BY SideIsPositive DEF Coords
<1>1. DropCoord(Side * k + c) = Quotient(Side * k, Side)
  <2>1. (Side * k + c) - c = Side * k
    BY <1>0
  <2> QED BY <2>1, LowCoordOfSum DEF DropCoord
<1>2. CASE Side * k >= 0
  <2>1. (Side * k + 0) \div Side = k
    BY <1>0, DivModUnique
  <2> QED BY <1>0, <1>1, <1>2, <2>1 DEF Quotient
<1>3. CASE Side * k < 0
  <2>1. (Side * (-k) + 0) \div Side = -k
    BY <1>0, DivModUnique
  <2>2. -(Side * k) = Side * (-k) + 0
    BY <1>0
  <2> QED BY <1>0, <1>1, <1>3, <2>1, <2>2 DEF Quotient
<1> QED BY <1>0, <1>2, <1>3

(* MapBlockPos(int64_t) inverts MapBlockId().                              *)
THEOREM PosSurvivesItsId == \A p \in MapBlockPoses : MapBlockPos(MapBlockId(p)) = p
<1> SUFFICES ASSUME NEW p \in MapBlockPoses PROVE MapBlockPos(MapBlockId(p)) = p
  OBVIOUS
<1>0. Side \in Nat \ {0} /\ Coords \subseteq Int
  BY SideIsPositive DEF Coords
<1>1. /\ p[1] \in Coords /\ p[2] \in Coords /\ p[3] \in Coords
      /\ p = <<p[1], p[2], p[3]>>
  BY DEF MapBlockPoses
<1> DEFINE high == Side * p[3] + p[2]
           id == MapBlockId(p)
<1>2. high \in Int
  BY <1>0, <1>1
<1>3. id = Side * high + p[1]
  BY <1>0, <1>1 DEF MapBlockId, block_as_int
<1>4. LowCoord(id) = p[1] /\ DropCoord(id) = high
  BY <1>1, <1>2, <1>3, LowCoordOfSum, DropCoordOfSum
<1>5. LowCoord(high) = p[2] /\ DropCoord(high) = p[3]
  BY <1>0, <1>1, LowCoordOfSum, DropCoordOfSum
<1>6. LowCoord(p[3]) = p[3]
  <2>1. Side * 0 + p[3] = p[3]
    BY <1>0, <1>1
  <2> QED BY <1>1, <2>1, LowCoordOfSum
<1> QED BY <1>1, <1>4, <1>5, <1>6 DEF MapBlockPos

LEMMA IdsAreDistinct ==
    \A p, q \in MapBlockPoses : MapBlockId(p) = MapBlockId(q) => p = q
<1> SUFFICES ASSUME NEW p \in MapBlockPoses, NEW q \in MapBlockPoses,
                    MapBlockId(p) = MapBlockId(q)
             PROVE  p = q
  OBVIOUS
<1> QED BY PosSurvivesItsId

LEMMA ProductKeepsOrder ==
    ASSUME NEW s \in Nat, NEW a \in Int, NEW b \in Int, a <= b
    PROVE  s * a <= s * b
OBVIOUS

(* A box lies between the ids of its corners.                              *)
LEMMA IdKeepsOrder ==
    ASSUME NEW a, NEW b, \A i \in 1 .. 3 : a[i] \in Int /\ b[i] \in Int /\ a[i] <= b[i]
    PROVE  MapBlockId(a) <= MapBlockId(b)
<1>0. Side \in Nat /\ Side * Side \in Nat
  BY SideIsPositive
<1>1. /\ a[1] \in Int /\ a[2] \in Int /\ a[3] \in Int
      /\ b[1] \in Int /\ b[2] \in Int /\ b[3] \in Int
      /\ a[1] <= b[1] /\ a[2] <= b[2] /\ a[3] <= b[3]
  OBVIOUS
<1>2. Side * a[2] <= Side * b[2] /\ (Side * Side) * a[3] <= (Side * Side) * b[3]
  BY <1>0, <1>1, ProductKeepsOrder
<1> DEFINE ss == Side * Side
<1>3. ss * a[3] \in Int /\ ss * b[3] \in Int /\ Side * a[2] \in Int /\ Side * b[2] \in Int
  BY <1>0, <1>1
<1>4. a[3] * ss = ss * a[3] /\ b[3] * ss = ss * b[3] /\ a[2] * Side = Side * a[2] /\ b[2] * Side = Side * b[2]
  BY <1>0, <1>1
<1> QED BY <1>1, <1>2, <1>3, <1>4 DEF MapBlockId, block_as_int

-----------------------------------------------------------------------------
(* The nodes of a map block and their keys.                                *)

NodeCoords == -(HalfSide * BlockSide) .. HalfSide * BlockSide - 1

(* A node's coordinate is one of the BlockSide of its map block's.         *)
LEMMA NodeCoord ==
    ASSUME NEW c \in Coords, NEW d \in 0 .. BlockSide - 1
    PROVE  /\ c * BlockSide + d \in NodeCoords
           /\ (c * BlockSide + d) \div BlockSide = c
<1>0. /\ BlockSide \in Nat \ {0} /\ HalfSide \in Nat \ {0}
      /\ c \in Int /\ -HalfSide <= c /\ c + 1 <= HalfSide /\ d \in Int
  BY MapPosAssumption DEF Coords
<1>1. (BlockSide * c + d) \div BlockSide = c
  BY <1>0, DivModUnique
<1>2. BlockSide * (-HalfSide) <= BlockSide * c /\ BlockSide * (c + 1) <= BlockSide * HalfSide
  <2>1. -HalfSide \in Int /\ c + 1 \in Int /\ HalfSide \in Int /\ BlockSide \in Nat
    BY <1>0
  <2> QED BY <1>0, <2>1, ProductKeepsOrder
<1>3. c * BlockSide = BlockSide * c /\ BlockSide * (c + 1) = BlockSide * c + BlockSide
      /\ BlockSide * (-HalfSide) = -(HalfSide * BlockSide) /\ BlockSide * HalfSide = HalfSide * BlockSide
  BY <1>0
<1>4. c * BlockSide + d \in NodeCoords
  <2> DEFINE hb == HalfSide * BlockSide
             cb == c * BlockSide
  <2>1. hb \in Int /\ cb \in Int /\ -hb <= cb /\ cb + BlockSide <= hb
    BY <1>0, <1>2, <1>3
  <2> HIDE DEF hb, cb
  <2>2. cb + d \in -hb .. hb - 1
    BY <1>0, <2>1
  <2> QED BY <2>2 DEF hb, cb, NodeCoords
<1> QED BY <1>1, <1>3, <1>4

LEMMA NodePosOf ==
    ASSUME NEW p \in MapBlockPoses, NEW node \in 0 .. NodesPerBlock - 1
    PROVE  \E d \in (0 .. BlockSide - 1) \X (0 .. BlockSide - 1) \X (0 .. BlockSide - 1) :
             NodePos(MapBlockId(p), node) = <<p[1] * BlockSide + d[1], p[2] * BlockSide + d[2],
                                              p[3] * BlockSide + d[3]>>
<1>0. BlockSide \in Nat \ {0} /\ BlockSide * BlockSide \in Nat \ {0}
  BY MapPosAssumption
<1>1. NodesPerBlock \in Nat
  BY <1>0 DEF NodesPerBlock
<1>2. node \in Int
  BY <1>1
<1>3. node \div BlockSide \in Int /\ node \div (BlockSide * BlockSide) \in Int
  BY <1>0, <1>2, DivModOf
<1> DEFINE d == <<node % BlockSide, (node \div BlockSide) % BlockSide,
                  (node \div (BlockSide * BlockSide)) % BlockSide>>
<1>4. d \in (0 .. BlockSide - 1) \X (0 .. BlockSide - 1) \X (0 .. BlockSide - 1)
  BY <1>0, <1>2, <1>3, DivModOf
<1>5. MapBlockPos(MapBlockId(p)) = p
  BY PosSurvivesItsId
<1> QED BY <1>4, <1>5 DEF NodePos

LEMMA NodeIsOfItsBlock ==
    ASSUME NEW p \in MapBlockPoses, NEW node \in 0 .. NodesPerBlock - 1
    PROVE  /\ NodePos(MapBlockId(p), node) \in NodeCoords \X NodeCoords \X NodeCoords
           /\ BlockOfNode(NodePos(MapBlockId(p), node)) = MapBlockId(p)
<1>1. PICK d \in (0 .. BlockSide - 1) \X (0 .. BlockSide - 1) \X (0 .. BlockSide - 1) :
        NodePos(MapBlockId(p), node) = <<p[1] * BlockSide + d[1], p[2] * BlockSide + d[2],
                                         p[3] * BlockSide + d[3]>>
  BY NodePosOf
<1>2. /\ p[1] \in Coords /\ p[2] \in Coords /\ p[3] \in Coords
      /\ p = <<p[1], p[2], p[3]>>
  BY DEF MapBlockPoses
<1>3. d[1] \in 0 .. BlockSide - 1 /\ d[2] \in 0 .. BlockSide - 1 /\ d[3] \in 0 .. BlockSide - 1
  OBVIOUS
<1>4. /\ p[1] * BlockSide + d[1] \in NodeCoords /\ (p[1] * BlockSide + d[1]) \div BlockSide = p[1]
      /\ p[2] * BlockSide + d[2] \in NodeCoords /\ (p[2] * BlockSide + d[2]) \div BlockSide = p[2]
      /\ p[3] * BlockSide + d[3] \in NodeCoords /\ (p[3] * BlockSide + d[3]) \div BlockSide = p[3]
  BY <1>2, <1>3, NodeCoord
<1> QED BY <1>1, <1>2, <1>4 DEF BlockOfNode

(* A number of three digits in the base n.                                 *)
ThreeDigits(n, x, y, z) == x + y * n + z * (n * n)

LEMMA DigitsAreUnique ==
    ASSUME NEW n \in Nat,
           NEW x1 \in 0 .. n - 1, NEW x2 \in 0 .. n - 1, NEW x3 \in 0 .. n - 1,
           NEW y1 \in 0 .. n - 1, NEW y2 \in 0 .. n - 1, NEW y3 \in 0 .. n - 1,
           ThreeDigits(n, x1, x2, x3) = ThreeDigits(n, y1, y2, y3)
    PROVE  x1 = y1 /\ x2 = y2 /\ x3 = y3
<1> DEFINE u == n * x3 + x2
           v == n * y3 + y2
<1>1. u \in Int /\ v \in Int
  OBVIOUS
<1>2. n * u + x1 = n * v + y1
  BY DEF ThreeDigits
<1> HIDE DEF u, v
<1>3. u = v /\ x1 = y1
  BY <1>1, <1>2, DivisionIsUnique
<1>4. n * x3 + x2 = n * y3 + y2 /\ x3 \in Int /\ y3 \in Int
  BY <1>3 DEF u, v
<1>5. x3 = y3 /\ x2 = y2
  BY <1>4, DivisionIsUnique
<1> QED BY <1>3, <1>5

(* A field of the key loses nothing, negative coordinates included.        *)
LEMMA FieldKeepsCoord ==
    ASSUME NEW a \in NodeCoords, NEW b \in NodeCoords, a % NodeSide = b % NodeSide
    PROVE  a = b
<1> DEFINE hb == HalfSide * BlockSide
<1>0. hb \in Nat \ {0} /\ a \in Int /\ b \in Int
  BY MapPosAssumption DEF NodeCoords
<1>1. NodeSide = 2 * hb
  BY MapPosAssumption DEF NodeSide, Side
<1>2. -hb <= a /\ a < hb /\ -hb <= b /\ b < hb
  BY <1>0 DEF NodeCoords
<1> HIDE DEF hb
<1>3. NodeSide \in Nat \ {0}
  BY <1>0, <1>1
<1>4. /\ a \div NodeSide \in Int /\ a % NodeSide \in 0 .. NodeSide - 1
      /\ a = NodeSide * (a \div NodeSide) + (a % NodeSide)
      /\ b \div NodeSide \in Int /\ b % NodeSide \in 0 .. NodeSide - 1
      /\ b = NodeSide * (b \div NodeSide) + (b % NodeSide)
  BY <1>0, <1>3, DivModOf
<1> DEFINE r == a % NodeSide
           j == a \div NodeSide
           k == b \div NodeSide
<1>5. /\ r \in Int /\ j \in Int /\ k \in Int
      /\ a = NodeSide * j + r /\ b = NodeSide * k + r
  BY <1>4
<1> HIDE DEF r, j, k
<1>6. NodeSide * (j - k) = a - b /\ NodeSide * (k - j) = b - a
  BY <1>3, <1>5
<1>7. ~ (j - k >= 1) /\ ~ (k - j >= 1)
  <2>1. NodeSide \in Nat /\ j - k \in Int /\ k - j \in Int
    BY <1>3, <1>5
  <2>2. a - b < NodeSide /\ b - a < NodeSide
    BY <1>0, <1>1, <1>2
  <2>3. ASSUME j - k >= 1 PROVE FALSE
    <3>1. NodeSide * (j - k) >= NodeSide
      BY <2>1, <2>3, MultipleAtLeast
    <3> QED BY <1>0, <1>3, <1>6, <2>2, <3>1
  <2>4. ASSUME k - j >= 1 PROVE FALSE
    <3>1. NodeSide * (k - j) >= NodeSide
      BY <2>1, <2>4, MultipleAtLeast
    <3> QED BY <1>0, <1>3, <1>6, <2>2, <3>1
  <2> QED BY <2>3, <2>4
<1> QED BY <1>3, <1>5, <1>7

LEMMA NodeKeyIsUnique ==
    ASSUME NEW m \in NodeCoords \X NodeCoords \X NodeCoords,
           NEW n \in NodeCoords \X NodeCoords \X NodeCoords,
           NodePosId(m) = NodePosId(n)
    PROVE  m = n
<1>0. NodeSide \in Nat \ {0} /\ NodeCoords \subseteq Int
  <2>1. HalfSide * BlockSide \in Nat \ {0}
    BY MapPosAssumption
  <2>2. NodeSide = 2 * (HalfSide * BlockSide)
    BY MapPosAssumption DEF NodeSide, Side
  <2> QED BY <2>1, <2>2 DEF NodeCoords
<1>1. /\ m[1] \in NodeCoords /\ m[2] \in NodeCoords /\ m[3] \in NodeCoords
      /\ n[1] \in NodeCoords /\ n[2] \in NodeCoords /\ n[3] \in NodeCoords
      /\ m = <<m[1], m[2], m[3]>> /\ n = <<n[1], n[2], n[3]>>
  OBVIOUS
<1> DEFINE x1 == m[1] % NodeSide
           x2 == m[2] % NodeSide
           x3 == m[3] % NodeSide
           y1 == n[1] % NodeSide
           y2 == n[2] % NodeSide
           y3 == n[3] % NodeSide
<1>2. /\ x1 \in 0 .. NodeSide - 1 /\ x2 \in 0 .. NodeSide - 1 /\ x3 \in 0 .. NodeSide - 1
      /\ y1 \in 0 .. NodeSide - 1 /\ y2 \in 0 .. NodeSide - 1 /\ y3 \in 0 .. NodeSide - 1
  BY <1>0, <1>1, DivModOf
<1>3. ThreeDigits(NodeSide, x1, x2, x3) = ThreeDigits(NodeSide, y1, y2, y3)
  BY DEF ThreeDigits, NodePosId
<1> HIDE DEF x1, x2, x3, y1, y2, y3
<1>4. NodeSide \in Nat
  BY <1>0
<1>5. x1 = y1 /\ x2 = y2 /\ x3 = y3
  BY ONLY <1>2, <1>3, <1>4, DigitsAreUnique
<1>6. m[1] = n[1] /\ m[2] = n[2] /\ m[3] = n[3]
  BY <1>1, <1>5, FieldKeepsCoord DEF x1, x2, x3, y1, y2, y3
<1> QED BY <1>1, <1>6

-----------------------------------------------------------------------------
(* The inductive invariant.  The properties speak of the end of the scan;  *)
(* on the way, what is produced is what lies inside of the rows stepped    *)
(* over, and a statement that is not ready belongs to a call under way:    *)
(* it stands on the row of the call's position, or found none, and then    *)
(* the row is gone for good.                                               *)

(* min_pos and max_pos are the corners of the option, sorted.              *)
RegionIsSorted ==
    LET corners == sort(Region(option)[1], Region(option)[2])
    IN  min_pos = corners[1] /\ max_pos = corners[2]

ScanProgress ==
    /\ produced = {p \in World \ rows : inside(p, min_pos, max_pos)}
    /\ scan = "done" => \A p \in rows : ~ Selected(p)
    /\ scan = "scanning" => loading = <<>> /\ loaded = <<>>

StatementFollowsCall ==
    /\ load_stmt = "row" => loading # <<>> /\ column = loading
    /\ load_stmt = "done" => loading # <<>> /\ loading \notin database

IInv == TypeOK /\ RegionIsSorted /\ ScanProgress /\ StatementFollowsCall /\ BlocksAreLoaded

LEMMA PosIsNotEmpty == \A p \in MapBlockPoses : p # <<>>
BY DEF MapBlockPoses

LEMMA MadeFromCoords ==
    ASSUME NEW f, f = [i \in 1 .. 3 |-> f[i]], \A i \in 1 .. 3 : f[i] \in Coords
    PROVE  f \in MapBlockPoses
<1>1. f = <<f[1], f[2], f[3]>>
  OBVIOUS
<1> QED BY <1>1 DEF MapBlockPoses

LEMMA CoordsOf ==
    ASSUME NEW p \in MapBlockPoses
    PROVE  \A i \in 1 .. 3 : p[i] \in Coords /\ p[i] \in Int
<1>1. p[1] \in Coords /\ p[2] \in Coords /\ p[3] \in Coords
  BY DEF MapBlockPoses
<1>2. Coords \subseteq Int
  BY MapPosAssumption DEF Coords
<1>3. \A i \in 1 .. 3 : i = 1 \/ i = 2 \/ i = 3
  OBVIOUS
<1> QED BY <1>1, <1>2, <1>3

LEMMA OptionPoses ==
    ASSUME NEW o \in Options
    PROVE  /\ o.kind \in {"all", "pos", "range"}
           /\ o.kind = "pos" => o.pos \in MapBlockPoses
           /\ o.kind = "range" => o.min \in MapBlockPoses /\ o.max \in MapBlockPoses
BY ScanAssumption DEF Options

(* The corners before they are sorted.                                     *)
LEMMA RegionCoords ==
    ASSUME NEW o \in Options
    PROVE  \A i \in 1 .. 3 : /\ Region(o)[1][i] \in Coords
                             /\ Region(o)[2][i] \in Coords \union {HalfSide}
                             /\ o.kind # "pos" => Region(o)[2][i] \in Coords
                             /\ o.kind = "pos" => Region(o)[2][i] = Region(o)[1][i] + 1
<1>0. HalfSide \in Nat \ {0}
  BY MapPosAssumption
<1>1. CASE o.kind = "all"
  <2>1. Region(o)[1] = MinPos /\ Region(o)[2] = MaxPos
    BY <1>1 DEF Region
  <2>2. MinPos \in MapBlockPoses /\ MaxPos \in MapBlockPoses
    BY <1>0 DEF MinPos, MaxPos, MapBlockPoses, Coords
  <2> QED BY <1>1, <2>1, <2>2, CoordsOf
<1>2. CASE o.kind = "pos"
  <2>1. Region(o)[1] = o.pos /\ Region(o)[2] = [i \in 1 .. 3 |-> o.pos[i] + 1]
    BY <1>2 DEF Region
  <2>2. \A i \in 1 .. 3 : o.pos[i] \in Coords
    BY <1>2, OptionPoses, CoordsOf
  <2>3. \A c \in Coords : c + 1 \in Coords \union {HalfSide}
    BY <1>0 DEF Coords
  <2> QED BY <1>2, <2>1, <2>2, <2>3
<1>3. CASE o.kind = "range"
  <2>1. Region(o)[1] = o.min /\ Region(o)[2] = o.max
    BY <1>3 DEF Region
  <2> QED BY <1>3, <2>1, OptionPoses, CoordsOf
<1> QED BY <1>1, <1>2, <1>3, OptionPoses

(* The corners after: only --pos of a block at the map's edge makes one of *)
(* them HalfSide.                                                          *)
LEMMA SortedCorners ==
    ASSUME option \in Options, RegionIsSorted
    PROVE  /\ min_pos \in MapBlockPoses
           /\ \A i \in 1 .. 3 : max_pos[i] \in Coords \union {HalfSide}
           /\ option.kind = "pos" => \A i \in 1 .. 3 : /\ min_pos[i] = option.pos[i]
                                                      /\ max_pos[i] = option.pos[i] + 1
<1> DEFINE p == Region(option)[1]
           q == Region(option)[2]
<1>1. /\ min_pos = [i \in 1 .. 3 |-> Lesser(p[i], q[i])]
      /\ max_pos = [i \in 1 .. 3 |-> Greater(p[i], q[i])]
  BY DEF RegionIsSorted, sort
<1>2. \A i \in 1 .. 3 : /\ p[i] \in Coords /\ q[i] \in Coords \union {HalfSide}
                        /\ option.kind # "pos" => q[i] \in Coords
                        /\ option.kind = "pos" => q[i] = p[i] + 1
  BY RegionCoords
<1>3. option.kind = "pos" => p = option.pos
  BY DEF Region
<1> HIDE DEF p, q
<1>5. Coords \union {HalfSide} \subseteq Int
  BY MapPosAssumption DEF Coords
<1>6. ASSUME NEW i \in 1 .. 3
      PROVE  /\ min_pos[i] \in Coords /\ max_pos[i] \in Coords \union {HalfSide}
             /\ option.kind = "pos" => min_pos[i] = p[i] /\ max_pos[i] = p[i] + 1
  <2>1. min_pos[i] = Lesser(p[i], q[i]) /\ max_pos[i] = Greater(p[i], q[i])
    BY <1>1
  <2>2. p[i] \in Int /\ q[i] \in Int
    BY <1>2, <1>5
  <2> DEFINE a == p[i]
             b == q[i]
  <2>3. a \in Coords /\ b \in Coords \union {HalfSide} /\ a \in Int /\ b \in Int
        /\ (option.kind # "pos" => b \in Coords) /\ (option.kind = "pos" => b = a + 1)
    BY <1>2, <2>2
  <2> HIDE DEF a, b
  <2>4. Lesser(a, b) \in {a, b} /\ Greater(a, b) \in {a, b}
    BY DEF Lesser, Greater
  <2>5. option.kind = "pos" => Lesser(a, b) = a /\ Greater(a, b) = a + 1
    BY <2>3 DEF Lesser, Greater
  <2>6. min_pos[i] = Lesser(a, b) /\ max_pos[i] = Greater(a, b)
    BY <2>1 DEF a, b
  <2>7. min_pos[i] \in Coords
    BY <2>3, <2>4, <2>5, <2>6
  <2>8. max_pos[i] \in Coords \union {HalfSide}
    BY <2>3, <2>4, <2>6
  <2>9. option.kind = "pos" => min_pos[i] = p[i] /\ max_pos[i] = p[i] + 1
    BY <2>5, <2>6 DEF a
  <2> QED BY <2>7, <2>8, <2>9
<1>7. min_pos = [i \in 1 .. 3 |-> min_pos[i]]
  BY <1>1
<1> QED BY <1>3, <1>6, <1>7, MadeFromCoords

(* The reader makes the position of the row out of the row's id.           *)
LEMMA DecodedIsItself == \A p \in World : Decoded(p) = p
BY PosSurvivesItsId, ScanAssumption DEF Decoded

(* `where pos = :pos' selects the row of the position and no other.        *)
LEMMA RowsAtThePosition ==
    ASSUME database \subseteq World, NEW p \in MapBlockPoses
    PROVE  RowsAt(p) = database \intersect {p}
BY IdsAreDistinct, ScanAssumption DEF RowsAt

LEMMA InvInit == Init => IInv
<1> SUFFICES ASSUME Init PROVE IInv
  OBVIOUS
<1>1. RegionIsSorted
  BY DEF Init, RegionIsSorted
<1>2. min_pos \in MapBlockPoses /\ \A i \in 1 .. 3 : max_pos[i] \in Coords \union {HalfSide}
  BY <1>1, SortedCorners DEF Init
<1>3. DOMAIN loaded = {}
  BY DEF Init
<1>4. TypeOK
  BY <1>2, <1>3 DEF Init, TypeOK
<1>5. ScanProgress
  BY DEF Init, ScanProgress
<1>6. StatementFollowsCall
  BY DEF Init, StatementFollowsCall
<1>7. BlocksAreLoaded
  BY <1>3 DEF Init, BlocksAreLoaded
<1> QED BY <1>1, <1>4, <1>5, <1>6, <1>7 DEF IInv

(* An answer that is right when it is given stays right.                   *)
LEMMA AnswerKeepsLoaded ==
    ASSUME IInv, NEW p \in produced, NEW row \in World \union {NotFound},
           row = p \/ (row = NotFound /\ p \notin database),
           loaded' = Answer(p, row), UNCHANGED <<produced, database, error>>
    PROVE  /\ DOMAIN loaded' \subseteq produced'
           /\ \A q \in DOMAIN loaded' : loaded'[q] \in World \union {NotFound}
           /\ BlocksAreLoaded'
<1>1. /\ DOMAIN loaded' = DOMAIN loaded \union {p}
      /\ \A q \in DOMAIN loaded' : loaded'[q] = IF q = p THEN row ELSE loaded[q]
  BY DEF Answer
<1>2. /\ DOMAIN loaded \subseteq produced /\ error # "bind"
      /\ \A q \in DOMAIN loaded : loaded[q] \in World \union {NotFound}
      /\ \A q \in DOMAIN loaded :
            loaded[q] = q \/ (loaded[q] = NotFound /\ q \notin database)
  BY DEF IInv, TypeOK, BlocksAreLoaded
<1>3. \A q \in DOMAIN loaded' :
            loaded'[q] = q \/ (loaded'[q] = NotFound /\ q \notin database')
  BY <1>1, <1>2
<1>4. BlocksAreLoaded'
  BY <1>2, <1>3 DEF BlocksAreLoaded
<1> QED BY <1>1, <1>2, <1>4

LEMMA InvNext == IInv /\ [Next]_vars => IInv'
<1> SUFFICES ASSUME IInv, [Next]_vars PROVE IInv'
  OBVIOUS
<1> USE DEF config, load
<1>0. /\ TypeOK /\ RegionIsSorted /\ ScanProgress /\ StatementFollowsCall /\ BlocksAreLoaded
      /\ World \subseteq MapBlockPoses
  BY ScanAssumption DEF IInv
<1>1. produced \subseteq World
  BY <1>0 DEF ScanProgress
<1>2. \A p \in produced \union World : p # <<>> /\ p \in MapBlockPoses
  BY <1>0, <1>1, PosIsNotEmpty
<1>3. CASE StepRow
  <2>1. PICK p \in rows :
           /\ rows' = rows \ {p}
           /\ produced' = IF inside(Decoded(p), min_pos, max_pos)
                          THEN produced \union {Decoded(p)} ELSE produced
    BY <1>3 DEF StepRow
  <2>2. scan = "scanning" /\ UNCHANGED <<config, scan, database, load>>
    BY <1>3 DEF StepRow
  <2>3. p \in World /\ Decoded(p) = p
    BY <1>0, DecodedIsItself DEF TypeOK
  <2>4. produced' = {q \in World \ rows' : inside(q, min_pos, max_pos)}
    BY <1>0, <2>1, <2>3 DEF ScanProgress
  <2>5. produced \subseteq produced' /\ produced' \subseteq MapBlockPoses
    BY <1>0, <1>1, <2>1, <2>3
  <2>6. TypeOK'
    BY <1>0, <2>1, <2>2, <2>5 DEF TypeOK
  <2>7. ScanProgress'
    BY <1>0, <2>2, <2>4 DEF ScanProgress, inside
  <2> QED BY <1>0, <2>2, <2>6, <2>7 DEF IInv, RegionIsSorted, StatementFollowsCall, BlocksAreLoaded
<1>4. CASE ScanEnd
  <2>1. loading = <<>> /\ load_stmt' = "ready"
    BY <1>0, <1>4 DEF ScanEnd, ScanProgress
  <2>2. TypeOK'
    BY <1>0, <1>4 DEF TypeOK, ScanEnd
  <2>3. ScanProgress'
    BY <1>0, <1>4 DEF ScanProgress, ScanEnd, Selected, inside
  <2> QED BY <1>0, <1>4, <2>1, <2>2, <2>3
        DEF IInv, ScanEnd, RegionIsSorted, StatementFollowsCall, BlocksAreLoaded
<1>5. CASE DeleteRow
  <2>1. database' \subseteq database /\ load_stmt # "row"
        /\ UNCHANGED <<config, rows, produced, scan, load>>
    BY <1>5 DEF DeleteRow
  <2>2. TypeOK'
    BY <1>0, <2>1 DEF TypeOK
  <2>3. ScanProgress'
    BY <1>0, <2>1 DEF ScanProgress, Selected, inside
  <2>4. BlocksAreLoaded' /\ StatementFollowsCall'
    BY <1>0, <2>1 DEF BlocksAreLoaded, StatementFollowsCall
  <2> QED BY <1>0, <2>1, <2>2, <2>3, <2>4 DEF IInv, RegionIsSorted
<1>6. CASE BindInt
  <2>1. PICK p \in Wanted : IF load_stmt = "ready" THEN loading' = p /\ UNCHANGED error
                            ELSE error' = "bind" /\ UNCHANGED loading
    BY <1>6 DEF BindInt
  <2>2. loading = <<>> /\ p \in produced
    BY <2>1 DEF Wanted
  <2>3. load_stmt = "ready"
    BY <1>0, <2>2 DEF TypeOK, StatementFollowsCall
  <2>4. /\ scan = "done" /\ loading' = p /\ error' = error
        /\ UNCHANGED <<config, rows, produced, scan, database, load_stmt, column, loaded>>
    BY <1>6, <2>1, <2>3 DEF BindInt
  <2>5. TypeOK'
    BY <1>0, <2>2, <2>4 DEF TypeOK
  <2>6. ScanProgress'
    BY <1>0, <2>4 DEF ScanProgress, Selected, inside
  <2> QED BY <1>0, <2>3, <2>4, <2>5, <2>6 DEF IInv, RegionIsSorted, StatementFollowsCall, BlocksAreLoaded
<1>7. CASE Step
  <2>1. loading \in produced /\ loading \in MapBlockPoses /\ loading # <<>>
    BY <1>0, <1>2, <1>7 DEF Step, TypeOK
  <2>2. RowsAt(loading) = database \intersect {loading}
    BY <1>0, <2>1, RowsAtThePosition DEF TypeOK
  <2>3. UNCHANGED <<config, rows, produced, scan, database, loading, loaded, error>>
    BY <1>7 DEF Step
  <2>4. \/ load_stmt' = "row" /\ column' = loading /\ loading \in World
        \/ load_stmt' = "done" /\ loading \notin database /\ UNCHANGED column
    BY <1>0, <1>7, <2>2 DEF Step, TypeOK
  <2>5. TypeOK'
    BY <1>0, <2>3, <2>4 DEF TypeOK
  <2>6. ScanProgress'
    BY <1>0, <2>3 DEF ScanProgress, Selected, inside
  <2>7. StatementFollowsCall'
    BY <2>1, <2>3, <2>4 DEF StatementFollowsCall
  <2> QED BY <1>0, <2>3, <2>5, <2>6, <2>7 DEF IInv, RegionIsSorted, BlocksAreLoaded
<1>8. CASE Return
  <2> DEFINE row == IF load_stmt = "row" THEN column ELSE NotFound
  <2>1. loading \in produced /\ load_stmt \in {"row", "done"}
    BY <1>0, <1>8 DEF Return, TypeOK
  <2>2. row = loading \/ (row = NotFound /\ loading \notin database)
    BY <1>0, <2>1 DEF StatementFollowsCall
  <2>3. row \in World \union {NotFound}
    BY <1>1, <2>1, <2>2
  <2>4. /\ loaded' = Answer(loading, row) /\ load_stmt' = "ready" /\ column' = <<>> /\ loading' = <<>>
        /\ UNCHANGED <<config, rows, produced, scan, database, error>>
    BY <1>8 DEF Return, Reset
  <2> HIDE DEF row
  <2>5. /\ DOMAIN loaded' \subseteq produced'
        /\ \A q \in DOMAIN loaded' : loaded'[q] \in World \union {NotFound}
        /\ BlocksAreLoaded'
    BY <2>1, <2>2, <2>3, <2>4, AnswerKeepsLoaded
  <2>6. TypeOK'
    BY <1>0, <2>4, <2>5 DEF TypeOK
  <2>7. scan # "scanning"
    BY <1>0, <1>8 DEF Return, ScanProgress
  <2>8. ScanProgress'
    BY <1>0, <2>4, <2>7 DEF ScanProgress, Selected, inside
  <2> QED BY <1>0, <2>4, <2>5, <2>6, <2>8 DEF IInv, RegionIsSorted, StatementFollowsCall
<1>9. CASE LoadMapBlockPostgresql
  <2>1. PICK p \in Wanted : \/ \E q \in RowsAt(p) : loaded' = Answer(p, q)
                            \/ RowsAt(p) = {} /\ loaded' = Answer(p, NotFound)
    BY <1>9 DEF LoadMapBlockPostgresql
  <2>2. p \in produced /\ p \in World
    BY <1>1, <2>1 DEF Wanted
  <2>3. RowsAt(p) = database \intersect {p}
    BY <1>0, <2>2, RowsAtThePosition DEF TypeOK
  <2>4. PICK row \in World \union {NotFound} :
          /\ row = p \/ (row = NotFound /\ p \notin database)
          /\ loaded' = Answer(p, row)
    BY <2>1, <2>2, <2>3
  <2>5. scan = "done" /\ UNCHANGED <<config, rows, produced, scan, database, load_stmt, column,
                                     loading, error>>
    BY <1>9 DEF LoadMapBlockPostgresql
  <2>6. /\ DOMAIN loaded' \subseteq produced'
        /\ \A q \in DOMAIN loaded' : loaded'[q] \in World \union {NotFound}
        /\ BlocksAreLoaded'
    BY <2>2, <2>4, <2>5, AnswerKeepsLoaded
  <2>7. TypeOK'
    BY <1>0, <2>5, <2>6 DEF TypeOK
  <2>8. ScanProgress'
    BY <1>0, <2>5 DEF ScanProgress, Selected, inside
  <2> QED BY <1>0, <2>5, <2>6, <2>7, <2>8 DEF IInv, RegionIsSorted, StatementFollowsCall
<1>10. CASE ReadFails
  <2>1. error' = "read"
        /\ UNCHANGED <<config, rows, produced, scan, database, load_stmt, column, loading, loaded>>
    BY <1>10 DEF ReadFails
  <2>2. TypeOK'
    BY <1>0, <2>1 DEF TypeOK
  <2>3. ScanProgress'
    BY <1>0, <2>1 DEF ScanProgress, Selected, inside
  <2> QED BY <1>0, <2>1, <2>2, <2>3 DEF IInv, RegionIsSorted, StatementFollowsCall, BlocksAreLoaded
<1>11. CASE UNCHANGED vars
  <2>1. ScanProgress'
    BY <1>0, <1>11 DEF vars, ScanProgress, Selected, inside
  <2> QED BY <1>0, <1>11, <2>1
        DEF vars, IInv, TypeOK, RegionIsSorted, StatementFollowsCall, BlocksAreLoaded
<1> QED BY <1>3, <1>4, <1>5, <1>6, <1>7, <1>8, <1>9, <1>10, <1>11 DEF Next, Terminated

LEMMA InvHolds == Spec => []IInv
<1> QED BY InvInit, InvNext, PTL DEF Spec

(* Every variable keeps its type.                                          *)
THEOREM TypeCorrect == Spec => []TypeOK
<1>1. IInv => TypeOK
  BY DEF IInv
<1> QED BY <1>1, InvHolds, PTL

(* A consumer's LoadMapBlock never binds a statement that is not ready, and*)
(* what it returns is the block asked for or the truth that it is gone.    *)
THEOREM BlocksLoaded == Spec => []BlocksAreLoaded
<1>1. IInv => BlocksAreLoaded
  BY DEF IInv
<1> QED BY <1>1, InvHolds, PTL

-----------------------------------------------------------------------------
(* What the invariant says at the end of the scan.                         *)

(* The SQL of either reader leaves out no row of the region.               *)
LEMMA InsideIsSelected ==
    ASSUME IInv, NEW p \in World, inside(p, min_pos, max_pos)
    PROVE  Selected(p)
<1>1. /\ min_pos \in MapBlockPoses /\ p \in MapBlockPoses
      /\ \A i \in 1 .. 3 : max_pos[i] \in Coords \union {HalfSide}
  BY ScanAssumption DEF IInv, TypeOK
<1>2. Coords \union {HalfSide} \subseteq Int
  BY MapPosAssumption DEF Coords
<1>3. \A i \in 1 .. 3 : min_pos[i] \in Int /\ p[i] \in Int /\ max_pos[i] \in Int
  BY <1>1, <1>2, CoordsOf
<1>4. \A i \in 1 .. 3 : min_pos[i] <= p[i] /\ p[i] <= max_pos[i]
  BY <1>3 DEF inside
<1>5. MapBlockId(min_pos) <= MapBlockId(p) /\ MapBlockId(p) <= MapBlockId(max_pos)
  BY <1>3, <1>4, IdKeepsOrder
<1> QED BY <1>4, <1>5 DEF Selected

LEMMA ScanIsComplete == IInv => RegionIsProduced
<1> SUFFICES ASSUME IInv, scan = "done"
             PROVE  produced = {p \in World : inside(p, min_pos, max_pos)}
  BY DEF RegionIsProduced
<1>1. \A p \in rows : p \in World /\ ~ Selected(p)
  BY DEF IInv, TypeOK, ScanProgress
<1>2. \A p \in rows : ~ inside(p, min_pos, max_pos)
  BY <1>1, InsideIsSelected
<1> QED BY <1>2 DEF IInv, ScanProgress

LEMMA PosIsAlone == IInv => PosIsProduced
<1> SUFFICES ASSUME IInv, scan = "done", option.kind = "pos"
             PROVE  produced = World \intersect {option.pos}
  BY DEF PosIsProduced
<1> DEFINE b == option.pos
<1>1. b \in MapBlockPoses /\ World \subseteq MapBlockPoses
  BY OptionPoses, ScanAssumption DEF IInv, TypeOK
<1>2. \A i \in 1 .. 3 : min_pos[i] = b[i] /\ max_pos[i] = b[i] + 1
  BY SortedCorners DEF IInv, TypeOK
<1>3. ASSUME NEW p \in World PROVE inside(p, min_pos, max_pos) <=> p = b
  <2>1. \A i \in 1 .. 3 : p[i] \in Int /\ b[i] \in Int
    BY <1>1, CoordsOf
  <2>2. inside(p, min_pos, max_pos) <=> \A i \in 1 .. 3 : p[i] = b[i]
    BY <1>2, <2>1 DEF inside
  <2>3. p = <<p[1], p[2], p[3]>> /\ b = <<b[1], b[2], b[3]>>
    BY <1>1 DEF MapBlockPoses
  <2>4. (\A i \in 1 .. 3 : p[i] = b[i]) <=> p[1] = b[1] /\ p[2] = b[2] /\ p[3] = b[3]
    OBVIOUS
  <2> HIDE DEF b
  <2> QED BY <2>2, <2>3, <2>4
<1>4. produced = {p \in World : inside(p, min_pos, max_pos)}
  BY ScanIsComplete DEF RegionIsProduced
<1> HIDE DEF b
<1>5. produced = World \intersect {b}
  BY <1>3, <1>4
<1> QED BY <1>5 DEF b

LEMMA NodesAreDistinct == IInv => NodeKeysAreDistinct
<1> SUFFICES ASSUME IInv, scan = "done" PROVE NodeKeysAreDistinct
  BY DEF NodeKeysAreDistinct
<1> DEFINE NodesOf(p) == {NodePos(MapBlockId(p), n) : n \in 0 .. NodesPerBlock - 1}
           nodes == UNION {NodesOf(p) : p \in produced}
<1>1. \A p \in produced : p \in MapBlockPoses
  BY DEF IInv, TypeOK
<1>2. \A p \in produced : \A n \in NodesOf(p) :
         n \in NodeCoords \X NodeCoords \X NodeCoords /\ BlockOfNode(n) = MapBlockId(p)
  BY <1>1, NodeIsOfItsBlock
<1>3. \A m, n \in nodes : NodePosId(m) = NodePosId(n) => m = n
  BY <1>2, NodeKeyIsUnique
<1>4. \A p, q \in produced : p # q => NodesOf(p) \intersect NodesOf(q) = {}
  BY <1>1, <1>2, IdsAreDistinct
<1> QED BY <1>2, <1>3, <1>4 DEF NodeKeysAreDistinct

(* The scan, by either reader, produces the world's map blocks of the      *)
(* region, all of them and nothing else.                                   *)
THEOREM RegionProduced == Spec => []RegionIsProduced
<1> QED BY ScanIsComplete, InvHolds, PTL

(* --pos examines the map block it names and no other.                     *)
THEOREM PosProduced == Spec => []PosIsProduced
<1> QED BY PosIsAlone, InvHolds, PTL

(* All nodes of all produced map blocks have keys of their own in the table*)
(* of nodes, and a node's position tells its map block.                    *)
THEOREM NodeKeysDistinct == Spec => []NodeKeysAreDistinct
<1> QED BY NodesAreDistinct, InvHolds, PTL
=============================================================================
