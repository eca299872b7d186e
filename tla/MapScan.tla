-------------------------------- MODULE MapScan --------------------------------
(***************************************************************************)
(* The scan that lists the map blocks to analyze: the region the command   *)
(* line asks for (main.cc, config.cc) and ProduceMapBlocks of the sqlite   *)
(* and the postgresql reader (src/lib/database/db-map-*.cc), which narrows *)
(* the world to the region first in SQL and then in C++.  Then the blocks  *)
(* are read, by LoadMapBlock of a consumer's own connection, while another *)
(* program may delete rows.  An sqlite statement may be bound only when it *)
(* is ready, before the first Step and after a Reset; SqliteStmt throws    *)
(* otherwise, and also when a step fails.  No reader catches an exception: *)
(* it ends the scan and the loading (what App does then is in App.tla).    *)
(***************************************************************************)
EXTENDS MapPos

CONSTANTS World,    \* the positions of the map blocks the world's database has
          Corners,  \* the positions the command line may name
          Deletable \* the positions whose rows may be deleted

ASSUME ScanAssumption == /\ World \subseteq MapBlockPoses
                         /\ Corners \subseteq MapBlockPoses
                         /\ Deletable \subseteq World

VARIABLES driver,    \* config_.driver_type
          option,    \* the arguments that choose the region
          min_pos,   \* config_.min_pos
          max_pos,   \* config_.max_pos
          rows,      \* the world's rows the statement has not stepped over
          produced,  \* the positions the callback was given
          scan,      \* "scanning" or "done"
          database,  \* the rows of the world's table `blocks'
          load_stmt, \* stmt_load_block_: "ready", "row" or "done"
          column,    \* the row it stands on, or <<>>
          loading,   \* the argument of LoadMapBlock, or <<>>
          loaded,    \* what it returned: a row or NotFound
          error      \* what was thrown: "none", by "bind", or by "read"

config == <<driver, option, min_pos, max_pos>>
load == <<load_stmt, column, loading, loaded, error>>
vars == <<config, rows, produced, scan, database, load>>

NotFound == <<>>

Options == [kind : {"all"}] \union [kind : {"pos"}, pos : Corners]
               \union [kind : {"range"}, min : Corners, max : Corners]

(* Faulty: --pos selects the block and the neighbours below it.            *)
Region_PosAndBelow(o) ==
    CASE o.kind = "all"   -> <<MinPos, MaxPos>>
      [] o.kind = "pos"   -> <<[i \in 1 .. 3 |-> o.pos[i] - 1],
                               [i \in 1 .. 3 |-> o.pos[i] + 1]>>
      [] o.kind = "range" -> <<o.min, o.max>>

(* The two corners the options set, before main sorts them.                *)
Region(o) ==
    CASE o.kind = "all"   -> <<MinPos, MaxPos>>
      [] o.kind = "pos"   -> <<o.pos, [i \in 1 .. 3 |-> o.pos[i] + 1]>>
      [] o.kind = "range" -> <<o.min, o.max>>

TypeOK ==
    /\ driver \in {"sqlite", "postgresql"}
    /\ option \in Options
    /\ min_pos \in MapBlockPoses
    /\ \A i \in 1 .. 3 : max_pos[i] \in Coords \union {HalfSide}
    /\ rows \subseteq World
    /\ produced \subseteq MapBlockPoses
    /\ scan \in {"scanning", "done"}
    /\ database \subseteq World
    /\ load_stmt \in {"ready", "row", "done"}
    /\ column \in World \union {<<>>}
    /\ loading \in produced \union {<<>>}
    /\ DOMAIN loaded \subseteq produced
    /\ \A p \in DOMAIN loaded : loaded[p] \in World \union {NotFound}
    /\ error \in {"none", "bind", "read"}

Init ==
    /\ driver \in {"sqlite", "postgresql"}
    /\ option \in Options
    /\ LET corners == sort(Region(option)[1], Region(option)[2])
       IN  min_pos = corners[1] /\ max_pos = corners[2]
    /\ rows = World
    /\ produced = {}
    /\ scan = "scanning"
    /\ database = World
    /\ load_stmt = "ready"
    /\ column = <<>>
    /\ loading = <<>>
    /\ loaded = <<>>
    /\ error = "none"

(* The rows the SQL statement selects: between two ids, or coordinate by   *)
(* coordinate.                                                             *)
Selected(p) ==
    IF driver = "sqlite"
    THEN MapBlockId(min_pos) <= MapBlockId(p) /\ MapBlockId(p) <= MapBlockId(max_pos)
    ELSE \A i \in 1 .. 3 : min_pos[i] <= p[i] /\ p[i] <= max_pos[i]

(* The position the reader makes of the row.                               *)
Decoded(p) == IF driver = "sqlite" THEN MapBlockPos(MapBlockId(p)) ELSE p

StepRow ==
    /\ scan = "scanning"
    /\ \E p \in rows :
         /\ Selected(p)
         /\ rows' = rows \ {p}
         /\ produced' = IF inside(Decoded(p), min_pos, max_pos)
                        THEN produced \union {Decoded(p)} ELSE produced
    /\ UNCHANGED <<config, scan, database, load>>

(* The sqlite reader resets stmt_load_block_ here, which is ready, and not *)
(* stmt_list_blocks_, which is not used again.                             *)
ScanEnd ==
    /\ scan = "scanning"
    /\ \A p \in rows : ~ Selected(p)
    /\ scan' = "done"
    /\ load_stmt' = "ready"
    /\ UNCHANGED <<config, rows, produced, database, column, loading, loaded, error>>

(* The other program.  Its writes wait for the end of a read.              *)
DeleteRow ==
    /\ scan = "done" /\ load_stmt # "row"
    /\ \E p \in Deletable \intersect database : database' = database \ {p}
    /\ UNCHANGED <<config, rows, produced, scan, load>>

Answer(p, row) == [q \in DOMAIN loaded \union {p} |-> IF q = p THEN row ELSE loaded[q]]

(* The rows `where pos = :pos', or the three coordinates, select.          *)
RowsAt(p) ==
    IF driver = "sqlite" THEN {q \in database : MapBlockId(q) = MapBlockId(p)}
    ELSE {q \in database : q = p}

Wanted == IF loading # <<>> THEN {} ELSE produced \ DOMAIN loaded

BindInt ==
    /\ scan = "done" /\ driver = "sqlite"
    /\ \E p \in Wanted :
         IF load_stmt = "ready" THEN loading' = p /\ UNCHANGED error
         ELSE error' = "bind" /\ UNCHANGED loading
    /\ UNCHANGED <<config, rows, produced, scan, database, load_stmt, column, loaded>>

Step ==
    /\ loading # <<>> /\ load_stmt = "ready"
    /\ \/ \E q \in RowsAt(loading) : load_stmt' = "row" /\ column' = q
       \/ RowsAt(loading) = {} /\ load_stmt' = "done" /\ UNCHANGED column
    /\ UNCHANGED <<config, rows, produced, scan, database, loading, loaded, error>>

(* sqlite3_step returns neither SQLITE_ROW nor SQLITE_DONE, or             *)
(* exec_prepared, which fetches all rows at once, throws.                  *)
Reading ==
    IF driver = "sqlite" THEN scan = "scanning" \/ (loading # <<>> /\ load_stmt = "ready")
    ELSE (scan = "scanning" /\ rows = World) \/ (scan = "done" /\ Wanted # {})

ReadFails ==
    /\ Reading
    /\ error' = "read"
    /\ UNCHANGED <<config, rows, produced, scan, database, load_stmt, column, loading,
                   loaded>>

(* Faulty: a statement that found no row needs no Reset.                   *)
Reset_RowOnly == load_stmt' = IF load_stmt = "row" THEN "ready" ELSE load_stmt

Reset == load_stmt' = "ready"

(* Returns the column of the row, or nullopt.                              *)
Return ==
    /\ loading # <<>> /\ load_stmt # "ready"
    /\ loaded' = Answer(loading, IF load_stmt = "row" THEN column ELSE NotFound)
    /\ Reset
    /\ column' = <<>>
    /\ loading' = <<>>
    /\ UNCHANGED <<config, rows, produced, scan, database, error>>

(* The postgresql reader asks in a transaction of its own.                 *)
LoadMapBlockPostgresql ==
    /\ scan = "done" /\ driver = "postgresql"
    /\ \E p \in Wanted :
          \/ \E q \in RowsAt(p) : loaded' = Answer(p, q)
          \/ RowsAt(p) = {} /\ loaded' = Answer(p, NotFound)
    /\ UNCHANGED <<config, rows, produced, scan, database, load_stmt, column,
                   loading, error>>

Terminated == /\ error # "none" \/ (scan = "done" /\ Wanted = {} /\ loading = <<>>)
              /\ UNCHANGED vars

Next == \/ error = "none" /\ ( \/ StepRow \/ ScanEnd
                               \/ DeleteRow
                               \/ BindInt \/ Step \/ Return
                               \/ LoadMapBlockPostgresql
                               \/ ReadFails )
        \/ Terminated

Spec == Init /\ [][Next]_vars

-----------------------------------------------------------------------------
(* Properties.                                                             *)

(* The scan produces the world's map blocks of the region, all of them and *)
(* nothing else: the id range of the SQL statement, which wraps around in  *)
(* x and y, leaves out no block of the box, and a position survives its    *)
(* way through the id.                                                     *)
RegionIsProduced ==
    scan = "done" => produced = {p \in World : inside(p, min_pos, max_pos)}

(* --pos examines the block it names and no neighbour of it.               *)
PosIsProduced ==
    scan = "done" /\ option.kind = "pos" => produced = World \intersect {option.pos}

(* The rows of the nodes table get keys of their own: NodePosId tells the  *)
(* nodes of all produced blocks apart, though the blocks' coordinates may  *)
(* be negative and the key only keeps the low bits of each (pos.h:131-138).*)
NodeKeysAreDistinct ==
    scan = "done" =>
      LET NodesOf(p) == {NodePos(MapBlockId(p), n) : n \in 0 .. NodesPerBlock - 1}
          nodes == UNION {NodesOf(p) : p \in produced}
      IN  /\ \A m, n \in nodes : NodePosId(m) = NodePosId(n) => m = n
          /\ \A p, q \in produced : p # q => NodesOf(p) \intersect NodesOf(q) = {}
          /\ \A p \in produced : \A n \in NodesOf(p) : BlockOfNode(n) = MapBlockId(p)

(* A block of the scan is loaded, and it is the block of its position, or  *)
(* it is not found because its row was deleted; no order of hits and       *)
(* misses brings a statement into a state where binding it fails.          *)
BlocksAreLoaded ==
    /\ error # "bind"
    /\ \A p \in DOMAIN loaded :
         loaded[p] = p \/ (loaded[p] = NotFound /\ p \notin database)

(* --max is the "Max mapblock to examine" (main.cc:51): a map block at the *)
(* corner is examined.                                                     *)
MaxBlockIsExamined ==
    scan = "done" /\ option.kind = "range" /\ option.max = max_pos =>
        {max_pos} \intersect World \subseteq produced
=============================================================================
