------------------------------ MODULE WorldData ------------------------------
(***************************************************************************)
(* What RunConsumer (src/app/consumer.cc) makes of one map block, as       *)
(* functions of the block: the rows it writes and the flags it records.    *)
(*                                                                         *)
(* A block is a record.  `kind' is "ok", "missing" (LoadMapBlock finds no  *)
(* row), "corrupt" (SerializationError) or "malformed" (remap_param0       *)
(* throws std::out_of_range, which nobody catches).  `names' are the names *)
(* of its name-id mapping, those before the error in a corrupt block.      *)
(* A block that is "ok" has the size of that mapping in ids (`mapped'),    *)
(* the name of its first node (`first'), and its nodes, each with its      *)
(* name, its owner ("" for none), whether it has an inventory list, be its *)
(* slots empty or not, and the items in the slots that are not empty.      *)
(***************************************************************************)
CONSTANTS Special,   \* the node names the pattern file selects (node_filter_)
          Cube(_)    \* the positions within preserve_radius of a position

NoName == ""   \* content id 0 and actor id 0

(* PreregisterContentIds                                                   *)
PreregisteredNames == {NoName, "ignore", "air"}
PreregisteredActors == {NoName}

(* LookupNodeExtraInfo(node.name).anthropocene                             *)
IsSpecial(node) == node.name \in Special
IsBones(node) == node.name = "bones::bones"

(* The nodes that get a row in the nodes table.  Minegeld is an item, so a *)
(* node with minegeld has an inventory.                                    *)
IsRecorded(node) ==
    node.has_inventory \/ IsBones(node) \/ node.owner # NoName \/ IsSpecial(node)

NodeRows(pos, block) ==
    {[pos |-> pos, node |-> node] : node \in {n \in block.nodes : IsRecorded(n)}}

(* Empty slots get no row.                                                 *)
ItemRows(row) == {[pos |-> row.pos, node |-> row.node, item |-> i] : i \in row.node.items}
InventoryRows(rows) == UNION {ItemRows(row) : row \in rows}

Owners(block) == {node.owner : node \in block.nodes}

IsAnthropocene(block) == \E node \in block.nodes : IsSpecial(node)

(* unique_content_ids() counts the ids of the mapping, not the names.      *)
Uniform(block) == IF block.mapped = 1 THEN block.first ELSE NoName

EmptyTables == [actor |-> {}, node |-> {}, nodes |-> {}, inventory |-> {}, blocks |-> {}]
=============================================================================
