-------------------------------- MODULE MapBlock --------------------------------
(***************************************************************************)
(* Reading a map block (src/lib/map_reader/mapblock.cc and node.cc, with   *)
(* the checks of blob_reader.cc and blob_reader.h).                        *)
(*                                                                         *)
(* The data is a sequence of parts (see MapBlockFile).  A step reads one   *)
(* part and is a deserialize_ function or a field of the two formats.      *)
(* Positions count from 0.                                                 *)
(***************************************************************************)
EXTENDS Integers, Sequences, SequencesExt, MapBlockFile

VARIABLES file,             \* the kind and the nodes of the file that is read
          rest,             \* what the BlobReader has not read
          todo,             \* what is read next, in this order
          param0_map,       \* -1 where nothing was stored
          nodes,
          node_ids,         \* the names in IdMap, that with id i at i + 1
          outcome           \* "reading", "ok", "rejected", "aborted", or
                            \* "undefined" if anything may follow

vars == <<file, rest, todo, param0_map, nodes, node_ids, outcome>>
block == <<param0_map, nodes>>

NewNode == [param_0 |-> 0, metadata |-> <<>>, inventory |-> NoInventory]

Init == /\ \E f \in AllFiles : /\ file = [kind |-> f.kind, nodes |-> f.nodes]
                              /\ rest = f.blob
        /\ todo = <<"version">>
        /\ param0_map = <<>>
        /\ nodes = [i \in 0 .. NodesPerBlock - 1 |-> NewNode]
        /\ node_ids = Known
        /\ outcome = "reading"

Reject == /\ outcome' = "rejected"
          /\ UNCHANGED <<file, rest, todo, param0_map, nodes>>

Continue == /\ rest' = Tail(rest)
            /\ todo' = Tail(todo)
            /\ UNCHANGED <<file, outcome>>

\* The kind of data each part of a format is read from.
Kind(part) == CASE part \in {"nodes_28", "metadata_28"} -> "zlib"
                [] part = "nodes_29"                    -> "nodes"
                [] part = "metadata_29"                 -> "metadata"
                [] OTHER                                -> part

Due(part) == /\ outcome = "reading"
               /\ Head(todo) = part

\* part comes next and the data has it
Reading(part) == /\ Due(part)
                 /\ rest # <<>> /\ Head(rest).kind = Kind(part)

\* all entries of a counted list are there
Counted(list) == Len(list.entries) = list.count
-----------------------------------------------------------------------------
(* The formats.                                                            *)

Format28 == <<"header", "widths", "nodes_28", "metadata_28", "objects",
              "timestamp", "mapping", "timers", "remap", "verify">>

(* Faulty: the mapping is read where format 28 has it.                     *)
Format29_MappingLate ==
    <<"zstd", "header", "timestamp", "widths", "nodes_29", "metadata_29",
      "objects", "mapping", "timers", "verify", "remap", "verify">>

Format29 == <<"zstd", "header", "timestamp", "mapping", "widths", "nodes_29",
              "metadata_29", "objects", "timers", "verify", "remap", "verify">>

deserialize ==
    /\ Reading("version")
    /\ CASE Head(rest).version = 28 -> /\ todo' = Format28
                                       /\ rest' = Tail(rest)
                                       /\ UNCHANGED <<file, outcome, block>>
         [] Head(rest).version = 29 -> /\ todo' = Format29
                                       /\ rest' = Tail(rest)
                                       /\ UNCHANGED <<file, outcome, block>>
         [] OTHER -> Reject
    /\ UNCHANGED node_ids

\* decompress_zstd gives what the stream holds, the whole or not, and fails
\* on data after it.
decompress_zstd ==
    /\ Reading("zstd")
    /\ IF Len(rest) = 1
       THEN /\ rest' = Head(rest).content
            /\ todo' = Tail(todo)
            /\ UNCHANGED <<file, outcome, block>>
       ELSE Reject
    /\ UNCHANGED node_ids

\* flags and lighting_complete, and the timestamp, are not checked.
PlainField ==
    /\ \/ Reading("header")
       \/ Reading("timestamp")
    /\ Continue
    /\ UNCHANGED <<block, node_ids>>

\* content_width and params_width
Widths ==
    /\ Reading("widths")
    /\ IF Head(rest).content_width = 2 /\ Head(rest).params_width = 2
       THEN Continue /\ UNCHANGED block
       ELSE Reject
    /\ UNCHANGED node_ids
-----------------------------------------------------------------------------
(* The nodes, and the metadata of some of them.                            *)

StoreNodes(param0s) ==
    nodes' = [i \in DOMAIN nodes |-> [NewNode EXCEPT !.param_0 = param0s[i + 1]]]

\* The output is filled with zeros up to a multiple of its buffer's size, which
\* is more than the nodes take, if the stream does not end.
decompress_zlib(stream) == [parts |-> stream.content, zeros |-> ~ stream.whole]

deserialize_nodes_28 ==
    /\ Reading("nodes_28")
    /\ LET buffer == decompress_zlib(Head(rest))
       IN  IF /\ ~ buffer.zeros
              /\ Len(buffer.parts) = 1
              /\ Len(buffer.parts[1].entries) = NodesPerBlock
           THEN /\ StoreNodes(buffer.parts[1].entries)
                /\ Continue
                /\ UNCHANGED param0_map
           ELSE Reject
    /\ UNCHANGED node_ids

deserialize_nodes_29 ==
    /\ Reading("nodes_29")
    /\ IF Len(Head(rest).entries) = NodesPerBlock
       THEN /\ StoreNodes(Head(rest).entries)
            /\ Continue
            /\ UNCHANGED param0_map
       ELSE Reject
    /\ UNCHANGED node_ids

\* Node::deserialize_metadata appends to what the node has.
MetadataOf(node, entry) ==
    [node EXCEPT !.metadata = @ \o entry.vars,
                 !.inventory = deserialize_inventory(@, entry.lines).lists]

LegalMetadata(entry) ==
    /\ entry.pos < NodesPerBlock
    /\ \A v \in DOMAIN entry.vars : entry.vars[v].private <= 1
    /\ deserialize_inventory(NoInventory, entry.lines).status = "done"

StoreMetadata(list) ==
    IF list.version = 0 THEN Continue /\ UNCHANGED block
    ELSE IF /\ list.version = 2
            /\ Counted(list)
            /\ \A e \in DOMAIN list.entries : LegalMetadata(list.entries[e])
    THEN /\ nodes' = FoldLeft(LAMBDA ns, e : [ns EXCEPT ![e.pos] = MetadataOf(@, e)],
                              nodes, list.entries)
         /\ Continue
         /\ UNCHANGED param0_map
    ELSE Reject

\* Zeros are read as version 0 if nothing comes before them, and as a line
\* that is not printable otherwise.  No one looks behind the metadata.
deserialize_metadata_28 ==
    /\ Reading("metadata_28")
    /\ LET buffer == decompress_zlib(Head(rest))
       IN  IF buffer.parts = <<>>
           THEN IF buffer.zeros THEN Continue /\ UNCHANGED block ELSE Reject
           ELSE StoreMetadata(Head(buffer.parts))
    /\ UNCHANGED node_ids

deserialize_metadata_29 ==
    /\ Reading("metadata_29")
    /\ StoreMetadata(Head(rest))
    /\ UNCHANGED node_ids
-----------------------------------------------------------------------------
(* The mapping of content ids to names, objects and timers.                *)

\* What IdMap::Add does: see IdMap.tla.
Add(ids, name) == IF Contains(ids, name) THEN ids ELSE Append(ids, name)
IdOf(ids, name) == SelectInSeq(ids, LAMBDA n : n = name) - 1

\* The vector grows to the id if the id is greater than its size, not to
\* id + 1.  A value written behind its last element is not in the vector: what
\* else the write does is Overrun.
MapParam0(map, id, value) ==
    [i \in 1 .. Len(map) + (IF id > Len(map) THEN id - Len(map) ELSE 0) |->
        IF i = id + 1 THEN value ELSE IF i <= Len(map) THEN map[i] ELSE -1]

EmptyMapping(count) == [i \in 1 .. count |-> -1]

\* the entries before the first with an illegal id
LegalEntries(entries) ==
    SubSeq(entries, 1, SelectInSeq(Append(entries, [id |-> IdLimit]),
                                   LAMBDA e : e.id >= IdLimit) - 1)

deserialize_name_id_mapping ==
    /\ Reading("mapping")
    /\ LET list == Head(rest)
           legal == LegalEntries(list.entries)
           ids == FoldLeft(LAMBDA s, e : Add(s, e.name), node_ids, legal)
       IN  IF list.version # 0 THEN Reject /\ UNCHANGED node_ids
           ELSE /\ node_ids' = ids
                /\ IF Counted(list) /\ legal = list.entries
                   THEN /\ param0_map' =
                             FoldLeft(LAMBDA m, e : MapParam0(m, e.id, IdOf(ids, e.name)),
                                      EmptyMapping(list.count), legal)
                        /\ Continue
                        /\ UNCHANGED nodes
                   ELSE Reject

\* param0_map_[id] writes behind the end of the vector, for the first time with
\* an id that is not less than the count, and before a later part is rejected.
Overrun ==
    /\ Reading("mapping")
    /\ LET list == Head(rest)
       IN  /\ list.version = 0
           /\ \E e \in DOMAIN list.entries :
                 /\ list.entries[e].id >= list.count
                 /\ \A d \in 1 .. e : list.entries[d].id < IdLimit
    /\ outcome' = "undefined"
    /\ UNCHANGED <<file, rest, todo, block, node_ids>>

deserialize_static_objects ==
    /\ Reading("objects")
    /\ IF Head(rest).version = 0 /\ Counted(Head(rest))
       THEN Continue /\ UNCHANGED block
       ELSE Reject
    /\ UNCHANGED node_ids

deserialize_node_timers ==
    /\ Reading("timers")
    /\ IF Counted(Head(rest))
       THEN Continue /\ UNCHANGED block
       ELSE Reject
    /\ UNCHANGED node_ids
-----------------------------------------------------------------------------
\* size_check throws, or the empty output of decompress_zlib is too short.
OutOfData ==
    /\ outcome = "reading"
    /\ rest = <<>>
    /\ Head(todo) \notin {"remap", "verify"}
    /\ Reject
    /\ UNCHANGED node_ids

(* Faulty: the hole is kept.                                               *)
Remapped_Signed(node) == [node EXCEPT !.param_0 = param0_map[@ + 1]]

\* The value of a hole, -1, becomes the largest uint16_t.
Remapped(node) == [node EXCEPT !.param_0 = param0_map[@ + 1] % 65536]

\* at() of a content id that is not in the map throws out_of_range, which no
\* one catches.
remap_param0 ==
    /\ Due("remap")
    /\ IF \A i \in DOMAIN nodes : nodes[i].param_0 + 1 \in DOMAIN param0_map
       THEN /\ nodes' = [i \in DOMAIN nodes |-> Remapped(nodes[i])]
            /\ todo' = Tail(todo)
            /\ UNCHANGED outcome
       ELSE /\ outcome' = "aborted"
            /\ UNCHANGED <<todo, nodes>>
    /\ UNCHANGED <<file, rest, param0_map, node_ids>>

(* Faulty: the rest of the data does not matter.                           *)
AllDataConsumed_NotAsked == TRUE

AllDataConsumed == rest = <<>>

verify_all_data_consumed ==
    /\ Due("verify")
    /\ IF AllDataConsumed
       THEN /\ todo' = Tail(todo)
            /\ outcome' = IF Len(todo) = 1 THEN "ok" ELSE "reading"
            /\ UNCHANGED <<file, rest, block>>
       ELSE Reject
    /\ UNCHANGED node_ids

Next == \/ deserialize
        \/ decompress_zstd
        \/ PlainField
        \/ Widths
        \/ deserialize_nodes_28 \/ deserialize_nodes_29
        \/ deserialize_metadata_28 \/ deserialize_metadata_29
        \/ deserialize_name_id_mapping
        \/ Overrun
        \/ deserialize_static_objects
        \/ deserialize_node_timers
        \/ OutOfData
        \/ remap_param0
        \/ verify_all_data_consumed

Spec == Init /\ [][Next]_vars
-----------------------------------------------------------------------------
\* Node::get_owner
get_owner(node) ==
    LET v == SelectInSeq(node.metadata, LAMBDA m : m.key \in {"owner", "_owner"})
    IN  IF v = 0 THEN "" ELSE node.metadata[v].value

\* What RunConsumer sees of node i.
Decoded(i) == [name     |-> node_ids[nodes[i].param_0 + 1],
               owner    |-> get_owner(nodes[i]),
               lists    |-> nodes[i].inventory,
               minegeld |-> total_minegeld(nodes[i].inventory)]

TypeOK ==
    /\ file.kind \in {"good", "defective", "odd", "sparse"}
    /\ DOMAIN nodes = 0 .. NodesPerBlock - 1
    /\ \A i \in DOMAIN nodes : nodes[i].param_0 \in U16
    /\ param0_map \in Seq(-1 .. Len(node_ids) - 1)
    /\ outcome \in {"reading", "ok", "rejected", "aborted", "undefined"}

(* Both formats are read in the order they are written: whatever is read   *)
(* next, the bytes at hand are of that kind, also behind a list, a stream  *)
(* or an inventory, and in data that ends early or has one bad field.      *)
FieldsAreReadAsWritten ==
    outcome = "reading" /\ rest # <<>> /\ Head(todo) \notin {"remap", "verify"}
        => Head(rest).kind = Kind(Head(todo))

(* A map block as Minetest writes it is read, in both formats, and every   *)
(* node has the name, the owner, the inventories and the money that were   *)
(* written, for any order of the mapping and of the metadata               *)
(* (MapBlock::deserialize, remap_param0).                                  *)
WellFormedIsDecoded ==
    file.kind = "good" =>
        /\ outcome \in {"reading", "ok"}
        /\ outcome = "ok" => \A i \in DOMAIN nodes : Decoded(i) = file.nodes[i]

(* Data that ends early, has something behind its last part or, in their   *)
(* stream, behind its nodes, or has a field the code does not support, is  *)
(* rejected with a SerializationError, which RunConsumer catches: it never *)
(* passes, and it does not end the program.                                *)
DefectiveIsRejected ==
    file.kind = "defective" => outcome \in {"reading", "rejected"}

(* param0_map_ "maps param0 to global node_id" for every content id below  *)
(* 4096, also for a mapping that does not use all ids up to its greatest.  *)
SparseMappingIsDecoded ==
    file.kind = "sparse" => outcome \in {"reading", "ok"}
=============================================================================
