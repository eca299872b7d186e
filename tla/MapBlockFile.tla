----------------------------- MODULE MapBlockFile -----------------------------
(***************************************************************************)
(* The data of map blocks, as module MapBlock reads it: what a file may    *)
(* hold.  The order of the parts is that of Minetest's world_format.txt    *)
(* (not code of this repository).                                          *)
(*                                                                         *)
(* The data is a sequence of parts, each a record with the `kind' of the   *)
(* fields it holds; a part with a counted list has the `count' and the     *)
(* `entries' themselves, fewer if the data ends in between.  A compressed  *)
(* part has the parts in it as `content', and `whole' is FALSE if the      *)
(* data ends inside of the stream.                                         *)
(*                                                                         *)
(* The code reads as many bytes as a list should have.  A short list is    *)
(* therefore the last part of the data or of its stream, where nothing     *)
(* else can be read in its place, and that the data ends is what           *)
(* size_check sees.                                                        *)
(***************************************************************************)
EXTENDS Integers, Sequences, Inventory

CONSTANTS Files,            \* sequences of files, each with its `blob', its `kind'
                            \* and what is written in its `nodes': see MCMapBlock
          Known,            \* the names that have ids before
          NodesPerBlock,    \* NODES_PER_BLOCK
          IdLimit           \* content ids are less than that, 4096

ASSUME NodesAssumption == NodesPerBlock \in Nat \ {0}
ASSUME IdLimitAssumption == IdLimit \in 1 .. 4096
ASSUME KnownAssumption == Known \in Seq(STRING)

AllFiles == UNION {{Files[k][i] : i \in DOMAIN Files[k]} : k \in DOMAIN Files}
-----------------------------------------------------------------------------
(* The parts.                                                              *)

U16 == {n \in Nat : n < 65536}

Items == [denomination : Nat, count : Nat \union {-1}, huge : BOOLEAN]
Words == {"List", "Width", "Item", "Empty", "EndInventoryList", "EndInventory", "Junk"}
InventoryLines == [word : Words, name : STRING, item : Items]
Variables == [key : STRING, value : STRING, private : Nat]
MetadataEntries == [pos : U16, vars : Seq(Variables), lines : Seq(InventoryLines)]

MappingEntries == [id : U16, name : STRING]

IsField(p) ==
    \/ p.kind \in {"header", "timestamp"}
    \/ p.kind = "version" /\ p.version \in Nat
    \/ p.kind = "widths" /\ p.content_width \in Nat /\ p.params_width \in Nat
    \/ p.kind = "nodes" /\ p.entries \in Seq(U16)
    \/ /\ p.kind \in {"metadata", "mapping", "objects", "timers"}
       /\ p.version \in Nat /\ p.count \in U16
       /\ p.kind = "metadata" => /\ p.entries \in Seq(MetadataEntries)
                                 /\ p.version = 0 => p.entries = <<>>
       /\ p.kind = "mapping" => p.entries \in Seq(MappingEntries)
       /\ p.kind \in {"objects", "timers"} => p.entries \in Seq(STRING)

IsSequence(s) == Len(s) \in Nat /\ s = [k \in 1 .. Len(s) |-> s[k]]

AreFields(parts) == IsSequence(parts) /\ \A k \in DOMAIN parts : IsField(parts[k])

IsPart(p) == IF p.kind = "zlib" THEN AreFields(p.content) /\ p.whole \in BOOLEAN
             ELSE IF p.kind = "zstd" THEN AreFields(p.content)
             ELSE IsField(p)
-----------------------------------------------------------------------------
(* Their order, behind the version and, in format 29, inside of the        *)
(* stream.  What comes after the last part is not said.                    *)

Order28 == <<"header", "widths", "zlib", "zlib", "objects", "timestamp", "mapping", "timers">>
Order29 == <<"header", "timestamp", "mapping", "widths", "nodes", "metadata", "objects", "timers">>

Follows(parts, kinds) ==
    \A k \in DOMAIN parts \intersect DOMAIN kinds : parts[k].kind = kinds[k]

HasFormat(blob, v) == blob # <<>> /\ blob[1].version = v

Body(blob) == IF HasFormat(blob, 28) THEN Tail(blob) ELSE blob[2].content

\* Where a list may be short.
Lists == {"nodes", "metadata", "mapping", "objects", "timers"}
Size(list) == IF list.kind = "nodes" THEN NodesPerBlock ELSE list.count
EndsOnce(lines) ==
    lines # <<>> /\ \A n \in DOMAIN lines : lines[n].word = "EndInventory" <=> n = Len(lines)
EndUpTo(list, n) == list.kind = "metadata" => \A e \in 1 .. n : EndsOnce(list.entries[e].lines)

IsFull(p) == p.kind \in Lists => Len(p.entries) = Size(p) /\ EndUpTo(p, Size(p))

IsCut(p) == p.kind \in Lists =>
                Len(p.entries) <= Size(p) /\ EndUpTo(p, Len(p.entries) - 1)

OnlyTheLastIsCut(parts) ==
    \A k \in DOMAIN parts : IF k = Len(parts) THEN IsCut(parts[k]) ELSE IsFull(parts[k])

\* A stream of format 28 starts with that part, whatever comes behind it, and
\* is the last part if the data ends in it.
StartsWith(body, k, kind) ==
    k \in DOMAIN body =>
        /\ Follows(body[k].content, <<kind>>) /\ OnlyTheLastIsCut(body[k].content)
        /\ ~ body[k].whole => k = Len(body)

HasParts(blob) == HasFormat(blob, 28) \/ (HasFormat(blob, 29) /\ Len(blob) > 1)

IsBlob(blob) ==
    /\ IsSequence(blob) /\ \A k \in DOMAIN blob : IsPart(blob[k])
    /\ blob # <<>> => blob[1].kind = "version"
    /\ HasFormat(blob, 28) => /\ Follows(Body(blob), Order28)
                              /\ StartsWith(Body(blob), 3, "nodes")
                              /\ StartsWith(Body(blob), 4, "metadata")
    /\ HasFormat(blob, 29) /\ Len(blob) > 1 => /\ blob[2].kind = "zstd"
                                               /\ Follows(Body(blob), Order29)
    /\ HasParts(blob) => OnlyTheLastIsCut(Body(blob))
-----------------------------------------------------------------------------
(* What the code supports, of the data as a whole.                         *)

\* line k comes after a line that opens a list, and before the list ends
InList(lines, k) ==
    \E j \in 1 .. k - 1 : /\ lines[j].word = "List" /\ lines[j].name # ""
                          /\ \A i \in j + 1 .. k - 1 :
                                lines[i].word \notin {"List", "EndInventoryList"}

IsInventory(lines) ==
    \E n \in DOMAIN lines :
        /\ lines[n].word = "EndInventory"
        /\ \A k \in 1 .. n - 1 :
              \/ lines[k].word \in {"List", "Width", "EndInventoryList"}
              \/ (lines[k].word \in {"Item", "Empty"} /\ InList(lines, k))
              \/ (lines[k].word = "Item" /\ lines[k].item.huge)

IsSupportedEntry(entry) ==
    /\ entry.pos < NodesPerBlock
    /\ \A v \in DOMAIN entry.vars : entry.vars[v].private <= 1
    /\ IsInventory(entry.lines)

IsComplete(list) == Len(list.entries) = list.count

IsSupportedField(p) ==
    CASE p.kind = "widths" -> p.content_width = 2 /\ p.params_width = 2
      [] p.kind = "nodes" -> Len(p.entries) = NodesPerBlock
      [] p.kind = "metadata" ->
           \/ p.version = 0
           \/ /\ p.version = 2 /\ IsComplete(p)
              /\ \A e \in DOMAIN p.entries : IsSupportedEntry(p.entries[e])
      [] p.kind = "mapping" ->
           /\ p.version = 0 /\ IsComplete(p)
           /\ \A e \in DOMAIN p.entries : p.entries[e].id < IdLimit
      [] p.kind = "objects" -> p.version = 0 /\ IsComplete(p)
      [] p.kind = "timers" -> IsComplete(p)
      [] OTHER -> TRUE

\* Nothing comes behind the nodes in their stream, anything behind the metadata.
IsSupportedStream(p) ==
    /\ p.whole /\ p.content # <<>> /\ IsSupportedField(p.content[1])
    /\ p.content[1].kind = "nodes" => Len(p.content) = 1

IsSupportedPart(p) == IF p.kind = "zlib" THEN IsSupportedStream(p) ELSE IsSupportedField(p)

IsSupported(blob) ==
    /\ HasFormat(blob, 28) \/ (HasFormat(blob, 29) /\ Len(blob) = 2)
    /\ Len(Body(blob)) = 8
    /\ \A k \in 1 .. 8 : IsSupportedPart(Body(blob)[k])

\* The ids of the nodes, and the legal ones of the mapping, are less than the
\* number of names in the mapping, as they are in Minetest's files.
NodesIn(blob) == IF HasFormat(blob, 28) THEN Body(blob)[3].content[1] ELSE Body(blob)[5]
MappingIn(blob) == IF HasFormat(blob, 28) THEN Body(blob)[7] ELSE Body(blob)[3]

HasNodes(blob) == /\ Len(Body(blob)) >= 8
                  /\ HasFormat(blob, 28) => Body(blob)[3].content # <<>>

IdsFit(mapping) ==
    \A e \in DOMAIN mapping.entries :
        mapping.entries[e].id < mapping.count \/ mapping.entries[e].id >= IdLimit

IdsAreMapped(blob) ==
    HasParts(blob) =>
        /\ HasNodes(blob) =>
              \A i \in DOMAIN NodesIn(blob).entries :
                  NodesIn(blob).entries[i] < MappingIn(blob).count
        /\ \A k \in DOMAIN Body(blob) :
              Body(blob)[k].kind = "mapping" => IdsFit(Body(blob)[k])

-----------------------------------------------------------------------------
(* What good files say of their nodes.                                     *)

MetadataIn(blob) ==
    LET list == IF HasFormat(blob, 28) THEN Body(blob)[4].content[1] ELSE Body(blob)[6]
    IN  IF list.version = 0 THEN <<>> ELSE list.entries

SaysName(blob, i, name) ==
    \E e \in DOMAIN MappingIn(blob).entries :
        MappingIn(blob).entries[e] = [id |-> NodesIn(blob).entries[i + 1], name |-> name]

\* The owner is the value of the first variable of that name.
SaysOwner(vars, owner) ==
    LET OfOwner(v) == vars[v].key \in {"owner", "_owner"}
    IN  \/ owner = "" /\ \A v \in DOMAIN vars : ~ OfOwner(v)
        \/ \E v \in DOMAIN vars : /\ OfOwner(v) /\ owner = vars[v].value
                                 /\ \A u \in 1 .. v - 1 : ~ OfOwner(u)

\* the last line of a list that starts at line k
EndOf(k, items) == k + Len(items) + 2

SaysList(lines, k, name, items) ==
    /\ EndOf(k, items) \in DOMAIN lines
    /\ lines[k].word = "List" /\ lines[k].name = name /\ name # ""
    /\ lines[k + 1].word = "Width"
    /\ \A s \in DOMAIN items : /\ lines[k + s + 1].word \in {"Item", "Empty"}
                               /\ lines[k + s + 1].item = items[s]
    /\ lines[EndOf(k, items)].word = "EndInventoryList"

\* One list after the other, in any order.
SaysLists(lines, lists) ==
    \E start \in [DOMAIN lists -> DOMAIN lines] :
        /\ \A name \in DOMAIN lists : SaysList(lines, start[name], name, lists[name])
        /\ \A k \in 1 .. Len(lines) - 1 : \E name \in DOMAIN lists :
                k \in start[name] .. EndOf(start[name], lists[name])
        /\ lines # <<>> /\ lines[Len(lines)].word = "EndInventory"

\* All items of minegeld in all slots, as many as there are, or one.
Worth(item) == item.denomination * (IF item.count = -1 THEN 1 ELSE item.count)
Slots(lists) == UNION {{name} \X DOMAIN lists[name] : name \in DOMAIN lists}
Money(lists) == MapThenSumSet(LAMBDA s : Worth(lists[s[1]][s[2]]), Slots(lists))

SaysData(entries, i, node) ==
    LET own == {e \in DOMAIN entries : entries[e].pos = i}
    IN  IF own = {} THEN node.owner = "" /\ node.lists = <<>>
        ELSE \A e \in own : /\ SaysOwner(entries[e].vars, node.owner)
                             /\ SaysLists(entries[e].lines, node.lists)

SaysNode(blob, i, node) ==
    /\ node = [name |-> node.name, owner |-> node.owner,
               lists |-> node.lists, minegeld |-> Money(node.lists)]
    /\ node.lists \in [DOMAIN node.lists -> Seq(Items)]
    /\ SaysName(blob, i, node.name)
    /\ SaysData(MetadataIn(blob), i, node)

\* A content id has one name, and the names known then all have 16 bit ids;
\* a node has one entry in the metadata.
Says(blob, nodes) ==
    /\ \A d, e \in DOMAIN MappingIn(blob).entries :
          MappingIn(blob).entries[d].id = MappingIn(blob).entries[e].id => d = e
    /\ Len(Known) + MappingIn(blob).count <= 65536
    /\ \A d, e \in DOMAIN MetadataIn(blob) :
          MetadataIn(blob)[d].pos = MetadataIn(blob)[e].pos => d = e
    /\ \A i \in 0 .. NodesPerBlock - 1 : SaysNode(blob, i, nodes[i])

ASSUME FilesAssumption ==
    \A f \in AllFiles :
        /\ IsBlob(f.blob)
        /\ f.kind \in {"good", "defective", "odd", "sparse"}
        /\ f.kind = "good" => /\ IsSupported(f.blob) /\ IdsAreMapped(f.blob)
                              /\ Says(f.blob, f.nodes)
        /\ f.kind = "defective" => ~ IsSupported(f.blob) /\ IdsAreMapped(f.blob)
=============================================================================
