------------------------------ MODULE MCMapBlock ------------------------------
(***************************************************************************)
(* The files for MapBlock: map blocks as Minetest writes them (its         *)
(* world_format.txt, not code of this repository), with two nodes, in both *)
(* formats; each of them cut at every part and entry; each with one field  *)
(* the code does not support or with something behind its parts or in its  *)
(* streams; and some that are legal but unusual.                           *)
(***************************************************************************)
EXTENDS MapBlock, TLC

\* Contents: the names of two nodes, the order of the mapping, metadata.
Gold(denomination, count) ==
    [denomination |-> denomination, count |-> count, huge |-> FALSE]
Book == [denomination |-> 0, count |-> 2, huge |-> FALSE]
Digtron == [denomination |-> 0, count |-> -1, huge |-> TRUE]

Var(key, value) == [key |-> key, value |-> value, private |-> 0]
List(name, slots) == [name |-> name, slots |-> slots]

Metas == << <<>>,
            << [pos |-> 1, owner |-> "ann",
                vars |-> <<Var("infotext", "x"), Var("owner", "ann"), Var("_owner", "bob")>>,
                lists |-> << List("main", <<Gold(10, 3), NoItem, Gold(5, -1)>>),
                             List("fuel", <<Gold(25, 0), Book>>) >>] >>,
            << [pos |-> 1, owner |-> "bob", vars |-> <<Var("_owner", "bob")>>,
                lists |-> << List("src", <<>>), List("dst", <<Digtron, Gold(1, 2)>>) >>],
               [pos |-> 0, owner |-> "", vars |-> <<>>, lists |-> <<>>] >> >>

NameOf(bit) == IF bit = 0 THEN "air" ELSE "chest"
Contents == [k \in 1 .. 16 * Len(Metas) |->
                [names   |-> [i \in {0, 1} |-> NameOf((k \div (2 ^ i)) % 2)],
                 swapped |-> (k \div 4) % 2 = 0,
                 more    |-> (k \div 8) % 2 = 0,
                 metas   |-> ((k - 1) \div 16) + 1]]

\* What the program should find in a node.
Node(c, i) ==
    LET m == SelectInSeq(Metas[c.metas], LAMBDA e : e.pos = i)
        lists == IF m = 0 THEN <<>> ELSE Metas[c.metas][m].lists
        slots == [l \in DOMAIN lists |-> lists[l].slots]
        gold == SelectSeq(FlattenSeq(slots), LAMBDA it : it.denomination > 0)
        worth(it) == it.denomination * (IF it.count = -1 THEN 1 ELSE it.count)
    IN  [name  |-> c.names[i],
         owner |-> IF m = 0 THEN "" ELSE Metas[c.metas][m].owner,
         lists |-> [n \in {lists[l].name : l \in DOMAIN lists} |->
                      slots[CHOOSE l \in DOMAIN lists : lists[l].name = n]],
         minegeld |-> MapThenSumSet(LAMBDA g : worth(gold[g]), DOMAIN gold)]

Nodes(c) == [i \in {0, 1} |-> Node(c, i)]

\* The parts of a block.
MappedNames == <<"air", "chest">>
Line(word, name, item) == [word |-> word, name |-> name, item |-> item]
Lines(list) ==
    <<Line("List", list.name, NoItem), Line("Width", "", NoItem)>>
    \o [s \in DOMAIN list.slots |->
          Line(IF list.slots[s] = NoItem THEN "Empty" ELSE "Item", "", list.slots[s])]
    \o <<Line("EndInventoryList", "", NoItem)>>
Entry(m) ==
    [pos |-> m.pos, vars |-> m.vars,
     lines |-> FlattenSeq([l \in DOMAIN m.lists |-> Lines(m.lists[l])])
               \o <<Line("EndInventory", "", NoItem)>>]

Version(v) == [kind |-> "version", version |-> v]
Header == [kind |-> "header"]
Timestamp == [kind |-> "timestamp"]
Width2 == [kind |-> "widths", content_width |-> 2, params_width |-> 2]
Counted2(kind, version, entries) ==
    [kind |-> kind, version |-> version, count |-> Len(entries), entries |-> entries]
Params(c) == Counted2("nodes", 0, [i \in 1 .. 2 |->
                 SelectInSeq(MappedNames, LAMBDA n : n = c.names[i - 1]) - 1])
Meta(c) == Counted2("metadata", IF Metas[c.metas] = <<>> THEN 0 ELSE 2,
                    [e \in DOMAIN Metas[c.metas] |-> Entry(Metas[c.metas][e])])
Pairs(c) == LET pairs == <<[id |-> 0, name |-> "air"], [id |-> 1, name |-> "chest"]>>
            IN  Counted2("mapping", 0, IF c.swapped THEN Reverse(pairs) ELSE pairs)
Objects(c) == Counted2("objects", 0, IF c.more THEN <<"object">> ELSE <<>>)
Timers(c) == Counted2("timers", 0, IF c.more THEN <<"timer">> ELSE <<>>)

Zlib(part) == [kind |-> "zlib", content |-> <<part>>, whole |-> TRUE]
Zstd(parts) == [kind |-> "zstd", content |-> parts]

Inner29(c) == <<Header, Timestamp, Pairs(c), Width2, Params(c), Meta(c),
                Objects(c), Timers(c)>>
Blob(c, v) ==
    IF v = 29 THEN <<Version(29), Zstd(Inner29(c))>>
    ELSE <<Version(28), Header, Width2, Zlib(Params(c)), Zlib(Meta(c)), Objects(c),
           Timestamp, Pairs(c), Timers(c)>>
-----------------------------------------------------------------------------
\* Damage.  Variants(part) are the ways to damage one part.
Replace(parts, k, variants) ==
    [v \in DOMAIN variants |-> ReplaceAt(parts, k, variants[v])]
Truncate(parts, k, variants) ==
    [v \in DOMAIN variants |-> Append(SubSeq(parts, 1, k - 1), variants[v])]
Beginnings(parts) == [k \in DOMAIN parts |-> SubSeq(parts, 1, k - 1)]
EveryPart(parts, Change(_, _, _), Variants(_)) ==
    FlattenSeq([k \in DOMAIN parts |-> Change(parts, k, Variants(parts[k]))])

\* a list without its last entry, and an inventory without its last line
Shorter(part) ==
    IF "entries" \notin DOMAIN part \/ part.entries = <<>> THEN <<>>
    ELSE <<[part EXCEPT !.entries = Front(@)]>>
         \o IF part.kind = "metadata"
            THEN <<[part EXCEPT !.entries[Len(part.entries)].lines = Front(@)]>>
            ELSE <<>>

Cuts(parts) == Beginnings(parts) \o EveryPart(parts, Truncate, Shorter)

\* a stream that ends early: with nothing, with some or with all of its content
ShorterStream(part) ==
    CASE part.kind = "zlib" ->
           LET contents == <<<<>>, part.content>> \o Cuts(part.content)
           IN  [k \in DOMAIN contents |->
                  [part EXCEPT !.content = contents[k], !.whole = FALSE]]
      [] part.kind = "zstd" ->
           LET contents == Cuts(part.content)
           IN  [k \in DOMAIN contents |-> [part EXCEPT !.content = contents[k]]]
      [] OTHER -> Shorter(part)

CutBlobs(blob) == Beginnings(blob) \o EveryPart(blob, Truncate, ShorterStream)

\* one field the code does not support
WithEntry(part, entry) ==
    [part EXCEPT !.entries = Append(@, entry), !.count = @ + 1]
WithMeta(part, pos, private, lines) ==
    [part EXCEPT !.version = 2,
                 !.entries = <<[pos |-> pos, lines |-> lines,
                                vars |-> <<[key |-> "k", value |-> "", private |-> private]>>]>>,
                 !.count = 1]
End == <<Line("EndInventory", "", NoItem)>>
Bad(part) ==
    CASE part.kind = "version" -> <<Version(27), Version(30)>>
      [] part.kind = "widths"  -> <<[part EXCEPT !.content_width = 1],
                                    [part EXCEPT !.params_width = 1]>>
      [] part.kind = "mapping" -> <<[part EXCEPT !.version = 1],
                                    WithEntry(part, [id |-> IdLimit, name |-> "sign"])>>
      [] part.kind = "objects" -> <<[part EXCEPT !.version = 1]>>
      [] part.kind = "metadata" ->
           <<[part EXCEPT !.version = 1],
             WithMeta(part, NodesPerBlock, 0, End),
             WithMeta(part, 0, 2, End),
             WithMeta(part, 0, 0, <<Line("Item", "", Book)>> \o End),
             WithMeta(part, 0, 0, <<Line("Junk", "", NoItem)>> \o End)>>
      [] OTHER -> <<>>
BadStream(part) ==
    CASE part.kind = "zlib" ->
           LET contents == EveryPart(part.content, Replace, Bad) \o << <<>> >>
                           \o IF part.content[1].kind = "nodes"
                              THEN <<Append(part.content, Header)>> ELSE <<>>
           IN  [k \in DOMAIN contents |-> [part EXCEPT !.content = contents[k]]]
      [] part.kind = "zstd" ->
           LET contents == EveryPart(part.content, Replace, Bad)
                           \o <<Append(part.content, Header)>>
           IN  [k \in DOMAIN contents |-> [part EXCEPT !.content = contents[k]]]
      [] OTHER -> Bad(part)

BadBlobs(blob) == EveryPart(blob, Replace, BadStream) \o <<Append(blob, Header)>>

\* something behind the metadata in its stream, of which the code knows nothing
Unseen(blob) ==
    IF blob[1].version = 28 THEN <<[blob EXCEPT ![5].content = Append(@, Header)]>> ELSE <<>>
-----------------------------------------------------------------------------
\* Legal content ids that the mapping leaves out, or names twice.
WithPairs(c, ids, param0) ==
    LET pairs == Counted2("mapping", 0, [k \in DOMAIN ids |->
                                           [id |-> ids[k], name |-> MappedNames[k]]])
        param0s == Counted2("nodes", 0, <<param0, param0>>)
    IN  <<Version(29),
          Zstd(<<Header, Timestamp, pairs, Width2, param0s, Meta(c), Objects(c), Timers(c)>>)>>

File(kind, c, blob) == [kind |-> kind, blob |-> blob, nodes |-> Nodes(c)]
FilesOf(kind, c, blobs) == [b \in DOMAIN blobs |-> File(kind, c, blobs[b])]

Plain == [names |-> [i \in {0, 1} |-> "chest"], swapped |-> FALSE, metas |-> 1, more |-> FALSE]

Group(c, v) ==
    LET blob == Blob(c, v)
    IN  FilesOf("good", c, <<blob>> \o Unseen(blob))
        \o FilesOf("defective", c, CutBlobs(blob) \o BadBlobs(blob))

Odd == FilesOf("odd", Plain, <<WithPairs(Plain, <<0, 0>>, 1), WithPairs(Plain, <<0, 1>>, 2),
                               WithPairs(Plain, <<0, 2>>, 0)>>)

MCFiles == [k \in 0 .. 2 * Len(Contents) |->
              IF k = 0 THEN Odd
              ELSE Group(Contents[(k + 1) \div 2], IF k % 2 = 0 THEN 28 ELSE 29)]

MCSparseFiles ==
  <<FilesOf("sparse", Plain, <<WithPairs(Plain, <<0, 2>>, 2), WithPairs(Plain, <<1, 0>>, 0),
                               WithPairs(Plain, <<0, 3>>, 3), WithPairs(Plain, <<2>>, 2)>>)>>

MCKnown == <<"", "ignore", "air">>
=============================================================================
