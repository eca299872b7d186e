-------------------------------- MODULE MCApp --------------------------------
(* Instances of App for TLC.  Map blocks lie on a line, the preserve       *)
(* radius is 1; positions 1 and 2 are neighbours, 4 is out of their reach. *)
EXTENDS App, Integers, TLC

MCKeys == {1, 2, 4}
MCCube(p) == (p - 1) .. (p + 1)
MCSpecial == {"chest"}

Bare(name, owner) ==
    [name |-> name, owner |-> owner, has_inventory |-> FALSE, items |-> {}]
Holding(name, owner, items) ==
    [name |-> name, owner |-> owner, has_inventory |-> TRUE, items |-> items]
Ok(names, mapped, first, nodes) ==
    [kind |-> "ok", names |-> names, mapped |-> mapped, first |-> first, nodes |-> nodes]
Rejected(kind, names) == [kind |-> kind, names |-> names]

(* A chest of ann's; a furnace with empty slots; rock, also with two ids   *)
(* for its one name; a grave; a sign of bob's.                             *)
Town == Ok({"stone", "chest"}, 2, "stone",
           {Bare("stone", ""), Holding("chest", "ann", {"apple", "bread"})})
Forge == Ok({"furnace", "air"}, 2, "air", {Bare("air", ""), Holding("furnace", "", {})})
Rock == Ok({"stone"}, 1, "stone", {Bare("stone", "")})
OddRock == Ok({"stone"}, 2, "stone", {Bare("stone", "")})
Grave == Ok({"air", "bones:bones"}, 2, "air", {Bare("air", ""), Bare("bones:bones", "")})
Sign == Ok({"sign"}, 1, "sign", {Bare("sign", "bob")})

(* A town beside rock; a town beside a block that cannot be read, or that  *)
(* ends the program; rock only.                                            *)
MCWorlds == {(1 :> Town @@ 2 :> Rock @@ 4 :> Sign),
             (1 :> Rejected("corrupt", {"mud"}) @@ 2 :> Town @@ 4 :> Forge),
             (1 :> Town @@ 2 :> Rejected("missing", {}) @@ 4 :> Town),
             (1 :> Town @@ 2 :> Rejected("malformed", {"mud"}) @@ 4 :> Rock),
             (1 :> Rock @@ 2 :> OddRock @@ 4 :> Rock)}
(* The same kinds of blocks in fewer worlds, for the threaded program.     *)
ThreadedWorlds == {(1 :> Town @@ 2 :> Rock @@ 4 :> Rejected("corrupt", {"mud"})),
                   (1 :> Town @@ 2 :> Rejected("malformed", {"mud"}) @@ 4 :> Town),
                   (1 :> Rejected("missing", {}) @@ 2 :> Forge @@ 4 :> OddRock)}
BonesWorlds == {(1 :> Grave @@ 2 :> Rock)}
=============================================================================
