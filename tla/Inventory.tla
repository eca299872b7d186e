------------------------------- MODULE Inventory -------------------------------
(***************************************************************************)
(* The inventories of a node (src/lib/map_reader/inventory.cc) and the     *)
(* money in them (minegeld.cc).  A line is a record: `word' is its first   *)
(* word, "Junk" if the line matches nothing or holds a character that is   *)
(* not printable, `name' the list it names, `item' an item or NoItem.      *)
(* An item is a record: `denomination' is 0 if it is no minegeld, `count'  *)
(* is -1 if the string ends after the name, and `huge' says that its line  *)
(* is longer than 4096 characters.  NoItem is the empty string.            *)
(***************************************************************************)
EXTENDS Integers, Sequences, SequencesExt, FiniteSetsExt

NoItem == [denomination |-> 0, count |-> -1, huge |-> FALSE]
NoInventory == <<>>

Put(f, x, y) == [z \in DOMAIN f \union {x} |-> IF z = x THEN y ELSE f[z]]

(* The local variables of deserialize_inventory and lists_.                *)
StartInventory(lists) ==
    [lists |-> lists, list_name |-> "", current |-> <<>>, status |-> "reading"]

Failed(parser) == [parser EXCEPT !.status = "failed"]

EndInventoryList(parser) ==
    [parser EXCEPT !.lists = Put(@, parser.list_name, parser.current),
                   !.list_name = "",
                   !.current = <<>>]

(* A slot needs a list, except that a huge item is not asked for one.      *)
AddSlot(parser, line) ==
    IF parser.list_name = "" /\ ~ (line.word = "Item" /\ line.item.huge)
    THEN Failed(parser)
    ELSE [parser EXCEPT !.current = Append(@, line.item)]

ParseLine(parser, line) ==
    IF parser.status # "reading" THEN parser
    ELSE CASE line.word = "List"  -> [parser EXCEPT !.list_name = line.name,
                                                    !.current = <<>>]
           [] line.word = "Width" -> parser
           [] line.word \in {"Item", "Empty"} -> AddSlot(parser, line)
           [] line.word = "EndInventoryList"  -> EndInventoryList(parser)
           [] line.word = "EndInventory"      -> [parser EXCEPT !.status = "done"]
           [] OTHER                           -> Failed(parser)

(* Reads lines up to EndInventory; the lists are those of the node so far. *)
(* If no line ends the inventory, read_line finds the end of the data or   *)
(* the binary data behind the lines, and throws.                           *)
deserialize_inventory(lists, lines) ==
    FoldLeft(ParseLine, StartInventory(lists), lines)

(* Faulty: one piece, whatever the string says.                            *)
ParseCurrencyMinegeld_OneEach(item) == item.denomination

ParseCurrencyMinegeld(item) ==
    IF item.count = -1 THEN item.denomination ELSE item.denomination * item.count

ListMinegeld(items) ==
    FoldLeft(LAMBDA total, item : total + ParseCurrencyMinegeld(item), 0, items)

total_minegeld(lists) ==
    MapThenSumSet(LAMBDA name : ListMinegeld(lists[name]), DOMAIN lists)
=============================================================================
