-------------------------------- MODULE IdMap --------------------------------
(***************************************************************************)
(* The ids of node names: IdMap, which all threads share, the              *)
(* ThreadLocalIdMap of each of them (src/lib/id_map/id_map.h), the         *)
(* callback that marks special nodes, and the flush to the table `node'.   *)
(*                                                                         *)
(* A critical section of IdMap is one step.  ThreadLocalIdMap::Add enters  *)
(* two of them, Add and Get, and keeps the address that Get returns.  An   *)
(* address is the array by_id_ had, named by its capacity, and an index:   *)
(* once push_back has moved the items to a larger array it dangles.  A     *)
(* call of Add with a name that the thread's cache has changes nothing,    *)
(* and key, id and item are reset when the call returns.                   *)
(***************************************************************************)
EXTENDS Integers, FiniteSets, NameFilter

CONSTANTS Names,            \* the names in the map blocks
          Threads,
          Preregistered,    \* the names main adds first
          Reserved,         \* kReservedSize
          Lines,            \* the pattern file
          Null              \* the null pointer

ASSUME NamesAssumption ==
    /\ Preregistered \in Seq(STRING)
    /\ Len(Preregistered) > 0
    /\ Names \subseteq STRING
    /\ \A i, j \in DOMAIN Preregistered :
          Preregistered[i] = Preregistered[j] => i = j
ASSUME ReservedAssumption ==
    Reserved \in Nat \ {0} /\ Len(Preregistered) <= Reserved

ASSUME LinesAssumption ==
    Lines \in Seq([first : {"", "#", "!", "p"}, matches : SUBSET STRING])

ASSUME NullAssumption == Null \notin [array : Nat, id : Nat]

PreregisteredNames == {Preregistered[i] : i \in DOMAIN Preregistered}
AllNames == Names \union PreregisteredNames

\* The ids main's calls of Add return.
FirstId(n) == (CHOOSE i \in DOMAIN Preregistered : Preregistered[i] = n) - 1

VARIABLES by_id,            \* IdMap: the item with id i is by_id[i + 1]
          by_string,
          dirty,
          capacity,         \* of the array of by_id
          local_by_id,      \* ThreadLocalIdMap: pointers to items
          local_by_string,
          pc,               \* "idle", "get" or "store" in Add, "done", "aborted"
          key,              \* the argument of Add
          id,               \* what IdMap::Add returned
          item,             \* what IdMap::Get returned
          node_table        \* the rows of `node', empty before the flush

shared == <<by_id, by_string, dirty, capacity>>
caches == <<local_by_id, local_by_string>>
vars == <<shared, caches, pc, key, id, item, node_table>>

\* App::LookupNodeExtraInfo, the callback of IdMap::Add
LookupNodeExtraInfo(name) == Search(LoadPatterns(Lines), name)

Item(name) == [key |-> name, anthropocene |-> LookupNodeExtraInfo(name)]

Init ==
    /\ by_id = [i \in DOMAIN Preregistered |-> Item(Preregistered[i])]
    /\ by_string = [n \in PreregisteredNames |-> FirstId(n)]
    /\ dirty = [i \in DOMAIN Preregistered |-> i - 1]
    /\ capacity = Reserved
    /\ local_by_id = [t \in Threads |-> [i \in 1 .. Reserved |-> Null]]
    /\ local_by_string = [t \in Threads |-> <<>>]
    /\ pc = [t \in Threads |-> "idle"]
    /\ key = [t \in Threads |-> ""]
    /\ id = [t \in Threads |-> 0]
    /\ item = [t \in Threads |-> Null]
    /\ node_table = {}
-----------------------------------------------------------------------------
(* IdMap::Add, under the lock.                                             *)

With(f, x, y) == [z \in DOMAIN f \union {x} |-> IF z = x THEN y ELSE f[z]]

Found(n) == /\ n \in DOMAIN by_string
            /\ UNCHANGED shared

(* Faulty: only special nodes become dirty.                                *)
MarkDirty_SpecialOnly(n) ==
    dirty' = IF Item(n).anthropocene THEN Append(dirty, Len(by_id)) ELSE dirty

MarkDirty(n) == dirty' = Append(dirty, Len(by_id))

Push(n) == /\ by_id' = Append(by_id, Item(n))
           /\ capacity' = IF Len(by_id) = capacity THEN 2 * capacity ELSE capacity
           /\ by_string' = With(by_string, n, Len(by_id))
           /\ MarkDirty(n)

(* Faulty: looks up before it takes the lock, and not again under it.      *)
PushNew_NotLookedUp(n) == Push(n)

PushNew(n) == /\ n \notin DOMAIN by_string
              /\ Push(n)
-----------------------------------------------------------------------------
(* ThreadLocalIdMap::Add, by a consumer that deserializes a map block.     *)

SharedAdd(t, n) ==
    /\ pc[t] = "idle"
    /\ n \notin DOMAIN local_by_string[t]
    /\ Found(n) \/ PushNew(n)
    /\ key' = [key EXCEPT ![t] = n]
    /\ id' = [id EXCEPT ![t] = by_string'[n]]
    /\ pc' = [pc EXCEPT ![t] = "get"]
    /\ UNCHANGED <<caches, item, node_table>>

SharedGet(t) ==
    /\ pc[t] = "get"
    /\ item' = [item EXCEPT ![t] = [array |-> capacity, id |-> id[t]]]
    /\ pc' = [pc EXCEPT ![t] = "store"]
    /\ UNCHANGED <<shared, caches, key, id, node_table>>

\* if (id > by_id_.size()) by_id_.resize(id + 1)
Resize(pointers, i) ==
    IF i > Len(pointers)
    THEN [j \in 1 .. i + 1 |-> IF j <= Len(pointers) THEN pointers[j] ELSE Null]
    ELSE pointers

(* Faulty: ids counted from 1.                                             *)
Written_FromOne(pointers, i, p) ==
    [j \in DOMAIN pointers |-> IF j = i THEN p ELSE pointers[j]]

\* by_id_[i] = p: behind the last element the write is lost
Written(pointers, i, p) ==
    [j \in DOMAIN pointers |-> IF j = i + 1 THEN p ELSE pointers[j]]

(* Faulty: the new name is stored under the number of names in the cache.  *)
LocalIdFor_OwnCount(t) == Cardinality(DOMAIN local_by_string[t])

(* Faulty: -1 for a name that the cache has not.                           *)
LocalIdFor_Uncached(t) == 0 - 1

LocalIdFor(t) == id[t]

Store(t) ==
    /\ pc[t] = "store"
    /\ local_by_id' = [local_by_id EXCEPT
                          ![t] = Written(Resize(@, id[t]), id[t], item[t])]
    /\ local_by_string' = [local_by_string EXCEPT ![t] = With(@, key[t], LocalIdFor(t))]
    /\ pc' = [pc EXCEPT ![t] = "idle"]
    /\ key' = [key EXCEPT ![t] = ""]
    /\ id' = [id EXCEPT ![t] = 0]
    /\ item' = [item EXCEPT ![t] = Null]
    /\ UNCHANGED <<shared, node_table>>

\* What else may come of a write behind the last element.
Overrun(t) ==
    /\ pc[t] = "store"
    /\ id[t] = Len(local_by_id[t])
    /\ pc' = [u \in Threads |-> "aborted"]
    /\ UNCHANGED <<shared, caches, key, id, item, node_table>>

ConsumerExit(t) ==
    /\ pc[t] = "idle"
    /\ pc' = [pc EXCEPT ![t] = "done"]
    /\ UNCHANGED <<shared, caches, key, id, item, node_table>>

\* ThreadLocalIdMap::Get reads the item behind a pointer, unless at() throws,
\* the pointer is null, or it points into an array that is no more.
CanGet(t, i) == /\ i + 1 \in DOMAIN local_by_id[t]
                /\ local_by_id[t][i + 1] # Null
                /\ local_by_id[t][i + 1].array = capacity

Get(t, i) == by_id[local_by_id[t][i + 1].id + 1]
-----------------------------------------------------------------------------
(* DataWriter::FlushNodeIdMap, by main when the consumers are joined.      *)

GetDirty == {dirty[i] : i \in DOMAIN dirty}

NodeRow(i) == [node_id |-> i, name |-> by_id[i + 1].key,
               special |-> by_id[i + 1].anthropocene]

FlushNodeIdMap ==
    /\ \A t \in Threads : pc[t] = "done"
    /\ dirty # <<>>
    /\ node_table' = node_table \union {NodeRow(i) : i \in GetDirty}
    /\ dirty' = <<>>
    /\ UNCHANGED <<by_id, by_string, capacity, caches, pc, key, id, item>>

Consumer(t) == \/ \E n \in Names : SharedAdd(t, n)
               \/ SharedGet(t)
               \/ Store(t)
               \/ Overrun(t)
               \/ ConsumerExit(t)

Next == (\E t \in Threads : Consumer(t)) \/ FlushNodeIdMap

Spec == Init /\ [][Next]_vars
-----------------------------------------------------------------------------
Pointer == [array : Nat, id : Nat]

TypeOK ==
    /\ by_id \in Seq([key : AllNames, anthropocene : BOOLEAN])
    /\ DOMAIN by_string \subseteq AllNames
    /\ \A n \in DOMAIN by_string : by_string[n] \in Nat
    /\ dirty \in Seq(Nat)
    /\ capacity \in Nat \ {0}
    /\ local_by_id \in [Threads -> Seq(Pointer \union {Null})]
    /\ DOMAIN local_by_string = Threads
    /\ \A t \in Threads :
          /\ DOMAIN local_by_string[t] \subseteq Names
          /\ \A n \in DOMAIN local_by_string[t] : local_by_string[t][n] \in Nat
    /\ pc \in [Threads -> {"idle", "get", "store", "done", "aborted"}]
    /\ key \in [Threads -> Names \union {""}]
    /\ id \in [Threads -> Nat]
    /\ item \in [Threads -> Pointer \union {Null}]

(* Ids and names are one to one, no two items have the same name, and no   *)
(* cache has another id for a name than IdMap, whatever calls of Add from  *)
(* several threads have overlapped (IdMap::Add, ThreadLocalIdMap::Add).    *)
IdsAndNamesMatch ==
    /\ \A n \in DOMAIN by_string : /\ by_string[n] + 1 \in DOMAIN by_id
                                   /\ by_id[by_string[n] + 1].key = n
    /\ \A i \in DOMAIN by_id : /\ by_id[i].key \in DOMAIN by_string
                               /\ by_string[by_id[i].key] = i - 1

CachesAgree ==
    \A t \in Threads : \A n \in DOMAIN local_by_string[t] :
        /\ n \in DOMAIN by_string
        /\ local_by_string[t][n] = by_string[n]

(* ThreadLocalIdMap::Get returns the item of every name the thread has     *)
(* added: its cache "caches successful lookups", and the consumer calls    *)
(* Get with the ids it got from Add.  True as long as IdMap has no more    *)
(* than kReservedSize items, false as soon as it has one more.             *)
AddedItemsCanBeRead ==
    \A t \in Threads : \A n \in DOMAIN local_by_string[t] :
        LET i == local_by_string[t][n]
        IN  CanGet(t, i) /\ Get(t, i) = Item(n)

ReservedItemsCanBeRead == Len(by_id) <= Reserved => AddedItemsCanBeRead

(* The flush writes one row for each name any thread was given an id for,  *)
(* with that id, and marks as special what a positive pattern of the file  *)
(* matches and no negative one does (FlushNodeIdMap, LookupNodeExtraInfo). *)
IsMatched(n, isNegative) ==
    \E i \in DOMAIN Lines : /\ Lines[i].first \notin {"", "#"}
                            /\ (Lines[i].first = "!") = isNegative
                            /\ n \in Lines[i].matches

NodeTableIsComplete ==
    node_table # {} =>
        node_table = {[node_id |-> by_string[n], name |-> n,
                       special |-> IsMatched(n, FALSE) /\ ~ IsMatched(n, TRUE)] :
                      n \in DOMAIN by_string}

(* Threads that ask for ids through their caches see what one table of ids *)
(* would tell them (module Interner).                                      *)
I == INSTANCE Interner
        WITH ids <- by_string, told <- local_by_string,
             Known <- [n \in PreregisteredNames |-> FirstId(n)]

InternerSpec == I!Spec
=============================================================================
