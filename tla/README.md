# A TLA+ model of minetest-map-analyzer

`map_analyzer` reads every map block of a Minetest world (sqlite or
postgresql), extracts the nodes worth knowing about, decides which blocks are
likely man-made ("anthropocene") and which lie close enough to such a block to
be preserved, and writes an output database. It does so with a producer thread,
any number of consumer threads, a merge thread and the main thread, or with all
of them in sequence on the main thread (`--threads 0`).

This directory holds the specification of that program, the configurations
that model-check it, and machine-checked proofs about it. `PROJECT.json` relates
every definition to the lines it stands for.

## Inventory

| Component (source) | State | Operations | Module |
|---|---|---|---|
| Map block queue (`src/app/mapblock_queue.h`) | `queue_`, one mutex, one condition variable | `Enqueue`, `SetTombstone`, `Pop`, `idle_wait` | `MapBlockQueue`, abstractly `BlockFeed` |
| Producer (`producer.cc`) | its vector `keys` | the scan's callback, flush of a batch, tombstone | `MapBlockQueue` |
| Consumer (`consumer.cc`) | its key, `anthropocene_list` | the loop of `RunConsumer` | `MapBlockQueue`, `PreserveQueue`, `App`, `WorldData` |
| Preserve queue (`preserve_queue.*`) | `merge_queue_`, `final_queue_` | `Enqueue`, `SetTombstone`, `MergeThread`, `DoMerge`, `SurrenderFinalSet` | `PreserveQueue` |
| Application (`app.*`) | the position of the main thread | `RunThreaded`, `RunSerially`, `ApplyPreserveFlags`, `DisplayProgress` | `App`, abstractly `Analysis`; `MapBlockQueue` for the progress line |
| Counters (`stats.h`) | three atomic counters | increments and separate loads | `MapBlockQueue` |
| Data writer (`data_writer.*`) | `node_queue_`, the output database | `EnqueueNodes`, `FlushActorIdMap`, `FlushNodeIdMap`, `FlushNodeQueue` | `App`; the rows of `node` in `IdMap` |
| Map block writer (`mapblock_writer.*`) | `block_queue_` | `EnqueueMapBlockPos`, `FlushBlockQueue` | `App` |
| Block hash map (`hashmap.h`, `mapblock_data.h`) | one entry per position | `Ref`, which returns an unlocked reference | `App` |
| Id maps (`id_map.h`) | items, ids, dirty list; per thread a cache of pointers to items | `Add`, `Get`, `GetDirty`, `ThreadLocalIdMap::Add` and `Get` | `IdMap`, abstractly `Interner`; `App`, as sets of names |
| Name filter (`name_filter.*`) | two lists of patterns | loading, `Search` | `NameFilter` |
| Deserializer, blob reader, nodes (`mapblock.*`, `blob_reader.*`, `node.*`) | `param0_map_`, the nodes, what is left of the data | the parts of formats 28 and 29, the checks, `remap_param0` | `MapBlock` |
| Inventory, minegeld (`inventory.*`, `minegeld.*`) | the lists of a node | the parser of lines, the sum of the money | `Inventory` |
| Positions (`pos.h`, `pos.cc`) | - | ids, node keys, `inside`, `sort` | `MapPos` |
| Readers (`db-map-sqlite3.cc`, `db-map-postgresql.cc`) | a statement each for the scan and for loading | `ProduceMapBlocks`, `LoadMapBlock` | `MapScan`, `App` |
| Command line (`main.cc`, `config.cc`) | the configuration | the region | `MapScan` |
| Sqlite wrapper (`db-sqlite3.cc`), schema | the state of a statement, tables, a transaction | `BindInt`, `Step`, `Reset`, `Begin`, `Commit`, exceptions | `MapScan`, `App`, `WorldData` |

Interaction: the producer hands batches of keys to the consumers through the
map block queue; a consumer loads the block of its key, deserializes it, which
adds names to the id maps, and writes to the data writer's queue, the block
hash map and the block writer's queue; it hands lists of positions to the merge
thread through the preserve queue; the main thread waits in `idle_wait` of the
map block queue, joins the others, applies what the merge thread collected to
the hash map, and flushes everything in four transactions.

What is hard here: one condition variable with two kinds of waiters; tombstones
that are ordinary entries (a key, an empty list); a vector used after
`std::move`; references into the hash map and a queue that are used without
their locks; a packet that belongs to no locked structure while it is merged;
pointers that two threads keep into a vector that a third may grow; the order
of joins, flags and flushes, which differs between the two modes; a process
that may end between two transactions; unsigned differences of counters that
are loaded one by one; signed coordinates packed into integers; two file
formats with the same parts in two orders; an sqlite statement that must be
reset on every path. `PROJECT.json` lists each of these at its line with the
properties about it.

## The modules

* **`MapBlockQueue`** - the queue, producer, consumers and main thread up to the
  joins. A critical section is one action. `asleep` is the wait set of `cv_`:
  `notify_one` removes any one member, consumer or main, `notify_all` all of
  them, and a wakeup may be spurious. `PopWait` / `PopKey` / `PopTombstone` are
  the outcomes of `Pop`; `RejectBlock` / `AcceptBlock` / `FinishBlock` the ways
  through the loop of a consumer; `IdleWait` / `IdleTimeout` are `idle_wait`, the
  `Progress...` actions the separate loads of `DisplayProgress` (C++ leaves the
  order of `good` and `bad` open; they play the same part). `Threaded =
  FALSE` is serial mode: one consumer, main itself, which pops when the
  producer is done, and no `idle_wait`. `handled` is a history variable.
* **`BlockFeed`** - what all that promises: every block to one consumer, once,
  and a consumer stops only when none is left.
* **`PreserveQueue`** - lists, queue, merge thread, final set. `noted` is a
  history variable. The packet is a variable because `DoMerge` runs outside the
  queue's lock. The cube of positions is a parameter (`Cube`), in the instances
  that of `MapPos` with radius 1 including the wrap of `int16_t` coordinates.
* **`IdMap`** - one id map with the caches of the threads that use it. `Add` of a
  cache enters two critical sections of the shared map, so it is the steps
  `SharedAdd`, `SharedGet` and `Store`. A pointer is the array it points into,
  named by its capacity, and an index: when `push_back` moves the items, old
  pointers dangle. `Overrun` is what else may come of a write behind the end of
  a cache. `FlushNodeIdMap` writes the dirty items when the consumers are done.
* **`Interner`** - what that promises: a name gets the next number once, and
  every thread is told that number.
* **`NameFilter`** - the list of patterns, with a regular expression as the set of
  names it matches; `IdMap` uses it for the flag of an item.
* **`MapBlock`** - the deserializer. The data is a sequence of parts (a header, the
  mapping, the nodes, ...), compressed parts have parts inside; `todo` is the
  order in which the code reads them in format 28 or 29, and each action reads
  one part with its checks. The outcomes are "ok", "rejected" (a
  `SerializationError`, which the consumer catches), "aborted" (`out_of_range`,
  which nobody catches) and "undefined": `Overrun` is the write behind the end of
  `param0_map_`, after which the model claims nothing, the visible outcome being one
  of many.
* **`MapBlockFile`** - what a file may hold, what of it the code supports, and what
  a good file says of its nodes (name, owner, lists, money), without saying how
  it is read. The code reads as many bytes as a list should have, whatever they
  are. A short list is therefore always the last part of the data or of its
  stream, where it is the end that `size_check` sees; a short list with other bytes
  behind it, which the code would take for the missing ones, is no file of the
  model. What is behind the metadata in its stream is accepted, as the code does
  not look (`mapblock.cc:148-179`); behind the nodes it is rejected.
* **`Inventory`** - the parser of a node's inventories, line by line, as a fold
  over the lines, and the sum of the money.
* **`MapPos`**, **`MapScan`** - the arithmetic of positions; the scan from
  the command line's region through `sort`, the reader's SQL, the decoding of an
  id and `inside` to the callback; then the loading of the blocks, with the
  states of the sqlite statement, while another program deletes rows. A step or a
  bind that fails throws and ends both (`ReadFails`, `error`). The size of the map is a
  parameter.
* **`WorldData`** - what the consumer makes of a block: rows, flags, names. A
  block is "ok", "missing", "corrupt" or "malformed", the outcomes of `MapScan`'s
  loading and of `MapBlock`. A block is uniform when its mapping has one id
  (`mapped`), not when it has one name. A node with an inventory is recorded even
  when all slots are empty; rows of `inventory` are written for items only.
* **`App`** - the whole program: `MapBlockQueue` and `PreserveQueue` instantiated
  side by side, the unlocked writes of the consumers, and the main thread with
  its phases in the order of each mode. `writing` / `txn` / `db` are a transaction
  and the committed tables. `Fail` ends the work with the transaction lost: a
  malformed block or an uncaught error aborts the process; a `Sqlite3Error` in
  serial mode is caught and logged (`app.cc:81-83`, phase "failed"), after which
  `Report` runs as always (`app.cc:173-188`) and main returns 0. `Kill`, which
  comes from outside, may end the process at any step.
* **`Analysis`** - what one run promises: the output is a function of the world,
  written in four transactions of which a cut-short run leaves a prefix. A
  threaded run exits with 0 only when its output is complete; a serial one also
  after a logged database error (`CatchError`).
* **`MapBlockQueue_proof`**, **`PreserveQueue_proof`**, **`IdMap_proof`**,
  **`MapScan_proof`**, **`MapBlock_proof`**, **`App_proof`**, **`Analysis_proof`** -
  the proofs. **`SequenceLemmas`** - the facts about sequences, folds, sums
  over finite sets and induction they need.
* `MC...` modules and `.cfg` files - the instances for TLC. Operators named
  `X_Something` beside `X` are faulty variants of `X` with which the properties are
  shown to be able to fail.

## What the runs show

| Run | Question |
|---|---|
| `queue` | 3 consumers, 3 keys, batches of 2: no key lost or handed out twice; the tombstone is last; no consumer sleeps past it; counters agree; `remaining` does not wrap; main joins everybody; the threads implement `BlockFeed`, liveness included |
| `preserve` | every noted position reaches the set main takes, nothing else does, and main gets it |
| `scan` | both readers, all regions between five corners on a world of nine blocks, four blocks to an axis: exactly the blocks of the region are produced; `--pos` gives its block; node keys are unique; each block is loaded, or not found because it was deleted, and no statement is bound in a wrong state |
| `id_map` | 2 threads and 4 names beside 3 preregistered ones, beyond the reserved size: ids and names stay one to one, caches agree, items can be read up to the reserved size, the table `node` gets every name with the right flag, and all implements `Interner` |
| `block` | some 3000 files: well-formed ones of both formats give the nodes that were written; those cut at any part or entry, with one unsupported field, or with something behind the parts or the nodes, are rejected; none is read out of order, none ends the program |
| `app` | 2 consumers, 3 blocks, three worlds, errors and kills everywhere: committed tables are closed under reference; unlocked reads are alone; an entry has one writer; the program ends and implements `Analysis` |
| `app_serial` | the serial program on five worlds ends and implements `Analysis`, also when it goes on to its report after an error it has caught |

Five runs show disagreements between the code and what is said about it:

* `queue_stall`: `Enqueue`'s `notify_one` (`mapblock_queue.h:41`) may wake main, which
  goes back to sleep; all consumers then stay blocked with keys in the queue
  ("Will block if queue is empty", line 54) until the next notification. Nothing
  is lost: `MainJoinsEverybody` holds, since `SetTombstone` notifies all.
* `scan_max`: the block named by `--max` is not examined (`pos.h:42`, `main.cc:51`);
  by default, blocks with a coordinate of 2047 are not.
* `app_bones`: `consumer.cc:69` compares with `bones::bones`, nodes are called
  `bones:bones`.
* `id_map_full`: with more than `kReservedSize` items `push_back` moves them, and
  the pointers in all caches dangle; `ThreadLocalIdMap::Add` resizes only if the
  id is greater than the size, so the item with id `kReservedSize` is written
  behind the end (`id_map.h:148`). `ReservedItemsCanBeRead` is what does hold.
* `block_sparse`: `deserialize_name_id_mapping` resizes to `id`, not `id + 1`
  (`mapblock.cc:236`), so a mapping with an id not less than its count is stored
  behind the end. Minetest numbers the names of a block without gaps.

Also noticed and not worth a run: a consumer's list is flushed at threshold + 1
positions (`consumer.cc:104`; `config.h:56` calls the threshold the maximum);
`preserve_limit` and `max_load_avg` are never read (the project's own README
speaks of a load average); the comment on `idle_wait` says "the queue still has
data" where it may be empty; `Pop` returns the tombstone when it is at the front,
not "immediately"; the sqlite `ProduceMapBlocks` resets the statement that loads
blocks, not the one it stepped, which does no harm, since a connection scans once;
`flush_time` is not set in serial mode; blocks that
cannot be read have no row in `blocks` (`schema-data.sql:49` promises one for each), and
a serial run that has caught a `Sqlite3Error` lacks all rows of the transactions it did
not get to, though it reports what it "Processed" and exits with 0; a line of blanks in
the pattern file is a pattern (`name_filter.h:17` says it is ignored); a zlib
stream that ends early is no error (`blob_reader.h:99`), though the checks on what
it should hold reject the block; an `Item` line of more than 4096 characters is
not asked for a list to belong to; a hole in the name-id mapping becomes content id
65535, and an id beyond its end is an `out_of_range` that ends the program.

### Bounds

Two or three consumers and three keys let a batch be full, partial and
last, one consumer be in every state of its loop while another sleeps, and main
compete with both for a notification; the proofs remove these bounds. The
preserve run has four positions and a threshold of 1, so that lists are flushed
by size and at the end, twice per consumer, with cubes that overlap, touch the
edge or lie apart. The scan's map has four blocks per axis with two nodes to a
block's side: both ends of an axis, negative coordinates and multiples of the
axis occur; two of its rows may be deleted. The id map reserves four items for
six names, so that it grows while both threads hold pointers; the threads are
interchangeable (a symmetry set; the run has no liveness property). A map block has two nodes and ids below
four; its metadata includes empty, repeated and damaged inventories. The worlds
of `App` place a town next to rock, next to each kind of unreadable block, and
beyond the preserve radius of a third block; there is a furnace with empty slots and a rock
with two ids for its one name; one world has nothing but rock, so that no node is queued. The threaded run has three of them, between them with
every kind of block. No counter needs a bound: all are bounded by the number of
keys or names. Deadlock is checked except in the id map's and the map blocks' runs, where the system
stops when its work is done; the others stutter explicitly at the end.

### Fairness

Each thread that can take a step eventually does (weak fairness per thread),
as the operating system's scheduler provides. The timeout of `idle_wait` and
spurious wakeups are never assumed. Mutexes are held for finite sections without
nested waits, so that a fair lock is the same assumption. In `PreserveQueue`
consumers are only assumed to end, which `MapBlockQueue` shows. `IdMap`,
`MapBlock` and `MapScan` state safety only.

## What is proved

All theorems hold for any finite set of keys, any non-empty finite set of
consumers, any sizes, any files and, where there are two, both modes.

**`MapBlockQueue_proof`**: every safety property of the run `queue`.

1. `TypeCorrect`: `TypeOK` with `KeyInHand` (a consumer has a key exactly in
   states "load" and "work"). `TypeOK` alone is not inductive: `Release` adds the
   consumer's key to `handled`, and nothing in `TypeOK` says there is one.
2. `TombstoneComesLast`, `NobodyOversleeps`: the two properties are inductive together, given types.
   `SetTombstone` empties the wait set; afterwards the queue is never empty.
3. `KeysAreConserved`: `EveryKeyInOnePlace`, with queue and batch read as one
   sequence (`Pipeline`): `ScanRow` appends to it, `Enqueue` leaves it as it is,
   `SetTombstone` appends the tombstone, `PopKey` takes its head.
4. `AllAreCounted`, `ProgressIsSound`: `CountInv` says that `queued` is the number of
   keys delivered and `good + bad` the number of those handled or being worked
   on; `LeftInv` that a consumer that has left its loop left the tombstone at the
   head. With 3, main joins only when all keys are handled.

5. `ImplementsBlockFeed`: with that invariant, each step of the queue and its
   threads delivers a block, finishes one, ends a consumer, or changes nothing
   `BlockFeed` sees.

**`PreserveQueue_proof`**: `TypeOK`, `EmptyListIsTheTombstone`, `NothingForgotten` and
`SurrenderedIsWhole`. The last two need to know where positions can be: the
packet is empty unless it is being merged (`PacketIsBeingMerged`), closed
consumers have no list (`ClosedListsAreEmpty`), and when the merge thread is
done only the tombstone is in the queue (`MergerIsLast`, `TakenAfterMerging`).
The cube of a position is any set.

**`IdMap_proof`**: `TypeOK`, `IdsAndNamesMatch`, `CachesAgree` and
`ReservedItemsCanBeRead`, and that `IdMap` implements `Interner`. `InFlight` says
that between its two critical sections a thread has the id of its name. For the
pointers: as long as the items fit, the array is the first one (`ArrayIsFirst`),
caches are as large as it (`CachesAreLarge`), and every pointer, in a thread's
hand (`ItemInHand`) or in its cache (`PointersAreRight`), is the one of its id, at which
the item is right (`ContentsAreRight`). `NodeTableComplete` is about the pattern
file as well, of any length: after its first k lines the filter has the patterns of those
k lines (`LoadSteps`), so that a look-up finds what the lines say (`LookupIsMatch`);
and the flush, which happens when no id is added any more, writes the items as they
are (`TableFollowsIds`).

**`MapScan_proof`**: every property of the run `scan`, for any size of the map.
The arithmetic comes first: division with rest is unique, so the borrow between the
coordinates of an id, written case by case in the code, gives the coordinates back
(`PosSurvivesItsId`, no run's property but the basis of all); ids, node positions and
node keys are therefore one to one. `RegionProduced` and `PosProduced` rest on
`ScanProgress`: what has been produced are the positions of the region among the
rows stepped over, and an id outside of the SQL statement's range belongs to no
position of the region. `BlocksLoaded` rests on `StatementFollowsCall`: between
two loadings the statement is ready, whatever the one before found, or an error
has ended them.

**`MapBlock_proof`**: a file passes if and only if the code supports it, and the nodes
of a good file are then what the file says, for lists, inventories and metadata of
any length and with any contents. The functions that fold
over a list are described by what they have done after k elements: the
parser of inventories is done after exactly the lines of an inventory
(`InventoryIsAccepted`); the names of the mapping get ids and keep those they have
(`NamesAdded`), and each content id gets the id of its name (`MappingStored`). The
inductive invariant (`IInv`) says where in the file the program is (`IsAfter`), that the parts
it has read are supported ones, and what an outcome says of the
file (`Verdict`): "ok" that it is supported, "rejected" that it is not, "aborted" or
"undefined" that a content id is not in the mapping, or that the mapping has an id not
less than its count. From it, `TypeCorrect`, `FieldsRead` and
`DefectiveRejected`. For `WellFormedDecoded` it also says of a good file that what
has been read is in the nodes already (`Contents`): by the place in the file (`At`),
names are in the mapping (`NamesAreMapped`), nodes still have content ids and nothing
else (`AreBare`), or owners and inventories (`AreDescribed`), or their names (`AreNamed`).
The two formats read the mapping before and after the nodes, and both end with all of
it. The lemmas say what each part contributes: a content id leads to its name
(`MappingGives`), the parser returns the lists that were written (`ListsAreParsed`), the
owner is the first variable that names one (`OwnerIs`), adding up list by list is
the sum over all slots (`MoneyIs`), and a metadata entry changes its own node and
no other (`MetadataGives`).

**`App_proof`**: the composition. `FeedNext` shows that each step of the program is a
step of `MapBlockQueue` or leaves it alone (`ImplementsMapBlockQueue`), so that what is proved of that
module holds here; it gives what the rest relies on (`FeedFacts`). `LinkInv`
links the two queues: a consumer's list is closed when it is done, main is past
its first phase only when all are joined, and the tombstone of the preserve
queue is set in its own phase and not before. With it, main meets the guards of `PreserveQueue`
(`ImplementsPreserveQueue`). `StageInv` (a consumer is inside a block exactly when it has an
accepted one) gives `EntriesAreOwned`; `UnlockedReadsAreSafe` follows from the links.

**`Analysis_proof`**: the output. `MemoryInv` says what is in memory as a function of
the blocks done so far: the names of those seen, the owners and rows of those recorded, an entry
for each entered, and, from the merge thread's set, the preserve flags of all.
Each consumer step adds one block to one of these sets; after the joins they
are all blocks (`AllAnalyzed`). That failures add nothing to the output is
immediate, `txn` being lost; that the exit code of a threaded run vouches for the
whole needs that "failed" is not reached in it. `DatabaseInv` says that the committed tables are
those of as many transactions as the phase has behind it, and the open one adds
the next. From that, `ImplementsAnalysis` (the safety part of `Analysis`, with
failures and kills at any step), `OutputIsClosed` and `TypeCorrect`, whose
`TypeOK` bounds names, owners and queued nodes by what the world can bring.

The assumptions are the named ones of the modules: tombstone and `NoKey` are no
keys, main is no consumer, there is a consumer, a batch holds at least one key
(`MapBlockQueue.tla`, `App.tla`); the world and the corners of the region lie within the
map (`MapScan.tla`: `main.cc` accepts any corner; what one beyond the map selects
is not covered), and only rows of the world are deleted; `NotYet` is no set of preserved positions
(`PreserveQueue.tla`); preregistered names differ and fit the reserved size, names
are strings, the null pointer points to no item, and the lines of the pattern file are
lines (`IdMap.tla`); a map block has at least one node, a content id has 16 bits and the
limit of them is at most 4096, and a file is data in the order of its format, in which only the last list
of the data or of a stream is short, with what is called
good supported and what is called defective not, both with content ids
below the mapping's count, and with mapping ids below it too unless they are illegal; and a good file says what its nodes are: a content
id has one name there, a node at most one metadata entry, a list one name, and the names are so
few that 16-bit ids suffice (`Says` in `MapBlockFile.tla`); a world has an
entry for each key, the mapping of an accepted block names its nodes, `first` is the name of one of
them, and a node with items has an inventory (`App.tla`).
TLC evaluates them in the runs.

Induction over data is needed for the folds, and the library's theorems for it take
an operator as a parameter, which the provers cannot instantiate. `InductionOnSets` in
`SequenceLemmas` states it with a set in the place of the operator, and `FoldExists`
says that a fold is the last member of a sequence of partial results; what holds of those is
then shown one element at a time. Sums over finite sets go one element at a time too
(`InductionOnSubsets`, `SumWithout`).

Only model-checked: liveness, everywhere. Each invariant and each action property that a
passing run checks is a theorem.

## What is not modelled

The bytes of a blob and the buffer loops of the decompression: the model has the
parts, their counts and their ends, and what the libraries report. Regular
expressions: a pattern is the set of names it matches. The hash map's buckets:
their mutexes protect the tables, the entries are unlocked either way. The link
between content ids and names in `App`, whose tables refer to names: that both
are one to one is `IdMap`'s theorem. Columns and texts of sqlite, whose transactions are taken to
be atomic. Logging, times, memory statistics, the statistics file's contents,
the options that only set constants. The hash map's demo, the reports (except
for the name one of them looks for), vendored code, the build: no behaviour of
the program.

## Plan

Done: the queues, the composition and their abstract specifications; id maps,
name filter, deserializer, inventories; loading of blocks; the proofs above. Left:

1. Loading of blocks interleaved with the scan (the two use statements of their own
   connection), inside `App`.
2. The hash map with its buckets, and `size`, which locks them one after the other.
3. Liveness of the composition for more than two consumers.
