--------------------------------- MODULE App ---------------------------------
(***************************************************************************)
(* The whole program (src/app/app.cc): the map block queue and its threads *)
(* (MapBlockQueue), the preserve queue and its thread (PreserveQueue), what*)
(* a consumer does with a block (consumer.cc), and the main thread that    *)
(* writes the output database when the others are done: RunThreaded, or    *)
(* RunSerially when Threaded is FALSE.                                     *)
(***************************************************************************)
EXTENDS Naturals, Sequences, Functions, FiniteSets, WorldData

CONSTANTS Keys, Consumers, BatchSize, Threaded, Main, Tombstone, NoKey,
          Threshold, NotYet,
          Worlds     \* the worlds considered: functions from Keys to blocks

ASSUME KeysAssumption == /\ IsFiniteSet(Keys)
                         /\ Tombstone \notin Keys
                         /\ NoKey \notin Keys \union {Tombstone}
ASSUME ThreadsAssumption == /\ IsFiniteSet(Consumers) /\ Consumers # {}
                            /\ Main \notin Consumers
                            /\ Threaded \in BOOLEAN
ASSUME BatchAssumption == BatchSize \in Nat \ {0} /\ Threshold \in Nat
ASSUME NotYetAssumption == NotYet \notin SUBSET UNION {Cube(p) : p \in Keys}

\* The mapping of a block names all of its nodes.
ASSUME WorldsAssumption ==
    \A w \in Worlds :
        /\ DOMAIN w = Keys
        /\ \A p \in Keys : w[p].kind = "ok" =>
              /\ \E node \in w[p].nodes : node.name = w[p].first
              /\ \A node \in w[p].nodes : node.name \in w[p].names
\* Items are in inventories.
ASSUME ItemsAssumption ==
    \A w \in Worlds : \A p \in Keys : w[p].kind = "ok" =>
        \A node \in w[p].nodes : node.items # {} => node.has_inventory

VARIABLES
    world,                                                \* what the world's database holds
    rows, batch, producer, queue, asleep, consumer, key, handled, stats, main, sofar,
    noted, anthropocene_list, closed, merge_queue, merge_asleep, merger,
    packet, final_queue, surrendered,
    stage,        \* where each consumer is with an accepted block
    node_ids,     \* the names in node_ids_
    actor_ids,    \* the names in actor_ids_
    node_queue,   \* DataWriter's node_queue_
    block_data,   \* block_data_: a function on the positions it has entries for
    block_queue,  \* MapBlockWriter's block_queue_
    phase,        \* where the main thread is after (or before) the joins
    writing,      \* a transaction is open
    txn,          \* the tables as the open transaction sees them
    db            \* the committed tables

Feed == INSTANCE MapBlockQueue
Preserve == INSTANCE PreserveQueue WITH Positions <- Keys

feedVars == <<rows, batch, producer, queue, asleep, consumer, key, handled,
              stats, main, sofar>>
preserveVars == <<noted, anthropocene_list, closed, merge_queue, merge_asleep,
                  merger, packet, final_queue, surrendered>>
blockVars == <<stage, node_ids, actor_ids, node_queue, block_data, block_queue>>
outVars == <<phase, writing, txn, db>>
vars == <<world, feedVars, preserveVars, blockVars, outVars>>

Stages == {"idle", "nodes", "record", "list", "note"}
Ended == {"exit", "aborted"}
Over == {"failed"} \union Ended   \* no more work is done
Phases == {"analyze", "tombstone", "actor", "node", "nodes", "join", "apply", "blocks",
           "report"} \union Over

(* What the blocks of a world can bring into memory.                       *)
Names(w) == PreregisteredNames \union UNION {w[p].names : p \in Keys}
Readable(w) == {p \in Keys : w[p].kind = "ok"}
Actors(w) == PreregisteredActors \union UNION {Owners(w[p]) : p \in Readable(w)}
NodesToWrite(w) == UNION {NodeRows(p, w[p]) : p \in Readable(w)}

TypeOK ==
    /\ world \in Worlds
    /\ Feed!TypeOK
    /\ Preserve!TypeOK
    /\ stage \in [Consumers -> Stages]
    /\ node_ids \subseteq Names(world)
    /\ actor_ids \subseteq Actors(world)
    /\ node_queue \subseteq NodesToWrite(world)
    /\ block_queue \subseteq Keys
    /\ \A p \in DOMAIN block_data :
         DOMAIN block_data[p] = {"uniform", "anthropocene", "preserve"}
    /\ phase \in Phases
    /\ writing \in BOOLEAN
    /\ DOMAIN db = DOMAIN EmptyTables /\ DOMAIN txn = DOMAIN EmptyTables

(* VerifySchema created the tables; PreregisterContentIds has been called. *)
Init ==
    /\ world \in Worlds
    /\ Feed!Init
    /\ Preserve!Init
    /\ stage = [c \in Consumers |-> "idle"]
    /\ node_ids = PreregisteredNames
    /\ actor_ids = PreregisteredActors
    /\ node_queue = {}
    /\ block_data = <<>>
    /\ block_queue = {}
    /\ phase = "analyze"
    /\ writing = FALSE
    /\ txn = EmptyTables
    /\ db = EmptyTables

-----------------------------------------------------------------------------
(* The threads of the map block queue, up to a key in a consumer's hands.  *)

FeedStep ==
    /\ \/ Feed!Producer
       \/ Feed!MainStep
       \/ Feed!IdleTimeout
       \/ \E t \in Feed!Threads : Feed!SpuriousWakeup(t)
    /\ UNCHANGED <<world, preserveVars, blockVars, outVars>>

Pop(c) ==
    /\ Feed!PopWait(c) \/ Feed!PopKey(c) \/ Feed!PopTombstone(c)
    /\ UNCHANGED <<world, preserveVars, blockVars, outVars>>

-----------------------------------------------------------------------------
(* A consumer and its block.                                               *)

Block(c) == world[key[c]]

(* deserialize registers the names it reads, also of a block it rejects.   *)
Reject(c) ==
    /\ consumer[c] = "load"
    /\ Block(c).kind \in {"missing", "corrupt"}
    /\ Feed!RejectBlock(c)
    /\ node_ids' = node_ids \union Block(c).names
    /\ UNCHANGED <<world, preserveVars, stage, actor_ids, node_queue,
                   block_data, block_queue, outVars>>

Accept(c) ==
    /\ consumer[c] = "load"
    /\ Block(c).kind = "ok"
    /\ Feed!AcceptBlock(c)
    /\ node_ids' = node_ids \union Block(c).names
    /\ stage' = [stage EXCEPT ![c] = "nodes"]
    /\ UNCHANGED <<world, preserveVars, actor_ids, node_queue, block_data,
                   block_queue, outVars>>

At(c, here, next) == /\ stage[c] = here
                     /\ stage' = [stage EXCEPT ![c] = next]

(* The loop over the nodes, and DataWriter::EnqueueNodes.                  *)
EnqueueNodes(c) ==
    /\ At(c, "nodes", "record")
    /\ actor_ids' = actor_ids \union Owners(Block(c))
    /\ node_queue' = node_queue \union NodeRows(key[c], Block(c))
    /\ UNCHANGED <<world, feedVars, preserveVars, node_ids, block_data,
                   block_queue, outVars>>

(* HashMap::Ref: the entry of a position, made on first use.               *)
Ref(data, p) ==
    IF p \in DOMAIN data THEN data[p]
    ELSE [uniform |-> NoName, anthropocene |-> FALSE, preserve |-> FALSE]

(* The unlocked writes to the entry of the block.                          *)
RecordBlock(c) ==
    /\ At(c, "record", "list")
    /\ block_data' =
         [p \in DOMAIN block_data \union {key[c]} |->
            IF p = key[c]
            THEN [Ref(block_data, p) EXCEPT !.uniform = Uniform(Block(c)),
                                            !.anthropocene = IsAnthropocene(Block(c))]
            ELSE block_data[p]]
    /\ UNCHANGED <<world, feedVars, preserveVars, node_ids, actor_ids,
                   node_queue, block_queue, outVars>>

EnqueueMapBlockPos(c) ==
    /\ At(c, "list", "note")
    /\ block_queue' = block_queue \union {key[c]}
    /\ UNCHANGED <<world, feedVars, preserveVars, node_ids, actor_ids,
                   node_queue, block_data, outVars>>

FinishBlock(c) ==
    /\ At(c, "note", "idle")
    /\ Feed!FinishBlock(c)
    /\ IF IsAnthropocene(Block(c))
       THEN Preserve!NoteAnthropocene(c, key[c])
       ELSE UNCHANGED preserveVars
    /\ UNCHANGED <<world, node_ids, actor_ids, node_queue, block_data,
                   block_queue, outVars>>

ConsumerExit(c) ==
    /\ Feed!ConsumerExit(c)
    /\ Preserve!CloseList(c)
    /\ UNCHANGED <<world, blockVars, outVars>>

Consumer(c) == \/ Pop(c) \/ Reject(c) \/ Accept(c) \/ EnqueueNodes(c)
               \/ RecordBlock(c) \/ EnqueueMapBlockPos(c) \/ FinishBlock(c)
               \/ ConsumerExit(c)

MergeStep ==
    /\ Threaded \/ phase = "join"
    /\ Preserve!MergeThread \/ Preserve!SpuriousMergeWakeup
    /\ UNCHANGED <<world, feedVars, blockVars, outVars>>

-----------------------------------------------------------------------------
(* The main thread after the joins.  RunSerially sets the tombstone, and   *)
(* calls MergeThread itself, after the nodes are written.                  *)

(* Faulty: the nodes are written before what they refer to.                *)
Order_NodesFirst ==
    <<"analyze", "tombstone", "nodes", "actor", "node", "join", "apply",
      "blocks", "report", "exit">>

(* Faulty: the blocks are written before the flags are applied.            *)
Order_BlocksFirst ==
    <<"analyze", "actor", "node", "nodes", "tombstone", "join", "blocks",
      "apply", "report", "exit">>

Order == IF Threaded
         THEN <<"analyze", "tombstone", "actor", "node", "nodes", "join",
                "apply", "blocks", "report", "exit">>
         ELSE <<"analyze", "actor", "node", "nodes", "tombstone", "join",
                "apply", "blocks", "report", "exit">>

Advance(from) ==
    /\ phase = from
    /\ \E i \in 1 .. 9 : Order[i] = from /\ phase' = Order[i + 1]

(* Faulty: the flushes begin when idle_wait returns.                       *)
JoinThreads_NotJoined ==
    /\ Advance("analyze")
    /\ main \in {"join", "joined"}
    /\ UNCHANGED <<world, feedVars, preserveVars, blockVars, writing, txn, db>>

JoinThreads ==
    /\ Advance("analyze")
    /\ main = "joined"
    /\ UNCHANGED <<world, feedVars, preserveVars, blockVars, writing, txn, db>>

SetTombstone ==
    /\ Advance("tombstone")
    /\ Preserve!SetTombstone
    /\ UNCHANGED <<world, feedVars, blockVars, writing, txn, db>>

(* One of the four flushes: Begin, and a row for everything that is queued.*)
Flush(table, tables) ==
    /\ phase = table
    /\ ~ writing
    /\ writing' = TRUE
    /\ txn' = tables
    /\ UNCHANGED <<world, feedVars, preserveVars, stage, node_ids, actor_ids,
                   block_data, phase, db>>

FlushActorIdMap ==
    /\ Flush("actor", [db EXCEPT !.actor = actor_ids])
    /\ UNCHANGED <<node_queue, block_queue>>

FlushNodeIdMap ==
    /\ Flush("node", [db EXCEPT !.node = node_ids])
    /\ UNCHANGED <<node_queue, block_queue>>

FlushNodeQueue ==
    /\ node_queue # {}
    /\ Flush("nodes", [db EXCEPT !.nodes = node_queue,
                                 !.inventory = InventoryRows(node_queue)])
    /\ node_queue' = {}
    /\ UNCHANGED block_queue

(* No transaction is opened for an empty queue.                            *)
NoNodesToFlush ==
    /\ node_queue = {}
    /\ ~ writing
    /\ Advance("nodes")
    /\ UNCHANGED <<world, feedVars, preserveVars, blockVars, writing, txn, db>>

BlockRow(p) == [pos |-> p, uniform |-> Ref(block_data, p).uniform,
                anthropocene |-> Ref(block_data, p).anthropocene,
                preserve |-> Ref(block_data, p).preserve]

FlushBlockQueue ==
    /\ Flush("blocks", [db EXCEPT !.blocks = {BlockRow(p) : p \in block_queue}])
    /\ block_queue' = {}
    /\ UNCHANGED node_queue

Commit ==
    /\ writing
    /\ Advance(phase)
    /\ writing' = FALSE
    /\ db' = txn
    /\ UNCHANGED <<world, feedVars, preserveVars, blockVars, txn>>

(* Faulty: the merge thread is not joined.                                 *)
JoinMerger_NotJoined ==
    /\ Advance("join")
    /\ UNCHANGED <<world, feedVars, preserveVars, blockVars, writing, txn, db>>

(* preserve_thread.join(), or the return of MergeThread.                   *)
JoinMerger ==
    /\ Advance("join")
    /\ merger = "done"
    /\ UNCHANGED <<world, feedVars, preserveVars, blockVars, writing, txn, db>>

ApplyPreserveFlags ==
    /\ Advance("apply")
    /\ Preserve!SurrenderFinalSet
    /\ block_data' = [p \in DOMAIN block_data \union final_queue |->
                        [Ref(block_data, p) EXCEPT
                            !.preserve = @ \/ p \in final_queue]]
    /\ UNCHANGED <<world, feedVars, stage, node_ids, actor_ids, node_queue,
                   block_queue, writing, txn, db>>

(* Run writes the statistics and the line "Processed ... blocks", also     *)
(* after an error that RunSerially has caught, and main returns 0.         *)
Report ==
    /\ Advance("report") \/ (phase = "failed" /\ phase' = "exit")
    /\ UNCHANGED <<world, feedVars, preserveVars, blockVars, writing, txn, db>>

MainStep == \/ JoinThreads \/ SetTombstone \/ FlushActorIdMap \/ FlushNodeIdMap
            \/ FlushNodeQueue \/ NoNodesToFlush \/ JoinMerger
            \/ ApplyPreserveFlags \/ FlushBlockQueue \/ Commit

-----------------------------------------------------------------------------
(* Failures.  The tables of a transaction that is not committed are lost.  *)

(* An exception no thread catches ends the process (std::terminate).       *)
MalformedBlock(c) == consumer[c] = "load" /\ Block(c).kind = "malformed"

(* A database throws while it is read or written.  RunSerially catches a   *)
(* Sqlite3Error and logs it; an error of libpqxx is none.  RunThreaded and *)
(* the threads catch neither.                                              *)
DatabaseInUse == \/ producer = "scanning"
                 \/ \E c \in Consumers : consumer[c] = "load"
                 \/ writing

Stop(how) == /\ phase' = how
             /\ UNCHANGED <<world, feedVars, preserveVars, blockVars, writing, txn, db>>

Fail == \/ \E c \in Consumers : MalformedBlock(c) /\ Stop("aborted")
        \/ DatabaseInUse /\ Stop("aborted")
        \/ DatabaseInUse /\ ~ Threaded /\ Stop("failed")

(* The process is killed.                                                  *)
Kill == Stop("aborted")

-----------------------------------------------------------------------------
Running == phase \notin Over

Terminated == phase \in Ended /\ UNCHANGED vars

Next == \/ Running /\ ( \/ FeedStep
                        \/ \E c \in Consumers : Consumer(c)
                        \/ MergeStep
                        \/ MainStep
                        \/ Fail )
        \/ Report
        \/ phase \notin Ended /\ Kill
        \/ Terminated

(* Every thread that can run is run; timeouts, spurious wakeups, database  *)
(* errors and kills need not happen.  A consumer that has loaded a         *)
(* malformed block does fail.                                              *)
OnRun(A) == Running /\ A
Untouched == UNCHANGED <<world, preserveVars, blockVars, outVars>>

Fairness ==
    /\ WF_vars(OnRun(Feed!Producer /\ Untouched))
    /\ WF_vars(OnRun(Feed!MainStep /\ Untouched))
    /\ \A c \in Consumers :
         WF_vars(OnRun(Consumer(c) \/ (MalformedBlock(c) /\ Stop("aborted"))))
    /\ WF_vars(OnRun(Preserve!MergeThread /\ MergeStep))
    /\ WF_vars(OnRun(MainStep))
    /\ WF_vars(Report)

Spec == Init /\ [][Next]_vars
FairSpec == Spec /\ Fairness

-----------------------------------------------------------------------------
(* Properties.                                                             *)

(* Whatever was committed when the process ends, at any moment, refers to  *)
(* nothing that is missing: the schema has no foreign keys                 *)
(* (schema-data.sql:3-4), the order of the flushes stands in for them.     *)
DatabaseIsClosed ==
    /\ \A row \in db.nodes : row.node.owner \in db.actor /\ row.node.name \in db.node
    /\ \A row \in db.inventory : [pos |-> row.pos, node |-> row.node] \in db.nodes
    /\ \A row \in db.blocks : row.uniform \in db.node

(* The structures that are read without a lock are read when nobody writes *)
(* them any more: node_queue_ (data_writer.cc:73), the entries of          *)
(* block_data_ and final_queue_ after the merge thread's return.           *)
UnlockedReadsAreAlone ==
    /\ (writing /\ phase = "nodes") \/ phase \in {"apply", "blocks"} =>
         \A c \in Consumers : consumer[c] = "done" /\ anthropocene_list[c] = <<>>
    /\ phase \in {"apply", "blocks"} => merger = "done" /\ packet = <<>>

(* No two consumers write one entry of block_data_ through the unlocked    *)
(* references of HashMap::Ref.                                             *)
EntriesHaveOneWriter ==
    \A c, d \in Consumers :
        stage[c] = "record" /\ stage[d] = "record" /\ key[c] = key[d] => c = d

(* The program ends: it exits, or it is aborted.                           *)
ProgramEnds == <>(phase \in Ended)

(* The program implements Analysis: the output is a function of the world, *)
(* and main returns 0 with the complete output, or after it has logged an  *)
(* error, which a threaded run never does.                                 *)
Result == INSTANCE Analysis WITH outcome <- IF phase \in Over THEN phase ELSE "running"

ResultSpec == Result!Spec

(* A bones:bones node is a row of the nodes table: consumer.cc:69 records  *)
(* bones whatever they hold, bones-by-player.sql:5 looks for that name.    *)
BonesAreRecorded ==
    phase = "report" =>
        \A p \in Keys : world[p].kind = "ok" =>
            \A node \in world[p].nodes :
                node.name = "bones:bones" => [pos |-> p, node |-> node] \in db.nodes
=============================================================================
