---------------------------- MODULE Analysis_proof ----------------------------
(***************************************************************************)
(* App implements Analysis: whatever the threads do, what is in memory     *)
(* after the joins is a function of the world, and the transactions write  *)
(* it, table by table, in an order in which no row refers to a missing one.*)
(***************************************************************************)
EXTENDS App_proof

USE KeysAssumption, ThreadsAssumption, BatchAssumption, NotYetAssumption,
    WorldsAssumption

-----------------------------------------------------------------------------
(* What the consumers have made of the blocks so far, as sets of blocks.   *)

Past(stages) == {p \in handled : world[p].kind = "ok"}
                    \union {key[c] : c \in {d \in Consumers : stage[d] \in stages}}

Seen == handled \union {key[c] : c \in {d \in Consumers : stage[d] # "idle"}}
Recorded == Past({"record", "list", "note"})
Entered == Past({"list", "note"})
ToWrite == Past({"note"})

LEMMA ConsumersAnalyze ==
    ASSUME QueuesInv, StageInv, Running, NEW c \in Consumers, Consumer(c)
    PROVE  phase = "analyze" /\ UNCHANGED <<world, phase, writing, txn, db>>
<1>1. consumer[c] # "done"
  BY DEF Consumer, Pop, Reject, Accept, EnqueueNodes, RecordBlock, EnqueueMapBlockPos,
        FinishBlock, ConsumerExit, At, StageInv, Feed!PopWait, Feed!PopKey, Feed!PopTombstone,
        Feed!Popping, Feed!FinishBlock, Feed!ConsumerExit
<1>2. phase = "analyze"
  BY <1>1, FeedFacts DEF QueuesInv, LinkInv, Running
<1> QED BY <1>2 DEF Consumer, Pop, Reject, Accept, EnqueueNodes, RecordBlock,
        EnqueueMapBlockPos, FinishBlock, ConsumerExit, outVars

(* How the sets grow.                                                      *)
SameSets == UNCHANGED <<Seen, Recorded, Entered, ToWrite>>

LEMMA SetsGrow ==
    ASSUME QueuesInv, StageInv, NEW c \in Consumers
    PROVE  /\ Pop(c) => SameSets
           /\ Reject(c) \/ Accept(c) =>
                 Seen' = Seen \union {key[c]} /\ UNCHANGED <<Recorded, Entered, ToWrite>>
           /\ EnqueueNodes(c) =>
                 Recorded' = Recorded \union {key[c]} /\ UNCHANGED <<Seen, Entered, ToWrite>>
           /\ RecordBlock(c) =>
                 Entered' = Entered \union {key[c]} /\ UNCHANGED <<Seen, Recorded, ToWrite>>
           /\ EnqueueMapBlockPos(c) =>
                 ToWrite' = ToWrite \union {key[c]} /\ UNCHANGED <<Seen, Recorded, Entered>>
           /\ FinishBlock(c) => SameSets
           /\ ConsumerExit(c) => SameSets
<1> USE DEF SameSets, Seen, Recorded, Entered, ToWrite, Past
<1>0. /\ consumer \in [Consumers -> {"pop", "load", "work", "exit", "done"}]
      /\ key \in [Consumers -> Keys \union {NoKey}]
      /\ stage \in [Consumers -> Stages]
      /\ \A d \in Consumers : stage[d] # "idle" <=> consumer[d] = "work"
      /\ \A d \in Consumers : stage[d] # "idle" => world[key[d]].kind = "ok"
      /\ \A d, e \in Consumers : consumer[d] \in {"load", "work"} /\ key[d] = key[e] => d = e
  BY FeedFacts DEF QueuesInv, StageInv, Block
<1>1. ASSUME Pop(c) PROVE SameSets
  <2>1. /\ stage[c] = "idle" /\ UNCHANGED <<stage, handled, world>>
        /\ \A d \in Consumers \ {c} : key'[d] = key[d]
    BY <1>0, <1>1 DEF Pop, blockVars, Feed!PopWait, Feed!PopKey, Feed!PopTombstone,
        Feed!Popping, Feed!consumerVars
  <2> QED BY <1>0, <2>1
<1>2. ASSUME Reject(c)
      PROVE  Seen' = Seen \union {key[c]} /\ UNCHANGED <<Recorded, Entered, ToWrite>>
  <2>1. /\ stage[c] = "idle" /\ UNCHANGED <<stage, world>> /\ world[key[c]].kind # "ok"
        /\ handled' = handled \union {key[c]}
        /\ \A d \in Consumers \ {c} : key'[d] = key[d]
    BY <1>0, <1>2 DEF Reject, Block, Feed!RejectBlock, Feed!Release
  <2> QED BY <1>0, <2>1
<1>3. ASSUME Accept(c)
      PROVE  Seen' = Seen \union {key[c]} /\ UNCHANGED <<Recorded, Entered, ToWrite>>
  <2>1. /\ stage[c] = "idle" /\ stage' = [stage EXCEPT ![c] = "nodes"]
        /\ UNCHANGED <<handled, key, world>>
    BY <1>0, <1>3 DEF Accept, Feed!AcceptBlock
  <2> QED BY <1>0, <2>1
<1>4. ASSUME EnqueueNodes(c)
      PROVE  Recorded' = Recorded \union {key[c]} /\ UNCHANGED <<Seen, Entered, ToWrite>>
  <2>1. /\ stage[c] = "nodes" /\ stage' = [stage EXCEPT ![c] = "record"]
        /\ UNCHANGED <<handled, key, world>>
    BY <1>0, <1>4 DEF EnqueueNodes, At, feedVars
  <2> QED BY <1>0, <2>1
<1>5. ASSUME RecordBlock(c)
      PROVE  Entered' = Entered \union {key[c]} /\ UNCHANGED <<Seen, Recorded, ToWrite>>
  <2>1. /\ stage[c] = "record" /\ stage' = [stage EXCEPT ![c] = "list"]
        /\ UNCHANGED <<handled, key, world>>
    BY <1>0, <1>5 DEF RecordBlock, At, feedVars
  <2> QED BY <1>0, <2>1
<1>6. ASSUME EnqueueMapBlockPos(c)
      PROVE  ToWrite' = ToWrite \union {key[c]} /\ UNCHANGED <<Seen, Recorded, Entered>>
  <2>1. /\ stage[c] = "list" /\ stage' = [stage EXCEPT ![c] = "note"]
        /\ UNCHANGED <<handled, key, world>>
    BY <1>0, <1>6 DEF EnqueueMapBlockPos, At, feedVars
  <2> QED BY <1>0, <2>1
<1>7. ASSUME FinishBlock(c) PROVE SameSets
  <2>1. /\ stage[c] = "note" /\ stage' = [stage EXCEPT ![c] = "idle"]
        /\ handled' = handled \union {key[c]} /\ UNCHANGED world
        /\ \A d \in Consumers \ {c} : key'[d] = key[d]
    BY <1>0, <1>7 DEF FinishBlock, At, Feed!FinishBlock, Feed!Release
  <2> QED BY <1>0, <2>1
<1>8. ASSUME ConsumerExit(c) PROVE SameSets
  BY <1>8 DEF ConsumerExit, Feed!ConsumerExit, blockVars
<1> QED BY <1>1, <1>2, <1>3, <1>4, <1>5, <1>6, <1>7, <1>8

(* After the joins they are all the blocks there are.                      *)
Analyzed == {p \in Keys : world[p].kind = "ok"}

LEMMA AllAnalyzed ==
    ASSUME QueuesInv, StageInv, Running, phase # "analyze" \/ main = "joined"
    PROVE  /\ Seen = Keys /\ Recorded = Analyzed /\ Entered = Analyzed /\ ToWrite = Analyzed
           /\ handled = Keys
           /\ \A c \in Consumers : stage[c] = "idle"
<1>1. main = "joined"
  BY DEF QueuesInv, LinkInv, Running, Over, Ended
<1>2. handled = Keys /\ \A c \in Consumers : consumer[c] = "done"
  BY <1>1, FeedFacts DEF QueuesInv
<1>3. \A c \in Consumers : stage[c] = "idle"
  BY <1>2 DEF StageInv
<1> QED BY <1>2, <1>3 DEF Seen, Recorded, Entered, ToWrite, Past, Analyzed

(* What the blocks of a set come to.                                       *)
NamesOf(S) == PreregisteredNames \union UNION {world[p].names : p \in S}
OwnersOf(S) == PreregisteredActors \union UNION {Owners(world[p]) : p \in S}
RowsOf(S) == UNION {NodeRows(p, world[p]) : p \in S}
Entry(p, kept) == [uniform |-> Uniform(world[p]),
                   anthropocene |-> IsAnthropocene(world[p]),
                   preserve |-> kept]

LEMMA OneBlockMore ==
    ASSUME NEW S, NEW p
    PROVE  /\ NamesOf(S \union {p}) = NamesOf(S) \union world[p].names
           /\ OwnersOf(S \union {p}) = OwnersOf(S) \union Owners(world[p])
           /\ RowsOf(S \union {p}) = RowsOf(S) \union NodeRows(p, world[p])
<1>1. NamesOf(S \union {p}) = NamesOf(S) \union world[p].names
  BY DEF NamesOf
<1>2. OwnersOf(S \union {p}) = OwnersOf(S) \union Owners(world[p])
  BY DEF OwnersOf
<1>3. RowsOf(S \union {p}) = RowsOf(S) \union NodeRows(p, world[p])
  BY DEF RowsOf
<1> QED BY <1>1, <1>2, <1>3

NodesToCome == \/ phase \in {"analyze", "actor", "node"}
               \/ phase = "tombstone" /\ Threaded
               \/ phase = "nodes" /\ ~ writing
BlocksToCome == /\ phase \notin {"report"} \union Over
                /\ ~ (phase = "blocks" /\ writing)

(* What is in memory, as a function of the blocks done so far.             *)
MemoryInv ==
    /\ node_ids = NamesOf(Seen)
    /\ actor_ids = OwnersOf(Recorded)
    /\ NodesToCome => node_queue = RowsOf(Recorded)
    /\ noted = {p \in handled : world[p].kind = "ok" /\ IsAnthropocene(world[p])}
    /\ phase \in BeforeApply => /\ DOMAIN block_data = Entered
                                /\ \A p \in Entered : block_data[p] = Entry(p, FALSE)
    /\ phase = "blocks" =>
         \A p \in Analyzed : /\ p \in DOMAIN block_data
                             /\ block_data[p] = Entry(p, p \in PreserveQ!PreservedBy(noted))
    /\ BlocksToCome => block_queue = ToWrite

LEMMA MemoryInit == Init => MemoryInv
<1> SUFFICES ASSUME Init PROVE MemoryInv
  OBVIOUS
<1>1. handled = {} /\ \A c \in Consumers : stage[c] = "idle"
  BY DEF Init, Feed!Init
<1>2. Seen = {} /\ Recorded = {} /\ Entered = {} /\ ToWrite = {}
  BY <1>1 DEF Seen, Recorded, Entered, ToWrite, Past
<1>3. NamesOf({}) = PreregisteredNames /\ OwnersOf({}) = PreregisteredActors /\ RowsOf({}) = {}
  BY DEF NamesOf, OwnersOf, RowsOf
<1>4. DOMAIN block_data = {}
  BY DEF Init
<1>5. noted = {}
  BY DEF Init, Preserve!Init
<1> QED BY <1>1, <1>2, <1>3, <1>4, <1>5 DEF Init, MemoryInv

(* A consumer adds its block to one of the structures at a time.           *)
LEMMA MemoryConsumer ==
    ASSUME QueuesInv, StageInv, MemoryInv, Running, NEW c \in Consumers, Consumer(c)
    PROVE  MemoryInv'
<1> USE DEF MemoryInv
<1>0. /\ phase = "analyze" /\ UNCHANGED <<world, phase, writing>>
      /\ phase \in BeforeApply /\ NodesToCome' /\ BlocksToCome'
      /\ NodesToCome /\ BlocksToCome
  BY ConsumersAnalyze DEF NodesToCome, BlocksToCome, BeforeApply, Phases, Over, Ended
<1>1. \A S : NamesOf(S)' = NamesOf(S) /\ OwnersOf(S)' = OwnersOf(S) /\ RowsOf(S)' = RowsOf(S)
  BY <1>0 DEF NamesOf, OwnersOf, RowsOf
<1>2. \A p, kept : Entry(p, kept)' = Entry(p, kept)
  BY <1>0 DEF Entry
<1>3. ASSUME SameSets, UNCHANGED <<noted, handled, blockVars>> PROVE MemoryInv'
  BY <1>0, <1>1, <1>2, <1>3 DEF SameSets, blockVars
<1>4. CASE Pop(c)
  <2>1. UNCHANGED <<noted, handled, blockVars>>
    BY <1>4 DEF Pop, preserveVars, Feed!PopWait, Feed!PopKey, Feed!PopTombstone,
        Feed!consumerVars
  <2> QED BY <1>3, <1>4, <2>1, SetsGrow
<1>5. CASE Reject(c) \/ Accept(c)
  <2>1. /\ node_ids' = node_ids \union world[key[c]].names
        /\ UNCHANGED <<noted, actor_ids, node_queue, block_data, block_queue>>
        /\ handled' = handled \/ (handled' = handled \union {key[c]} /\ Block(c).kind # "ok")
    BY <1>5 DEF Reject, Accept, Block, preserveVars, Feed!RejectBlock, Feed!AcceptBlock, Feed!Release
  <2>2. Seen' = Seen \union {key[c]} /\ UNCHANGED <<Recorded, Entered, ToWrite>>
    BY <1>5, SetsGrow
  <2>3. node_ids' = NamesOf(Seen \union {key[c]})
    BY <2>1, OneBlockMore
  <2>4. noted' = {p \in handled' : world[p].kind = "ok" /\ IsAnthropocene(world[p])}
    BY <2>1 DEF Block
  <2> QED BY <1>0, <1>1, <1>2, <2>1, <2>2, <2>3, <2>4
<1>6. CASE EnqueueNodes(c)
  <2>1. /\ actor_ids' = actor_ids \union Owners(world[key[c]])
        /\ node_queue' = node_queue \union NodeRows(key[c], world[key[c]])
        /\ UNCHANGED <<noted, handled, node_ids, block_data, block_queue>>
    BY <1>6 DEF EnqueueNodes, Block, preserveVars, feedVars
  <2>2. Recorded' = Recorded \union {key[c]} /\ UNCHANGED <<Seen, Entered, ToWrite>>
    BY <1>6, SetsGrow
  <2>3. actor_ids' = OwnersOf(Recorded \union {key[c]})
    BY <2>1, OneBlockMore
  <2>4. node_queue' = RowsOf(Recorded \union {key[c]})
    <3>1. node_queue = RowsOf(Recorded)
      BY <1>0
    <3>2. RowsOf(Recorded \union {key[c]}) = RowsOf(Recorded) \union NodeRows(key[c], world[key[c]])
      BY OneBlockMore
    <3> QED BY <2>1, <3>1, <3>2
  <2> QED BY <1>0, <1>1, <1>2, <2>1, <2>2, <2>3, <2>4
<1>7. CASE RecordBlock(c)
  <2>1. /\ DOMAIN block_data' = DOMAIN block_data \union {key[c]}
        /\ \A p \in DOMAIN block_data \ {key[c]} : block_data'[p] = block_data[p]
        /\ block_data'[key[c]] =
             [Ref(block_data, key[c]) EXCEPT !.uniform = Uniform(world[key[c]]),
                                             !.anthropocene = IsAnthropocene(world[key[c]])]
        /\ UNCHANGED <<noted, handled, node_ids, actor_ids, node_queue, block_queue>>
    BY <1>7 DEF RecordBlock, Block, preserveVars, feedVars
  <2>2. Entered' = Entered \union {key[c]} /\ UNCHANGED <<Seen, Recorded, ToWrite>>
    BY <1>7, SetsGrow
  <2>3. PICK u, a : Ref(block_data, key[c])
                      = [uniform |-> u, anthropocene |-> a, preserve |-> FALSE]
    <3>1. CASE key[c] \in DOMAIN block_data
      <4>1. Ref(block_data, key[c]) = Entry(key[c], FALSE)
        BY <1>0, <3>1 DEF Ref
      <4> QED BY ONLY <4>1 DEF Entry
    <3>2. CASE key[c] \notin DOMAIN block_data
      BY ONLY <3>2 DEF Ref
    <3> QED BY <3>1, <3>2
  <2>4. block_data'[key[c]] = Entry(key[c], FALSE)
    <3> DEFINE uniform == Uniform(world[key[c]])
               anthropocene == IsAnthropocene(world[key[c]])
               no == FALSE
               one == [Ref(block_data, key[c]) EXCEPT !.uniform = uniform]
               two == [one EXCEPT !.anthropocene = anthropocene]
    <3>1. Ref(block_data, key[c]) = [uniform |-> u, anthropocene |-> a, preserve |-> no]
      BY <2>3
    <3>2. /\ block_data'[key[c]] = two
          /\ Entry(key[c], no)
               = [uniform |-> uniform, anthropocene |-> anthropocene, preserve |-> no]
      BY <2>1 DEF Entry
    <3> HIDE DEF uniform, anthropocene, no
    <3>3. one = [uniform |-> uniform, anthropocene |-> a, preserve |-> no]
      BY <3>1
    <3>4. two = [uniform |-> uniform, anthropocene |-> anthropocene, preserve |-> no]
      <4> HIDE DEF one
      <4> QED BY <3>3
    <3> QED BY <3>2, <3>4 DEF no
  <2>5. DOMAIN block_data' = Entered' /\ \A p \in Entered' : block_data'[p] = Entry(p, FALSE)
    BY <1>0, <2>1, <2>2, <2>4
  <2> QED BY <1>0, <1>1, <1>2, <2>1, <2>2, <2>5
<1>8. CASE EnqueueMapBlockPos(c)
  <2>1. /\ block_queue' = block_queue \union {key[c]}
        /\ UNCHANGED <<noted, handled, node_ids, actor_ids, node_queue, block_data>>
    BY <1>8 DEF EnqueueMapBlockPos, preserveVars, feedVars
  <2>2. ToWrite' = ToWrite \union {key[c]} /\ UNCHANGED <<Seen, Recorded, Entered>>
    BY <1>8, SetsGrow
  <2> QED BY <1>0, <1>1, <1>2, <2>1, <2>2
<1>9. CASE FinishBlock(c)
  <2>1. /\ handled' = handled \union {key[c]}
        /\ IF IsAnthropocene(world[key[c]]) THEN noted' = noted \union {key[c]}
                                            ELSE noted' = noted
        /\ stage[c] = "note"
        /\ UNCHANGED <<node_ids, actor_ids, node_queue, block_data, block_queue>>
    BY <1>9 DEF FinishBlock, At, Block, Feed!FinishBlock, Feed!Release,
        Preserve!NoteAnthropocene, preserveVars
  <2>2. world[key[c]].kind = "ok"
    BY <2>1 DEF StageInv, Block
  <2>3. noted' = {p \in handled' : world[p].kind = "ok" /\ IsAnthropocene(world[p])}
    BY <2>1, <2>2
  <2>4. SameSets
    BY <1>9, SetsGrow
  <2> QED BY <1>0, <1>1, <1>2, <2>1, <2>3, <2>4 DEF SameSets
<1>10. CASE ConsumerExit(c)
  <2>1. UNCHANGED <<noted, handled, blockVars>>
    BY <1>10 DEF ConsumerExit, Preserve!CloseList, Feed!ConsumerExit
  <2> QED BY <1>3, <1>10, <2>1, SetsGrow
<1> QED BY <1>4, <1>5, <1>6, <1>7, <1>8, <1>9, <1>10 DEF Consumer

LEMMA TakenWhole == PreserveQ!QueueInv => PreserveQ!SurrenderedIsWhole
BY PreserveQ!WholeWhenTaken, InstanceAssumptions

(* The flags are applied when the merge thread is done: to all entries.    *)
LEMMA MemoryApply ==
    ASSUME QueuesInv, QueuesInv', StageInv, MemoryInv, Running, ApplyPreserveFlags
    PROVE  /\ \A p \in Analyzed :
                 /\ p \in DOMAIN block_data'
                 /\ block_data'[p] = Entry(p, p \in PreserveQ!PreservedBy(noted))
           /\ UNCHANGED <<world, noted>>
<1>1. /\ phase = "apply" /\ phase' = "blocks" /\ Preserve!SurrenderFinalSet
      /\ UNCHANGED world
  BY AdvanceTo DEF ApplyPreserveFlags
<1>2. Entered = Analyzed
  BY <1>1, AllAnalyzed
<1>3. DOMAIN block_data = Analyzed /\ \A p \in Analyzed : block_data[p] = Entry(p, FALSE)
  BY <1>1, <1>2 DEF MemoryInv, BeforeApply, Phases, Over, Ended
<1>4. surrendered' = final_queue /\ UNCHANGED noted
  BY <1>1 DEF Preserve!SurrenderFinalSet, Preserve!listVars
<1>5. final_queue = PreserveQ!PreservedBy(noted)
  <2>1. final_queue \in SUBSET PreserveQ!PreservedBy(Keys)
    BY DEF QueuesInv, PreserveQ!QueueInv, PreserveQ!TypeOK
  <2>2. surrendered' # NotYet
    BY <1>4, <2>1, InstanceAssumptions
  <2>3. PreserveQ!SurrenderedIsWhole'
    <3>1. PreserveQ!QueueInv'
      BY DEF QueuesInv
    <3> QED BY <3>1, TakenWhole, PTL
  <2>4. surrendered' = PreserveQ!PreservedBy(noted')
    BY <2>2, <2>3 DEF PreserveQ!SurrenderedIsWhole, PreserveQ!PreservedBy
  <2> QED BY <1>4, <2>4
<1>6. ASSUME NEW p \in Analyzed
      PROVE  /\ p \in DOMAIN block_data'
             /\ block_data'[p] = Entry(p, p \in PreserveQ!PreservedBy(noted))
  <2> DEFINE uniform == Uniform(world[p])
             anthropocene == IsAnthropocene(world[p])
             no == FALSE
             kept == p \in final_queue
             mine == Ref(block_data, p)
  <2>1. mine = [uniform |-> uniform, anthropocene |-> anthropocene, preserve |-> no]
    BY <1>3 DEF Ref, Entry
  <2>2. /\ p \in DOMAIN block_data'
        /\ block_data'[p] = [mine EXCEPT !.preserve = mine.preserve \/ kept]
    BY <1>3 DEF ApplyPreserveFlags
  <2>3. Entry(p, kept)
          = [uniform |-> uniform, anthropocene |-> anthropocene, preserve |-> kept]
    BY DEF Entry
  <2>4. mine.preserve = FALSE
    BY <2>1
  <2>5. (mine.preserve \/ kept) = kept
    BY <2>4
  <2>6. block_data'[p] = [mine EXCEPT !.preserve = kept]
    BY <2>2, <2>5
  <2> HIDE DEF uniform, anthropocene, no, kept, mine
  <2>7. [mine EXCEPT !.preserve = kept]
          = [uniform |-> uniform, anthropocene |-> anthropocene, preserve |-> kept]
    BY <2>1
  <2>8. block_data'[p] = Entry(p, kept)
    BY <2>3, <2>6, <2>7
  <2> QED BY <1>5, <2>2, <2>8 DEF kept
<1> QED BY <1>1, <1>4, <1>6

LEMMA MemoryNext ==
    ASSUME QueuesInv, QueuesInv', StageInv, MemoryInv, [Next]_vars
    PROVE  MemoryInv'
<1> USE DEF MemoryInv
<1> DEFINE SameBlocks == UNCHANGED <<world, handled, key, stage, noted>>
           SameMemory == UNCHANGED <<node_ids, actor_ids, node_queue, block_data, block_queue>>
<1>1. ASSUME SameBlocks
      PROVE  /\ SameSets
             /\ \A S : NamesOf(S)' = NamesOf(S) /\ OwnersOf(S)' = OwnersOf(S)
                       /\ RowsOf(S)' = RowsOf(S)
             /\ \A p, kept : Entry(p, kept)' = Entry(p, kept)
             /\ Analyzed' = Analyzed
             /\ \A S : PreserveQ!PreservedBy(S)' = PreserveQ!PreservedBy(S)
             /\ noted' = {p \in handled' : world'[p].kind = "ok" /\ IsAnthropocene(world'[p])}
  BY <1>1 DEF SameSets, Seen, Recorded, Entered, ToWrite, Past, NamesOf, OwnersOf, RowsOf,
        Entry, Analyzed, PreserveQ!PreservedBy
<1>2. ASSUME SameBlocks, SameMemory, UNCHANGED <<phase, writing>> PROVE MemoryInv'
  BY <1>1, <1>2 DEF SameSets, NodesToCome, BlocksToCome
<1>3. ASSUME SameBlocks, SameMemory, phase' \in Over PROVE MemoryInv'
  BY <1>1, <1>3 DEF SameSets, NodesToCome, BlocksToCome, BeforeApply, Over, Ended
<1>4. ASSUME Running, NEW c \in Consumers, Consumer(c) PROVE MemoryInv'
  BY <1>4, MemoryConsumer
<1>5. CASE FeedStep
  <2>1. SameBlocks
    BY <1>5 DEF FeedStep, preserveVars, blockVars, Feed!Producer, Feed!ScanRow, Feed!Enqueue,
          Feed!SetTombstone, Feed!MainStep, Feed!IdleWait, Feed!Progress, Feed!ProgressStart,
          Feed!ProgressGood, Feed!ProgressBad, Feed!ProgressRemaining, Feed!JoinAll,
          Feed!IdleTimeout, Feed!SpuriousWakeup, Feed!consumerVars
  <2>2. SameMemory /\ UNCHANGED <<phase, writing>>
    BY <1>5 DEF FeedStep, blockVars, outVars
  <2> QED BY <1>2, <2>1, <2>2
<1>6. CASE MergeStep
  <2>1. UNCHANGED noted
    BY <1>6 DEF MergeStep, Preserve!MergeThread, Preserve!SpuriousMergeWakeup,
          Preserve!MergeWait, Preserve!MergePop, Preserve!DoMerge, Preserve!MergeExit,
          Preserve!Checking, Preserve!listVars
  <2>2. SameBlocks /\ SameMemory /\ UNCHANGED <<phase, writing>>
    BY <1>6, <2>1 DEF MergeStep, feedVars, blockVars, outVars
  <2> QED BY <1>2, <2>2
<1>7. CASE Fail \/ Report \/ Kill
  <2>1. SameBlocks /\ SameMemory /\ phase' \in Over
    BY <1>7, Endings DEF feedVars, preserveVars, blockVars
  <2> QED BY <1>3, <2>1
<1>8. CASE UNCHANGED vars
  BY <1>2, <1>8 DEF vars, feedVars, preserveVars, blockVars, outVars
<1>9. CASE Running /\ MainStep
  <2>1. SameBlocks
    BY <1>9 DEF MainStep, JoinThreads, SetTombstone, Flush, FlushActorIdMap, FlushNodeIdMap,
          FlushNodeQueue, NoNodesToFlush, JoinMerger, ApplyPreserveFlags, FlushBlockQueue,
          Commit, feedVars, preserveVars, blockVars, Preserve!SetTombstone,
          Preserve!SurrenderFinalSet, Preserve!listVars, Preserve!mergeVars
  <2>2. CASE JoinThreads \/ SetTombstone \/ JoinMerger \/ NoNodesToFlush
    <3>1. /\ SameMemory /\ UNCHANGED writing /\ phase # "apply" /\ Advance(phase)
          /\ phase \notin {"actor", "node", "blocks"} /\ ~ (phase = "nodes" /\ writing)
      BY <2>2, AdvanceTo DEF JoinThreads, SetTombstone, JoinMerger, NoNodesToFlush, blockVars
    <3> QED BY <1>1, <2>1, <3>1, AdvanceTo DEF SameSets, NodesToCome, BlocksToCome,
          BeforeApply, Phases, Over, Ended
  <2>3. CASE Commit
    <3>1. SameMemory /\ writing /\ ~ writing' /\ Advance(phase)
          /\ phase \in {"actor", "node", "nodes", "blocks"}
      BY <1>9, <2>3 DEF Commit, blockVars, QueuesInv, LinkInv, Running
    <3> QED BY <1>1, <2>1, <3>1, AdvanceTo DEF SameSets, NodesToCome, BlocksToCome,
          BeforeApply, Phases, Over, Ended
  <2>4. CASE FlushActorIdMap \/ FlushNodeIdMap
    <3>1. SameMemory /\ UNCHANGED phase /\ phase \in {"actor", "node"}
      BY <2>4 DEF FlushActorIdMap, FlushNodeIdMap, Flush
    <3> QED BY <1>1, <2>1, <3>1 DEF SameSets, NodesToCome, BlocksToCome
  <2>5. CASE FlushNodeQueue \/ FlushBlockQueue
    <3>1. /\ UNCHANGED <<node_ids, actor_ids, block_data, phase>> /\ writing'
          /\ \/ phase = "nodes" /\ UNCHANGED block_queue
             \/ phase = "blocks" /\ UNCHANGED node_queue
      BY <2>5 DEF FlushNodeQueue, FlushBlockQueue, Flush
    <3> QED BY <1>1, <2>1, <3>1 DEF SameSets, NodesToCome, BlocksToCome
  <2>6. CASE ApplyPreserveFlags
    <3>1. /\ phase = "apply" /\ phase' = "blocks" /\ UNCHANGED writing
          /\ UNCHANGED <<node_ids, actor_ids, node_queue, block_queue>>
      BY <2>6, AdvanceTo DEF ApplyPreserveFlags
    <3>2. ~ writing
      BY <1>9, <3>1 DEF QueuesInv, LinkInv, Running, Over, Ended
    <3>3. \A p \in Analyzed : /\ p \in DOMAIN block_data'
                              /\ block_data'[p] = Entry(p, p \in PreserveQ!PreservedBy(noted))
      BY <1>9, <2>6, MemoryApply
    <3> QED BY <1>1, <2>1, <3>1, <3>2, <3>3 DEF SameSets, NodesToCome, BlocksToCome,
          BeforeApply, Phases, Over, Ended
  <2> QED BY <1>9, <2>2, <2>3, <2>4, <2>5, <2>6 DEF MainStep
<1> QED BY <1>4, <1>5, <1>6, <1>7, <1>8, <1>9 DEF Next, Terminated

-----------------------------------------------------------------------------
(* The output tables.                                                      *)

Settled == {p \in Analyzed : IsAnthropocene(world[p])}
AllBlocks == {[pos |-> p,
               uniform |-> Uniform(world[p]),
               anthropocene |-> IsAnthropocene(world[p]),
               preserve |-> p \in PreserveQ!PreservedBy(Settled)] : p \in Analyzed}

(* The complete tables, in the words of the program.                       *)
LEMMA CompleteIs ==
    Result!Complete = [actor |-> OwnersOf(Analyzed),
                       node |-> NamesOf(Keys),
                       nodes |-> RowsOf(Analyzed),
                       inventory |-> InventoryRows(RowsOf(Analyzed)),
                       blocks |-> AllBlocks]
<1>1. Result!Analyzed = Analyzed
  BY DEF Result!Analyzed, Analyzed
<1>2. /\ \A b : Result!Owners(b) = Owners(b)
      /\ \A p, b : Result!NodeRows(p, b) = NodeRows(p, b)
      /\ \A rows_ : Result!InventoryRows(rows_) = InventoryRows(rows_)
      /\ \A b : Result!Uniform(b) = Uniform(b)
      /\ \A b : Result!IsAnthropocene(b) = IsAnthropocene(b)
      /\ Result!PreregisteredActors = PreregisteredActors
      /\ Result!PreregisteredNames = PreregisteredNames
  BY DEF Result!Owners, Owners, Result!NodeRows, NodeRows, Result!IsRecorded, IsRecorded,
         Result!IsBones, IsBones, Result!IsSpecial, IsSpecial, Result!NoName, NoName,
         Result!InventoryRows, InventoryRows, Result!ItemRows, ItemRows, Result!Uniform,
         Uniform, Result!IsAnthropocene, IsAnthropocene, Result!PreregisteredActors,
         PreregisteredActors, Result!PreregisteredNames, PreregisteredNames
<1>3. Result!Anthropocene = Settled
  BY <1>1, <1>2 DEF Result!Anthropocene, Settled
<1>4. ASSUME NEW p \in Analyzed
      PROVE  (p \in Settled) = IsAnthropocene(world[p])
  <2>1. (p \in Settled) <=> IsAnthropocene(world[p])
    BY DEF Settled
  <2>2. IsAnthropocene(world[p]) \in BOOLEAN
    BY DEF IsAnthropocene
  <2> QED BY <2>1, <2>2
<1>5. {[pos |-> p, uniform |-> Result!Uniform(world[p]),
        anthropocene |-> p \in Result!Anthropocene,
        preserve |-> p \in UNION {Cube(q) : q \in Result!Anthropocene}] : p \in Result!Analyzed}
        = AllBlocks
  <2> DEFINE theirs(p) == [pos |-> p, uniform |-> Result!Uniform(world[p]),
                           anthropocene |-> p \in Result!Anthropocene,
                           preserve |-> p \in UNION {Cube(q) : q \in Result!Anthropocene}]
             ours(p) == [pos |-> p, uniform |-> Uniform(world[p]),
                         anthropocene |-> IsAnthropocene(world[p]),
                         preserve |-> p \in PreserveQ!PreservedBy(Settled)]
  <2>1. \A p \in Analyzed : theirs(p) = ours(p)
    BY <1>2, <1>3, <1>4 DEF PreserveQ!PreservedBy
  <2>2. AllBlocks = {ours(p) : p \in Analyzed}
    BY DEF AllBlocks
  <2> HIDE DEF theirs, ours
  <2>3. {theirs(p) : p \in Result!Analyzed} = AllBlocks
    BY <1>1, <2>1, <2>2
  <2> QED BY <2>3 DEF theirs
<1>6. /\ Result!PreregisteredActors \union UNION {Result!Owners(world[p]) : p \in Result!Analyzed}
           = OwnersOf(Analyzed)
      /\ Result!PreregisteredNames \union UNION {world[p].names : p \in Keys} = NamesOf(Keys)
      /\ UNION {Result!NodeRows(p, world[p]) : p \in Result!Analyzed} = RowsOf(Analyzed)
  BY <1>1, <1>2 DEF OwnersOf, NamesOf, RowsOf
<1> QED BY <1>2, <1>5, <1>6 DEF Result!Complete

Tables(n) == [actor |-> IF n >= 1 THEN OwnersOf(Analyzed) ELSE {},
              node |-> IF n >= 2 THEN NamesOf(Keys) ELSE {},
              nodes |-> IF n >= 3 THEN RowsOf(Analyzed) ELSE {},
              inventory |-> IF n >= 3 THEN InventoryRows(RowsOf(Analyzed)) ELSE {},
              blocks |-> IF n >= 4 THEN AllBlocks ELSE {}]

LEMMA TablesAre ==
    /\ Tables(0) = EmptyTables
    /\ Tables(4) = Result!Complete
    /\ \A n \in 0 .. 4 : Result!Committed(n) = Tables(n)
<1>1. Tables(0) = EmptyTables
  BY DEF Tables, EmptyTables
<1>2. Tables(4) = Result!Complete
  BY CompleteIs DEF Tables
<1>3. ASSUME NEW n \in 0 .. 4 PROVE Result!Committed(n) = Tables(n)
  <2> DEFINE Written(t) == \E i \in 1 .. n : t \in Result!Transactions[i]
  <2>1. /\ Written("actor") <=> n >= 1
        /\ Written("node") <=> n >= 2
        /\ Written("nodes") <=> n >= 3
        /\ Written("inventory") <=> n >= 3
        /\ Written("blocks") <=> n >= 4
    BY DEF Result!Transactions
  <2>2. DOMAIN Result!EmptyTables = {"actor", "node", "nodes", "inventory", "blocks"}
    BY DEF Result!EmptyTables
  <2>3. Result!Committed(n) = [t \in {"actor", "node", "nodes", "inventory", "blocks"} |->
                                 IF Written(t) THEN Result!Complete[t] ELSE {}]
    BY <2>2 DEF Result!Committed
  <2> HIDE DEF Written
  <2> QED BY <2>1, <2>3, CompleteIs DEF Tables
<1> QED BY <1>1, <1>2, <1>3

Rows(a, n, s, i, b) == [actor |-> a, node |-> n, nodes |-> s, inventory |-> i, blocks |-> b]

LEMMA TablesInTurn ==
    /\ Tables(0) = Rows({}, {}, {}, {}, {})
    /\ Tables(1) = Rows(OwnersOf(Analyzed), {}, {}, {}, {})
    /\ Tables(2) = Rows(OwnersOf(Analyzed), NamesOf(Keys), {}, {}, {})
    /\ Tables(3) = Rows(OwnersOf(Analyzed), NamesOf(Keys), RowsOf(Analyzed),
                        InventoryRows(RowsOf(Analyzed)), {})
    /\ Tables(4) = Rows(OwnersOf(Analyzed), NamesOf(Keys), RowsOf(Analyzed),
                        InventoryRows(RowsOf(Analyzed)), AllBlocks)
BY DEF Tables, Rows

LEMMA TablesStay ==
    ASSUME UNCHANGED world
    PROVE  \A n : Tables(n)' = Tables(n)
BY DEF Tables, OwnersOf, NamesOf, RowsOf, AllBlocks, Settled, Analyzed, PreserveQ!PreservedBy

(* The number of transactions that precede a phase.                        *)
Written == CASE phase \in {"analyze", "actor"} -> 0
             [] phase = "tombstone" -> IF Threaded THEN 0 ELSE 3
             [] phase = "node" -> 1
             [] phase = "nodes" -> 2
             [] phase \in {"join", "apply", "blocks"} -> 3
             [] OTHER -> 4

DatabaseInv ==
    /\ \E n \in 0 .. 4 : db = Tables(n)
    /\ Running => /\ db = Tables(Written)
                  /\ writing => txn = Tables(Written + 1)

LEMMA DatabaseInit == Init => DatabaseInv
BY TablesAre DEF Init, DatabaseInv, Written

(* What a transaction writes.                                              *)
LEMMA FlushWrites ==
    ASSUME QueuesInv, StageInv, MemoryInv, DatabaseInv, Running,
           FlushActorIdMap \/ FlushNodeIdMap \/ FlushNodeQueue \/ FlushBlockQueue
    PROVE  txn' = Tables(Written + 1)
<1>1. phase \in {"actor", "node", "nodes", "blocks"} /\ ~ writing /\ db = Tables(Written)
  BY DEF FlushActorIdMap, FlushNodeIdMap, FlushNodeQueue, FlushBlockQueue, Flush, DatabaseInv
<1>2. Seen = Keys /\ Recorded = Analyzed /\ ToWrite = Analyzed /\ handled = Keys
  BY <1>1, AllAnalyzed
<1>3. CASE FlushActorIdMap
  <2>1. phase = "actor" /\ txn' = [db EXCEPT !.actor = actor_ids]
    BY <1>3 DEF FlushActorIdMap, Flush
  <2>2. actor_ids = OwnersOf(Analyzed) /\ Written = 0
    BY <1>2, <2>1 DEF MemoryInv, Written
  <2>3. db = Tables(0) /\ Written + 1 = 1
    BY <1>1, <2>2
  <2>4. [db EXCEPT !.actor = actor_ids] = Rows(actor_ids, {}, {}, {}, {})
    <3> DEFINE none == {}
    <3>1. db = Rows(none, none, none, none, none)
      BY <2>3, TablesInTurn
    <3> HIDE DEF none
    <3>2. [db EXCEPT !.actor = actor_ids] = Rows(actor_ids, none, none, none, none)
      BY <3>1 DEF Rows
    <3> QED BY <3>2 DEF none
  <2> QED BY <2>1, <2>2, <2>3, <2>4, TablesInTurn
<1>4. CASE FlushNodeIdMap
  <2>1. phase = "node" /\ txn' = [db EXCEPT !.node = node_ids]
    BY <1>4 DEF FlushNodeIdMap, Flush
  <2>2. node_ids = NamesOf(Keys) /\ Written = 1
    BY <1>2, <2>1 DEF MemoryInv, Written
  <2>3. db = Tables(1) /\ Written + 1 = 2
    BY <1>1, <2>2
  <2>4. [db EXCEPT !.node = node_ids] = Rows(OwnersOf(Analyzed), node_ids, {}, {}, {})
    <3> DEFINE none == {}
    <3>1. db = Rows(OwnersOf(Analyzed), none, none, none, none)
      BY <2>3, TablesInTurn
    <3> HIDE DEF none
    <3>2. [db EXCEPT !.node = node_ids] = Rows(OwnersOf(Analyzed), node_ids, none, none, none)
      BY <3>1 DEF Rows
    <3> QED BY <3>2 DEF none
  <2> QED BY <2>1, <2>2, <2>3, <2>4, TablesInTurn
<1>5. CASE FlushNodeQueue
  <2>1. /\ phase = "nodes"
        /\ txn' = [db EXCEPT !.nodes = node_queue, !.inventory = InventoryRows(node_queue)]
    BY <1>5 DEF FlushNodeQueue, Flush
  <2>2. node_queue = RowsOf(Analyzed) /\ Written = 2
    BY <1>1, <1>2, <2>1 DEF MemoryInv, Written, NodesToCome
  <2> DEFINE one == [db EXCEPT !.nodes = node_queue]
  <2>3. txn' = [one EXCEPT !.inventory = InventoryRows(node_queue)]
    BY <2>1
  <2>4. one = Rows(OwnersOf(Analyzed), NamesOf(Keys), RowsOf(Analyzed), {}, {})
    <3> DEFINE none == {}
    <3>1. db = Rows(OwnersOf(Analyzed), NamesOf(Keys), none, none, none)
      BY <1>1, <2>2, TablesInTurn
    <3> HIDE DEF none
    <3>2. one = Rows(OwnersOf(Analyzed), NamesOf(Keys), node_queue, none, none)
      BY <3>1 DEF Rows
    <3> QED BY <2>2, <3>2 DEF none
  <2> HIDE DEF one
  <2>5. [one EXCEPT !.inventory = InventoryRows(node_queue)]
          = Rows(OwnersOf(Analyzed), NamesOf(Keys), RowsOf(Analyzed),
                 InventoryRows(node_queue), {})
    <3> DEFINE items == InventoryRows(node_queue)
               none == {}
    <3>1. one = Rows(OwnersOf(Analyzed), NamesOf(Keys), RowsOf(Analyzed), none, none)
      BY <2>4
    <3> HIDE DEF items, none
    <3>2. [one EXCEPT !.inventory = items]
            = Rows(OwnersOf(Analyzed), NamesOf(Keys), RowsOf(Analyzed), items, none)
      BY ONLY <3>1 DEF Rows
    <3> QED BY <3>2 DEF items, none
  <2>6. Written + 1 = 3
    BY <2>2
  <2> QED BY <2>2, <2>3, <2>5, <2>6, TablesInTurn
<1>6. CASE FlushBlockQueue
  <2>1. /\ phase = "blocks"
        /\ txn' = [db EXCEPT !.blocks = {BlockRow(p) : p \in block_queue}]
    BY <1>6 DEF FlushBlockQueue, Flush
  <2>2. block_queue = Analyzed /\ Written = 3
    BY <1>1, <1>2, <2>1 DEF MemoryInv, Written, BlocksToCome, Over, Ended
  <2>3. noted = Settled
    BY <1>2 DEF MemoryInv, Settled, Analyzed
  <2> DEFINE row(p) == [pos |-> p,
                        uniform |-> Uniform(world[p]),
                        anthropocene |-> IsAnthropocene(world[p]),
                        preserve |-> p \in PreserveQ!PreservedBy(Settled)]
  <2>4. \A p \in Analyzed : BlockRow(p) = row(p)
    <3> SUFFICES ASSUME NEW p \in Analyzed PROVE BlockRow(p) = row(p)
      OBVIOUS
    <3> DEFINE uniform == Uniform(world[p])
               anthropocene == IsAnthropocene(world[p])
               kept == p \in PreserveQ!PreservedBy(Settled)
    <3>1. Ref(block_data, p) = Entry(p, kept)
      BY <2>1, <2>3 DEF MemoryInv, Ref
    <3>2. Entry(p, kept) = [uniform |-> uniform, anthropocene |-> anthropocene, preserve |-> kept]
      BY DEF Entry
    <3>3. row(p) = [pos |-> p, uniform |-> uniform, anthropocene |-> anthropocene,
                    preserve |-> kept]
      OBVIOUS
    <3> HIDE DEF uniform, anthropocene, kept, row
    <3> QED BY <3>1, <3>2, <3>3 DEF BlockRow
  <2>5. AllBlocks = {row(p) : p \in Analyzed}
    BY DEF AllBlocks
  <2> HIDE DEF row
  <2>6. {BlockRow(p) : p \in block_queue} = AllBlocks
    BY <2>2, <2>4, <2>5
  <2>7. db = Tables(3) /\ Written + 1 = 4
    BY <1>1, <2>2
  <2>8. db = Rows(OwnersOf(Analyzed), NamesOf(Keys), RowsOf(Analyzed),
                  InventoryRows(RowsOf(Analyzed)), {})
    BY <2>7, TablesInTurn
  <2>9. [db EXCEPT !.blocks = AllBlocks]
          = Rows(OwnersOf(Analyzed), NamesOf(Keys), RowsOf(Analyzed),
                 InventoryRows(RowsOf(Analyzed)), AllBlocks)
    BY <2>8 DEF Rows
  <2> QED BY <2>1, <2>6, <2>7, <2>9, TablesInTurn
<1> QED BY <1>3, <1>4, <1>5, <1>6

LEMMA DatabaseNext ==
    ASSUME QueuesInv, StageInv, MemoryInv, DatabaseInv, [Next]_vars
    PROVE  DatabaseInv' /\ [Result!Next]_Result!vars
<1> DEFINE SameTables == UNCHANGED <<world, db, txn, writing>>
<1> USE DEF DatabaseInv, Running
<1>0. phase \in Phases
  BY DEF QueuesInv, LinkInv
<1>1. ASSUME UNCHANGED world PROVE \A n : Tables(n)' = Tables(n)
  BY <1>1, TablesStay
<1>2. ASSUME SameTables, UNCHANGED phase PROVE DatabaseInv' /\ UNCHANGED Result!vars
  BY <1>1, <1>2 DEF Written, Result!vars
<1>3. ASSUME SameTables, phase' \in Over PROVE DatabaseInv'
  BY <1>1, <1>3
<1>4. CASE \/ FeedStep \/ MergeStep \/ UNCHANGED vars
           \/ Running /\ \E c \in Consumers : Consumer(c)
  BY <1>2, <1>4, ConsumersAnalyze DEF FeedStep, MergeStep, outVars, vars
<1>5. CASE \/ Running /\ Fail
           \/ phase \notin Ended /\ Kill
  <2>1. SameTables /\ phase' \in Over
    BY <1>5, Endings
  <2>2. CASE phase' = "aborted" /\ phase \notin Ended
    BY <1>3, <2>1, <2>2 DEF Result!Next, Result!Abort, Over, Ended
  <2>3. CASE phase' = "failed" /\ Running /\ ~ Threaded
    BY <1>3, <2>1, <2>3 DEF Result!Next, Result!CatchError, Over, Ended
  <2> QED BY <1>5, <2>2, <2>3 DEF Fail, Kill, Stop, Over, Ended
<1>6. CASE Running /\ (FlushActorIdMap \/ FlushNodeIdMap \/ FlushNodeQueue \/ FlushBlockQueue)
  <2>1. UNCHANGED <<world, db, phase>>
    BY <1>6 DEF FlushActorIdMap, FlushNodeIdMap, FlushNodeQueue, FlushBlockQueue, Flush
  <2>2. txn' = Tables(Written + 1)
    BY <1>6, FlushWrites
  <2> QED BY <1>1, <2>1, <2>2 DEF Written, Result!vars
<1>7. CASE Running /\ Commit
  <2>1. /\ writing /\ ~ writing' /\ UNCHANGED world /\ Advance(phase)
        /\ db = Tables(Written) /\ db' = Tables(Written + 1)
        /\ phase \in {"actor", "node", "nodes", "blocks"}
    BY <1>7 DEF Commit, QueuesInv, LinkInv
  <2>2. Written \in 0 .. 3 /\ Written' = Written + 1 /\ phase' \notin Over
    BY <2>1, AdvanceTo DEF Written, Over, Ended
  <2>3. DatabaseInv'
    BY <1>1, <2>1, <2>2
  <2>4. Result!Commit
    BY <1>7, <2>1, <2>2, TablesAre DEF Result!Commit
  <2> QED BY <2>3, <2>4 DEF Result!Next
<1>8. CASE Report
  <2>1. phase \in {"report", "failed"} /\ phase' = "exit" /\ SameTables
    BY <1>8, AdvanceTo DEF Report
  <2>2. DatabaseInv'
    BY <1>3, <2>1 DEF Over, Ended
  <2>3. phase = "report" => db = Result!Complete
    BY TablesAre DEF Written, Over, Ended
  <2>4. Result!Finish
    BY <2>1, <2>3 DEF Result!Finish, Over, Ended
  <2> QED BY <2>2, <2>4 DEF Result!Next
<1>9. CASE Running /\ (JoinThreads \/ SetTombstone \/ JoinMerger \/ ApplyPreserveFlags)
  <2>1. /\ SameTables /\ Advance(phase)
        /\ phase \in {"analyze", "tombstone", "join", "apply"}
    BY <1>9, AdvanceTo DEF JoinThreads, SetTombstone, JoinMerger, ApplyPreserveFlags
  <2>2. Written' = Written /\ phase' \notin Over /\ ~ writing
    BY <1>9, <2>1, AdvanceTo DEF Written, Over, Ended, QueuesInv, LinkInv
  <2> QED BY <1>1, <1>9, <2>1, <2>2 DEF Result!vars
<1>10. CASE Running /\ NoNodesToFlush
  <2>1. /\ SameTables /\ phase = "nodes" /\ ~ writing /\ node_queue = {} /\ Advance(phase)
    BY <1>10, AdvanceTo DEF NoNodesToFlush
  <2>2. Written = 2 /\ Written' = 3 /\ phase' \notin Over
    BY <2>1, AdvanceTo DEF Written, Over, Ended
  <2>3. RowsOf(Analyzed) = {} /\ InventoryRows({}) = {}
    BY <1>10, <2>1, AllAnalyzed DEF MemoryInv, NodesToCome, InventoryRows, ItemRows
  <2>4. Tables(2) = Tables(3)
    BY <2>3, TablesInTurn
  <2> QED BY <1>1, <1>10, <2>1, <2>2, <2>4 DEF Result!vars
<1> QED BY <1>4, <1>5, <1>6, <1>7, <1>8, <1>9, <1>10 DEF Next, MainStep, Terminated

DataInv == QueuesInv /\ StageInv /\ MemoryInv /\ DatabaseInv

LEMMA DataInductive == /\ Init => DataInv
                       /\ DataInv /\ [Next]_vars => DataInv'
<1>1. Init => DataInv
  BY QueuesInductive, StageInit, MemoryInit, DatabaseInit DEF DataInv
<1>2. DataInv /\ [Next]_vars => DataInv'
  BY QueuesInductive, StageNext, MemoryNext, DatabaseNext DEF DataInv
<1> QED BY <1>1, <1>2

(* The output is a function of the world, whatever the threads do: it is   *)
(* written in the transactions of Analysis, and what they write is whole.  *)
(* main returns 0 when all are written, or, without threads, after it has  *)
(* logged a database error, with the tables written before it.             *)
THEOREM ImplementsAnalysis == Spec => Result!SafeSpec
<1>1. Init => Result!Init
  BY TablesAre DEF Init, Result!Init, Result!EmptyTables, EmptyTables, Over, Ended
<1>2. DataInv /\ [Next]_vars => [Result!Next]_Result!vars
  BY DatabaseNext DEF DataInv
<1> QED BY <1>1, <1>2, DataInductive, PTL DEF Spec, Result!SafeSpec

(* The tables of each moment refer to nothing that is missing.             *)
LEMMA TablesAreClosed ==
    ASSUME StageInv, NEW n \in 0 .. 4, db = Tables(n)
    PROVE  DatabaseIsClosed
<1> USE DEF Tables
<1>1. \A p \in Analyzed :
        /\ p \in Keys
        /\ \E node \in world[p].nodes : node.name = world[p].first
        /\ \A node \in world[p].nodes : node.name \in world[p].names
  <2> SUFFICES ASSUME NEW p \in Analyzed
               PROVE  /\ p \in Keys
                      /\ \E node \in world[p].nodes : node.name = world[p].first
                      /\ \A node \in world[p].nodes : node.name \in world[p].names
    OBVIOUS
  <2>1. world \in Worlds /\ p \in Keys /\ world[p].kind = "ok"
    BY DEF StageInv, Analyzed
  <2> QED BY <2>1
<1>2. ASSUME NEW row \in db.nodes
      PROVE  row.node.owner \in db.actor /\ row.node.name \in db.node
  <2>1. n >= 3 /\ row \in RowsOf(Analyzed)
    BY <1>2
  <2>2. PICK p \in Analyzed : row \in NodeRows(p, world[p])
    BY <2>1 DEF RowsOf
  <2>3. row.node \in world[p].nodes
    BY <2>2 DEF NodeRows
  <2>4. row.node.name \in world[p].names /\ row.node.owner \in Owners(world[p])
    BY <1>1, <2>3 DEF Owners
  <2> QED BY <1>1, <2>1, <2>4 DEF OwnersOf, NamesOf
<1>3. ASSUME NEW row \in db.inventory
      PROVE  [pos |-> row.pos, node |-> row.node] \in db.nodes
  <2>1. n >= 3 /\ row \in InventoryRows(RowsOf(Analyzed))
    BY <1>3
  <2>2. PICK kept \in RowsOf(Analyzed) : row \in ItemRows(kept)
    BY <2>1 DEF InventoryRows
  <2>3. row.pos = kept.pos /\ row.node = kept.node
    BY <2>2 DEF ItemRows
  <2>4. PICK p \in Analyzed : kept \in NodeRows(p, world[p])
    BY <2>2 DEF RowsOf
  <2>5. kept = [pos |-> kept.pos, node |-> kept.node]
    BY <2>4 DEF NodeRows
  <2> QED BY <2>1, <2>2, <2>3, <2>5
<1>4. ASSUME NEW row \in db.blocks PROVE row.uniform \in db.node
  <2>1. n = 4 /\ row \in AllBlocks
    BY <1>4
  <2>2. PICK p \in Analyzed : row.uniform = Uniform(world[p])
    BY <2>1 DEF AllBlocks
  <2>3. world[p].first \in world[p].names
    <3>1. PICK node \in world[p].nodes : node.name = world[p].first
      BY <1>1
    <3> QED BY <1>1, <3>1
  <2>4. Uniform(world[p]) \in world[p].names \union {NoName}
    BY <2>3 DEF Uniform
  <2> QED BY <1>1, <2>1, <2>2, <2>4 DEF NamesOf, PreregisteredNames
<1> QED BY <1>2, <1>3, <1>4 DEF DatabaseIsClosed

(* Whatever was committed when the process ends refers to nothing missing. *)
THEOREM OutputIsClosed == Spec => []DatabaseIsClosed
<1>1. DataInv => DatabaseIsClosed
  BY TablesAreClosed DEF DataInv, DatabaseInv
<1> QED BY <1>1, DataInductive, PTL DEF Spec

(* The types of what main and the consumers share.                         *)
ShapeInv ==
    /\ node_ids \subseteq Names(world)
    /\ actor_ids \subseteq Actors(world)
    /\ node_queue \subseteq NodesToWrite(world)
    /\ block_queue \subseteq Keys
    /\ \A p \in DOMAIN block_data :
         DOMAIN block_data[p] = {"uniform", "anthropocene", "preserve"}
    /\ writing \in BOOLEAN
    /\ DOMAIN db = DOMAIN EmptyTables /\ DOMAIN txn = DOMAIN EmptyTables

LEMMA ShapeInit == Init => ShapeInv
<1>1. Init => DOMAIN block_data = {} /\ block_queue = {} /\ writing = FALSE
              /\ db = EmptyTables /\ txn = EmptyTables
  BY DEF Init
<1>2. Init => node_ids = PreregisteredNames /\ actor_ids = PreregisteredActors
              /\ node_queue = {}
  BY DEF Init
<1> QED BY <1>1, <1>2 DEF ShapeInv, Names, Actors

LEMMA ShapeNext == QueuesInv /\ StageInv /\ ShapeInv /\ [Next]_vars => ShapeInv'
<1> SUFFICES ASSUME QueuesInv, StageInv, ShapeInv, [Next]_vars PROVE ShapeInv'
  OBVIOUS
<1> USE DEF ShapeInv
<1>1. \A p : DOMAIN Ref(block_data, p) = {"uniform", "anthropocene", "preserve"}
  BY DEF Ref
<1>2. CASE FeedStep \/ MergeStep \/ Fail \/ Report \/ Kill \/ UNCHANGED vars
  BY <1>2, Endings DEF FeedStep, MergeStep, vars, blockVars, outVars
<1>3. ASSUME NEW c \in Consumers, Consumer(c) PROVE ShapeInv'
  <2>0. consumer[c] \in {"load", "work"} => key[c] \in Keys
    BY FeedFacts DEF QueuesInv
  <2>1. CASE RecordBlock(c)
    BY <1>1, <2>1 DEF RecordBlock, outVars
  <2>2. CASE EnqueueMapBlockPos(c)
    <3>1. consumer[c] = "work"
      BY <2>2 DEF StageInv, EnqueueMapBlockPos, At
    <3> QED BY <2>2, <3>1, FeedFacts DEF EnqueueMapBlockPos, QueuesInv, outVars
  <2>3. CASE Reject(c) \/ Accept(c)
    <3>1. key[c] \in Keys
      BY <2>0, <2>3 DEF Reject, Accept
    <3>2. world[key[c]].names \subseteq Names(world)
      BY <3>1 DEF Names
    <3> QED BY <2>3, <3>2 DEF Reject, Accept, Block, outVars
  <2>4. CASE EnqueueNodes(c)
    <3>1. stage[c] # "idle"
      BY <2>4 DEF EnqueueNodes, At
    <3>2. key[c] \in Readable(world)
      BY <2>0, <3>1 DEF StageInv, Block, Readable
    <3>3. /\ Owners(world[key[c]]) \subseteq Actors(world)
          /\ NodeRows(key[c], world[key[c]]) \subseteq NodesToWrite(world)
      BY <3>2 DEF Actors, NodesToWrite
    <3> QED BY <2>4, <3>3 DEF EnqueueNodes, Block, outVars
  <2> QED BY <1>3, <2>1, <2>2, <2>3, <2>4 DEF Consumer, Pop, FinishBlock, ConsumerExit,
        blockVars, outVars
<1>4. CASE MainStep
  <2>1. CASE ApplyPreserveFlags
    BY <1>1, <2>1 DEF ApplyPreserveFlags
  <2> QED BY <1>4, <2>1 DEF MainStep, JoinThreads, SetTombstone, Flush, FlushActorIdMap,
        FlushNodeIdMap, FlushNodeQueue, NoNodesToFlush, JoinMerger, FlushBlockQueue, Commit,
        blockVars
<1> QED BY <1>2, <1>3, <1>4 DEF Next, Terminated

(* Every variable of the program keeps its type.                           *)
THEOREM TypeCorrect == Spec => []TypeOK
<1>1. QueuesInv /\ StageInv /\ ShapeInv => TypeOK
  <2>1. FeedQ!TypeOK = Feed!TypeOK
    BY DEF FeedQ!TypeOK, Feed!TypeOK, FeedQ!Threads, Feed!Threads, FeedQ!ConsumerStates,
           Feed!ConsumerStates, FeedQ!MainStates, Feed!MainStates
  <2>2. PreserveQ!TypeOK = Preserve!TypeOK
    BY DEF PreserveQ!TypeOK, Preserve!TypeOK, PreserveQ!PreservedBy, Preserve!PreservedBy
  <2> QED BY <2>1, <2>2 DEF QueuesInv, FeedInv, FeedQ!AllInv, PreserveQ!QueueInv, LinkInv,
        StageInv, ShapeInv, TypeOK
<1> QED BY <1>1, QueuesInductive, StageInit, StageNext, ShapeInit, ShapeNext, PTL DEF Spec
=============================================================================
