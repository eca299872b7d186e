------------------------------ MODULE App_proof ------------------------------
(***************************************************************************)
(* Theorems about App, for any map blocks, worlds, consumers and sizes, in *)
(* both modes.  What is proved about the two queues is used through        *)
(* instances of their proof modules.                                       *)
(***************************************************************************)
EXTENDS App, FiniteSetTheorems, SequenceLemmas, TLAPS

FeedQ == INSTANCE MapBlockQueue_proof
PreserveQ == INSTANCE PreserveQueue_proof WITH Positions <- Keys

USE KeysAssumption, ThreadsAssumption, BatchAssumption, NotYetAssumption,
    WorldsAssumption

(* The assumptions of the instances.                                       *)
LEMMA InstanceAssumptions ==
    /\ FeedQ!IsFiniteSet(Keys) /\ FeedQ!IsFiniteSet(Consumers)
    /\ PreserveQ!IsFiniteSet(Consumers)
    /\ NotYet \notin SUBSET PreserveQ!PreservedBy(Keys)
BY DEF IsFiniteSet, FeedQ!IsFiniteSet, PreserveQ!IsFiniteSet, PreserveQ!PreservedBy

-----------------------------------------------------------------------------
(* The program implements the map block queue: whatever else a step does,  *)
(* it is a step of MapBlockQueue or leaves the queue and its threads alone.*)

LEMMA FeedInit == Init => FeedQ!Init
BY DEF Init, Feed!Init, FeedQ!Init

LEMMA FeedActions ==
    /\ Feed!Producer => FeedQ!Producer
    /\ Feed!MainStep => FeedQ!MainStep
    /\ Feed!IdleTimeout => FeedQ!IdleTimeout
    /\ \A t : Feed!SpuriousWakeup(t) => FeedQ!SpuriousWakeup(t)
    /\ \A c : /\ Feed!PopWait(c) => FeedQ!PopWait(c)
              /\ Feed!PopKey(c) => FeedQ!PopKey(c)
              /\ Feed!PopTombstone(c) => FeedQ!PopTombstone(c)
              /\ Feed!RejectBlock(c) => FeedQ!RejectBlock(c)
              /\ Feed!AcceptBlock(c) => FeedQ!AcceptBlock(c)
              /\ Feed!FinishBlock(c) => FeedQ!FinishBlock(c)
              /\ Feed!ConsumerExit(c) => FeedQ!ConsumerExit(c)
<1> USE DEF Feed!producerVars, FeedQ!producerVars, Feed!consumerVars,
            FeedQ!consumerVars, Feed!mainVars, FeedQ!mainVars,
            Feed!NotifyOne, FeedQ!NotifyOne, Feed!TombstoneIsNext, FeedQ!TombstoneIsNext
<1>1. Feed!Producer => FeedQ!Producer
  BY DEF Feed!Producer, FeedQ!Producer, Feed!ScanRow, FeedQ!ScanRow, Feed!Enqueue,
         FeedQ!Enqueue, Feed!SetTombstone, FeedQ!SetTombstone, Feed!NotifyAll, FeedQ!NotifyAll
<1>2. Feed!MainStep => FeedQ!MainStep
  BY DEF Feed!MainStep, FeedQ!MainStep, Feed!IdleWait, FeedQ!IdleWait, Feed!Progress,
         FeedQ!Progress, Feed!ProgressStart, FeedQ!ProgressStart, Feed!ProgressGood,
         FeedQ!ProgressGood, Feed!ProgressBad, FeedQ!ProgressBad, Feed!ProgressRemaining,
         FeedQ!ProgressRemaining, Feed!JoinAll, FeedQ!JoinAll
<1>3. Feed!IdleTimeout => FeedQ!IdleTimeout
  BY DEF Feed!IdleTimeout, FeedQ!IdleTimeout
<1>4. \A t : Feed!SpuriousWakeup(t) => FeedQ!SpuriousWakeup(t)
  BY DEF Feed!SpuriousWakeup, FeedQ!SpuriousWakeup
<1>5. \A c : /\ Feed!PopWait(c) => FeedQ!PopWait(c)
             /\ Feed!PopKey(c) => FeedQ!PopKey(c)
             /\ Feed!PopTombstone(c) => FeedQ!PopTombstone(c)
  BY DEF Feed!Popping, FeedQ!Popping, Feed!PopWait, FeedQ!PopWait, Feed!PopKey,
         FeedQ!PopKey, Feed!PopTombstone, FeedQ!PopTombstone
<1>6. \A c : /\ Feed!RejectBlock(c) => FeedQ!RejectBlock(c)
             /\ Feed!AcceptBlock(c) => FeedQ!AcceptBlock(c)
             /\ Feed!FinishBlock(c) => FeedQ!FinishBlock(c)
             /\ Feed!ConsumerExit(c) => FeedQ!ConsumerExit(c)
  BY DEF Feed!Release, FeedQ!Release, Feed!RejectBlock, FeedQ!RejectBlock,
         Feed!AcceptBlock, FeedQ!AcceptBlock, Feed!FinishBlock, FeedQ!FinishBlock,
         Feed!ConsumerExit, FeedQ!ConsumerExit
<1> QED BY <1>1, <1>2, <1>3, <1>4, <1>5, <1>6

LEMMA FeedNext == [Next]_vars => [FeedQ!Next]_FeedQ!vars
<1> SUFFICES ASSUME [Next]_vars, ~ UNCHANGED FeedQ!vars PROVE FeedQ!Next
  OBVIOUS
<1> USE FeedActions DEF FeedQ!Next, FeedQ!Consumer
<1>0. ~ UNCHANGED feedVars
  BY DEF feedVars, FeedQ!vars
<1>1. CASE FeedStep
  BY <1>1 DEF FeedStep, Feed!Threads, FeedQ!Threads
<1>2. ASSUME NEW c \in Consumers, Consumer(c) PROVE FeedQ!Next
  BY <1>0, <1>2 DEF Consumer, Pop, Reject, Accept, EnqueueNodes, RecordBlock,
        EnqueueMapBlockPos, FinishBlock, ConsumerExit
<1>3. CASE MergeStep \/ MainStep \/ Fail \/ Report \/ Kill
  BY <1>0, <1>3 DEF MergeStep, MainStep, Fail, Kill, Stop, JoinThreads, SetTombstone, Flush,
        FlushActorIdMap, FlushNodeIdMap, FlushNodeQueue, NoNodesToFlush, JoinMerger,
        ApplyPreserveFlags, FlushBlockQueue, Commit, Report
<1>4. CASE UNCHANGED vars
  BY <1>0, <1>4 DEF vars
<1> QED BY <1>1, <1>2, <1>3, <1>4 DEF Next, Terminated

(* The threads of the program behave as MapBlockQueue says.                *)
THEOREM ImplementsMapBlockQueue == Spec => FeedQ!Spec
<1> QED BY FeedInit, FeedNext, PTL DEF Spec, FeedQ!Spec

-----------------------------------------------------------------------------
(* What the map block queue guarantees to the rest of the program.         *)

FeedInv == FeedQ!AllInv /\ FeedQ!CountInv /\ FeedQ!LeftInv

LEMMA FeedInductive == /\ Init => FeedInv
                       /\ FeedInv /\ [Next]_vars => FeedInv'
BY FeedInit, FeedNext, FeedQ!AllInvInductive, InstanceAssumptions DEF FeedInv

LEMMA FeedFacts ==
    ASSUME FeedInv
    PROVE  /\ consumer \in [Consumers -> {"pop", "load", "work", "exit", "done"}]
           /\ key \in [Consumers -> Keys \union {NoKey}]
           /\ handled \subseteq Keys
           /\ \A c \in Consumers : consumer[c] \in {"load", "work"} =>
                 key[c] \in Keys /\ key[c] \notin handled
           /\ \A c, d \in Consumers :
                 consumer[c] \in {"load", "work"} /\ key[c] = key[d] => c = d
           /\ main = "joined" => /\ handled = Keys
                                 /\ \A c \in Consumers : consumer[c] = "done"
<1>1. FeedQ!TypeOK /\ FeedQ!KeyInHand /\ FeedQ!EveryKeyInOnePlace /\ FeedQ!LeftInv
      /\ FeedQ!JoinedMeansAllCounted
  BY FeedQ!JoinedIsCounted, InstanceAssumptions DEF FeedInv, FeedQ!AllInv
<1>2. /\ consumer \in [Consumers -> {"pop", "load", "work", "exit", "done"}]
      /\ key \in [Consumers -> Keys \union {NoKey}]
      /\ handled \subseteq Keys
  BY <1>1 DEF FeedQ!TypeOK, FeedQ!ConsumerStates
<1>3. \A c \in Consumers : consumer[c] \in {"load", "work"} => key[c] # NoKey
  BY <1>1 DEF FeedQ!KeyInHand
<1>4. /\ \A c, d \in Consumers : key[c] # NoKey /\ key[c] = key[d] => c = d
      /\ \A c \in Consumers : key[c] # NoKey => key[c] \notin handled
  BY <1>1 DEF FeedQ!EveryKeyInOnePlace, FeedQ!Held
<1>5. main = "joined" => /\ handled = Keys
                         /\ \A c \in Consumers : consumer[c] = "done"
  BY <1>1 DEF FeedQ!JoinedMeansAllCounted, FeedQ!LeftInv
<1> QED BY <1>2, <1>3, <1>4, <1>5

-----------------------------------------------------------------------------
(* How the two queues are linked: by the consumers, which leave both, and  *)
(* by main, which closes the second when all have left the first.          *)

BeforeTombstone == IF Threaded THEN {"analyze", "tombstone"}
                   ELSE {"analyze", "actor", "node", "nodes", "tombstone"}
BeforeApply == Phases \ ({"blocks", "report"} \union Over)

LinkInv ==
    /\ phase \in Phases
    /\ writing => phase \in {"actor", "node", "nodes", "blocks"} \union Over
    /\ closed = {c \in Consumers : consumer[c] = "done"}
    /\ phase \notin {"analyze"} \union Over => main = "joined"
    /\ noted \subseteq handled
    /\ phase \in BeforeTombstone => ~ PreserveQ!Tombstoned
    /\ phase \in {"apply", "blocks", "report"} => merger = "done"
    /\ phase \in BeforeApply => surrendered = NotYet

LEMMA PreserveInit == Init => PreserveQ!Init
BY DEF Init, Preserve!Init, PreserveQ!Init

LEMMA PreserveActions ==
    /\ Preserve!MergeThread => PreserveQ!MergeThread
    /\ Preserve!SpuriousMergeWakeup => PreserveQ!SpuriousMergeWakeup
    /\ Preserve!SetTombstone => PreserveQ!SetTombstone
    /\ Preserve!SurrenderFinalSet => PreserveQ!SurrenderFinalSet
    /\ \A c : Preserve!CloseList(c) => PreserveQ!CloseList(c)
    /\ \A c, p : Preserve!NoteAnthropocene(c, p) => PreserveQ!NoteAnthropocene(c, p)
<1> USE DEF Preserve!listVars, PreserveQ!listVars, Preserve!mergeVars, PreserveQ!mergeVars,
            Preserve!Tombstoned, PreserveQ!Tombstoned, Preserve!Enqueue, PreserveQ!Enqueue
<1>1. Preserve!MergeThread => PreserveQ!MergeThread
  BY DEF Preserve!MergeThread, PreserveQ!MergeThread, Preserve!Checking, PreserveQ!Checking,
         Preserve!MergeWait, PreserveQ!MergeWait, Preserve!MergePop, PreserveQ!MergePop,
         Preserve!DoMerge, PreserveQ!DoMerge, Preserve!MergeExit, PreserveQ!MergeExit,
         Preserve!PreservedBy, PreserveQ!PreservedBy, Range, Preserve!Range, PreserveQ!Range
<1>2. /\ Preserve!SpuriousMergeWakeup => PreserveQ!SpuriousMergeWakeup
      /\ Preserve!SetTombstone => PreserveQ!SetTombstone
      /\ Preserve!SurrenderFinalSet => PreserveQ!SurrenderFinalSet
  BY DEF Preserve!SpuriousMergeWakeup, PreserveQ!SpuriousMergeWakeup,
         Preserve!SetTombstone, PreserveQ!SetTombstone,
         Preserve!SurrenderFinalSet, PreserveQ!SurrenderFinalSet
<1>3. \A c : Preserve!CloseList(c) => PreserveQ!CloseList(c)
  BY DEF Preserve!CloseList, PreserveQ!CloseList
<1>4. \A c, p : Preserve!NoteAnthropocene(c, p) => PreserveQ!NoteAnthropocene(c, p)
  BY DEF Preserve!NoteAnthropocene, PreserveQ!NoteAnthropocene
<1> QED BY <1>1, <1>2, <1>3, <1>4

(* A run ends, or fails, with nothing else changed.                        *)
LEMMA Endings ==
    ASSUME Fail \/ Report \/ Kill
    PROVE  /\ phase' \in Over
           /\ UNCHANGED <<world, feedVars, preserveVars, blockVars, writing, txn, db>>
BY DEF Fail, Report, Kill, Stop, Advance, Order, Over, Ended

(* Each step of the program is a step of PreserveQueue, or leaves it alone *)
(* - main asks for the tombstone and the set when it may.                  *)
LEMMA PreserveNext ==
    FeedInv /\ LinkInv /\ [Next]_vars => [PreserveQ!Next]_PreserveQ!vars
<1> SUFFICES ASSUME FeedInv, LinkInv, [Next]_vars, ~ UNCHANGED PreserveQ!vars
             PROVE  PreserveQ!Next
  OBVIOUS
<1> USE DEF PreserveQ!Next, PreserveQ!Consumer, PreserveQ!MainStep
<1>0. ~ UNCHANGED preserveVars
  BY DEF preserveVars, PreserveQ!vars
<1>1. ASSUME NEW c \in Consumers, FinishBlock(c) PROVE PreserveQ!Next
  <2>1. consumer[c] = "work" /\ Preserve!NoteAnthropocene(c, key[c])
    BY <1>0, <1>1 DEF FinishBlock, Feed!FinishBlock
  <2>2. key[c] \in Keys /\ key[c] \notin noted
    BY <2>1, FeedFacts DEF LinkInv
  <2> QED BY <2>1, <2>2, PreserveActions
<1>2. ASSUME NEW c \in Consumers, ConsumerExit(c) PROVE PreserveQ!Next
  BY <1>2, PreserveActions DEF ConsumerExit
<1>3. CASE MergeStep
  BY <1>3, PreserveActions DEF MergeStep
<1>4. CASE SetTombstone
  <2>1. phase = "tombstone" /\ Preserve!SetTombstone
    BY <1>4 DEF SetTombstone, Advance
  <2>2. closed = Consumers
    BY <2>1, FeedFacts DEF LinkInv, Over, Ended
  <2>3. ~ PreserveQ!Tombstoned
    BY <2>1 DEF LinkInv, BeforeTombstone
  <2> QED BY <2>1, <2>2, <2>3, PreserveActions DEF PreserveQ!CloseQueue
<1>5. CASE ApplyPreserveFlags
  <2>1. phase = "apply" /\ Preserve!SurrenderFinalSet
    BY <1>5 DEF ApplyPreserveFlags, Advance
  <2>2. merger = "done" /\ surrendered = NotYet
    BY <2>1 DEF LinkInv, BeforeApply, Phases, Over, Ended
  <2> QED BY <2>1, <2>2, PreserveActions DEF PreserveQ!TakeFinalSet
<1>6. ASSUME NEW c \in Consumers, Consumer(c) PROVE PreserveQ!Next
  BY <1>0, <1>1, <1>2, <1>6 DEF Consumer, Pop, Reject, Accept, EnqueueNodes, RecordBlock,
        EnqueueMapBlockPos
<1>7. CASE FeedStep \/ Fail \/ Report \/ Kill \/ UNCHANGED vars
  BY <1>0, <1>7, Endings DEF FeedStep, vars
<1>8. CASE MainStep
  BY <1>0, <1>4, <1>5, <1>8 DEF MainStep, JoinThreads, Flush,
        FlushActorIdMap, FlushNodeIdMap, FlushNodeQueue, NoNodesToFlush, JoinMerger,
        FlushBlockQueue, Commit
<1> QED BY <1>3, <1>6, <1>7, <1>8 DEF Next, Terminated

(* The way of the main thread through its phases.                          *)
LEMMA AdvanceTo ==
    ASSUME NEW from, Advance(from)
    PROVE  /\ phase = from
           /\ from \in Phases \ Over
           /\ phase' = CASE from = "analyze" -> IF Threaded THEN "tombstone" ELSE "actor"
                         [] from = "tombstone" -> IF Threaded THEN "actor" ELSE "join"
                         [] from = "actor" -> "node"
                         [] from = "node" -> "nodes"
                         [] from = "nodes" -> IF Threaded THEN "join" ELSE "tombstone"
                         [] from = "join" -> "apply"
                         [] from = "apply" -> "blocks"
                         [] from = "blocks" -> "report"
                         [] from = "report" -> "exit"
BY DEF Advance, Order, Phases, Over, Ended

LEMMA LinkInit == Init => LinkInv
<1>1. Range(<<>>) = {} /\ PreserveQ!Range(<<>>) = {}
  BY DEF Range, PreserveQ!Range
<1> QED
  BY <1>1 DEF Init, Feed!Init, Preserve!Init, LinkInv, Phases, Over, Ended, PreserveQ!Tombstoned

LEMMA LinkNext ==
    FeedInv /\ LinkInv /\ PreserveQ!QueueInv /\ [Next]_vars => LinkInv'
<1> SUFFICES ASSUME FeedInv, LinkInv, PreserveQ!QueueInv, [Next]_vars PROVE LinkInv'
  OBVIOUS
<1>0. /\ consumer \in [Consumers -> {"pop", "load", "work", "exit", "done"}]
      /\ key \in [Consumers -> Keys \union {NoKey}]
      /\ phase \in Phases
      /\ PreserveQ!TypeOK
  BY FeedFacts DEF LinkInv, PreserveQ!QueueInv
<1> DEFINE Enqueues == \/ PreserveQ!MergeThread \/ PreserveQ!SpuriousMergeWakeup
                       \/ \E c \in Consumers :
                             \/ PreserveQ!CloseList(c)
                             \/ \E p \in Keys : PreserveQ!NoteAnthropocene(c, p)
<1>1. ASSUME Enqueues, phase \in BeforeTombstone PROVE ~ PreserveQ!Tombstoned'
  BY <1>0, <1>1, PreserveQ!OthersSetNoTombstone, InstanceAssumptions DEF LinkInv
<1>2. ASSUME UNCHANGED merge_queue, phase \in BeforeTombstone PROVE ~ PreserveQ!Tombstoned'
  BY <1>2 DEF LinkInv, PreserveQ!Tombstoned, PreserveQ!Range
<1> USE DEF LinkInv
<1>3. ASSUME NEW c \in Consumers, Pop(c) \/ Reject(c) \/ Accept(c) PROVE LinkInv'
  <2>1. UNCHANGED <<preserveVars, phase, main, writing>> /\ handled \subseteq handled'
        /\ consumer[c] # "done" /\ consumer'[c] # "done"
        /\ \A d \in Consumers \ {c} : consumer'[d] = consumer[d]
    BY <1>0, <1>3 DEF Pop, Reject, Accept, outVars, Feed!PopWait, Feed!PopKey, Feed!PopTombstone,
          Feed!Popping, Feed!RejectBlock, Feed!AcceptBlock, Feed!Release, Feed!mainVars,
          Feed!consumerVars
  <2> QED BY <1>2, <2>1 DEF preserveVars
<1>4. ASSUME NEW c \in Consumers, EnqueueNodes(c) \/ RecordBlock(c) \/ EnqueueMapBlockPos(c)
      PROVE  LinkInv'
  <2>1. UNCHANGED <<feedVars, preserveVars, phase, writing>>
    BY <1>4 DEF EnqueueNodes, RecordBlock, EnqueueMapBlockPos, outVars
  <2> QED BY <1>2, <2>1 DEF feedVars, preserveVars
<1>5. ASSUME NEW c \in Consumers, FinishBlock(c) PROVE LinkInv'
  <2>1. /\ consumer[c] = "work" /\ consumer'[c] = "pop"
        /\ \A d \in Consumers \ {c} : consumer'[d] = consumer[d]
        /\ handled' = handled \union {key[c]} /\ UNCHANGED <<main, phase, writing>>
        /\ UNCHANGED preserveVars \/ PreserveQ!NoteAnthropocene(c, key[c])
    BY <1>0, <1>5, PreserveActions DEF FinishBlock, Feed!FinishBlock, Feed!Release, Feed!mainVars, outVars
  <2>2. key[c] \in Keys
    BY <2>1, FeedFacts
  <2>3. /\ noted' \subseteq noted \union {key[c]}
        /\ UNCHANGED <<closed, merger, surrendered>>
    BY <2>1 DEF preserveVars, PreserveQ!NoteAnthropocene, PreserveQ!mergeVars
  <2>4. phase \in BeforeTombstone => ~ PreserveQ!Tombstoned'
    BY <1>1, <1>2, <2>1, <2>2 DEF preserveVars
  <2> QED BY <2>1, <2>3, <2>4
<1>6. ASSUME NEW c \in Consumers, ConsumerExit(c) PROVE LinkInv'
  <2>1. /\ consumer'[c] = "done" /\ \A d \in Consumers \ {c} : consumer'[d] = consumer[d]
        /\ UNCHANGED <<handled, main, phase, writing>>
        /\ PreserveQ!CloseList(c)
    BY <1>0, <1>6, PreserveActions DEF ConsumerExit, Feed!ConsumerExit, Feed!mainVars, outVars
  <2>2. closed' = closed \union {c} /\ UNCHANGED <<noted, merger, surrendered>>
    BY <2>1 DEF PreserveQ!CloseList, PreserveQ!mergeVars
  <2> QED BY <1>1, <2>1, <2>2
<1>7. CASE MergeStep
  <2>1. /\ PreserveQ!MergeThread \/ PreserveQ!SpuriousMergeWakeup
        /\ UNCHANGED <<feedVars, phase, writing>>
    BY <1>7, PreserveActions DEF MergeStep, outVars
  <2>2. /\ UNCHANGED <<noted, closed, surrendered>>
        /\ merger = "done" => merger' = "done"
    BY <2>1 DEF PreserveQ!MergeThread, PreserveQ!SpuriousMergeWakeup, PreserveQ!MergeWait,
          PreserveQ!MergePop, PreserveQ!DoMerge, PreserveQ!MergeExit, PreserveQ!Checking,
          PreserveQ!listVars, PreserveQ!mergeVars
  <2> QED BY <1>1, <2>1, <2>2 DEF feedVars
<1>8. CASE FeedStep
  <2>1. UNCHANGED <<consumer, handled, preserveVars, phase, writing>>
    BY <1>8 DEF FeedStep, outVars, Feed!Producer, Feed!ScanRow, Feed!Enqueue, Feed!SetTombstone,
          Feed!MainStep, Feed!IdleWait, Feed!Progress, Feed!ProgressStart, Feed!ProgressGood,
          Feed!ProgressBad, Feed!ProgressRemaining, Feed!JoinAll, Feed!IdleTimeout,
          Feed!SpuriousWakeup, Feed!consumerVars
  <2>2. main = "joined" => main' = "joined"
    BY <1>8 DEF FeedStep, Feed!Producer, Feed!ScanRow, Feed!Enqueue, Feed!SetTombstone,
          Feed!MainStep, Feed!IdleWait, Feed!Progress, Feed!ProgressStart, Feed!ProgressGood,
          Feed!ProgressBad, Feed!ProgressRemaining, Feed!JoinAll, Feed!IdleTimeout,
          Feed!SpuriousWakeup, Feed!mainVars
  <2> QED BY <1>2, <2>1, <2>2 DEF preserveVars
<1>9. CASE Fail \/ Report \/ Kill
  <2>1. UNCHANGED <<feedVars, preserveVars>> /\ phase' \in Over
    BY <1>9, Endings
  <2> QED BY <2>1 DEF feedVars, preserveVars, Over, Ended, Phases, BeforeTombstone, BeforeApply
<1>10. CASE MainStep
  <2> USE DEF Phases, Over, Ended, BeforeTombstone, BeforeApply
  <2>1. CASE SetTombstone
    <3>1. UNCHANGED <<feedVars, noted, closed, merger, surrendered, writing>>
      BY <2>1, PreserveActions DEF SetTombstone, PreserveQ!SetTombstone, PreserveQ!listVars,
            PreserveQ!mergeVars
    <3>2. phase = "tombstone" /\ phase' = IF Threaded THEN "actor" ELSE "join"
      BY <2>1, AdvanceTo DEF SetTombstone
    <3> QED BY <3>1, <3>2 DEF feedVars
  <2>2. CASE ApplyPreserveFlags
    <3>1. UNCHANGED <<feedVars, noted, closed, merger, merge_queue, writing>>
      BY <2>2, PreserveActions DEF ApplyPreserveFlags, PreserveQ!SurrenderFinalSet,
            PreserveQ!listVars, PreserveQ!mergeVars
    <3>2. phase = "apply" /\ phase' = "blocks"
      BY <2>2, AdvanceTo DEF ApplyPreserveFlags
    <3> QED BY <3>1, <3>2 DEF feedVars
  <2>3. CASE JoinThreads \/ JoinMerger \/ NoNodesToFlush \/ Commit
    <3>1. UNCHANGED <<feedVars, preserveVars>>
      BY <2>3 DEF JoinThreads, JoinMerger, NoNodesToFlush, Commit
    <3>2. /\ Advance(phase) /\ phase \notin {"tombstone", "apply"}
          /\ phase = "analyze" => main = "joined"
          /\ phase = "join" => merger = "done"
          /\ writing' => writing /\ phase \notin {"actor", "node", "nodes", "blocks"}
      BY <2>3, AdvanceTo DEF JoinThreads, JoinMerger, NoNodesToFlush, Commit
    <3> QED BY <1>0, <1>2, <3>1, <3>2, AdvanceTo DEF feedVars, preserveVars
  <2>4. CASE FlushActorIdMap \/ FlushNodeIdMap \/ FlushNodeQueue \/ FlushBlockQueue
    <3>1. UNCHANGED <<feedVars, preserveVars, phase>>
          /\ phase \in {"actor", "node", "nodes", "blocks"}
      BY <2>4 DEF FlushActorIdMap, FlushNodeIdMap, FlushNodeQueue, FlushBlockQueue, Flush
    <3> QED BY <1>2, <3>1 DEF feedVars, preserveVars
  <2> QED BY <1>10, <2>1, <2>2, <2>3, <2>4 DEF MainStep
<1>11. CASE UNCHANGED vars
  BY <1>2, <1>11 DEF vars, feedVars, preserveVars, outVars
<1> QED BY <1>3, <1>4, <1>5, <1>6, <1>7, <1>8, <1>9, <1>10, <1>11 DEF Next, Consumer, Terminated

QueuesInv == FeedInv /\ LinkInv /\ PreserveQ!QueueInv

LEMMA QueuesInductive == /\ Init => QueuesInv
                         /\ QueuesInv /\ [Next]_vars => QueuesInv'
<1>1. Init => QueuesInv
  BY FeedInductive, LinkInit, PreserveInit, PreserveQ!QueueInductive, InstanceAssumptions
  DEF QueuesInv
<1>2. QueuesInv /\ [Next]_vars => QueuesInv'
  BY FeedInductive, LinkNext, PreserveNext, PreserveQ!QueueInductive, InstanceAssumptions
  DEF QueuesInv
<1> QED BY <1>1, <1>2

(* Consumers, merge thread and main behave as PreserveQueue says, although *)
(* main keeps to the order of its own phases.                              *)
THEOREM ImplementsPreserveQueue == Spec => PreserveQ!Spec
<1>1. QueuesInv /\ [Next]_vars => [PreserveQ!Next]_PreserveQ!vars
  BY PreserveNext DEF QueuesInv
<1> QED BY <1>1, PreserveInit, QueuesInductive, PTL DEF Spec, PreserveQ!Spec

-----------------------------------------------------------------------------
(* Where the consumers are with their blocks.                              *)

StageInv ==
    /\ world \in Worlds
    /\ stage \in [Consumers -> Stages]
    /\ \A c \in Consumers : stage[c] # "idle" <=> consumer[c] = "work"
    /\ \A c \in Consumers : stage[c] # "idle" => Block(c).kind = "ok"

LEMMA StageInit == Init => StageInv
BY DEF Init, Feed!Init, StageInv, Stages

LEMMA StageNext == QueuesInv /\ StageInv /\ [Next]_vars => StageInv'
<1> SUFFICES ASSUME QueuesInv, StageInv, [Next]_vars PROVE StageInv'
  OBVIOUS
<1>0. /\ consumer \in [Consumers -> {"pop", "load", "work", "exit", "done"}]
      /\ key \in [Consumers -> Keys \union {NoKey}]
  BY FeedFacts DEF QueuesInv
<1> USE DEF StageInv, Block, Stages
<1>1. ASSUME NEW c \in Consumers, Pop(c) \/ Reject(c) \/ Accept(c) PROVE StageInv'
  <2>1. CASE Pop(c)
    BY <1>0, <2>1 DEF Pop, Feed!PopWait, Feed!PopKey, Feed!PopTombstone, Feed!Popping, blockVars,
        Feed!consumerVars
  <2>2. CASE Reject(c)
    BY <1>0, <2>2 DEF Reject, Feed!RejectBlock, Feed!Release
  <2>3. CASE Accept(c)
    BY <1>0, <2>3 DEF Accept, Feed!AcceptBlock
  <2> QED BY <1>1, <2>1, <2>2, <2>3
<1>2. ASSUME NEW c \in Consumers, EnqueueNodes(c) \/ RecordBlock(c) \/ EnqueueMapBlockPos(c)
      PROVE  StageInv'
  BY <1>0, <1>2 DEF EnqueueNodes, RecordBlock, EnqueueMapBlockPos, At, feedVars
<1>3. ASSUME NEW c \in Consumers, FinishBlock(c) PROVE StageInv'
  BY <1>0, <1>3 DEF FinishBlock, At, Feed!FinishBlock, Feed!Release
<1>4. ASSUME NEW c \in Consumers, ConsumerExit(c) PROVE StageInv'
  BY <1>0, <1>4 DEF ConsumerExit, Feed!ConsumerExit, blockVars
<1>5. CASE FeedStep
  <2>1. UNCHANGED <<consumer, key, blockVars, world>>
    BY <1>5 DEF FeedStep, Feed!Producer, Feed!ScanRow, Feed!Enqueue, Feed!SetTombstone,
          Feed!MainStep, Feed!IdleWait, Feed!Progress, Feed!ProgressStart, Feed!ProgressGood,
          Feed!ProgressBad, Feed!ProgressRemaining, Feed!JoinAll, Feed!IdleTimeout,
          Feed!SpuriousWakeup, Feed!consumerVars
  <2> QED BY <2>1 DEF blockVars
<1>6. CASE MergeStep \/ MainStep \/ Fail \/ Report \/ Kill \/ UNCHANGED vars
  <2>1. UNCHANGED <<consumer, key, stage, world>>
    BY <1>6 DEF MergeStep, MainStep, Fail, Kill, Stop, JoinThreads, SetTombstone, Flush,
        FlushActorIdMap, FlushNodeIdMap, FlushNodeQueue, NoNodesToFlush, JoinMerger,
        ApplyPreserveFlags, FlushBlockQueue, Commit, Report, vars, feedVars, blockVars
  <2> QED BY <2>1
<1> QED BY <1>1, <1>2, <1>3, <1>4, <1>5, <1>6 DEF Next, Consumer, Terminated

(* No two consumers write one entry of block_data_.                        *)
THEOREM EntriesAreOwned == Spec => []EntriesHaveOneWriter
<1>1. QueuesInv /\ StageInv => EntriesHaveOneWriter
  BY FeedFacts DEF QueuesInv, StageInv, EntriesHaveOneWriter
<1>2. Init => QueuesInv /\ StageInv
  BY QueuesInductive, StageInit
<1>3. QueuesInv /\ StageInv /\ [Next]_vars => QueuesInv' /\ StageInv'
  BY QueuesInductive, StageNext
<1> QED BY <1>1, <1>2, <1>3, PTL DEF Spec

(* What is read without a lock is not written any more: the consumers have *)
(* been joined, and so has the merge thread before the flags are applied.  *)
THEOREM UnlockedReadsAreSafe == Spec => []UnlockedReadsAreAlone
<1>1. QueuesInv => UnlockedReadsAreAlone
  <2> SUFFICES ASSUME QueuesInv PROVE UnlockedReadsAreAlone
    OBVIOUS
  <2>1. /\ closed = {c \in Consumers : consumer[c] = "done"}
        /\ phase \notin {"analyze"} \union Over => \A c \in Consumers : consumer[c] = "done"
        /\ phase \in {"apply", "blocks"} => merger = "done"
    BY FeedFacts DEF QueuesInv, LinkInv
  <2>2. /\ \A c \in closed : anthropocene_list[c] = <<>>
        /\ merger = "done" => packet = <<>>
    BY DEF QueuesInv, PreserveQ!QueueInv, PreserveQ!WayInv, PreserveQ!ClosedListsAreEmpty,
           PreserveQ!PacketIsBeingMerged
  <2> QED BY <2>1, <2>2 DEF UnlockedReadsAreAlone, Over, Ended
<1> QED BY <1>1, QueuesInductive, PTL DEF Spec

=============================================================================
