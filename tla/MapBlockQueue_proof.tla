------------------------- MODULE MapBlockQueue_proof -------------------------
(***************************************************************************)
(* Theorems about MapBlockQueue, for any number of keys and consumers, any *)
(* batch size, and both modes.                                             *)
(***************************************************************************)
EXTENDS MapBlockQueue, SequenceLemmas, FiniteSetTheorems, TLAPS

USE KeysAssumption, ThreadsAssumption, BatchAssumption

-----------------------------------------------------------------------------
(* Type correctness.  The loop of a consumer shows whether it has a key;    *)
(* without that, Release could put NoKey among the handled keys.           *)

KeyInHand == \A c \in Consumers : key[c] # NoKey <=> consumer[c] \in {"load", "work"}

LEMMA TypeInit == Init => TypeOK /\ KeyInHand
<1>1. <<>> \in Seq(Keys) /\ <<>> \in Seq(Keys \union {Tombstone})
  BY EmptySeq
<1> QED BY <1>1 DEF Init, TypeOK, KeyInHand, ConsumerStates, MainStates, Threads

LEMMA TypeNext == TypeOK /\ KeyInHand /\ [Next]_vars => TypeOK' /\ KeyInHand'
<1> SUFFICES ASSUME TypeOK, KeyInHand, [Next]_vars PROVE TypeOK' /\ KeyInHand'
  OBVIOUS
<1> USE DEF TypeOK, KeyInHand, Threads, ConsumerStates, MainStates
<1>1. CASE ScanRow
  BY <1>1, AppendProperties DEF ScanRow, consumerVars, mainVars
<1>2. CASE Enqueue
  <2>1. batch \in Seq(Keys \union {Tombstone})
    BY SeqMonotonic
  <2>2. queue \o batch \in Seq(Keys \union {Tombstone}) /\ <<>> \in Seq(Keys)
    BY <2>1, ConcatProperties, EmptySeq
  <2> QED BY <1>2, <2>2 DEF Enqueue, NotifyOne, consumerVars, mainVars
<1>3. CASE SetTombstone
  BY <1>3, AppendProperties DEF SetTombstone, NotifyAll, consumerVars, mainVars
<1>4. ASSUME NEW c \in Consumers, PopWait(c) PROVE TypeOK' /\ KeyInHand'
  BY <1>4 DEF PopWait, producerVars, consumerVars, mainVars
<1>5. ASSUME NEW c \in Consumers, PopKey(c) PROVE TypeOK' /\ KeyInHand'
  <2>1. Head(queue) \in Keys /\ Tail(queue) \in Seq(Keys \union {Tombstone})
    BY <1>5, HeadTailProperties DEF PopKey
  <2> QED BY <1>5, <2>1 DEF PopKey, NotifyOne, producerVars, mainVars
<1>6. ASSUME NEW c \in Consumers, PopTombstone(c) PROVE TypeOK' /\ KeyInHand'
  BY <1>6 DEF PopTombstone, Popping, NotifyOne, producerVars, mainVars
<1>7. ASSUME NEW c \in Consumers, RejectBlock(c) PROVE TypeOK' /\ KeyInHand'
  BY <1>7 DEF RejectBlock, Release, producerVars, mainVars
<1>8. ASSUME NEW c \in Consumers, AcceptBlock(c) PROVE TypeOK' /\ KeyInHand'
  BY <1>8 DEF AcceptBlock, producerVars, mainVars
<1>9. ASSUME NEW c \in Consumers, FinishBlock(c) PROVE TypeOK' /\ KeyInHand'
  BY <1>9 DEF FinishBlock, Release, producerVars, mainVars
<1>10. ASSUME NEW c \in Consumers, ConsumerExit(c) PROVE TypeOK' /\ KeyInHand'
  BY <1>10 DEF ConsumerExit, producerVars, mainVars
<1>11. CASE MainStep
  BY <1>11 DEF MainStep, IdleWait, Progress, ProgressStart, ProgressGood,
        ProgressBad, ProgressRemaining, JoinAll, producerVars, consumerVars
<1>12. CASE IdleTimeout
  BY <1>12 DEF IdleTimeout, producerVars, consumerVars
<1>13. ASSUME NEW t \in Threads, SpuriousWakeup(t) PROVE TypeOK' /\ KeyInHand'
  BY <1>13 DEF SpuriousWakeup, producerVars, consumerVars, mainVars
<1>14. CASE UNCHANGED vars
  BY <1>14 DEF vars
<1> QED
  BY <1>1, <1>2, <1>3, <1>4, <1>5, <1>6, <1>7, <1>8, <1>9, <1>10, <1>11,
     <1>12, <1>13, <1>14
  DEF Next, Producer, Consumer, Terminated

(* Every variable keeps its type, and a consumer has a key exactly while   *)
(* it is working on a map block.                                           *)
THEOREM TypeCorrect == Spec => [](TypeOK /\ KeyInHand)
<1> QED BY TypeInit, TypeNext, PTL DEF Spec

-----------------------------------------------------------------------------
(* The tombstone is the last entry, and nobody sleeps past it.             *)

EndInv == TombstoneIsLast /\ NobodySleepsPastTheTombstone

LEMMA EndInit == Init => EndInv
<1>1. Range(<<>>) = {}
  BY DEF Range
<1> QED BY <1>1 DEF Init, EndInv, TombstoneIsLast, NobodySleepsPastTheTombstone

LEMMA EndNext == TypeOK /\ EndInv /\ [Next]_vars => EndInv'
<1> SUFFICES ASSUME TypeOK, EndInv, [Next]_vars PROVE EndInv'
  OBVIOUS
<1> USE DEF EndInv
<1>1. CASE ScanRow
  BY <1>1 DEF ScanRow, TombstoneIsLast, NobodySleepsPastTheTombstone
<1>2. CASE Enqueue
  <2>1. batch \in Seq(Keys) /\ batch \in Seq(Keys \union {Tombstone})
    BY SeqMonotonic DEF TypeOK
  <2>2. Range(queue \o batch) = Range(queue) \union Range(batch)
    BY <2>1, RangeOfConcat DEF TypeOK
  <2>3. Tombstone \notin Range(batch)
    BY <2>1, LenProperties DEF Range
  <2> QED BY <1>2, <2>2, <2>3 DEF Enqueue, TombstoneIsLast, NobodySleepsPastTheTombstone
<1>3. CASE SetTombstone
  <2>1. /\ queue' = Append(queue, Tombstone)
        /\ queue' # <<>> /\ Len(queue') = Len(queue) + 1
        /\ \A i \in 1 .. Len(queue) : queue'[i] = queue[i]
        /\ queue'[Len(queue) + 1] = Tombstone
    BY <1>3, AppendProperties DEF SetTombstone, TypeOK
  <2>2. DOMAIN queue' = 1 .. Len(queue) + 1 /\ DOMAIN queue = 1 .. Len(queue) /\ Len(queue) \in Nat
    BY <2>1, LenProperties, AppendProperties DEF TypeOK
  <2>3. \A i \in 1 .. Len(queue) : queue[i] # Tombstone
    BY <1>3, <2>2 DEF SetTombstone, TombstoneIsLast, Range
  <2>4. \A i \in DOMAIN queue' : queue'[i] = Tombstone <=> i = Len(queue')
    BY <2>1, <2>2, <2>3
  <2> QED BY <1>3, <2>1, <2>4 DEF SetTombstone, NotifyAll, TombstoneIsLast,
             NobodySleepsPastTheTombstone
<1>4. ASSUME NEW c \in Consumers, PopWait(c) PROVE EndInv'
  BY <1>4 DEF PopWait, producerVars, TypeOK, TombstoneIsLast, NobodySleepsPastTheTombstone
<1>5. ASSUME NEW c \in Consumers, PopKey(c) PROVE EndInv'
  <2>1. /\ queue # <<>> /\ queue \in Seq(Keys \union {Tombstone})
        /\ Head(queue) = queue[1] /\ Head(queue) # Tombstone
        /\ queue' = Tail(queue)
    BY <1>5 DEF PopKey, TypeOK
  <2>2. /\ queue' \in Seq(Keys \union {Tombstone}) /\ Len(queue') = Len(queue) - 1
        /\ \A i \in 1 .. Len(queue') : queue'[i] = queue[i + 1]
    BY <2>1, HeadTailProperties
  <2>3. /\ DOMAIN queue' = 1 .. Len(queue) - 1 /\ DOMAIN queue = 1 .. Len(queue)
        /\ Len(queue) \in Nat \ {0}
    BY <2>1, <2>2, LenProperties, EmptySeq
  <2>4. CASE producer = "scanning"
    <3>1. Tombstone \notin Range(queue')
      BY <2>2, <2>3, <2>4 DEF TombstoneIsLast, Range
    <3> QED BY <1>5, <2>4, <3>1 DEF PopKey, producerVars, TombstoneIsLast,
               NobodySleepsPastTheTombstone
  <2>5. CASE producer = "done"
    <3>1. \A i \in 1 .. Len(queue) : queue[i] = Tombstone <=> i = Len(queue)
      BY <2>3, <2>5 DEF TombstoneIsLast
    <3>2. Len(queue) # 1
      <4>1. queue[1] # Tombstone /\ 1 \in 1 .. Len(queue)
        BY <2>1, <2>3
      <4>2. queue[1] = Tombstone <=> 1 = Len(queue)
        BY <3>1, <4>1
      <4> QED BY <4>1, <4>2
    <3>3. Len(queue') \in Nat \ {0}
      BY <2>2, <2>3, <3>2
    <3>4. queue' # <<>>
      BY <3>3
    <3>5. \A i \in DOMAIN queue' : queue'[i] = Tombstone <=> i = Len(queue')
      BY <2>2, <2>3, <3>1
    <3> QED BY <1>5, <2>5, <3>4, <3>5 DEF PopKey, NotifyOne, producerVars,
               TombstoneIsLast, NobodySleepsPastTheTombstone
  <2> QED BY <2>4, <2>5 DEF TypeOK
<1>6. ASSUME NEW c \in Consumers, PopTombstone(c) PROVE EndInv'
  BY <1>6 DEF PopTombstone, NotifyOne, producerVars, TombstoneIsLast, NobodySleepsPastTheTombstone
<1>7. ASSUME NEW c \in Consumers,
             RejectBlock(c) \/ AcceptBlock(c) \/ FinishBlock(c) \/ ConsumerExit(c)
      PROVE  EndInv'
  BY <1>7 DEF RejectBlock, AcceptBlock, FinishBlock, ConsumerExit, producerVars,
        TombstoneIsLast, NobodySleepsPastTheTombstone
<1>8. CASE MainStep
  BY <1>8 DEF MainStep, IdleWait, Progress, ProgressStart, ProgressGood,
        ProgressBad, ProgressRemaining, JoinAll, producerVars,
        TombstoneIsLast, NobodySleepsPastTheTombstone
<1>9. CASE IdleTimeout
  BY <1>9 DEF IdleTimeout, producerVars, TombstoneIsLast, NobodySleepsPastTheTombstone
<1>10. ASSUME NEW t \in Threads, SpuriousWakeup(t) PROVE EndInv'
  BY <1>10 DEF SpuriousWakeup, producerVars, TombstoneIsLast, NobodySleepsPastTheTombstone
<1>11. CASE UNCHANGED vars
  BY <1>11 DEF vars, TombstoneIsLast, NobodySleepsPastTheTombstone
<1> QED
  BY <1>1, <1>2, <1>3, <1>4, <1>5, <1>6, <1>7, <1>8, <1>9, <1>10, <1>11
  DEF Next, Producer, Consumer, Terminated

(* A consumer that sees the tombstone has seen every key there is before   *)
(* it: the tombstone is the last entry of the queue.                       *)
THEOREM TombstoneComesLast == Spec => []TombstoneIsLast
<1> QED BY TypeInit, TypeNext, EndInit, EndNext, PTL DEF Spec, EndInv

(* No consumer is blocked in Pop once the tombstone is set.                *)
THEOREM NobodyOversleeps == Spec => []NobodySleepsPastTheTombstone
<1> QED BY TypeInit, TypeNext, EndInit, EndNext, PTL DEF Spec, EndInv

-----------------------------------------------------------------------------
(* No key is lost or handed out twice: EveryKeyInOnePlace is inductive     *)
(* beside the two invariants above.  Places states it element by element,  *)
(* of rows R, pipeline P, keys in hand K and handled keys H.               *)

Places(R, P, K, H) ==
    /\ Keys \subseteq R \union Range(P) \union ({K[c] : c \in Consumers} \ {NoKey}) \union H
    /\ IsInjective(P)
    /\ \A c, d \in Consumers : K[c] # NoKey /\ K[c] = K[d] => c = d
    /\ \A k \in R : k \notin Range(P) /\ k \notin H
    /\ \A k \in Range(P) : k \notin H
    /\ \A c \in Consumers : K[c] # NoKey => K[c] \notin R /\ K[c] \notin Range(P) /\ K[c] \notin H

LEMMA PlacesInit == Init => EveryKeyInOnePlace
<1> SUFFICES ASSUME Init PROVE EveryKeyInOnePlace
  OBVIOUS
<1>1. queue \o batch = <<>>
  BY EmptySeq, ConcatEmptySeq DEF Init
<1>2. Range(<<>>) = {} /\ IsInjective(<<>>)
  BY DEF Range, IsInjective
<1> QED BY <1>1, <1>2 DEF Init, EveryKeyInOnePlace, Pipeline, Held

LEMMA PlacesNext ==
    TypeOK /\ KeyInHand /\ TombstoneIsLast /\ EveryKeyInOnePlace /\ [Next]_vars
        => EveryKeyInOnePlace'
<1> SUFFICES ASSUME TypeOK, KeyInHand, TombstoneIsLast, [Next]_vars,
                    Places(rows, Pipeline, key, handled)
             PROVE  Places(rows', Pipeline', key', handled')
  BY DEF EveryKeyInOnePlace, Places, Held
<1> DEFINE S == Keys \union {Tombstone}
<1>1. queue \in Seq(S) /\ batch \in Seq(S) /\ batch \in Seq(Keys) /\ Pipeline \in Seq(S)
  BY SeqMonotonic, ConcatProperties DEF TypeOK, Pipeline
<1>2. CASE ScanRow
  <2>1. PICK k \in rows : rows' = rows \ {k} /\ batch' = Append(batch, k)
    BY <1>2 DEF ScanRow
  <2>2. UNCHANGED <<queue, key, handled>>
    BY <1>2 DEF ScanRow, consumerVars
  <2>3. k \in S /\ k \notin Range(Pipeline)
    BY <2>1 DEF TypeOK, Places
  <2>4. Pipeline' = Append(Pipeline, k)
    BY <1>1, <2>1, <2>2, <2>3, ConcatAppend DEF Pipeline
  <2>5. Range(Pipeline') = Range(Pipeline) \union {k} /\ IsInjective(Pipeline')
    BY <1>1, <2>3, <2>4, AppendNew DEF Places
  <2> QED BY <2>1, <2>2, <2>5 DEF Places
<1>3. CASE Enqueue
  <2>1. queue' = queue \o batch /\ batch' = <<>> /\ UNCHANGED <<rows, key, handled>>
    BY <1>3 DEF Enqueue, consumerVars
  <2>2. Pipeline' = Pipeline
    BY <1>1, <2>1, ConcatEmptySeq DEF Pipeline
  <2> QED BY <2>1, <2>2
<1>4. CASE SetTombstone
  <2>1. /\ queue' = Append(queue, Tombstone) /\ batch' = <<>> /\ batch = <<>>
        /\ UNCHANGED <<rows, key, handled>>
    BY <1>4 DEF SetTombstone, consumerVars
  <2>2. Pipeline = queue /\ Pipeline' = Append(queue, Tombstone)
    <3>1. Append(queue, Tombstone) \in Seq(S)
      BY <1>1, AppendProperties
    <3> QED BY <1>1, <2>1, <3>1, ConcatEmptySeq DEF Pipeline
  <2>3. Tombstone \notin Range(Pipeline)
    BY <1>4, <2>2 DEF SetTombstone, TombstoneIsLast
  <2>4. Range(Pipeline') = Range(Pipeline) \union {Tombstone} /\ IsInjective(Pipeline')
    BY <1>1, <2>2, <2>3, AppendNew DEF Places
  <2>5. /\ Tombstone \notin rows /\ Tombstone \notin handled
        /\ \A c \in Consumers : key[c] # Tombstone
    BY DEF TypeOK
  <2> QED BY <2>1, <2>4, <2>5 DEF Places
<1>5. ASSUME NEW c \in Consumers, PopKey(c) PROVE Places(rows', Pipeline', key', handled')
  <2>1. /\ queue # <<>> /\ queue' = Tail(queue) /\ UNCHANGED <<rows, batch, handled>>
        /\ key' = [key EXCEPT ![c] = Head(queue)]
    BY <1>5 DEF PopKey, producerVars
  <2> DEFINE k == Head(queue)
  <2>2. Pipeline # <<>> /\ k = Head(Pipeline) /\ Pipeline' = Tail(Pipeline)
    <3>1. queue \o batch # <<>> /\ Head(queue \o batch) = Head(queue)
          /\ Tail(queue \o batch) = Tail(queue) \o batch
      BY <1>1, <2>1, ConcatTail
    <3> QED BY <3>1, <2>1 DEF Pipeline
  <2>3. /\ Range(Pipeline) = Range(Pipeline') \union {k}
        /\ k \notin Range(Pipeline') /\ IsInjective(Pipeline')
    BY <1>1, <2>2, TailDropsHead DEF Places
  <2>4. key[c] = NoKey
    BY <1>5 DEF PopKey, Popping, KeyInHand
  <2>5. k # NoKey
    BY <1>1, <2>1, HeadTailProperties
  <2>6. key'[c] = k /\ \A d \in Consumers \ {c} : key'[d] = key[d]
    BY <2>1 DEF TypeOK
  <2> HIDE DEF k
  <2> QED BY <2>1, <2>3, <2>4, <2>5, <2>6 DEF Places
<1>6. ASSUME NEW c \in Consumers, RejectBlock(c) \/ FinishBlock(c)
      PROVE  Places(rows', Pipeline', key', handled')
  <2>1. /\ UNCHANGED <<rows, queue, batch>>
        /\ handled' = handled \union {key[c]} /\ key' = [key EXCEPT ![c] = NoKey]
    BY <1>6 DEF RejectBlock, FinishBlock, Release, producerVars
  <2>2. key[c] # NoKey
    BY <1>6 DEF RejectBlock, FinishBlock, KeyInHand
  <2>3. key'[c] = NoKey /\ \A d \in Consumers \ {c} : key'[d] = key[d]
    BY <2>1 DEF TypeOK
  <2>4. Pipeline' = Pipeline
    BY <2>1 DEF Pipeline
  <2> QED BY <2>1, <2>2, <2>3, <2>4 DEF Places
<1>7. ASSUME UNCHANGED <<rows, queue, batch, key, handled>>
      PROVE  Places(rows', Pipeline', key', handled')
  BY <1>7 DEF Pipeline
<1>8. ASSUME NEW c \in Consumers,
             PopWait(c) \/ PopTombstone(c) \/ AcceptBlock(c) \/ ConsumerExit(c)
      PROVE  UNCHANGED <<rows, queue, batch, key, handled>>
  BY <1>8 DEF PopWait, PopTombstone, AcceptBlock, ConsumerExit, producerVars, consumerVars
<1>9. ASSUME MainStep \/ IdleTimeout \/ \E t \in Threads : SpuriousWakeup(t)
      PROVE  UNCHANGED <<rows, queue, batch, key, handled>>
  BY <1>9 DEF MainStep, IdleWait, Progress, ProgressStart, ProgressGood, ProgressBad,
        ProgressRemaining, JoinAll, IdleTimeout, SpuriousWakeup, producerVars, consumerVars
<1>10. CASE UNCHANGED vars
  BY <1>7, <1>10 DEF vars
<1> QED
  BY <1>2, <1>3, <1>4, <1>5, <1>6, <1>7, <1>8, <1>9, <1>10
  DEF Next, Producer, Consumer, Terminated

(* No map block is lost and none is analyzed twice.                        *)
THEOREM KeysAreConserved == Spec => []EveryKeyInOnePlace
<1>1. Init => TypeOK /\ KeyInHand /\ EndInv /\ EveryKeyInOnePlace
  BY TypeInit, EndInit, PlacesInit
<1>2. TypeOK /\ KeyInHand /\ EndInv /\ EveryKeyInOnePlace /\ [Next]_vars
        => (TypeOK /\ KeyInHand /\ EndInv /\ EveryKeyInOnePlace)'
  BY TypeNext, EndNext, PlacesNext DEF EndInv
<1> QED BY <1>1, <1>2, PTL DEF Spec

-----------------------------------------------------------------------------
(* The counters count the keys: `queued' those the scan has delivered,     *)
(* `good' and `bad' together those in Counted.                             *)

Working == {key[c] : c \in {d \in Consumers : consumer[d] = "work"}}
Counted == handled \union Working

CountInv ==
    /\ stats.queued = Cardinality(Keys \ rows)
    /\ stats.good + stats.bad = Cardinality(Counted)
    /\ main = "bad" => sofar <= stats.good
    /\ main = "remaining" => sofar <= stats.good + stats.bad

(* A consumer leaves its loop at the tombstone, main joins the others.     *)
LeftInv ==
    /\ \A c \in Consumers : consumer[c] \in {"exit", "done"} => producer = "done" /\ TombstoneIsNext
    /\ main = "joined" => \A c \in Consumers : consumer[c] = "done"

AllInv == TypeOK /\ KeyInHand /\ EndInv /\ EveryKeyInOnePlace

LEMMA CountInit == Init => CountInv /\ LeftInv
<1> SUFFICES ASSUME Init PROVE CountInv /\ LeftInv
  OBVIOUS
<1>1. Keys \ rows = {} /\ Counted = {}
  BY DEF Init, Counted, Working
<1>2. CountInv
  <2>1. Cardinality(Keys \ rows) = 0 /\ Cardinality(Counted) = 0
    BY <1>1, FS_EmptySet, Zenon
  <2>2. stats.queued = 0 /\ stats.good + stats.bad = 0 /\ main \in {"poll", "join"}
    BY DEF Init
  <2> QED BY <2>1, <2>2 DEF CountInv
<1>3. LeftInv
  BY DEF Init, LeftInv
<1> QED BY <1>2, <1>3

(* Counted keys are keys the scan has delivered.                           *)
LEMMA CountedIsDelivered ==
    ASSUME AllInv
    PROVE  /\ Counted \subseteq Keys \ rows
           /\ IsFiniteSet(Counted) /\ Cardinality(Counted) \in Nat
           /\ IsFiniteSet(Keys \ rows) /\ Cardinality(Keys \ rows) \in Nat
           /\ Cardinality(Counted) <= Cardinality(Keys \ rows)
<1>1. handled \subseteq Keys \ rows
  BY DEF AllInv, TypeOK, EveryKeyInOnePlace
<1>2. ASSUME NEW c \in Consumers, consumer[c] = "work" PROVE key[c] \in Keys \ rows
  <2>1. key[c] # NoKey /\ key[c] \in Keys
    BY <1>2 DEF AllInv, TypeOK, KeyInHand
  <2>2. key[c] \in Held
    BY <2>1 DEF Held
  <2> QED BY <2>1, <2>2 DEF AllInv, EveryKeyInOnePlace
<1>3. Counted \subseteq Keys \ rows
  BY <1>1, <1>2 DEF Counted, Working
<1>4. IsFiniteSet(Keys \ rows)
  BY FS_Subset
<1> QED BY <1>3, <1>4, FS_Subset, FS_CardinalityType

LEMMA CountNext == AllInv /\ CountInv /\ [Next]_vars => CountInv'
<1> SUFFICES ASSUME AllInv, CountInv, [Next]_vars PROVE CountInv'
  OBVIOUS
<1> USE DEF CountInv
<1>1. /\ IsFiniteSet(Counted) /\ Cardinality(Counted) \in Nat
      /\ IsFiniteSet(Keys \ rows) /\ Cardinality(Keys \ rows) \in Nat
  BY CountedIsDelivered
<1>2. /\ stats \in [queued : Nat, good : Nat, bad : Nat] /\ sofar \in Nat
      /\ key \in [Consumers -> Keys \union {NoKey}]
      /\ consumer \in [Consumers -> ConsumerStates]
  BY DEF AllInv, TypeOK
<1>3. CASE ScanRow
  <2>1. PICK k \in rows : rows' = rows \ {k}
    BY <1>3 DEF ScanRow
  <2>2. UNCHANGED <<key, consumer, handled, main, sofar>>
        /\ stats' = [stats EXCEPT !.queued = @ + 1]
    BY <1>3 DEF ScanRow, consumerVars, mainVars
  <2>3. Keys \ rows' = (Keys \ rows) \union {k} /\ k \notin Keys \ rows
    BY <2>1 DEF AllInv, TypeOK
  <2>4. Cardinality(Keys \ rows') = Cardinality(Keys \ rows) + 1
    BY <1>1, <2>3, FS_AddElement
  <2>5. Counted' = Counted
    BY <2>2 DEF Counted, Working
  <2> QED BY <1>2, <2>2, <2>4, <2>5
<1>4. ASSUME NEW c \in Consumers, RejectBlock(c) \/ AcceptBlock(c) PROVE CountInv'
  <2>1. consumer[c] = "load" /\ key[c] # NoKey
    BY <1>4 DEF RejectBlock, AcceptBlock, AllInv, KeyInHand
  <2>2. key[c] \notin Counted
    <3>1. key[c] \in Held
      BY <2>1 DEF Held
    <3>2. key[c] \notin handled
      BY <3>1 DEF AllInv, EveryKeyInOnePlace
    <3>3. key[c] \notin Working
      BY <2>1 DEF Working, AllInv, EveryKeyInOnePlace
    <3> QED BY <3>2, <3>3 DEF Counted
  <2>3. Cardinality(Counted \union {key[c]}) = Cardinality(Counted) + 1
    BY <1>1, <2>2, FS_AddElement
  <2>4. Counted' = Counted \union {key[c]}
    <3>1. CASE RejectBlock(c)
      <4>1. /\ handled' = handled \union {key[c]} /\ key' = [key EXCEPT ![c] = NoKey]
            /\ consumer' = [consumer EXCEPT ![c] = "pop"]
        BY <3>1 DEF RejectBlock, Release
      <4>2. Working' = Working
        BY <1>2, <2>1, <4>1 DEF Working
      <4> QED BY <4>1, <4>2 DEF Counted
    <3>2. CASE AcceptBlock(c)
      <4>1. UNCHANGED <<key, handled>> /\ consumer' = [consumer EXCEPT ![c] = "work"]
        BY <3>2 DEF AcceptBlock
      <4>2. Working' = Working \union {key[c]}
        BY <1>2, <4>1 DEF Working
      <4> QED BY <4>1, <4>2 DEF Counted
    <3> QED BY <1>4, <3>1, <3>2
  <2>5. /\ UNCHANGED <<rows, main, sofar>>
        /\ \/ stats' = [stats EXCEPT !.bad = @ + 1]
           \/ stats' = [stats EXCEPT !.good = @ + 1]
    BY <1>4 DEF RejectBlock, AcceptBlock, producerVars, mainVars
  <2>6. /\ stats'.queued = stats.queued /\ stats.good <= stats'.good
        /\ stats'.good + stats'.bad = stats.good + stats.bad + 1
    BY <1>2, <2>5
  <2>7. stats'.good \in Nat /\ stats'.bad \in Nat
    BY <1>2, <2>5
  <2> QED BY <1>2, <2>3, <2>4, <2>5, <2>6, <2>7
<1>5. ASSUME NEW c \in Consumers, FinishBlock(c) PROVE CountInv'
  <2>1. /\ handled' = handled \union {key[c]} /\ key' = [key EXCEPT ![c] = NoKey]
        /\ consumer' = [consumer EXCEPT ![c] = "pop"] /\ consumer[c] = "work"
        /\ UNCHANGED <<rows, stats, main, sofar>>
    BY <1>5 DEF FinishBlock, Release, producerVars, mainVars
  <2>2. Working' \subseteq Working /\ Working \subseteq Working' \union {key[c]}
    BY <1>2, <2>1 DEF Working
  <2>3. key[c] \in Working
    BY <2>1 DEF Working
  <2>4. Counted' = Counted
    BY <2>1, <2>2, <2>3 DEF Counted
  <2> QED BY <2>1, <2>4
<1>6. ASSUME NEW c \in Consumers,
             PopWait(c) \/ PopKey(c) \/ PopTombstone(c) \/ ConsumerExit(c)
      PROVE  CountInv'
  <2>1. UNCHANGED <<rows, handled, stats, main, sofar>>
    BY <1>6 DEF PopWait, PopKey, PopTombstone, ConsumerExit, producerVars, consumerVars, mainVars
  <2>2. \A d \in Consumers : /\ consumer'[d] = "work" <=> consumer[d] = "work"
                             /\ consumer[d] = "work" => key'[d] = key[d]
    BY <1>2, <1>6 DEF PopWait, PopKey, PopTombstone, ConsumerExit, Popping, consumerVars
  <2>3. Working' = Working
    BY <2>2 DEF Working
  <2> QED BY <2>1, <2>3 DEF Counted
<1>7. CASE Enqueue \/ SetTombstone \/ IdleTimeout \/ (\E t \in Threads : SpuriousWakeup(t))
  <2>1. UNCHANGED <<rows, key, consumer, handled, stats, sofar>>
        /\ (main' = main \/ main' \in {"join", "progress"})
    BY <1>7 DEF Enqueue, SetTombstone, IdleTimeout, SpuriousWakeup, producerVars,
          consumerVars, mainVars
  <2>2. Counted' = Counted
    BY <2>1 DEF Counted, Working
  <2> QED BY <2>1, <2>2
<1>8. CASE MainStep
  <2>1. UNCHANGED <<rows, key, consumer, handled, stats>>
    BY <1>8 DEF MainStep, IdleWait, Progress, ProgressStart, ProgressGood,
          ProgressBad, ProgressRemaining, JoinAll, producerVars, consumerVars
  <2>2. Counted' = Counted
    BY <2>1 DEF Counted, Working
  <2>3. main' = "bad" => sofar' <= stats.good
    BY <1>2, <1>8 DEF MainStep, IdleWait, Progress, ProgressStart, ProgressGood,
          ProgressBad, ProgressRemaining, JoinAll
  <2>4. main' = "remaining" => sofar' <= stats.good + stats.bad
    BY <1>2, <1>8 DEF MainStep, IdleWait, Progress, ProgressStart, ProgressGood,
          ProgressBad, ProgressRemaining, JoinAll
  <2> QED BY <2>1, <2>2, <2>3, <2>4
<1>9. CASE UNCHANGED vars
  BY <1>9 DEF vars, Counted, Working
<1> QED
  BY <1>3, <1>4, <1>5, <1>6, <1>7, <1>8, <1>9 DEF Next, Producer, Consumer, Terminated

LEMMA LeftNext == AllInv /\ LeftInv /\ [Next]_vars => LeftInv'
<1> SUFFICES ASSUME AllInv, LeftInv, [Next]_vars PROVE LeftInv'
  OBVIOUS
<1> USE DEF LeftInv, TombstoneIsNext
<1>1. consumer \in [Consumers -> ConsumerStates] /\ queue \in Seq(Keys \union {Tombstone})
  BY DEF AllInv, TypeOK
<1>2. CASE ScanRow \/ Enqueue
  BY <1>2 DEF ScanRow, Enqueue, consumerVars, mainVars
<1>3. CASE SetTombstone
  BY <1>3 DEF SetTombstone, consumerVars, mainVars
<1>4. ASSUME NEW c \in Consumers, PopKey(c) PROVE LeftInv'
  <2>1. \A d \in Consumers : consumer[d] \notin {"exit", "done"}
    BY <1>4 DEF PopKey
  <2>2. \A d \in Consumers : consumer'[d] \notin {"exit", "done"}
    BY <1>1, <1>4, <2>1 DEF PopKey
  <2>3. main' = main /\ main # "joined"
    BY <1>4, <2>1 DEF PopKey, mainVars
  <2> QED BY <2>2, <2>3
<1>5. ASSUME NEW c \in Consumers, PopTombstone(c) PROVE LeftInv'
  <2>1. producer = "done"
    <3>1. queue # <<>> /\ Head(queue) = Tombstone
      BY <1>5 DEF PopTombstone
    <3>2. Head(queue) \in Range(queue)
      <4>1. Head(queue) = queue[1]
        OBVIOUS
      <4>2. 1 \in DOMAIN queue
        BY <1>1, <3>1, LenProperties, EmptySeq
      <4> QED BY <4>1, <4>2 DEF Range
    <3> QED BY <3>1, <3>2 DEF AllInv, TypeOK, EndInv, TombstoneIsLast
  <2> QED BY <1>1, <1>5, <2>1 DEF PopTombstone, Popping, producerVars, mainVars
<1>6. ASSUME NEW c \in Consumers,
             PopWait(c) \/ RejectBlock(c) \/ AcceptBlock(c) \/ FinishBlock(c) \/ ConsumerExit(c)
      PROVE  LeftInv'
  BY <1>1, <1>6 DEF PopWait, RejectBlock, AcceptBlock, FinishBlock, ConsumerExit, Popping,
        Release, producerVars, consumerVars, mainVars
<1>7. CASE MainStep
  BY <1>7 DEF MainStep, IdleWait, Progress, ProgressStart, ProgressGood,
        ProgressBad, ProgressRemaining, JoinAll, producerVars, consumerVars
<1>8. CASE IdleTimeout \/ (\E t \in Threads : SpuriousWakeup(t))
  BY <1>8 DEF IdleTimeout, SpuriousWakeup, producerVars, consumerVars, mainVars
<1>9. CASE UNCHANGED vars
  BY <1>9 DEF vars
<1> QED
  BY <1>2, <1>3, <1>4, <1>5, <1>6, <1>7, <1>8, <1>9 DEF Next, Producer, Consumer, Terminated

LEMMA JoinedIsCounted == AllInv /\ CountInv /\ LeftInv => JoinedMeansAllCounted
<1> SUFFICES ASSUME AllInv, CountInv, LeftInv, main = "joined"
             PROVE  /\ handled = Keys /\ stats.queued = Cardinality(Keys)
                    /\ stats.good + stats.bad = stats.queued
  BY DEF JoinedMeansAllCounted
<1>1. /\ \A c \in Consumers : consumer[c] = "done"
      /\ producer = "done" /\ queue # <<>> /\ Head(queue) = Tombstone
  BY DEF LeftInv, TombstoneIsNext
<1>2. Held = {} /\ Working = {}
  BY <1>1 DEF Held, Working, AllInv, KeyInHand
<1>3. rows = {} /\ Pipeline = queue
  BY <1>1, ConcatEmptySeq DEF AllInv, EndInv, TombstoneIsLast, Pipeline, TypeOK
<1>4. Range(queue) \subseteq {Tombstone}
  <2>1. /\ DOMAIN queue = 1 .. Len(queue) /\ Len(queue) \in Nat \ {0} /\ Head(queue) = queue[1]
    BY <1>1, LenProperties, EmptySeq DEF AllInv, TypeOK
  <2>2. \A i \in DOMAIN queue : queue[i] = Tombstone <=> i = Len(queue)
    BY <1>1 DEF AllInv, EndInv, TombstoneIsLast
  <2>3. Len(queue) = 1
    <3>1. 1 \in DOMAIN queue /\ queue[1] = Tombstone
      BY <1>1, <2>1
    <3> QED BY <2>2, <3>1
  <2> QED BY <2>1, <2>2, <2>3 DEF Range
<1>5. handled = Keys
  <2>1. Keys \subseteq rows \union Range(queue) \union Held \union handled
    BY <1>3 DEF AllInv, EveryKeyInOnePlace
  <2>2. Keys \subseteq handled
    BY <1>2, <1>3, <1>4, <2>1
  <2> QED BY <2>2 DEF AllInv, TypeOK
<1>6. Counted = Keys /\ Keys \ rows = Keys
  BY <1>2, <1>3, <1>5 DEF Counted
<1> QED BY <1>5, <1>6 DEF CountInv

LEMMA RemainingIsNatural == AllInv /\ CountInv => RemainingDoesNotWrap
<1> SUFFICES ASSUME AllInv, CountInv, main = "remaining" PROVE sofar <= stats.queued
  BY DEF RemainingDoesNotWrap
<1>1. sofar \in Nat /\ sofar <= Cardinality(Counted) /\ stats.queued = Cardinality(Keys \ rows)
  BY DEF CountInv, AllInv, TypeOK
<1> QED BY <1>1, CountedIsDelivered

LEMMA AllInvInductive ==
    /\ Init => AllInv /\ CountInv /\ LeftInv
    /\ AllInv /\ CountInv /\ LeftInv /\ [Next]_vars => (AllInv /\ CountInv /\ LeftInv)'
<1>1. Init => AllInv
  BY TypeInit, EndInit, PlacesInit DEF AllInv
<1>2. AllInv /\ [Next]_vars => AllInv'
  BY TypeNext, EndNext, PlacesNext DEF AllInv, EndInv
<1> QED BY <1>1, <1>2, CountInit, CountNext, LeftNext

(* When main has joined the others every map block has been counted, once, *)
(* as good or as bad.                                                      *)
THEOREM AllAreCounted == Spec => []JoinedMeansAllCounted
<1> QED BY AllInvInductive, JoinedIsCounted, PTL DEF Spec

(* The progress line never subtracts more than there is.                   *)
THEOREM ProgressIsSound == Spec => []RemainingDoesNotWrap
<1> QED BY AllInvInductive, RemainingIsNatural, PTL DEF Spec
-----------------------------------------------------------------------------
(* Every step of MapBlockQueue is a step of BlockFeed or leaves its        *)
(* variables alone: a consumer takes a map block that nobody was given     *)
(* when it pops a key, and is told to stop when none is left.              *)

Left == rows \union (Range(Pipeline) \ {Tombstone})
Stopped == {c \in Consumers : consumer[c] \in {"exit", "done"}}
feedVars == <<Left, key, Stopped>>

LEMMA FeedInit == Init => Feed!Init
<1> SUFFICES ASSUME Init PROVE Feed!Init
  OBVIOUS
<1>1. queue \o batch = <<>>
  BY EmptySeq, ConcatEmptySeq DEF Init
<1>2. Range(Pipeline) = {}
  BY <1>1 DEF Pipeline, Range
<1>3. Left = Keys /\ Stopped = {}
  BY <1>2 DEF Init, Left, Stopped
<1>4. key = [c \in Consumers |-> NoKey]
  BY DEF Init
<1> QED BY <1>3, <1>4 DEF Feed!Init, Left, Stopped

(* A row that the scan delivers goes to the end of the pipeline, and a     *)
(* batch is a part of it before and after Enqueue.                         *)
LEMMA ProducerKeepsLeft ==
    ASSUME AllInv, Producer
    PROVE  Left' = Left
<1> DEFINE S == Keys \union {Tombstone}
<1>1. queue \in Seq(S) /\ batch \in Seq(S) /\ Pipeline \in Seq(S) /\ rows \subseteq Keys
  BY SeqMonotonic, ConcatProperties DEF AllInv, TypeOK, Pipeline
<1>2. CASE ScanRow
  <2>1. PICK k \in rows : rows' = rows \ {k} /\ batch' = Append(batch, k) /\ queue' = queue
    BY <1>2 DEF ScanRow
  <2>2. k \in S /\ k # Tombstone
    BY <1>1, <2>1, KeysAssumption
  <2>3. Pipeline' = Append(Pipeline, k)
    BY <1>1, <2>1, <2>2, ConcatAppend DEF Pipeline
  <2>4. Range(Pipeline') = Range(Pipeline) \union {k}
    BY <1>1, <2>2, <2>3, RangeOfAppend
  <2> QED BY <2>1, <2>2, <2>4 DEF Left
<1>3. CASE Enqueue
  <2>1. queue' = queue \o batch /\ batch' = <<>> /\ rows' = rows
    BY <1>3 DEF Enqueue
  <2>2. Pipeline' = Pipeline
    BY <1>1, <2>1, ConcatEmptySeq DEF Pipeline
  <2> QED BY <2>1, <2>2 DEF Left
<1>4. CASE SetTombstone
  <2>1. queue' = Append(queue, Tombstone) /\ batch' = <<>> /\ batch = <<>> /\ rows' = rows
    BY <1>4 DEF SetTombstone
  <2>2. Pipeline = queue /\ Pipeline' = Append(queue, Tombstone)
    <3>1. Append(queue, Tombstone) \in Seq(S)
      BY <1>1, AppendProperties
    <3> QED BY <1>1, <2>1, <3>1, ConcatEmptySeq DEF Pipeline
  <2>3. Range(Pipeline') = Range(Pipeline) \union {Tombstone}
    BY <1>1, <2>2, RangeOfAppend
  <2> QED BY <2>1, <2>3 DEF Left
<1> QED BY <1>2, <1>3, <1>4 DEF Producer

(* A key that is popped was left, and is not any more.                     *)
LEMMA PopTakes ==
    ASSUME AllInv, NEW c \in Consumers, PopKey(c)
    PROVE  /\ Head(queue) \in Left
           /\ Left' = Left \ {Head(queue)}
<1> DEFINE S == Keys \union {Tombstone}
           k == Head(queue)
<1>1. queue \in Seq(S) /\ batch \in Seq(S) /\ Pipeline \in Seq(S)
  BY SeqMonotonic, ConcatProperties DEF AllInv, TypeOK, Pipeline
<1>2. /\ queue # <<>> /\ queue' = Tail(queue) /\ batch' = batch /\ rows' = rows
      /\ k # Tombstone
  BY DEF PopKey, producerVars
<1>3. Pipeline # <<>> /\ k = Head(Pipeline) /\ Pipeline' = Tail(Pipeline)
  <2>1. queue \o batch # <<>> /\ Head(queue \o batch) = Head(queue)
        /\ Tail(queue \o batch) = Tail(queue) \o batch
    BY <1>1, <1>2, ConcatTail
  <2> QED BY <1>2, <2>1 DEF Pipeline
<1>4. IsInjective(Pipeline) /\ rows \intersect Range(Pipeline) = {}
  BY DEF AllInv, EveryKeyInOnePlace
<1>5. Range(Pipeline) = Range(Pipeline') \union {k} /\ k \notin Range(Pipeline')
  BY <1>1, <1>3, <1>4, TailDropsHead
<1> HIDE DEF k
<1>6. k \in Left /\ Left' = Left \ {k}
  BY <1>2, <1>4, <1>5 DEF Left
<1> QED BY <1>6 DEF k

(* At the tombstone nothing is left.                                       *)
LEMMA NothingIsLeft ==
    ASSUME AllInv, TombstoneIsNext
    PROVE  Left = {}
<1>1. queue \in Seq(Keys \union {Tombstone}) /\ producer \in {"scanning", "done"}
  BY DEF AllInv, TypeOK
<1>2. queue # <<>> /\ queue[1] = Tombstone
  BY <1>1, HeadTailProperties DEF TombstoneIsNext
<1>3. DOMAIN queue = 1 .. Len(queue) /\ Len(queue) \in Nat \ {0}
  BY <1>1, <1>2, LenProperties, EmptySeq
<1>4. Tombstone \in Range(queue) /\ 1 \in DOMAIN queue
  BY <1>2, <1>3 DEF Range
<1>5. rows = {} /\ batch = <<>> /\ Len(queue) = 1
  BY <1>1, <1>2, <1>4 DEF AllInv, EndInv, TombstoneIsLast
<1>6. Pipeline = queue
  BY <1>1, <1>5, ConcatEmptySeq DEF Pipeline
<1>7. Range(queue) = {Tombstone}
  BY <1>2, <1>3, <1>5 DEF Range
<1> QED BY <1>5, <1>6, <1>7 DEF Left

LEMMA FeedNext == AllInv /\ [Next]_vars => Feed!Next \/ UNCHANGED feedVars
<1> SUFFICES ASSUME AllInv, [Next]_vars PROVE Feed!Next \/ UNCHANGED feedVars
  OBVIOUS
<1>0. /\ consumer \in [Consumers -> ConsumerStates]
      /\ key \in [Consumers -> Keys \union {NoKey}]
      /\ \A c \in Consumers : key[c] # NoKey <=> consumer[c] \in {"load", "work"}
  BY DEF AllInv, TypeOK, KeyInHand
<1>1. CASE Producer
  <2>1. UNCHANGED <<key, consumer>>
    BY <1>1 DEF Producer, ScanRow, Enqueue, SetTombstone, consumerVars
  <2>2. Left' = Left
    BY <1>1, ProducerKeepsLeft
  <2> QED BY <2>1, <2>2 DEF feedVars, Stopped
<1>2. ASSUME NEW c \in Consumers, PopKey(c) PROVE Feed!Next
  <2>1. /\ consumer[c] = "pop" /\ consumer' = [consumer EXCEPT ![c] = "load"]
        /\ key' = [key EXCEPT ![c] = Head(queue)]
    BY <1>2 DEF PopKey, Popping
  <2>2. c \notin Stopped /\ key[c] = NoKey /\ Stopped' = Stopped
    BY <1>0, <2>1 DEF Stopped
  <2>3. Head(queue) \in Left /\ Left' = Left \ {Head(queue)}
    BY <1>2, PopTakes
  <2>4. Feed!Take(c)
    BY <2>1, <2>2, <2>3 DEF Feed!Take, Left, Stopped
  <2> QED BY <2>4 DEF Feed!Next, Feed!Consumer
<1>3. ASSUME NEW c \in Consumers, PopTombstone(c) PROVE Feed!Next
  <2>1. /\ consumer[c] = "pop" /\ TombstoneIsNext
        /\ consumer' = [consumer EXCEPT ![c] = "exit"]
        /\ UNCHANGED <<rows, batch, queue, key>>
    BY <1>3 DEF PopTombstone, Popping, producerVars
  <2>2. c \notin Stopped /\ key[c] = NoKey /\ Stopped' = Stopped \union {c}
    BY <1>0, <2>1 DEF Stopped
  <2>3. Left = {} /\ Left' = Left
    BY <2>1, NothingIsLeft DEF Left, Pipeline
  <2>4. Feed!Stop(c)
    BY <2>1, <2>2, <2>3 DEF Feed!Stop, Left, Stopped
  <2> QED BY <2>4 DEF Feed!Next, Feed!Consumer
<1>4. ASSUME NEW c \in Consumers, RejectBlock(c) \/ FinishBlock(c) PROVE Feed!Next
  <2>1. /\ consumer[c] \in {"load", "work"} /\ consumer' = [consumer EXCEPT ![c] = "pop"]
        /\ key' = [key EXCEPT ![c] = NoKey]
        /\ UNCHANGED <<rows, batch, queue>>
    BY <1>4 DEF RejectBlock, FinishBlock, Release, producerVars
  <2>2. key[c] # NoKey /\ Stopped' = Stopped
    BY <1>0, <2>1 DEF Stopped
  <2>3. Left' = Left
    BY <2>1 DEF Left, Pipeline
  <2>4. Feed!Finish(c)
    BY <2>1, <2>2, <2>3 DEF Feed!Finish, Left, Stopped
  <2> QED BY <2>4 DEF Feed!Next, Feed!Consumer
<1>5. ASSUME NEW c \in Consumers, AcceptBlock(c) \/ ConsumerExit(c) PROVE UNCHANGED feedVars
  <2>1. UNCHANGED <<rows, batch, queue, key>>
    BY <1>5 DEF AcceptBlock, ConsumerExit, producerVars
  <2>2. Stopped' = Stopped
    BY <1>0, <1>5 DEF AcceptBlock, ConsumerExit, Stopped
  <2> QED BY <2>1, <2>2 DEF feedVars, Left, Pipeline
<1>6. ASSUME \/ \E c \in Consumers : PopWait(c)
             \/ MainStep \/ IdleTimeout
             \/ \E t \in Threads : SpuriousWakeup(t)
             \/ UNCHANGED vars
      PROVE  UNCHANGED feedVars
  <2>1. UNCHANGED <<rows, batch, queue, key, consumer>>
    BY <1>6 DEF PopWait, MainStep, IdleWait, Progress, ProgressStart, ProgressGood,
          ProgressBad, ProgressRemaining, JoinAll, IdleTimeout, SpuriousWakeup,
          producerVars, consumerVars, vars
  <2> QED BY <2>1 DEF feedVars, Left, Pipeline, Stopped
<1> QED
  BY <1>1, <1>2, <1>3, <1>4, <1>5, <1>6 DEF Next, Consumer, Terminated

(* Whatever the threads do, every map block is handed to one consumer,     *)
(* once, and a consumer stops only when none is left: the safety part of   *)
(* FeedSpec.                                                               *)
THEOREM ImplementsBlockFeed == Spec => Feed!SafeSpec
<1>1. Init => AllInv
  BY TypeInit, EndInit, PlacesInit DEF AllInv
<1>2. AllInv /\ [Next]_vars => AllInv'
  BY TypeNext, EndNext, PlacesNext DEF AllInv, EndInv
<1>3. AllInv /\ [Next]_vars => [Feed!Next]_(Feed!vars)
  BY FeedNext DEF feedVars, Left, Stopped, Feed!vars
<1> QED BY <1>1, <1>2, <1>3, FeedInit, PTL DEF Spec, Feed!SafeSpec
=============================================================================
