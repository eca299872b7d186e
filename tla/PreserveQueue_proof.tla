------------------------- MODULE PreserveQueue_proof -------------------------
(***************************************************************************)
(* Theorems about PreserveQueue, for any positions, consumers, threshold   *)
(* and shape of the cube, and both modes.                                  *)
(***************************************************************************)
EXTENDS PreserveQueue, SequenceLemmas, TLAPS

USE ThresholdAssumption, PreserveAssumption, NotYetAssumption

-----------------------------------------------------------------------------
(* Type correctness.                                                       *)

LEMMA PreservedByUnion ==
    \A A, B : PreservedBy(A \union B) = PreservedBy(A) \union PreservedBy(B)
BY DEF PreservedBy

LEMMA PreservedByMonotonic ==
    \A A, B : A \subseteq B => PreservedBy(A) \subseteq PreservedBy(B)
BY DEF PreservedBy

(* The elements of a sequence are of its type.                             *)
LEMMA RangeType == ASSUME NEW S, NEW s \in Seq(S) PROVE Range(s) \subseteq S
BY LenProperties DEF Range

LEMMA TypeInit == Init => TypeOK
<1>1. <<>> \in Seq(Positions) /\ <<>> \in Seq(Seq(Positions))
  BY EmptySeq
<1> SUFFICES ASSUME Init PROVE TypeOK
  OBVIOUS
<1>2. merge_asleep \in BOOLEAN
  BY DEF Init
<1>3. anthropocene_list \in [Consumers -> Seq(Positions)]
  BY <1>1 DEF Init
<1>4. /\ noted \subseteq Positions
      /\ closed \subseteq Consumers
      /\ final_queue \subseteq PreservedBy(Positions)
      /\ merger \in {"check", "merge", "done"}
  BY DEF Init
<1>5. surrendered \in (SUBSET PreservedBy(Positions)) \union {NotYet}
  BY DEF Init
<1> QED BY <1>1, <1>2, <1>3, <1>4, <1>5 DEF Init, TypeOK

LEMMA EnqueueType ==
    ASSUME TypeOK, NEW list \in Seq(Positions), Enqueue(list)
    PROVE  merge_queue' \in Seq(Seq(Positions)) /\ merge_asleep' \in BOOLEAN
<1>1. CASE list = <<>>
  BY <1>1 DEF Enqueue, TypeOK
<1>2. CASE list # <<>>
  <2>1. merge_queue' = Append(merge_queue, list) /\ merge_asleep' = FALSE
    BY <1>2 DEF Enqueue
  <2>2. merge_queue' \in Seq(Seq(Positions))
    BY <2>1, AppendProperties DEF TypeOK
  <2> QED BY <2>1, <2>2
<1> QED BY <1>1, <1>2

LEMMA TypeNext == TypeOK /\ [Next]_vars => TypeOK'
<1> SUFFICES ASSUME TypeOK, [Next]_vars PROVE TypeOK'
  OBVIOUS
<1>0. <<>> \in Seq(Positions)
  BY EmptySeq
<1>1. ASSUME NEW c \in Consumers, NEW p \in Positions, NoteAnthropocene(c, p) PROVE TypeOK'
  <2> DEFINE list == Append(anthropocene_list[c], p)
             full == Len(list) > Threshold
  <2>1. list \in Seq(Positions)
    BY AppendProperties DEF TypeOK
  <2>2. /\ Enqueue(IF full THEN list ELSE <<>>)
        /\ anthropocene_list' = [anthropocene_list EXCEPT ![c] = IF full THEN <<>> ELSE list]
        /\ noted' = noted \union {p}
        /\ UNCHANGED <<closed, mergeVars, surrendered>>
    BY <1>1 DEF NoteAnthropocene
  <2> HIDE DEF list, full
  <2>3. (IF full THEN list ELSE <<>>) \in Seq(Positions)
        /\ (IF full THEN <<>> ELSE list) \in Seq(Positions)
    BY <1>0, <2>1
  <2>4. merge_queue' \in Seq(Seq(Positions)) /\ merge_asleep' \in BOOLEAN
    BY <2>2, <2>3, EnqueueType
  <2>5. anthropocene_list' \in [Consumers -> Seq(Positions)]
    BY <2>2, <2>3 DEF TypeOK
  <2> QED BY <2>2, <2>4, <2>5 DEF TypeOK, mergeVars
<1>2. ASSUME NEW c \in Consumers, CloseList(c) PROVE TypeOK'
  <2>1. merge_queue' \in Seq(Seq(Positions)) /\ merge_asleep' \in BOOLEAN
    BY <1>2, EnqueueType DEF CloseList, TypeOK
  <2> QED BY <1>0, <1>2, <2>1 DEF CloseList, TypeOK, mergeVars
<1>3. CASE CloseQueue
  <2>1. merge_queue' \in Seq(Seq(Positions))
    BY <1>0, <1>3, AppendProperties DEF CloseQueue, SetTombstone, TypeOK
  <2> QED BY <1>3, <2>1 DEF CloseQueue, SetTombstone, TypeOK, listVars, mergeVars
<1>4. CASE TakeFinalSet
  BY <1>4 DEF TakeFinalSet, SurrenderFinalSet, TypeOK, listVars
<1>5. CASE MergeWait
  BY <1>5 DEF MergeWait, TypeOK, listVars, mergeVars
<1>6. CASE MergePop
  <2>1. packet' \in Seq(Positions) /\ merge_queue' \in Seq(Seq(Positions))
    BY <1>6, HeadTailProperties DEF MergePop, TypeOK
  <2> QED BY <1>6, <2>1 DEF MergePop, TypeOK, listVars
<1>7. CASE DoMerge
  <2>1. Range(packet) \subseteq Positions
    BY RangeType DEF TypeOK
  <2>2. PreservedBy(Range(packet)) \subseteq PreservedBy(Positions)
    BY <2>1, PreservedByMonotonic
  <2> QED BY <1>0, <1>7, <2>2 DEF DoMerge, TypeOK, listVars
<1>8. CASE MergeExit
  BY <1>8 DEF MergeExit, TypeOK, listVars
<1>9. CASE SpuriousMergeWakeup
  BY <1>9 DEF SpuriousMergeWakeup, TypeOK, listVars, mergeVars
<1>10. CASE UNCHANGED vars
  BY <1>10 DEF vars, TypeOK
<1> QED
  BY <1>1, <1>2, <1>3, <1>4, <1>5, <1>6, <1>7, <1>8, <1>9, <1>10
  DEF Next, Consumer, MergeThread, MainStep, Terminated

(* Every variable keeps its type.                                          *)
THEOREM TypeCorrect == Spec => []TypeOK
<1> QED BY TypeInit, TypeNext, PTL DEF Spec

-----------------------------------------------------------------------------
(* The tombstone.  Only a consumer that has not left its loop enqueues     *)
(* lists other than the last one of its own, and then there is none yet.   *)

LEMMA TombstoneInit == Init => EmptyListIsTheTombstone
<1>1. Range(<<>>) = {}
  BY DEF Range
<1> QED BY <1>1 DEF Init, EmptyListIsTheTombstone, Tombstoned

LEMMA EnqueueKeepsTombstone ==
    ASSUME TypeOK, ~ Tombstoned, NEW list \in Seq(Positions), Enqueue(list)
    PROVE  ~ Tombstoned'
<1>1. CASE list = <<>>
  BY <1>1 DEF Enqueue, Tombstoned
<1>2. CASE list # <<>>
  <2>1. merge_queue' = Append(merge_queue, list) /\ merge_queue \in Seq(Seq(Positions))
    BY <1>2 DEF Enqueue, TypeOK
  <2>2. Range(merge_queue') = Range(merge_queue) \union {list}
    BY <2>1, RangeOfAppend
  <2> QED BY <1>2, <2>2 DEF Tombstoned
<1> QED BY <1>1, <1>2

(* Nobody but main sets it.                                                *)
LEMMA OthersSetNoTombstone ==
    ASSUME TypeOK, ~ Tombstoned,
           \/ \E c \in Consumers : CloseList(c) \/ \E p \in Positions : NoteAnthropocene(c, p)
           \/ MergeThread \/ SpuriousMergeWakeup
    PROVE  ~ Tombstoned'
<1>1. ASSUME NEW c \in Consumers, NEW p \in Positions, NoteAnthropocene(c, p)
      PROVE  ~ Tombstoned'
  <2> DEFINE list == Append(anthropocene_list[c], p)
             handed == IF Len(list) > Threshold THEN list ELSE <<>>
  <2>1. Enqueue(handed)
    BY <1>1 DEF NoteAnthropocene
  <2>2. list \in Seq(Positions)
    BY AppendProperties DEF TypeOK
  <2>3. handed \in Seq(Positions)
    BY <2>2, EmptySeq
  <2> HIDE DEF handed
  <2> QED BY <2>1, <2>3, EnqueueKeepsTombstone
<1>2. ASSUME NEW c \in Consumers, CloseList(c) PROVE ~ Tombstoned'
  <2>1. Enqueue(anthropocene_list[c]) /\ anthropocene_list[c] \in Seq(Positions)
    BY <1>2 DEF CloseList, TypeOK
  <2> QED BY <2>1, EnqueueKeepsTombstone
<1>3. CASE MergePop
  <2>1. merge_queue # <<>> /\ merge_queue' = Tail(merge_queue)
    BY <1>3 DEF MergePop
  <2>2. Range(merge_queue') \subseteq Range(merge_queue)
    BY <2>1, RangeOfTail DEF TypeOK
  <2> QED BY <2>2 DEF Tombstoned
<1>4. CASE MergeWait \/ DoMerge \/ MergeExit \/ SpuriousMergeWakeup
  BY <1>4 DEF MergeWait, DoMerge, MergeExit, SpuriousMergeWakeup, Tombstoned
<1> QED BY <1>1, <1>2, <1>3, <1>4 DEF MergeThread

LEMMA TombstoneNext == TypeOK /\ EmptyListIsTheTombstone /\ [Next]_vars => EmptyListIsTheTombstone'
<1> SUFFICES ASSUME TypeOK, EmptyListIsTheTombstone, [Next]_vars
             PROVE  EmptyListIsTheTombstone'
  OBVIOUS
<1>0. <<>> \in Seq(Positions) /\ merge_queue \in Seq(Seq(Positions))
  BY EmptySeq DEF TypeOK
<1>1. ASSUME NEW c \in Consumers, NEW p \in Positions, NoteAnthropocene(c, p)
      PROVE  EmptyListIsTheTombstone'
  <2>1. ~ Tombstoned
    BY <1>1 DEF NoteAnthropocene, EmptyListIsTheTombstone
  <2> QED BY <1>1, <2>1, OthersSetNoTombstone DEF EmptyListIsTheTombstone
<1>2. ASSUME NEW c \in Consumers, CloseList(c) PROVE EmptyListIsTheTombstone'
  <2>1. ~ Tombstoned
    BY <1>2 DEF CloseList, EmptyListIsTheTombstone
  <2> QED BY <1>2, <2>1, OthersSetNoTombstone DEF EmptyListIsTheTombstone
<1>3. CASE CloseQueue
  <2>1. /\ closed' = Consumers /\ ~ Tombstoned
        /\ merge_queue' = Append(merge_queue, <<>>)
    BY <1>3 DEF CloseQueue, SetTombstone, listVars
  <2>2. /\ merge_queue' \in Seq(Seq(Positions))
        /\ Len(merge_queue') = Len(merge_queue) + 1
        /\ \A i \in 1 .. Len(merge_queue) : merge_queue'[i] = merge_queue[i]
        /\ merge_queue'[Len(merge_queue) + 1] = <<>>
    BY <1>0, <2>1, AppendProperties
  <2>3. /\ DOMAIN merge_queue' = 1 .. Len(merge_queue) + 1 /\ Len(merge_queue) \in Nat
        /\ DOMAIN merge_queue = 1 .. Len(merge_queue)
    BY <1>0, <2>2, LenProperties
  <2>4. \A i \in 1 .. Len(merge_queue) : merge_queue[i] # <<>>
    BY <2>1, <2>3 DEF Tombstoned, Range
  <2>5. \A i \in DOMAIN merge_queue' : merge_queue'[i] = <<>> <=> i = Len(merge_queue')
    BY <2>2, <2>3, <2>4
  <2> QED BY <2>1, <2>5 DEF EmptyListIsTheTombstone
<1>4. CASE MergePop
  <2>1. merge_queue # <<>> /\ merge_queue' = Tail(merge_queue) /\ closed' = closed
    BY <1>4 DEF MergePop, listVars
  <2>2. /\ merge_queue' \in Seq(Seq(Positions))
        /\ Len(merge_queue') = Len(merge_queue) - 1
        /\ \A i \in 1 .. Len(merge_queue') : merge_queue'[i] = merge_queue[i + 1]
        /\ Range(merge_queue) = Range(merge_queue') \union {Head(merge_queue)}
    BY <1>0, <2>1, HeadTailProperties, RangeOfTail
  <2>3. /\ DOMAIN merge_queue' = 1 .. Len(merge_queue) - 1
        /\ DOMAIN merge_queue = 1 .. Len(merge_queue)
        /\ Len(merge_queue) \in Nat
    BY <1>0, <2>2, LenProperties
  <2>4. Tombstoned' => Tombstoned
    BY <2>2 DEF Tombstoned
  <2>5. ASSUME Tombstoned, NEW i \in DOMAIN merge_queue'
        PROVE  merge_queue'[i] = <<>> <=> i = Len(merge_queue')
    <3>1. i + 1 \in DOMAIN merge_queue /\ merge_queue'[i] = merge_queue[i + 1]
      BY <2>2, <2>3
    <3>2. merge_queue[i + 1] = <<>> <=> i + 1 = Len(merge_queue)
      BY <2>5, <3>1 DEF EmptyListIsTheTombstone
    <3> QED BY <2>2, <2>3, <3>1, <3>2
  <2> QED BY <2>1, <2>4, <2>5 DEF EmptyListIsTheTombstone
<1>5. CASE TakeFinalSet \/ MergeWait \/ DoMerge \/ MergeExit \/ SpuriousMergeWakeup
  BY <1>5 DEF TakeFinalSet, SurrenderFinalSet, MergeWait, DoMerge, MergeExit,
        SpuriousMergeWakeup, listVars, EmptyListIsTheTombstone, Tombstoned
<1>6. CASE UNCHANGED vars
  BY <1>6 DEF vars, EmptyListIsTheTombstone, Tombstoned
<1> QED
  BY <1>1, <1>2, <1>3, <1>4, <1>5, <1>6
  DEF Next, Consumer, MergeThread, MainStep, Terminated

(* No consumer enqueues an empty list, and nothing follows the tombstone.  *)
THEOREM TombstoneIsUnique == Spec => []EmptyListIsTheTombstone
<1>1. Init => TypeOK /\ EmptyListIsTheTombstone
  BY TypeInit, TombstoneInit
<1>2. TypeOK /\ EmptyListIsTheTombstone /\ [Next]_vars => (TypeOK /\ EmptyListIsTheTombstone)'
  BY TypeNext, TombstoneNext
<1> QED BY <1>1, <1>2, PTL DEF Spec
-----------------------------------------------------------------------------
(* What is on its way to the final set.                                    *)

AllIn(queue) == UNION {Range(list) : list \in Range(queue)}
OnItsWay == Listed \union AllIn(merge_queue) \union Range(packet)

LEMMA AllInAppend ==
    ASSUME NEW q \in Seq(Seq(Positions)), NEW list \in Seq(Positions)
    PROVE  AllIn(Append(q, list)) = AllIn(q) \union Range(list)
BY RangeOfAppend DEF AllIn

LEMMA AllInTail ==
    ASSUME NEW q \in Seq(Seq(Positions)), q # <<>>
    PROVE  AllIn(q) = AllIn(Tail(q)) \union Range(Head(q))
BY RangeOfTail DEF AllIn

LEMMA RangeOfEmpty == Range(<<>>) = {}
BY DEF Range

LEMMA AllInEnqueue ==
    ASSUME TypeOK, NEW list \in Seq(Positions), Enqueue(list)
    PROVE  AllIn(merge_queue') = AllIn(merge_queue) \union Range(list)
<1>1. CASE list = <<>>
  BY <1>1, RangeOfEmpty DEF Enqueue
<1>2. CASE list # <<>>
  BY <1>2, AllInAppend DEF Enqueue, TypeOK
<1> QED BY <1>1, <1>2

(* Where the merge thread is and what the consumers hold say how much of   *)
(* it there can be.                                                        *)

PacketIsBeingMerged == merger # "merge" => packet = <<>>

ClosedListsAreEmpty == \A c \in closed : anthropocene_list[c] = <<>>

MergerIsLast == merger = "done" => merge_queue = << <<>> >>

TakenAfterMerging == surrendered # NotYet => merger = "done" /\ final_queue = {}

WayInv == /\ PacketIsBeingMerged
          /\ ClosedListsAreEmpty
          /\ MergerIsLast
          /\ TakenAfterMerging
          /\ NothingForgotten

QueueInv == TypeOK /\ EmptyListIsTheTombstone /\ WayInv

LEMMA OnItsWayIsMeant ==
    NothingForgotten <=> PreservedBy(noted) = Merged \union PreservedBy(OnItsWay)
BY DEF NothingForgotten, OnItsWay, Queued, AllIn

LEMMA WayInit == Init => WayInv
<1> SUFFICES ASSUME Init PROVE WayInv
  OBVIOUS
<1>1. Range(<<>>) = {}
  BY RangeOfEmpty
<1>2. Listed = {} /\ Queued = {} /\ Range(packet) = {}
  BY <1>1 DEF Init, Listed, Queued
<1>3. PreservedBy({}) = {}
  BY DEF PreservedBy
<1>4. NothingForgotten
  BY <1>2, <1>3 DEF Init, NothingForgotten, Merged
<1>5. PacketIsBeingMerged /\ ClosedListsAreEmpty /\ MergerIsLast /\ TakenAfterMerging
  BY DEF Init, PacketIsBeingMerged, ClosedListsAreEmpty, MergerIsLast, TakenAfterMerging
<1> QED BY <1>4, <1>5 DEF WayInv

(* A consumer replaces its list, and enqueues what was in it or keeps it.  *)
HandsOver(c, list, handed) ==
    /\ Enqueue(handed)
    /\ anthropocene_list' = [anthropocene_list EXCEPT ![c] = list]
    /\ UNCHANGED packet

LEMMA ListHandedOver ==
    ASSUME TypeOK, NEW c \in Consumers, NEW list \in Seq(Positions),
           NEW handed \in Seq(Positions), HandsOver(c, list, handed)
    PROVE  \A new : Range(list) \union Range(handed) = Range(anthropocene_list[c]) \union new
                        => OnItsWay' = OnItsWay \union new
<1> SUFFICES ASSUME NEW new,
                    Range(list) \union Range(handed) = Range(anthropocene_list[c]) \union new
             PROVE  OnItsWay' = OnItsWay \union new
  OBVIOUS
<1> USE DEF HandsOver
<1>1. AllIn(merge_queue') = AllIn(merge_queue) \union Range(handed)
  BY AllInEnqueue
<1>2. /\ anthropocene_list'[c] = list
      /\ \A d \in Consumers \ {c} : anthropocene_list'[d] = anthropocene_list[d]
  BY DEF TypeOK
<1>3. Listed' \union Range(handed) = Listed \union new
  <2> DEFINE others == UNION {Range(anthropocene_list[d]) : d \in Consumers \ {c}}
  <2>1. Listed = others \union Range(anthropocene_list[c])
    BY DEF Listed
  <2>2. Listed' = others \union Range(list)
    BY <1>2 DEF Listed
  <2> HIDE DEF others
  <2> QED BY <2>1, <2>2
<1>4. OnItsWay' = Listed' \union AllIn(merge_queue') \union Range(packet)
  BY DEF OnItsWay
<1>5. OnItsWay = Listed \union AllIn(merge_queue) \union Range(packet)
  BY DEF OnItsWay
<1> QED BY <1>1, <1>3, <1>4, <1>5
(* While a consumer runs the merge thread has not returned.                *)
LEMMA RunningMeansNotDone ==
    ASSUME TypeOK, EmptyListIsTheTombstone, MergerIsLast, ~ Tombstoned \/ closed # Consumers
    PROVE  merger # "done"
<1>1. ~ Tombstoned
  BY DEF EmptyListIsTheTombstone
<1>2. <<>> \in Range(<< <<>> >>)
  <2>1. 1 \in DOMAIN << <<>> >> /\ << <<>> >>[1] = <<>>
    OBVIOUS
  <2> QED BY <2>1 DEF Range
<1> QED BY <1>1, <1>2 DEF MergerIsLast, Tombstoned

(* A step that keeps the final set, and all that is on its way.            *)
LEMMA NothingLost ==
    ASSUME NothingForgotten, NEW new, noted' = noted \union new,
           OnItsWay' = OnItsWay \union new, UNCHANGED <<final_queue, surrendered>>
    PROVE  NothingForgotten'
<1>1. PreservedBy(noted) = Merged \union PreservedBy(OnItsWay)
  BY OnItsWayIsMeant
<1>2. Merged' = Merged
  BY DEF Merged
<1>3. PreservedBy(noted') = Merged' \union PreservedBy(OnItsWay')
  <2>1. PreservedBy(noted') = PreservedBy(noted) \union PreservedBy(new)
    BY PreservedByUnion
  <2>2. PreservedBy(OnItsWay') = PreservedBy(OnItsWay) \union PreservedBy(new)
    BY PreservedByUnion
  <2> QED BY <1>1, <1>2, <2>1, <2>2
<1>4. NothingForgotten' <=> PreservedBy(noted') = Merged' \union PreservedBy(OnItsWay')
  BY DEF NothingForgotten, OnItsWay, Queued, AllIn
<1> QED BY <1>3, <1>4

LEMMA WayNext == QueueInv /\ [Next]_vars => WayInv'
<1> SUFFICES ASSUME QueueInv, [Next]_vars PROVE WayInv'
  OBVIOUS
<1>0. /\ TypeOK /\ EmptyListIsTheTombstone
      /\ PacketIsBeingMerged /\ ClosedListsAreEmpty /\ MergerIsLast
      /\ TakenAfterMerging /\ NothingForgotten
      /\ <<>> \in Seq(Positions) /\ merge_queue \in Seq(Seq(Positions))
      /\ packet \in Seq(Positions)
  BY EmptySeq DEF QueueInv, WayInv, TypeOK
<1>1. ASSUME NEW c \in Consumers, NEW p \in Positions, NoteAnthropocene(c, p) PROVE WayInv'
  <2> DEFINE grown == Append(anthropocene_list[c], p)
             full == Len(grown) > Threshold
             list == IF full THEN <<>> ELSE grown
             handed == IF full THEN grown ELSE <<>>
  <2>1. anthropocene_list[c] \in Seq(Positions)
    BY <1>0 DEF TypeOK
  <2>2. grown \in Seq(Positions) /\ Range(grown) = Range(anthropocene_list[c]) \union {p}
    BY <2>1, AppendProperties, RangeOfAppend
  <2>3. /\ c \notin closed /\ noted' = noted \union {p} /\ Enqueue(handed)
        /\ anthropocene_list' = [anthropocene_list EXCEPT ![c] = list]
        /\ UNCHANGED <<closed, mergeVars, surrendered>>
    BY <1>1 DEF NoteAnthropocene
  <2> HIDE DEF grown, full
  <2>4. list \in Seq(Positions) /\ handed \in Seq(Positions)
        /\ Range(list) \union Range(handed) = Range(anthropocene_list[c]) \union {p}
    BY <1>0, <2>2, RangeOfEmpty
  <2> HIDE DEF list, handed
  <2>5. OnItsWay' = OnItsWay \union {p}
    <3>1. HandsOver(c, list, handed)
      BY <2>3 DEF HandsOver, mergeVars
    <3>2. \A new : Range(list) \union Range(handed) = Range(anthropocene_list[c]) \union new
                      => OnItsWay' = OnItsWay \union new
      BY <1>0, <2>4, <3>1, ListHandedOver
    <3> QED BY <2>4, <3>2
  <2>6. NothingForgotten'
    BY <1>0, <2>3, <2>5, NothingLost DEF mergeVars
  <2>7. merger # "done"
    BY <1>0, <2>3, RunningMeansNotDone
  <2>8. ClosedListsAreEmpty'
    BY <1>0, <2>3 DEF ClosedListsAreEmpty, TypeOK
  <2> QED BY <1>0, <2>3, <2>6, <2>7, <2>8 DEF WayInv, mergeVars, PacketIsBeingMerged,
             MergerIsLast, TakenAfterMerging
<1>2. ASSUME NEW c \in Consumers, CloseList(c) PROVE WayInv'
  <2>1. /\ c \notin closed /\ closed' = closed \union {c} /\ noted' = noted \union {}
        /\ Enqueue(anthropocene_list[c])
        /\ anthropocene_list' = [anthropocene_list EXCEPT ![c] = <<>>]
        /\ UNCHANGED <<mergeVars, surrendered>>
    BY <1>2 DEF CloseList
  <2>2. anthropocene_list[c] \in Seq(Positions)
        /\ Range(<<>>) \union Range(anthropocene_list[c]) = Range(anthropocene_list[c]) \union {}
    BY <1>0, RangeOfEmpty DEF TypeOK
  <2>3. OnItsWay' = OnItsWay \union {}
    <3> DEFINE list == <<>>
               handed == anthropocene_list[c]
    <3>1. HandsOver(c, list, handed)
      BY <2>1 DEF HandsOver, mergeVars
    <3>2. TypeOK /\ list \in Seq(Positions) /\ handed \in Seq(Positions)
      BY <1>0, <2>2
    <3>3. Range(list) \union Range(handed) = Range(anthropocene_list[c]) \union {}
      BY <2>2
    <3> HIDE DEF list, handed
    <3>4. \A new : Range(list) \union Range(handed) = Range(anthropocene_list[c]) \union new
                      => OnItsWay' = OnItsWay \union new
      BY <3>1, <3>2, ListHandedOver
    <3> QED BY <3>3, <3>4
  <2>4. NothingForgotten'
    BY <1>0, <2>1, <2>3, NothingLost DEF mergeVars
  <2>5. merger # "done"
    BY <1>0, <2>1, RunningMeansNotDone
  <2>6. ClosedListsAreEmpty'
    BY <1>0, <2>1 DEF ClosedListsAreEmpty, TypeOK
  <2> QED BY <1>0, <2>1, <2>4, <2>5, <2>6 DEF WayInv, mergeVars, PacketIsBeingMerged,
             MergerIsLast, TakenAfterMerging
<1>3. CASE CloseQueue
  <2>1. /\ ~ Tombstoned /\ merge_queue' = Append(merge_queue, <<>>)
        /\ UNCHANGED <<listVars, mergeVars, surrendered>>
    BY <1>3 DEF CloseQueue, SetTombstone
  <2>2. AllIn(merge_queue') = AllIn(merge_queue)
    BY <1>0, <2>1, AllInAppend, RangeOfEmpty
  <2>3. OnItsWay' = OnItsWay \union {}
    BY <2>1, <2>2 DEF OnItsWay, Listed, listVars, mergeVars
  <2>4. NothingForgotten'
    BY <1>0, <2>1, <2>3, NothingLost DEF listVars, mergeVars
  <2>5. merger # "done"
    BY <1>0, <2>1, RunningMeansNotDone
  <2> QED BY <1>0, <2>1, <2>4, <2>5 DEF WayInv, listVars, mergeVars, PacketIsBeingMerged,
             ClosedListsAreEmpty, MergerIsLast, TakenAfterMerging
<1>4. CASE TakeFinalSet
  <2>1. /\ merger = "done" /\ surrendered = NotYet
        /\ surrendered' = final_queue /\ final_queue' = {}
        /\ UNCHANGED <<listVars, merge_queue, merge_asleep, merger, packet>>
    BY <1>4 DEF TakeFinalSet, SurrenderFinalSet
  <2>2. final_queue # NotYet
    BY <1>0 DEF TypeOK
  <2>3. Merged' = Merged
    BY <2>1, <2>2 DEF Merged
  <2>4. NothingForgotten'
    BY <1>0, <2>1, <2>3 DEF NothingForgotten, Listed, Queued, listVars
  <2> QED BY <1>0, <2>1, <2>4 DEF WayInv, listVars, PacketIsBeingMerged,
             ClosedListsAreEmpty, MergerIsLast, TakenAfterMerging
<1>5. CASE MergePop
  <2>1. /\ merger = "check" /\ merge_queue # <<>> /\ merger' = "merge"
        /\ packet' = Head(merge_queue) /\ merge_queue' = Tail(merge_queue)
        /\ UNCHANGED <<listVars, merge_asleep, final_queue, surrendered>>
    BY <1>5 DEF MergePop, Checking
  <2>2. Range(packet) = {}
    BY <1>0, <2>1, RangeOfEmpty DEF PacketIsBeingMerged
  <2>3. AllIn(merge_queue) = AllIn(merge_queue') \union Range(packet')
    BY <1>0, <2>1, AllInTail
  <2>4. OnItsWay' = OnItsWay \union {}
    BY <2>1, <2>2, <2>3 DEF OnItsWay, Listed, listVars
  <2>5. noted' = noted \union {}
    BY <2>1 DEF listVars
  <2>6. NothingForgotten'
    BY <1>0, <2>1, <2>4, <2>5, NothingLost
  <2> QED BY <1>0, <2>1, <2>6 DEF WayInv, listVars, PacketIsBeingMerged,
             ClosedListsAreEmpty, MergerIsLast, TakenAfterMerging
<1>6. CASE DoMerge
  <2>1. /\ merger = "merge" /\ merger' = "check" /\ packet' = <<>>
        /\ final_queue' = final_queue \union PreservedBy(Range(packet))
        /\ UNCHANGED <<listVars, merge_queue, merge_asleep, surrendered>>
    BY <1>6 DEF DoMerge
  <2>2. surrendered = NotYet
    BY <1>0, <2>1 DEF TakenAfterMerging
  <2>3. Merged' = Merged \union PreservedBy(Range(packet))
    BY <2>1, <2>2 DEF Merged
  <2>4. Listed' = Listed /\ Queued' = Queued /\ Range(packet') = {} /\ noted' = noted
    BY <2>1, RangeOfEmpty DEF Listed, Queued, listVars
  <2>5. PreservedBy(Listed \union Queued \union Range(packet))
            = PreservedBy(Listed \union Queued) \union PreservedBy(Range(packet))
    BY PreservedByUnion
  <2>6. PreservedBy(noted') = Merged' \union PreservedBy(Listed' \union Queued' \union Range(packet'))
    <3>1. Listed' \union Queued' \union Range(packet') = Listed \union Queued
      BY <2>4
    <3>2. PreservedBy(noted) = Merged \union PreservedBy(Listed \union Queued)
                                 \union PreservedBy(Range(packet))
      BY <1>0, <2>5 DEF NothingForgotten
    <3> QED BY <2>3, <2>4, <3>1, <3>2
  <2>7. NothingForgotten'
    BY <2>6 DEF NothingForgotten
  <2> QED BY <1>0, <2>1, <2>2, <2>7 DEF WayInv, listVars, PacketIsBeingMerged,
             ClosedListsAreEmpty, MergerIsLast, TakenAfterMerging
<1>7. CASE MergeExit
  <2>1. /\ merger = "check" /\ merge_queue # <<>> /\ Head(merge_queue) = <<>>
        /\ UNCHANGED <<listVars, merge_queue, merge_asleep, packet, final_queue, surrendered>>
    BY <1>7 DEF MergeExit, Checking
  <2>2. 1 \in DOMAIN merge_queue /\ merge_queue[1] = <<>>
    BY <1>0, <2>1, HeadTailProperties, LenProperties, EmptySeq
  <2>3. Tombstoned
    BY <2>2 DEF Tombstoned, Range
  <2>4. Len(merge_queue) = 1
    BY <1>0, <2>2, <2>3 DEF EmptyListIsTheTombstone
  <2>5. merge_queue = << <<>> >>
    BY <1>0, <2>2, <2>4
  <2>6. NothingForgotten'
    BY <1>0, <2>1 DEF NothingForgotten, Merged, Listed, Queued, listVars
  <2> QED BY <1>0, <2>1, <2>5, <2>6 DEF WayInv, listVars, PacketIsBeingMerged,
             ClosedListsAreEmpty, MergerIsLast, TakenAfterMerging
<1>8. CASE MergeWait \/ SpuriousMergeWakeup \/ UNCHANGED vars
  <2>1. UNCHANGED <<listVars, mergeVars, merge_queue, surrendered>>
    BY <1>8 DEF MergeWait, SpuriousMergeWakeup, vars, listVars, mergeVars
  <2>2. NothingForgotten'
    BY <1>0, <2>1 DEF NothingForgotten, Merged, Listed, Queued, listVars, mergeVars
  <2> QED BY <1>0, <2>1, <2>2 DEF WayInv, listVars, mergeVars, PacketIsBeingMerged,
             ClosedListsAreEmpty, MergerIsLast, TakenAfterMerging
<1> QED
  BY <1>1, <1>2, <1>3, <1>4, <1>5, <1>6, <1>7, <1>8
  DEF Next, Consumer, MergeThread, MainStep, Terminated

LEMMA QueueInductive == /\ Init => QueueInv
                        /\ QueueInv /\ [Next]_vars => QueueInv'
<1>1. Init => QueueInv
  BY TypeInit, TombstoneInit, WayInit DEF QueueInv
<1>2. QueueInv /\ [Next]_vars => QueueInv'
  BY TypeNext, TombstoneNext, WayNext DEF QueueInv
<1> QED BY <1>1, <1>2

(* No position is lost on its way through lists, queue, packet and final   *)
(* set, and none gets there that is not close to an anthropocene block.    *)
THEOREM PositionsAreConserved == Spec => []NothingForgotten
<1>1. QueueInv => NothingForgotten
  BY DEF QueueInv, WayInv
<1> QED BY <1>1, QueueInductive, PTL DEF Spec

LEMMA WholeWhenTaken == QueueInv => SurrenderedIsWhole
<1> SUFFICES ASSUME QueueInv, surrendered # NotYet
             PROVE  surrendered = PreservedBy(noted)
  BY DEF SurrenderedIsWhole
<1>1. /\ merger = "done" /\ merge_queue = << <<>> >> /\ packet = <<>>
      /\ EmptyListIsTheTombstone /\ NothingForgotten /\ TypeOK
      /\ ClosedListsAreEmpty /\ MergerIsLast
  BY DEF QueueInv, WayInv, TakenAfterMerging, MergerIsLast, PacketIsBeingMerged
<1>2. closed = Consumers
  BY <1>1, RunningMeansNotDone
<1>3. Listed = {}
  BY <1>1, <1>2, RangeOfEmpty DEF Listed, ClosedListsAreEmpty
<1>4. Queued = {}
  <2>1. Range(<< <<>> >>) = {<<>>}
    BY DEF Range
  <2> QED BY <1>1, <2>1, RangeOfEmpty DEF Queued
<1>5. PreservedBy({}) = {} /\ Range(packet) = {}
  BY <1>1, RangeOfEmpty DEF PreservedBy
<1>6. PreservedBy(noted) = surrendered \union PreservedBy({})
  BY <1>1, <1>3, <1>4, <1>5 DEF NothingForgotten, Merged
<1> QED BY <1>5, <1>6

(* The set that main takes is the one it should get, and complete.         *)
THEOREM FinalSetIsWhole == Spec => []SurrenderedIsWhole
<1> QED BY WholeWhenTaken, QueueInductive, PTL DEF Spec
=============================================================================
