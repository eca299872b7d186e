---------------------------- MODULE PreserveQueue ----------------------------
(***************************************************************************)
(* The preserve queue (src/app/preserve_queue.h, .cc) with the threads     *)
(* that use it.  Each consumer collects the positions of the anthropocene  *)
(* blocks it met in a list of its own and enqueues the list now and then;  *)
(* the merge thread turns every position of every list into the cube of    *)
(* positions to preserve; the main thread sets the tombstone (the empty    *)
(* list), joins the merge thread and takes the final set.                  *)
(***************************************************************************)
EXTENDS Naturals, Sequences, FiniteSets, Functions

CONSTANTS Positions,    \* the anthropocene blocks of the world
          Consumers,    \* the consumer threads
          Threshold,    \* config_.anthropocene_flush_threshold
          Cube(_),      \* the positions within preserve_radius of a position
          Threaded,     \* MergeThread runs in a thread of its own
          NotYet        \* the value of `surrendered' before SurrenderFinalSet,
                        \* which is no set of positions

ASSUME ThresholdAssumption == Threshold \in Nat
ASSUME PreserveAssumption == /\ IsFiniteSet(Consumers)
                             /\ Threaded \in BOOLEAN

VARIABLES
    noted,              \* the positions consumers have met (a history variable)
    anthropocene_list,  \* [Consumers -> Seq(Positions)]
    closed,             \* the consumers that have left RunConsumer
    merge_queue,        \* merge_queue_, a sequence of lists
    merge_asleep,       \* the merge thread is blocked on cv_
    merger,             \* where MergeThread is
    packet,             \* the list DoMerge is given
    final_queue,        \* final_queue_
    surrendered         \* what SurrenderFinalSet returned

listVars == <<noted, anthropocene_list, closed>>
mergeVars == <<merger, packet, final_queue>>
vars == <<noted, anthropocene_list, closed, merge_queue, merge_asleep,
          merger, packet, final_queue, surrendered>>

PreservedBy(S) == UNION {Cube(p) : p \in S}

ASSUME NotYetAssumption == NotYet \notin SUBSET PreservedBy(Positions)

TypeOK ==
    /\ noted \subseteq Positions
    /\ anthropocene_list \in [Consumers -> Seq(Positions)]
    /\ closed \subseteq Consumers
    /\ merge_queue \in Seq(Seq(Positions))
    /\ merge_asleep \in BOOLEAN
    /\ merger \in {"check", "merge", "done"}
    /\ packet \in Seq(Positions)
    /\ final_queue \subseteq PreservedBy(Positions)
    /\ surrendered \in (SUBSET PreservedBy(Positions)) \union {NotYet}

Init ==
    /\ noted = {}
    /\ anthropocene_list = [c \in Consumers |-> <<>>]
    /\ closed = {}
    /\ merge_queue = <<>>
    /\ merge_asleep = FALSE
    /\ merger = "check"
    /\ packet = <<>>
    /\ final_queue = {}
    /\ surrendered = NotYet

-----------------------------------------------------------------------------
(* Faulty: an empty list is enqueued like any other.                      *)
Enqueue_EmptyToo(list) ==
    merge_queue' = Append(merge_queue, list) /\ merge_asleep' = FALSE

(* The empty list is the tombstone, so an empty list is not enqueued.  The *)
(* merge thread is the only one that waits: notify_one, notify_all alike.  *)
Enqueue(list) ==
    IF list = <<>>
    THEN UNCHANGED <<merge_queue, merge_asleep>>
    ELSE /\ merge_queue' = Append(merge_queue, list)
         /\ merge_asleep' = FALSE

(* A consumer appends the position of a block with special nodes, and      *)
(* hands its list over once it has grown beyond the threshold.             *)
NoteAnthropocene(c, p) ==
    /\ c \notin closed
    /\ noted' = noted \union {p}
    /\ LET list == Append(anthropocene_list[c], p)
           full == Len(list) > Threshold
       IN  /\ Enqueue(IF full THEN list ELSE <<>>)
           /\ anthropocene_list' =
                [anthropocene_list EXCEPT ![c] = IF full THEN <<>> ELSE list]
    /\ UNCHANGED <<closed, mergeVars, surrendered>>

(* Faulty: what is left in the list is not enqueued.                      *)
CloseList_RestForgotten(c) ==
    /\ c \notin closed
    /\ anthropocene_list' = [anthropocene_list EXCEPT ![c] = <<>>]
    /\ closed' = closed \union {c}
    /\ UNCHANGED <<noted, merge_queue, merge_asleep, mergeVars, surrendered>>

(* After the tombstone of the map block queue: the rest of the list.       *)
CloseList(c) ==
    /\ c \notin closed
    /\ Enqueue(anthropocene_list[c])
    /\ anthropocene_list' = [anthropocene_list EXCEPT ![c] = <<>>]
    /\ closed' = closed \union {c}
    /\ UNCHANGED <<noted, mergeVars, surrendered>>

-----------------------------------------------------------------------------
(* The main thread.                                                        *)

Tombstoned == <<>> \in Range(merge_queue)

(* Faulty: nobody is notified of the tombstone.                           *)
SetTombstone_Silent ==
    /\ merge_queue' = Append(merge_queue, <<>>)
    /\ UNCHANGED <<listVars, merge_asleep, mergeVars, surrendered>>

SetTombstone ==
    /\ merge_queue' = Append(merge_queue, <<>>)
    /\ merge_asleep' = FALSE
    /\ UNCHANGED <<listVars, mergeVars, surrendered>>

SurrenderFinalSet ==
    /\ surrendered' = final_queue
    /\ final_queue' = {}
    /\ UNCHANGED <<listVars, merge_queue, merge_asleep, merger, packet>>

(* Faulty: the set is taken while the merge thread is still running.      *)
TakeFinalSet_NotJoined == surrendered = NotYet /\ SurrenderFinalSet

(* The tombstone is set once, after the consumers have been joined; the    *)
(* set is taken after the merge thread has been joined.                    *)
CloseQueue == closed = Consumers /\ ~ Tombstoned /\ SetTombstone
TakeFinalSet == merger = "done" /\ surrendered = NotYet /\ SurrenderFinalSet

-----------------------------------------------------------------------------
(* MergeThread.  In serial mode it is called after SetTombstone.           *)

Checking == merger = "check" /\ ~ merge_asleep /\ (Threaded \/ Tombstoned)

MergeWait ==
    /\ Checking
    /\ merge_queue = <<>>
    /\ merge_asleep' = TRUE
    /\ UNCHANGED <<listVars, merge_queue, mergeVars, surrendered>>

MergePop ==
    /\ Checking
    /\ merge_queue # <<>>
    /\ Head(merge_queue) # <<>>
    /\ packet' = Head(merge_queue)
    /\ merge_queue' = Tail(merge_queue)
    /\ merger' = "merge"
    /\ UNCHANGED <<listVars, merge_asleep, final_queue, surrendered>>

(* Faulty: the cube reaches one map block too far.                         *)
DoMerge_TooFar ==
    /\ merger = "merge"
    /\ final_queue' = final_queue \union PreservedBy(PreservedBy(Range(packet)))
    /\ packet' = <<>>
    /\ merger' = "check"
    /\ UNCHANGED <<listVars, merge_queue, merge_asleep, surrendered>>

(* Without the lock of merge_queue_: the consumers go on enqueueing.       *)
DoMerge ==
    /\ merger = "merge"
    /\ final_queue' = final_queue \union PreservedBy(Range(packet))
    /\ packet' = <<>>
    /\ merger' = "check"
    /\ UNCHANGED <<listVars, merge_queue, merge_asleep, surrendered>>

MergeExit ==
    /\ Checking
    /\ merge_queue # <<>>
    /\ Head(merge_queue) = <<>>
    /\ merger' = "done"
    /\ UNCHANGED <<listVars, merge_queue, merge_asleep, packet, final_queue, surrendered>>

SpuriousMergeWakeup ==
    /\ merge_asleep
    /\ merge_asleep' = FALSE
    /\ UNCHANGED <<listVars, merge_queue, mergeVars, surrendered>>

MergeThread == MergeWait \/ MergePop \/ DoMerge \/ MergeExit

-----------------------------------------------------------------------------
Consumer(c) == CloseList(c) \/ \E p \in Positions \ noted : NoteAnthropocene(c, p)

MainStep == CloseQueue \/ TakeFinalSet

Terminated == surrendered # NotYet /\ UNCHANGED vars

Next == \/ \E c \in Consumers : Consumer(c)
        \/ MergeThread
        \/ MainStep
        \/ SpuriousMergeWakeup
        \/ Terminated

Fairness == /\ \A c \in Consumers : WF_vars(CloseList(c))
            /\ WF_vars(MergeThread)
            /\ WF_vars(MainStep)

Spec == Init /\ [][Next]_vars
FairSpec == Spec /\ Fairness

-----------------------------------------------------------------------------
(* Properties.                                                             *)

Listed == UNION {Range(anthropocene_list[c]) : c \in Consumers}
Queued == UNION {Range(list) : list \in Range(merge_queue)}
Merged == IF surrendered = NotYet THEN final_queue ELSE surrendered

(* Nothing a consumer noted is forgotten on its way through the lists, the *)
(* queue, the packet that no lock protects, and the final set; and nothing *)
(* else gets there.  The cubes of all of them are always what will be kept.*)
NothingForgotten ==
    PreservedBy(noted) =
        Merged \union PreservedBy(Listed \union Queued \union Range(packet))

(* The set the main thread takes holds the cube around every noted         *)
(* position and nothing else: the merge thread has not returned, or the    *)
(* set been taken, with a list still on its way.                           *)
SurrenderedIsWhole == surrendered # NotYet => surrendered = PreservedBy(noted)

(* The merge thread takes the empty list for the tombstone, so none may be *)
(* in the queue before SetTombstone, and nothing may follow it.            *)
EmptyListIsTheTombstone ==
    Tombstoned => /\ closed = Consumers
                  /\ \A i \in DOMAIN merge_queue :
                        merge_queue[i] = <<>> <=> i = Len(merge_queue)

(* The main thread gets its set: the merge thread always sees the          *)
(* tombstone and returns.                                                  *)
SetIsSurrendered == <>(surrendered # NotYet)
=============================================================================
