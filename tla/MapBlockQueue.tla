---------------------------- MODULE MapBlockQueue ----------------------------
(***************************************************************************)
(* The map block queue (src/app/mapblock_queue.h) and the threads that use *)
(* it: the producer (producer.cc) that lists the keys of the world's map   *)
(* blocks in batches, the consumers (consumer.cc) that pop them one by     *)
(* one, and the main thread (app.cc) that waits in idle_wait, draws the    *)
(* progress line and joins the others.                                     *)
(*                                                                         *)
(* A method of the queue holds its mutex from entry to return, except      *)
(* while it waits on the condition variable, so each critical section is   *)
(* one action.  All the waiters share one condition variable: `asleep' is  *)
(* its wait set, and notify_one wakes any one member, whoever that is.     *)
(***************************************************************************)
EXTENDS Naturals, Sequences, FiniteSets, Functions

CONSTANTS Keys,       \* the rows ProduceMapBlocks calls back with
          Consumers,  \* the consumer threads (one, main itself, in serial mode)
          BatchSize,  \* config_.producer_batch_size
          Threaded,   \* config_.threads > 0
          Main,       \* the main thread, as a waiter
          Tombstone,  \* MapBlockKey::MakeTombstone()
          NoKey       \* a consumer that has no key

ASSUME KeysAssumption == /\ IsFiniteSet(Keys)
                         /\ Tombstone \notin Keys
                         /\ NoKey \notin Keys \union {Tombstone}
ASSUME ThreadsAssumption == /\ IsFiniteSet(Consumers) /\ Consumers # {}
                            /\ Main \notin Consumers
                            /\ Threaded \in BOOLEAN
ASSUME BatchAssumption == BatchSize \in Nat \ {0}

VARIABLES
    rows,      \* the rows the scan has still to deliver
    batch,     \* `keys', the producer's own vector
    producer,  \* "scanning" or "done"
    queue,     \* queue_
    asleep,    \* the threads blocked on cv_
    consumer,  \* where each consumer is in its loop
    key,       \* the key each consumer is working on
    handled,   \* the keys consumers have finished with (a history variable)
    stats,     \* the counters of RuntimeStats
    main,      \* where the main thread is
    sofar      \* `sofar' of DisplayProgress, while it is being computed

producerVars == <<rows, batch, producer>>
consumerVars == <<consumer, key, handled>>
mainVars == <<main, sofar>>
vars == <<rows, batch, producer, queue, asleep, consumer, key, handled,
          stats, main, sofar>>

Threads == Consumers \union {Main}
ConsumerStates == {"pop", "load", "work", "exit", "done"}
MainStates == {"poll", "progress", "good", "bad", "remaining", "join", "joined"}

TypeOK ==
    /\ rows \subseteq Keys
    /\ batch \in Seq(Keys)
    /\ producer \in {"scanning", "done"}
    /\ queue \in Seq(Keys \union {Tombstone})
    /\ asleep \subseteq Threads
    /\ consumer \in [Consumers -> ConsumerStates]
    /\ key \in [Consumers -> Keys \union {NoKey}]
    /\ handled \subseteq Keys
    /\ stats \in [queued : Nat, good : Nat, bad : Nat]
    /\ main \in MainStates
    /\ sofar \in Nat

Init ==
    /\ rows = Keys
    /\ batch = <<>>
    /\ producer = "scanning"
    /\ queue = <<>>
    /\ asleep = {}
    /\ consumer = [c \in Consumers |-> "pop"]
    /\ key = [c \in Consumers |-> NoKey]
    /\ handled = {}
    /\ stats = [queued |-> 0, good |-> 0, bad |-> 0]
    /\ main = IF Threaded THEN "poll" ELSE "join"
    /\ sofar = 0

-----------------------------------------------------------------------------
(* The condition variable.                                                 *)

NotifyOne == \/ asleep = {} /\ UNCHANGED asleep
             \/ \E t \in asleep : asleep' = asleep \ {t}

NotifyAll == asleep' = {}

(* cv_.wait may return although nobody notified; the predicate is then     *)
(* evaluated again.                                                        *)
SpuriousWakeup(t) == /\ t \in asleep
                     /\ asleep' = asleep \ {t}
                     /\ UNCHANGED <<producerVars, queue, consumerVars, stats, mainVars>>

-----------------------------------------------------------------------------
(* The producer.                                                           *)

(* The scan's callback: one more row is counted and put in the batch.      *)
ScanRow ==
    /\ producer = "scanning"
    /\ Len(batch) < BatchSize
    /\ \E k \in rows : /\ rows' = rows \ {k}
                       /\ batch' = Append(batch, k)
    /\ stats' = [stats EXCEPT !.queued = @ + 1]
    /\ UNCHANGED <<producer, queue, asleep, consumerVars, mainVars>>

(* Faulty: the producer does not clear the vector Enqueue copied.          *)
Enqueue_KeysNotCleared ==
    /\ producer = "scanning"
    /\ Len(batch) >= BatchSize \/ rows = {}
    /\ batch # <<>>
    /\ queue' = queue \o batch
    /\ NotifyOne
    /\ UNCHANGED <<rows, batch, producer, consumerVars, stats, mainVars>>

(* MapBlockQueue::Enqueue of a full batch, in the callback, or of what is  *)
(* left after the scan.  It copies the keys: the caller clears its vector. *)
Enqueue ==
    /\ producer = "scanning"
    /\ Len(batch) >= BatchSize \/ rows = {}
    /\ batch # <<>>
    /\ queue' = queue \o batch
    /\ batch' = <<>>
    /\ NotifyOne
    /\ UNCHANGED <<rows, producer, consumerVars, stats, mainVars>>

(* Faulty: the tombstone is set before the last batch is enqueued.         *)
SetTombstone_BeforeRest ==
    /\ producer = "scanning"
    /\ rows = {}
    /\ queue' = Append(queue, Tombstone)
    /\ NotifyAll
    /\ producer' = "done"
    /\ UNCHANGED <<rows, batch, consumerVars, stats, mainVars>>

(* Faulty: one waiter only is notified of the tombstone.                   *)
SetTombstone_NotifyOne ==
    /\ producer = "scanning"
    /\ rows = {}
    /\ batch = <<>>
    /\ queue' = Append(queue, Tombstone)
    /\ NotifyOne
    /\ producer' = "done"
    /\ UNCHANGED <<rows, batch, consumerVars, stats, mainVars>>

SetTombstone ==
    /\ producer = "scanning"
    /\ rows = {}
    /\ batch = <<>>
    /\ queue' = Append(queue, Tombstone)
    /\ NotifyAll
    /\ producer' = "done"
    /\ UNCHANGED <<rows, batch, consumerVars, stats, mainVars>>

Producer == ScanRow \/ Enqueue \/ SetTombstone

-----------------------------------------------------------------------------
(* A consumer.  In serial mode RunProducer returns before RunConsumer is   *)
(* called.                                                                 *)

TombstoneIsNext == queue # <<>> /\ Head(queue) = Tombstone

Popping(c) == /\ consumer[c] = "pop"
              /\ c \notin asleep
              /\ Threaded \/ producer = "done"

(* Faulty: an empty queue is taken for the end of the world.               *)
PopWait_Exits(c) ==
    /\ Popping(c)
    /\ queue = <<>>
    /\ consumer' = [consumer EXCEPT ![c] = "exit"]
    /\ UNCHANGED <<producerVars, queue, asleep, key, handled, stats, mainVars>>

PopWait(c) ==
    /\ Popping(c)
    /\ queue = <<>>
    /\ asleep' = asleep \union {c}
    /\ UNCHANGED <<producerVars, queue, consumerVars, stats, mainVars>>

(* Faulty: the tombstone is popped like a key.                             *)
PopKey_TakesTombstone(c) ==
    /\ Popping(c)
    /\ queue # <<>>
    /\ key' = [key EXCEPT ![c] = Head(queue)]
    /\ queue' = Tail(queue)
    /\ NotifyOne
    /\ consumer' = [consumer EXCEPT ![c] = "load"]
    /\ UNCHANGED <<producerVars, handled, stats, mainVars>>

PopKey(c) ==
    /\ Popping(c)
    /\ queue # <<>>
    /\ Head(queue) # Tombstone
    /\ key' = [key EXCEPT ![c] = Head(queue)]
    /\ queue' = Tail(queue)
    /\ NotifyOne
    /\ consumer' = [consumer EXCEPT ![c] = "load"]
    /\ UNCHANGED <<producerVars, handled, stats, mainVars>>

(* Faulty: the consumer goes on popping at the tombstone.                  *)
PopTombstone_NoBreak(c) ==
    /\ Popping(c)
    /\ TombstoneIsNext
    /\ NotifyOne
    /\ UNCHANGED <<producerVars, queue, consumerVars, stats, mainVars>>

(* The tombstone stays in the queue, for the next consumer.                *)
PopTombstone(c) ==
    /\ Popping(c)
    /\ TombstoneIsNext
    /\ NotifyOne
    /\ consumer' = [consumer EXCEPT ![c] = "exit"]
    /\ UNCHANGED <<producerVars, queue, key, handled, stats, mainVars>>

(* The consumer is through with its key and goes back to Pop.              *)
Release(c) == /\ handled' = handled \union {key[c]}
              /\ key' = [key EXCEPT ![c] = NoKey]
              /\ consumer' = [consumer EXCEPT ![c] = "pop"]

(* Faulty: `continue' is missing, the block is counted twice.              *)
RejectBlock_NoContinue(c) ==
    /\ consumer[c] = "load"
    /\ stats' = [stats EXCEPT !.bad = @ + 1, !.good = @ + 1]
    /\ consumer' = [consumer EXCEPT ![c] = "work"]
    /\ UNCHANGED <<producerVars, queue, asleep, key, handled, mainVars>>

(* The map block cannot be loaded, or not be deserialized: `continue'.     *)
RejectBlock(c) ==
    /\ consumer[c] = "load"
    /\ stats' = [stats EXCEPT !.bad = @ + 1]
    /\ Release(c)
    /\ UNCHANGED <<producerVars, queue, asleep, mainVars>>

AcceptBlock(c) ==
    /\ consumer[c] = "load"
    /\ stats' = [stats EXCEPT !.good = @ + 1]
    /\ consumer' = [consumer EXCEPT ![c] = "work"]
    /\ UNCHANGED <<producerVars, queue, asleep, key, handled, mainVars>>

FinishBlock(c) ==
    /\ consumer[c] = "work"
    /\ Release(c)
    /\ UNCHANGED <<producerVars, queue, asleep, stats, mainVars>>

ConsumerExit(c) ==
    /\ consumer[c] = "exit"
    /\ consumer' = [consumer EXCEPT ![c] = "done"]
    /\ UNCHANGED <<producerVars, queue, asleep, key, handled, stats, mainVars>>

Consumer(c) == \/ PopWait(c) \/ PopKey(c) \/ PopTombstone(c)
               \/ RejectBlock(c) \/ AcceptBlock(c) \/ FinishBlock(c)
               \/ ConsumerExit(c)

-----------------------------------------------------------------------------
(* The main thread.                                                        *)

(* idle_wait evaluates its predicate: it returns false, or waits.          *)
IdleWait ==
    /\ main = "poll"
    /\ Main \notin asleep
    /\ IF TombstoneIsNext
       THEN main' = "join" /\ UNCHANGED asleep
       ELSE main' = main /\ asleep' = asleep \union {Main}
    /\ UNCHANGED <<producerVars, queue, consumerVars, stats, sofar>>

(* wait_for times out: the value of the predicate is what counts.          *)
IdleTimeout ==
    /\ main = "poll"
    /\ Main \in asleep
    /\ asleep' = asleep \ {Main}
    /\ main' = IF TombstoneIsNext THEN "join" ELSE "progress"
    /\ UNCHANGED <<producerVars, queue, consumerVars, stats, sofar>>

(* DisplayProgress loads the counters one after the other.                 *)
ProgressStart ==
    /\ main = "progress"
    /\ main' = IF stats.queued = 0 THEN "poll" ELSE "good"
    /\ UNCHANGED <<producerVars, queue, asleep, consumerVars, stats, sofar>>

ProgressGood ==
    /\ main = "good"
    /\ sofar' = stats.good
    /\ main' = "bad"
    /\ UNCHANGED <<producerVars, queue, asleep, consumerVars, stats>>

ProgressBad ==
    /\ main = "bad"
    /\ sofar' = sofar + stats.bad
    /\ main' = "remaining"
    /\ UNCHANGED <<producerVars, queue, asleep, consumerVars, stats>>

(* remaining = queued - sofar is computed here.                            *)
ProgressRemaining ==
    /\ main = "remaining"
    /\ sofar' = 0
    /\ main' = "poll"
    /\ UNCHANGED <<producerVars, queue, asleep, consumerVars, stats>>

JoinAll ==
    /\ main = "join"
    /\ producer = "done"
    /\ \A c \in Consumers : consumer[c] = "done"
    /\ main' = "joined"
    /\ UNCHANGED <<producerVars, queue, asleep, consumerVars, stats, sofar>>

Progress == ProgressStart \/ ProgressGood \/ ProgressBad \/ ProgressRemaining

(* Every step of the main thread but the timeout.                          *)
MainStep == IdleWait \/ Progress \/ JoinAll

Terminated == main = "joined" /\ UNCHANGED vars

Next == \/ Producer
        \/ \E c \in Consumers : Consumer(c)
        \/ MainStep
        \/ IdleTimeout
        \/ \E t \in Threads : SpuriousWakeup(t)
        \/ Terminated

(* The scheduler runs every thread that can run.  Neither the timeout of   *)
(* idle_wait nor a spurious wakeup is assumed to happen, ever.             *)
Fairness == /\ WF_vars(Producer)
            /\ \A c \in Consumers : WF_vars(Consumer(c))
            /\ WF_vars(MainStep)

Spec == Init /\ [][Next]_vars
FairSpec == Spec /\ Fairness

-----------------------------------------------------------------------------
(* Properties.                                                             *)

Held == {key[c] : c \in Consumers} \ {NoKey}

(* Everything between the scan and the consumers, in the order in which    *)
(* the consumers will see it.                                              *)
Pipeline == queue \o batch

(* No map block is lost and none is analyzed twice: a key is at one place  *)
(* only, of the scan, the pipeline, the hands of one consumer and the      *)
(* finished ones, whatever the batches and however the threads interleave  *)
(* (producer.cc must clear the vector whose keys Enqueue copied).          *)
EveryKeyInOnePlace ==
    /\ Keys \subseteq rows \union Range(Pipeline) \union Held \union handled
    /\ IsInjective(Pipeline)
    /\ \A c, d \in Consumers : key[c] # NoKey /\ key[c] = key[d] => c = d
    /\ rows \intersect (Range(Pipeline) \union Held \union handled) = {}
    /\ Range(Pipeline) \intersect (Held \union handled) = {}
    /\ Held \intersect handled = {}

(* Once the producer is done the tombstone is in the queue and stays there *)
(* as its last entry, and before that it is nowhere: a consumer that sees  *)
(* it may conclude that no key will follow (mapblock_queue.h:44-46).       *)
TombstoneIsLast ==
    /\ producer = "scanning" => Tombstone \notin Range(queue)
    /\ producer = "done" =>
         /\ rows = {} /\ batch = <<>>
         /\ queue # <<>>
         /\ \A i \in DOMAIN queue : queue[i] = Tombstone <=> i = Len(queue)

(* No consumer sleeps through the end: one that is blocked in Pop is       *)
(* blocked while the tombstone has still to be set, so SetTombstone's      *)
(* notify_all will wake it.                                                *)
NobodySleepsPastTheTombstone ==
    producer = "done" => asleep \intersect Consumers = {}

(* When the main thread has joined the others every map block was counted  *)
(* as good or as bad, exactly once: nothing is still in somebody's hands   *)
(* when the output is flushed.                                             *)
JoinedMeansAllCounted ==
    main = "joined" => /\ handled = Keys
                       /\ stats.queued = Cardinality(Keys)
                       /\ stats.good + stats.bad = stats.queued

(* DisplayProgress subtracts unsigned counters it loads one by one while   *)
(* the other threads count on; loading good and bad before queued is what  *)
(* keeps `remaining' from wrapping around (app.cc:36-37).                  *)
RemainingDoesNotWrap == main = "remaining" => sofar <= stats.queued

(* The main thread gets past the joins: nobody waits for ever, even if     *)
(* idle_wait's timeout never fires.  SetTombstone must wake every waiter,  *)
(* because a notify_one may be spent on the main thread, which does not    *)
(* pass it on to the consumers as Pop does.                                *)
MainJoinsEverybody == <>(main = "joined")

(* The queue and its users implement BlockFeed.                            *)
Feed == INSTANCE BlockFeed WITH
    left <- rows \union (Range(Pipeline) \ {Tombstone}),
    holding <- key,
    stopped <- {c \in Consumers : consumer[c] \in {"exit", "done"}}

FeedSpec == Feed!Spec

(* Pop "will block if queue is empty" (mapblock_queue.h:54): while a key   *)
(* can be popped, not every consumer is blocked in Pop.                    *)
SomeConsumerIsAwake ==
    Threaded /\ queue # <<>> => ~ (Consumers \subseteq asleep)
=============================================================================
