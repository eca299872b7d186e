------------------------------ MODULE BlockFeed ------------------------------
(***************************************************************************)
(* What the producer, the map block queue and the consumers promise        *)
(* together, without the queue: every map block of the world is handed to  *)
(* one consumer, once, and a consumer stops only when no map block is left *)
(* to hand out.  MapBlockQueue.tla implements this module.                 *)
(***************************************************************************)
EXTENDS FiniteSets

CONSTANTS Keys,       \* the map blocks to analyze
          Consumers,  \* the consumer threads
          NoKey       \* a consumer that holds no map block

VARIABLES left,     \* the map blocks no consumer has been given
          holding,  \* [Consumers -> Keys or NoKey]
          stopped   \* the consumers that have been told to stop

vars == <<left, holding, stopped>>

TypeOK == /\ left \subseteq Keys
          /\ holding \in [Consumers -> Keys \union {NoKey}]
          /\ stopped \subseteq Consumers

Init == /\ left = Keys
        /\ holding = [c \in Consumers |-> NoKey]
        /\ stopped = {}

Take(c) == /\ c \notin stopped
           /\ holding[c] = NoKey
           /\ \E k \in left : /\ left' = left \ {k}
                              /\ holding' = [holding EXCEPT ![c] = k]
           /\ UNCHANGED stopped

Finish(c) == /\ holding[c] # NoKey
             /\ holding' = [holding EXCEPT ![c] = NoKey]
             /\ UNCHANGED <<left, stopped>>

Stop(c) == /\ left = {}
           /\ c \notin stopped
           /\ holding[c] = NoKey
           /\ stopped' = stopped \union {c}
           /\ UNCHANGED <<left, holding>>

Consumer(c) == Take(c) \/ Finish(c) \/ Stop(c)

Next == \E c \in Consumers : Consumer(c)

SafeSpec == Init /\ [][Next]_vars

Spec == SafeSpec /\ \A c \in Consumers : WF_vars(Consumer(c))

-----------------------------------------------------------------------------

(* Every consumer is told to stop in the end, and by then every map block  *)
(* has been handed out and finished.                                       *)
EveryConsumerStops ==
    <>(stopped = Consumers /\ left = {} /\ \A c \in Consumers : holding[c] = NoKey)
=============================================================================
