------------------------------- MODULE Analysis -------------------------------
(***************************************************************************)
(* What one run of the program promises: the output database is a function *)
(* of the world, whatever the threads do.  It is written in four           *)
(* transactions, first what others refer to; a run that is cut short       *)
(* leaves the tables that were committed, whole, and no others.  How it    *)
(* ends says less: without threads a database error is logged, and the     *)
(* program exits as if it had succeeded.  App.tla implements this module.  *)
(***************************************************************************)
EXTENDS Naturals, WorldData

CONSTANTS Keys,     \* the positions of the map blocks to analyze
          Worlds,   \* the worlds considered: functions from Keys to blocks
          Threaded  \* RunThreaded, or RunSerially

VARIABLES world,    \* the world that is analyzed
          db,       \* the committed output tables
          outcome   \* "running", "failed" (logged), "exit" (with 0) or "aborted"

vars == <<world, db, outcome>>

Analyzed == {p \in Keys : world[p].kind = "ok"}
Anthropocene == {p \in Analyzed : IsAnthropocene(world[p])}

(* The complete tables of a world.  A block is preserved when it lies      *)
(* within preserve_radius of an anthropocene block.                        *)
Complete ==
    LET nodes == UNION {NodeRows(p, world[p]) : p \in Analyzed}
    IN  [actor |-> PreregisteredActors \union UNION {Owners(world[p]) : p \in Analyzed},
         node |-> PreregisteredNames \union UNION {world[p].names : p \in Keys},
         nodes |-> nodes,
         inventory |-> InventoryRows(nodes),
         blocks |-> {[pos |-> p,
                      uniform |-> Uniform(world[p]),
                      anthropocene |-> p \in Anthropocene,
                      preserve |-> p \in UNION {Cube(q) : q \in Anthropocene}] : p \in Analyzed}]

Transactions == <<{"actor"}, {"node"}, {"nodes", "inventory"}, {"blocks"}>>

(* The tables after the first n transactions.                              *)
Committed(n) ==
    [t \in DOMAIN EmptyTables |->
        IF \E i \in 1 .. n : t \in Transactions[i] THEN Complete[t] ELSE {}]

Init == /\ world \in Worlds
        /\ db = EmptyTables
        /\ outcome = "running"

Commit == /\ outcome = "running"
          /\ \E n \in 1 .. 4 : db = Committed(n - 1) /\ db' = Committed(n)
          /\ UNCHANGED <<world, outcome>>

(* RunSerially logs a database error; nothing is written any more.         *)
CatchError == /\ outcome = "running" /\ ~ Threaded
              /\ outcome' = "failed"
              /\ UNCHANGED <<world, db>>

(* main returns 0: the output is complete, or an error has been logged.    *)
Finish == /\ (outcome = "running" /\ db = Complete) \/ outcome = "failed"
          /\ outcome' = "exit"
          /\ UNCHANGED <<world, db>>

(* The end of the process, at any moment.                                  *)
Abort == /\ outcome \in {"running", "failed"}
         /\ outcome' = "aborted"
         /\ UNCHANGED <<world, db>>

Next == Commit \/ CatchError \/ Finish \/ Abort

SafeSpec == Init /\ [][Next]_vars
Spec == SafeSpec /\ WF_vars(Next)
=============================================================================
