------------------------------- MODULE Interner -------------------------------
(***************************************************************************)
(* What IdMap and its caches promise: a name gets an id once, the next     *)
(* number, and keeps it, and every thread is told the same id for a name.  *)
(* IdMap.tla implements this module.                                       *)
(***************************************************************************)
EXTENDS Naturals

CONSTANTS Names,    \* the names threads ask for
          Threads,
          Known     \* the ids that are given out before the threads start

VARIABLES ids,      \* the id of each name that has one
          told      \* what each thread was told

Extend(f, x, y) == [z \in DOMAIN f \union {x} |-> IF z = x THEN y ELSE f[z]]

Init == /\ ids = Known
        /\ told = [t \in Threads |-> <<>>]

Used == {ids[n] : n \in DOMAIN ids}

\* The successors of used ids that are not used: one, as there are no gaps.
NextIds == ({0} \union {i + 1 : i \in Used}) \ Used

Assign(n) == /\ n \notin DOMAIN ids
             /\ \E i \in NextIds : ids' = Extend(ids, n, i)
             /\ UNCHANGED told

Tell(t, n) == /\ n \in DOMAIN ids
              /\ told' = [told EXCEPT ![t] = Extend(@, n, ids[n])]
              /\ UNCHANGED ids

Next == \/ \E n \in Names : Assign(n)
        \/ \E t \in Threads, n \in Names : Tell(t, n)

Spec == Init /\ [][Next]_<<ids, told>>
=============================================================================
