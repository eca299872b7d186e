--------------------------- MODULE MCMapBlockQueue ---------------------------
(* Instances of MapBlockQueue for TLC.  Keys are interchangeable, and so   *)
(* are consumers; the reduction is used for the runs without liveness.     *)
EXTENDS MapBlockQueue, TLC

Symmetry == Permutations(Keys) \union Permutations(Consumers)
=============================================================================
