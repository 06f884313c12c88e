---------------------------- MODULE MCEventQueue ----------------------------
(* Model-checking instances of EventQueue.                                 *)
EXTENDS EventQueue, TLC

Symmetry == Permutations(Ids)
=============================================================================
