---------------------------- MODULE MCRobustMutex ----------------------------
(* RobustMutex on small instances: the threads that may die are            *)
(* interchangeable, and so are the others.                                 *)
EXTENDS RobustMutex, TLC

Symmetry == Permutations(Mortal) \cup Permutations(Threads \ Mortal)
=============================================================================
