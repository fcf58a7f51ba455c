-------------------------- MODULE MCShieldingArray --------------------------
(* ShieldingArray on small instances: threads are interchangeable, and so  *)
(* are the locks of one kind.                                              *)
EXTENDS ShieldingArray, TLC

Symmetry ==
    Permutations(Threads) \cup Permutations(ReentrantLocks)
        \cup Permutations(Locks \ ReentrantLocks)
=============================================================================
