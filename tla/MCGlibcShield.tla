---------------------------- MODULE MCGlibcShield ----------------------------
(* GlibcShield on small instances: threads are interchangeable, and so are *)
(* the mutexes of one kind.                                                *)
EXTENDS GlibcShield, TLC

Symmetry ==
    Permutations(Threads) \cup Permutations(Recursive)
        \cup Permutations(Locks \ Recursive)
=============================================================================
