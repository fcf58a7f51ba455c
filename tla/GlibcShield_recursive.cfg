\* glibc-2.31, recursive mutexes, one more of them held than the table has slots.
SPECIFICATION Spec
CONSTANTS
    Threads = {t1, t2}
    Locks = {r1, r2, r3}
    Recursive = {r1, r2, r3}
    MAX_LOCKS = 2
    MaxHeld = 3
    MaxDepth = 2
    MaxRefs = 3
    ResetsOwner = TRUE
    NoThread = NoThread
SYMMETRY Symmetry
INVARIANTS MutualExclusion
\* a recursive mutex that is never released blocks the other thread
CHECK_DEADLOCK FALSE
