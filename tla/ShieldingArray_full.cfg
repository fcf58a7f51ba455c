\* A client that holds one lock more than the table has slots.
SPECIFICATION Spec
CONSTANTS
    Threads = {t1, t2}
    Locks = {r1, n1, n2}
    ReentrantLocks = {r1}
    MAX_LOCKS = 2
    MaxHeld = 3
    MaxDepth = 2
    NoThread = NoThread
SYMMETRY Symmetry
INVARIANTS SafeInv MutualExclusion UnlocksOwnMutex
\* a thread waits for itself once it takes an unrecorded lock again
CHECK_DEADLOCK FALSE
