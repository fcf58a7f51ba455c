\* The real MAX_LOCKS, four errorcheck mutexes held.
SPECIFICATION Spec
CONSTANTS
    Threads = {t1, t2}
    Locks = {e1, e2, e3, e4}
    Recursive = {}
    MAX_LOCKS = 4
    MaxHeld = 4
    MaxDepth = 1
    MaxRefs = 2
    ResetsOwner = FALSE
    NoThread = NoThread
SYMMETRY Symmetry
INVARIANTS UnlocksOwnMutex
\* clients that take locks in opposite orders may wait for each other
CHECK_DEADLOCK FALSE
