\* glibc-2.31, a mutex destroyed after its last release.
SPECIFICATION Spec
CONSTANTS
    Threads = {t1, t2}
    Locks = {e1}
    Recursive = {}
    MAX_LOCKS = 4
    MaxHeld = 1
    MaxDepth = 1
    MaxRefs = 2
    ResetsOwner = TRUE
    NoThread = NoThread
INVARIANTS LastAccess
\* clients that take locks in opposite orders may wait for each other
CHECK_DEADLOCK FALSE
