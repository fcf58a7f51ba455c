\* glibc-2.41, a slot to spare: MaxHeld < MAX_LOCKS.
SPECIFICATION FairSpec
CONSTANTS
    Threads = {t1, t2}
    Locks = {r1, e1}
    Recursive = {r1}
    MAX_LOCKS = 3
    MaxHeld = 2
    MaxDepth = 2
    MaxRefs = 3
    ResetsOwner = FALSE
    NoThread = NoThread
INVARIANTS TypeOK UnlocksOwnMutex LastAccess
PROPERTY KeepsPromise HonestCodes
\* clients that take locks in opposite orders may wait for each other
CHECK_DEADLOCK FALSE
