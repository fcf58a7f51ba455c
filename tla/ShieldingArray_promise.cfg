\* As many locks as the table has slots: MaxHeld = MAX_LOCKS.
SPECIFICATION FairSpec
CONSTANTS
    Threads = {t1, t2}
    Locks = {r1, n1, n2}
    ReentrantLocks = {r1}
    MAX_LOCKS = 3
    MaxHeld = 3
    MaxDepth = 2
    NoThread = NoThread
INVARIANTS TypeOK RecordInv NoSelfDeadlock TableExact
PROPERTY KeepsPromise
\* clients that take locks in opposite orders may wait for each other
CHECK_DEADLOCK FALSE
