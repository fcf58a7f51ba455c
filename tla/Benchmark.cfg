\* All programs with one and two threads.
SPECIFICATION FairSpec
CONSTANTS
    ThreadCounts = {1, 2}
    NESTING_DEPTH = 2
    MAX_LOCKS = 2
    HIERARCHY_LEVELS = 3
    LOCKS_PER_GROUP = 2
    NUM_ITERATIONS = 3
    WARMUP_ITERATIONS = 1
    NUM_RUNS = 2
    INT_MAX = 3
    NoLock = NoLock
    NoResult = NoResult
INVARIANTS TypeOK NoCircularWait TimedExactly CountExact MutexesReady
PROPERTY Finishes
\* a program ends
CHECK_DEADLOCK FALSE
