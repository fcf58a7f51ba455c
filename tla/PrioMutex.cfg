\* All protocols and kinds; the threads of a robust mutex may die anywhere.
SPECIFICATION FairSpec
CONSTANTS
    Threads = {t1, t2, t3}
    Protocols = {"inherit", "robust", "protect"}
    Kinds = {"normal", "errorcheck", "recursive"}
    HighPriority = {t3}
    MaxDepth = 2
    MaxCalls = 3
    MaxChanges = 2
    NoThread = NoThread
    INCONSISTENT = INCONSISTENT
    NOTRECOVERABLE = NOTRECOVERABLE
INVARIANTS TypeOK CeilingExact SleepersAttended AssertionsHold
PROPERTY IsRobust DeathsReported EveryCallReturns
\* every thread stops after MaxCalls calls in all
CHECK_DEADLOCK FALSE
