\* One of three threads may die, but not with a wake-up in its hands (HasWakeup).
SPECIFICATION FairSpec
CONSTANTS
    Threads = {t1, t2, t3}
    Mortal = {t1}
    Kinds = {"normal", "errorcheck", "recursive"}
    MaxDepth = 2
    MaxCalls = 4
    DieWithWakeup = FALSE
    NoThread = NoThread
    INCONSISTENT = INCONSISTENT
    NOTRECOVERABLE = NOTRECOVERABLE
PROPERTY EveryLockReturns
\* every thread stops after MaxCalls calls in all
CHECK_DEADLOCK FALSE
