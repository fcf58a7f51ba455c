\* A thread dies while lock refuses it.
SPECIFICATION FairSpec
CONSTANTS
    Threads = {t1, t2, t3}
    Mortal = {t1, t2, t3}
    Kinds = {"normal"}
    MaxDepth = 1
    MaxCalls = 4
    DieWithWakeup = FALSE
    NoThread = NoThread
    INCONSISTENT = INCONSISTENT
    NOTRECOVERABLE = NOTRECOVERABLE
PROPERTY StaysLost
\* every thread stops after MaxCalls calls in all
CHECK_DEADLOCK FALSE
