\* Private mutexes of one process whose threads are started one by one, and
\* mutexes shared by two processes, one of them single-threaded.
SPECIFICATION FairSpec
CONSTANTS
    Threads = {t1, t2, t3}
    Layouts = {{{t1, t2, t3}}, {{t1, t2}, {t3}}}
    Kinds = {"normal", "adaptive"}
    MaxSpin = 1
    MaxCalls = 2
    NoThread = NoThread
INVARIANTS TypeOK NoStaleOwner OwnerRecorded SleepersAttended
PROPERTY EveryLockSucceeds IsMutex
\* every thread stops after MaxCalls calls
CHECK_DEADLOCK FALSE
