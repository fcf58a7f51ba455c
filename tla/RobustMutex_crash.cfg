\* Each of three threads may die anywhere.
SPECIFICATION Spec
CONSTANTS
    Threads = {t1, t2, t3}
    Mortal = {t1, t2, t3}
    Kinds = {"normal", "errorcheck", "recursive"}
    MaxDepth = 2
    MaxCalls = 4
    DieWithWakeup = TRUE
    NoThread = NoThread
    INCONSISTENT = INCONSISTENT
    NOTRECOVERABLE = NOTRECOVERABLE
SYMMETRY Symmetry
INVARIANTS TypeOK NoDeadOwner CoverInv CountExact
PROPERTY IsRobust DeathsReported
\* every thread stops after MaxCalls calls in all
CHECK_DEADLOCK FALSE
