SPECIFICATION FairSpec
CONSTANTS
    Thread = {t1, t2, t3, t4}
    Null = Null
    WeakCASFails = TRUE
INVARIANTS
    TypeOK
    MutualExclusion
    TokenOutlivesItsUsers
    SlowReleaseHasASuccessor
PROPERTIES
    ImplementsFifoLock
    LinkedThreadIsGranted
\* A thread behind a null pointer stops for ever, and all others may end up
\* waiting for it.
CHECK_DEADLOCK FALSE
