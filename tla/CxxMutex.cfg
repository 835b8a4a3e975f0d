SPECIFICATION FairSpec
CONSTANTS
    Thread = {t1, t2, t3}
    SpuriousWakes = TRUE
CHECK_DEADLOCK FALSE
INVARIANTS
    TypeOK
    MutualExclusion
    DestroyedUnowned
PROPERTIES
    AwakeThreadsProgress
