SPECIFICATION FairSpec
CONSTANTS
    Thread = {t1, t2}
    SpuriousWakes = FALSE
CHECK_DEADLOCK FALSE
PROPERTIES
    SleepersWake
