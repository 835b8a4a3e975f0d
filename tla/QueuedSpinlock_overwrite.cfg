SPECIFICATION Spec
CONSTANTS
    Thread = {t1, t2, t3}
    Null = Null
    WeakCASFails = FALSE
PROPERTIES
    HandOverIsNotOverwritten
\* A thread behind a null pointer stops for ever, and all others may end up
\* waiting for it.
CHECK_DEADLOCK FALSE
