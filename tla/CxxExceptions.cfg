SPECIFICATION Spec
CONSTANTS
    Thread = {t1, t2}
    Exn = {x1, x2, x3}
    Ptr = {p1, p2}
    None = None
    Memory <- MCMemory
    MaxDepth = 5
    AnyProgram = FALSE
INVARIANTS
    ReferencesAreCounted
    GlobalsMatchTheProgram
PROPERTIES
    ImplementsOwnership
\* The program may end, or have made all its exceptions.
CHECK_DEADLOCK FALSE
SYMMETRY Symmetry
