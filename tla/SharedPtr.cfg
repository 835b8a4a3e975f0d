SPECIFICATION Spec
CONSTANTS
    t1 = t1
    t2 = t2
    first = first
    second = second
    head = head
    other = other
    next = next
    watch = watch
    back = back
    Null = Null
    Thread <- MCThread
    Object <- MCObject
    Shared <- MCShared
    Weak <- MCWeak
    Where <- MCWhere
INVARIANTS
    TypeOK
    CountsAreExact
    NothingDiesInUse
PROPERTIES
    ImplementsOwnership
    NothingLeaks
CHECK_DEADLOCK FALSE
