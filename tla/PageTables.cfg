CONSTANTS
    Cpu = {c1, c2}
    Root = Root
    TableFrame = {t1, t2, t3}
    Levels = 3
    EntryCount = 2
    LargeLevel = {1}
    Delta = {16}
    NoMapping = NoMapping
    Nobody = Nobody
    AnyClient = FALSE
    MaxSize = 3
    MaxRequests = 3
SPECIFICATION Spec
INVARIANTS
    TablesFormATree
    RemovedPagesAreForgotten
PROPERTIES
    ImplementsAddressSpace
SYMMETRY Symmetry
CHECK_DEADLOCK FALSE
