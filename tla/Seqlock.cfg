SPECIFICATION FairSpec
CONSTANTS
    Writer = {w1, w2}
    Reader = {r1}
    Word = {x, y}
    Modulus = 8
    MaxWrites = 3
    Nothing = Nothing
    WeakCASFails = FALSE
INVARIANTS
    TypeOK
    WriterExclusion
    NoLostUpdate
    ReadsAreSnapshots
PROPERTIES
    ImplementsRegister
    ReadersReturn
    WritersAcquire
