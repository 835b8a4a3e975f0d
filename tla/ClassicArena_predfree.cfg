SPECIFICATION Spec
CONSTANTS
    Alignment = 16
    ChunkOverheadSize = 8
    SmallestBin = 32
    FirstInexactBin = 64
    LargestBin = 256
    BinsPerOctave = 2
    SizeModulus = 1024
    Block <- SmallBlock
    BlockSize <- SmallBlockSize
    Request <- SmallRequest
    MemoryIsZeroed = TRUE
CHECK_DEADLOCK FALSE
INVARIANTS
    PredFreeIsTrue
