SPECIFICATION Spec
CONSTANTS
    File = {f1, f2}
    ClusterCount = 5
    SectorSize = 2
    SectorsPerCluster = 1
    MaxSize = 5
    MaxWrites = 4
    AnyClient = FALSE
INVARIANTS
    
    FilesReadBack
    
CHECK_DEADLOCK FALSE
SYMMETRY Symmetry
