SPECIFICATION Spec
CONSTANTS
    SideOne = 4
    D71 <- Small71
    D81 <- Small81
    Slots = 2
    BootBlocks = 4
    Files <- SmallFiles
    Optional <- LastOnes
INVARIANTS
    FilesReadBack
    MapIsTrue
    DerivativesAreComplete
CHECK_DEADLOCK FALSE
