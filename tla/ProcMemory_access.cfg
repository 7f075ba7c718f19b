SPECIFICATION Spec
CONSTANTS
    PAGING_PAGESZ = 4
    PAGING_MAX_PGN = 4
    PAGING_MAX_SYMTBL_SZ = 3
    SwapFrames = 2
    vmemsz = 12
    INT_MAX <- MCIntMax
    Registers <- MCRegisters
    Sizes <- MCSizes
    Offsets <- MCOffsets
    Crash <- MCCrash
INVARIANTS
    AccessReachesRam
CHECK_DEADLOCK FALSE
