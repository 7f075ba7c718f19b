SPECIFICATION Spec
CONSTANTS
    p1 = p1
    p2 = p2
    NULL = NULL
    Processes <- MCProcesses
    PAGING_MAX_PGN = 3
    RamFrames = 2
    SwapFrames = 2
    CallSets <- MCCallSets
    MapArguments <- MCMapArguments
INVARIANTS
    TypeOK
    ListsAreExclusive
    RamIsPartitioned
    SwapIsPartitioned
    FifoIsComplete
PROPERTIES
    FramesStay
    RequestIsServed
    CallsReturn
CHECK_DEADLOCK FALSE
