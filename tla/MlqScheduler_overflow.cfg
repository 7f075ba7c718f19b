SPECIFICATION Safety
CONSTANTS
    p1 = p1
    p2 = p2
    p3 = p3
    c1 = c1
    c2 = c2
    NULL = NULL
    Procs <- MCProcs
    CPUs <- MCCPUs
    MAX_PRIO = 3
    MAX_QUEUE_SIZE = 2
    MaxPriority = 1
SYMMETRY MCSymmetry
INVARIANTS
    NoProcessLost
