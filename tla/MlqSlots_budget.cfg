SPECIFICATION SlotSafety
CONSTANTS
    p1 = p1
    p2 = p2
    p3 = p3
    c1 = c1
    c2 = c2
    NULL = NULL
    Procs <- MCProcs
    CPUs <- MCCPUs
    MAX_PRIO = 2
    MAX_QUEUE_SIZE = 3
    MaxPriority = 0
SYMMETRY MCSymmetry
INVARIANTS
    SlotBudget
