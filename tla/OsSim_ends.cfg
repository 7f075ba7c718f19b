SPECIFICATION Spec
CONSTANTS
    c1 = c1
    c2 = c2
    NULL = NULL
    Loader = Loader
    CPUs <- MCCPUs
    Devices <- MCDevices
    NumProcs = 2
    Jobs <- MCJobs
    TimeSlot = 2
    Horizon = 2
    MaxPriority = 0
    MAX_PRIO = 2
    MAX_QUEUE_SIZE = 2
PROPERTIES
    SimulationEnds
