SPECIFICATION Spec
CONSTANTS
    N <- MCN
    Horizon <- MCHorizon
INVARIANTS
    TypeOK
    NoLostWakeup
    NoWriteRace
PROPERTIES
    TimeStableInSlot
    ImplementsClock
    FullSlotAdvances
    ReleasedInTurn
    ShutdownCompletes
