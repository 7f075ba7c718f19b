SPECIFICATION Spec
CONSTANTS
    Texts <- MCTexts
    Configs <- MCConfigs
    Disks <- MCDisks
INVARIANTS
    TypeOK
    RowsAreProcesses
    ProgramsAreRead
    GoodInputLoads
    FailedRowRepeats
