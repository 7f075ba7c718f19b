SPECIFICATION Spec
CONSTANTS
    Texts <- MCTexts
    Configs <- MCPagingConfigs
    Disks <- MCDisks
INVARIANT RowsAreProcesses
