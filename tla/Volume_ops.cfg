SPECIFICATION FairSpec
CONSTANTS
    Layouts <- AllLayouts
    Paths <- MCPaths
    ClusterBytes = 2
    DIR_MAX = 3
    SECTOR = 4
    DIRECT = 1
    PER = 2
    EXTENT_MAX = 4
    MaxSize = 4
    IoFails = TRUE
INVARIANTS
    VolTypeOK
    FoundIsNamed
    TransfersComplete
    WholeFileSucceeds
    MapsEveryBlock
PROPERTIES
    WritesStayInFile
    OperationReturns
