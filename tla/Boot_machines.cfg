CONSTANTS
    BUSES = 2
    SLOTS = 2
    FUNCTIONS = 3
    WORD = 65536
    CMD_RING_TRBS = 5
    EVENT_RING_TRBS = 5
    MAX_SLOTS = 4
    MaxPortEvents = 2
    Machines <- AllMachines
    AHCI_MAX_DEVICES = 2
    StorageTests = TRUE
    MaxFaults = 3
SPECIFICATION Spec
INVARIANTS
    TypeOK
    LoaderFreesBuffers
    RootIsFirst
    FirstWorkingInit
    BootsFat32Root
    FindsFirst
    AddressedOwnSlot
    FetchInOrder
PROPERTIES
    BootEnds
CHECK_DEADLOCK FALSE
