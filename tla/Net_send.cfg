CONSTANTS
    BUSES = 1
    SLOTS = 2
    FUNCTIONS = 1
    WORD = 65536
    Machines <- Cards
    E1000_TX_DESC_COUNT = 8
    Ids <- IdList
    Lengths = {60}
    Junk = {0, 255}
SPECIFICATION Spec
PROPERTIES
    SendReturns
CHECK_DEADLOCK FALSE
