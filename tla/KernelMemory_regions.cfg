CONSTANTS
    KernelEnd = 49
    MaxAddr = 167
    MaxHeap = 76
    MaxPages <- MCMaxPages
    VM_PAGE_SIZE = 12
    PDS = 1
    Virts = {24, 1740, 1741, 1752, 1884, 22476}
    Physes = {24, 2401, 2400}
    ClassSizes <- MCClassSizes
    Sizes = {1, 5, 6, 8}
    Uses <- Boots
    Fills <- MCFills
SPECIFICATION Spec
CONSTRAINT RegionsApart
INVARIANTS TypeOK ObjectsApart TranslatesAsMapped SlabsConserved HeapTiled
