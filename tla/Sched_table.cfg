CONSTANTS
    PROC_MAX = 4
    Policy = "RR"
    Signals = {9, 15}
    UserExecs = TRUE
    VruntimeModulus = 2
    MaxVruntime = 2
SPECIFICATION Spec
CHECK_DEADLOCK FALSE
INVARIANTS
    TypeOK
    PidsNameSlots
