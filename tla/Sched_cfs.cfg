CONSTANTS
    PROC_MAX = 4
    Policy = "CFS"
    Signals = {9, 15}
    UserExecs = FALSE
    VruntimeModulus = 16
    MaxVruntime = 6
SPECIFICATION Spec
CHECK_DEADLOCK FALSE
INVARIANTS
    CfsSpread
