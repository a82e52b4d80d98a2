CONSTANTS
    PROC_MAX = 3
    Policy = "RR"
    Signals = {15}
    UserExecs = FALSE
    VruntimeModulus = 2
    MaxVruntime = 2
SPECIFICATION Spec
CHECK_DEADLOCK FALSE
INVARIANTS
    NoStaleResume
