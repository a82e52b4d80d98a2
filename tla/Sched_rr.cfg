CONSTANTS
    PROC_MAX = 4
    Policy = "RR"
    Signals = {9}
    UserExecs = FALSE
    VruntimeModulus = 2
    MaxVruntime = 2
SPECIFICATION FairSpec
CHECK_DEADLOCK FALSE
INVARIANTS
    NoStaleResume
    RunnerHeldOnce
    CurrentIsRunner
PROPERTIES
    DeadStaysOff
    RunnableGetsCpu
    KilledLeavesCpu
    ImplementsProcesses
