SPECIFICATION FairSpec
CONSTANTS
    Drivers = {"aflpp"}
    PIPE_BUF = 2
    Capacity = 3
    MemcmpSizes = {1, 2}
    TwoSymbolic = {"aflpp"}
    MaxEvents = 3
    MaxRuns = 2
    Crashes = TRUE
    MayHang = TRUE
    ForkFails = FALSE
CHECK_DEADLOCK FALSE
INVARIANTS
    KillsOnlyTarget
