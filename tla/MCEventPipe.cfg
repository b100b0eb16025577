SPECIFICATION FairSpec
CONSTANTS
    Drivers = {"aflpp", "fgtest", "rl"}
    PIPE_BUF = 2
    Capacity = 3
    MemcmpSizes = {1, 2}
    TwoSymbolic = {"aflpp", "fgtest"}
    MaxEvents = 3
    MaxRuns = 2
    Crashes = FALSE
    MayHang = TRUE
    ForkFails = TRUE
CHECK_DEADLOCK FALSE
INVARIANTS
    InSync
    KillsOnlyTarget
    NothingLeft
    AllHandled
PROPERTIES
    RunEnds
