SPECIFICATION Spec
CONSTANTS
    Seeds = {s1, s2}
    NoSeed = NoSeed
    Branches = {b1, b2}
    Solvers <- MCSolvers
    MAX_LOCAL_BRANCH_COUNTER = 0
    MaxConds = 2
    MaxTasks = 3
    MaxPicks = 2
CHECK_DEADLOCK FALSE
SYMMETRY Symmetric
INVARIANTS
    SolversInOrder
    CountEnough
    OnItsSeed
    BaseFirst
PROPERTIES
    NestedSkipped
