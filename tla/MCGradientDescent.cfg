SPECIFICATION Spec
CONSTANTS
    ByteBits = 3
    WordBits = 6
    MAX_EXEC_TIMES = 18
    MAX_NUM_MINIMAL_OPTIMA_ROUND = 1
    Tasks <- MCTasks
    StartBytes = {0, 3, 7}
CHECK_DEADLOCK FALSE
INVARIANTS
    SolutionSatisfies
    NotOptimistic
    WithinBudget
PROPERTIES
    SearchEnds
