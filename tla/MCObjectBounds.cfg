SPECIFICATION Spec
CONSTANTS
    MAX_SAVED_STACK_ENTRIES = 4
    NumLabels = 8
    WordBytes = 2
    Sizes = {1, 2}
    MaxObjects = 3
    MaxDepth = 2
    MaxUnwinds = 1
    StackLimit = 2
CHECK_DEADLOCK FALSE
INVARIANTS
    TypeOK
    SlotOwned
    PointersTracked
    ChecksExact
    NothingMissed
    StoreAssertion
