SPECIFICATION Spec
CONSTANTS
    t1 = t1
    t2 = t2
    Threads <- MCThreads
    XXHash <- MCXXHash
    ByteBits = 8
    kInitializingLabel = 99
    Inputs = 1
    alloca_stack_top = 5
    NumBuckets = 2
    HeapEntries = 3
    HashValues = {0, 1, 2, 3}
    Ops = {"Add"}
    Sizes = {8}
    Values = {1}
    Globals = {2}
    Stdin = {1}
SYMMETRY MCSymmetry
INVARIANTS
    TypeOK
    OperandsFirst
    NoLostLabel
    ReturnsItsExpression
    FewDuplicates
PROPERTIES
    SlotsStable
    ImplementsStore
