SPECIFICATION Spec
CONSTANTS
    t1 = t1
    t2 = t2
    Threads <- MCThreads
    XXHash <- MCXXHash
    ByteBits = 8
    kInitializingLabel = 99
    Inputs = 1
    alloca_stack_top = 5
    NumBuckets = 2
    HeapEntries = 2
    HashValues = {0, 1, 2, 3}
    Ops = {"Add"}
    Sizes = {8}
    Values = {1}
    Globals = {}
    Stdin = {}
PROPERTIES
    CallsReturn
