SPECIFICATION Spec
CONSTANTS
    XXHash <- MCXXHash
    ByteBits = 2
    kInitializingLabel = 99
    InputLen = 2
    is_stdin = FALSE
    Programs <- MCSumPrograms
    ConcreteInput <- MCConcrete
CHECK_DEADLOCK FALSE
INVARIANTS
    ValuesMatch
