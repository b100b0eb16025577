SPECIFICATION Spec
CONSTANTS
    ByteBits = 8
    kInitializingLabel = 99
    XXHash <- MCXXHash
    WordBits = 8
    InputBytes = 4
    max_ast_size = 3
    NodeCapacity = 32
    InputSize = 4
    Conds <- MCConds
    RootKind <- MCRootKind
    Normal <- MCNormal
    Outcome <- MCOutcome
    KindOf <- MCKindOf
    Scanned <- MCScanned
    MaxCalls = 4
INVARIANTS
    ClassesAgree
    SavedFindable
    SavedHold
    ClausesFlip

    
