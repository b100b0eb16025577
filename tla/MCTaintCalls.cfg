SPECIFICATION Spec
CONSTANTS
    Fns <- MCFns
    Main = "main"
    ArgTLSSize = 3
    RetvalTLSSize = 3
    Labels <- MCLabels
    MaxDepth = 5
    MaxCalls = 4
CHECK_DEADLOCK FALSE
INVARIANTS
    LabelsFollow
    ContextFollows
    FramesFollow
