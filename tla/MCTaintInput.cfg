SPECIFICATION Spec
CONSTANTS
    Input <- MCInput
    MaxFd = 1
    Threads = {t1, t2}
    Programs <- MCPrograms
    Counts = {1, 3}
    None = None
SYMMETRY Symmetry
CHECK_DEADLOCK FALSE
INVARIANTS
    LabelsRight
    NothingUnlabelled
    CounterFollows
