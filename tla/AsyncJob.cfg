SPECIFICATION Spec
CONSTANTS
    j1 = j1
    j2 = j2
    Job <- MCJob
    NumStreams = 2
    MayReject = TRUE
    MaxTicks = 3
INVARIANTS
    SolutionsCarryTheirJob
