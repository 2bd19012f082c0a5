SPECIFICATION Spec
CONSTANTS
    Members = 2
    PipelineSize = 3
    SearchSize = 3
    StateSize = 3
    Forgotten <- MCForgotten
    Gpu <- MCGpu
    MaxCalls = 4
INVARIANTS
    TypeOK
    HandlesAreGood
    LostByInitOnly
    CleanWhenUsedOnce
