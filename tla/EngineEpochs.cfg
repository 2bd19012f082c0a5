SPECIFICATION Spec
CONSTANTS
    j1 = j1
    j2 = j2
    j3 = j3
    n1 = n1
    n2 = n2
    n3 = n3
    a1 = a1
    a2 = a2
    NoJob = NoJob
    NoAddr = NoAddr
    NoEpoch = NoEpoch
    Addr = {a1, a2}
    Epoch <- MCEpoch
    Job <- MCJobs3
    SeedEpoch <- MCSeed3
    Nonce = {n1, n2, n3}
    Difficulty = {0, 1}
    Hits <- MCNoHits
    Pieces = 1
    RecvMax = 2
    EarlyPush = FALSE
    MaxPush = 5
    MaxSolutions = 2
    MaxFound = 0
INVARIANTS
    DagTypeOK
    DeviceHoldsEngineEpoch
    NoDanglingDag
    SearchUsesJobsDag
    WorksOnLatestJob
PROPERTY
    DrivesDagMemory
