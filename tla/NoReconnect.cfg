SPECIFICATION AnsweringSpec
CONSTANTS
    j1 = j1
    j2 = j2
    j3 = j3
    n1 = n1
    n2 = n2
    n3 = n3
    a1 = a1
    a2 = a2
    NoJob = NoJob
    NoAddr = NoAddr
    NoEpoch = NoEpoch
    Addr = {a1, a2}
    Epoch <- MCEpoch
    Job <- MCJobs2
    SeedEpoch <- MCSeed2
    Nonce = {n1, n2, n3}
    Difficulty = {0, 1}
    Hits <- MCHits2
    Pieces = 2
    RecvMax = 4
    EarlyPush = FALSE
    MaxPush = 2
    MaxSolutions = 2
    MaxFound = 2
PROPERTY
    LostThenReconnects
