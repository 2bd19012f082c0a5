SPECIFICATION FairSpec
CONSTANTS
    Radix = 2
    HashBytes = 2
    Keccak <- MCKeccak
    MaxEpochScan = 7
    ForkEpoch = 4
    BaseItems = 2
    Growth = 1
    BatchSize = 3
    BlockSize = 2
    WordMod = 16
    Notifications <- MCNotifications
    Difficulty <- MCDifficulty
    DebugTargets <- MCDebugTargets
INVARIANTS
    TypeOK
    ShareEchoesHeader
    EpochBelongsToSeed
    EachItemOnce
PROPERTIES
    GenerationEnds
