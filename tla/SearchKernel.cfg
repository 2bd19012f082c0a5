SPECIFICATION FairSpec
CONSTANTS
    NonceMod = 32
    WordMod = 16
    BaseBlock = 2
    OptBlock = 2
    MaxPer = 3
    MaxSolutions = 2
    Starts <- MCStarts
    Counts <- MCCounts
    Solving <- MCSolving
    Garbage = Garbage
INVARIANTS
    TypeOK
    EachNonceOnce
    SlotsHaveOneOwner
PROPERTIES
    KeepsPromise
    SearchEnds
