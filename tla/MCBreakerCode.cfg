SPECIFICATION Spec
CONSTANTS
    Width = 2
    Height = 1
    Dot = "."
    Letters <- AllLetters
    Score <- VowelScore
    BestScore = 1
    MaxBound = 2
    Word = 32
    FullLen = 26
    FullSplits <- CodeFullSplits
    ChunkLen = 9
    Classes <- CodeClasses
    PickOrders = {}
    RecordProgress = TRUE
    MaxConsidered = 1
INVARIANTS FailuresExact DepthBound ConsideredOnce
CHECK_DEADLOCK FALSE
