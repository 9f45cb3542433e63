SPECIFICATION Spec
CONSTANTS
    Width = 3
    Height = 1
    Dot = "."
    Letters <- SmallLetters
    Score <- VowelScore
    BestScore = 1
    MaxBound = 3
    Word = 8
    FullLen = 6
    FullSplits <- SmallFullSplits
    ChunkLen = 5
    Classes <- SmallClasses
    PickOrders <- SmallOrders
    RecordProgress = FALSE
    MaxConsidered = 1
INVARIANTS TypeOK NothingLost FailuresExact NoDuplicateFailures RepsAccounted
           FramesNest
PROPERTIES ImplementsSearch Terminates
CHECK_DEADLOCK FALSE
