SPECIFICATION Spec
CONSTANTS
    Width = 2
    Height = 1
    Dot = "."
    Letters <- FewLetters
    Score <- VowelScore
    BestScore = 1
    MaxBound = 2
    Word = 8
    FullLen = 2
    FullSplits <- FewSplits
    ChunkLen = 4
    Classes <- RepeatingClasses
    PickOrders <- RepeatingOrders
    RecordProgress = FALSE
    MaxConsidered = 1
INVARIANTS FailuresAreBoards
CHECK_DEADLOCK FALSE
