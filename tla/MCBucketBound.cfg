SPECIFICATION Spec
CONSTANTS
    Width = 3
    Height = 3
    Dot = "."
    Q = "q"
    Word = 64
    Letters <- SmallLetters
    Words <- SmallWords
    Boards <- SmallBoards
    Visits <- SwitchVisits3
    Bailouts = {0, 1, 3, 100}
    MaxRuns = 2
INVARIANTS PathTracked UnionCountsMarkedOnce KeepsContract ExactOnBoards
