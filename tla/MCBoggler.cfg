SPECIFICATION Spec
CONSTANTS
    Width = 4
    Height = 4
    Q = "q"
    Letters <- SmallLetters
    Words <- SmallWords
    Strings <- SmallStrings
    Visits <- SwitchVisits4
    Run = 8
    MaxBoards = 3
INVARIANTS PathTracked ScoreExact
