SPECIFICATION MultiSpec
CONSTANTS
    Width = 4
    Height = 4
    Q = "q"
    kCellEmpty = "empty"
    Letters <- SmallLetters
    Words <- SmallWords
    Boards <- SmallBoards
    Fillings <- SmallFillings
    Visits <- SwitchVisits4
    MaxRuns = 2
INVARIANTS MarksAreTheBoards PartialScoresExact MergedScoreExact
