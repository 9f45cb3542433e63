SPECIFICATION Spec
CONSTANTS
    Width = 3
    Height = 3
    Dot = "."
    Q = "q"
    Word = 64
    Letters <- SmallLetters
    classes <- SmallClasses
    Words <- SmallWords
    BestScore = 1
INVARIANTS NothingMissed ReportedOnce OneCanonical
CHECK_DEADLOCK FALSE
