SPECIFICATION Spec
CONSTANTS
    Width = 3
    Height = 4
    Dot = "."
    Q = "q"
    Word = 64
    Letters <- PlainLetters
    classes <- PlainClasses
    Words <- PlainWords
    BestScore = 0
INVARIANTS EveryBoardFound
CHECK_DEADLOCK FALSE
