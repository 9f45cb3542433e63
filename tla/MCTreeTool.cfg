SPECIFICATION TreeSpec
CONSTANTS
    Width = 3
    Height = 2
    Q = "q"
    Dot = "."
    Space = " "
    NUL = "0"
    CellSize = 4
    MaxLoads = 2
    Null = Null
    Letters <- SmallLetters
    Words <- SmallWords
    Texts <- SmallTexts
    Visits <- LoopVisits
INVARIANTS ParseExact WorksOnItsClass RestoresCopy IndicesOnePlaceLate
           RecomputedIsBound ForcedIsNarrowed
CHECK_DEADLOCK FALSE
