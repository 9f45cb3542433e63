SPECIFICATION Spec
CONSTANTS
    num_squares_ = 2
    Letters <- SmallLetters
    Score <- SmallScore
    max_stall = 2
    FrozenAt = 1
    ColdAt = 3
    Leftover = 7
    MaxMutations = 2
    Runs = 2
INVARIANTS FinalMatches RunIsBounded
PROPERTIES NoLossWhenFrozen RunEnds
CHECK_DEADLOCK FALSE
