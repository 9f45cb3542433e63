SPECIFICATION Spec
CONSTANTS
    kNumLetters = 4
    kQ = 2
    kU = 3
    MaxWordLen = 5
    RootSize = 6
    Alloced = 24
    MaxMark = 2
    Files <- SmallFiles
    Leftovers <- SmallLeftovers
INVARIANTS WordsLoaded BlocksDisjoint BreadthFirst SameWords MarksKept
CHECK_DEADLOCK FALSE
