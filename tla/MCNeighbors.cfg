SPECIFICATION BufferSpec
CONSTANTS
    NumLetters = 3
    Seeds <- SmallSeeds
    Depths = {1, 2, 3}
INVARIANTS RestoresBoard EveryBoardInReach
CHECK_DEADLOCK FALSE
