----------------------------- MODULE MCNeighbors -----------------------------
EXTENDS Neighbors

\* Boards of one to three cells: letters that differ, some that are equal, all.
SmallSeeds ==
    { <<2>>, <<1, 3>>, <<3, 3>>, <<1, 2, 3>>, <<2, 1, 2>>, <<3, 3, 3>> }
=============================================================================
