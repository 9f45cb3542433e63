------------------------------ MODULE MCBoggler ------------------------------
EXTENDS Boggler

\* The loops of 4x4/ibuckets.cc list the neighbours as the switch here does.
ASSUME LoopVisitsAssumption == ListsNeighbours(LoopVisits)

\* What a theorem of BogglerProofs assumes.
ASSUME RunsDoNotWrap

SmallLetters == {"a", "b", "q", "t"}
SmallWords == { <<"t", "a", "b">>, <<"t", "a", "b", "a">>, <<"b", "a", "t">>,
                <<"q", "a">>, <<"a", "t", "a">>, <<"t", "a", "t", "b", "q">> }

\* Boards that share some of their words; the last two are a board with a bad
\* character in the middle, and one that is too short.
Padded(s) == s \o [k \in 1..(NumCells - Len(s)) |-> "b"]
SmallStrings ==
    { Padded(s) : s \in {
        <<"t", "a", "q", "a", "t", "a">>,
        <<"t", "a", "t", "q", "b", "a">>,
        <<"b", "a", "t", "a", "b", "t">>,
        <<"q", "a", "?", "b", "q", "t">> } } \cup { <<"t", "a">> }
==============================================================================
