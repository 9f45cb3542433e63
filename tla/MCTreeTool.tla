----------------------------- MODULE MCTreeTool -----------------------------
EXTENDS TreeTool

\* The loops of 3x4/boggler.cc list the neighbours as those of 3x4/ibuckets.cc do.
ASSUME BogglerVisitsAssumption == ListsNeighbours(OtherLoopVisits)

SmallLetters == {"a", "b", "t"}

\* A word within another, one that needs a letter twice, one with two starts.
SmallWords == { <<"t", "a", "b">>, <<"t", "a", "b", "a">>, <<"b", "a", "t">>,
                <<"a", "t", "a">> }

\* Texts for a board of six cells that are a class: letters in several cells,
\* an empty cell, letters that a '.' hides, no word at all; and ones that are not: a capital, a
\* cell missing, one too many, an empty one, one that is too wide.
SmallTexts == {
    <<"a", "b", " ", "t", "a", " ", "b", " ", "a", " ", ".", " ", "t">>,
    <<"b", " ", "b", ".", "t", " ", "b", " ", "b", " ", "t", "b", " ", "b">>,
    <<"b", "t", " ", "a", "X", " ", "t", " ", "b", " ", "a", " ", "a">>,
    <<"a", " ", "b", " ", "t", " ", "b", "a">>,
    <<"b", " ", "b", "a", " ", "a", " ", "t", " ", "t", " ", "a", " ">>,
    <<"t", " ", " ", "a", " ", "t">>,
    <<"a", " ", "t", "b", "t", "b", " ", "a", " ", "a", " ", "b", " ", "t">> }
=============================================================================
