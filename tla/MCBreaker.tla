------------------------------ MODULE MCBreaker ------------------------------
(* Small instances of Breaker for TLC. *)
EXTENDS Breaker

\* What the theorems of BreakerProofs assume holds of the orders and of the
\* classes used here.
ASSUME OrdersCoverCells
ASSUME NoLetterTwice

\* A board scores a point for each a or e on it.
VowelScore(b) == Cardinality({k \in Cells : b[k] \in {"a", "e"}})

SmallLetters == {"a", "b", "c", "d", "e", "f"}
SmallFullSplits == << <<"a", "b", "c", "d", "e">>, <<"f">> >>

\* Hot boards in many, one or none of the splits; a "." cell; a class of
\* one board; a full cell (three splits deep) and one split into quarters.
SmallClasses == {
    << <<"a", "b">>, <<"a", "e">>, <<"e", "c">> >>,
    << <<"a", "b", "c", "d", "e">>, <<"f", "e">>, <<>> >>,
    << <<"a", "b", "c", "d", "e", "f">>, <<"b">>, <<"a">> >>,
    << <<"a">>, <<"e">>, <<"b">> >>,
    << <<"b", "c", "d">>, <<"d", "f">>, <<"b", "d">> >>}
SmallOrders == {<<1, 2, 3>>, <<3, 1, 2>>, <<1, 1, 2>>}

-----------------------------------------------------------------------------
\* The thresholds of the code: 26 letters, the four fixed groups, 9 and more.
Alphabet == <<"a", "b", "c", "d", "e", "f", "g", "h", "i", "j", "k", "l", "m",
              "n", "o", "p", "q", "r", "s", "t", "u", "v", "w", "x", "y", "z">>
AllLetters == ToSet(Alphabet)
CodeFullSplits == <<
    <<"a", "e", "i", "o", "u">>,
    <<"s", "y">>,
    <<"b", "d", "f", "g", "j", "k", "m", "p", "v", "w", "x", "z", "q">>,
    <<"c", "h", "l", "n", "r", "t">> >>

CodeClasses == {
    <<Alphabet, <<"b">> >>,
    << <<"a">>, SubSeq(Alphabet, 1, 9)>>,
    <<Reverse(SubSeq(Alphabet, 5, 14)), <<"e">> >>}

==============================================================================
