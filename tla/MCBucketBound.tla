---------------------------- MODULE MCBucketBound ----------------------------
EXTENDS BucketBound

\* Words that share prefixes, one with a q, some that need a letter of the
\* board twice or two cells that only touch at a corner.
SmallLetters == {"a", "b", "q", "t"}
SmallWords == { <<"t", "a", "b">>, <<"t", "a", "b", "a">>, <<"b", "a", "t">>,
                <<"q", "a">>, <<"a", "t", "a">>, <<"t", "a", "t", "b", "q">> }

Padded(b) == b \o [k \in 1..(NumCells - Len(b)) |-> <<"b">>]

\* Classes: one board; two letters in a cell; the same letter twice in a cell
\* and in two cells; an empty cell; every board at once.  The cells that are
\* left hold a b.
SmallBoards == { Padded(b) : b \in {
    << <<"t">>, <<"a">>, <<"q">>, <<"a">>, <<"t">>, <<"a">> >>,
    << <<"t", "b">>, <<"a">>, <<"t", "b">>, <<"q">>, <<>>, <<"a">> >>,
    << <<"t", "t">>, <<"a", "q">>, <<>>, <<"b", "a">>, <<"a">>, <<"t">> >>,
    << <<"a", "t">>, <<"a", "q">>, <<"t">>, <<"b">>, <<"q", "t">>, <<"a">> >> } }
==============================================================================
