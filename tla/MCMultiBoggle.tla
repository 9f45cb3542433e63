---------------------------- MODULE MCMultiBoggle ----------------------------
EXTENDS MultiBoggle

SmallLetters == {"a", "b", "q", "t", "x"}
SmallWords == { <<"t", "a", "b">>, <<"t", "a", "b", "a">>, <<"b", "a", "t">>,
                <<"b", "q", "a">>, <<"a", "b", "t", "b", "a">>,
                <<"t", "a", "b", "b", "q">>, <<"a", "t", "b">> }

\* Each has a word away from the corners, and one that is found through either
\* corner; the first has one that needs both, and on the others either corner
\* makes a word with a q.
SmallBoards == {
    << "t", "a", "x", "a",   "q", "b", "x", "x",
       "x", "x", "a", "x",   "q", "x", "x", "t" >>,
    << "t", "x", "x", "b",   "t", "q", "x", "a",
       "a", "x", "t", "q",   "x", "q", "x", "t" >>,
    << "t", "a", "b", "q",   "q", "b", "x", "x",
       "b", "x", "a", "x",   "x", "a", "x", "t" >> }

SmallFillings == {"b", "t"}
==============================================================================
