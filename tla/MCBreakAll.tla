----------------------------- MODULE MCBreakAll -----------------------------
EXTENDS BreakAll

\* Two letter classes, the second with two letters.
SmallLetters == {"a", "b", "t"}
SmallClasses == << <<"a">>, <<"b", "t">> >>

\* Two classes of one letter, for the larger board.
PlainLetters == {"a", "t"}
PlainClasses == << <<"a">>, <<"t">> >>

SmallWords == { <<"t", "a", "b">>, <<"t", "a", "t", "b">> }
PlainWords == { <<"t", "t", "t", "t">> }
==============================================================================
