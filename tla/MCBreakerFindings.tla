-------------------------- MODULE MCBreakerFindings --------------------------
(* Instances of Breaker on which a comment of the code does not hold. *)
EXTENDS Breaker

VowelScore(b) == Cardinality({k \in Cells : b[k] \in {"a", "e"}})

FewLetters == {"a", "e"}
FewSplits == << <<"a">>, <<"e">> >>

\* An order that names a cell twice, and so is longer than the board.
RepeatingOrders == {<<1, 1, 2>>}
RepeatingClasses == {<< <<"a", "e">>, <<"a", "e">> >>}
==============================================================================
