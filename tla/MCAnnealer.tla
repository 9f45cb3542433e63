----------------------------- MODULE MCAnnealer -----------------------------
EXTENDS Annealer

SmallLetters == {"a", "b", "c"}

\* Boards of equal score, of none, and one way up past a worse board.
SmallScore(b) ==
    IF \A k \in Squares : b[k] = "c" THEN 3
    ELSE IF \E k \in Squares : b[k] = "c" THEN 0
    ELSE Cardinality({k \in Squares : b[k] = "b"})
=============================================================================
