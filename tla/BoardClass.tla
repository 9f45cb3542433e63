----------------------------- MODULE BoardClass -----------------------------
(***************************************************************************)
(* Classes of boards as BucketSolver (bucket_solver.h, bucket_solver.cc)   *)
(* holds them, and the contract of its UpperBound, which module Breaker    *)
(* relies on and module BucketBound derives.                               *)
(***************************************************************************)
EXTENDS LetterCells

CONSTANTS
    Score(_),          \* the Boggle score of a single board
    Word               \* uint64_t counts are modulo Word

ASSUME WordAssumption == Word \in Nat \ {0}

-----------------------------------------------------------------------------
SingleBoard == [Cells -> Letters \cup {Dot}]

\* The boards of a class: one letter of each cell.
LettersOf(s) == IF s = <<>> THEN {Dot} ELSE ToSet(s)
Reps(b) == {r \in [Cells -> UNION {LettersOf(b[k]) : k \in Cells}] :
                \A k \in Cells : r[k] \in LettersOf(b[k])}

IsSingle(b) == \A k \in Cells : Len(b[k]) <= 1

\* Mutants of NumReps: the loop stops one cell early; the word does not wrap.
NumRepsLastCellMissed(b) ==
    LET reps[k \in 0..NumCells] ==
            IF k = 0 THEN 1 % Word ELSE (reps[k - 1] * Len(b[k])) % Word
    IN  reps[NumCells - 1]
NumRepsUnwrapped(b) ==
    LET reps[k \in 0..NumCells] ==
            IF k = 0 THEN 1 ELSE reps[k - 1] * Len(b[k])
    IN  reps[NumCells]

\* NumReps: the product of the lengths of the cells, in a machine word.
NumReps(b) ==
    LET reps[k \in 0..NumCells] ==
            IF k = 0 THEN 1 % Word ELSE (reps[k - 1] * Len(b[k])) % Word
    IN  reps[NumCells]

\* as_string without the spaces, as SplitBucket reports a board.
BoardText(b) ==
    IF IsSingle(b) THEN [k \in Cells |-> CellText(b[k])[1]]
    ELSE FlattenSeq([k \in Cells |-> CellText(b[k])])

-----------------------------------------------------------------------------
\* UpperBound returns the smaller of the two bounds in Details().
BoundLarger(d) ==                                              \* a mutant
    IF d.max_nomark <= d.sum_union THEN d.sum_union ELSE d.max_nomark
Bound(d) == IF d.max_nomark <= d.sum_union THEN d.max_nomark ELSE d.sum_union

\* What UpperBound(best) leaves in Details() for the class b: either both
\* bounds are over best (the search may have been cut short there), or the
\* search was complete and both are at least the score of every board of the
\* class.  Every word counted in sum_union is found on some board of the class,
\* so for a single board it never exceeds the score.
BoundsClass(b, d, best) ==
    /\ \/ Bound(d) > best
       \/ \A r \in Reps(b) : Score(r) <= Bound(d)
    /\ IsSingle(b) => \A r \in Reps(b) : d.sum_union <= Score(r)
=============================================================================
