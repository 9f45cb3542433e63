----------------------------- MODULE LetterCells -----------------------------
(***************************************************************************)
(* The cells of a BucketSolver (bucket_solver.h) and what is in them.      *)
(*                                                                         *)
(* Cells are 1..NumCells (the code's 0..cells_-1).  A cell is the sequence *)
(* of its letters, <<>> for the "." cell; q stands for "qu".               *)
(***************************************************************************)
EXTENDS Integers, Sequences, FiniteSets, SequencesExt

CONSTANTS
    Width, Height,     \* of the board
    Letters, Dot       \* the letters, and the character of an empty cell

ASSUME SizeAssumption == Width \in Nat \ {0} /\ Height \in Nat \ {0}

ASSUME LettersAssumption == Dot \notin Letters

NumCells == Width * Height
Cells == 1..NumCells

Board == [Cells -> Seq(Letters)]

\* How as_string writes a cell.
CellText(s) == IF s = <<>> THEN <<Dot>> ELSE s
=============================================================================
