----------------------------- MODULE BoggleBoard -----------------------------
(***************************************************************************)
(* What the Bogglers have in common, Boggler (boggle_solver.cc) and        *)
(* MultiBoggle: a board of letters, and the cells that DoDFS goes on to.   *)
(***************************************************************************)
EXTENDS Scoring

CONSTANTS
    Letters,           \* 'a' to 'z'
    Visits             \* the cells DoDFS tries from each cell, in its order

ASSUME VisitsAssumption == ListsNeighbours(Visits)

NumCells == Width * Height
Cells == 1..NumCells
==============================================================================
