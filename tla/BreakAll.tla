------------------------------ MODULE BreakAll ------------------------------
(***************************************************************************)
(* The --break_all loop of ibucket_breaker_main.cc and the numbering and   *)
(* symmetries of board-utils.cc that it goes by; and the same loop in      *)
(* paper/break_all.cc, which has its own (paper/breaker.cc), for the 3x3   *)
(* board.  Each class is broken in one step, by what module Breaker proves *)
(* of Break: its failures are the boards of the class over the best score. *)
(*                                                                         *)
(* An encoded board gives each cell the number of its letter class, 0 for  *)
(* the code's 'a'; classes_ is the partition of the letters.               *)
(***************************************************************************)
EXTENDS Scoring, Bags

CONSTANTS
    Letters, Dot, Word,
    classes,           \* classes_, each a sequence of letters
    BestScore          \* --best_score

INSTANCE BoardClass WITH Score <- DictionaryScore

\* The classes are ones that ParseBoard accepts.
ASSUME PartitionAssumption ==
    /\ classes \in Seq(Seq(Letters) \ {<<>>})
    /\ classes # <<>>
    /\ \A c \in DOMAIN classes : Len(classes[c]) < 27

ASSUME ScoresAssumption == BestScore \in Nat

VARIABLES
    version,           \* which of the two programs runs
    idx,               \* idx: the number of the next class
    bd,                \* the breaker's board: the last class parsed
    good_boards        \* good_boards, in no order

vars == <<version, idx, bd, good_boards>>

-----------------------------------------------------------------------------
\* board-utils.cc
num_classes == Len(classes)
Power[j \in 0..NumCells] == IF j = 0 THEN 1 ELSE Power[j - 1] * num_classes
NumClasses == Power[NumCells]
max_index == NumClasses

\* What is left of the number when j cells have got their digit.
Left(id) ==
    LET left[j \in 0..NumCells] ==
            IF j = 0 THEN id ELSE left[j - 1] \div num_classes
    IN  left
BoardFromIdHigh(id) ==                                         \* a mutant
    [k \in Cells |-> Left(id)[NumCells - k + 1] % num_classes]
BoardFromId(id) == [k \in Cells |-> Left(id)[NumCells - k] % num_classes]
ExpandPartitions(board) == [k \in Cells |-> classes[board[k] + 1]]

\* The cell at x, y of BoardUtils, which is not that of BucketSolver.
Id(x, y) == y * Width + x + 1
X(k) == (k - 1) % Width
Y(k) == (k - 1) \div Width

FlipTopBottom(board) == [k \in Cells |-> board[Id(X(k), Height - 1 - Y(k))]]
FlipLeftRightOneRow(board) ==                                  \* a mutant
    [k \in Cells |-> IF Y(k) = 0 THEN board[Id(Width - 1 - X(k), 0)]
                     ELSE board[k]]
FlipLeftRight(board) == [k \in Cells |-> board[Id(Width - 1 - X(k), Y(k))]]
Rotate90CW(board) == [k \in Cells |-> board[Id(Y(k), Width - 1 - X(k))]]

\* The boards in the order in which GenerateAnalogues and IsCanonical make them.
Flips(board) ==
    LET bd1 == FlipLeftRight(board)
        bd2 == FlipTopBottom(bd1)
    IN  <<bd1, bd2, FlipLeftRight(bd2)>>
Images(board) ==
    Flips(board) \o IF Width # Height THEN <<>>
                    ELSE LET turned == Rotate90CW(board)
                         IN  <<turned>> \o Flips(turned)

LessThan(a, b) ==
    \E k \in Cells : a[k] < b[k] /\ \A m \in 1..(k - 1) : a[m] = b[m]
IsCanonicalUnturned(board) ==                                  \* a mutant
    \A bd1 \in ToSet(Flips(board)) : ~LessThan(bd1, board)
IsCanonical(board) == \A bd1 \in ToSet(Images(board)) : ~LessThan(bd1, board)

\* The analogues in no order: the board itself is dropped, and what is repeated.
GenerateAnalogues(board) == ToSet(Images(board)) \ {board}
Canonicalize(board) ==
    LET rots == GenerateAnalogues(board) \cup {board}
    IN  CHOOSE b \in rots : \A c \in rots : ~LessThan(c, b)

-----------------------------------------------------------------------------
\* paper/breaker.cc: the first cell has the lowest digit, a board is an array of
\* rows, and only numbers are compared.
PaperFromId(id) == [k \in Cells |-> Left(id)[k - 1] % num_classes]
PaperBoardId(board) ==
    LET id[j \in 0..NumCells] ==
            IF j = 0 THEN 0 ELSE id[j - 1] * num_classes + board[NumCells + 1 - j]
    IN  id[NumCells]

SwapFirstIndex(board) == [k \in Cells |-> board[Id(X(k), 2 - Y(k))]]
SwapSecondIndex(board) == [k \in Cells |-> board[Id(2 - X(k), Y(k))]]
Transpose(board) == [k \in Cells |-> board[Id(Y(k), X(k))]]

PaperFlips(board) ==
    LET bd1 == SwapFirstIndex(board)
        bd2 == SwapSecondIndex(bd1)
    IN  <<bd1, bd2, SwapFirstIndex(bd2)>>
PaperImages(board) ==
    LET flips == PaperFlips(board)
        turned == Transpose(SwapSecondIndex(flips[3]))
    IN  flips \o <<turned>> \o PaperFlips(turned)
PaperIsCanonical(id) ==
    \A b \in ToSet(PaperImages(PaperFromId(id))) : PaperBoardId(b) >= id

-----------------------------------------------------------------------------
\* ibucket_breaker_main.cc and paper/break_all.cc

Versions == {"BoardUtils"} \cup (IF Width = 3 /\ Height = 3 THEN {"paper"} ELSE {})

Init ==
    /\ version \in Versions
    /\ idx = 0
    /\ bd = [k \in Cells |-> <<>>]
    /\ good_boards = EmptyBag

CanonicalId(id) ==
    IF version = "paper" THEN PaperIsCanonical(id) ELSE IsCanonical(BoardFromId(id))

SkipClass ==
    /\ idx < max_index
    /\ ~CanonicalId(idx)
    /\ idx' = idx + 1
    /\ UNCHANGED <<version, bd, good_boards>>

\* The failures of Break: of the boards with a letter of each cell, those over
\* the best score, each once.
BoardsOf(b) ==
    LET upTo[k \in 0..NumCells] ==
            IF k = 0 THEN {<<>>}
            ELSE {Append(r, c) : r \in upTo[k - 1], c \in ToSet(b[k])}
    IN  upTo[NumCells]
ClassOf(v, id) ==
    ExpandPartitions(IF v = "paper" THEN PaperFromId(id) ELSE BoardFromId(id))
AllFailures == [v \in Versions |-> [id \in 0..max_index |->
    {r \in BoardsOf(ClassOf(v, id)) : DictionaryScore(r) > BestScore}]]
Failures(id) == AllFailures[version][id]
BreakClass ==
    /\ idx < max_index
    /\ CanonicalId(idx)
    /\ bd' = ClassOf(version, idx)
    /\ good_boards' = good_boards (+) SetToBag(Failures(idx))
    /\ idx' = idx + 1
    /\ UNCHANGED version

Next == SkipClass \/ BreakClass

Spec == Init /\ [][Next]_vars

-----------------------------------------------------------------------------
TypeOK ==
    /\ version \in Versions
    /\ idx \in 0..NumClasses
    /\ bd \in Board
    /\ IsABag(good_boards) /\ BagToSet(good_boards) \subseteq [Cells -> Letters]

\* The symmetries of the grid that the solver scores: cell x, y has index
\* x * Height + y.
GridCell(x, y) == x * Height + y + 1
Mirrored(r) ==
    { r,
      [k \in Cells |-> r[GridCell(Width - 1 - Column(k), Row(k))]],
      [k \in Cells |-> r[GridCell(Column(k), Height - 1 - Row(k))]],
      [k \in Cells |-> r[GridCell(Width - 1 - Column(k), Height - 1 - Row(k))]] }
SameBoards(r) ==
    Mirrored(r) \cup
        IF Width # Height THEN {}
        ELSE Mirrored([k \in Cells |-> r[GridCell(Row(k), Column(k))]])

AllFound(boards) ==
    \A r \in boards : SameBoards(r) \cap BagToSet(good_boards) # {}

\* Classes are skipped when a mirror image has a lower number: by the time the
\* loop has passed a class, each of its boards over the best score is among
\* good_boards, itself or turned or mirrored (board-utils.cc:97).  With the types
\* of all variables.
NothingMissed == TypeOK /\ (idx > 0 => AllFound(Failures(idx - 1)))

\* The letter classes have no letter twice, so that no board is reported twice.
ReportedOnce == \A r \in BagToSet(good_boards) : good_boards[r] = 1

\* Of a board and its analogues IsCanonical accepts one, and Canonicalize of
\* each of them is that one.  The paper version has other images in between and
\* another number for each, and accepts one too.
OneCanonical ==
    idx < NumClasses =>
        IF version = "paper"
        THEN LET b == PaperFromId(idx)
                 all == ToSet(PaperImages(b)) \cup {b}
             IN  Cardinality({d \in all : PaperIsCanonical(PaperBoardId(d))}) = 1
        ELSE LET b == BoardFromId(idx)
                 all == GenerateAnalogues(b) \cup {b}
             IN  \A c \in all : {d \in all : IsCanonical(d)} = {Canonicalize(c)}

-----------------------------------------------------------------------------
\* What the comments promise and the code does not keep.

\* "Returns true if the board is in the "canonoical" rotation/reflection"
\* (board-utils.h:20): when the loop ends no board over the best score is
\* missing, turned or mirrored.  Not so on a board that is not square, where
\* Id and the solver disagree on the place of a cell.
EveryBoardFound ==
    idx = NumClasses =>
        \A id \in 0..(NumClasses - 1) : AllFound(Failures(id))
==============================================================================
