-------------------------------- MODULE Grid --------------------------------
(***************************************************************************)
(* The cells of a board and their neighbours.  Cell x, y has index         *)
(* x * Height + y (bucket_solver.h, boggle_solver.cc), plus one here.      *)
(* Every search writes its own list of neighbours: loops in 3x4 and in     *)
(* 4x4/ibuckets.cc, unrolled by hand in 3x3 and in 4x4/boggler.cc.         *)
(***************************************************************************)
EXTENDS Integers, Sequences, FiniteSets, SequencesExt

CONSTANTS Width, Height

ASSUME GridAssumption == Width \in Nat \ {0} /\ Height \in Nat \ {0}

Column(k) == (k - 1) \div Height
Row(k) == (k - 1) % Height
Adjacent(k, n) ==
    /\ Column(n) \in (Column(k) - 1)..(Column(k) + 1)
    /\ Row(n) \in (Row(k) - 1)..(Row(k) + 1)

\* A list of visits: for each cell a sequence of those that touch it, each once,
\* and perhaps the cell itself, which is in used_ by then.
ListsNeighbours(visits) ==
    /\ visits \in [1..(Width * Height) -> Seq(1..(Width * Height))]
    /\ \A k \in 1..(Width * Height) :
        /\ ToSet(visits[k]) \cup {k} =
               {n \in 1..(Width * Height) : Adjacent(k, n)}
        /\ IsInjective(visits[k])

\* The loops over dx and dy.
LoopVisits == [k \in 1..(Width * Height) |->
    FlattenSeq([i \in 1..9 |->
        LET x == Column(k) + ((i - 1) \div 3) - 1
            y == Row(k) + ((i - 1) % 3) - 1
        IN  IF x \in 0..(Width - 1) /\ y \in 0..(Height - 1)
            THEN <<x * Height + y + 1>> ELSE <<>>])]

\* 3x4/boggler.cc leaves out the cell itself.
OtherLoopVisits ==
    [k \in 1..(Width * Height) |-> SelectSeq(LoopVisits[k], LAMBDA n : n # k)]

\* The macros and the unrolled switches.
HIT(x, y) == <<x * Height + y + 1>>
HIT3x(x, y) == HIT(x, y) \o HIT(x + 1, y) \o HIT(x + 2, y)
HIT3y(x, y) == HIT(x, y) \o HIT(x, y + 1) \o HIT(x, y + 2)
HIT8(x, y) == HIT3x(x - 1, y - 1) \o HIT(x - 1, y) \o HIT(x + 1, y)
                  \o HIT3x(x - 1, y + 1)

SwitchVisits3 == <<
    HIT(0, 1) \o HIT(1, 0) \o HIT(1, 1),
    HIT(0, 0) \o HIT3y(1, 0) \o HIT(0, 2),
    HIT(0, 1) \o HIT(1, 1) \o HIT(1, 2),
    HIT(0, 0) \o HIT(2, 0) \o HIT3x(0, 1),
    HIT8(1, 1),
    HIT3x(0, 1) \o HIT(0, 2) \o HIT(2, 2),
    HIT(1, 0) \o HIT(1, 1) \o HIT(2, 1),
    HIT3y(1, 0) \o HIT(2, 0) \o HIT(2, 2),
    HIT(1, 2) \o HIT(1, 1) \o HIT(2, 1) >>

SwitchVisits4 == <<
    HIT(0, 1) \o HIT(1, 0) \o HIT(1, 1),
    HIT(0, 0) \o HIT3y(1, 0) \o HIT(0, 2),
    HIT(0, 1) \o HIT3y(1, 1) \o HIT(0, 3),
    HIT(0, 2) \o HIT(1, 2) \o HIT(1, 3),
    HIT(0, 0) \o HIT(2, 0) \o HIT3x(0, 1),
    HIT8(1, 1),
    HIT8(1, 2),
    HIT3x(0, 2) \o HIT(0, 3) \o HIT(2, 3),
    HIT(1, 0) \o HIT(3, 0) \o HIT3x(1, 1),
    HIT8(2, 1),
    HIT8(2, 2),
    HIT3x(1, 2) \o HIT(1, 3) \o HIT(3, 3),
    HIT(2, 0) \o HIT(2, 1) \o HIT(3, 1),
    HIT3y(2, 0) \o HIT(3, 0) \o HIT(3, 2),
    HIT3y(2, 1) \o HIT(3, 1) \o HIT(3, 3),
    HIT(2, 2) \o HIT(3, 2) \o HIT(2, 3) >>
=============================================================================
