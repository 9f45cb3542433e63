---------------------------- MODULE BreakingTree ----------------------------
(***************************************************************************)
(* The tree that BucketSolver34 builds as it computes max_nomark           *)
(* (3x4/ibuckets.cc) and its operations (breaking_tree.cc).  A choice node *)
(* has a child for each letter of its cell that goes on, and counts the    *)
(* best of them; any other node has the points of its own word and a       *)
(* choice for each neighbour, and counts their sum.                        *)
(*                                                                         *)
(* Cells are from 1 and letters, as places in their cell, from 0.  The     *)
(* bit set used_, toggled and restored in the code, is an argument here:   *)
(* module BucketBound shows that it is the path.  sum_union is there too.  *)
(* What calls itself in the code is a function here for each number of     *)
(* levels that are left.                                                   *)
(***************************************************************************)
EXTENDS Scoring

CONSTANTS
    Null,              \* a NULL child, or no tree
    Visits             \* the neighbours that DoDFS tries from each cell

RootNode == -2
ChoiceNode == -1

Squares == 1..(Width * Height)

\* The root is over a choice and a letter for each cell of a path.
Levels == 2 * (Width * Height) + 1

\* Trees of at most h levels, NULL among them.
NodesOver(S) == [letter : Int, cell : Nat, points : Nat, bound : Nat,
                 children : Seq(S), possibilities : SUBSET Nat]
Trees[h \in 0..Levels] ==
    {Null} \cup (IF h = 0 THEN {} ELSE NodesOver(Trees[h - 1]))

\* The elements that are not in S, in order.
Without(s, S) ==
    FlattenSeq([i \in DOMAIN s |-> IF s[i] \in S THEN <<>> ELSE <<s[i]>>])

\* What a node scores when its children do.
Combined(letter, points, scores) ==
    IF letter = ChoiceNode THEN Max({0} \cup Range(scores))
    ELSE points + FoldFunction(+, 0, scores)

BoundOf(n) == IF n = Null THEN 0 ELSE n.bound
NewNode(letter, cell, points, children) ==
    [letter |-> letter, cell |-> cell, points |-> points,
     bound |-> Combined(letter, points, [i \in DOMAIN children |-> BoundOf(children[i])]),
     children |-> children, possibilities |-> {}]

-----------------------------------------------------------------------------
\* What DoAllDescents is told; len is the length of the word so far.
Calls == {e \in [cell : Squares, len : Nat, node : Nodes, used : SUBSET Squares] :
              e.len = WordLen(e.node)}

\* DoDFS: no child for a cell on the path.
DoDFS(descents, k, j, len, t, used) ==
    LET onto == Without(Visits[k], used \cup {k})
    IN  NewNode(j, k, IF IsWord(t) THEN kWordScores[len] ELSE 0,
                [i \in DOMAIN onto |->
                    descents[[cell |-> onto[i], len |-> len, node |-> t,
                              used |-> used \cup {k}]]])

\* DoAllDescents: a NULL for each letter that leads nowhere.
DoAllDescents(b, descents, e) ==
    NewNode(ChoiceNode, e.cell, 0,
        [j \in DOMAIN b[e.cell] |->
            LET c == b[e.cell][j]
            IN  IF StartsWord(e.node, c)
                THEN DoDFS(descents, e.cell, j - 1, e.len + LetterLen(c),
                           Append(e.node, c), e.used)
                ELSE Null])

\* With n cells not on the path.
Descents(b) ==
    LET descents[n \in 0..(Width * Height)] ==
            [e \in Calls |->
                IF n = 0 THEN Null ELSE DoAllDescents(b, descents[n - 1], e)]
    IN  descents

\* InternalUpperBound: every cell is a start.  The cell of the root is not
\* initialised, and not read.
Tree(b) ==
    LET descents == Descents(b)[Width * Height]
    IN  NewNode(RootNode, 0, 0,
            [k \in Squares |->
                descents[[cell |-> k, len |-> 0, node |-> <<>>, used |-> {}]]])

\* What UpperBound leaves in max_nomark, with a tree or without.
max_nomark(b) == Tree(b).bound

-----------------------------------------------------------------------------
RecomputeScore(n) ==
    LET score[h \in 0..Levels] == [t \in Trees[h] |->
            IF t = Null THEN 0
            ELSE Combined(t.letter, t.points,
                     [i \in DOMAIN t.children |-> score[h - 1][t.children[i]]])]
    IN  score[Levels][n]

WorthlessWithoutPoints(n) == n.points = 0 /\ n.letter >= 0      \* a mutant
Worthless(n) == n.bound = 0 /\ n.letter # RootNode

\* Prune: the nodes of bound 0 go, with their NULLs; the others move up.
Prune(n) ==
    LET left[h \in 0..Levels] == [t \in Trees[h] |->
            IF t = Null \/ Worthless(t) THEN Null
            ELSE LET children == [i \in DOMAIN t.children |-> left[h - 1][t.children[i]]]
                 IN  [t EXCEPT !.children = Without(children, {Null})]]
    IN  left[Levels][n]

\* AttachPossibilities: the cells that a node or one below it takes a letter of.
OwnPossibility(n) == IF n.letter >= 0 THEN {n.cell} ELSE {}
PossibilitiesOf(n) == IF n = Null THEN {} ELSE n.possibilities
AttachPossibilities(n) ==
    LET done[h \in 0..Levels] == [t \in Trees[h] |->
            IF t = Null THEN Null
            ELSE LET children == [i \in DOMAIN t.children |-> done[h - 1][t.children[i]]]
                 IN  [t EXCEPT !.children = children,
                               !.possibilities = t.possibilities \cup OwnPossibility(t) \cup
                                   UNION {PossibilitiesOf(children[i]) :
                                              i \in DOMAIN children}]]
    IN  done[Levels][n]

\* ScoreWithForce finds the forced letter by its number, not by its place among
\* the children, which Prune changes.  No two children have the same number.
TakenByPlace(n, letter) == {letter + 1} \cap DOMAIN n.children  \* a mutant
Taken(n, letter) ==
    {i \in DOMAIN n.children :
        n.children[i] # Null /\ n.children[i].letter = letter}
Onto(n, cell, letter) ==
    IF n.letter = ChoiceNode /\ n.cell = cell THEN Taken(n, letter)
    ELSE DOMAIN n.children
ScoreWithForce(n, cell, letter) ==
    LET score[h \in 0..Levels] == [t \in Trees[h] |->
            IF t = Null THEN 0
            ELSE IF cell \notin t.possibilities THEN t.bound
            ELSE Combined(t.letter, t.points,
                     [i \in Onto(t, cell, letter) |-> score[h - 1][t.children[i]]])]
    IN  score[Levels][n]
=============================================================================
