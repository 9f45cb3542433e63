------------------------------ MODULE TreeTool ------------------------------
(***************************************************************************)
(* What ibucket_boggle.cc and tree_tool.cc do with a 3x4 solver: parse a   *)
(* class, have UpperBound build the tree, prune it, attach possibilities,  *)
(* and ask for scores with a letter forced while cells of the solver's own *)
(* board are narrowed and restored (bucket_solver.cc, 3x4/ibuckets.cc,     *)
(* breaking_tree.cc).  The tree is the solver's, and stays when the board  *)
(* changes or a bound is computed without one.                             *)
(***************************************************************************)
EXTENDS BucketBoard

CONSTANTS Q, Words, Null, Visits

INSTANCE BreakingTree

VARIABLES
    root_,             \* the tree, or Null
    pruned, attached,  \* what has been done to it
    treeClass          \* the class that it was built for

treeVars == <<root_, pruned, attached, treeClass>>
toolVars == <<boardVars, treeVars>>

ASSUME TreeAssumption ==
    /\ ListsNeighbours(Visits)
    /\ \A h \in 1..Levels : Null \notin NodesOver(Trees[h - 1])

\* As WordsAssumption.
ASSUME TreeWordsAssumption ==
    \A w \in Words : w \in Seq(ToSet(w)) /\ WordLen(w) \in DOMAIN kWordScores

-----------------------------------------------------------------------------
TreeInit ==
    /\ BoardInit
    /\ root_ = Null
    /\ pruned = FALSE
    /\ attached = FALSE
    /\ treeClass = [k \in Cells |-> <<>>]

BoardStep == BoardNext /\ UNCHANGED treeVars

\* SetBuildTree(true) and UpperBound(): a new tree takes the place of the old.
\* Both tools do so on the class they parsed, before they narrow a cell; later
\* UpperBounds are without build_tree_ and leave root_ alone.
BuildTree ==
    /\ caller = "solve"
    /\ checked
    /\ narrowed = {}
    /\ treeClass' = ClassIn(bd_)
    /\ root_' = Tree(treeClass')
    /\ pruned' = FALSE
    /\ attached' = FALSE
    /\ UNCHANGED boardVars

PruneTree ==
    /\ caller = "solve"
    /\ root_ # Null
    /\ root_' = Prune(root_)
    /\ pruned' = TRUE
    /\ UNCHANGED <<boardVars, attached, treeClass>>

AttachToTree ==
    /\ caller = "solve"
    /\ root_ # Null
    /\ root_' = AttachPossibilities(root_)
    /\ attached' = TRUE
    /\ UNCHANGED <<boardVars, pruned, treeClass>>

TreeNext == BoardStep \/ BuildTree \/ PruneTree \/ AttachToTree

TreeSpec == TreeInit /\ [][TreeNext]_toolVars

-----------------------------------------------------------------------------
TreeTypeOK ==
    /\ BoardTypeOK
    /\ pruned \in BOOLEAN /\ attached \in BOOLEAN
    /\ treeClass \in Board
    /\ (pruned \/ attached) => root_ # Null
    /\ root_ # Null => /\ root_.letter = RootNode
                       /\ root_.bound \in Nat
                       /\ root_.possibilities \subseteq Cells

\* "Recomputed score", before and after Prune, is the max_nomark of the class
\* the tree was built for (ibucket_boggle.cc:69, tree_tool.cc:59).  With the
\* types of all variables.
RecomputedIsBound ==
    /\ TreeTypeOK
    /\ root_ # Null => RecomputeScore(root_) = max_nomark(treeClass)

\* The bounds tree_tool gets from UpperBound for each cell narrowed to each of
\* its letters, for the classes that the tools can load.
NarrowedBounds ==
    [b \in {ClassNamed(t) : t \in {t \in Texts : Legal(t)}} |->
        [k \in Cells |-> [j \in DOMAIN b[k] |->
            max_nomark([b EXCEPT ![k] = <<b[k][j]>>])]]]

\* The two sums that tree_tool prints are equal term by term: the score with a
\* letter forced is the max_nomark of the class that has only this letter in
\* its cell.  In whatever order the tree was pruned and possibilities attached,
\* and whatever the solver's board holds by then.
ForcedIsNarrowed ==
    attached =>
        \A k \in Cells : \A j \in DOMAIN treeClass[k] :
            ScoreWithForce(root_, k, j - 1) = NarrowedBounds[treeClass][k][j]
=============================================================================
