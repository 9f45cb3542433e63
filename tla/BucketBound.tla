----------------------------- MODULE BucketBound -----------------------------
(***************************************************************************)
(* BucketSolver::UpperBound (bucket_solver.cc) with the search of          *)
(* 3x3/ibuckets.cc, 3x4/ibuckets.cc and 4x4/ibuckets.cc, which differ only *)
(* in the size of the board and in how they list the neighbours of a cell. *)
(* The mutual recursion of DoAllDescents and DoDFS is a stack of frames of *)
(* the two kinds; what they share is the bit set used_, the marks on the   *)
(* nodes of the trie, and the two sums in details_.                        *)
(***************************************************************************)
EXTENDS Scoring

CONSTANTS
    Letters, Dot, Word,
    Visits,            \* the cells DoDFS tries from each cell, in its order
    Boards,            \* the classes the caller loads
    Bailouts,          \* the scores the caller bails out at
    MaxRuns            \* bound on runs_

VARIABLES
    pc,                \* "idle", "search", or "done" until the board changes
    bd,                \* bd_: the class of boards, one sequence for each cell
    used,              \* used_: the bit set, as a set of cells
    marks,             \* Mark() of each word's node
    runs,              \* runs_
    details,           \* details_
    bailout,           \* argument of UpperBound
    root,              \* the i of InternalUpperBound
    stack              \* the calls in progress, outermost first

vars == <<pc, bd, used, marks, runs, details, bailout, root, stack>>

-----------------------------------------------------------------------------
INSTANCE BoardClass WITH Score <- DictionaryScore

\* What DoDFS tries is what touches.
ASSUME VisitsAssumption == ListsNeighbours(Visits)

\* The caller loads boards of letters; the words are of letters too, and no cell
\* that is empty spells one (IsBoggleWord, boggle_solver.cc:34).
ASSUME CallerAssumption ==
    /\ Boards \subseteq Board
    /\ Bailouts \subseteq Nat
    /\ MaxRuns \in Nat
    /\ Dot \notin Letters
    /\ \A w \in Words : ToSet(w) \subseteq Letters

-----------------------------------------------------------------------------
DescentsFrame == [kind : {"descents"}, cell : Cells, len : Nat, node : Nodes,
                  j : Nat, max_score : Nat]
DFSFrame == [kind : {"dfs"}, cell : Cells, len : Nat, node : Nodes,
             todo : Seq(Cells), score : Nat]

DoAllDescents(k, len, t) ==
    [kind |-> "descents", cell |-> k, len |-> len, node |-> t,
     j |-> 1, max_score |-> 0]
DoDFS(k, len, t) ==
    [kind |-> "dfs", cell |-> k, len |-> len, node |-> t,
     todo |-> Visits[k], score |-> 0]

Init ==
    /\ pc = "idle"
    /\ bd \in Boards
    /\ used = {}
    /\ marks = [w \in Words |-> 0]
    /\ runs = 0
    /\ details = [max_nomark |-> 0, sum_union |-> 0]
    /\ bailout = 0
    /\ root = 1
    /\ stack = <<>>

\* The caller parses another class, or overwrites a cell (MutableCell).
SetBoard ==
    /\ pc # "search"
    /\ bd' \in Boards
    /\ pc' = "idle"
    /\ UNCHANGED <<used, marks, runs, details, bailout, root, stack>>

UpperBound ==
    /\ pc # "search"
    /\ runs < MaxRuns
    /\ bailout' \in Bailouts
    /\ details' = [max_nomark |-> 0, sum_union |-> 0]
    /\ used' = {}
    /\ runs' = runs + 1
    /\ root' = 1
    /\ stack' = <<DoAllDescents(1, 0, <<>>)>>
    /\ pc' = "search"
    /\ UNCHANGED <<bd, marks>>

Top == stack[Len(stack)]
Pop == SubSeq(stack, 1, Len(stack) - 1)
IsTop(kind) == pc = "search" /\ Top.kind = kind

\* DoAllDescents, one round of its loop over the letters of the cell.
TryLetter ==
    /\ IsTop("descents")
    /\ Top.j <= Len(bd[Top.cell])
    /\ LET c == bd[Top.cell][Top.j]
           next == Append(Pop, [Top EXCEPT !.j = @ + 1])
       IN  IF StartsWord(Top.node, c)
           THEN /\ stack' = Append(next, DoDFS(Top.cell, Top.len + LetterLen(c),
                                               Append(Top.node, c)))
                /\ used' = Toggle(used, Top.cell)
           ELSE stack' = next /\ UNCHANGED used
    /\ UNCHANGED <<pc, bd, marks, runs, details, bailout, root>>

\* DoDFS, one visit to a neighbour.
VisitNeighbour ==
    /\ IsTop("dfs")
    /\ Top.todo # <<>>
    /\ LET n == Top.todo[1]
           next == Append(Pop, [Top EXCEPT !.todo = Tail(@)])
       IN  stack' = IF n \in used THEN next
                    ELSE Append(next, DoAllDescents(n, Top.len, Top.node))
    /\ UNCHANGED <<pc, bd, used, marks, runs, details, bailout, root>>

\* The frame under the top, given the top's result.
Below == stack[Len(stack) - 1]
Return(frame) == Append(SubSeq(stack, 1, Len(stack) - 2), frame)
Larger(a, b) == IF a >= b THEN a ELSE b

\* Mutants of Fresh: marks of other runs count; no mark does.
FreshSinceEver(t) == IsWord(t) /\ marks[t] = 0
FreshEachTime(t) == IsWord(t)
Fresh(t) == IsWord(t) /\ marks[t] # runs

\* DoDFS returns: a word scores here each time, in sum_union once a run.
EndDFS ==
    /\ IsTop("dfs")
    /\ Top.todo = <<>>
    /\ LET points == IF IsWord(Top.node) THEN kWordScores[Top.len] ELSE 0
       IN  /\ stack' = Return([Below EXCEPT !.max_score =
                                  Larger(Top.score + points, @)])
           /\ IF Fresh(Top.node)
              THEN /\ details' = [details EXCEPT !.sum_union = @ + points]
                   /\ marks' = [marks EXCEPT ![Top.node] = runs]
              ELSE UNCHANGED <<details, marks>>
    /\ used' = Toggle(used, Top.cell)
    /\ UNCHANGED <<pc, bd, runs, bailout, root>>

\* DoAllDescents returns to DoDFS.
EndDescents ==
    /\ IsTop("descents")
    /\ Top.j > Len(bd[Top.cell])
    /\ Len(stack) > 1
    /\ stack' = Return([Below EXCEPT !.score = @ + Top.max_score])
    /\ UNCHANGED <<pc, bd, used, marks, runs, details, bailout, root>>

\* DoAllDescents returns to InternalUpperBound: bail out, go on, or finish.
CanBailOutOnEither(d) ==                                       \* a mutant
    d.max_nomark > bailout \/ d.sum_union > bailout
CanBailOut(d) == d.max_nomark > bailout /\ d.sum_union > bailout
EndRoot ==
    /\ IsTop("descents")
    /\ Top.j > Len(bd[Top.cell])
    /\ Len(stack) = 1
    /\ details' = [details EXCEPT !.max_nomark = @ + Top.max_score]
    /\ IF root = NumCells \/ CanBailOut(details')
       THEN pc' = "done" /\ stack' = <<>> /\ UNCHANGED root
       ELSE /\ root' = root + 1
            /\ stack' = <<DoAllDescents(root + 1, 0, <<>>)>>
            /\ UNCHANGED pc
    /\ UNCHANGED <<bd, used, marks, runs, bailout>>

Search == TryLetter \/ VisitNeighbour \/ EndDFS \/ EndDescents \/ EndRoot
Next == SetBoard \/ UpperBound \/ Search

Spec == Init /\ [][Next]_vars

-----------------------------------------------------------------------------
TypeOK ==
    /\ pc \in {"idle", "search", "done"}
    /\ bd \in Board
    /\ used \subseteq Cells
    /\ marks \in [Words -> 0..runs]
    /\ runs \in 0..MaxRuns
    /\ details \in [max_nomark : Nat, sum_union : Nat]
    /\ bailout \in Bailouts \cup {0}
    /\ root \in Cells
    /\ stack \in Seq(DescentsFrame \cup DFSFrame)

\* The cells of the DoDFS calls in progress: the path of the word so far.
PathCalls == {n \in DOMAIN stack : stack[n].kind = "dfs"}

\* used_ is toggled, never assigned, during a search: it holds exactly the
\* cells of the path, each once, and none is left when the search ends.
UsedIsPath ==
    /\ used = {stack[n].cell : n \in PathCalls}
    /\ Cardinality(used) = Cardinality(PathCalls)

\* The node of a call spells a choice of letters along the path, and its length
\* counts a q for two: kWordScores is indexed with the length of the word.
NodeIsPath ==
    \A n \in PathCalls :
        LET f == stack[n]
            before == {m \in PathCalls : m <= n}
        IN  /\ Len(f.node) = Cardinality(before)
            /\ Last(f.node) \in ToSet(bd[f.cell])
            /\ f.len = WordLen(f.node)

\* Both, with the types of all variables: used_, the node and the length always
\* agree with the calls in progress (4x4/ibuckets.cc:42).
PathTracked == TypeOK /\ UsedIsPath /\ NodeIsPath

\* sum_union counts each word once a run, whatever earlier runs, on other
\* classes or cut short, left in the marks.
UnionCountsMarkedOnce ==
    pc # "idle" =>
        details.sum_union =
            MapThenSumSet(WordScore, {w \in Words : runs > 0 /\ marks[w] = runs})

\* UpperBound's promise to the Breaker (bucket_solver.h:49): see BoardClass.
KeepsContract == pc = "done" => BoundsClass(bd, details, bailout)

\* On a single board and without a bail-out sum_union is the board's score.
ExactOnBoards ==
    (pc = "done" /\ IsSingle(bd) /\ ~CanBailOut(details)) =>
        \A r \in Reps(bd) : details.sum_union = DictionaryScore(r)
=============================================================================
