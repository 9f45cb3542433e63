------------------------------- MODULE Boggler -------------------------------
(***************************************************************************)
(* BoggleSolver (boggle_solver.cc) with the search of 3x3/boggler.cc,      *)
(* 3x4/boggler.cc and 4x4/boggler.cc: the score of a single board.  The    *)
(* recursion of DoDFS is a stack of frames.  Words are told apart by the   *)
(* marks that the searches leave on the nodes of the trie: a word counts   *)
(* when its mark is not the number of this run.                            *)
(***************************************************************************)
EXTENDS BoggleBoard

CONSTANTS
    Strings,           \* the strings that callers parse
    Run,               \* unsigned int runs_ counts modulo Run
    MaxBoards          \* bound on num_boards_

ASSUME StringsAssumption == \A s \in Strings : s \in Seq(ToSet(s))

ASSUME RunAssumption == Run \in Nat \ {0} /\ MaxBoards \in Nat

\* The boards scored do not wrap runs_.  It is no assumption of the model: after
\* 2^32 boards the code meets marks that it takes for its own.
RunsDoNotWrap == MaxBoards < Run

VARIABLES
    pc,                \* "idle", "search", or "done" until the board changes
    bd,                \* bd_
    used,              \* used_
    marks,             \* Mark() of each word's node
    runs,              \* runs_
    score,             \* score_
    num_boards,        \* num_boards_
    returned,          \* what Score last returned
    root,              \* the i of InternalScore
    stack              \* the calls of DoDFS in progress, outermost first

vars == <<pc, bd, used, marks, runs, score, num_boards, returned, root, stack>>

Frame == [cell : Cells, len : Nat, node : Nodes, todo : Seq(Cells)]

\* A solver is scored once a board has been parsed.
Init ==
    /\ pc = "idle"
    /\ bd \in {s \in Strings : Len(s) = NumCells /\ ToSet(s) \subseteq Letters}
    /\ used = {}
    /\ marks = [w \in Words |-> 0]
    /\ runs = 0
    /\ score = 0
    /\ num_boards = 0
    /\ returned = 0
    /\ root = 1
    /\ stack = <<>>

-----------------------------------------------------------------------------
\* ParseBoard sets cell after cell up to the first character that is no letter.
GoodPrefix(s) ==
    LET bad == {i \in DOMAIN s : s[i] \notin Letters}
    IN  IF bad = {} THEN Len(s) ELSE Min(bad) - 1
Parses(s) == Len(s) = NumCells /\ GoodPrefix(s) = NumCells
Parsed(s) ==
    IF Len(s) # NumCells THEN bd
    ELSE [k \in Cells |-> IF k <= GoodPrefix(s) THEN s[k] ELSE bd[k]]

ParseBoard ==
    /\ pc # "search"
    /\ \E s \in Strings : bd' = Parsed(s)
    /\ pc' = "idle"
    /\ UNCHANGED <<used, marks, runs, score, num_boards, returned, root, stack>>

\* Score(): the next run, from InternalScore's first cell.
NextRun(n) == (n + 1) % Run
StartRun ==
    /\ pc' = "search"
    /\ runs' = NextRun(runs)
    /\ used' = {}
    /\ score' = 0
    /\ root' = 1
    /\ stack' = <<>>

Score ==
    /\ pc # "search"
    /\ num_boards < MaxBoards
    /\ StartRun
    /\ UNCHANGED <<bd, marks, num_boards, returned>>

\* Score(lets)
ScoreString ==
    /\ pc # "search"
    /\ num_boards < MaxBoards
    /\ \E s \in Strings :
          /\ bd' = Parsed(s)
          /\ IF Parses(s)
             THEN StartRun /\ UNCHANGED returned
             ELSE /\ returned' = -1
                  /\ pc' = "idle"
                  /\ UNCHANGED <<runs, used, score, root, stack>>
    /\ UNCHANGED <<marks, num_boards>>

\* The word at node t scores, unless this run has marked it.
FreshSinceEver(t) == IsWord(t) /\ marks[t] = 0                 \* a mutant
Fresh(t) == IsWord(t) /\ marks[t] # runs

\* DoDFS down to its first visit, called from the calls in rest.
DoDFS(k, len, t, rest) ==
    LET node == Append(t, bd[k])
        length == len + LetterLen(bd[k])
    IN  /\ used' = Toggle(used, k)
        /\ IF Fresh(node)
           THEN /\ marks' = [marks EXCEPT ![node] = runs]
                /\ score' = score + kWordScores[length]
           ELSE UNCHANGED <<marks, score>>
        /\ stack' = Append(rest, [cell |-> k, len |-> length, node |-> node,
                                  todo |-> Visits[k]])

\* InternalScore, one round of its loop.
StartRoot ==
    /\ pc = "search"
    /\ stack = <<>>
    /\ root <= NumCells
    /\ root' = root + 1
    /\ IF StartsWord(<<>>, bd[root]) THEN DoDFS(root, 0, <<>>, <<>>)
       ELSE UNCHANGED <<used, marks, score, stack>>
    /\ UNCHANGED <<pc, bd, runs, num_boards, returned>>

EndScore ==
    /\ pc = "search"
    /\ stack = <<>>
    /\ root > NumCells
    /\ pc' = "done"
    /\ num_boards' = num_boards + 1
    /\ returned' = score
    /\ UNCHANGED <<bd, used, marks, runs, score, root, stack>>

Top == Last(stack)
Rest == Front(stack)

\* DoDFS, one visit to a neighbour.
VisitNeighbour ==
    /\ pc = "search"
    /\ stack # <<>>
    /\ Top.todo # <<>>
    /\ LET n == Head(Top.todo)
           next == Append(Rest, [Top EXCEPT !.todo = Tail(@)])
       IN  IF n \notin used /\ StartsWord(Top.node, bd[n])
           THEN DoDFS(n, Top.len, Top.node, next)
           ELSE stack' = next /\ UNCHANGED <<used, marks, score>>
    /\ UNCHANGED <<pc, bd, runs, num_boards, returned, root>>

EndDFS ==
    /\ pc = "search"
    /\ stack # <<>>
    /\ Top.todo = <<>>
    /\ used' = Toggle(used, Top.cell)
    /\ stack' = Rest
    /\ UNCHANGED <<pc, bd, marks, runs, score, num_boards, returned, root>>

Search == StartRoot \/ VisitNeighbour \/ EndDFS \/ EndScore
Next == ParseBoard \/ Score \/ ScoreString \/ Search

Spec == Init /\ [][Next]_vars

-----------------------------------------------------------------------------
TypeOK ==
    /\ pc \in {"idle", "search", "done"}
    /\ bd \in [Cells -> Letters]
    /\ used \subseteq Cells
    /\ marks \in [Words -> 0..(Run - 1)]
    /\ runs \in 0..(Run - 1)
    /\ score \in Nat
    /\ num_boards \in 0..MaxBoards
    /\ returned \in Nat \cup {-1}
    /\ root \in 1..(NumCells + 1)
    /\ stack \in Seq(Frame)

\* used_ is toggled, never assigned, during a search: it holds the cells of
\* the calls in progress, each in one call, which spell the node reached.
PathInUse ==
    /\ used = {stack[n].cell : n \in DOMAIN stack}
    /\ Cardinality(used) = Len(stack)
    /\ \A n \in DOMAIN stack :
          /\ stack[n].node = [m \in 1..n |-> bd[stack[m].cell]]
          /\ stack[n].len = WordLen(stack[n].node)

\* "Scores the current board." (boggle_solver.h:26): what Score returns is the
\* score of the board, whatever marks earlier runs left on the trie and whatever
\* a failed ParseBoard left on the board.
ScoreExact == pc = "done" => returned = DictionaryScore(bd)

\* Until the number of runs wraps, score_ is the score of the words that this
\* run has marked: each word found so far once, and no other.
ScoreIsMarked ==
    pc # "idle" =>
        score = MapThenSumSet(WordScore, {w \in Words : marks[w] = runs})

\* All of it, with the types of all variables: used_, the node, the length and
\* the score always agree with the calls in progress (4x4/boggler.cc:24).
PathTracked == TypeOK /\ PathInUse /\ ScoreIsMarked
==============================================================================
