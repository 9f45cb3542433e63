----------------------------- MODULE MultiBoggle -----------------------------
(***************************************************************************)
(* Many 4x4 boards that only differ in two corners, scored together        *)
(* (multi/multiboggle.cc).  SolveTwoHole searches the board with both      *)
(* corners empty and keeps the paths that run into them, FillHole carries  *)
(* on from there with a letter in one corner, and MergeBoards puts two of  *)
(* these together.  What tells new words from old ones is the mark on each *)
(* word of the trie: the number of the run, and its high bit for words     *)
(* that only this call has found, which the call must clear again.         *)
(*                                                                         *)
(* Each call is one step.  extra_words and paths are sets, as their order  *)
(* matters to nothing; used_ is an argument, as DoDFS leaves it as it was. *)
(***************************************************************************)
EXTENDS BoggleBoard

CONSTANTS
    kCellEmpty,
    Boards,            \* what the caller parses
    Fillings,          \* the letters it puts in the corners
    MaxRuns            \* bound on runs_

TL == 1
BR == NumCells
Corners == {TL, BR}

\* The board is one of 4x4, with two corners.
ASSUME CornersAssumption == NumCells \in 2..16

ASSUME BoardsAssumption ==
    /\ Boards \subseteq [Cells -> Letters]
    /\ Fillings \subseteq Letters
    /\ kCellEmpty \notin Letters
    /\ MaxRuns \in Nat

\* IsBoggleWord lets words of letters pass, of three at least, a q for two; and
\* ReconstructLength takes a word of 3 for one of 4, or of 5 if there is none.
ASSUME DictionaryAssumption ==
    /\ Words \subseteq Seq(Letters)
    /\ \A w \in Words : WordLen(w) >= 3
    /\ \E w \in Words : Len(w) = 4

VARIABLES
    bd_,
    word_marks,        \* of each word: the number and the high bit
    runs_,
    two,               \* the caller's TwoHole, or None
    one,               \* its OneHoles, for each corner and letter, or None
    merged             \* what MergeBoards last returned, for which letters

multi == <<bd_, word_marks, runs_, two, one, merged>>

\* The board with these in its corners.
WithCorners(b, c1, c2) == [b EXCEPT ![TL] = c1, ![BR] = c2]

None == [none |-> TRUE]
NoHoles == [k \in Corners |-> [c \in Fillings |-> None]]

-----------------------------------------------------------------------------
\* The high bit of a mark is kept apart here.
Low(n) == [run |-> n, high |-> FALSE]
High(n) == [run |-> n, high |-> TRUE]
MarkHigh(ms, ws) == [w \in Words |-> IF w \in ws THEN High(ms[w].run) ELSE ms[w]]
ClearHigh(ms, ws) == [w \in Words |-> IF w \in ws THEN Low(ms[w].run) ELSE ms[w]]

\* A call of DoDFS on cell k after the letters of t, which it gets the node of
\* with k's letter, or the same node if k is empty.
CallOn(b, k, len, t, used) ==
    IF b[k] = kCellEmpty THEN {[cell |-> k, len |-> len, node |-> t, used |-> used]}
    ELSE IF StartsWord(t, b[k])
    THEN {[cell |-> k, len |-> len, node |-> Append(t, b[k]), used |-> used]}
    ELSE {}

\* The calls that a call makes itself, and all calls that come from the first.
LengthAfter(b, e) == e.len + LetterLen(b[e.cell])
GoesOn(b, e) ==
    IF b[e.cell] = kCellEmpty THEN {}
    ELSE LET marked == Toggle(e.used, e.cell)
         IN  UNION {CallOn(b, n, LengthAfter(b, e), e.node, marked) :
                       n \in ToSet(Visits[e.cell]) \ marked}
DoDFSs(b, first) ==
    LET deep[n \in 0..NumCells] ==
            IF n = 0 THEN first ELSE UNION {GoesOn(b, e) : e \in deep[n - 1]}
    IN  UNION {deep[n] : n \in 0..NumCells}

\* SolveTwoHole starts from each cell, the others from paths into a corner.
FromEachCell(b) == DoDFSs(b, UNION {CallOn(b, k, 0, <<>>, {}) : k \in Cells})
FromPaths(b, k, paths) ==
    DoDFSs(b, UNION {CallOn(b, k, p.len, p.node, p.used) : p \in paths})

\* What they tell the callback: paths into empty cells, and words.
EmptyCell(b, k, calls) ==
    {[len |-> e.len, node |-> e.node, used |-> e.used] :
        e \in {e \in calls : e.cell = k /\ b[k] = kCellEmpty}}
FoundWord(b, calls) ==
    {[len |-> LengthAfter(b, e), node |-> e.node] :
        e \in {e \in calls : b[e.cell] # kCellEmpty /\ IsWord(e.node)}}

\* The words that count: each once, as it is marked by then, and not if it is
\* marked as one that counted before.
WordsOf(found) == {f.node : f \in found}
TwoHoleFinder(ms, mark, found) == {w \in WordsOf(found) : ms[w] # Low(mark)}

\* OneHoleFinder and NoHoleFinder.
HoleFinderAnyMark(ms, mark, found) ==                          \* a mutant
    {w \in WordsOf(found) : ~ms[w].high}
HoleFinder(ms, mark, found) ==
    {w \in WordsOf(found) : ms[w] # Low(mark) /\ ~ms[w].high}

\* The points of words of some lengths, and what the words that count score,
\* each by the length it was found with.
Points(len) == MapThenSumSet(LAMBDA w : kWordScores[len[w]], DOMAIN len)
ScoreFound(found, words) ==
    Points([w \in words |-> (CHOOSE f \in found : f.node = w).len])

\* ReconstructLength goes by addresses: in a trie compacted breadth first a word
\* is not after the last one of n letters if there is one and it has no more.
NotAfter(w, n) == Len(w) <= n /\ \E v \in Words : Len(v) = n
ReconstructLength(w) ==
    IF NotAfter(w, 4) THEN (IF NotAfter(w, 3) THEN 3 ELSE 4)
    ELSE Min({n \in 5..16 : NotAfter(w, n)})

-----------------------------------------------------------------------------
MultiInit ==
    /\ bd_ \in Boards
    /\ word_marks = [w \in Words |-> Low(0)]
    /\ runs_ = 0
    /\ two = None
    /\ one = NoHoles
    /\ merged = None

\* ParseBoard, or SetCell for some cells; what was solved is of no more use.
ParseBoards ==
    /\ bd_' \in Boards
    /\ two' = None
    /\ one' = NoHoles
    /\ merged' = None
    /\ UNCHANGED <<word_marks, runs_>>

\* SetAllMarks(dict, 0) and a new MultiBoggle on the same trie.
NewMultiBoggle ==
    /\ word_marks' = [w \in Words |-> Low(0)]
    /\ runs_' = 0
    /\ bd_' \in Boards
    /\ two' = None
    /\ one' = NoHoles
    /\ merged' = None

\* What SolveTwoHole leaves in its argument and in the marks.
SolvedTwoHole(b, run) ==
    LET calls == FromEachCell(b)
        found == FoundWord(b, calls)
        new == TwoHoleFinder(word_marks, run, found)
    IN  [two |-> [score |-> ScoreFound(found, new), trie_mark |-> run,
                  paths |-> [k \in Corners |-> EmptyCell(b, k, calls)]],
         marks |-> [w \in Words |-> IF w \in new THEN Low(run) ELSE word_marks[w]]]

SolveTwoHole ==
    /\ runs_ < MaxRuns
    /\ runs_' = runs_ + 1
    /\ bd_' = WithCorners(bd_, kCellEmpty, kCellEmpty)
    /\ LET solved == SolvedTwoHole(bd_', runs_')
       IN  two' = solved.two /\ word_marks' = solved.marks
    /\ one' = NoHoles
    /\ merged' = None

\* FillHole: the finder's destructor clears the high bits.
Opposite(k) == TL + BR - k
FilledHole(b, k) ==
    LET calls == FromPaths(b, k, two.paths[k])
        found == FoundWord(b, calls)
        new == HoleFinder(word_marks, two.trie_mark, found)
    IN  [one |-> [extra_score |-> ScoreFound(found, new), extra_words |-> new,
                  paths |-> EmptyCell(b, Opposite(k), calls)],
         marks |-> ClearHigh(MarkHigh(word_marks, new), new)]

FillHole ==
    /\ two # None
    /\ \E k \in Corners, c \in Fillings :
        /\ one[k][c] = None
        /\ bd_' = IF k = TL THEN WithCorners(bd_, c, kCellEmpty)
                  ELSE WithCorners(bd_, kCellEmpty, c)
        /\ LET filled == FilledHole(bd_', k)
           IN  /\ one' = [one EXCEPT ![k][c] = filled.one]
               /\ word_marks' = filled.marks
    /\ UNCHANGED <<runs_, two, merged>>

\* The words that both corners have found are in both scores.
CountedTwiceIgnored(bd1, bd2) == {}                            \* a mutant
CountedTwice(bd1, bd2) == bd1.extra_words \cap bd2.extra_words

\* The high bits that MergeBoards clears before it returns.
MarkedHighBefore(bd1, bd2, new) ==                             \* a mutant
    bd1.extra_words \cup bd2.extra_words
MarkedHigh(bd1, bd2, new) == bd1.extra_words \cup bd2.extra_words \cup new

Merged(b, bd1, bd2) ==
    LET ms == MarkHigh(word_marks, bd1.extra_words \cup bd2.extra_words)
        found == FoundWord(b, FromPaths(b, BR, bd1.paths)
                              \cup FromPaths(b, TL, bd2.paths))
        new == HoleFinder(ms, two.trie_mark, found)
    IN  [score |-> two.score + bd1.extra_score + bd2.extra_score
             - Points([w \in CountedTwice(bd1, bd2) |-> ReconstructLength(w)])
             + ScoreFound(found, new),
         marks |-> ClearHigh(MarkHigh(ms, new), MarkedHigh(bd1, bd2, new))]

MergeBoards ==
    /\ two # None
    /\ \E c1, c2 \in Fillings :
        /\ one[TL][c1] # None
        /\ one[BR][c2] # None
        /\ bd_' = WithCorners(bd_, c1, c2)
        /\ LET both == Merged(bd_', one[TL][c1], one[BR][c2])
           IN  /\ merged' = [c1 |-> c1, c2 |-> c2, score |-> both.score]
               /\ word_marks' = both.marks
    /\ UNCHANGED <<runs_, two, one>>

MultiNext == ParseBoards \/ NewMultiBoggle \/ SolveTwoHole \/ FillHole \/ MergeBoards

MultiSpec == MultiInit /\ [][MultiNext]_multi

-----------------------------------------------------------------------------
\* A path into an empty cell is of the letters before it.
IsHolePath(p) ==
    p.node \in Nodes /\ p.len = WordLen(p.node) /\ p.used \subseteq Cells

MultiTypeOK ==
    /\ bd_ \in [Cells -> Letters \cup {kCellEmpty}]
    /\ word_marks \in [Words -> [run : 0..runs_, high : BOOLEAN]]
    /\ runs_ \in 0..MaxRuns
    /\ two # None => /\ two.score \in Nat /\ two.trie_mark = runs_
                     /\ \A k \in Corners : \A p \in two.paths[k] :
                            IsHolePath(p) /\ p.used \cap Corners = {}
    /\ \A k \in Corners, c \in Fillings : one[k][c] # None =>
           /\ one[k][c].extra_score \in Nat /\ one[k][c].extra_words \subseteq Words
           /\ \A p \in one[k][c].paths : IsHolePath(p) /\ p.used \cap Corners = {k}
    /\ merged # None => merged.score \in Int

\* The reference: what can be found on the board with these corners.
OnBoard(c1, c2) == {w \in Words : Found(WithCorners(bd_, c1, c2), w)}
ScoreOf(words) == MapThenSumSet(WordScore, words)

\* The marks between calls say which words the board without its corners has,
\* and nothing else: no call leaves a high bit behind, and no word of an earlier
\* board passes for one of this (multiboggle.cc:189).  With the types of all
\* variables.
MarksAreTheBoards ==
    /\ MultiTypeOK
    /\ two # None =>
          /\ {w \in Words : word_marks[w] = Low(two.trie_mark)} =
                 OnBoard(kCellEmpty, kCellEmpty)
          /\ \A w \in Words : ~word_marks[w].high

\* "The process can be terminated at any intermediate step to get partial
\* results" (multiboggle.h:22): these are the scores of the board without its
\* corners and of the ones with one of them, whichever was filled before.
PartialScoresExact ==
    two # None =>
        /\ two.score = ScoreOf(OnBoard(kCellEmpty, kCellEmpty))
        /\ \A c \in Fillings :
            /\ one[TL][c] # None =>
                 two.score + one[TL][c].extra_score = ScoreOf(OnBoard(c, kCellEmpty))
            /\ one[BR][c] # None =>
                 two.score + one[BR][c].extra_score = ScoreOf(OnBoard(kCellEmpty, c))

\* "Returns the score of the full board" (multiboggle.h:67), in whatever order
\* holes are filled and boards merged: but not when both corners find a word
\* with a q, whose length ReconstructLength gets wrong, as its comment says.
MergedScoreExact ==
    merged # None =>
        LET twice == one[TL][merged.c1].extra_words \cap one[BR][merged.c2].extra_words
        IN  \/ merged.score = ScoreOf(OnBoard(merged.c1, merged.c2))
            \/ \E w \in twice : Q \in ToSet(w)
==============================================================================
