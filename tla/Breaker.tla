------------------------------- MODULE Breaker -------------------------------
(***************************************************************************)
(* The Breaker of ibucket_breaker.cc: decides whether any board of a class *)
(* beats the best known score.  AttackBoard asks the solver for an upper   *)
(* bound on the whole class; if the bound does not settle it, SplitBucket  *)
(* splits the letters of one cell and attacks each part, recursively.      *)
(* The recursion is an explicit stack here, with one frame per SplitBucket *)
(* in progress, because the solver's board is shared by all of them: each  *)
(* overwrites it and restores it from its own copy, orig_bd.               *)
(*                                                                         *)
(* The solver is abstracted to the contract of its UpperBound, which       *)
(* module BucketBound derives.                                             *)
(***************************************************************************)
EXTENDS BoardClass

CONSTANTS
    BestScore,         \* best_score_
    MaxBound,          \* largest value of a bound (bounds the model)
    FullLen,           \* a cell of this many letters (26) is split as ...
    FullSplits,        \* ... these fixed groups,
    ChunkLen,          \* one of this many or more (9) into quarters
    Classes,           \* the classes the caller parses
    PickOrders,        \* the orders the caller passes to SetPickOrder
    RecordProgress,    \* options_.record_progress
    MaxConsidered      \* bound on boards_considered

ASSUME ScoreAssumption ==
    /\ BestScore \in Nat
    /\ MaxBound \in Nat
    /\ \A b \in SingleBoard : Score(b) \in Nat

VARIABLES
    pc,                \* where the one thread is
    bd,                \* the solver's board
    order,             \* order_
    stack,             \* the SplitBucket calls in progress, outermost first
    details,           \* *details_
    elim, orig_reps,   \* elim_, orig_reps_
    orig               \* local of Break: the class it was called on

vars == <<pc, bd, order, stack, details, elim, orig_reps, orig>>

-----------------------------------------------------------------------------
\* The constructor sorts the cells by their distance to (Width/2, Height/2)
\* (doubled and squared here), then by their id y * Width + x.
Distance(k) ==
    LET x == (k - 1) % Width
        y == (k - 1) \div Width
        dx == 2 * x - Width
        dy == 2 * y - Height
    IN  dx * dx + dy * dy
Before(j, k) == Distance(j) < Distance(k) \/ (Distance(j) = Distance(k) /\ j < k)
DefaultOrder ==
    [i \in Cells |->
        CHOOSE k \in Cells : Cardinality({j \in Cells : Before(j, k)}) = i - 1]

\* SetPickOrder only counts the distinct entries.
AcceptsOrder(o) == Cardinality(ToSet(o)) = NumCells

\* PickABucket: the first cell of the order with several letters; the scan
\* stops after cells_ entries.  With none, the code goes on to read Cell(-1)
\* and splits what it finds there, but SplitBucket looks at the -1 first.
NoCell == 0
SplittableOverTwo(b) == {i \in Cells : Len(b[order[i]]) > 2}    \* a mutant
Splittable(b) == {i \in Cells : Len(b[order[i]]) > 1}
PickedCell(b) ==
    IF Splittable(b) = {} THEN NoCell
    ELSE order[CHOOSE i \in Splittable(b) : \A j \in Splittable(b) : i <= j]

\* Letter i (from 0) goes to quarter 4*i \div len, so quarter q starts after
\* the first Ceil(q * len / 4) letters.
QuarterStartTruncated(s, q) == q * (Len(s) \div 4)             \* a mutant
QuarterStart(s, q) == (q * Len(s) + 3) \div 4
Quarters(s) ==
    [q \in 1..4 |-> SubSeq(s, QuarterStart(s, q - 1) + 1, QuarterStart(s, q))]
\* Mutants of Singletons: the last letter is shed; it is taken twice.
SingletonsShed(s) == <<SubSeq(s, 1, Len(s) - 1), <<s[Len(s)]>>>>
SingletonsTwice(s) == Append([i \in 1..Len(s) |-> <<s[i]>>], <<s[Len(s)]>>)
Singletons(s) == [i \in 1..Len(s) |-> <<s[i]>>]
SplitsOf(s) ==
    IF Len(s) = FullLen THEN FullSplits
    ELSE IF Len(s) >= ChunkLen THEN Quarters(s)
    ELSE Singletons(s)

\* The letters a full cell has: the fixed groups are right for no other.
FullLetters == UNION {ToSet(FullSplits[i]) : i \in DOMAIN FullSplits}

\* A cell the breaker splits without loss: no longer than ParseBoard lets it
\* be, and with all the letters of the groups if it has as many as they.
CellOK(s) ==
    /\ s \in Seq(Letters)
    /\ Len(s) <= FullLen
    /\ Len(s) = FullLen => ToSet(s) = FullLetters

\* A scan of the first cells_ entries of the order sees every cell.
CoversCells(o) ==
    /\ o \in Seq(Cells)
    /\ Len(o) >= NumCells
    /\ \A k \in Cells : \E i \in Cells : o[i] = k

\* The last of it says that a quarter is not split into quarters again.
ASSUME SplitAssumption ==
    /\ ChunkLen \in Nat /\ ChunkLen >= 4
    /\ FullLen \in Nat
    /\ FullSplits \in Seq(Seq(Letters))
    /\ \A i \in DOMAIN FullSplits : Len(FullSplits[i]) \in 1..(FullLen - 1)
    /\ FullLen <= 4 * ChunkLen - 3

ASSUME ClassesAssumption ==
    \A b \in Classes : b \in Board /\ \A k \in Cells : CellOK(b[k])

\* What SetPickOrder's comment asks of the caller, less what Break can do
\* without.  It is no assumption of the model: SetPickOrder does not check it.
OrdersCoverCells ==
    \A o \in PickOrders : AcceptsOrder(o) => CoversCells(o)

\* Letters are not repeated in a cell, nor in or between the fixed groups.  It
\* is no assumption of the model either: ParseBoard does not check it.
NoLetterTwice ==
    /\ \A b \in Classes : \A k \in Cells : IsInjective(b[k])
    /\ \A i \in DOMAIN FullSplits : IsInjective(FullSplits[i])
    /\ \A i, j \in DOMAIN FullSplits :
          i # j => ToSet(FullSplits[i]) \cap ToSet(FullSplits[j]) = {}

-----------------------------------------------------------------------------
\* What the solver may leave in Details() when asked for a bound on class b.
ScoreDetails == [max_nomark : 0..MaxBound, sum_union : 0..MaxBound]
UpperBound(b) == {d \in ScoreDetails : BoundsClass(b, d, BestScore)}

-----------------------------------------------------------------------------
Frame == [orig_bd : Board, cell : Cells, splits : Seq(Seq(Letters)),
          i : Nat \ {0}]

Details ==
    [max_depth : Nat, num_reps : 0..(Word - 1), sum_wins : Nat, max_wins : Nat,
     failures : Seq(Seq(Letters \cup {Dot})), boards_considered : Seq(Board)]
NoDetails == [max_depth |-> 0, num_reps |-> 0, sum_wins |-> 0, max_wins |-> 0,
              failures |-> <<>>, boards_considered |-> <<>>]

Init ==
    /\ pc = "idle"
    /\ bd \in Classes
    /\ order = DefaultOrder
    /\ stack = <<>>
    /\ details = NoDetails
    /\ elim = 0
    /\ orig_reps = 0
    /\ orig = bd

Idle == pc \in {"idle", "done"}

\* The caller loads another class; a parse error is the caller's business.
ParseBoard ==
    /\ Idle
    /\ bd' \in Classes
    /\ UNCHANGED <<pc, order, stack, details, elim, orig_reps, orig>>

SetPickOrder ==
    /\ Idle
    /\ \E o \in PickOrders :
          IF AcceptsOrder(o) THEN order' = o /\ UNCHANGED pc
          ELSE pc' = "exit" /\ UNCHANGED order
    /\ UNCHANGED <<bd, stack, details, elim, orig_reps, orig>>

\* The details are the caller's and may have been used before; Break resets
\* them all but boards_considered.
ResetDetailsKeepsFailures ==                                   \* a mutant
    [NoDetails EXCEPT !.boards_considered = details.boards_considered,
                      !.failures = details.failures]
ResetDetails ==
    [NoDetails EXCEPT !.boards_considered = details.boards_considered]
Break ==
    /\ Idle
    /\ Len(details.boards_considered) < MaxConsidered
    /\ pc' = "attack"
    /\ orig' = bd
    /\ details' = ResetDetails
    /\ elim' = 0
    /\ orig_reps' = NumReps(bd)
    /\ UNCHANGED <<bd, order, stack>>

Considered ==
    IF RecordProgress THEN Append(details.boards_considered, bd)
    ELSE details.boards_considered

\* The level argument of the call in progress.
Level == Len(stack)

\* AttackBoard, the bound settles the class.
Eliminate ==
    /\ pc = "attack"
    /\ \E d \in UpperBound(bd) :
          /\ Bound(d) <= BestScore
          /\ details' = [details EXCEPT
                !.boards_considered = Considered,
                !.max_wins = @ + (IF d.max_nomark <= d.sum_union THEN 1 ELSE 0),
                !.sum_wins = @ + (IF d.max_nomark <= d.sum_union THEN 0 ELSE 1),
                !.max_depth = IF Level > @ THEN Level ELSE @]
    /\ elim' = (elim + NumReps(bd)) % Word
    /\ pc' = "return"
    /\ UNCHANGED <<bd, order, stack, orig_reps, orig>>

\* AttackBoard calls SplitBucket, which finds no cell to split.
Fail ==
    /\ pc = "attack"
    /\ \E d \in UpperBound(bd) : Bound(d) > BestScore
    /\ PickedCell(bd) = NoCell
    /\ details' = [details EXCEPT
          !.boards_considered = Considered,
          !.failures = Append(@, BoardText(bd))]
    /\ pc' = "return"
    /\ UNCHANGED <<bd, order, stack, elim, orig_reps, orig>>

\* AttackBoard calls SplitBucket, which copies the board and enters its loop.
Split ==
    /\ pc = "attack"
    /\ \E d \in UpperBound(bd) : Bound(d) > BestScore
    /\ PickedCell(bd) # NoCell
    /\ details' = [details EXCEPT !.boards_considered = Considered]
    /\ stack' = Append(stack, [orig_bd |-> bd, cell |-> PickedCell(bd),
                               splits |-> SplitsOf(bd[PickedCell(bd)]), i |-> 1])
    /\ pc' = "return"
    /\ UNCHANGED <<bd, order, elim, orig_reps, orig>>

Top == stack[Len(stack)]
BelowTop == SubSeq(stack, 1, Len(stack) - 1)

\* The board a frame attacks next: its own copy, with a part of the cell.
SplitBoard(f, j) == [f.orig_bd EXCEPT ![f.cell] = f.splits[j]]

\* Parse orig_bd back into the solver, put the next part in the cell.
NextBoardUnparsed == [bd EXCEPT ![Top.cell] = Top.splits[Top.i]]  \* a mutant
NextBoard == SplitBoard(Top, Top.i)

\* One round of the loop of SplitBucket.
TakeSplit ==
    /\ pc = "return"
    /\ stack # <<>>
    /\ Top.i <= Len(Top.splits)
    /\ bd' = NextBoard
    /\ stack' = Append(BelowTop, [Top EXCEPT !.i = @ + 1])
    /\ pc' = "attack"
    /\ UNCHANGED <<order, details, elim, orig_reps, orig>>

EndSplitsTooLate ==                                            \* a mutant
    /\ pc = "return"
    /\ stack # <<>>
    /\ Top.i > Len(Top.splits) + 1
    /\ stack' = BelowTop
    /\ UNCHANGED <<pc, bd, order, details, elim, orig_reps, orig>>

\* The loop is over: SplitBucket returns to the frame below.
EndSplits ==
    /\ pc = "return"
    /\ stack # <<>>
    /\ Top.i > Len(Top.splits)
    /\ stack' = BelowTop
    /\ UNCHANGED <<pc, bd, order, details, elim, orig_reps, orig>>

\* Break's AttackBoard has returned.
EndBreak ==
    /\ pc = "return"
    /\ stack = <<>>
    /\ details' = [details EXCEPT !.num_reps = orig_reps]
    /\ pc' = "done"
    /\ UNCHANGED <<bd, order, stack, elim, orig_reps, orig>>

Breaking == Eliminate \/ Fail \/ Split \/ TakeSplit \/ EndSplits \/ EndBreak
Next == ParseBoard \/ SetPickOrder \/ Break \/ Breaking

\* One thread runs Break to its end: nothing can hold it up in between.
Spec == Init /\ [][Next]_vars /\ WF_vars(Breaking)

-----------------------------------------------------------------------------
TypeOK ==
    /\ pc \in {"idle", "attack", "return", "done", "exit"}
    /\ bd \in Board
    /\ order \in Seq(Cells)
    /\ stack \in Seq(Frame)
    /\ details \in Details
    /\ elim \in 0..(Word - 1)
    /\ orig_reps \in 0..(Word - 1)
    /\ orig \in Board

-----------------------------------------------------------------------------
Hot(S) == {r \in S : Score(r) > BestScore}
Failures == ToSet(details.failures)

\* The boards not examined yet: those of the board under attack and those of
\* the splits each frame has still to take.
Remaining(f) == f.i..Len(f.splits)
FramePending(f) == UNION {Reps(SplitBoard(f, j)) : j \in Remaining(f)}
StackPending(st) == UNION {FramePending(st[n]) : n \in DOMAIN st}
Pending == (IF pc = "attack" THEN Reps(bd) ELSE {}) \cup StackPending(stack)

InProgress == pc \in {"attack", "return"}

\* Break never loses a board that beats the best score: through every split,
\* restore and return it is reported, under attack, or in a split still to be
\* taken (Breaker::SplitBucket, AttackBoard).
NothingLost ==
    InProgress => Hot(Reps(orig)) \subseteq Failures \cup Pending

\* When Break returns, details->failures holds exactly the boards of the class
\* it was called on that beat the best score.
FailuresExact == pc = "done" => Failures = Hot(Reps(orig))

\* Break reports no board twice, whatever the details held before.
NoDuplicateFailures ==
    \A i, j \in DOMAIN details.failures :
        details.failures[i] = details.failures[j] => i = j

\* The counts add up, in the machine's arithmetic: elim_, one for each failure
\* and the boards still to be examined make orig_reps_.  PrintDetails takes
\* num_reps - failures.size() for the number of boards broken.  (A "." cell
\* makes NumReps zero, though bucket_solver.h:44 has it count the boards.)
FrameReps(f) ==
    FoldFunction(+, 0, [j \in Remaining(f) |-> NumReps(SplitBoard(f, j))])
StackReps(st) == FoldFunction(+, 0, [n \in DOMAIN st |-> FrameReps(st[n])])
RepsPending == (IF pc = "attack" THEN NumReps(bd) ELSE 0) + StackReps(stack)
RepsAccounted ==
    (pc \in {"attack", "return", "done"} /\ \A k \in Cells : orig[k] # <<>>) =>
        (elim + Len(details.failures) + RepsPending) % Word = orig_reps

\* The recursion shares one solver board.  At each attack the board is a
\* refinement of the split last taken in every open frame: outside the cell a
\* frame splits, no letter that an inner frame removed stays removed.
Narrower(b, c) == \A k \in Cells : ToSet(b[k]) \subseteq ToSet(c[k])
FramesNest ==
    /\ pc = "attack" =>
         \A n \in DOMAIN stack :
            Narrower(bd, SplitBoard(stack[n], stack[n].i - 1))
    /\ pc = "attack" /\ stack # <<>> => bd = SplitBoard(Top, Top.i - 1)
    /\ \A m, n \in DOMAIN stack : m < n =>
            Narrower(stack[n].orig_bd, SplitBoard(stack[m], stack[m].i - 1))

\* The recursion, whose frames each copy the board to the C stack, is no deeper
\* than the splits the cells allow: 26 letters take three, 9 take two.
SplitDepth(s) ==
    IF Len(s) = FullLen THEN 3
    ELSE IF Len(s) >= ChunkLen THEN 2
    ELSE IF Len(s) > 1 THEN 1 ELSE 0
BoardDepth(b) == MapThenSumSet(LAMBDA k : SplitDepth(b[k]), Cells)
DepthBound ==
    pc = "attack" => Len(stack) + BoardDepth(bd) <= BoardDepth(orig)

\* With record_progress, one Break on fresh details considers no class twice
\* (ibucket_breaker.h, boards_considered).
ConsideredOnce ==
    \A i, j \in DOMAIN details.boards_considered :
        details.boards_considered[i] = details.boards_considered[j] => i = j

\* Every Break ends.
Terminates == (pc = "attack") ~> (pc = "done")

\* Break implements the abstract search.
phase == IF InProgress THEN "searching" ELSE pc
Search == INSTANCE ClassSearch WITH
              Boards <- SingleBoard, class <- Reps(orig),
              pending <- Pending, found <- Failures
ImplementsSearch == Search!Spec

-----------------------------------------------------------------------------
\* SplitBucket reports what it cannot split with the comment "should be a board
\* at this point" (ibucket_breaker.cc:132): one character for each cell.
FailuresAreBoards ==
    \A i \in DOMAIN details.failures : Len(details.failures[i]) = NumCells
=============================================================================
