------------------------------ MODULE Neighbors ------------------------------
(***************************************************************************)
(* EditDistance (neighbors.cc) on one board of main's list: print what d   *)
(* edits and swaps make of it.  Every level of the recursion works on the  *)
(* one buffer c, and each must leave it as it was for the loops of the     *)
(* level above to go on.                                                   *)
(*                                                                         *)
(* A level is a frame of the stack, with its place in the two pairs of     *)
(* loops.  Cells and letters are counted from 1.                           *)
(***************************************************************************)
EXTENDS Integers, Sequences, FiniteSets, SequencesExt

CONSTANTS
    NumLetters,        \* 26
    Seeds,             \* boards
    Depths             \* --d

Alphabet == 1..NumLetters

\* With d below 1 the recursion has no end; one letter leaves nothing to edit.
ASSUME SeedsAssumption ==
    /\ NumLetters \in Nat
    /\ Seeds \subseteq Seq(Alphabet) \ {<<>>}
    /\ Depths \subseteq Nat \ {0}

VARIABLES
    seed, depth,       \* the arguments of the first call
    c,                 \* the buffer
    stack,             \* the calls, the first one first
    printed            \* the boards given to puts

bufferVars == <<seed, depth, c, stack, printed>>

Cells == DOMAIN seed
NumCells == Len(seed)

-----------------------------------------------------------------------------
\* A level at the head of its loops.  In the edits x is cell and y is let; in
\* the swaps they are cell1 and cell2.  orig is what cell x held, orig2 cell y;
\* entry is the buffer when the level was called, which the code does not keep.
EditsFrom(entry, d, board, x) ==
    [d |-> d, entry |-> entry, loop |-> "edits", x |-> x, y |-> 1,
     orig |-> board[x], orig2 |-> board[x], undo |-> FALSE]
SwapsPastNext(entry, d, board, x) ==                           \* a mutant
    [d |-> d, entry |-> entry, loop |-> "swaps", x |-> x, y |-> x + 2,
     orig |-> board[x], orig2 |-> board[x], undo |-> FALSE]
SwapsFrom(entry, d, board, x) ==
    [d |-> d, entry |-> entry, loop |-> "swaps", x |-> x, y |-> x + 1,
     orig |-> board[x], orig2 |-> board[x], undo |-> FALSE]

Call(board, d) == EditsFrom(board, d, board, 1)

BufferInit ==
    /\ seed \in Seeds
    /\ depth \in Depths
    /\ c = seed
    /\ stack = <<Call(seed, depth)>>
    /\ printed = <<>>

Top == Last(stack)
Running(loop) == stack # <<>> /\ Top.loop = loop /\ ~Top.undo
ReplaceTop(f) == Append(Front(stack), f)

\* The innermost level prints the board, the others call the next level for it.
PutsOrCalls(board, next) ==
    IF Top.d = 1
    THEN printed' = Append(printed, board) /\ stack' = ReplaceTop(next)
    ELSE /\ printed' = printed
         /\ stack' = Append(ReplaceTop(next), Call(board, Top.d - 1))

\* c[cell] = let
Edit ==
    /\ Running("edits")
    /\ Top.y \in Alphabet
    /\ Top.y # Top.orig
    /\ c' = [c EXCEPT ![Top.x] = Top.y]
    /\ PutsOrCalls(c', [Top EXCEPT !.y = @ + 1])
    /\ UNCHANGED <<seed, depth>>

SkipLetter ==
    /\ Running("edits")
    /\ Top.y \in Alphabet
    /\ Top.y = Top.orig
    /\ stack' = ReplaceTop([Top EXCEPT !.y = @ + 1])
    /\ UNCHANGED <<seed, depth, c, printed>>

\* c[cell] = orig, and on to the next cell or to the swaps.
EndCellUnrestored ==                                           \* a mutant
    /\ Running("edits")
    /\ Top.y > NumLetters
    /\ c' = c
    /\ stack' = ReplaceTop(IF Top.x < NumCells
                           THEN EditsFrom(Top.entry, Top.d, c', Top.x + 1)
                           ELSE SwapsFrom(Top.entry, Top.d, c', 1))
    /\ UNCHANGED <<seed, depth, printed>>
EndCell ==
    /\ Running("edits")
    /\ Top.y > NumLetters
    /\ c' = [c EXCEPT ![Top.x] = Top.orig]
    /\ stack' = ReplaceTop(IF Top.x < NumCells
                           THEN EditsFrom(Top.entry, Top.d, c', Top.x + 1)
                           ELSE SwapsFrom(Top.entry, Top.d, c', 1))
    /\ UNCHANGED <<seed, depth, printed>>

\* c[cell2] = orig, c[cell1] = orig2; cell2 is put back afterwards, cell1 not
\* before all of its swaps are done.
SwapCells ==
    /\ Running("swaps")
    /\ Top.x \in Cells /\ Top.y \in Cells
    /\ c[Top.y] # Top.orig
    /\ c' = [c EXCEPT ![Top.y] = Top.orig, ![Top.x] = c[Top.y]]
    /\ PutsOrCalls(c', [Top EXCEPT !.orig2 = c[Top.y], !.undo = TRUE])
    /\ UNCHANGED <<seed, depth>>

SkipEqual ==
    /\ Running("swaps")
    /\ Top.x \in Cells /\ Top.y \in Cells
    /\ c[Top.y] = Top.orig
    /\ stack' = ReplaceTop([Top EXCEPT !.y = @ + 1])
    /\ UNCHANGED <<seed, depth, c, printed>>

\* c[cell2] = orig2, when the board is printed or the call has returned.
UndoSwap ==
    /\ stack # <<>>
    /\ Top.undo
    /\ c' = [c EXCEPT ![Top.y] = Top.orig2]
    /\ stack' = ReplaceTop([Top EXCEPT !.y = @ + 1, !.undo = FALSE])
    /\ UNCHANGED <<seed, depth, printed>>

\* c[cell1] = orig, and on to the next one; after the last the level returns.
EndRow ==
    /\ Running("swaps")
    /\ Top.y > NumCells
    /\ c' = [c EXCEPT ![Top.x] = Top.orig]
    /\ stack' = IF Top.x < NumCells
                THEN ReplaceTop(SwapsFrom(Top.entry, Top.d, c', Top.x + 1))
                ELSE Front(stack)
    /\ UNCHANGED <<seed, depth, printed>>

BufferNext == Edit \/ SkipLetter \/ EndCell \/ SwapCells \/ SkipEqual \/ UndoSwap \/ EndRow

BufferSpec == BufferInit /\ [][BufferNext]_bufferVars

-----------------------------------------------------------------------------
TheBoards == [Cells -> Alphabet]

BufferTypeOK ==
    /\ seed \in Seeds /\ depth \in Depths
    /\ c \in TheBoards
    /\ printed \in Seq(TheBoards)
    /\ Len(stack) <= depth
    /\ \A i \in DOMAIN stack :
        /\ stack[i].d = depth - i + 1
        /\ stack[i].entry \in TheBoards
        /\ stack[i].loop \in {"edits", "swaps"} /\ stack[i].undo \in BOOLEAN
        /\ stack[i].x \in Cells /\ stack[i].y \in Nat
        /\ stack[i].orig \in Alphabet /\ stack[i].orig2 \in Alphabet

\* "Leaves the board unaltered upon returning" (neighbors.cc:24): at every
\* moment, so also when a call has just returned, the buffer that a level sees
\* is its own board with the one letter changed or the two cells swapped that it
\* has got to; between two swaps cell1 still holds what the last one put there.
\* With the types of all variables.
Below(i) == IF i < Len(stack) THEN stack[i + 1].entry ELSE c
LastLetter(f) ==
    LET tried == (1..(f.y - 1)) \ {f.orig}
    IN  IF tried = {} THEN f.orig ELSE Max(tried)
MadeOf(f) ==
    IF f.loop = "edits" THEN [f.entry EXCEPT ![f.x] = LastLetter(f)]
    ELSE [f.entry EXCEPT ![f.x] = f.entry[f.y], ![f.y] = f.orig]
RestoresBoard ==
    /\ BufferTypeOK
    /\ stack = <<>> => c = seed
    /\ \A i \in DOMAIN stack :
        LET f == stack[i]
        IN  IF f.loop = "edits" \/ f.undo THEN Below(i) = MadeOf(f)
            ELSE \A k \in Cells \ {f.x} : Below(i)[k] = f.entry[k]

\* What can be made of a board by one edit or swap.
NextTo(a, b) ==
    LET differ == {k \in Cells : a[k] # b[k]}
    IN  \/ Cardinality(differ) = 1
        \/ \E k, m \in differ : /\ k # m /\ differ = {k, m}
                                /\ a[k] = b[m] /\ a[m] = b[k]
Within[d \in Nat] ==
    IF d = 0 THEN {seed}
    ELSE LET near == Within[d - 1]
         IN  near \cup {b \in TheBoards : \E a \in near : NextTo(a, b)}

\* "Print all boards an edit distance of <= d from c" (neighbors.cc:23): no
\* board in reach is missing and no other is printed, though the code only
\* prints what exactly d changes make, each of one board into another.  The
\* seed itself is printed from d = 2 on.
EveryBoardInReach ==
    stack = <<>> => /\ ToSet(printed) \cup {seed} = Within[depth]
                    /\ seed \in ToSet(printed) <=> depth > 1

=============================================================================
