----------------------------- MODULE BucketBoard -----------------------------
(***************************************************************************)
(* How text becomes the class of boards that a BucketSolver holds          *)
(* (bucket_solver.cc).  ParseBoard goes through the text one character at  *)
(* a time and writes each straight into the board, so that a text it       *)
(* rejects half way leaves a mixture; the Breaker parses its own           *)
(* as_string back before every split, and the modes of                     *)
(* ibucket_breaker_main.cc differ in whether they look at the result.      *)
(***************************************************************************)
EXTENDS LetterCells

CONSTANTS
    Space, NUL,        \* the other characters that mean something
    CellSize,          \* bytes of a row of bd_ (27)
    Texts,             \* what callers pass to ParseBoard
    MaxLoads           \* bound on how often they do

ASSUME CharactersAssumption ==
    /\ {Space, NUL} \cap (Letters \cup {Dot}) = {}
    /\ Space # NUL

\* A row has room for a '.', and indices_ for each letter of a row.
ASSUME CellSizeAssumption == CellSize \in 2..31

ASSUME TextsAssumption == (\A t \in Texts : t \in Seq(ToSet(t))) /\ MaxLoads \in Nat

Positions == 0..(CellSize - 1)
CellRow == [Positions -> Letters \cup {NUL}]
NoIndex == -1

-----------------------------------------------------------------------------
\* The C string in a row; a row without a NUL would be read on into the next.
Terminated(row) == \E p \in Positions : row[p] = NUL
StrLen(row) ==
    IF Terminated(row)
    THEN CHOOSE p \in Positions :
             row[p] = NUL /\ \A q \in 0..(p - 1) : row[q] # NUL
    ELSE CellSize
CellString(row) == [i \in 1..StrLen(row) |-> row[i - 1]]
ClassIn(rows) == [k \in Cells |-> CellString(rows[k])]

\* strcpy into a row leaves the bytes after the NUL as they were.
StrCpy(row, s) ==
    [p \in Positions |-> IF p < Len(s) THEN s[p + 1]
                         ELSE IF p = Len(s) THEN NUL ELSE row[p]]

\* What ParseBoard has done so far: bd_ and indices_, its locals, and whether
\* it has returned false.
Start(rows) ==
    [rows |-> rows, cell |-> 1, cell_pos |-> 0, idx |-> 0, failed |-> FALSE,
     indices |-> [k \in Cells |-> [p \in 0..31 |-> NoIndex]]]

Rejected(s) == [s EXCEPT !.failed = TRUE]

\* ' ': the cell ends here.
NextCell(s) ==
    IF s.cell_pos = 0 THEN Rejected(s)
    ELSE LET ended == [s EXCEPT !.rows[s.cell][s.cell_pos] = NUL,
                                !.cell = @ + 1, !.cell_pos = 0]
         IN  IF ended.cell > NumCells THEN Rejected(ended) ELSE ended

\* '.': the cell is the empty string, whatever stands before or after.
EmptyCellNumbered(s) ==                                        \* a mutant
    [s EXCEPT !.rows[s.cell][0] = NUL, !.cell_pos = 1, !.idx = @ + 1]
EmptyCell(s) == [s EXCEPT !.rows[s.cell][0] = NUL, !.cell_pos = 1]

\* A letter; indices_ is written after cell_pos has moved on.
PutLetter(s, c) ==
    LET put == [s EXCEPT !.rows[s.cell][s.cell_pos] = c, !.cell_pos = @ + 1,
                         !.indices[s.cell][s.cell_pos + 1] = s.idx,
                         !.idx = @ + 1]
    IN  IF put.cell_pos >= CellSize THEN Rejected(put) ELSE put

OneCharacter(s, c) ==
    IF s.failed THEN s
    ELSE CASE c = Space      -> NextCell(s)
           [] c = Dot        -> EmptyCell(s)
           [] c \in Letters  -> PutLetter(s, c)
           [] OTHER          -> Rejected(s)

\* Before the first character, and after each.
Progress(rows, t) ==
    LET after[i \in 0..Len(t)] ==
            IF i = 0 THEN Start(rows) ELSE OneCharacter(after[i - 1], t[i])
    IN  after

\* After the last character: end the last cell, and see that it is the last.
EndUnchecked(s) ==                                             \* a mutant
    IF s.failed THEN s ELSE [s EXCEPT !.rows[s.cell][s.cell_pos] = NUL]
EndOfText(s) ==
    IF s.failed THEN s
    ELSE LET ended == [s EXCEPT !.rows[s.cell][s.cell_pos] = NUL]
         IN  IF s.cell_pos <= 0 \/ s.cell # NumCells THEN Rejected(ended) ELSE ended

Parse(rows, t) == EndOfText(Progress(rows, t)[Len(t)])

\* as_string: '.' for an empty cell, a space between cells.
AsString(b) ==
    FlattenSeq([k \in Cells |->
        IF k = NumCells THEN CellText(b[k]) ELSE Append(CellText(b[k]), Space)])

\* NumPossibilities, and Possibility of a number below it: the letters of all
\* cells, counted through; a pair of cell and place from 0.
LettersUpTo(b) ==
    LET upTo[k \in 0..NumCells] == IF k = 0 THEN 0 ELSE upTo[k - 1] + Len(b[k])
    IN  upTo
NumPossibilities(b) == LettersUpTo(b)[NumCells]
PossibilityLate(b, i) ==                                       \* a mutant
    LET k == CHOOSE k \in Cells : /\ LettersUpTo(b)[k] >= i
                                  /\ \A j \in 1..(k - 1) : LettersUpTo(b)[j] < i
    IN  <<k, i - LettersUpTo(b)[k - 1]>>
Possibility(b, i) ==
    LET k == CHOOSE k \in Cells : /\ LettersUpTo(b)[k] > i
                                  /\ \A j \in 1..(k - 1) : LettersUpTo(b)[j] <= i
    IN  <<k, i - LettersUpTo(b)[k - 1]>>

-----------------------------------------------------------------------------
VARIABLES
    caller,            \* "idle", "solve": the caller works on it, or "exit"
    bd_,               \* the rows of the solver's board
    indices_,          \* indices_, a row of 32 for each cell
    loads,             \* how many texts ParseBoard was given
    text,              \* the last of them
    parsed,            \* what ParseBoard said of it
    checked,           \* whether the caller looked
    orig_bd,           \* SplitBucket's copy of as_string
    narrowed           \* the cells it has overwritten since it restored it

boardVars == <<caller, bd_, indices_, loads, text, parsed, checked, orig_bd, narrowed>>

\* bd_ is not initialised: the rows hold what was in the memory, here NULs
\* after perhaps one letter.  Before the first parse indices_ has no entries.
BoardInit ==
    /\ caller = "idle"
    /\ bd_ \in {[k \in Cells |-> StrCpy([p \in Positions |-> NUL], s)] :
                    s \in {<<>>} \cup {<<c>> : c \in Letters}}
    /\ indices_ = [k \in Cells |-> [p \in 0..31 |-> NoIndex]]
    /\ loads = 0
    /\ text = <<>>
    /\ parsed = FALSE
    /\ checked = FALSE
    /\ orig_bd = <<>>
    /\ narrowed = {}

Load(t) ==
    LET s == Parse(bd_, t)
    IN  /\ loads < MaxLoads
        /\ loads' = loads + 1
        /\ bd_' = s.rows
        /\ indices_' = s.indices
        /\ text' = t
        /\ parsed' = ~s.failed
        /\ orig_bd' = AsString(ClassIn(s.rows))
        /\ narrowed' = {}

\* --break_class and --run_on_index, ibucket_boggle and tree_tool exit when
\* their text does not parse.
CarryOnUnparsed(t) == "solve"                                  \* a mutant
AfterChecked(t) == IF Parse(bd_, t).failed THEN "exit" ELSE "solve"
LoadChecked ==
    /\ caller = "idle"
    /\ \E t \in Texts : Load(t) /\ caller' = AfterChecked(t)
    /\ checked' = TRUE

\* --break_all and --random_boards go on whatever ParseBoard says.
LoadUnchecked ==
    /\ caller = "idle"
    /\ \E t \in Texts : Load(t)
    /\ caller' = "solve"
    /\ checked' = FALSE

\* SplitBucket puts some of the letters of a cell in its place, tree_tool one
\* letter: strcpy(MutableCell(cell), ...).
Narrow ==
    /\ caller = "solve"
    /\ \E k \in Cells :
        LET s == CellString(bd_[k])
        IN  /\ Len(s) \in 2..(CellSize - 1)
            /\ \E n \in 1..Len(s) : bd_' = [bd_ EXCEPT ![k] = StrCpy(@, <<s[n]>>)]
            /\ narrowed' = narrowed \cup {k}
    /\ UNCHANGED <<caller, indices_, loads, text, parsed, checked, orig_bd>>

\* SplitBucket parses its copy before the next split, and exits if it cannot.
RestoreUnparsed ==                                             \* a mutant
    /\ caller = "solve"
    /\ narrowed # {}
    /\ narrowed' = {}
    /\ UNCHANGED <<caller, bd_, indices_, loads, text, parsed, checked, orig_bd>>
Restore ==
    /\ caller = "solve"
    /\ narrowed # {}
    /\ LET s == Parse(bd_, orig_bd)
       IN  /\ caller' = IF s.failed THEN "exit" ELSE caller
           /\ bd_' = s.rows
           /\ indices_' = s.indices
    /\ narrowed' = {}
    /\ UNCHANGED <<loads, text, parsed, checked, orig_bd>>

\* The caller is done with the class.
Return ==
    /\ caller = "solve"
    /\ caller' = "idle"
    /\ UNCHANGED <<bd_, indices_, loads, text, parsed, checked, orig_bd, narrowed>>

BoardNext == LoadChecked \/ LoadUnchecked \/ Narrow \/ Restore \/ Return

BoardSpec == BoardInit /\ [][BoardNext]_boardVars

-----------------------------------------------------------------------------
\* The reference: "bd is a class of boards with cells delimited by spaces"
\* (bucket_solver.h:29), with '.' for a cell not to go to.  The pieces of a text
\* between its spaces:
WithNext(pieces, c) ==
    IF c = Space THEN Append(pieces, <<>>)
    ELSE [pieces EXCEPT ![Len(pieces)] = Append(@, c)]
PiecesUpTo(t) ==
    LET upTo[i \in 0..Len(t)] ==
            IF i = 0 THEN << <<>> >> ELSE WithNext(upTo[i - 1], t[i])
    IN  upTo
Pieces(t) == PiecesUpTo(t)[Len(t)]
HasDot(piece) == Dot \in ToSet(piece)

\* No letters in a row that a row of bd_ has no room for; a '.' takes a place.
Fits(piece) ==
    \A i, j \in DOMAIN piece :
        (i <= j /\ \A n \in i..j : piece[n] # Dot)
            => (j - i + 1) + (IF i > 1 THEN 1 ELSE 0) < CellSize
NothingHidden(pieces) ==
    \A k \in DOMAIN pieces : HasDot(pieces[k]) => Len(pieces[k]) = 1
Legal(t) ==
    /\ Len(Pieces(t)) = NumCells
    /\ \A k \in Cells :
        LET piece == Pieces(t)[k]
        IN  piece # <<>> /\ ToSet(piece) \subseteq Letters \cup {Dot} /\ Fits(piece)
ClassNamed(t) ==
    [k \in Cells |-> IF HasDot(Pieces(t)[k]) THEN <<>> ELSE Pieces(t)[k]]

BoardTypeOK ==
    /\ caller \in {"idle", "solve", "exit"}
    /\ bd_ \in [Cells -> CellRow]
    /\ indices_ \in [Cells -> [0..31 -> Nat \cup {NoIndex}]]
    /\ loads \in 0..MaxLoads
    /\ text \in Texts \cup {<<>>}
    /\ parsed \in BOOLEAN /\ checked \in BOOLEAN
    /\ orig_bd \in Seq(Letters \cup {Dot, Space})
    /\ narrowed \subseteq Cells

\* ParseBoard accepts the texts that name a class that fits, and no others, and
\* the board is then that class whatever rows and failed parses came before
\* (bucket_solver.cc:39).
ParseExact ==
    /\ parsed <=> Legal(text)
    /\ (parsed /\ narrowed = {} /\ caller = "solve")
           => ClassIn(bd_) = ClassNamed(text)

\* The callers that look at the result never work on a mixture of a text that
\* failed half way and an older board; the others do so only for such a text.
WorksOnItsClass ==
    caller = "solve" =>
        \/ ~checked /\ ~Legal(text)
        \/ /\ Legal(text)
           /\ \A k \in Cells \ narrowed : CellString(bd_[k]) = ClassNamed(text)[k]

\* SplitBucket's exit(1) (ibucket_breaker.cc:158) is never taken on a class that
\* parsed: as_string is text that ParseBoard takes back, and the class is then the
\* one copied, whatever the splits overwrote.
RestoresCopy ==
    /\ caller = "exit" => ~parsed
    /\ (caller = "solve" /\ narrowed = {}) => AsString(ClassIn(bd_)) = orig_bd

\* indices_ is one place late (bucket_solver.cc:69): while no cell has been
\* narrowed and the text had no letter that a '.' hides, PossibilityIndex(cell,
\* letter + 1) is the number of that letter in Possibility's count, and each
\* letter has one of the numbers below NumPossibilities (ibucket_boggle.cc:85).
IndicesOnePlaceLate ==
    (caller = "solve" /\ parsed /\ narrowed = {} /\ NothingHidden(Pieces(text)))
    => \A i \in 0..(NumPossibilities(ClassIn(bd_)) - 1) :
           LET at == Possibility(ClassIn(bd_), i)
           IN  indices_[at[1]][at[2] + 1] = i
=============================================================================
