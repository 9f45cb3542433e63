---------------------------- MODULE BreakerProofs ----------------------------
(***************************************************************************)
(* Proofs about Breaker, for every board size, alphabet, score function,   *)
(* threshold and set of classes; from "What ParseBoard does with one       *)
(* character" on, about BucketBoard, the board that a Breaker narrows and  *)
(* restores, for every set of texts; and, from "What the tree is made of"  *)
(* on, about TreeTool, for every dictionary.                               *)
(***************************************************************************)
EXTENDS Breaker, TreeTool, DataTheorems

-----------------------------------------------------------------------------
(* Boards and their classes. *)

\* The cells of a board are positions of the board.
LEMMA CellsType == NumCells \in Nat \ {0} /\ Cells = 1..NumCells
<1>1. ASSUME NEW w \in Nat \ {0}, NEW h \in Nat \ {0} PROVE w * h \in Nat \ {0}
  OBVIOUS
<1> QED
  BY <1>1, SizeAssumption DEF NumCells, Cells

\* There are finitely many.
LEMMA CellsFinite == IsFiniteSet(Cells) /\ Cardinality(Cells) = NumCells
  BY CellsType, FS_Interval

\* Reps(b) is the set of the boards with one letter of each cell.
LEMMA RepsMember ==
    ASSUME NEW b \in Board
    PROVE  Reps(b) = {r \in SingleBoard : \A k \in Cells : r[k] \in LettersOf(b[k])}
<1>1. ASSUME NEW k \in Cells PROVE LettersOf(b[k]) \subseteq Letters \cup {Dot}
  <2>1. b[k] \in Seq(Letters)
    BY <1>1 DEF Board
  <2> QED
    BY <2>1 DEF LettersOf, ToSet
<1>2. ASSUME NEW r \in Reps(b)
      PROVE  r \in SingleBoard /\ \A k \in Cells : r[k] \in LettersOf(b[k])
  BY <1>1, <1>2 DEF Reps, SingleBoard
<1>3. ASSUME NEW r \in SingleBoard, \A k \in Cells : r[k] \in LettersOf(b[k])
      PROVE  r \in Reps(b)
  <2>1. r \in [Cells -> UNION {LettersOf(b[k]) : k \in Cells}]
    BY <1>3 DEF SingleBoard
  <2> QED
    BY <2>1, <1>3 DEF Reps
<1> QED
  BY <1>2, <1>3

\* A class whose cells have at most one letter is one board: its text.
LEMMA SingleReps ==
    ASSUME NEW b \in Board, IsSingle(b)
    PROVE  Reps(b) = {BoardText(b)} /\ BoardText(b) \in SingleBoard
<1> DEFINE t == [k \in Cells |-> CellText(b[k])[1]]
<1>1. BoardText(b) = t
  BY DEF BoardText
<1>2. ASSUME NEW k \in Cells
      PROVE  LettersOf(b[k]) = {t[k]} /\ t[k] \in Letters \cup {Dot}
  <2>1. b[k] \in Seq(Letters) /\ Len(b[k]) <= 1
    BY <1>2 DEF Board, IsSingle
  <2>2. CASE b[k] = <<>>
    BY <2>2 DEF LettersOf, CellText
  <2>3. CASE b[k] # <<>>
    <3>1. Len(b[k]) = 1 /\ DOMAIN b[k] = 1..1 /\ b[k][1] \in Letters
      <4>1. Len(b[k]) \in Nat \ {0}
        BY <2>1, <2>3, EmptySeq
      <4>2. Len(b[k]) = 1
        <5>1. \A n \in Nat \ {0} : n <= 1 => n = 1
          OBVIOUS
        <5> QED
          BY ONLY <2>1, <4>1, <5>1
      <4>3. DOMAIN b[k] = 1..Len(b[k])
        BY <2>1, LenProperties
      <4>4. b[k][1] \in Letters
        BY <2>1, <4>2, ElementOfSeq
      <4> QED
        BY <4>2, <4>3, <4>4
    <3> QED
      BY <3>1, <2>3 DEF LettersOf, CellText, ToSet
  <2> QED
    BY <2>2, <2>3
<1>3. t \in SingleBoard
  BY <1>2 DEF SingleBoard
<1>4. ASSUME NEW r \in Reps(b) PROVE r = t
  BY <1>2, <1>4, RepsMember DEF SingleBoard
<1>5. t \in Reps(b)
  BY <1>2, <1>3, RepsMember
<1> QED
  BY <1>1, <1>3, <1>4, <1>5

-----------------------------------------------------------------------------
(* NumReps is a machine word.  The provers have no induction, so both the   *)
(* existence of the recursive function and the bound on its values are      *)
(* shown by the least counterexample.                                       *)

\* The products that the loop of NumReps goes through, each in a machine word.
RepsUpto(f, b) ==
    /\ f \in [0..NumCells -> 0..(Word - 1)]
    /\ f[0] = 1 % Word
    /\ \A k \in Cells : f[k] = (f[k - 1] * Len(b[k])) % Word

\* NumReps is the last of them.
LEMMA NumRepsSteps ==
    ASSUME NEW b \in Board
    PROVE  \E f : RepsUpto(f, b) /\ NumReps(b) = f[NumCells]
<1> DEFINE N == NumCells
           W == 0..(Word - 1)
           Step(f, k) == IF k = 0 THEN 1 % Word ELSE (f[k - 1] * Len(b[k])) % Word
           Upto(f, n) == f \in [0..n -> W] /\ \A k \in 0..n : f[k] = Step(f, k)
<1>1. N \in Nat /\ N \in 0..N
  BY CellsType
<1>2. \A k \in 1..N : Len(b[k]) \in Nat
  BY CellsType, LenProperties DEF Board
<1>3. \A x \in Nat : x % Word \in W
  BY WordAssumption
<1>4. \A x, y \in Nat : (x * y) % Word \in W
  <2>1. \A x, y \in Nat : x * y \in Nat
    OBVIOUS
  <2> QED
    BY <1>3, <2>1
<1>5. 0..N \subseteq {n \in 0..N : \E f : Upto(f, n)}
  <2> DEFINE T == {n \in 0..N : \E f : Upto(f, n)}
  <2>1. 0 \in T
    <3> DEFINE f == [k \in 0..0 |-> 1 % Word]
    <3>1. 1 % Word \in W
      BY <1>3
    <3>2. Upto(f, 0)
      BY <3>1
    <3>3. 0 \in 0..N
      BY <1>1
    <3> HIDE DEF f, Upto
    <3> QED
      BY <3>2, <3>3
  <2>2. ASSUME NEW n \in 0..N, n \in T, n < N PROVE n + 1 \in T
    <3>1. PICK f : Upto(f, n)
      BY <2>2
    <3> DEFINE v == (f[n] * Len(b[n + 1])) % Word
               g == [k \in 0..(n + 1) |-> IF k = n + 1 THEN v ELSE f[k]]
    <3>2. n \in 0..n /\ n + 1 \in 1..N /\ n + 1 \in 0..N
      BY <1>1, <2>2
    <3>3. v \in W
      <4>1. f[n] \in W
        BY <3>1, <3>2
      <4>2. W \subseteq Nat
        OBVIOUS
      <4> QED
        BY <1>2, <1>4, <3>2, <4>1, <4>2
    <3> HIDE DEF v
    <3>4. \A k \in 0..(n + 1) : k # n + 1 => k \in 0..n
      BY <2>2
    <3>5. g \in [0..(n + 1) -> W]
      BY <3>1, <3>3, <3>4
    <3>6. ASSUME NEW k \in 0..(n + 1) PROVE g[k] = Step(g, k)
      <4>1. CASE k = 0
        <5>1. k \in 0..n /\ k # n + 1
          BY <2>2, <4>1
        <5> QED
          BY <3>1, <4>1, <5>1
      <4>2. CASE k # 0 /\ k # n + 1
        <5>1. k \in 0..n /\ k - 1 \in 0..(n + 1) /\ k - 1 # n + 1
          BY <2>2, <3>4, <3>6, <4>2
        <5>2. g[k] = f[k] /\ g[k - 1] = f[k - 1]
          BY <5>1, <3>6, <4>2
        <5> QED
          BY <3>1, <4>2, <5>1, <5>2
      <4>3. CASE k = n + 1
        <5>1. k # 0 /\ k - 1 = n /\ n \in 0..(n + 1) /\ n # n + 1
          BY <2>2, <4>3
        <5>2. g[n] = f[n] /\ g[k] = v
          BY <5>1, <4>3, <3>6
        <5> QED
          BY <4>3, <5>1, <5>2 DEF v
      <4> QED
        BY <4>1, <4>2, <4>3
    <3>7. Upto(g, n + 1)
      BY <3>5, <3>6
    <3> QED
      BY <3>2, <3>7
  <2> HIDE DEF T
  <2>3. 0..N \subseteq T
    BY <1>1, <2>1, <2>2, UpTo
  <2> QED
    BY <2>3 DEF T
<1>6. PICK f : Upto(f, N)
  BY <1>1, <1>5
<1> DEFINE reps[k \in 0..NumCells] ==
              IF k = 0 THEN 1 % Word ELSE (reps[k - 1] * Len(b[k])) % Word
<1>7. NumReps(b) = reps[N]
  BY DEF NumReps
<1>8. reps = [k \in 0..N |-> Step(reps, k)]
  <2>1. f = [k \in 0..N |-> Step(f, k)]
    BY <1>6
  <2> QED
    BY <2>1
<1> HIDE DEF reps
<1>9. 0..N \subseteq {k \in 0..N : reps[k] \in W}
  <2> DEFINE T == {k \in 0..N : reps[k] \in W}
  <2>1. 0 \in T
    <3>1. 0 \in 0..N /\ reps[0] = 1 % Word
      BY <1>1, <1>8
    <3> QED
      BY <1>3, <3>1
  <2>2. ASSUME NEW n \in 0..N, n \in T, n < N PROVE n + 1 \in T
    <3>1. n + 1 \in 1..N /\ n + 1 \in 0..N /\ n + 1 # 0 /\ (n + 1) - 1 = n
      BY <1>1, <2>2
    <3>2. reps[n + 1] = (reps[n] * Len(b[n + 1])) % Word
      BY <1>8, <3>1
    <3>3. reps[n] \in Nat
      BY <2>2
    <3> QED
      BY <1>2, <1>4, <3>1, <3>2, <3>3
  <2> HIDE DEF T
  <2>3. 0..N \subseteq T
    BY <1>1, <2>1, <2>2, UpTo
  <2> QED
    BY <2>3 DEF T
<1>10. reps \in [0..N -> W] /\ reps[0] = 1 % Word
  <2>1. 0 \in 0..N
    BY <1>1
  <2> QED
    BY <1>8, <1>9, <2>1
<1>11. ASSUME NEW k \in Cells PROVE reps[k] = (reps[k - 1] * Len(b[k])) % Word
  <2>1. k \in 0..N /\ k # 0
    BY <1>11, CellsType
  <2> QED
    BY <1>8, <2>1
<1> QED
  BY <1>7, <1>10, <1>11 DEF RepsUpto

\* NumReps is a value of the machine word, whatever the lengths multiply to.
LEMMA NumRepsType == ASSUME NEW b \in Board PROVE NumReps(b) \in 0..(Word - 1)
<1>1. PICK f : RepsUpto(f, b) /\ NumReps(b) = f[NumCells]
  BY NumRepsSteps
<1>2. NumCells \in 0..NumCells
  BY CellsType
<1> QED
  BY <1>1, <1>2 DEF RepsUpto

-----------------------------------------------------------------------------
(* Splitting a cell. *)

\* The fixed groups of a full cell: each non-empty, shorter than the cell,
\* and between them exactly its letters.
LEMMA FullSplitsCover ==
    ASSUME NEW s, CellOK(s), Len(s) = FullLen
    PROVE  /\ FullSplits \in Seq(Seq(Letters))
           /\ \A j \in 1..Len(FullSplits) :
                /\ CellOK(FullSplits[j])
                /\ FullSplits[j] # <<>>
                /\ ToSet(FullSplits[j]) \subseteq ToSet(s)
           /\ \A x \in ToSet(s) :
                \E j \in 1..Len(FullSplits) : x \in ToSet(FullSplits[j])
<1>1. FullSplits \in Seq(Seq(Letters)) /\ DOMAIN FullSplits = 1..Len(FullSplits)
  BY SplitAssumption, LenProperties
<1>2. ToSet(s) = UNION {ToSet(FullSplits[i]) : i \in 1..Len(FullSplits)}
  BY <1>1 DEF CellOK, FullLetters
<1>3. ASSUME NEW j \in 1..Len(FullSplits)
      PROVE  CellOK(FullSplits[j]) /\ FullSplits[j] # <<>>
  <2>1. FullSplits[j] \in Seq(Letters) /\ Len(FullSplits[j]) \in 1..(FullLen - 1)
    BY <1>1, <1>3, ElementOfSeq, SplitAssumption
  <2> QED
    BY <2>1, SplitAssumption, EmptySeq DEF CellOK
<1> QED
  BY <1>1, <1>2, <1>3

\* The singletons of a cell.
LEMMA SingletonsCover ==
    ASSUME NEW s, CellOK(s), Len(s) > 1
    PROVE  /\ Singletons(s) \in Seq(Seq(Letters))
           /\ Len(Singletons(s)) = Len(s)
           /\ \A j \in 1..Len(s) :
                /\ CellOK(Singletons(s)[j])
                /\ Singletons(s)[j] # <<>>
                /\ ToSet(Singletons(s)[j]) \subseteq ToSet(s)
           /\ \A x \in ToSet(s) :
                \E j \in 1..Len(s) : x \in ToSet(Singletons(s)[j])
<1>1. /\ s \in Seq(Letters) /\ Len(s) \in Nat /\ DOMAIN s = 1..Len(s)
      /\ \A i \in 1..Len(s) : s[i] \in Letters
  BY LenProperties, ElementOfSeq DEF CellOK
<1>2. ASSUME NEW i \in 1..Len(s)
      PROVE  /\ Singletons(s)[i] = <<s[i]>>
             /\ <<s[i]>> \in Seq(Letters) /\ Len(<<s[i]>>) = 1
             /\ ToSet(<<s[i]>>) = {s[i]}
  <2>1. Singletons(s)[i] = <<s[i]>>
    BY <1>2 DEF Singletons
  <2>2. <<s[i]>> \in Seq(Letters) /\ Len(<<s[i]>>) = 1
    BY <1>1, <1>2
  <2>3. ToSet(<<s[i]>>) = {s[i]}
    BY DEF ToSet
  <2> QED
    BY <2>1, <2>2, <2>3
<1>3. Singletons(s) \in Seq(Seq(Letters)) /\ Len(Singletons(s)) = Len(s)
  <2>1. Singletons(s) \in [1..Len(s) -> Seq(Letters)]
    BY <1>2 DEF Singletons
  <2> QED
    BY <2>1, <1>1
<1>4. ASSUME NEW j \in 1..Len(s) PROVE CellOK(<<s[j]>>)
  <2>1. FullLen \in Nat /\ FullLen > 1
    <3>1. \A m, n \in Nat : m > 1 /\ m <= n => n > 1
      OBVIOUS
    <3>2. FullLen \in Nat /\ Len(s) <= FullLen
      BY SplitAssumption DEF CellOK
    <3> QED
      BY <1>1, <3>1, <3>2
  <2>2. <<s[j]>> \in Seq(Letters) /\ Len(<<s[j]>>) = 1
    BY <1>2, <1>4
  <2> QED
    BY <2>1, <2>2 DEF CellOK
<1>5. \A x \in ToSet(s) : \E j \in 1..Len(s) : x = s[j]
  BY <1>1 DEF ToSet
<1>6. \A j \in 1..Len(s) : s[j] \in ToSet(s)
  BY <1>1 DEF ToSet
<1>7. \A j \in 1..Len(s) : <<s[j]>> # <<>>
  OBVIOUS
<1> QED
  BY ZenonT(40), <1>2, <1>3, <1>4, <1>5, <1>6, <1>7

\* Quarter boundaries: they start at 0, end at the length, and leave no
\* quarter of four letters or more empty.
LEMMA QuarterBounds ==
    ASSUME NEW s, Len(s) \in Nat, Len(s) >= 4
    PROVE  /\ QuarterStart(s, 0) = 0
           /\ QuarterStart(s, 4) = Len(s)
           /\ \A q \in 0..4 : QuarterStart(s, q) \in 0..Len(s)
           /\ \A q \in 1..4 : QuarterStart(s, q - 1) < QuarterStart(s, q)
<1> DEFINE n == Len(s)
<1>1. /\ QuarterStart(s, 0) = 3 \div 4
      /\ QuarterStart(s, 1) = (n + 3) \div 4
      /\ QuarterStart(s, 2) = (2 * n + 3) \div 4
      /\ QuarterStart(s, 3) = (3 * n + 3) \div 4
      /\ QuarterStart(s, 4) = (4 * n + 3) \div 4
  BY DEF QuarterStart
<1> HIDE DEF n
<1>2. n \in Nat /\ n >= 4
  BY DEF n
<1>3. /\ 3 \div 4 = 0 /\ (4 * n + 3) \div 4 = n
      /\ (n + 3) \div 4 \in 1..n
      /\ (2 * n + 3) \div 4 \in 1..n
      /\ (3 * n + 3) \div 4 \in 1..n
      /\ (n + 3) \div 4 < (2 * n + 3) \div 4
      /\ (2 * n + 3) \div 4 < (3 * n + 3) \div 4
      /\ (3 * n + 3) \div 4 < n
  BY <1>2
<1>4. \A q \in 0..4 : QuarterStart(s, q) \in 0..n
  BY <1>1, <1>2, <1>3
<1>5. \A q \in 1..4 : QuarterStart(s, q - 1) < QuarterStart(s, q)
  BY <1>1, <1>2, <1>3
<1> QED
  BY <1>1, <1>3, <1>4, <1>5 DEF n

\* A quarter holds the letters from its start up to that of the next one.
LEMMA QuarterLetters ==
    ASSUME NEW s, s \in Seq(Letters), Len(s) >= 4, NEW j \in 1..4
    PROVE  /\ Quarters(s)[j] = SubSeq(s, QuarterStart(s, j - 1) + 1, QuarterStart(s, j))
           /\ Quarters(s)[j] \in Seq(Letters)
           /\ Len(Quarters(s)[j]) = QuarterStart(s, j) - QuarterStart(s, j - 1)
           /\ \A i \in 1..(QuarterStart(s, j) - QuarterStart(s, j - 1)) :
                 Quarters(s)[j][i] = s[QuarterStart(s, j - 1) + i]
<1> DEFINE At(q) == QuarterStart(s, q)
<1>1. /\ Len(s) \in Nat /\ DOMAIN s = 1..Len(s)
      /\ \A i \in 1..Len(s) : s[i] \in Letters
  BY LenProperties, ElementOfSeq
<1>2. \A q \in 0..4 : At(q) \in 0..Len(s)
  BY <1>1, QuarterBounds
<1>3. \A q \in 1..4 : At(q - 1) < At(q)
  BY <1>1, QuarterBounds
<1> QED
  <2> HIDE DEF At
  <2>0. j \in 0..4 /\ j - 1 \in 0..4
    OBVIOUS
  <2>1. At(j - 1) \in 0..Len(s) /\ At(j) \in 0..Len(s) /\ At(j - 1) < At(j)
    BY <1>2, <1>3, <2>0
  <2>2. Quarters(s)[j] = SubSeq(s, At(j - 1) + 1, At(j))
    BY DEF Quarters, At
  <2>3. \A i \in (At(j - 1) + 1)..At(j) : s[i] \in Letters
    BY <1>1, <2>1
  <2>4. /\ SubSeq(s, At(j - 1) + 1, At(j)) \in Seq(Letters)
        /\ Len(SubSeq(s, At(j - 1) + 1, At(j))) =
              IF At(j - 1) + 1 <= At(j) THEN At(j) - (At(j - 1) + 1) + 1 ELSE 0
        /\ \A i \in 1..(At(j) - (At(j - 1) + 1) + 1) :
              SubSeq(s, At(j - 1) + 1, At(j))[i] = s[At(j - 1) + 1 + i - 1]
    <3>1. At(j - 1) + 1 \in Int /\ At(j) \in Int
      BY <2>1, <1>1
    <3> QED
      BY <2>3, <3>1, SubSeqProperties
  <2>5. \A n, a, c \in Nat : a < c =>
            /\ a + 1 <= c
            /\ c - (a + 1) + 1 = c - a
            /\ \A i \in Int : a + 1 + i - 1 = a + i
    OBVIOUS
  <2>6. At(j - 1) \in Nat /\ At(j) \in Nat
    BY <1>1, <2>1
  <2>7. /\ At(j - 1) + 1 <= At(j)
        /\ At(j) - (At(j - 1) + 1) + 1 = At(j) - At(j - 1)
        /\ \A i \in Int : At(j - 1) + 1 + i - 1 = At(j - 1) + i
    BY <2>1, <2>5, <2>6
  <2>8. Len(SubSeq(s, At(j - 1) + 1, At(j))) = At(j) - At(j - 1)
    BY <2>4, <2>7
  <2>9. \A i \in 1..(At(j) - At(j - 1)) :
              SubSeq(s, At(j - 1) + 1, At(j))[i] = s[At(j - 1) + i]
    <3>1. ASSUME NEW i \in 1..(At(j) - At(j - 1))
          PROVE  SubSeq(s, At(j - 1) + 1, At(j))[i] = s[At(j - 1) + i]
      <4>1. i \in 1..(At(j) - (At(j - 1) + 1) + 1) /\ i \in Int
        BY <2>7, <3>1
      <4>2. SubSeq(s, At(j - 1) + 1, At(j))[i] = s[At(j - 1) + 1 + i - 1]
        BY ONLY <2>4, <4>1, Zenon
      <4>3. At(j - 1) + 1 + i - 1 = At(j - 1) + i
        BY ONLY <2>7, <4>1, Zenon
      <4> QED
        BY ONLY <4>2, <4>3, Zenon
    <3> QED
      BY <3>1
  <2> QED
    BY <2>2, <2>4, <2>8, <2>9 DEF At

\* The quarters of a cell lose no letter.
LEMMA QuartersCover ==
    ASSUME NEW s, CellOK(s), Len(s) >= ChunkLen, Len(s) # FullLen
    PROVE  /\ Quarters(s) \in Seq(Seq(Letters))
           /\ Len(Quarters(s)) = 4
           /\ \A j \in 1..4 :
                /\ CellOK(Quarters(s)[j])
                /\ Quarters(s)[j] # <<>>
                /\ ToSet(Quarters(s)[j]) \subseteq ToSet(s)
           /\ \A x \in ToSet(s) : \E j \in 1..4 : x \in ToSet(Quarters(s)[j])
<1> DEFINE At(q) == QuarterStart(s, q)
<1>1. /\ s \in Seq(Letters) /\ Len(s) \in Nat /\ DOMAIN s = 1..Len(s)
      /\ \A i \in 1..Len(s) : s[i] \in Letters
      /\ Len(s) >= 4 /\ Len(s) < FullLen
  BY LenProperties, ElementOfSeq, SplitAssumption DEF CellOK
<1>2. /\ At(0) = 0 /\ At(4) = Len(s)
      /\ \A q \in 0..4 : At(q) \in 0..Len(s)
      /\ \A q \in 1..4 : At(q - 1) < At(q)
  BY <1>1, QuarterBounds
<1>3. ASSUME NEW j \in 1..4
      PROVE  /\ Quarters(s)[j] = SubSeq(s, At(j - 1) + 1, At(j))
             /\ Quarters(s)[j] \in Seq(Letters)
             /\ Len(Quarters(s)[j]) = At(j) - At(j - 1)
             /\ \A i \in 1..(At(j) - At(j - 1)) :
                   Quarters(s)[j][i] = s[At(j - 1) + i]
  BY <1>1, QuarterLetters
<1> HIDE DEF At
<1>4. Quarters(s) \in Seq(Seq(Letters)) /\ Len(Quarters(s)) = 4
  <2>1. Quarters(s) \in [1..4 -> Seq(Letters)]
    BY <1>3 DEF Quarters
  <2>2. Quarters(s) \in Seq(Seq(Letters))
    <3>1. 4 \in Nat
      OBVIOUS
    <3> QED
      BY ONLY <2>1, <3>1, FunctionIsSeq, Zenon
  <2>3. 1..Len(Quarters(s)) = 1..4 /\ Len(Quarters(s)) \in Nat
    BY <2>1, <2>2, LenProperties
  <2>4. \A n \in Nat : 4 \in 1..n /\ 5 \notin 1..n => n = 4
    OBVIOUS
  <2>5. 4 \in 1..4 /\ 5 \notin 1..4
    OBVIOUS
  <2> QED
    BY ONLY <2>2, <2>3, <2>4, <2>5, Zenon
<1>5. ASSUME NEW j \in 1..4
      PROVE  /\ CellOK(Quarters(s)[j])
             /\ Quarters(s)[j] # <<>>
             /\ ToSet(Quarters(s)[j]) \subseteq ToSet(s)
  <2>1. At(j - 1) \in 0..Len(s) /\ At(j) \in 0..Len(s) /\ At(j - 1) < At(j)
    BY <1>2
  <2>2. /\ Quarters(s)[j] \in Seq(Letters)
        /\ Len(Quarters(s)[j]) \in 1..(FullLen - 1)
    <3>1. \A l, f, a, c \in Nat : a < c /\ c <= l /\ l < f => c - a \in 1..(f - 1)
      OBVIOUS
    <3>2. /\ FullLen \in Nat /\ At(j - 1) \in Nat /\ At(j) \in Nat
          /\ At(j) <= Len(s)
      <4>1. \A n \in Nat : \A q \in 0..n : q \in Nat /\ q <= n
        OBVIOUS
      <4> QED
        BY <1>1, <2>1, <4>1, SplitAssumption, Zenon
    <3>3. At(j) - At(j - 1) \in 1..(FullLen - 1)
      BY <1>1, <2>1, <3>1, <3>2, Zenon
    <3> QED
      BY <1>3, <3>3, Zenon
  <2>3. CellOK(Quarters(s)[j]) /\ Quarters(s)[j] # <<>>
    BY <2>2, EmptySeq, SplitAssumption DEF CellOK
  <2>4. ToSet(Quarters(s)[j]) \subseteq ToSet(s)
    <3>1. DOMAIN Quarters(s)[j] = 1..(At(j) - At(j - 1))
      BY <1>3, LenProperties
    <3>2. \A i \in 1..(At(j) - At(j - 1)) : At(j - 1) + i \in 1..Len(s)
      BY <1>1, <2>1
    <3> QED
      BY <1>1, <1>3, <3>1, <3>2 DEF ToSet
  <2> QED
    BY <2>3, <2>4
<1>6. ASSUME NEW p \in 1..Len(s)
      PROVE  \E j \in 1..4 : s[p] \in ToSet(Quarters(s)[j])
  <2>1. /\ At(0) = 0 /\ At(1) \in 0..Len(s) /\ At(2) \in 0..Len(s)
        /\ At(3) \in 0..Len(s) /\ At(4) = Len(s)
    BY <1>2
  <2>2. PICK j \in 1..4 : At(j - 1) < p /\ p <= At(j)
    <3>1. CASE p <= At(1)
      BY <3>1, <2>1
    <3>2. CASE At(1) < p /\ p <= At(2)
      BY <3>2
    <3>3. CASE At(2) < p /\ p <= At(3)
      BY <3>3
    <3>4. CASE At(3) < p
      BY <3>4, <2>1
    <3> QED
      BY <1>1, <2>1, <3>1, <3>2, <3>3, <3>4
  <2>3. p - At(j - 1) \in 1..(At(j) - At(j - 1))
    BY <1>1, <1>2, <2>2
  <2>4. DOMAIN Quarters(s)[j] = 1..(At(j) - At(j - 1))
    BY <1>3, LenProperties
  <2>5. Quarters(s)[j][p - At(j - 1)] = s[p]
    <3>1. At(j - 1) + (p - At(j - 1)) = p
      BY <1>1, <1>2
    <3> QED
      BY <1>3, <2>3, <3>1
  <2> QED
    BY <2>3, <2>4, <2>5 DEF ToSet
<1> QED
  BY <1>1, <1>4, <1>5, <1>6 DEF ToSet

\* SplitsOf loses no letter and invents none, whichever way it splits.
LEMMA SplitsCover ==
    ASSUME NEW s, CellOK(s), Len(s) > 1
    PROVE  /\ SplitsOf(s) \in Seq(Seq(Letters))
           /\ \A j \in 1..Len(SplitsOf(s)) :
                /\ CellOK(SplitsOf(s)[j])
                /\ SplitsOf(s)[j] # <<>>
                /\ ToSet(SplitsOf(s)[j]) \subseteq ToSet(s)
           /\ \A x \in ToSet(s) :
                \E j \in 1..Len(SplitsOf(s)) : x \in ToSet(SplitsOf(s)[j])
<1>1. CASE Len(s) = FullLen
  BY <1>1, FullSplitsCover DEF SplitsOf
<1>2. CASE Len(s) # FullLen /\ Len(s) >= ChunkLen
  BY <1>2, QuartersCover DEF SplitsOf
<1>3. CASE Len(s) # FullLen /\ ~(Len(s) >= ChunkLen)
  BY <1>3, SingletonsCover DEF SplitsOf
<1> QED
  BY <1>1, <1>2, <1>3

-----------------------------------------------------------------------------
(* Splitting a class, and choosing where. *)

\* The classes left by splitting one cell have, together, the boards of the
\* class that was split.
LEMMA SplitReps ==
    ASSUME NEW b \in Board, NEW k \in Cells, CellOK(b[k]), Len(b[k]) > 1
    PROVE  LET S == SplitsOf(b[k])
           IN  UNION {Reps([b EXCEPT ![k] = S[j]]) : j \in 1..Len(S)} = Reps(b)
<1> DEFINE S == SplitsOf(b[k])
           B(j) == [b EXCEPT ![k] = S[j]]
<1>1. /\ S \in Seq(Seq(Letters))
      /\ \A j \in 1..Len(S) : S[j] # <<>> /\ ToSet(S[j]) \subseteq ToSet(b[k])
      /\ \A x \in ToSet(b[k]) : \E j \in 1..Len(S) : x \in ToSet(S[j])
  BY SplitsCover
<1>2. b[k] # <<>>
  <2>1. Len(<<>>) = 0
    OBVIOUS
  <2> QED
    BY <2>1
<1> HIDE DEF S
<1>3. ASSUME NEW j \in 1..Len(S)
      PROVE  B(j) \in Board /\ B(j)[k] = S[j] /\ \A m \in Cells \ {k} : B(j)[m] = b[m]
  <2>1. S[j] \in Seq(Letters)
    BY <1>1, <1>3, ElementOfSeq
  <2> QED
    BY <2>1 DEF Board
<1> HIDE DEF B
<1>4. ASSUME NEW j \in 1..Len(S), NEW r \in Reps(B(j)) PROVE r \in Reps(b)
  <2>1. r \in SingleBoard /\ \A m \in Cells : r[m] \in LettersOf(B(j)[m])
    BY <1>3, <1>4, RepsMember
  <2>2. r[k] \in LettersOf(b[k])
    BY <1>1, <1>2, <1>3, <2>1 DEF LettersOf
  <2>3. \A m \in Cells : r[m] \in LettersOf(b[m])
    BY <1>3, <2>1, <2>2
  <2> QED
    BY <2>1, <2>3, RepsMember
<1>5. ASSUME NEW r \in Reps(b) PROVE \E j \in 1..Len(S) : r \in Reps(B(j))
  <2>1. r \in SingleBoard /\ \A m \in Cells : r[m] \in LettersOf(b[m])
    BY <1>5, RepsMember
  <2>2. PICK j \in 1..Len(S) : r[k] \in ToSet(S[j])
    BY <1>1, <1>2, <2>1 DEF LettersOf
  <2>3. \A m \in Cells : r[m] \in LettersOf(B(j)[m])
    <3>1. B(j)[k] = S[j] /\ S[j] # <<>>
      BY <1>1, <1>3
    <3>2. r[k] \in LettersOf(S[j])
      BY <2>2, <3>1 DEF LettersOf
    <3>3. \A m \in Cells \ {k} : B(j)[m] = b[m]
      BY <1>3
    <3> QED
      BY ONLY <2>1, <3>1, <3>2, <3>3
  <2>4. r \in Reps(B(j))
    BY <1>3, <2>1, <2>3, RepsMember
  <2> QED
    BY <2>4
<1>6. UNION {Reps(B(j)) : j \in 1..Len(S)} = Reps(b)
  BY <1>4, <1>5
<1> QED
  BY <1>6 DEF B, S

\* PickABucket finds a cell with several letters whenever there is one.
LEMMA PickedCellCorrect ==
    ASSUME NEW b \in Board, CoversCells(order)
    PROVE  \/ PickedCell(b) = NoCell /\ IsSingle(b)
           \/ /\ PickedCell(b) # NoCell
              /\ PickedCell(b) \in Cells
              /\ Len(b[PickedCell(b)]) > 1
<1>1. /\ order \in Seq(Cells) /\ Len(order) >= NumCells
      /\ \A k \in Cells : \E i \in Cells : order[i] = k
  BY DEF CoversCells
<1>2. NumCells \in Nat \ {0} /\ Cells = 1..NumCells
  BY CellsType
<1>3. \A k \in Cells : Len(b[k]) \in Nat
  BY LenProperties DEF Board
<1>4. CASE Splittable(b) = {}
  <2>1. ASSUME NEW k \in Cells PROVE Len(b[k]) <= 1
    <3>1. PICK i \in Cells : order[i] = k
      BY <1>1
    <3>2. ~(Len(b[order[i]]) > 1)
      BY <1>4 DEF Splittable
    <3>3. \A n \in Nat : ~(n > 1) => n <= 1
      OBVIOUS
    <3> QED
      BY <1>3, <3>1, <3>2, <3>3
  <2> QED
    BY <1>4, <2>1 DEF PickedCell, IsSingle
<1>5. CASE Splittable(b) # {}
  <2>1. Splittable(b) \subseteq Nat
    BY <1>2 DEF Splittable
  <2>2. PICK i \in Splittable(b) : \A j \in Splittable(b) : i <= j
    BY <1>5, <2>1, LeastElement
  <2> DEFINE m == CHOOSE n \in Splittable(b) : \A j \in Splittable(b) : n <= j
  <2>3. m \in Splittable(b)
    BY <2>2
  <2>4. PickedCell(b) = order[m]
    BY <1>5 DEF PickedCell
  <2> HIDE DEF m
  <2>5. m \in Cells /\ Len(b[order[m]]) > 1
    BY <2>3 DEF Splittable
  <2>6. order[m] \in Cells
    <3>1. m \in 1..Len(order)
      <4>1. \A n, l \in Nat : l >= n => 1..n \subseteq 1..l
        OBVIOUS
      <4>2. Len(order) \in Nat
        BY <1>1, LenProperties
      <4> QED
        BY <1>1, <1>2, <2>5, <4>1, <4>2
    <3> QED
      BY <1>1, <3>1, ElementOfSeq
  <2>7. order[m] # NoCell
    BY <1>2, <2>6 DEF NoCell
  <2> QED
    BY <2>4, <2>5, <2>6, <2>7
<1> QED
  BY <1>4, <1>5

-----------------------------------------------------------------------------
(* The default order.                                                      *)

\* The cells that come before k.
Earlier(k) == {j \in Cells : Before(j, k)}

\* Before puts the cells in a line: no two of them are at the same place.
LEMMA BeforeIsTotal ==
    /\ \A i \in Cells : ~Before(i, i)
    /\ \A i, j \in Cells : i # j => Before(i, j) \/ Before(j, i)
    /\ \A i, j, k \in Cells : Before(i, j) /\ Before(j, k) => Before(i, k)
<1>1. \A k \in Cells : k \in Int
  BY DEF Cells
<1>2. \A k \in Cells : Distance(k) \in Int
  <2>1. \A a \in Int, w \in Nat \ {0} : a % w \in Int /\ a \div w \in Int
    OBVIOUS
  <2>2. \A x, y, w, h \in Int :
           (2 * x - w) * (2 * x - w) + (2 * y - h) * (2 * y - h) \in Int
    OBVIOUS
  <2>3. ASSUME NEW k \in Cells PROVE Distance(k) \in Int
    <3>1. k - 1 \in Int /\ Width \in Nat \ {0} /\ Width \in Int /\ Height \in Int
      BY <1>1, SizeAssumption
    <3>2. (k - 1) % Width \in Int /\ (k - 1) \div Width \in Int
      BY <2>1, <3>1
    <3> QED
      BY <2>2, <3>1, <3>2 DEF Distance
  <2> QED
    BY <2>3
<1> QED
  BY <1>1, <1>2 DEF Before

\* The default order of a Breaker has each cell at the place that the number of
\* cells before it gives: a scan of it sees every cell (ibucket_breaker.cc:45).
LEMMA DefaultOrderCovers == CoversCells(DefaultOrder)
<1> DEFINE N == NumCells
           Rank(k) == Cardinality(Earlier(k))
           O == DefaultOrder
<1>1. /\ N \in Nat \ {0} /\ Cells = 1..N /\ IsFiniteSet(Cells) /\ Cardinality(Cells) = N
      /\ IsFiniteSet(0..(N - 1)) /\ Cardinality(0..(N - 1)) = N
  <2>1. N \in Nat \ {0}
    <3>1. \A w, h \in Nat \ {0} : w * h \in Nat \ {0}
      OBVIOUS
    <3> QED
      BY <3>1, SizeAssumption DEF NumCells
  <2>2. Cells = 1..N
    BY DEF Cells
  <2>3. 1 \in Int /\ 0 \in Int /\ N \in Int /\ N - 1 \in Int
    BY <2>1
  <2> HIDE DEF N
  <2> QED
    BY <2>1, <2>2, <2>3, FS_Interval
<1> HIDE DEF N
<1>2. \A k \in Cells : /\ Earlier(k) \in SUBSET Cells /\ IsFiniteSet(Earlier(k))
                       /\ Rank(k) \in 0..(N - 1)
  <2>1. ASSUME NEW k \in Cells
        PROVE  /\ Earlier(k) \in SUBSET Cells /\ IsFiniteSet(Earlier(k))
               /\ Rank(k) \in 0..(N - 1)
    <3>1. Earlier(k) \in SUBSET Cells /\ k \notin Earlier(k)
      BY BeforeIsTotal DEF Earlier
    <3>2. /\ IsFiniteSet(Earlier(k)) /\ Cardinality(Earlier(k)) <= N
          /\ Cardinality(Earlier(k)) # N /\ Cardinality(Earlier(k)) \in Nat
      BY <1>1, <3>1, FS_Subset, FS_CardinalityType
    <3> QED
      BY <1>1, <3>1, <3>2
  <2> QED
    BY <2>1
<1>3. \A a, k \in Cells : Before(a, k) => Rank(a) < Rank(k)
  <2>1. ASSUME NEW a \in Cells, NEW k \in Cells, Before(a, k) PROVE Rank(a) < Rank(k)
    <3>1. Earlier(a) \in SUBSET Earlier(k) /\ a \in Earlier(k) /\ a \notin Earlier(a)
      BY <2>1, BeforeIsTotal DEF Earlier
    <3>2. Cardinality(Earlier(a)) <= Cardinality(Earlier(k))
          /\ Cardinality(Earlier(a)) # Cardinality(Earlier(k))
      BY <1>2, <3>1, FS_Subset
    <3>3. Rank(a) \in Int /\ Rank(k) \in Int
      BY <1>2
    <3> QED
      BY <3>2, <3>3
  <2> QED
    BY <2>1
<1>4. \A a, k \in Cells : Rank(a) = Rank(k) => a = k
  <2>1. \A a \in Cells : Rank(a) \in Int
    BY <1>2
  <2>2. \A x, y \in Int : x < y => x # y
    OBVIOUS
  <2> HIDE DEF Rank
  <2> QED
    BY <1>3, <2>1, <2>2, BeforeIsTotal
<1>5. \A i \in Cells : \E k \in Cells : Rank(k) = i - 1
  <2> DEFINE f == [k \in Cells |-> Rank(k)]
             R == 0..(N - 1)
  <2>1. f \in [Cells -> R] /\ \A a, k \in Cells : f[a] = f[k] => a = k
    BY <1>2, <1>4
  <2>2. f \in Injection(Cells, R)
    BY <2>1 DEF Injection, IsInjective
  <2>3. f \in Surjection(Cells, R)
    <3> HIDE DEF f
    <3> QED
      BY <1>1, <2>2, FS_Injection
  <2>4. \A i \in Cells : i - 1 \in R
    BY <1>1
  <2> HIDE DEF R, Rank
  <2>5. \A x \in R : \E k \in Cells : f[k] = x
    BY <2>3 DEF Surjection
  <2> QED
    BY <2>4, <2>5
<1> HIDE DEF Rank
<1>6. \A i \in Cells : O[i] \in Cells /\ Rank(O[i]) = i - 1
  BY <1>5 DEF DefaultOrder, Rank, Earlier
<1>7. O = [i \in Cells |-> O[i]]
  <2> DEFINE F(i) == CHOOSE k \in Cells :
                        Cardinality({j \in Cells : Before(j, k)}) = i - 1
  <2>1. O = [i \in Cells |-> F(i)]
    BY DEF DefaultOrder
  <2> HIDE DEF F, O
  <2> QED
    BY <2>1
<1> HIDE DEF O
<1>8. O \in [1..N -> Cells]
  BY <1>1, <1>6, <1>7
<1>9. O \in Seq(Cells) /\ Len(O) = N
  <2>1. O \in Seq(Cells)
    BY <1>1, <1>8, FunctionIsSeq
  <2>2. DOMAIN O = 1..N /\ DOMAIN O = 1..Len(O) /\ Len(O) \in Nat
    BY <1>8, <2>1, LenProperties
  <2> QED
    BY <1>1, <2>1, <2>2, SameInterval
<1>10. ASSUME NEW k \in Cells PROVE \E i \in Cells : O[i] = k
  <2> DEFINE i == Rank(k) + 1
  <2>1. i \in Cells /\ i - 1 = Rank(k)
    BY <1>1, <1>2 DEF Rank
  <2>2. O[i] = k
    <3> HIDE DEF i
    <3> QED
      BY <1>4, <1>6, <2>1 DEF Rank
  <2> QED
    BY <2>1, <2>2
<1> QED
  BY <1>1, <1>9, <1>10 DEF CoversCells, N, O

-----------------------------------------------------------------------------
(* The inductive invariant: types, and what the lemmas on splitting ask of  *)
(* the board, of the order and of every frame.                              *)

FrameOK(f) ==
    /\ \A k \in Cells : CellOK(f.orig_bd[k])
    /\ \A j \in 1..Len(f.splits) : CellOK(f.splits[j])

IInv ==
    /\ TypeOK
    /\ \A k \in Cells : CellOK(bd[k])
    /\ CoversCells(order)
    /\ \A n \in 1..Len(stack) : FrameOK(stack[n])
    /\ pc \in {"idle", "done", "exit"} => stack = <<>>

\* A non-empty stack is the part below its top and the top.
LEMMA StackTop ==
    ASSUME stack \in Seq(Frame), stack # <<>>
    PROVE  /\ Len(stack) \in Nat \ {0}
           /\ Top \in Frame
           /\ BelowTop \in Seq(Frame)
           /\ Len(BelowTop) = Len(stack) - 1
           /\ \A n \in 1..Len(BelowTop) : n \in 1..Len(stack) /\ BelowTop[n] = stack[n]
  BY AllButLast DEF Top, BelowTop

\* The board a frame attacks next is a board the breaker splits without loss.
LEMMA SplitBoardOK ==
    ASSUME NEW f \in Frame, FrameOK(f), NEW j \in 1..Len(f.splits)
    PROVE  /\ SplitBoard(f, j) \in Board
           /\ \A k \in Cells : CellOK(SplitBoard(f, j)[k])
<1>1. f.orig_bd \in Board /\ f.cell \in Cells /\ f.splits[j] \in Seq(Letters)
  BY ElementOfSeq DEF Frame
<1>2. CellOK(f.splits[j]) /\ \A k \in Cells : CellOK(f.orig_bd[k])
  BY DEF FrameOK
<1> QED
  BY <1>1, <1>2 DEF SplitBoard, Board

\* The details stay well typed when a class is recorded.
LEMMA ConsideredType ==
    ASSUME details \in Details, bd \in Board
    PROVE  Considered \in Seq(Board)
<1>1. details.boards_considered \in Seq(Board)
  BY DEF Details
<1> QED
  BY <1>1, AppendProperties DEF Considered

\* A Breaker that was just made satisfies the invariant.
LEMMA InitIInv == Init => IInv
<1> SUFFICES ASSUME Init PROVE IInv
  OBVIOUS
<1>1. bd \in Board /\ \A k \in Cells : CellOK(bd[k])
  BY ClassesAssumption DEF Init
<1>2. CoversCells(order) /\ order \in Seq(Cells)
  BY DefaultOrderCovers DEF Init, CoversCells
<1>3. stack = <<>> /\ stack \in Seq(Frame) /\ Len(stack) = 0
  BY DEF Init
<1>4. 0 \in 0..(Word - 1)
  BY WordAssumption
<1>5. details \in Details
  BY <1>4 DEF Init, NoDetails, Details
<1>6. TypeOK
  BY <1>1, <1>2, <1>3, <1>4, <1>5 DEF Init, TypeOK
<1> QED
  BY <1>1, <1>2, <1>3, <1>6 DEF IInv

\* Every step of the Breaker and of its caller keeps the invariant.
LEMMA NextIInv == ASSUME OrdersCoverCells PROVE IInv /\ [Next]_vars => IInv'
<1> SUFFICES ASSUME IInv, [Next]_vars PROVE IInv'
  OBVIOUS
<1> USE DEF IInv, TypeOK
<1>1. CASE ParseBoard
  <2>1. bd' \in Board /\ \A k \in Cells : CellOK(bd'[k])
    BY <1>1, ClassesAssumption DEF ParseBoard
  <2> QED
    BY <1>1, <2>1 DEF ParseBoard
<1>2. CASE SetPickOrder
  <2>1. CoversCells(order') /\ order' \in Seq(Cells)
    BY <1>2 DEF SetPickOrder, OrdersCoverCells, CoversCells
  <2>2. pc' \in {"idle", "attack", "return", "done", "exit"}
    BY <1>2 DEF SetPickOrder
  <2>3. stack' = <<>> /\ stack' = stack /\ bd' = bd
    BY <1>2 DEF SetPickOrder, Idle
  <2> QED
    BY <1>2, <2>1, <2>2, <2>3 DEF SetPickOrder
<1>3. CASE Break
  <2>1. 0 \in 0..(Word - 1) /\ NumReps(bd) \in 0..(Word - 1)
    BY WordAssumption, NumRepsType
  <2>2. details' \in Details
    <3>1. details.boards_considered \in Seq(Board)
      BY DEF Details
    <3>2. details' = [NoDetails EXCEPT
                        !.boards_considered = details.boards_considered]
      BY <1>3 DEF Break, ResetDetails
    <3>3. NoDetails \in [max_depth : Nat, num_reps : 0..(Word - 1), sum_wins : Nat,
                         max_wins : Nat, failures : Seq(Seq(Letters \cup {Dot})),
                         boards_considered : Seq(Board)]
      <4>1. <<>> \in Seq(Board) /\ <<>> \in Seq(Seq(Letters \cup {Dot}))
        OBVIOUS
      <4> QED
        BY ONLY <2>1, <4>1 DEF NoDetails
    <3> QED
      BY ONLY <3>1, <3>2, <3>3 DEF Details
  <2> QED
    BY <1>3, <2>1, <2>2 DEF Break
<1>4. CASE Eliminate
  <2>1. details' \in Details
    <3>1. Considered \in Seq(Board)
      BY ConsideredType
    <3>2. Level \in Nat
      BY LenProperties DEF Level
    <3>3. PICK d \in UpperBound(bd) :
            details' = [details EXCEPT
                !.boards_considered = Considered,
                !.max_wins = @ + (IF d.max_nomark <= d.sum_union THEN 1 ELSE 0),
                !.sum_wins = @ + (IF d.max_nomark <= d.sum_union THEN 0 ELSE 1),
                !.max_depth = IF Level > @ THEN Level ELSE @]
      BY <1>4 DEF Eliminate
    <3> DEFINE mw == details.max_wins +
                        (IF d.max_nomark <= d.sum_union THEN 1 ELSE 0)
               sw == details.sum_wins +
                        (IF d.max_nomark <= d.sum_union THEN 0 ELSE 1)
               md == IF Level > details.max_depth THEN Level ELSE details.max_depth
    <3>4. mw \in Nat /\ sw \in Nat /\ md \in Nat
      BY <3>2 DEF Details
    <3>5. details' = [details EXCEPT !.boards_considered = Considered,
                                     !.max_wins = mw, !.sum_wins = sw,
                                     !.max_depth = md]
      BY <3>3
    <3> HIDE DEF mw, sw, md
    <3> QED
      BY ONLY <3>1, <3>4, <3>5, details \in Details DEF Details
  <2>2. elim' \in 0..(Word - 1)
    <3>1. NumReps(bd) \in 0..(Word - 1)
      BY NumRepsType
    <3>2. elim' = (elim + NumReps(bd)) % Word
      BY <1>4 DEF Eliminate
    <3> QED
      BY <3>1, <3>2, WordAssumption
  <2> QED
    BY <1>4, <2>1, <2>2 DEF Eliminate
<1>5. CASE Fail
  <2>1. PickedCell(bd) = NoCell
    BY <1>5 DEF Fail
  <2>2. BoardText(bd) \in SingleBoard
    BY <2>1, PickedCellCorrect, SingleReps
  <2>3. BoardText(bd) \in Seq(Letters \cup {Dot})
    <3>1. BoardText(bd) \in [1..NumCells -> Letters \cup {Dot}] /\ NumCells \in Nat
      BY <2>2, CellsType DEF SingleBoard
    <3> QED
      BY ONLY <3>1, FunctionIsSeq, Zenon
  <2>4. details' \in Details
    <3>1. Considered \in Seq(Board)
      BY ConsideredType
    <3>2. Append(details.failures, BoardText(bd)) \in Seq(Seq(Letters \cup {Dot}))
      <4>1. details.failures \in Seq(Seq(Letters \cup {Dot}))
        BY DEF Details
      <4> QED
        BY <2>3, <4>1, AppendProperties
    <3>3. details' = [details EXCEPT
                        !.boards_considered = Considered,
                        !.failures = Append(details.failures, BoardText(bd))]
      BY <1>5 DEF Fail
    <3> QED
      BY ONLY <3>1, <3>2, <3>3, details \in Details DEF Details
  <2> QED
    BY <1>5, <2>4 DEF Fail
<1>6. CASE Split
  <2> DEFINE p == PickedCell(bd)
             f == [orig_bd |-> bd, cell |-> p, splits |-> SplitsOf(bd[p]), i |-> 1]
  <2>1. p \in Cells /\ Len(bd[p]) > 1
    BY <1>6, PickedCellCorrect DEF Split
  <2>2. SplitsOf(bd[p]) \in Seq(Seq(Letters)) /\ f \in Frame /\ FrameOK(f)
    BY <2>1, SplitsCover DEF Frame, FrameOK
  <2>3. stack' = Append(stack, f)
    BY <1>6 DEF Split
  <2> HIDE DEF f
  <2>4. /\ stack' \in Seq(Frame)
        /\ \A n \in 1..Len(stack') : FrameOK(stack'[n])
    <3>1. /\ Append(stack, f) \in Seq(Frame)
          /\ Len(Append(stack, f)) = Len(stack) + 1
          /\ \A n \in 1..Len(stack) : Append(stack, f)[n] = stack[n]
          /\ Append(stack, f)[Len(stack) + 1] = f
      BY <2>2, AppendProperties
    <3>2. Len(stack) \in Nat
      BY LenProperties
    <3>3. \A l \in Nat : \A n \in 1..(l + 1) : n \in 1..l \/ n = l + 1
      OBVIOUS
    <3> QED
      BY <2>2, <2>3, <3>1, <3>2, <3>3
  <2>5. details' \in Details
    BY <1>6, ConsideredType DEF Split, Details
  <2> QED
    BY <1>6, <2>4, <2>5 DEF Split
<1>7. CASE TakeSplit
  <2>1. stack # <<>> /\ Top.i <= Len(Top.splits)
    BY <1>7 DEF TakeSplit
  <2>2. /\ Len(stack) \in Nat \ {0} /\ Top \in Frame /\ BelowTop \in Seq(Frame)
        /\ Len(BelowTop) = Len(stack) - 1
        /\ \A n \in 1..Len(BelowTop) : n \in 1..Len(stack) /\ BelowTop[n] = stack[n]
    BY <2>1, StackTop
  <2>3. FrameOK(Top)
    BY <2>2 DEF Top
  <2>4. Top.i \in 1..Len(Top.splits)
    <3>1. Top.i \in Nat \ {0} /\ Len(Top.splits) \in Nat
      BY <2>2, LenProperties DEF Frame
    <3> QED
      BY <2>1, <3>1
  <2>5. bd' \in Board /\ \A k \in Cells : CellOK(bd'[k])
    BY <1>7, <2>2, <2>3, <2>4, SplitBoardOK DEF TakeSplit, NextBoard
  <2> DEFINE f == [Top EXCEPT !.i = @ + 1]
  <2>6. f \in Frame /\ FrameOK(f)
    <3>1. Top.i + 1 \in Nat \ {0}
      BY <2>2 DEF Frame
    <3>2. f \in Frame
      BY <2>2, <3>1 DEF Frame
    <3>3. f.orig_bd = Top.orig_bd /\ f.splits = Top.splits
      BY <2>2 DEF Frame
    <3> QED
      BY <2>3, <3>2, <3>3 DEF FrameOK
  <2>7. stack' = Append(BelowTop, f)
    BY <1>7 DEF TakeSplit
  <2> HIDE DEF f
  <2>8. /\ stack' \in Seq(Frame)
        /\ \A n \in 1..Len(stack') : FrameOK(stack'[n])
    <3>1. /\ Append(BelowTop, f) \in Seq(Frame)
          /\ Len(Append(BelowTop, f)) = Len(BelowTop) + 1
          /\ \A n \in 1..Len(BelowTop) : Append(BelowTop, f)[n] = BelowTop[n]
          /\ Append(BelowTop, f)[Len(BelowTop) + 1] = f
      BY <2>2, <2>6, AppendProperties
    <3>2. Len(BelowTop) \in Nat
      BY <2>2, LenProperties
    <3>3. \A l \in Nat : \A n \in 1..(l + 1) : n \in 1..l \/ n = l + 1
      OBVIOUS
    <3> QED
      BY <2>2, <2>6, <2>7, <3>1, <3>2, <3>3
  <2> QED
    BY <1>7, <2>5, <2>8 DEF TakeSplit
<1>8. CASE EndSplits
  <2>1. stack # <<>> /\ stack' = BelowTop
    BY <1>8 DEF EndSplits
  <2>2. stack' \in Seq(Frame) /\ \A n \in 1..Len(stack') : FrameOK(stack'[n])
    BY <2>1, StackTop
  <2> QED
    BY <1>8, <2>2 DEF EndSplits
<1>9. CASE EndBreak
  <2>1. details' \in Details
    BY <1>9 DEF EndBreak, Details
  <2> QED
    BY <1>9, <2>1 DEF EndBreak
<1>10. CASE UNCHANGED vars
  BY <1>10 DEF vars
<1> QED
  BY <1>1, <1>2, <1>3, <1>4, <1>5, <1>6, <1>7, <1>8, <1>9, <1>10
  DEF Next, Breaking

\* Break keeps its types, and with them what makes a split lossless, as long
\* as the orders it is given name every cell.
THEOREM TypeInvariant == ASSUME OrdersCoverCells PROVE Spec => []IInv
<1>1. Init => IInv
  BY InitIInv
<1>2. IInv /\ [Next]_vars => IInv'
  BY NextIInv
<1> QED
  BY <1>1, <1>2, PTL DEF Spec

\* Every variable of the Breaker keeps its type: in particular the cell a frame
\* splits is a cell of the board, and elim_ and orig_reps_ stay in their word.
THEOREM TypesHold == ASSUME OrdersCoverCells PROVE Spec => []TypeOK
<1>1. IInv => TypeOK
  BY DEF IInv
<1>2. Spec => []IInv
  BY TypeInvariant
<1> QED
  BY <1>1, <1>2, PTL

-----------------------------------------------------------------------------
(* The refinement: Break implements the search of ClassSearch. *)

\* The boards pending in a stack are those of its frames.
LEMMA StackPendingAppend ==
    ASSUME NEW st \in Seq(Frame), NEW f \in Frame
    PROVE  StackPending(Append(st, f)) = StackPending(st) \cup FramePending(f)
<1> DEFINE a == Append(st, f)
           l == Len(st)
<1>1. /\ l \in Nat /\ DOMAIN st = 1..l /\ DOMAIN a = 1..(l + 1)
      /\ \A n \in 1..(l + 1) :
            \/ n \in 1..l /\ n # l + 1 /\ a[n] = st[n]
            \/ n = l + 1 /\ n \notin 1..l /\ a[n] = f
      /\ \A n \in 1..l : n \in 1..(l + 1) /\ n < l + 1
  BY AppendCases
<1>2. l + 1 \in 1..(l + 1)
  BY <1>1
<1> HIDE DEF a, l
<1>3. StackPending(a) = StackPending(st) \cup FramePending(f)
  BY <1>1, <1>2 DEF StackPending
<1> QED
  BY <1>3 DEF a

\* ... and the top frame holds those that the frames below it do not.
LEMMA StackPendingTop ==
    ASSUME stack \in Seq(Frame), stack # <<>>
    PROVE  StackPending(stack) = StackPending(BelowTop) \cup FramePending(Top)
<1>1. /\ Len(stack) \in Nat \ {0}
      /\ BelowTop \in Seq(Frame)
      /\ Len(BelowTop) = Len(stack) - 1
      /\ \A n \in 1..Len(BelowTop) : BelowTop[n] = stack[n]
  BY StackTop
<1>2. DOMAIN stack = 1..Len(stack) /\ DOMAIN BelowTop = 1..(Len(stack) - 1)
  BY <1>1, LenProperties
<1>3. \A l \in Nat \ {0} : 1..l = 1..(l - 1) \cup {l}
  OBVIOUS
<1>4. DOMAIN stack = DOMAIN BelowTop \cup {Len(stack)}
  BY <1>1, <1>2, <1>3
<1>5. \A n \in DOMAIN BelowTop : BelowTop[n] = stack[n]
  BY <1>1, <1>2
<1>6. Top = stack[Len(stack)]
  BY DEF Top
<1> DEFINE t == Len(stack)
<1>7. DOMAIN stack = DOMAIN BelowTop \cup {t} /\ stack[t] = Top
  BY <1>4, <1>6
<1> HIDE DEF t
<1> QED
  BY <1>5, <1>7 DEF StackPending

\* The splits of a frame that was just added are the class it was called on.
LEMMA SplitPending ==
    ASSUME NEW b \in Board, NEW k \in Cells, CellOK(b[k]), Len(b[k]) > 1
    PROVE  FramePending([orig_bd |-> b, cell |-> k, splits |-> SplitsOf(b[k]),
                         i |-> 1]) = Reps(b)
<1>1. UNION {Reps([b EXCEPT ![k] = SplitsOf(b[k])[j]]) :
                j \in 1..Len(SplitsOf(b[k]))} = Reps(b)
  BY SplitReps
<1> QED
  BY <1>1 DEF FramePending, Remaining, SplitBoard

\* A frame that takes a split has the boards of that one less to examine.
LEMMA TakePending ==
    ASSUME NEW f \in Frame, f.i <= Len(f.splits)
    PROVE  /\ FramePending(f) =
                FramePending([f EXCEPT !.i = @ + 1]) \cup Reps(SplitBoard(f, f.i))
           /\ \A r \in FramePending([f EXCEPT !.i = @ + 1]) :
                \E j \in 1..Len(f.splits) : j # f.i /\ r \in Reps(SplitBoard(f, j))
<1> DEFINE g == [f EXCEPT !.i = @ + 1]
<1>1. /\ g.orig_bd = f.orig_bd /\ g.cell = f.cell
      /\ g.splits = f.splits /\ g.i = f.i + 1
  BY DEF Frame
<1>2. f.i \in Nat \ {0} /\ Len(f.splits) \in Nat
  BY LenProperties DEF Frame
<1> HIDE DEF g
<1>3. Remaining(f) = Remaining(g) \cup {f.i}
  <2>1. \A m, n \in Nat : m <= n => m..n = (m + 1)..n \cup {m}
    OBVIOUS
  <2> QED
    BY <1>1, <1>2, <2>1 DEF Remaining
<1>4. \A j : SplitBoard(g, j) = SplitBoard(f, j)
  BY <1>1 DEF SplitBoard
<1>5. \A j \in Remaining(g) : j \in 1..Len(f.splits) /\ j # f.i
  BY <1>1, <1>2 DEF Remaining
<1>6. FramePending(f) = FramePending(g) \cup Reps(SplitBoard(f, f.i))
  BY <1>3, <1>4 DEF FramePending
<1>7. \A r \in FramePending(g) :
          \E j \in 1..Len(f.splits) : j # f.i /\ r \in Reps(SplitBoard(f, j))
  BY <1>4, <1>5 DEF FramePending
<1> QED
  BY <1>6, <1>7 DEF g

\* A bound that is not over the best score: no board of the class beats it.
LEMMA EliminatedHasNoHotBoard ==
    ASSUME NEW b \in Board, NEW d \in UpperBound(b), Bound(d) <= BestScore
    PROVE  Hot(Reps(b)) = {}
<1>1. Bound(d) \in Nat /\ BestScore \in Nat
  BY ScoreAssumption DEF UpperBound, ScoreDetails, Bound
<1>2. \A m, n \in Nat : m <= n => ~(m > n)
  OBVIOUS
<1>3. \A r \in Reps(b) : Score(r) <= Bound(d)
  BY <1>1, <1>2 DEF UpperBound, BoundsClass
<1>4. \A r \in Reps(b) : Score(r) \in Nat
  BY RepsMember, ScoreAssumption
<1>5. \A x, y, z \in Nat : x <= y /\ y <= z => ~(x > z)
  OBVIOUS
<1>6. \A r \in Reps(b) : ~(Score(r) > BestScore)
  BY <1>1, <1>3, <1>4, <1>5
<1> QED
  BY <1>6 DEF Hot

\* A single board whose bound is over the best score beats it.
LEMMA FailureIsHot ==
    ASSUME NEW b \in Board, IsSingle(b),
           NEW d \in UpperBound(b), Bound(d) > BestScore
    PROVE  Score(BoardText(b)) > BestScore
<1>1. Reps(b) = {BoardText(b)} /\ BoardText(b) \in SingleBoard
  BY SingleReps
<1>2. d.sum_union <= Score(BoardText(b))
  BY <1>1 DEF UpperBound, BoundsClass
<1>3. d.sum_union \in Nat /\ d.max_nomark \in Nat /\ BestScore \in Nat
  BY ScoreAssumption DEF UpperBound, ScoreDetails
<1>4. Score(BoardText(b)) \in Nat
  BY <1>1, ScoreAssumption
<1>5. d.sum_union > BestScore
  BY <1>3 DEF Bound
<1>6. \A x, y, z \in Nat : x <= y /\ x > z => y > z
  OBVIOUS
<1> QED
  BY <1>2, <1>3, <1>4, <1>5, <1>6

\* A Breaker that was just made is an idle search.
LEMMA InitRefines == Init => Search!Init
<1> SUFFICES ASSUME Init PROVE Search!Init
  OBVIOUS
<1>1. phase = "idle"
  BY DEF Init, phase, InProgress
<1>2. Reps(orig) \in SUBSET SingleBoard
  <2>1. orig \in Board
    BY ClassesAssumption DEF Init
  <2> QED
    BY <2>1, RepsMember
<1>3. Pending = {}
  BY DEF Init, Pending, StackPending
<1>4. Failures = {}
  BY DEF Init, Failures, NoDetails, ToSet
<1> QED
  BY <1>1, <1>2, <1>3, <1>4 DEF Search!Init

\* Every step is one of the search's, or leaves what the search sees as it is.
LEMMA NextRefines == IInv /\ [Next]_vars => [Search!Next]_(Search!vars)
<1> SUFFICES ASSUME IInv, [Next]_vars PROVE [Search!Next]_(Search!vars)
  OBVIOUS
<1> USE DEF IInv, TypeOK, Idle
<1> DEFINE stutter == /\ phase' = phase /\ Reps(orig)' = Reps(orig)
                      /\ Pending' = Pending /\ Failures' = Failures
<1>0. stutter => [Search!Next]_(Search!vars)
  BY DEF Search!vars
<1>1. CASE ParseBoard
  <2>1. stutter
    BY <1>1 DEF ParseBoard, phase, InProgress, Pending, Failures
  <2> QED
    BY <1>0, <2>1
<1>2. CASE SetPickOrder
  <2>1. Reps(orig)' = Reps(orig) /\ Pending' = Pending /\ Failures' = Failures
    BY <1>2 DEF SetPickOrder, Pending, Failures
  <2>2. CASE pc' = pc
    BY <1>0, <1>2, <2>1, <2>2 DEF SetPickOrder, phase, InProgress
  <2>3. CASE pc' = "exit"
    <3>1. phase \in {"idle", "done"} /\ phase' = "exit"
      BY <1>2, <2>3 DEF SetPickOrder, phase, InProgress
    <3> QED
      BY <2>1, <3>1 DEF Search!Next, Search!Exit
  <2> QED
    BY <1>2, <2>2, <2>3 DEF SetPickOrder
<1>3. CASE Break
  <2>1. phase \in {"idle", "done"} /\ phase' = "searching"
    BY <1>3 DEF Break, phase, InProgress
  <2>2. Reps(orig)' \in SUBSET SingleBoard
    BY <1>3, RepsMember DEF Break
  <2>3. Pending' = Reps(orig)'
    BY <1>3 DEF Break, Pending, StackPending
  <2>4. Failures' = {}
    BY <1>3 DEF Break, Failures, ResetDetails, NoDetails, ToSet
  <2> QED
    BY <2>1, <2>2, <2>3, <2>4 DEF Search!Next, Search!Start
<1>4. CASE Eliminate
  <2>1. phase = "searching" /\ phase' = "searching" /\ Reps(orig)' = Reps(orig)
    BY <1>4 DEF Eliminate, phase, InProgress
  <2>2. Failures' = Failures
    BY <1>4 DEF Eliminate, Failures, Details
  <2>3. Pending' = StackPending(stack) /\ Pending = Reps(bd) \cup StackPending(stack)
    BY <1>4 DEF Eliminate, Pending
  <2>4. Hot(Reps(bd)) = {}
    BY <1>4, EliminatedHasNoHotBoard DEF Eliminate
  <2>5. Pending' \in SUBSET Pending /\ Hot(Pending \ Pending') = {}
    BY <2>3, <2>4 DEF Hot
  <2>6. Search!Examine
    <3>1. Failures' = Failures \cup {} /\ {} \in SUBSET Search!Hot(Pending)
      BY <2>2
    <3>2. Search!Hot(Pending \ Pending') = {}
      BY <2>5 DEF Search!Hot, Hot
    <3> QED
      BY <2>1, <2>5, <3>1, <3>2 DEF Search!Examine
  <2> QED
    BY <2>6 DEF Search!Next
<1>5. CASE Fail
  <2> DEFINE t == BoardText(bd)
  <2>1. phase = "searching" /\ phase' = "searching" /\ Reps(orig)' = Reps(orig)
    BY <1>5 DEF Fail, phase, InProgress
  <2>2. IsSingle(bd)
    BY <1>5, PickedCellCorrect DEF Fail
  <2>3. Reps(bd) = {t} /\ Score(t) > BestScore
    BY <1>5, <2>2, SingleReps, FailureIsHot DEF Fail
  <2> HIDE DEF t
  <2>4. Failures' = Failures \cup {t}
    <3>1. details.failures \in Seq(Seq(Letters \cup {Dot}))
      BY DEF Details
    <3>2. t \in Seq(Letters \cup {Dot})
      <4>1. t \in SingleBoard
        BY <2>2, SingleReps DEF t
      <4>2. t \in [1..NumCells -> Letters \cup {Dot}] /\ NumCells \in Nat
        BY <4>1, CellsType DEF SingleBoard
      <4> QED
        BY ONLY <4>2, FunctionIsSeq, Zenon
    <3>3. details'.failures = Append(details.failures, t)
      BY <1>5 DEF Fail, Details, t
    <3>4. ToSet(Append(details.failures, t)) = ToSet(details.failures) \cup {t}
      BY ONLY <3>1, <3>2, ToSetAppend
    <3> QED
      BY <3>3, <3>4 DEF Failures
  <2>5. Pending' = StackPending(stack) /\ Pending = {t} \cup StackPending(stack)
    BY <1>5, <2>3 DEF Fail, Pending
  <2>6. Search!Examine
    <3>1. {t} \in SUBSET Search!Hot(Pending)
      BY <2>3, <2>5 DEF Search!Hot
    <3>2. Pending' \in SUBSET Pending /\ Search!Hot(Pending \ Pending') \subseteq Failures'
      BY <2>4, <2>5 DEF Search!Hot
    <3> QED
      BY <2>1, <2>4, <3>1, <3>2 DEF Search!Examine
  <2> QED
    BY <2>6 DEF Search!Next
<1>6. CASE Split
  <2> DEFINE p == PickedCell(bd)
             f == [orig_bd |-> bd, cell |-> p, splits |-> SplitsOf(bd[p]), i |-> 1]
  <2>1. p \in Cells /\ Len(bd[p]) > 1
    BY <1>6, PickedCellCorrect DEF Split
  <2>2. f \in Frame
    BY <2>1, SplitsCover DEF Frame
  <2>3. stack' = Append(stack, f) /\ pc = "attack" /\ pc' = "return"
    BY <1>6 DEF Split
  <2>4. FramePending(f) = Reps(bd)
    BY <2>1, SplitPending
  <2> HIDE DEF f
  <2>5. Pending' = Pending
    <3>1. StackPending(stack') = StackPending(stack) \cup FramePending(f)
      BY <2>2, <2>3, StackPendingAppend
    <3> QED
      BY <2>3, <2>4, <3>1 DEF Pending
  <2>6. Failures' = Failures
    BY <1>6 DEF Split, Failures, Details
  <2>7. phase' = phase /\ Reps(orig)' = Reps(orig)
    BY <1>6 DEF Split, phase, InProgress
  <2> QED
    BY <1>0, <2>5, <2>6, <2>7
<1>7. CASE TakeSplit
  <2>1. stack # <<>> /\ Top.i <= Len(Top.splits)
    BY <1>7 DEF TakeSplit
  <2>2. Top \in Frame /\ BelowTop \in Seq(Frame)
    BY <2>1, StackTop
  <2> DEFINE f == [Top EXCEPT !.i = @ + 1]
  <2>3. f \in Frame /\ f.orig_bd = Top.orig_bd /\ f.cell = Top.cell
        /\ f.splits = Top.splits /\ f.i = Top.i + 1
    <3>1. Top.i + 1 \in Nat \ {0}
      BY <2>2 DEF Frame
    <3> QED
      BY <2>2, <3>1 DEF Frame
  <2>4. stack' = Append(BelowTop, f) /\ pc = "return" /\ pc' = "attack"
        /\ bd' = SplitBoard(Top, Top.i)
    BY <1>7 DEF TakeSplit, NextBoard
  <2> HIDE DEF f
  <2>5. FramePending(Top) = FramePending(f) \cup Reps(SplitBoard(Top, Top.i))
    BY <2>1, <2>2, TakePending DEF f
  <2>6. Pending' = Pending
    <3>1. StackPending(stack') = StackPending(BelowTop) \cup FramePending(f)
      BY <2>2, <2>3, <2>4, StackPendingAppend
    <3>2. StackPending(stack) = StackPending(BelowTop) \cup FramePending(Top)
      BY <2>1, StackPendingTop
    <3> QED
      BY <2>4, <2>5, <3>1, <3>2 DEF Pending
  <2>7. phase' = phase /\ Reps(orig)' = Reps(orig) /\ Failures' = Failures
    BY <1>7 DEF TakeSplit, phase, InProgress, Failures
  <2> QED
    BY <1>0, <2>6, <2>7
<1>8. CASE EndSplits
  <2>1. stack # <<>> /\ stack' = BelowTop /\ pc = "return" /\ pc' = "return"
        /\ Top.i > Len(Top.splits)
    BY <1>8 DEF EndSplits
  <2>2. FramePending(Top) = {}
    <3>1. Top.i \in Nat /\ Len(Top.splits) \in Nat
      BY <2>1, StackTop, LenProperties DEF Frame
    <3>2. \A m, n \in Nat : m > n => m..n = {}
      OBVIOUS
    <3> QED
      BY <2>1, <3>1, <3>2 DEF FramePending, Remaining
  <2>3. Pending' = Pending
    BY <2>1, <2>2, StackPendingTop DEF Pending
  <2>4. phase' = phase /\ Reps(orig)' = Reps(orig) /\ Failures' = Failures
    BY <1>8 DEF EndSplits, phase, InProgress, Failures
  <2> QED
    BY <1>0, <2>3, <2>4
<1>9. CASE EndBreak
  <2>1. phase = "searching" /\ phase' = "done" /\ Reps(orig)' = Reps(orig)
    BY <1>9 DEF EndBreak, phase, InProgress
  <2>2. Pending = {} /\ Pending' = {}
    BY <1>9 DEF EndBreak, Pending, StackPending
  <2>3. Failures' = Failures
    BY <1>9 DEF EndBreak, Failures, Details
  <2> QED
    BY <2>1, <2>2, <2>3 DEF Search!Next, Search!Finish
<1>10. CASE UNCHANGED vars
  <2>1. stutter
    BY <1>10 DEF vars, phase, InProgress, Pending, Failures
  <2> QED
    BY <1>0, <2>1
<1> QED
  BY <1>1, <1>2, <1>3, <1>4, <1>5, <1>6, <1>7, <1>8, <1>9, <1>10
  DEF Next, Breaking

\* Break implements the abstract search: it never drops a board that beats
\* the best score, never reports another, and stops only when none is left.
THEOREM Refinement == ASSUME OrdersCoverCells PROVE Spec => ImplementsSearch
<1>1. Init => Search!Init
  BY InitRefines
<1>2. IInv /\ [Next]_vars => [Search!Next]_(Search!vars)
  BY NextRefines
<1>3. Spec => []IInv
  BY TypeInvariant
<1> QED
  BY <1>1, <1>2, <1>3, PTL DEF Spec, ImplementsSearch, Search!Spec

-----------------------------------------------------------------------------
(* The abstract search. *)

\* The three invariants together are inductive.
SearchInv == Search!TypeOK /\ Search!Partial /\ Search!Exact

\* Before Start nothing is pending and nothing found.
LEMMA InitSearchInv == Search!Init => SearchInv
  BY DEF Search!Init, SearchInv, Search!TypeOK, Search!Partial, Search!Exact

\* Examine and Finish keep found and pending together the hot boards.
LEMMA NextSearchInv == SearchInv /\ [Search!Next]_(Search!vars) => SearchInv'
<1> SUFFICES ASSUME SearchInv, [Search!Next]_(Search!vars) PROVE SearchInv'
  OBVIOUS
<1> USE DEF SearchInv, Search!TypeOK, Search!Partial, Search!Exact
<1>1. CASE Search!Start
  BY <1>1 DEF Search!Start, Search!Hot
<1>2. CASE Search!Examine
  <2>1. PICK X \in SUBSET Search!Hot(Pending) : Failures' = Failures \cup X
    BY <1>2 DEF Search!Examine
  <2>2. /\ phase = "searching" /\ phase' = phase /\ Reps(orig)' = Reps(orig)
        /\ Pending' \subseteq Pending
        /\ Search!Hot(Pending \ Pending') \subseteq Failures'
    BY <1>2 DEF Search!Examine
  <2>3. Failures' \subseteq Search!Hot(Reps(orig)')
    BY <2>1, <2>2 DEF Search!Hot
  <2>4. Search!Hot(Reps(orig)') \subseteq Failures' \cup Pending'
    <3>1. ASSUME NEW b \in Search!Hot(Reps(orig)) PROVE b \in Failures' \cup Pending'
      <4>1. CASE b \in Failures
        BY <2>1, <4>1
      <4>2. CASE b \in Pending /\ b \notin Pending'
        BY <2>2, <3>1, <4>2 DEF Search!Hot
      <4>3. CASE b \in Pending'
        BY <4>3
      <4> QED
        BY <2>2, <3>1, <4>1, <4>2, <4>3
    <3> QED
      BY <2>2, <3>1
  <2>5. Search!TypeOK'
    BY <2>2, <2>3 DEF Search!Hot
  <2> QED
    BY <2>2, <2>3, <2>4, <2>5
<1>3. CASE Search!Finish
  BY <1>3 DEF Search!Finish
<1>4. CASE Search!Exit
  BY <1>4 DEF Search!Exit
<1>5. CASE UNCHANGED Search!vars
  BY <1>5 DEF Search!vars, Search!Hot
<1> QED
  BY <1>1, <1>2, <1>3, <1>4, <1>5 DEF Search!Next

\* In any behaviour of the abstract search: while it runs every hot board is found
\* or pending; when it is over the boards found are exactly the hot ones.
THEOREM SearchCorrect == Search!Spec => [](Search!Partial /\ Search!Exact)
<1>1. SearchInv => Search!Partial /\ Search!Exact
  BY DEF SearchInv
<1> QED
  BY <1>1, InitSearchInv, NextSearchInv, PTL DEF Search!Spec

-----------------------------------------------------------------------------
(* What the search promises, read back on the breaker. *)

\* No step of Break loses a board that beats the best score.
THEOREM NothingIsLost == ASSUME OrdersCoverCells PROVE Spec => []NothingLost
<1>1. Spec => Search!Spec
  BY Refinement DEF ImplementsSearch
<1>2. Search!Spec => [](Search!Partial /\ Search!Exact)
  BY SearchCorrect
<1>3. Search!Partial => NothingLost
  BY DEF Search!Partial, Search!Hot, NothingLost, Hot, phase
<1> QED
  BY <1>1, <1>2, <1>3, PTL

\* When Break returns, its failures are exactly the boards of the class that
\* beat the best score.
THEOREM FailuresAreExact == ASSUME OrdersCoverCells PROVE Spec => []FailuresExact
<1>1. Spec => Search!Spec
  BY Refinement DEF ImplementsSearch
<1>2. Search!Spec => [](Search!Partial /\ Search!Exact)
  BY SearchCorrect
<1>3. Search!Exact => FailuresExact
  BY DEF Search!Exact, Search!Hot, FailuresExact, Hot, phase, InProgress
<1> QED
  BY <1>1, <1>2, <1>3, PTL
-----------------------------------------------------------------------------
(* The shared board: each open frame has narrowed it, and it stays narrowed. *)

\* What a frame puts into its cell are letters of that cell.
FrameNarrows(f) ==
    \A j \in 1..Len(f.splits) : ToSet(f.splits[j]) \subseteq ToSet(f.orig_bd[f.cell])

NestInv == FramesNest /\ \A n \in 1..Len(stack) : FrameNarrows(stack[n])

\* How the stack looks when a frame is put on another stack of frames.
LEMMA AppendFrame ==
    ASSUME NEW st \in Seq(Frame), NEW f \in Frame
    PROVE  /\ Append(st, f) \in Seq(Frame)
           /\ Len(st) \in Nat
           /\ Len(Append(st, f)) = Len(st) + 1
           /\ DOMAIN st = 1..Len(st)
           /\ DOMAIN Append(st, f) = 1..(Len(st) + 1)
           /\ \A n \in 1..(Len(st) + 1) :
                 \/ n \in 1..Len(st) /\ n # Len(st) + 1 /\ Append(st, f)[n] = st[n]
                 \/ n = Len(st) + 1 /\ n \notin 1..Len(st) /\ Append(st, f)[n] = f
           /\ \A n \in 1..Len(st) : n \in 1..(Len(st) + 1) /\ n < Len(st) + 1
  BY AppendCases

\* A split of a frame is narrower than the board the frame was called on.
LEMMA SplitNarrower ==
    ASSUME NEW f \in Frame, FrameNarrows(f), NEW j \in 1..Len(f.splits)
    PROVE  Narrower(SplitBoard(f, j), f.orig_bd)
<1>1. f.orig_bd \in Board /\ f.cell \in Cells
  BY DEF Frame
<1>2. ASSUME NEW k \in Cells
      PROVE  SplitBoard(f, j)[k] = IF k = f.cell THEN f.splits[j] ELSE f.orig_bd[k]
  BY <1>1, <1>2 DEF SplitBoard, Board
<1> QED
  BY <1>2 DEF Narrower, FrameNarrows

\* The frame that Split adds puts letters of its cell into it.
LEMMA NewFrameNarrows ==
    ASSUME NEW b \in Board, NEW k \in Cells, CellOK(b[k]), Len(b[k]) > 1, NEW n
    PROVE  FrameNarrows([orig_bd |-> b, cell |-> k, splits |-> SplitsOf(b[k]), i |-> n])
  BY SplitsCover DEF FrameNarrows

\* With no frame open there is nothing to nest.
LEMMA InitNest == Init => NestInv
  BY DEF Init, NestInv, FramesNest

\* Every step of a Break keeps the frames nested.
LEMMA NextNest ==
    ASSUME OrdersCoverCells
    PROVE  IInv /\ NestInv /\ [Next]_vars => NestInv'
<1> SUFFICES ASSUME IInv, NestInv, [Next]_vars PROVE NestInv'
  OBVIOUS
<1> USE DEF IInv, TypeOK
<1>0. Len(stack) \in Nat /\ DOMAIN stack = 1..Len(stack)
      /\ \A n \in 1..Len(stack) : stack[n] \in Frame
  BY LenProperties, ElementOfSeq
<1>1. CASE pc' # "attack" /\ stack' = stack
  BY <1>1 DEF NestInv, FramesNest
<1>2. CASE Break
  <2>1. stack' = <<>> /\ Len(stack') = 0 /\ DOMAIN stack' = {}
    BY <1>2 DEF Break, Idle
  <2> QED
    BY <2>1 DEF NestInv, FramesNest
<1>3. CASE Split
  <2> DEFINE p == PickedCell(bd)
             f == [orig_bd |-> bd, cell |-> p, splits |-> SplitsOf(bd[p]), i |-> 1]
  <2>1. p \in Cells /\ Len(bd[p]) > 1
    BY <1>3, PickedCellCorrect DEF Split
  <2>2. f \in Frame /\ FrameNarrows(f) /\ f.orig_bd = bd
    BY <2>1, SplitsCover, NewFrameNarrows DEF Frame
  <2>3. stack' = Append(stack, f) /\ pc = "attack" /\ pc' = "return"
    BY <1>3 DEF Split
  <2> HIDE DEF f
  <2> DEFINE l == Len(stack)
  <2>4. /\ l \in Nat /\ Len(stack') = l + 1 /\ DOMAIN stack' = 1..(l + 1)
        /\ \A n \in 1..(l + 1) :
              \/ n \in 1..l /\ n # l + 1 /\ stack'[n] = stack[n]
              \/ n = l + 1 /\ n \notin 1..l /\ stack'[n] = f
        /\ \A n \in 1..l : n \in 1..(l + 1) /\ n < l + 1
    BY <2>2, <2>3, AppendFrame
  <2>5. DOMAIN stack = 1..l
    BY <1>0
  <2> HIDE DEF l
  <2>6. \A n \in 1..Len(stack') : FrameNarrows(stack'[n])
    BY <2>2, <2>4 DEF NestInv, l
  <2>7. ASSUME NEW m \in 1..(l + 1), NEW n \in 1..(l + 1), m < n
        PROVE  Narrower(stack'[n].orig_bd, SplitBoard(stack'[m], stack'[m].i - 1))
    <3>1. m \in 1..l /\ stack'[m] = stack[m]
      <4>1. \A a \in Nat : \A x, y \in 1..(a + 1) : x < y => x # a + 1
        OBVIOUS
      <4> QED
        BY <2>4, <2>7, <4>1
    <3>2. CASE n \in 1..l
      <4>1. stack'[n] = stack[n]
        BY <2>4, <3>2
      <4> QED
        BY <2>5, <2>7, <3>1, <3>2, <4>1 DEF NestInv, FramesNest
    <3>3. CASE n \notin 1..l
      <4>1. stack'[n].orig_bd = bd
        BY <2>2, <2>4, <3>3
      <4> QED
        BY <2>3, <2>5, <3>1, <4>1 DEF NestInv, FramesNest
    <3> QED
      BY <3>2, <3>3
  <2> QED
    BY <2>3, <2>4, <2>6, <2>7 DEF NestInv, FramesNest
<1>4. CASE TakeSplit
  <2>1. stack # <<>> /\ Top.i <= Len(Top.splits)
    BY <1>4 DEF TakeSplit
  <2>2. /\ Len(stack) \in Nat \ {0} /\ Top \in Frame /\ BelowTop \in Seq(Frame)
        /\ Len(BelowTop) = Len(stack) - 1
        /\ \A n \in 1..Len(BelowTop) : n \in 1..Len(stack) /\ BelowTop[n] = stack[n]
    BY <2>1, StackTop
  <2>3. Top.i \in 1..Len(Top.splits) /\ Top.i \in Nat
    <3>1. Top.i \in Nat \ {0} /\ Len(Top.splits) \in Nat
      BY <2>2, LenProperties DEF Frame
    <3> QED
      BY <2>1, <3>1
  <2> DEFINE f == [Top EXCEPT !.i = @ + 1]
  <2>4. /\ f \in Frame /\ f.orig_bd = Top.orig_bd /\ f.cell = Top.cell
         /\ f.splits = Top.splits /\ f.i = Top.i + 1
    <3>1. Top.i + 1 \in Nat \ {0}
      BY <2>3
    <3> QED
      BY <2>2, <3>1 DEF Frame
  <2>5. stack' = Append(BelowTop, f) /\ bd' = SplitBoard(Top, Top.i)
    BY <1>4 DEF TakeSplit, NextBoard
  <2> HIDE DEF f
  <2>4a. /\ f \in Frame /\ f.orig_bd = Top.orig_bd /\ f.cell = Top.cell
        /\ f.splits = Top.splits /\ f.i - 1 = Top.i
    <3>1. \A x \in Nat : x + 1 - 1 = x
      OBVIOUS
    <3> QED
      BY <2>3, <2>4, <3>1
  <2> DEFINE l == Len(BelowTop)
  <2>6. /\ l \in Nat /\ Len(stack') = l + 1 /\ DOMAIN stack' = 1..(l + 1)
        /\ \A n \in 1..(l + 1) :
              \/ n \in 1..l /\ n # l + 1 /\ stack'[n] = BelowTop[n]
              \/ n = l + 1 /\ n \notin 1..l /\ stack'[n] = f
        /\ \A n \in 1..l : n \in 1..(l + 1) /\ n < l + 1
    BY <2>2, <2>4a, <2>5, AppendFrame
  <2>7. /\ Len(stack) = l + 1 /\ DOMAIN stack = 1..(l + 1) /\ stack[l + 1] = Top
        /\ \A n \in 1..l : BelowTop[n] = stack[n]
    <3>1. \A x \in Nat : x - 1 + 1 = x
      OBVIOUS
    <3> QED
      BY <1>0, <2>2, <3>1 DEF Top
  <2> HIDE DEF l
  <2>8. FrameNarrows(Top) /\ l + 1 \in 1..(l + 1)
    BY <2>6, <2>7 DEF NestInv
  <2>9. \A n \in 1..Len(stack') : FrameNarrows(stack'[n])
    <3>1. FrameNarrows(f)
      BY <2>4a, <2>8 DEF FrameNarrows
    <3> QED
      BY <2>6, <2>7, <3>1 DEF NestInv
  <2>10. SplitBoard(f, f.i - 1) = bd'
    BY <2>4a, <2>5 DEF SplitBoard
  <2>11. Narrower(bd', Top.orig_bd)
    BY <2>2, <2>3, <2>5, <2>8, SplitNarrower
  <2>12. ASSUME NEW m \in 1..l, NEW n \in 1..(l + 1), m < n
         PROVE  Narrower(stack[n].orig_bd, SplitBoard(stack[m], stack[m].i - 1))
    BY <2>6, <2>7, <2>12 DEF NestInv, FramesNest
  <2>13. ASSUME NEW m \in 1..(l + 1)
         PROVE  Narrower(bd', SplitBoard(stack'[m], stack'[m].i - 1))
    <3>1. CASE m \in 1..l
      <4>1. Narrower(Top.orig_bd, SplitBoard(stack[m], stack[m].i - 1))
        BY <2>6, <2>7, <2>8, <2>12, <3>1
      <4>2. stack'[m] = stack[m]
        BY <2>6, <2>7, <3>1
      <4> QED
        BY <2>11, <4>1, <4>2 DEF Narrower
    <3>2. CASE m \notin 1..l
      <4>1. stack'[m] = f
        BY <2>6, <3>2
      <4> QED
        BY <2>10, <4>1 DEF Narrower
    <3> QED
      BY <3>1, <3>2
  <2>14. Top' = f
    BY <2>6, <2>8 DEF Top
  <2>15. ASSUME NEW m \in 1..(l + 1), NEW n \in 1..(l + 1), m < n
         PROVE  Narrower(stack'[n].orig_bd, SplitBoard(stack'[m], stack'[m].i - 1))
    <3>1. m \in 1..l /\ stack'[m] = stack[m]
      <4>1. \A a \in Nat : \A x, y \in 1..(a + 1) : x < y => x # a + 1
        OBVIOUS
      <4> QED
        BY <2>6, <2>7, <2>15, <4>1
    <3>2. stack'[n].orig_bd = stack[n].orig_bd
      BY <2>4a, <2>6, <2>7
    <3> QED
      BY <2>12, <2>15, <3>1, <3>2
  <2> QED
    BY <2>6, <2>9, <2>10, <2>13, <2>14, <2>15 DEF NestInv, FramesNest
<1>5. CASE EndSplits
  <2>1. stack # <<>> /\ stack' = BelowTop /\ pc' = "return"
    BY <1>5 DEF EndSplits
  <2>2. /\ DOMAIN stack' = 1..Len(stack')
        /\ \A n \in 1..Len(stack') : n \in 1..Len(stack) /\ stack'[n] = stack[n]
    BY <2>1, StackTop, LenProperties
  <2> QED
    BY <1>0, <2>1, <2>2 DEF NestInv, FramesNest
<1>6. CASE ParseBoard \/ SetPickOrder \/ Eliminate \/ Fail \/ EndBreak
  <2>1. pc' # "attack" /\ stack' = stack
    BY <1>6 DEF ParseBoard, SetPickOrder, Eliminate, Fail, EndBreak, Idle
  <2> QED
    BY <1>1, <2>1
<1>7. CASE UNCHANGED vars
  <2>1. UNCHANGED <<pc, bd, stack>> /\ Top' = Top
    BY <1>7 DEF vars, Top
  <2> QED
    BY <2>1 DEF NestInv, FramesNest
<1> QED
  BY <1>2, <1>3, <1>4, <1>5, <1>6, <1>7 DEF Next, Breaking

\* At each attack the shared board is the split the innermost frame last took,
\* and no letter that any open frame removed is back on it
\* (Breaker::SplitBucket, the ParseBoard of its loop).
THEOREM LettersStayRemoved == ASSUME OrdersCoverCells PROVE Spec => []FramesNest
<1>1. Init => NestInv
  BY InitNest
<1>2. IInv /\ NestInv /\ [Next]_vars => NestInv'
  BY NextNest
<1>3. Spec => []IInv
  BY TypeInvariant
<1>4. NestInv => FramesNest
  BY DEF NestInv
<1> QED
  BY <1>1, <1>2, <1>3, <1>4, PTL DEF Spec
-----------------------------------------------------------------------------
(* No board is reported twice: what is left to examine is in pieces that     *)
(* share no board, as long as no cell and no group has a letter twice.       *)

\* The parts of a cell share no letter, and have none twice.
LEMMA SplitsApart ==
    ASSUME NoLetterTwice, NEW s, CellOK(s), Len(s) > 1, IsInjective(s)
    PROVE  /\ \A j \in 1..Len(SplitsOf(s)) : IsInjective(SplitsOf(s)[j])
           /\ \A i, j \in 1..Len(SplitsOf(s)) :
                 i # j => ToSet(SplitsOf(s)[i]) \cap ToSet(SplitsOf(s)[j]) = {}
<1>1. /\ s \in Seq(Letters) /\ Len(s) \in Nat /\ DOMAIN s = 1..Len(s)
  BY LenProperties DEF CellOK
<1>2. \A a, b \in 1..Len(s) : s[a] = s[b] => a = b
  BY <1>1 DEF IsInjective
<1>3. CASE Len(s) = FullLen
  <2>1. SplitsOf(s) = FullSplits /\ DOMAIN FullSplits = 1..Len(FullSplits)
    BY <1>3, SplitAssumption, LenProperties DEF SplitsOf
  <2> QED
    BY <2>1 DEF NoLetterTwice
<1>4. CASE Len(s) # FullLen /\ Len(s) >= ChunkLen
  <2>1. SplitsOf(s) = Quarters(s) /\ Len(Quarters(s)) = 4 /\ Len(s) >= 4
    <3>1. Len(Quarters(s)) = 4
      BY <1>4, QuartersCover
    <3>2. \A l, m \in Nat : l >= m /\ m >= 4 => l >= 4
      OBVIOUS
    <3>3. Len(s) >= 4
      BY <1>1, <1>4, <3>2, SplitAssumption
    <3> QED
      BY <1>4, <3>1, <3>3 DEF SplitsOf
  <2> DEFINE At(q) == QuarterStart(s, q)
  <2>2. \A q \in 0..4 : At(q) \in 0..Len(s)
    BY <1>1, <2>1, QuarterBounds
  <2>3. At(0) <= At(1) /\ At(1) <= At(2) /\ At(2) <= At(3) /\ At(3) <= At(4)
    <3>1. \A q \in 1..4 : At(q - 1) < At(q)
      BY <1>1, <2>1, QuarterBounds
    <3>2. /\ At(1 - 1) = At(0) /\ At(2 - 1) = At(1)
          /\ At(3 - 1) = At(2) /\ At(4 - 1) = At(3)
      OBVIOUS
    <3>3. At(0) < At(1) /\ At(1) < At(2) /\ At(2) < At(3) /\ At(3) < At(4)
      BY <3>1, <3>2
    <3> HIDE DEF At
    <3>4. \A m \in Nat : \A x, y \in 0..m : x < y => x <= y
      OBVIOUS
    <3> QED
      BY <1>1, <2>2, <3>3, <3>4
  <2>4. ASSUME NEW j \in 1..4
        PROVE  /\ DOMAIN Quarters(s)[j] = 1..(At(j) - At(j - 1))
               /\ \A i \in 1..(At(j) - At(j - 1)) : Quarters(s)[j][i] = s[At(j - 1) + i]
    BY SMTT(20), <1>1, <2>1, QuarterLetters, LenProperties
  <2> HIDE DEF At
  <2>5. ASSUME NEW j \in 1..4, NEW x \in DOMAIN Quarters(s)[j]
        PROVE  /\ At(j - 1) + x \in 1..Len(s)
               /\ At(j - 1) + x > At(j - 1) /\ At(j - 1) + x <= At(j)
               /\ Quarters(s)[j][x] = s[At(j - 1) + x]
    <3>1. At(j - 1) \in 0..Len(s) /\ At(j) \in 0..Len(s)
      BY <2>2
    <3>2. x \in 1..(At(j) - At(j - 1))
      BY <2>4, <2>5
    <3>3. \A l \in Nat : \A a, b \in 0..l : \A y \in 1..(b - a) :
              a + y \in 1..l /\ a + y > a /\ a + y <= b
      OBVIOUS
    <3> QED
      BY <1>1, <2>4, <3>1, <3>2, <3>3
  <2>6. ASSUME NEW j \in 1..4 PROVE IsInjective(Quarters(s)[j])
    <3>1. ASSUME NEW x \in DOMAIN Quarters(s)[j], NEW y \in DOMAIN Quarters(s)[j],
                 Quarters(s)[j][x] = Quarters(s)[j][y]
          PROVE  x = y
      <4>1. At(j - 1) + x = At(j - 1) + y
        <5>1. At(j - 1) + x \in 1..Len(s) /\ Quarters(s)[j][x] = s[At(j - 1) + x]
          BY <2>5
        <5>2. At(j - 1) + y \in 1..Len(s) /\ Quarters(s)[j][y] = s[At(j - 1) + y]
          BY <2>5
        <5> QED
          BY ONLY <1>2, <3>1, <5>1, <5>2
      <4>2. x \in Int /\ y \in Int /\ At(j - 1) \in Int
        <5>1. x \in 1..(At(j) - At(j - 1)) /\ y \in 1..(At(j) - At(j - 1))
          BY <2>4
        <5>2. At(j - 1) \in 0..Len(s) /\ At(j) \in 0..Len(s)
          BY <2>2
        <5>3. \A l \in Nat : \A a, b \in 0..l : a \in Int /\ 1..(b - a) \subseteq Int
          OBVIOUS
        <5> QED
          BY <1>1, <5>1, <5>2, <5>3
      <4> QED
        BY <4>1, <4>2
    <3> QED
      BY <3>1 DEF IsInjective
  <2>7. ASSUME NEW i \in 1..4, NEW j \in 1..4, i < j
        PROVE  ToSet(Quarters(s)[i]) \cap ToSet(Quarters(s)[j]) = {}
    <3>1. ASSUME NEW x \in DOMAIN Quarters(s)[i], NEW y \in DOMAIN Quarters(s)[j],
                 Quarters(s)[i][x] = Quarters(s)[j][y]
          PROVE  FALSE
      <4>1. At(i - 1) + x = At(j - 1) + y
        <5>1. At(i - 1) + x \in 1..Len(s) /\ Quarters(s)[i][x] = s[At(i - 1) + x]
          BY <2>5
        <5>2. At(j - 1) + y \in 1..Len(s) /\ Quarters(s)[j][y] = s[At(j - 1) + y]
          BY <2>5
        <5> QED
          BY ONLY <1>2, <3>1, <5>1, <5>2
      <4>2. At(i - 1) + x <= At(i) /\ At(j - 1) + y > At(j - 1)
        BY <2>5
      <4>3. At(i) <= At(j - 1)
        <5>1. \A q \in 0..4 : At(q) \in Int
          BY <1>1, <2>2
        <5>2. \A a, b, c \in Int : a <= b /\ b <= c => a <= c
          OBVIOUS
        <5>3. CASE i = 1 /\ j = 2
          BY <2>3, <5>1, <5>3
        <5>4. CASE i = 1 /\ j = 3
          BY <2>3, <5>1, <5>4
        <5>5. CASE i = 1 /\ j = 4
          BY <2>3, <5>1, <5>5
        <5>6. CASE i = 2 /\ j = 3
          BY <2>3, <5>1, <5>6
        <5>7. CASE i = 2 /\ j = 4
          BY <2>3, <5>1, <5>7
        <5>8. CASE i = 3 /\ j = 4
          BY <2>3, <5>1, <5>8
        <5> QED
          BY <2>7, <5>3, <5>4, <5>5, <5>6, <5>7, <5>8
      <4>4. \A a, b, c, d \in Int : a <= b /\ c > d /\ b <= d => a # c
        OBVIOUS
      <4>5. /\ At(i - 1) + x \in Int /\ At(j - 1) + y \in Int
            /\ At(i) \in Int /\ At(j - 1) \in Int
        BY SMTT(20), <1>1, <2>2, <2>5
      <4> QED
        BY <4>1, <4>2, <4>3, <4>4, <4>5
    <3> QED
      BY <3>1 DEF ToSet
  <2>8. \A i, j \in 1..4 : i # j => i < j \/ j < i
    OBVIOUS
  <2> QED
    BY <2>1, <2>6, <2>7, <2>8
<1>5. CASE Len(s) # FullLen /\ ~(Len(s) >= ChunkLen)
  <2>1. SplitsOf(s) = Singletons(s) /\ Len(Singletons(s)) = Len(s)
    BY <1>5, SingletonsCover DEF SplitsOf
  <2>2. ASSUME NEW j \in 1..Len(s)
        PROVE  IsInjective(Singletons(s)[j]) /\ ToSet(Singletons(s)[j]) = {s[j]}
    <3>1. Singletons(s)[j] = <<s[j]>>
      BY DEF Singletons
    <3>2. DOMAIN <<s[j]>> = {1}
      OBVIOUS
    <3> QED
      BY <3>1, <3>2 DEF IsInjective, ToSet
  <2>3. ASSUME NEW i \in 1..Len(s), NEW j \in 1..Len(s), i # j
        PROVE  ToSet(Singletons(s)[i]) \cap ToSet(Singletons(s)[j]) = {}
    <3>1. s[i] # s[j]
      BY <1>2, <2>3
    <3>2. ToSet(Singletons(s)[i]) = {s[i]} /\ ToSet(Singletons(s)[j]) = {s[j]}
      BY <2>2
    <3> QED
      BY ONLY <3>1, <3>2, Zenon
  <2> QED
    BY <2>1, <2>2, <2>3
<1> QED
  BY <1>3, <1>4, <1>5

\* What a frame splits has no letter twice, and its splits share no board.
FrameApart(f) ==
    /\ \A k \in Cells : IsInjective(f.orig_bd[k])
    /\ \A j \in 1..Len(f.splits) : IsInjective(f.splits[j])
    /\ \A i, j \in 1..Len(f.splits) :
          i # j => Reps(SplitBoard(f, i)) \cap Reps(SplitBoard(f, j)) = {}

\* Whatever is left to examine is left once, and was not reported before.
ApartInv ==
    /\ \A k \in Cells : IsInjective(bd[k])
    /\ \A n \in 1..Len(stack) : FrameApart(stack[n])
    /\ NoDuplicateFailures
    /\ InProgress => Failures \cap Pending = {}
    /\ pc = "attack" => Reps(bd) \cap StackPending(stack) = {}
    /\ \A m, n \in 1..Len(stack) :
          m # n => FramePending(stack[m]) \cap FramePending(stack[n]) = {}

\* The frame that Split adds.
LEMMA NewFrameApart ==
    ASSUME NoLetterTwice, NEW b \in Board, \A k \in Cells : IsInjective(b[k]),
           NEW c \in Cells, CellOK(b[c]), Len(b[c]) > 1, NEW n
    PROVE  FrameApart([orig_bd |-> b, cell |-> c, splits |-> SplitsOf(b[c]), i |-> n])
<1> DEFINE S == SplitsOf(b[c])
           f == [orig_bd |-> b, cell |-> c, splits |-> S, i |-> n]
<1>1. /\ S \in Seq(Seq(Letters))
      /\ \A j \in 1..Len(S) : S[j] # <<>> /\ S[j] \in Seq(Letters)
  BY SplitsCover, ElementOfSeq
<1>2. /\ \A j \in 1..Len(S) : IsInjective(S[j])
      /\ \A i, j \in 1..Len(S) : i # j => ToSet(S[i]) \cap ToSet(S[j]) = {}
  BY SplitsApart
<1> HIDE DEF S
<1>3. f.orig_bd = b /\ f.splits = S
      /\ \A j : SplitBoard(f, j) = [b EXCEPT ![c] = S[j]]
  BY DEF SplitBoard
<1>4. ASSUME NEW j \in 1..Len(S), NEW r \in Reps([b EXCEPT ![c] = S[j]])
      PROVE  r[c] \in ToSet(S[j])
  <2>1. [b EXCEPT ![c] = S[j]] \in Board /\ [b EXCEPT ![c] = S[j]][c] = S[j]
    BY <1>1 DEF Board
  <2> QED
    BY <1>1, <1>4, <2>1, RepsMember DEF LettersOf
<1> HIDE DEF f
<1>5. ASSUME NEW i \in 1..Len(S), NEW j \in 1..Len(S), i # j
      PROVE  Reps(SplitBoard(f, i)) \cap Reps(SplitBoard(f, j)) = {}
  <2>1. ToSet(S[i]) \cap ToSet(S[j]) = {}
    BY <1>2, <1>5
  <2>2. /\ \A r \in Reps(SplitBoard(f, i)) : r[c] \in ToSet(S[i])
        /\ \A r \in Reps(SplitBoard(f, j)) : r[c] \in ToSet(S[j])
    BY <1>3, <1>4
  <2> QED
    BY ONLY <2>1, <2>2
<1>6. FrameApart(f)
  BY <1>2, <1>3, <1>5 DEF FrameApart
<1> QED
  BY <1>6 DEF f, S

\* The boards pending in a stack are pending in one of its frames.
LEMMA StackPendingMember ==
    ASSUME NEW st \in Seq(Frame)
    PROVE  /\ \A n \in 1..Len(st) : FramePending(st[n]) \subseteq StackPending(st)
           /\ \A r \in StackPending(st) : \E n \in 1..Len(st) : r \in FramePending(st[n])
<1>1. DOMAIN st = 1..Len(st)
  BY LenProperties
<1> QED
  BY <1>1 DEF StackPending

\* Before the first Break nothing is reported and nothing is left to examine.
LEMMA InitApart == ASSUME NoLetterTwice PROVE Init => ApartInv
<1> SUFFICES ASSUME Init PROVE ApartInv
  OBVIOUS
<1>1. details.failures = <<>> /\ stack = <<>> /\ pc = "idle" /\ bd \in Classes
  BY DEF Init, NoDetails
<1> QED
  BY <1>1 DEF ApartInv, NoDuplicateFailures, InProgress, NoLetterTwice

\* Every step of a Break keeps what is left to examine apart.
LEMMA NextApart ==
    ASSUME OrdersCoverCells, NoLetterTwice
    PROVE  IInv /\ ApartInv /\ [Next]_vars => ApartInv'
<1> SUFFICES ASSUME IInv, ApartInv, [Next]_vars PROVE ApartInv'
  OBVIOUS
<1> USE DEF IInv, TypeOK
<1>0. Len(stack) \in Nat /\ \A n \in 1..Len(stack) : stack[n] \in Frame
  BY LenProperties, ElementOfSeq
<1>1. ASSUME details'.failures = details.failures
      PROVE  NoDuplicateFailures' /\ Failures' = Failures
  BY <1>1 DEF ApartInv, NoDuplicateFailures, Failures
<1>2. CASE ParseBoard
  <2>1. details' = details /\ stack' = stack /\ pc' = pc /\ pc \in {"idle", "done"}
    BY <1>2 DEF ParseBoard, Idle
  <2>2. \A k \in Cells : IsInjective(bd'[k])
    BY <1>2 DEF ParseBoard, NoLetterTwice
  <2> QED
    BY <1>1, <2>1, <2>2 DEF ApartInv, InProgress
<1>3. CASE SetPickOrder
  <2>1. /\ details' = details /\ stack' = stack /\ bd' = bd
        /\ pc' \in {"idle", "done", "exit"}
    BY <1>3 DEF SetPickOrder, Idle
  <2> QED
    BY <1>1, <2>1 DEF ApartInv, InProgress
<1>4. CASE Break
  <2>1. /\ details'.failures = <<>> /\ stack' = <<>> /\ bd' = bd
    BY <1>4 DEF Break, Idle, ResetDetails, NoDetails
  <2>2. Failures' = {} /\ StackPending(stack') = {} /\ Len(stack') = 0
    BY <2>1 DEF Failures, ToSet, StackPending
  <2>3. NoDuplicateFailures'
    BY <2>1 DEF NoDuplicateFailures
  <2> QED
    BY <2>1, <2>2, <2>3 DEF ApartInv
<1>5. CASE Eliminate
  <2>1. details'.failures = details.failures
    BY <1>5 DEF Eliminate, Details
  <2>2. stack' = stack /\ bd' = bd /\ pc = "attack" /\ pc' = "return"
    BY <1>5 DEF Eliminate
  <2>3. Pending' \subseteq Pending
    BY <2>2 DEF Pending
  <2> QED
    BY <1>1, <2>1, <2>2, <2>3 DEF ApartInv, InProgress
<1>6. CASE Fail
  <2> DEFINE t == BoardText(bd)
  <2>1. Reps(bd) = {t} /\ t \in SingleBoard
    BY <1>6, PickedCellCorrect, SingleReps DEF Fail
  <2>2. t \in Seq(Letters \cup {Dot})
    <3>1. t \in [1..NumCells -> Letters \cup {Dot}] /\ NumCells \in Nat
      BY <2>1, CellsType DEF SingleBoard
    <3> QED
      BY ONLY <3>1, FunctionIsSeq, Zenon
  <2>3. /\ details.failures \in Seq(Seq(Letters \cup {Dot}))
        /\ details'.failures = Append(details.failures, t)
    BY <1>6 DEF Fail, Details
  <2>4. /\ stack' = stack /\ bd' = bd /\ pc = "attack" /\ pc' = "return"
    BY <1>6 DEF Fail
  <2> HIDE DEF t
  <2> DEFINE a == Append(details.failures, t)
             l == Len(details.failures)
  <2>5. /\ l \in Nat /\ DOMAIN details.failures = 1..l /\ DOMAIN a = 1..(l + 1)
        /\ \A n \in 1..l : a[n] = details.failures[n]
        /\ a[l + 1] = t
    <3>1. /\ a \in Seq(Seq(Letters \cup {Dot})) /\ Len(a) = l + 1
          /\ \A n \in 1..l : a[n] = details.failures[n]
          /\ a[l + 1] = t
      BY <2>2, <2>3, AppendProperties
    <3>2. l \in Nat /\ DOMAIN details.failures = 1..l
      BY <2>3, LenProperties
    <3> QED
      BY <3>1, <3>2, LenProperties
  <2>6. t \notin Failures /\ t \notin StackPending(stack)
    BY <2>1, <2>4 DEF ApartInv, InProgress, Pending
  <2>7. \A n \in 1..l : details.failures[n] # t
    BY <2>5, <2>6 DEF Failures, ToSet
  <2>8. Failures' = Failures \cup {t}
    BY <2>2, <2>3, ToSetAppend DEF Failures
  <2>9. NoDuplicateFailures'
    <3>1. \A m, n \in 1..l : details.failures[m] = details.failures[n] => m = n
      BY <2>5 DEF ApartInv, NoDuplicateFailures
    <3> HIDE DEF a, l
    <3>2. \A n \in 1..(l + 1) : n \in 1..l \/ n = l + 1
      BY <2>5
    <3>3. \A m, n \in 1..(l + 1) : a[m] = a[n] => m = n
      BY <2>5, <2>7, <3>1, <3>2
    <3>4. details'.failures = a
      BY <2>3 DEF a
    <3> QED
      BY <2>5, <3>3, <3>4 DEF NoDuplicateFailures
  <2>10. Pending' = StackPending(stack) /\ StackPending(stack) \subseteq Pending
    BY <2>4 DEF Pending
  <2> QED
    BY <2>4, <2>6, <2>8, <2>9, <2>10 DEF ApartInv, InProgress
<1>7. CASE Split
  <2> DEFINE p == PickedCell(bd)
             f == [orig_bd |-> bd, cell |-> p, splits |-> SplitsOf(bd[p]), i |-> 1]
  <2>1. p \in Cells /\ Len(bd[p]) > 1
    BY <1>7, PickedCellCorrect DEF Split
  <2>2. f \in Frame /\ FrameApart(f) /\ FramePending(f) = Reps(bd)
    <3>1. f \in Frame
      BY <2>1, SplitsCover DEF Frame
    <3>2. FrameApart(f)
      BY <2>1, NewFrameApart DEF ApartInv
    <3> QED
      BY <2>1, <3>1, <3>2, SplitPending
  <2>3. /\ stack' = Append(stack, f) /\ bd' = bd
        /\ pc = "attack" /\ pc' = "return"
    BY <1>7 DEF Split
  <2>4. details'.failures = details.failures
    BY <1>7 DEF Split, Details
  <2> HIDE DEF f
  <2> DEFINE l == Len(stack)
  <2>5. /\ Len(stack') = l + 1
        /\ \A n \in 1..(l + 1) :
              \/ n \in 1..l /\ n # l + 1 /\ stack'[n] = stack[n]
              \/ n = l + 1 /\ n \notin 1..l /\ stack'[n] = f
    BY <2>2, <2>3, AppendFrame
  <2>6. Pending' = Pending
    <3>1. StackPending(stack') = StackPending(stack) \cup FramePending(f)
      BY <2>2, <2>3, StackPendingAppend
    <3> QED
      BY <2>2, <2>3, <3>1 DEF Pending
  <2>7. \A n \in 1..l : FramePending(stack[n]) \cap FramePending(f) = {}
    <3>1. Reps(bd) \cap StackPending(stack) = {}
      BY <2>3 DEF ApartInv
    <3> QED
      BY <2>2, <3>1, StackPendingMember
  <2> HIDE DEF l
  <2>8. ASSUME NEW m \in 1..(l + 1), NEW n \in 1..(l + 1), m # n
        PROVE  FramePending(stack'[m]) \cap FramePending(stack'[n]) = {}
    <3>1. CASE m \in 1..l /\ n \in 1..l
      <4>1. stack'[m] = stack[m] /\ stack'[n] = stack[n]
        BY <2>5, <3>1
      <4> QED
        BY <2>8, <3>1, <4>1 DEF ApartInv, l
    <3>2. CASE m \in 1..l /\ n \notin 1..l
      BY <2>5, <2>7, <3>2
    <3>3. CASE m \notin 1..l /\ n \in 1..l
      <4>1. stack'[n] = stack[n] /\ stack'[m] = f
        BY <2>5, <3>3
      <4>2. FramePending(stack[n]) \cap FramePending(f) = {}
        BY <2>7, <3>3
      <4> QED
        BY <4>1, <4>2
    <3>4. CASE m \notin 1..l /\ n \notin 1..l
      BY <2>5, <2>8, <3>4
    <3> QED
      BY <3>1, <3>2, <3>3, <3>4
  <2>9. \A n \in 1..(l + 1) : FrameApart(stack'[n])
    BY <2>2, <2>5 DEF ApartInv, l
  <2> QED
    BY <1>1, <2>3, <2>4, <2>5, <2>6, <2>8, <2>9 DEF ApartInv, InProgress
<1>8. CASE TakeSplit
  <2>1. stack # <<>> /\ Top.i <= Len(Top.splits)
    BY <1>8 DEF TakeSplit
  <2>2. /\ Len(stack) \in Nat \ {0} /\ Top \in Frame /\ BelowTop \in Seq(Frame)
        /\ Len(BelowTop) = Len(stack) - 1
        /\ \A n \in 1..Len(BelowTop) : n \in 1..Len(stack) /\ BelowTop[n] = stack[n]
    BY <2>1, StackTop
  <2>3. Top.i \in 1..Len(Top.splits)
    <3>1. Top.i \in Nat \ {0} /\ Len(Top.splits) \in Nat
      BY <2>2, LenProperties DEF Frame
    <3> QED
      BY <2>1, <3>1
  <2> DEFINE f == [Top EXCEPT !.i = @ + 1]
             B == SplitBoard(Top, Top.i)
  <2>4. /\ f \in Frame /\ f.orig_bd = Top.orig_bd /\ f.cell = Top.cell
        /\ f.splits = Top.splits
    <3>1. Top.i + 1 \in Nat \ {0}
      BY <2>2 DEF Frame
    <3> QED
      BY <2>2, <3>1 DEF Frame
  <2>5. /\ stack' = Append(BelowTop, f) /\ bd' = B
        /\ pc = "return" /\ pc' = "attack" /\ details' = details
    BY <1>8 DEF TakeSplit, NextBoard
  <2>6. /\ FramePending(Top) = FramePending(f) \cup Reps(B)
        /\ \A r \in FramePending(f) :
              \E j \in 1..Len(Top.splits) : j # Top.i /\ r \in Reps(SplitBoard(Top, j))
    BY <2>1, <2>2, TakePending
  <2> HIDE DEF f
  <2> DEFINE l == Len(BelowTop)
  <2>7. /\ l \in Nat /\ Len(stack') = l + 1
        /\ \A n \in 1..(l + 1) :
              \/ n \in 1..l /\ n # l + 1 /\ stack'[n] = BelowTop[n]
              \/ n = l + 1 /\ n \notin 1..l /\ stack'[n] = f
    BY <2>2, <2>4, <2>5, AppendFrame
  <2>8. /\ Len(stack) = l + 1 /\ stack[l + 1] = Top
        /\ \A n \in 1..l : BelowTop[n] = stack[n]
        /\ \A n \in 1..l : n \in 1..(l + 1) /\ n # l + 1
        /\ l + 1 \in 1..(l + 1)
    <3>1. \A x \in Nat : x - 1 + 1 = x
      OBVIOUS
    <3>2. \A x \in Nat : /\ x + 1 \in 1..(x + 1)
                         /\ \A n \in 1..x : n \in 1..(x + 1) /\ n # x + 1
      OBVIOUS
    <3> QED
      BY <1>0, <2>2, <2>7, <3>1, <3>2 DEF Top
  <2> HIDE DEF l
  <2>9. FrameApart(Top)
    BY <2>8 DEF ApartInv
  <2>10. /\ \A n \in 1..(l + 1) : FrameApart(stack'[n])
    <3>1. FrameApart(f)
      <4>1. \A j : SplitBoard(f, j) = SplitBoard(Top, j)
        BY <2>4 DEF SplitBoard
      <4> QED
        BY <2>4, <2>9, <4>1 DEF FrameApart
    <3>2. \A n \in 1..(l + 1) : FrameApart(stack[n])
      BY <2>8 DEF ApartInv
    <3> QED
      BY <2>7, <2>8, <3>1, <3>2
  <2>11. Reps(B) \cap FramePending(f) = {}
    BY <2>3, <2>6, <2>9 DEF FrameApart
  <2>12. ASSUME NEW m \in 1..(l + 1), NEW n \in 1..(l + 1), m # n
         PROVE  FramePending(stack[m]) \cap FramePending(stack[n]) = {}
    BY <2>8, <2>12 DEF ApartInv
  <2>13. \A n \in 1..l : FramePending(stack[n]) \cap FramePending(Top) = {}
    <3>1. ASSUME NEW n \in 1..l
          PROVE  FramePending(stack[n]) \cap FramePending(stack[l + 1]) = {}
      <4>1. n \in 1..(l + 1) /\ l + 1 \in 1..(l + 1) /\ n # l + 1
        BY <2>8
      <4> QED
        BY <2>12, <4>1
    <3> QED
      BY <2>8, <3>1
  <2>14. Reps(B) \cap StackPending(BelowTop) = {}
    <3>1. \A r \in StackPending(BelowTop) : \E n \in 1..l : r \in FramePending(stack[n])
      BY <2>2, <2>8, StackPendingMember DEF l
    <3> QED
      BY <2>6, <2>13, <3>1
  <2>15. StackPending(stack') = StackPending(BelowTop) \cup FramePending(f)
    BY <2>2, <2>4, <2>5, StackPendingAppend
  <2>16. Pending' = Pending
    <3>1. StackPending(stack) = StackPending(BelowTop) \cup FramePending(Top)
      BY <2>1, StackPendingTop
    <3> QED
      BY <2>5, <2>6, <2>15, <3>1 DEF Pending
  <2>17. ASSUME NEW m \in 1..(l + 1), NEW n \in 1..(l + 1), m # n
         PROVE  FramePending(stack'[m]) \cap FramePending(stack'[n]) = {}
    <3>1. \A k \in 1..(l + 1) : FramePending(stack'[k]) \subseteq FramePending(stack[k])
      BY <2>6, <2>7, <2>8
    <3> QED
      BY <2>12, <2>17, <3>1
  <2>18. \A k \in Cells : IsInjective(bd'[k])
    <3>1. Top.orig_bd \in Board /\ Top.cell \in Cells
      BY <2>2 DEF Frame
    <3>2. \A k \in Cells : B[k] = IF k = Top.cell THEN Top.splits[Top.i]
                                  ELSE Top.orig_bd[k]
      BY <3>1 DEF SplitBoard, Board
    <3> QED
      BY <2>3, <2>5, <2>9, <3>2 DEF FrameApart
  <2> HIDE DEF B
  <2> QED
    BY <1>1, <2>5, <2>7, <2>10, <2>11, <2>14, <2>15, <2>16, <2>17, <2>18
    DEF ApartInv, InProgress
<1>9. CASE EndSplits
  <2>1. /\ stack # <<>> /\ stack' = BelowTop /\ bd' = bd /\ details' = details
        /\ pc = "return" /\ pc' = "return"
    BY <1>9 DEF EndSplits
  <2>2. /\ \A n \in 1..Len(stack') : n \in 1..Len(stack) /\ stack'[n] = stack[n]
    BY <2>1, StackTop
  <2>3. Pending' \subseteq Pending
    BY <2>1, StackPendingTop DEF Pending
  <2> QED
    BY <1>1, <2>1, <2>2, <2>3 DEF ApartInv, InProgress
<1>10. CASE EndBreak
  <2>1. details'.failures = details.failures
    BY <1>10 DEF EndBreak, Details
  <2>2. stack' = stack /\ bd' = bd /\ pc' = "done"
    BY <1>10 DEF EndBreak
  <2> QED
    BY <1>1, <2>1, <2>2 DEF ApartInv, InProgress
<1>11. CASE UNCHANGED vars
  <2>1. UNCHANGED <<pc, bd, stack, details>> /\ Pending' = Pending
    BY <1>11 DEF vars, Pending
  <2> QED
    BY <1>1, <2>1 DEF ApartInv, InProgress
<1> QED
  BY <1>2, <1>3, <1>4, <1>5, <1>6, <1>7, <1>8, <1>9, <1>10, <1>11
  DEF Next, Breaking

\* Break reports no board twice, whatever the details held before it was called
\* (Breaker::Break resets failures; the splits of a cell share no letter).
THEOREM NothingIsReportedTwice ==
    ASSUME OrdersCoverCells, NoLetterTwice
    PROVE  Spec => []NoDuplicateFailures
<1>1. Init => ApartInv
  BY InitApart
<1>2. IInv /\ ApartInv /\ [Next]_vars => ApartInv'
  BY NextApart
<1>3. Spec => []IInv
  BY TypeInvariant
<1>4. ApartInv => NoDuplicateFailures
  BY DEF ApartInv
<1> QED
  BY <1>1, <1>2, <1>3, <1>4, PTL DEF Spec

-----------------------------------------------------------------------------
(* The depth of the recursion: each split takes one off what the cells allow. *)

\* BoardDepth is the sum of what the cells allow.
LEMMA BoardDepthIsSum ==
    ASSUME NEW b \in Board
    PROVE  /\ BoardDepth(b) = SumOf([k \in Cells |-> SplitDepth(b[k])], Cells)
           /\ BoardDepth(b) \in Nat
<1> DEFINE g == [k \in Cells |-> SplitDepth(b[k])]
           Eq(f) == f = [s \in SUBSET Cells |->
                            IF s = {} THEN 0
                            ELSE LET x == CHOOSE x \in s : TRUE
                                 IN  SplitDepth(b[x]) + f[s \ {x}]]
           F == CHOOSE f : Eq(f)
<1>1. IsFiniteSet(Cells)
  BY CellsFinite
<1>2. \A k \in Cells : g[k] = SplitDepth(b[k]) /\ g[k] \in Nat
  BY DEF SplitDepth
<1>3. ASSUME NEW f, NEW s \in SUBSET Cells
      PROVE  SumStep(f, g, s) = IF s = {} THEN 0
                                ELSE LET x == CHOOSE x \in s : TRUE
                                     IN  SplitDepth(b[x]) + f[s \ {x}]
  <2>1. CASE s = {}
    BY <2>1 DEF SumStep
  <2>2. CASE s # {}
    <3> DEFINE x == CHOOSE x \in s : TRUE
    <3>1. x \in Cells
      BY <2>2
    <3>2. g[x] = SplitDepth(b[x])
      BY <1>2, <3>1
    <3> HIDE DEF g
    <3> QED
      BY <2>2, <3>2 DEF SumStep
  <2> QED
    BY <2>1, <2>2
<1> HIDE DEF g
<1>4. \A f : IsSum(f, g, Cells) <=> Eq(f)
  BY <1>3 DEF IsSum
<1>5. BoardDepth(b) = F[Cells]
  BY DEF BoardDepth, MapThenSumSet, MapThenFoldSet
<1> HIDE DEF Eq
<1>6. \E f : Eq(f)
  <2>1. \E f : IsSum(f, g, Cells)
    BY <1>1, SumExists
  <2> QED
    BY <1>4, <2>1
<1>7. Eq(F)
  BY <1>6
<1> HIDE DEF F
<1>8. F[Cells] = SumOf(g, Cells)
  <2>1. IsSum(F, g, Cells)
    BY <1>4, <1>7
  <2> QED
    BY <1>1, <2>1, SumOfSubset
<1>9. SumOf(g, Cells) \in Nat
  BY <1>1, <1>2, SumNat
<1> QED
  BY <1>5, <1>8, <1>9 DEF g

\* A quarter has at most a fourth of the letters, rounded up.
LEMMA QuarterLength ==
    ASSUME NEW s, CellOK(s), Len(s) >= ChunkLen, Len(s) # FullLen, NEW j \in 1..4
    PROVE  Len(Quarters(s)[j]) \in Nat /\ Len(Quarters(s)[j]) < ChunkLen
<1>1. /\ s \in Seq(Letters) /\ Len(s) \in Nat /\ ChunkLen \in Nat
      /\ Len(s) >= 4 /\ Len(s) <= 4 * ChunkLen - 4
  <2>1. /\ ChunkLen \in Nat /\ ChunkLen >= 4 /\ FullLen \in Nat
        /\ FullLen <= 4 * ChunkLen - 3
    BY SplitAssumption
  <2>2. s \in Seq(Letters) /\ Len(s) \in Nat /\ Len(s) <= FullLen
    BY LenProperties DEF CellOK
  <2>3. \A l, c, f \in Nat : /\ l >= c /\ c >= 4 => l >= 4
                             /\ l <= f /\ l # f /\ f <= 4 * c - 3 => l <= 4 * c - 4
    OBVIOUS
  <2> QED
    BY <2>1, <2>2, <2>3
<1>2. Len(Quarters(s)[j]) = QuarterStart(s, j) - QuarterStart(s, j - 1)
  BY <1>1, QuarterLetters
<1>3. /\ QuarterStart(s, j) = (j * Len(s) + 3) \div 4
      /\ QuarterStart(s, j - 1) = ((j - 1) * Len(s) + 3) \div 4
  BY DEF QuarterStart
<1>4. \A n, c \in Nat : n <= 4 * c - 4 =>
          /\ (1 * n + 3) \div 4 - (0 * n + 3) \div 4 < c
          /\ (2 * n + 3) \div 4 - (1 * n + 3) \div 4 < c
          /\ (3 * n + 3) \div 4 - (2 * n + 3) \div 4 < c
          /\ (4 * n + 3) \div 4 - (3 * n + 3) \div 4 < c
          /\ (1 * n + 3) \div 4 - (0 * n + 3) \div 4 \in Nat
          /\ (2 * n + 3) \div 4 - (1 * n + 3) \div 4 \in Nat
          /\ (3 * n + 3) \div 4 - (2 * n + 3) \div 4 \in Nat
          /\ (4 * n + 3) \div 4 - (3 * n + 3) \div 4 \in Nat
  OBVIOUS
<1>5. /\ 1 - 1 = 0 /\ 2 - 1 = 1 /\ 3 - 1 = 2 /\ 4 - 1 = 3
      /\ j = 1 \/ j = 2 \/ j = 3 \/ j = 4
  OBVIOUS
<1>6. /\ (j * Len(s) + 3) \div 4 - ((j - 1) * Len(s) + 3) \div 4 < ChunkLen
      /\ (j * Len(s) + 3) \div 4 - ((j - 1) * Len(s) + 3) \div 4 \in Nat
  BY ONLY <1>1, <1>4, <1>5, Zenon
<1> QED
  BY <1>2, <1>3, <1>6

\* What is left of a cell after a split allows one split less.
LEMMA SplitsShallower ==
    ASSUME NEW s, CellOK(s), Len(s) > 1, NEW j \in 1..Len(SplitsOf(s))
    PROVE  SplitDepth(SplitsOf(s)[j]) + 1 <= SplitDepth(s)
<1>1. Len(s) \in Nat /\ FullLen \in Nat /\ ChunkLen \in Nat /\ ChunkLen >= 4
      /\ Len(s) <= FullLen
  BY SplitAssumption, LenProperties DEF CellOK
<1>2. CASE Len(s) = FullLen
  <2>1. SplitsOf(s) = FullSplits /\ DOMAIN FullSplits = 1..Len(FullSplits)
    BY <1>2, SplitAssumption, LenProperties DEF SplitsOf
  <2>2. Len(FullSplits[j]) \in 1..(FullLen - 1)
    BY <2>1, SplitAssumption
  <2>3. Len(FullSplits[j]) # FullLen
    BY <1>1, <2>2
  <2>4. SplitDepth(FullSplits[j]) \in {0, 1, 2}
    BY <2>3 DEF SplitDepth
  <2>5. SplitDepth(s) = 3
    BY <1>2 DEF SplitDepth
  <2>6. SplitDepth(SplitsOf(s)[j]) \in {0, 1, 2}
    BY <2>1, <2>4
  <2> QED
    BY <2>5, <2>6
<1>3. CASE Len(s) # FullLen /\ Len(s) >= ChunkLen
  <2>1. SplitsOf(s) = Quarters(s) /\ Len(Quarters(s)) = 4
    BY <1>3, QuartersCover DEF SplitsOf
  <2> DEFINE l == Len(Quarters(s)[j])
  <2>2. l \in Nat /\ l < ChunkLen
    BY <1>3, <2>1, QuarterLength
  <2>3. l # FullLen /\ ~(l >= ChunkLen)
    BY <1>1, <1>3, <2>2
  <2> HIDE DEF l
  <2>4. SplitDepth(Quarters(s)[j]) \in {0, 1}
    BY <2>3 DEF SplitDepth, l
  <2>5. SplitDepth(s) = 2
    BY <1>3 DEF SplitDepth
  <2>6. SplitDepth(SplitsOf(s)[j]) \in {0, 1}
    BY <2>1, <2>4
  <2> QED
    BY <2>5, <2>6
<1>4. CASE Len(s) # FullLen /\ ~(Len(s) >= ChunkLen)
  <2>1. SplitsOf(s) = Singletons(s) /\ Len(Singletons(s)) = Len(s)
    BY <1>4, SingletonsCover DEF SplitsOf
  <2>2. Singletons(s)[j] = <<s[j]>>
    BY <2>1 DEF Singletons
  <2>3. Len(<<s[j]>>) = 1
    OBVIOUS
  <2>4. 1 # FullLen /\ ~(1 >= ChunkLen)
    BY <1>1
  <2>5. SplitDepth(Singletons(s)[j]) = 0
    BY <2>2, <2>3, <2>4 DEF SplitDepth
  <2>6. SplitDepth(s) = 1
    BY <1>4 DEF SplitDepth
  <2>7. SplitDepth(SplitsOf(s)[j]) = 0
    BY <2>1, <2>5
  <2> QED
    BY <2>6, <2>7
<1> QED
  BY <1>2, <1>3, <1>4

\* A split of a cell allows the board one split less.
LEMMA SplitBoardShallower ==
    ASSUME NEW b \in Board, NEW c \in Cells, CellOK(b[c]), Len(b[c]) > 1,
           NEW j \in 1..Len(SplitsOf(b[c]))
    PROVE  LET d == [b EXCEPT ![c] = SplitsOf(b[c])[j]]
           IN  d \in Board /\ BoardDepth(d) + 1 <= BoardDepth(b)
<1> DEFINE part == SplitsOf(b[c])[j]
           d == [b EXCEPT ![c] = part]
           g == [k \in Cells |-> SplitDepth(b[k])]
           h == [k \in Cells |-> SplitDepth(d[k])]
           R == Cells \ {c}
<1>1. part \in Seq(Letters) /\ SplitDepth(part) + 1 <= SplitDepth(b[c])
  BY SplitsCover, ElementOfSeq, SplitsShallower
<1> HIDE DEF part
<1>2. d \in Board /\ d[c] = part /\ \A k \in R : d[k] = b[k]
  BY <1>1 DEF Board
<1> HIDE DEF d
<1>3. /\ \A k \in Cells : g[k] \in Nat /\ h[k] \in Nat
      /\ \A k \in R : g[k] = h[k]
      /\ g[c] = SplitDepth(b[c]) /\ h[c] = SplitDepth(part)
  BY <1>2 DEF SplitDepth
<1>4. BoardDepth(b) = SumOf(g, Cells) /\ BoardDepth(d) = SumOf(h, Cells)
  BY <1>2, BoardDepthIsSum
<1> HIDE DEF g, h
<1>5. IsFiniteSet(Cells) /\ IsFiniteSet(R)
  BY CellsFinite, FS_Subset
<1>6. SumOf(g, Cells) = g[c] + SumOf(g, R) /\ SumOf(h, Cells) = h[c] + SumOf(h, R)
  BY <1>3, <1>5, SumRemove
<1>7. SumOf(g, R) = SumOf(h, R) /\ SumOf(g, R) \in Nat
  BY <1>3, <1>5, SumSame, SumNat
<1>8. \A x, y, z \in Nat : x + 1 <= y => x + z + 1 <= y + z
  OBVIOUS
<1>9. BoardDepth(d) + 1 <= BoardDepth(b)
  BY <1>1, <1>3, <1>4, <1>6, <1>7, <1>8
<1> QED
  BY <1>2, <1>9 DEF d, part

\* Every split of a frame allows one split less than the board it splits.
FrameShallows(f) ==
    \A j \in 1..Len(f.splits) :
        BoardDepth(SplitBoard(f, j)) + 1 <= BoardDepth(f.orig_bd)

\* The bound holds for each open frame, not only for the attack in progress.
DepthInv ==
    /\ DepthBound
    /\ \A n \in 1..Len(stack) :
          /\ FrameShallows(stack[n])
          /\ n - 1 + BoardDepth(stack[n].orig_bd) <= BoardDepth(orig)

\* The first attack is at depth 0, on the class Break was called on; each split
\* goes one deeper and each return leaves the frames below as they were.
LEMMA NextDepth ==
    ASSUME OrdersCoverCells
    PROVE  IInv /\ DepthInv /\ [Next]_vars => DepthInv'
<1> SUFFICES ASSUME IInv, DepthInv, [Next]_vars PROVE DepthInv'
  OBVIOUS
<1> USE DEF IInv, TypeOK
<1>0. /\ Len(stack) \in Nat
      /\ \A n \in 1..Len(stack) : stack[n] \in Frame
      /\ bd \in Board /\ orig \in Board
  BY LenProperties, ElementOfSeq
<1>1. CASE pc' # "attack" /\ stack' = stack /\ orig' = orig
  BY <1>1 DEF DepthInv, DepthBound
<1>2. CASE Break
  <2>1. stack' = <<>> /\ Len(stack') = 0 /\ orig' = bd /\ bd' = bd
    BY <1>2 DEF Break, Idle
  <2>2. 0 + BoardDepth(bd) <= BoardDepth(bd)
    <3>1. BoardDepth(bd) \in Nat
      BY <1>0, BoardDepthIsSum
    <3>2. \A x \in Nat : 0 + x <= x
      OBVIOUS
    <3> QED
      BY <3>1, <3>2
  <2> QED
    BY <2>1, <2>2 DEF DepthInv, DepthBound
<1>3. CASE Split
  <2> DEFINE p == PickedCell(bd)
             f == [orig_bd |-> bd, cell |-> p, splits |-> SplitsOf(bd[p]), i |-> 1]
             l == Len(stack)
  <2>1. p \in Cells /\ Len(bd[p]) > 1
    BY <1>3, PickedCellCorrect DEF Split
  <2>2. f \in Frame /\ f.orig_bd = bd
    BY <2>1, SplitsCover DEF Frame
  <2>3. FrameShallows(f)
    BY <1>0, <2>1, SplitBoardShallower DEF FrameShallows, SplitBoard
  <2>4. /\ stack' = Append(stack, f) /\ pc = "attack" /\ pc' = "return"
        /\ orig' = orig
    BY <1>3 DEF Split
  <2> HIDE DEF f, p
  <2>5. /\ l \in Nat /\ Len(stack') = l + 1
        /\ \A n \in 1..(l + 1) :
              \/ n \in 1..l /\ stack'[n] = stack[n]
              \/ n = l + 1 /\ stack'[n] = f
    BY <2>2, <2>4, AppendFrame
  <2>6. l + 1 - 1 + BoardDepth(bd) <= BoardDepth(orig)
    <3>1. l + BoardDepth(bd) <= BoardDepth(orig)
      BY <2>4 DEF DepthInv, DepthBound
    <3>2. l + 1 - 1 = l
      BY <2>5
    <3> QED
      BY <3>1, <3>2
  <2>7. ASSUME NEW n \in 1..(l + 1)
        PROVE  /\ FrameShallows(stack'[n])
               /\ n - 1 + BoardDepth(stack'[n].orig_bd) <= BoardDepth(orig)
    <3>1. CASE n \in 1..l /\ stack'[n] = stack[n]
      BY <3>1 DEF DepthInv
    <3>2. CASE n = l + 1 /\ stack'[n] = f
      BY <2>2, <2>3, <2>6, <3>2
    <3> QED
      BY <2>5, <3>1, <3>2
  <2> QED
    BY <2>4, <2>5, <2>7 DEF DepthInv, DepthBound
<1>4. CASE TakeSplit
  <2>1. stack # <<>> /\ Top.i <= Len(Top.splits)
    BY <1>4 DEF TakeSplit
  <2>2. /\ Len(stack) \in Nat \ {0} /\ Top \in Frame /\ BelowTop \in Seq(Frame)
        /\ Len(BelowTop) = Len(stack) - 1
        /\ \A n \in 1..Len(BelowTop) : n \in 1..Len(stack) /\ BelowTop[n] = stack[n]
    BY <2>1, StackTop
  <2>3. Top.i \in 1..Len(Top.splits)
    <3>1. Top.i \in Nat \ {0} /\ Len(Top.splits) \in Nat
      BY <2>2, LenProperties DEF Frame
    <3> QED
      BY <2>1, <3>1
  <2> DEFINE f == [Top EXCEPT !.i = @ + 1]
             l == Len(BelowTop)
             B == SplitBoard(Top, Top.i)
  <2>4. /\ f \in Frame /\ f.orig_bd = Top.orig_bd /\ f.cell = Top.cell
        /\ f.splits = Top.splits
    <3>1. Top.i + 1 \in Nat \ {0}
      BY <2>2 DEF Frame
    <3> QED
      BY <2>2, <3>1 DEF Frame
  <2>5. stack' = Append(BelowTop, f) /\ bd' = B /\ orig' = orig
    BY <1>4 DEF TakeSplit, NextBoard
  <2> HIDE DEF f
  <2>6. /\ l \in Nat /\ Len(stack') = l + 1
        /\ \A n \in 1..(l + 1) :
              \/ n \in 1..l /\ stack'[n] = BelowTop[n]
              \/ n = l + 1 /\ stack'[n] = f
    BY <2>2, <2>4, <2>5, AppendFrame
  <2>7. Len(stack) = l + 1 /\ stack[l + 1] = Top /\ l + 1 \in 1..(l + 1)
    <3>1. \A x \in Nat \ {0} : x - 1 + 1 = x /\ x \in 1..x
      OBVIOUS
    <3> QED
      BY <2>2, <3>1 DEF Top
  <2>8. FrameShallows(Top) /\ l + BoardDepth(Top.orig_bd) <= BoardDepth(orig)
    <3>1. l + 1 - 1 = l
      BY <2>6
    <3> QED
      BY <2>7, <3>1 DEF DepthInv
  <2> HIDE DEF l
  <2>9. l + 1 + BoardDepth(B) <= BoardDepth(orig)
    <3>1. B \in Board
      BY <2>2, <2>3, ElementOfSeq DEF SplitBoard, Board, Frame
    <3>2. /\ BoardDepth(B) \in Nat /\ BoardDepth(orig) \in Nat
          /\ BoardDepth(Top.orig_bd) \in Nat
      BY <1>0, <2>2, <3>1, BoardDepthIsSum DEF Frame
    <3>3. BoardDepth(B) + 1 <= BoardDepth(Top.orig_bd)
      BY <2>3, <2>8 DEF FrameShallows
    <3>4. \A m, x, y, z \in Nat : x + 1 <= y /\ m + y <= z => m + 1 + x <= z
      OBVIOUS
    <3> HIDE DEF B
    <3> QED
      BY <2>6, <2>8, <3>2, <3>3, <3>4
  <2>10. ASSUME NEW n \in 1..(l + 1)
         PROVE  /\ FrameShallows(stack'[n])
                /\ n - 1 + BoardDepth(stack'[n].orig_bd) <= BoardDepth(orig)
    <3>1. CASE n \in 1..l /\ stack'[n] = BelowTop[n]
      <4>1. stack'[n] = stack[n] /\ n \in 1..Len(stack)
        BY <2>2, <3>1 DEF l
      <4> QED
        BY <4>1 DEF DepthInv
    <3>2. CASE n = l + 1 /\ stack'[n] = f
      <4>1. FrameShallows(f)
        BY <2>4, <2>8 DEF FrameShallows, SplitBoard
      <4>2. n - 1 + BoardDepth(f.orig_bd) <= BoardDepth(orig)
        BY <2>4, <2>6, <2>8, <3>2
      <4> QED
        BY <3>2, <4>1, <4>2
    <3> QED
      BY <2>6, <3>1, <3>2
  <2> HIDE DEF B
  <2> QED
    BY <2>5, <2>6, <2>9, <2>10 DEF DepthInv, DepthBound
<1>5. CASE EndSplits
  <2>1. stack # <<>> /\ stack' = BelowTop /\ pc' = "return" /\ orig' = orig
    BY <1>5 DEF EndSplits
  <2>2. \A n \in 1..Len(stack') : n \in 1..Len(stack) /\ stack'[n] = stack[n]
    BY <2>1, StackTop
  <2> QED
    BY <2>1, <2>2 DEF DepthInv, DepthBound
<1>6. CASE ParseBoard \/ SetPickOrder \/ Eliminate \/ Fail \/ EndBreak
  <2>1. pc' # "attack" /\ stack' = stack /\ orig' = orig
    BY <1>6 DEF ParseBoard, SetPickOrder, Eliminate, Fail, EndBreak, Idle
  <2> QED
    BY <1>1, <2>1
<1>7. CASE UNCHANGED vars
  <2>1. UNCHANGED <<pc, bd, stack, orig>>
    BY <1>7 DEF vars
  <2> QED
    BY <2>1 DEF DepthInv, DepthBound
<1> QED
  BY <1>2, <1>3, <1>4, <1>5, <1>6, <1>7 DEF Next, Breaking

\* The recursion is no deeper than the splits the cells of the class allow
\* (Breaker::SplitBucket calls AttackBoard with level + 1).
THEOREM DepthIsBounded == ASSUME OrdersCoverCells PROVE Spec => []DepthBound
<1>1. Init => DepthInv
  <2> SUFFICES ASSUME Init PROVE DepthInv
    OBVIOUS
  <2>1. stack = <<>> /\ Len(stack) = 0 /\ pc = "idle"
    BY DEF Init
  <2> QED
    BY <2>1 DEF DepthInv, DepthBound
<1>2. IInv /\ DepthInv /\ [Next]_vars => DepthInv'
  BY NextDepth
<1>3. Spec => []IInv
  BY TypeInvariant
<1>4. DepthInv => DepthBound
  BY DEF DepthInv
<1> QED
  BY <1>1, <1>2, <1>3, <1>4, PTL DEF Spec

-----------------------------------------------------------------------------
(* The counts: what is eliminated, reported and still to come makes the class. *)

\* NumReps is a multiple of the length of each cell, in machine words.
LEMMA NumRepsOfCell ==
    ASSUME NEW b \in Board, NEW k \in Cells
    PROVE  \E R \in Nat : \A s \in Seq(Letters) :
              [b EXCEPT ![k] = s] \in Board
              /\ NumReps([b EXCEPT ![k] = s]) = (R * Len(s)) % Word
<1> DEFINE N == NumCells
           C(s) == [b EXCEPT ![k] = s]
           Good(i, R) == \A s \in Seq(Letters) : \A f : RepsUpto(f, C(s)) =>
                            f[i] = IF i < k THEN R ELSE (R * Len(s)) % Word
           T == {i \in 0..N : \E R \in Nat : Good(i, R)}
<1>1. /\ N \in Nat \ {0} /\ Cells = 1..N /\ k \in 1..N
      /\ Word \in Nat \ {0}
  BY CellsType, WordAssumption
<1>2. ASSUME NEW s \in Seq(Letters)
      PROVE  /\ C(s) \in Board /\ C(s)[k] = s /\ Len(s) \in Nat
             /\ \A i \in Cells : i # k => C(s)[i] = b[i]
  BY LenProperties DEF Board
<1>3. \A i \in Cells : Len(b[i]) \in Nat
  BY LenProperties DEF Board
<1>4. \A x, y \in Nat : x * y \in Nat
  OBVIOUS
<1>5. \A x \in Nat : x % Word \in Nat
  BY WordAssumption
<1> HIDE DEF N, C
<1>6. 0 \in T
  <2>1. Good(0, 1 % Word)
    BY <1>1 DEF RepsUpto
  <2>2. 1 % Word \in Nat /\ 0 \in 0..N
    BY <1>1, <1>5
  <2> HIDE DEF Good
  <2> QED
    BY <2>1, <2>2
<1>7. ASSUME NEW i \in 0..N, i \in T, i < N PROVE i + 1 \in T
  <2> DEFINE m == i + 1
  <2>1. PICK R \in Nat : Good(i, R)
    BY <1>7
  <2>2. m \in Cells /\ m \in 0..N /\ m - 1 = i /\ i \in Int
    BY <1>1, <1>7
  <2> HIDE DEF m
  <2>3. CASE m < k
    <3> DEFINE E == (R * Len(b[m])) % Word
    <3>1. E \in Nat
      BY <1>3, <1>4, <1>5, <2>2
    <3>2. i < k /\ m # k
      BY <1>1, <2>2, <2>3
    <3>3. ASSUME NEW s \in Seq(Letters), NEW f, RepsUpto(f, C(s)) PROVE f[m] = E
      <4>1. f[i] = R
        BY <2>1, <3>2, <3>3
      <4>2. f[m] = (f[i] * Len(C(s)[m])) % Word
        BY <2>2, <3>3 DEF RepsUpto
      <4> QED
        BY <1>2, <2>2, <3>2, <4>1, <4>2
    <3> HIDE DEF E
    <3>4. Good(m, E)
      BY <2>3, <3>3
    <3> HIDE DEF Good
    <3> QED
      BY <2>2, <3>1, <3>4 DEF m
  <2>4. CASE m = k
    <3>1. i < k /\ ~(m < k)
      BY <1>1, <2>2, <2>4
    <3>2. ASSUME NEW s \in Seq(Letters), NEW f, RepsUpto(f, C(s))
          PROVE  f[m] = (R * Len(s)) % Word
      <4>1. f[i] = R
        BY <2>1, <3>1, <3>2
      <4>2. f[m] = (f[i] * Len(C(s)[m])) % Word
        BY <2>2, <3>2 DEF RepsUpto
      <4> QED
        BY <1>2, <2>4, <4>1, <4>2
    <3>3. Good(m, R)
      BY <3>1, <3>2
    <3> HIDE DEF Good
    <3> QED
      BY <2>2, <3>3 DEF m
  <2>5. CASE k < m
    <3> DEFINE n == Len(b[m])
               E == R * n
    <3>1. n \in Nat /\ E \in Nat
      BY <1>3, <1>4, <2>2
    <3>2. ~(i < k) /\ ~(m < k) /\ m # k
      BY <1>1, <2>2, <2>5
    <3>3. ASSUME NEW s \in Seq(Letters), NEW f, RepsUpto(f, C(s))
          PROVE  f[m] = (E * Len(s)) % Word
      <4> DEFINE l == Len(s)
                 x == R * l
      <4>1. f[i] = x % Word
        BY <2>1, <3>2, <3>3
      <4>2. f[m] = (f[i] * n) % Word
        BY <1>2, <2>2, <3>2, <3>3 DEF RepsUpto
      <4>3. l \in Nat /\ x \in Nat /\ x * n = E * l
        <5>1. \A p, q, r \in Nat : (p * q) * r = (p * r) * q
          OBVIOUS
        <5> QED
          BY <1>2, <1>4, <3>1, <5>1
      <4> HIDE DEF l, x, n, E
      <4>4. ((x % Word) * n) % Word = (x * n) % Word
        BY <1>1, <3>1, <4>3, ModTimes
      <4> QED
        BY <4>1, <4>2, <4>3, <4>4 DEF l
    <3> HIDE DEF E
    <3>4. Good(m, E)
      BY <3>2, <3>3
    <3> HIDE DEF Good
    <3> QED
      BY <2>2, <3>1, <3>4 DEF m
  <2> QED
    BY <1>1, <2>2, <2>3, <2>4, <2>5
<1>8. N \in T
  <2> HIDE DEF T
  <2>1. 0..N \subseteq T
    BY <1>1, <1>6, <1>7, UpTo
  <2> QED
    BY <1>1, <2>1
<1>9. PICK R \in Nat : Good(N, R)
  BY <1>8
<1>10. ASSUME NEW s \in Seq(Letters) PROVE NumReps(C(s)) = (R * Len(s)) % Word
  <2>1. PICK f : RepsUpto(f, C(s)) /\ NumReps(C(s)) = f[N]
    BY <1>2, NumRepsSteps DEF N
  <2>2. ~(N < k)
    BY <1>1
  <2> QED
    BY <1>9, <2>1, <2>2
<1> QED
  BY <1>2, <1>10 DEF C

\* The splits of a cell have together as many boards as the class, in machine
\* words, if it has no letter twice.
LEMMA SplitsCount ==
    ASSUME NoLetterTwice, NEW b \in Board, NEW k \in Cells, CellOK(b[k]),
           Len(b[k]) > 1, IsInjective(b[k])
    PROVE  FrameReps([orig_bd |-> b, cell |-> k, splits |-> SplitsOf(b[k]), i |-> 1]) % Word
              = NumReps(b)
<1> DEFINE S == SplitsOf(b[k])
           f == [orig_bd |-> b, cell |-> k, splits |-> S, i |-> 1]
           N == Len(S)
           g == [j \in 1..N |-> NumReps([b EXCEPT ![k] = S[j]])]
           h == [j \in 1..N |-> Len(S[j])]
<1>1. /\ S \in Seq(Seq(Letters)) /\ N \in Nat
      /\ \A j \in 1..N : S[j] \in Seq(Letters) /\ Len(S[j]) \in Nat
      /\ \A j \in 1..N : ToSet(S[j]) \subseteq ToSet(b[k])
      /\ \A x \in ToSet(b[k]) : \E j \in 1..N : x \in ToSet(S[j])
  BY SplitsCover, ElementOfSeq, LenProperties
<1>2. /\ \A j \in 1..N : IsInjective(S[j])
      /\ \A i, j \in 1..N : i # j => ToSet(S[i]) \cap ToSet(S[j]) = {}
  BY SplitsApart
<1>3. b[k] \in Seq(Letters) /\ Len(b[k]) \in Nat
  BY LenProperties DEF Board
<1>4. FrameReps(f) = SumOf(g, 1..N)
  <2>1. Remaining(f) = 1..N
    BY DEF Remaining
  <2>2. [j \in Remaining(f) |-> NumReps(SplitBoard(f, j))] = g
    BY <2>1 DEF SplitBoard
  <2>3. FrameReps(f) = FoldFunction(+, 0, g)
    BY <2>2 DEF FrameReps
  <2>4. DOMAIN g = 1..N
    OBVIOUS
  <2> HIDE DEF g
  <2> QED
    BY <2>3, <2>4, FoldIsSum
<1> HIDE DEF S
<1>5. SumOf(h, 1..N) = Len(b[k])
  BY <1>1, <1>2, <1>3, LengthsAddUp
<1>6. PICK R \in Nat : \A s \in Seq(Letters) :
              [b EXCEPT ![k] = s] \in Board
              /\ NumReps([b EXCEPT ![k] = s]) = (R * Len(s)) % Word
  BY NumRepsOfCell
<1>7. NumReps(b) = (R * Len(b[k])) % Word
  <2>1. [b EXCEPT ![k] = b[k]] = b
    BY DEF Board
  <2> QED
    BY <1>3, <1>6, <2>1
<1>8. /\ \A j \in 1..N : g[j] = (R * h[j]) % Word /\ h[j] \in Nat
      /\ Word \in Nat \ {0}
  BY <1>1, <1>6, WordAssumption
<1>9. \A x, y \in Nat : x * y \in Nat /\ x + y \in Nat /\ x % Word \in Nat
  BY WordAssumption
<1>10. \A j \in 1..N : g[j] \in Nat
  BY <1>8, <1>9
<1> HIDE DEF g, h, f, N
<1> DEFINE T == {n \in 0..N : SumOf(g, 1..n) % Word = (R * SumOf(h, 1..n)) % Word}
<1>11. 0 \in T
  <2> DEFINE E == 1..0
  <2>1. E = {} /\ 0 \in 0..N /\ R * 0 = 0
    BY <1>1
  <2>2. SumOf(g, {}) = 0 /\ SumOf(h, {}) = 0
    BY SumEmpty
  <2> QED
    BY <2>1, <2>2
<1>12. ASSUME NEW n \in 0..N, n \in T, n < N PROVE n + 1 \in T
  <2> DEFINE z == n + 1
             I == 1..n
             G == SumOf(g, I)
             H == SumOf(h, I)
             c == h[z]
  <2>1. /\ z \in 1..N /\ z \in 0..N /\ z \notin I /\ 1..z = I \cup {z}
        /\ \A j \in I \cup {z} : j \in 1..N
    BY <1>1, <1>12
  <2>2. IsFiniteSet(I)
    BY <1>1, FS_Interval
  <2>3. G % Word = (R * H) % Word
    BY <1>12
  <2>4. /\ \A x \in I \cup {z} : h[x] \in Nat /\ g[x] \in Nat
        /\ c \in Nat /\ g[z] = (R * c) % Word
    BY <1>8, <1>10, <2>1
  <2> HIDE DEF I, z
  <2>5. SumOf(h, I \cup {z}) = h[z] + SumOf(h, I) /\ SumOf(g, I \cup {z}) = g[z] + SumOf(g, I)
    BY <2>1, <2>2, <2>4, SumAdd
  <2>6. SumOf(h, I) \in Nat /\ SumOf(g, I) \in Nat
    BY <2>2, <2>4, SumNat
  <2> HIDE DEF G, H, c
  <2>7. G \in Nat /\ H \in Nat /\ R * c \in Nat /\ R * H \in Nat /\ g[z] \in Nat
    BY <1>9, <2>4, <2>6 DEF G, H
  <2>8. (g[z] + G) % Word = (R * c + G) % Word
    <3> DEFINE x == R * c
    <3>1. x \in Nat /\ g[z] = x % Word
      BY <2>4, <2>7
    <3> HIDE DEF x
    <3>2. ((x % Word) + G) % Word = (x + G) % Word
      BY <1>8, <2>7, <3>1, ModAdd
    <3> QED
      BY <3>1, <3>2 DEF x
  <2>9. (G + R * c) % Word = (R * H + R * c) % Word
    <3> DEFINE x == R * c
               y == R * H
    <3>1. x \in Nat /\ y \in Nat /\ G % Word = y % Word
      BY <2>3, <2>7
    <3> HIDE DEF x, y
    <3>2. ((G % Word) + x) % Word = (G + x) % Word /\ ((y % Word) + x) % Word = (y + x) % Word
      BY <1>8, <2>7, <3>1, ModAdd
    <3> QED
      BY <3>1, <3>2 DEF x, y
  <2>10. R * c + G = G + R * c /\ R * H + R * c = R * (c + H)
    BY <2>4, <2>7
  <2>11. (g[z] + G) % Word = (R * (c + H)) % Word
    BY <2>8, <2>9, <2>10
  <2>12. SumOf(g, 1..z) % Word = (R * SumOf(h, 1..z)) % Word
    BY <2>1, <2>5, <2>11 DEF G, H, c
  <2>13. z \in T
    BY <2>1, <2>12
  <2> QED
    BY <2>13 DEF z
<1>13. N \in T
  <2> HIDE DEF T
  <2>1. 0..N \subseteq T
    BY <1>1, <1>11, <1>12, UpTo
  <2>2. N \in 0..N
    BY <1>1 DEF N
  <2> QED
    BY <2>1, <2>2
<1>14. FrameReps(f) % Word = NumReps(b)
  BY <1>4, <1>5, <1>7, <1>13
<1> QED
  BY <1>14 DEF f, S

\* A board of single letters counts once.
LEMMA NumRepsSingle ==
    ASSUME NEW b \in Board, \A k \in Cells : Len(b[k]) = 1
    PROVE  NumReps(b) = 1 % Word
<1> DEFINE N == NumCells
           u == 1 % Word
<1>1. N \in Nat \ {0} /\ Cells = 1..N /\ Word \in Nat \ {0} /\ u \in Nat
  BY CellsType, WordAssumption
<1>2. PICK f : RepsUpto(f, b) /\ NumReps(b) = f[N]
  BY NumRepsSteps
<1> DEFINE T == {n \in 0..N : f[n] = u}
<1>3. 0 \in T
  BY <1>1, <1>2 DEF RepsUpto
<1>4. (u * 1) % Word = u
  <2>1. \A w \in Nat \ {0} : ((1 % w) * 1) % w = 1 % w
    OBVIOUS
  <2> QED
    BY <1>1, <2>1
<1> HIDE DEF N, u
<1>5. ASSUME NEW n \in 0..N, n \in T, n < N PROVE n + 1 \in T
  <2> DEFINE m == n + 1
  <2>1. m \in Cells /\ m \in 0..N /\ m - 1 = n
    BY <1>1, <1>5
  <2> HIDE DEF m
  <2>2. f[m] = (f[m - 1] * Len(b[m])) % Word /\ Len(b[m]) = 1
    BY <1>2, <2>1 DEF RepsUpto
  <2>3. f[n] = u
    BY <1>5
  <2>4. f[m] = u
    BY <1>4, <2>1, <2>2, <2>3
  <2>5. m \in T
    BY <2>1, <2>4
  <2> QED
    BY <2>5 DEF m
<1>6. N \in T
  <2> HIDE DEF T
  <2>1. 0..N \subseteq T
    BY <1>1, <1>3, <1>5, UpTo
  <2> QED
    BY <1>1, <2>1
<1> QED
  BY <1>2, <1>6 DEF u

\* What a frame has still to take is counted split by split.
LEMMA FrameRepsSum ==
    ASSUME NEW f \in Frame, FrameOK(f)
    PROVE  LET g == [j \in Remaining(f) |-> NumReps(SplitBoard(f, j))]
           IN  /\ IsFiniteSet(Remaining(f))
               /\ \A j \in Remaining(f) : g[j] = NumReps(SplitBoard(f, j)) /\ g[j] \in Nat
               /\ FrameReps(f) = SumOf(g, Remaining(f))
               /\ FrameReps(f) \in Nat
<1> DEFINE R == Remaining(f)
           g == [j \in R |-> NumReps(SplitBoard(f, j))]
<1>1. f.i \in Nat \ {0} /\ Len(f.splits) \in Nat
  BY LenProperties DEF Frame
<1>2. IsFiniteSet(R) /\ R \subseteq 1..Len(f.splits)
  <2>1. \A x \in Nat \ {0} : \A y \in Nat : x \in Int /\ y \in Int /\ x..y \subseteq 1..y
    OBVIOUS
  <2> QED
    BY <1>1, <2>1, FS_Interval DEF Remaining
<1>3. \A j \in R : SplitBoard(f, j) \in Board
  BY <1>2, SplitBoardOK
<1>4. \A j \in R : g[j] = NumReps(SplitBoard(f, j)) /\ g[j] \in Nat
  <2>1. 0..(Word - 1) \subseteq Nat
    BY WordAssumption
  <2> QED
    BY <1>3, <2>1, NumRepsType
<1>5. DOMAIN g = R /\ FrameReps(f) = FoldFunction(+, 0, g)
  BY DEF FrameReps
<1> HIDE DEF g, R
<1>6. FrameReps(f) = SumOf(g, R)
  BY <1>5, FoldIsSum
<1>7. SumOf(g, R) \in Nat
  BY <1>2, <1>4, SumNat
<1> QED
  BY <1>2, <1>4, <1>6, <1>7 DEF g, R

\* Taking a split moves its boards from the frame to the attack.
LEMMA FrameRepsTake ==
    ASSUME NEW f \in Frame, FrameOK(f), f.i <= Len(f.splits),
           NEW e \in Frame, FrameOK(e), e = [f EXCEPT !.i = @ + 1]
    PROVE  /\ NumReps(SplitBoard(f, f.i)) \in Nat
           /\ FrameReps(f) = NumReps(SplitBoard(f, f.i)) + FrameReps(e)
<1> DEFINE R == Remaining(f)
           E == Remaining(e)
           g == [j \in R |-> NumReps(SplitBoard(f, j))]
           h == [j \in E |-> NumReps(SplitBoard(e, j))]
           z == f.i
<1>1. z \in Nat \ {0} /\ Len(f.splits) \in Nat
  BY LenProperties DEF Frame
<1>2. /\ e.i = z + 1 /\ e.splits = f.splits /\ e.orig_bd = f.orig_bd
      /\ e.cell = f.cell
  BY DEF Frame
<1>3. z \in R /\ E = R \ {z}
  <2>1. \A x, y \in Nat : x <= y => x \in x..y /\ (x + 1)..y = (x..y) \ {x}
    OBVIOUS
  <2> QED
    BY <1>1, <1>2, <2>1 DEF Remaining
<1>4. \A j : SplitBoard(e, j) = SplitBoard(f, j)
  BY <1>2 DEF SplitBoard
<1>5. /\ IsFiniteSet(R) /\ FrameReps(f) = SumOf(g, R)
      /\ \A j \in R : g[j] = NumReps(SplitBoard(f, j)) /\ g[j] \in Nat
  BY FrameRepsSum
<1>6. /\ IsFiniteSet(E) /\ FrameReps(e) = SumOf(h, E)
      /\ \A j \in E : h[j] = NumReps(SplitBoard(e, j))
  BY FrameRepsSum
<1> HIDE DEF R, E, g, h
<1>7. SumOf(g, R) = g[z] + SumOf(g, R \ {z})
  BY <1>3, <1>5, SumRemove
<1>8. \A j \in E : g[j] = h[j]
  BY <1>3, <1>4, <1>5, <1>6
<1>9. SumOf(g, E) = SumOf(h, E)
  BY <1>6, <1>8, SumSame
<1>10. g[z] = NumReps(SplitBoard(f, z)) /\ g[z] \in Nat
  BY <1>3, <1>5
<1> QED
  BY <1>3, <1>5, <1>6, <1>7, <1>9, <1>10

\* A frame whose loop is over has nothing left to take.
LEMMA FrameRepsEnd ==
    ASSUME NEW f \in Frame, FrameOK(f), f.i > Len(f.splits)
    PROVE  FrameReps(f) = 0
<1> DEFINE g == [j \in Remaining(f) |-> NumReps(SplitBoard(f, j))]
           R == Remaining(f)
<1>1. f.i \in Nat /\ Len(f.splits) \in Nat
  BY LenProperties DEF Frame
<1>2. \A x, y \in Nat : x > y => x..y = {}
  OBVIOUS
<1>3. R = {}
  BY <1>1, <1>2 DEF Remaining
<1>4. FrameReps(f) = SumOf(g, R)
  BY FrameRepsSum
<1> HIDE DEF g, R
<1>5. SumOf(g, {}) = 0
  BY SumEmpty
<1> QED
  BY <1>3, <1>4, <1>5

\* What a stack has still to take is counted frame by frame.
LEMMA StackRepsSum ==
    ASSUME NEW st \in Seq(Frame), \A n \in 1..Len(st) : FrameOK(st[n])
    PROVE  LET g == [n \in 1..Len(st) |-> FrameReps(st[n])]
           IN  /\ IsFiniteSet(1..Len(st)) /\ Len(st) \in Nat
               /\ \A n \in 1..Len(st) : g[n] = FrameReps(st[n]) /\ g[n] \in Nat
               /\ StackReps(st) = SumOf(g, 1..Len(st))
               /\ StackReps(st) \in Nat
<1> DEFINE I == 1..Len(st)
           g == [n \in I |-> FrameReps(st[n])]
<1>1. Len(st) \in Nat /\ DOMAIN st = I /\ \A n \in I : st[n] \in Frame
  BY LenProperties, ElementOfSeq
<1>2. IsFiniteSet(I)
  BY <1>1, FS_Interval
<1>3. \A n \in I : g[n] = FrameReps(st[n]) /\ g[n] \in Nat
  BY <1>1, FrameRepsSum
<1>4. DOMAIN g = I /\ StackReps(st) = FoldFunction(+, 0, g)
  BY <1>1 DEF StackReps
<1> HIDE DEF g
<1>5. StackReps(st) = SumOf(g, I)
  BY <1>4, FoldIsSum
<1>6. SumOf(g, I) \in Nat
  BY <1>2, <1>3, SumNat
<1> QED
  BY <1>1, <1>2, <1>3, <1>5, <1>6 DEF g

\* ... and the last frame is counted on top of those below.
LEMMA StackRepsTop ==
    ASSUME NEW st \in Seq(Frame), NEW bt \in Seq(Frame), NEW f \in Frame,
           Len(st) = Len(bt) + 1, st[Len(st)] = f,
           \A n \in 1..Len(bt) : st[n] = bt[n],
           \A n \in 1..Len(bt) : FrameOK(bt[n]), FrameOK(f)
    PROVE  /\ StackReps(st) = FrameReps(f) + StackReps(bt)
           /\ FrameReps(f) \in Nat /\ StackReps(bt) \in Nat
<1> DEFINE l == Len(bt)
           z == Len(st)
           I == 1..l
           J == 1..z
           g == [n \in J |-> FrameReps(st[n])]
           h == [n \in I |-> FrameReps(bt[n])]
<1>1. l \in Nat /\ z = l + 1
  BY LenProperties
<1>2. J = I \cup {z} /\ z \notin I
  <2>1. \A n \in Nat : 1..(n + 1) = 1..n \cup {n + 1} /\ n + 1 \notin 1..n
    OBVIOUS
  <2> QED
    BY <1>1, <2>1
<1>3. \A n \in J : FrameOK(st[n])
  BY <1>2
<1>4. /\ StackReps(st) = SumOf(g, J)
      /\ \A n \in J : g[n] = FrameReps(st[n]) /\ g[n] \in Nat
  BY <1>3, StackRepsSum
<1>5. /\ StackReps(bt) = SumOf(h, I) /\ StackReps(bt) \in Nat /\ IsFiniteSet(I)
      /\ \A n \in I : h[n] = FrameReps(bt[n])
  BY StackRepsSum
<1> HIDE DEF g, h, I, J
<1>6. \A n \in I : g[n] = h[n]
  BY <1>2, <1>4, <1>5 DEF I
<1>7. SumOf(g, I) = SumOf(h, I)
  BY <1>5, <1>6, SumSame
<1> HIDE DEF z
<1>8. SumOf(g, I \cup {z}) = g[z] + SumOf(g, I)
  BY <1>2, <1>4, <1>5, SumAdd
<1>9. g[z] = FrameReps(f) /\ g[z] \in Nat
  BY <1>2, <1>4 DEF z
<1> QED
  BY <1>2, <1>4, <1>5, <1>7, <1>8, <1>9

\* A class without an empty cell, for which NumReps counts nothing.
NoDots(b) == \A k \in Cells : b[k] # <<>>

\* The count adds up, and no part of a class without empty cells has one.
RepsInv ==
    /\ RepsAccounted
    /\ InProgress /\ NoDots(orig) =>
          /\ pc = "attack" => NoDots(bd)
          /\ \A n \in 1..Len(stack) :
                /\ NoDots(stack[n].orig_bd)
                /\ \A j \in 1..Len(stack[n].splits) : stack[n].splits[j] # <<>>

\* Nothing empty comes from the loop of a frame.
LEMMA SplitBoardNoDots ==
    ASSUME NEW f \in Frame, NoDots(f.orig_bd), NEW j \in 1..Len(f.splits),
           f.splits[j] # <<>>
    PROVE  NoDots(SplitBoard(f, j))
<1>1. f.orig_bd \in Board /\ f.cell \in Cells
  BY DEF Frame
<1> QED
  BY <1>1 DEF SplitBoard, NoDots, Board

\* What was eliminated, what was reported and what is pending, in a word.
Total(w, e, l, p) == (e + l + p) % w

\* The total is the same after x boards have been eliminated, or counted in words.
TotalStays(w, e, l, s, x) ==
    /\ Total(w, (e + x) % w, l, s) = Total(w, e, l, x + s)
    /\ Total(w, e, l, (x % w) + s) = Total(w, e, l, x + s)

\* Moving x from what is pending to one of the counts leaves the total.
LEMMA CountsMove ==
    ASSUME NEW w \in Nat \ {0}, NEW e \in Nat, NEW l \in Nat, NEW s \in Nat,
           NEW x \in Nat
    PROVE  TotalStays(w, e, l, s, x)
<1> DEFINE m == e + x
           n == l + s
           q == e + l + s
<1>1. m \in Nat /\ n \in Nat /\ q \in Nat
  OBVIOUS
<1>2. /\ \A r \in Nat : r + l + s = r + n /\ e + l + (r + s) = r + q
      /\ m + n = e + l + (x + s) /\ x + q = e + l + (x + s)
      /\ m % w \in Nat /\ x % w \in Nat
  OBVIOUS
<1> HIDE DEF m, n, q
<1>3. ((m % w) + n) % w = (m + n) % w
  BY <1>1, ModAdd
<1>4. ((x % w) + q) % w = (x + q) % w
  BY <1>1, ModAdd
<1>5. Total(w, (e + x) % w, l, s) = Total(w, e, l, x + s)
  BY <1>2, <1>3 DEF m, Total
<1>6. Total(w, e, l, (x % w) + s) = Total(w, e, l, x + s)
  BY <1>2, <1>4 DEF Total
<1> QED
  BY <1>5, <1>6 DEF TotalStays

\* Every step keeps the counts.
LEMMA NextReps ==
    ASSUME OrdersCoverCells, NoLetterTwice
    PROVE  IInv /\ ApartInv /\ RepsInv /\ [Next]_vars => RepsInv'
<1> SUFFICES ASSUME IInv, ApartInv, RepsInv, [Next]_vars PROVE RepsInv'
  OBVIOUS
<1> DEFINE w == Word
           l == Len(details.failures)
           s == StackReps(stack)
           x == NumReps(bd)
           Counted == Total(w, elim, l, RepsPending) = orig_reps
           Active == pc \in {"attack", "return", "done"} /\ NoDots(orig)
           Filled == /\ pc = "attack" => NoDots(bd)
                     /\ \A n \in 1..Len(stack) :
                           /\ NoDots(stack[n].orig_bd)
                           /\ \A j \in 1..Len(stack[n].splits) : stack[n].splits[j] # <<>>
<1>0. /\ TypeOK /\ bd \in Board /\ stack \in Seq(Frame)
      /\ Len(stack) \in Nat /\ \A n \in 1..Len(stack) : stack[n] \in Frame /\ FrameOK(stack[n])
      /\ w \in Nat \ {0} /\ elim \in Nat /\ orig_reps \in 0..(w - 1)
      /\ l \in Nat /\ s \in Nat /\ x \in Nat /\ x \in 0..(w - 1)
  <2>1. TypeOK /\ \A n \in 1..Len(stack) : FrameOK(stack[n])
    BY DEF IInv
  <2>2. bd \in Board /\ stack \in Seq(Frame) /\ details.failures \in Seq(Seq(Letters \cup {Dot}))
    BY <2>1 DEF TypeOK, Details
  <2>3. w \in Nat \ {0} /\ \A y \in 0..(w - 1) : y \in Nat
    BY WordAssumption
  <2>4. x \in 0..(w - 1) /\ s \in Nat
    BY <2>1, <2>2, NumRepsType, StackRepsSum
  <2>5. elim \in 0..(w - 1) /\ orig_reps \in 0..(w - 1)
    BY <2>1 DEF TypeOK
  <2> HIDE DEF w, x, s
  <2>6. elim \in Nat /\ x \in Nat
    BY <2>3, <2>4, <2>5
  <2>7. Len(stack) \in Nat /\ l \in Nat /\ \A n \in 1..Len(stack) : stack[n] \in Frame
    BY <2>2, LenProperties, ElementOfSeq
  <2> QED
    BY <2>1, <2>2, <2>3, <2>4, <2>5, <2>6, <2>7
<1>1. /\ RepsInv <=> (Active => Counted) /\ (InProgress /\ NoDots(orig) => Filled)
      /\ RepsInv' <=> (Active' => Counted') /\ ((InProgress /\ NoDots(orig))' => Filled')
  BY DEF RepsInv, RepsAccounted, NoDots, Total
<1>2. /\ pc = "attack" => RepsPending = x + s
      /\ pc # "attack" => RepsPending = 0 + s
      /\ pc' = "attack" => RepsPending' = x' + s'
      /\ pc' # "attack" => RepsPending' = 0 + s'
  BY DEF RepsPending
<1>3. ASSUME stack' = stack PROVE s' = s
  BY <1>3
<1>4. ASSUME bd' = bd PROVE x' = x
  BY <1>4
<1>5. ASSUME details'.failures = details.failures PROVE l' = l
  BY <1>5
<1>6. InProgress /\ NoDots(orig) => Active
  BY DEF InProgress
<1> HIDE DEF w, s, x, l
<1>7. CASE ParseBoard \/ SetPickOrder
  <2>1. /\ pc \in {"idle", "done"} /\ pc' \in {pc, "exit"} /\ stack' = stack
        /\ details' = details /\ elim' = elim /\ orig_reps' = orig_reps
        /\ orig' = orig
    BY <1>7 DEF ParseBoard, SetPickOrder, Idle
  <2>2. s' = s /\ l' = l /\ (Active' => Active) /\ ~InProgress'
    BY <1>3, <1>5, <2>1 DEF InProgress
  <2>3. RepsPending = 0 + s /\ RepsPending' = 0 + s
    BY <1>2, <2>1, <2>2
  <2> QED
    BY <1>1, <2>1, <2>2, <2>3
<1>8. CASE Break
  <2>1. /\ pc' = "attack" /\ stack = <<>> /\ stack' = stack /\ bd' = bd /\ orig' = bd
        /\ details'.failures = <<>> /\ elim' = 0 /\ orig_reps' = NumReps(bd)
    BY <1>8 DEF Break, Idle, ResetDetails, NoDetails, IInv
  <2>2. l' = 0 /\ s' = s /\ x' = x
    <3>1. Len(details'.failures) = 0
      BY <2>1
    <3> QED
      BY <1>3, <1>4, <2>1, <3>1 DEF l
  <2>3. s = 0
    <3> DEFINE g == [n \in 1..Len(stack) |-> FrameReps(stack[n])]
               I == 1..Len(stack)
    <3>1. s = SumOf(g, I)
      BY <1>0, StackRepsSum DEF s
    <3>2. I = {}
      BY <2>1
    <3> HIDE DEF g, I
    <3>3. SumOf(g, {}) = 0
      BY SumEmpty
    <3> QED
      BY <3>1, <3>2, <3>3
  <2>4. RepsPending' = x + 0
    BY <1>2, <2>1, <2>2, <2>3
  <2>5. Total(w, 0, 0, x + 0) = x
    <3>1. \A v \in Nat \ {0} : \A y \in 0..(v - 1) : (0 + 0 + (y + 0)) % v = y
      OBVIOUS
    <3> QED
      BY <1>0, <3>1 DEF Total
  <2>6. w' = w
    BY DEF w
  <2>7. Counted'
    BY <2>1, <2>2, <2>4, <2>5, <2>6 DEF x
  <2>8. NoDots(orig)' => Filled'
    BY <2>1 DEF NoDots
  <2> QED
    BY <1>1, <2>7, <2>8
<1>9. CASE Eliminate
  <2>1. /\ pc = "attack" /\ pc' = "return" /\ stack' = stack /\ bd' = bd
        /\ orig' = orig /\ orig_reps' = orig_reps
        /\ elim' = (elim + x) % w /\ details'.failures = details.failures
    BY <1>0, <1>9 DEF Eliminate, TypeOK, Details, x, w
  <2>2. s' = s /\ l' = l /\ w' = w
    BY <1>3, <1>5, <2>1 DEF w
  <2>3. RepsPending = x + s /\ RepsPending' = 0 + s /\ 0 + s = s
    BY <1>0, <1>2, <2>1, <2>2
  <2>4. Total(w, (elim + x) % w, l, s) = Total(w, elim, l, x + s)
    <3>1. TotalStays(w, elim, l, s, x)
      BY <1>0, CountsMove
    <3> QED
      BY <3>1 DEF TotalStays
  <2>5. Counted => Counted'
    BY <2>1, <2>2, <2>3, <2>4
  <2>6. /\ (Active' => Active) /\ (InProgress /\ NoDots(orig))
        => (InProgress /\ NoDots(orig)) /\ (Filled => Filled')
    BY <2>1 DEF InProgress
  <2> QED
    BY <1>1, <2>1, <2>5, <2>6 DEF InProgress
<1>10. CASE Fail
  <2> DEFINE t == BoardText(bd)
  <2>1. /\ pc = "attack" /\ pc' = "return" /\ stack' = stack /\ bd' = bd
        /\ orig' = orig /\ orig_reps' = orig_reps /\ elim' = elim
        /\ details'.failures = Append(details.failures, t)
    BY <1>0, <1>10 DEF Fail, TypeOK, Details
  <2>2. s' = s /\ l' = l + 1 /\ w' = w
    <3>1. details.failures \in Seq(Seq(Letters \cup {Dot}))
      BY <1>0 DEF TypeOK, Details
    <3>2. t \in Seq(Letters \cup {Dot})
      <4>1. IsSingle(bd)
        BY <1>0, <1>10, PickedCellCorrect DEF Fail, IInv
      <4>2. t \in SingleBoard
        BY <1>0, <4>1, SingleReps
      <4>3. t \in [1..NumCells -> Letters \cup {Dot}] /\ NumCells \in Nat
        BY <4>2, CellsType DEF SingleBoard
      <4> QED
        BY ONLY <4>3, FunctionIsSeq, Zenon
    <3> HIDE DEF t
    <3>3. Len(Append(details.failures, t)) = Len(details.failures) + 1
      BY <3>1, <3>2, AppendProperties
    <3> QED
      BY <1>3, <2>1, <3>3 DEF l, w
  <2>3. RepsPending = x + s /\ RepsPending' = 0 + s
    BY <1>2, <2>1, <2>2
  <2>4. ASSUME NoDots(bd) PROVE x = 1 % w
    <3>1. IsSingle(bd)
      BY <1>0, <1>10, PickedCellCorrect DEF Fail, IInv
    <3>2. ASSUME NEW k \in Cells PROVE Len(bd[k]) = 1
      <4>1. bd[k] \in Seq(Letters) /\ bd[k] # <<>> /\ Len(bd[k]) <= 1
        BY <1>0, <2>4, <3>1 DEF Board, NoDots, IsSingle
      <4>2. Len(bd[k]) \in Nat /\ Len(bd[k]) # 0
        <5>1. Len(bd[k]) \in Nat
          BY <4>1, LenProperties
        <5>2. Len(bd[k]) # 0
          BY <4>1, EmptySeq
        <5> QED
          BY <5>1, <5>2
      <4>3. \A n \in Nat : n # 0 /\ n <= 1 => n = 1
        OBVIOUS
      <4> QED
        BY <4>1, <4>2, <4>3
    <3> QED
      BY <1>0, <3>2, NumRepsSingle DEF x, w
  <2>5. Total(w, elim, l, (1 % w) + s) = Total(w, elim, l + 1, 0 + s)
    <3>1. TotalStays(w, elim, l, s, 1)
      BY <1>0, CountsMove
    <3>2. Total(w, elim, l, 1 + s) = Total(w, elim, l + 1, 0 + s)
      <4>1. elim + l + (1 + s) = elim + (l + 1) + (0 + s)
        BY <1>0
      <4> QED
        BY <4>1 DEF Total
    <3> QED
      BY <3>1, <3>2 DEF TotalStays
  <2>6. Counted /\ NoDots(bd) => Counted'
    BY <2>1, <2>2, <2>3, <2>4, <2>5
  <2> QED
    BY <1>1, <2>1, <2>6 DEF InProgress
<1>11. CASE Split
  <2> DEFINE p == PickedCell(bd)
             f == [orig_bd |-> bd, cell |-> p, splits |-> SplitsOf(bd[p]), i |-> 1]
  <2>1. p \in Cells /\ Len(bd[p]) > 1 /\ CellOK(bd[p]) /\ IsInjective(bd[p])
    BY <1>11, PickedCellCorrect DEF Split, IInv, TypeOK, ApartInv
  <2>2. f \in Frame /\ FrameOK(f) /\ f.orig_bd = bd
        /\ \A j \in 1..Len(f.splits) : f.splits[j] # <<>>
    BY <1>0, <2>1, SplitsCover DEF Frame, FrameOK, IInv
  <2>3. FrameReps(f) % w = x
    BY <1>0, <2>1, SplitsCount DEF x, w
  <2>4. /\ stack' = Append(stack, f) /\ pc = "attack" /\ pc' = "return"
        /\ elim' = elim /\ orig_reps' = orig_reps /\ orig' = orig
        /\ details'.failures = details.failures
    BY <1>0, <1>11 DEF Split, TypeOK, Details
  <2> HIDE DEF f
  <2>5. /\ Len(stack') = Len(stack) + 1
        /\ \A n \in 1..(Len(stack) + 1) :
              \/ n \in 1..Len(stack) /\ stack'[n] = stack[n]
              \/ n = Len(stack) + 1 /\ stack'[n] = f
    BY <1>0, <2>2, <2>4, AppendFrame
  <2>6. /\ stack' \in Seq(Frame) /\ stack'[Len(stack')] = f
        /\ \A n \in 1..Len(stack) : stack'[n] = stack[n]
    BY <1>0, <2>2, <2>4, AppendProperties
  <2>7. s' = FrameReps(f) + s /\ FrameReps(f) \in Nat
    <3> DEFINE st == stack'
    <3>1. /\ st \in Seq(Frame) /\ Len(st) = Len(stack) + 1 /\ st[Len(st)] = f
          /\ \A n \in 1..Len(stack) : st[n] = stack[n]
      BY <2>5, <2>6
    <3>2. s' = StackReps(st)
      BY DEF s
    <3> HIDE DEF st
    <3>3. /\ StackReps(st) = FrameReps(f) + StackReps(stack)
          /\ FrameReps(f) \in Nat
      BY <1>0, <2>2, <3>1, StackRepsTop
    <3> QED
      BY <3>2, <3>3 DEF s
  <2>8. l' = l /\ w' = w
    BY <1>5, <2>4 DEF w
  <2>9. RepsPending = x + s /\ RepsPending' = 0 + s'
    BY <1>2, <2>4
  <2> DEFINE y == FrameReps(f)
  <2>10. Total(w, elim, l, x + s) = Total(w, elim, l, 0 + (y + s))
    <3>1. y \in Nat /\ x = y % w
      BY <2>3, <2>7
    <3> HIDE DEF y
    <3>2. TotalStays(w, elim, l, s, y)
      BY <1>0, <3>1, CountsMove
    <3>3. 0 + (y + s) = y + s
      BY <1>0, <3>1
    <3> QED
      BY <3>1, <3>2, <3>3 DEF TotalStays
  <2>11. Counted => Counted'
    BY <2>4, <2>7, <2>8, <2>9, <2>10
  <2>12. Filled /\ NoDots(bd) => Filled'
    BY <2>2, <2>4, <2>5
  <2> QED
    BY <1>1, <2>4, <2>11, <2>12 DEF InProgress
<1>12. CASE TakeSplit
  <2>1. stack # <<>> /\ Top.i <= Len(Top.splits)
    BY <1>12 DEF TakeSplit
  <2>2. /\ Len(stack) \in Nat \ {0} /\ Top \in Frame /\ BelowTop \in Seq(Frame)
        /\ Len(BelowTop) = Len(stack) - 1
        /\ \A n \in 1..Len(BelowTop) : n \in 1..Len(stack) /\ BelowTop[n] = stack[n]
    BY <1>0, <2>1, StackTop
  <2> DEFINE f == [Top EXCEPT !.i = @ + 1]
             y == NumReps(SplitBoard(Top, Top.i))
  <2>3. /\ f \in Frame /\ f.orig_bd = Top.orig_bd /\ f.splits = Top.splits
        /\ Top.i \in 1..Len(Top.splits)
    <3>1. Top.i + 1 \in Nat \ {0} /\ Top.i \in Nat \ {0} /\ Len(Top.splits) \in Nat
      BY <2>2, LenProperties DEF Frame
    <3>2. \A i, n \in Nat : i # 0 /\ i <= n => i \in 1..n
      OBVIOUS
    <3>3. Top.i \in 1..Len(Top.splits)
      BY <2>1, <3>1, <3>2
    <3> QED
      BY <2>2, <3>1, <3>3 DEF Frame
  <2>4. /\ stack' = Append(BelowTop, f) /\ bd' = SplitBoard(Top, Top.i)
        /\ pc = "return" /\ pc' = "attack" /\ details' = details
        /\ elim' = elim /\ orig_reps' = orig_reps /\ orig' = orig
    BY <1>12 DEF TakeSplit, NextBoard
  <2>5. Len(stack) \in 1..Len(stack) /\ Top = stack[Len(stack)] /\ FrameOK(Top)
        /\ Len(stack) = Len(BelowTop) + 1
    BY <1>0, <2>2 DEF Top
  <2>6. FrameOK(f)
    BY <2>3, <2>5 DEF FrameOK
  <2>7. y \in Nat /\ FrameReps(Top) = y + FrameReps(f)
    BY <2>1, <2>2, <2>3, <2>5, <2>6, FrameRepsTake
  <2>8. /\ s = FrameReps(Top) + StackReps(BelowTop)
        /\ StackReps(BelowTop) \in Nat
    <3>1. \A n \in 1..Len(BelowTop) : stack[n] = BelowTop[n] /\ FrameOK(BelowTop[n])
      BY <1>0, <2>2
    <3> QED
      BY <1>0, <2>2, <2>5, <3>1, StackRepsTop DEF s
  <2> HIDE DEF f, y
  <2>9. /\ Len(stack') = Len(BelowTop) + 1
        /\ \A n \in 1..(Len(BelowTop) + 1) :
              \/ n \in 1..Len(BelowTop) /\ stack'[n] = BelowTop[n]
              \/ n = Len(BelowTop) + 1 /\ stack'[n] = f
    BY <2>2, <2>3, <2>4, AppendFrame
  <2>10. /\ stack' \in Seq(Frame) /\ stack'[Len(stack')] = f
         /\ \A n \in 1..Len(BelowTop) : stack'[n] = BelowTop[n]
    BY <2>2, <2>3, <2>4, AppendProperties
  <2>11. s' = FrameReps(f) + StackReps(BelowTop) /\ FrameReps(f) \in Nat
    <3> DEFINE st == stack'
    <3>1. /\ st \in Seq(Frame) /\ Len(st) = Len(BelowTop) + 1 /\ st[Len(st)] = f
          /\ \A n \in 1..Len(BelowTop) : st[n] = BelowTop[n] /\ FrameOK(BelowTop[n])
      BY <1>0, <2>2, <2>9, <2>10
    <3>2. s' = StackReps(st)
      BY DEF s
    <3> HIDE DEF st
    <3>3. /\ StackReps(st) = FrameReps(f) + StackReps(BelowTop)
          /\ FrameReps(f) \in Nat
      BY <2>2, <2>3, <2>6, <3>1, StackRepsTop
    <3> QED
      BY <3>2, <3>3
  <2>12. x' = y /\ l' = l /\ w' = w
    BY <1>5, <2>4 DEF x, y, w
  <2>13. RepsPending = 0 + s /\ RepsPending' = x' + s'
    BY <1>2, <2>4
  <2>14. RepsPending' = RepsPending
    <3>1. \A a, b, c \in Nat : a + (b + c) = 0 + ((a + b) + c)
      OBVIOUS
    <3> QED
      BY <2>7, <2>8, <2>11, <2>12, <2>13, <3>1
  <2>15. Counted => Counted'
    BY <2>4, <2>12, <2>14
  <2>16. ASSUME Filled PROVE Filled'
    <3>1. /\ NoDots(Top.orig_bd)
          /\ \A j \in 1..Len(Top.splits) : Top.splits[j] # <<>>
      BY <2>5, <2>16
    <3>2. NoDots(bd')
      BY <2>2, <2>3, <2>4, <3>1, SplitBoardNoDots
    <3>3. ASSUME NEW n \in 1..(Len(BelowTop) + 1)
          PROVE  /\ NoDots(stack'[n].orig_bd)
                 /\ \A j \in 1..Len(stack'[n].splits) : stack'[n].splits[j] # <<>>
      <4>1. CASE n \in 1..Len(BelowTop) /\ stack'[n] = BelowTop[n]
        BY <2>2, <2>16, <4>1
      <4>2. CASE stack'[n] = f
        BY <2>3, <3>1, <4>2
      <4> QED
        BY <2>9, <4>1, <4>2
    <3> QED
      BY <2>9, <3>2, <3>3 DEF NoDots
  <2> QED
    BY <1>1, <2>4, <2>15, <2>16 DEF InProgress
<1>13. CASE EndSplits
  <2>1. /\ stack # <<>> /\ stack' = BelowTop /\ details' = details /\ pc = "return"
        /\ pc' = pc /\ elim' = elim /\ orig_reps' = orig_reps /\ orig' = orig
        /\ Top.i > Len(Top.splits)
    BY <1>13 DEF EndSplits
  <2>2. /\ Len(stack) \in Nat \ {0} /\ Top \in Frame /\ BelowTop \in Seq(Frame)
        /\ Len(BelowTop) = Len(stack) - 1
        /\ \A n \in 1..Len(BelowTop) : n \in 1..Len(stack) /\ BelowTop[n] = stack[n]
    BY <1>0, <2>1, StackTop
  <2>3. Len(stack) \in 1..Len(stack) /\ Top = stack[Len(stack)] /\ FrameOK(Top)
        /\ Len(stack) = Len(BelowTop) + 1
    BY <1>0, <2>2 DEF Top
  <2>4. FrameReps(Top) = 0
    BY <2>1, <2>2, <2>3, FrameRepsEnd
  <2>5. /\ s = FrameReps(Top) + StackReps(BelowTop)
        /\ StackReps(BelowTop) \in Nat
    <3>1. \A n \in 1..Len(BelowTop) : stack[n] = BelowTop[n] /\ FrameOK(BelowTop[n])
      BY <1>0, <2>2
    <3> QED
      BY <1>0, <2>2, <2>3, <3>1, StackRepsTop DEF s
  <2>6. s' = s /\ l' = l /\ w' = w
    <3>1. s' = StackReps(BelowTop)
      BY <2>1 DEF s
    <3> QED
      BY <1>5, <2>1, <2>4, <2>5, <3>1 DEF w
  <2>7. RepsPending' = RepsPending
    BY <1>2, <2>1, <2>6
  <2>8. Counted => Counted'
    BY <2>1, <2>6, <2>7
  <2>9. Filled => Filled'
    BY <2>1, <2>2
  <2> QED
    BY <1>1, <2>1, <2>8, <2>9 DEF InProgress
<1>14. CASE EndBreak
  <2>1. /\ pc = "return" /\ pc' = "done" /\ stack' = stack /\ elim' = elim
        /\ orig_reps' = orig_reps /\ orig' = orig
        /\ details'.failures = details.failures
    BY <1>0, <1>14 DEF EndBreak, TypeOK, Details
  <2>2. s' = s /\ l' = l /\ w' = w
    BY <1>3, <1>5, <2>1 DEF w
  <2>3. RepsPending' = RepsPending
    BY <1>2, <2>1, <2>2
  <2>4. Counted => Counted'
    BY <2>1, <2>2, <2>3
  <2> QED
    BY <1>1, <2>1, <2>4 DEF InProgress
<1>15. CASE UNCHANGED vars
  BY <1>15 DEF vars, RepsInv, RepsAccounted, RepsPending, InProgress
<1> QED
  BY <1>7, <1>8, <1>9, <1>10, <1>11, <1>12, <1>13, <1>14, <1>15 DEF Next, Breaking

\* elim_, one for each failure and the boards still to be examined make
\* orig_reps_ in every step of Break, in machine words (AttackBoard, SplitBucket).
THEOREM BoardsAddUp ==
    ASSUME OrdersCoverCells, NoLetterTwice PROVE Spec => []RepsAccounted
<1>1. Init => RepsInv
  BY DEF Init, RepsInv, RepsAccounted, InProgress
<1>2. IInv /\ ApartInv /\ RepsInv /\ [Next]_vars => RepsInv'
  BY NextReps
<1>3. Init => ApartInv
  BY InitApart
<1>4. IInv /\ ApartInv /\ [Next]_vars => ApartInv'
  BY NextApart
<1>5. Spec => []IInv
  BY TypeInvariant
<1>6. RepsInv => RepsAccounted
  BY DEF RepsInv
<1> QED
  BY <1>1, <1>2, <1>3, <1>4, <1>5, <1>6, PTL DEF Spec

-----------------------------------------------------------------------------
(* No class is considered twice in a Break: what is still to come shares no  *)
(* board with a class that was considered, or is a part of it.               *)

Behind(c, p) == Reps(c) \cap Reps(p) = {} \/ BoardDepth(p) < BoardDepth(c)
FrameBehind(c, f) == \A j \in Remaining(f) : Behind(c, SplitBoard(f, j))

OnceInv ==
    /\ ConsideredOnce
    /\ \A i \in DOMAIN details.boards_considered :
          /\ pc = "attack" => Behind(details.boards_considered[i], bd)
          /\ \A n \in 1..Len(stack) : FrameBehind(details.boards_considered[i], stack[n])

\* Every class has a board.
LEMMA RepsNotEmpty == ASSUME NEW b \in Board PROVE Reps(b) # {}
<1> DEFINE r == [k \in Cells |-> CHOOSE x \in LettersOf(b[k]) : TRUE]
<1>1. \A k \in Cells : LettersOf(b[k]) # {}
  <2>1. ASSUME NEW k \in Cells PROVE LettersOf(b[k]) # {}
    <3>1. CASE b[k] = <<>>
      BY <3>1 DEF LettersOf
    <3>2. CASE b[k] # <<>>
      <4>1. b[k] \in Seq(Letters)
        BY DEF Board
      <4>2. b[k][Len(b[k])] \in ToSet(b[k])
        BY <3>2, <4>1, AllButLast, LenProperties DEF ToSet
      <4> QED
        BY <3>2, <4>2 DEF LettersOf
    <3> QED
      BY <3>1, <3>2
  <2> QED
    BY <2>1
<1>2. \A k \in Cells : r[k] \in LettersOf(b[k])
  BY <1>1
<1>3. r \in [Cells -> UNION {LettersOf(b[k]) : k \in Cells}]
  BY <1>2
<1> HIDE DEF r
<1>4. r \in Reps(b)
  BY <1>2, <1>3 DEF Reps
<1> QED
  BY <1>4

\* What comes behind a class is another class.
LEMMA BehindIsOther ==
    ASSUME NEW c \in Board, NEW p \in Board, Behind(c, p)
    PROVE  c # p
<1>1. BoardDepth(c) \in Nat
  BY BoardDepthIsSum
<1>2. \A x \in Nat : ~(x < x)
  OBVIOUS
<1> QED
  BY <1>1, <1>2, RepsNotEmpty DEF Behind

\* What comes behind a class, or is that class, has its splits behind it.
LEMMA SplitsBehind ==
    ASSUME NEW b \in Board, NEW k \in Cells, CellOK(b[k]), Len(b[k]) > 1,
           NEW c \in Board, c = b \/ Behind(c, b)
    PROVE  FrameBehind(c, [orig_bd |-> b, cell |-> k, splits |-> SplitsOf(b[k]), i |-> 1])
<1> DEFINE S == SplitsOf(b[k])
           f == [orig_bd |-> b, cell |-> k, splits |-> S, i |-> 1]
<1>1. f \in Frame /\ Len(S) \in Nat /\ f.i = 1 /\ f.splits = S
  <2>1. S \in Seq(Seq(Letters))
    BY SplitsCover
  <2>2. 1 \in Nat \ {0}
    OBVIOUS
  <2> HIDE DEF S
  <2> QED
    BY <2>1, <2>2, LenProperties DEF Frame
<1>2. FramePending(f) = Reps(b)
  BY SplitPending
<1>3. ASSUME NEW j \in 1..Len(S)
      PROVE  /\ BoardDepth(SplitBoard(f, j)) \in Nat /\ BoardDepth(b) \in Nat
             /\ BoardDepth(SplitBoard(f, j)) + 1 <= BoardDepth(b)
  <2>1. SplitBoard(f, j) = [b EXCEPT ![k] = SplitsOf(b[k])[j]]
    BY DEF SplitBoard
  <2>2. SplitBoard(f, j) \in Board /\ BoardDepth(SplitBoard(f, j)) + 1 <= BoardDepth(b)
    BY <2>1, SplitBoardShallower
  <2> QED
    BY <2>2, BoardDepthIsSum
<1> HIDE DEF S, f
<1>4. Remaining(f) = 1..Len(S)
  BY <1>1 DEF Remaining
<1>5. ASSUME NEW j \in 1..Len(S) PROVE Reps(SplitBoard(f, j)) \subseteq Reps(b)
  BY <1>2, <1>4 DEF FramePending
<1>6. \A x, y, z \in Nat : x + 1 <= y => x < y /\ (y < z => x < z)
  OBVIOUS
<1>7. BoardDepth(c) \in Nat
  BY BoardDepthIsSum
<1>8. ASSUME NEW j \in 1..Len(S) PROVE Behind(c, SplitBoard(f, j))
  <2>1. /\ BoardDepth(SplitBoard(f, j)) < BoardDepth(b)
        /\ BoardDepth(b) < BoardDepth(c) => BoardDepth(SplitBoard(f, j)) < BoardDepth(c)
    BY <1>3, <1>6, <1>7
  <2>2. CASE c = b
    BY <2>1, <2>2 DEF Behind
  <2>3. CASE Behind(c, b)
    BY <1>5, <2>1, <2>3 DEF Behind
  <2> QED
    BY <2>2, <2>3
<1>9. FrameBehind(c, f)
  BY <1>4, <1>8 DEF FrameBehind
<1> QED
  BY <1>9 DEF f, S

\* AttackBoard records the class under attack, if it records: one more.
LEMMA Recorded ==
    ASSUME TypeOK, OnceInv, pc = "attack",
           details'.boards_considered = Considered
    PROVE  /\ ConsideredOnce'
           /\ \A i \in DOMAIN details'.boards_considered :
                \/ details'.boards_considered[i] = bd
                \/ \E m \in DOMAIN details.boards_considered :
                      details'.boards_considered[i] = details.boards_considered[m]
<1> DEFINE s == details.boards_considered
           t == details'.boards_considered
<1>1. s \in Seq(Board) /\ bd \in Board
  BY DEF TypeOK, Details
<1>2. CASE t = s
  BY <1>2 DEF OnceInv, ConsideredOnce
<1>3. CASE t = Append(s, bd)
  <2>1. /\ Len(s) \in Nat /\ DOMAIN s = 1..Len(s) /\ DOMAIN t = 1..(Len(s) + 1)
        /\ \A n \in 1..(Len(s) + 1) :
              \/ n \in 1..Len(s) /\ n # Len(s) + 1 /\ t[n] = s[n]
              \/ n = Len(s) + 1 /\ n \notin 1..Len(s) /\ t[n] = bd
    BY <1>1, <1>3, AppendCases
  <2>2. \A n \in 1..Len(s) : s[n] # bd
    <3>1. ASSUME NEW n \in 1..Len(s) PROVE s[n] # bd
      <4>1. s[n] \in Board /\ Behind(s[n], bd)
        BY <1>1, <2>1, ElementOfSeq DEF OnceInv
      <4> QED
        BY <1>1, <4>1, BehindIsOther
    <3> QED
      BY <3>1
  <2>3. \A i, j \in 1..Len(s) : s[i] = s[j] => i = j
    BY <2>1 DEF OnceInv, ConsideredOnce
  <2> HIDE DEF s, t
  <2>4. \A i, j \in DOMAIN t : t[i] = t[j] => i = j
    BY <2>1, <2>2, <2>3
  <2>5. \A i \in DOMAIN t : t[i] = bd \/ \E m \in DOMAIN s : t[i] = s[m]
    BY <2>1
  <2> QED
    BY <2>4, <2>5 DEF ConsideredOnce, s, t
<1> QED
  BY <1>2, <1>3 DEF Considered

\* The class under attack shares no board with what the frames have still to take.
LEMMA FramesBehindAttack ==
    ASSUME IInv, ApartInv, pc = "attack"
    PROVE  \A n \in 1..Len(stack) : FrameBehind(bd, stack[n])
<1>1. stack \in Seq(Frame) /\ Reps(bd) \cap StackPending(stack) = {}
  BY DEF IInv, TypeOK, ApartInv
<1>2. \A n \in 1..Len(stack) : FramePending(stack[n]) \subseteq StackPending(stack)
  BY <1>1, StackPendingMember
<1>3. \A n : \A j \in Remaining(stack[n]) :
          Reps(SplitBoard(stack[n], j)) \subseteq FramePending(stack[n])
  BY DEF FramePending
<1> QED
  BY <1>1, <1>2, <1>3 DEF FrameBehind, Behind

\* Every step of one Break keeps what is to come behind what was considered.
LEMMA NextOnce ==
    ASSUME OrdersCoverCells, NoLetterTwice, MaxConsidered <= 1, MaxConsidered \in Nat
    PROVE  IInv /\ ApartInv /\ OnceInv /\ [Next]_vars => OnceInv'
<1> SUFFICES ASSUME IInv, ApartInv, OnceInv, [Next]_vars PROVE OnceInv'
  OBVIOUS
<1> DEFINE s == details.boards_considered
           t == details'.boards_considered
<1>0. /\ TypeOK /\ s \in Seq(Board) /\ bd \in Board /\ stack \in Seq(Frame)
      /\ Len(stack) \in Nat /\ \A n \in 1..Len(stack) : stack[n] \in Frame
      /\ \A i \in DOMAIN s : s[i] \in Board
  BY LenProperties, ElementOfSeq DEF IInv, TypeOK, Details
<1>1. ASSUME t = s PROVE ConsideredOnce'
  BY <1>1 DEF OnceInv, ConsideredOnce
<1>2. CASE ParseBoard \/ SetPickOrder
  <2>1. /\ details' = details /\ stack' = stack /\ pc' # "attack"
    BY <1>2 DEF ParseBoard, SetPickOrder, Idle
  <2> QED
    BY <1>1, <2>1 DEF OnceInv
<1>3. CASE Break
  <2>1. t = s /\ Len(s) < MaxConsidered
    BY <1>3 DEF Break, ResetDetails, NoDetails
  <2>2. DOMAIN s = {}
    <3>1. Len(s) \in Nat /\ DOMAIN s = 1..Len(s)
      BY <1>0, LenProperties
    <3>2. \A m, n \in Nat : m <= 1 /\ n < m => 1..n = {}
      OBVIOUS
    <3> QED
      BY <2>1, <3>1, <3>2
  <2> QED
    BY <1>1, <2>1, <2>2 DEF OnceInv
<1>4. CASE Eliminate \/ Fail
  <2>1. /\ stack' = stack /\ pc = "attack" /\ pc' = "return" /\ t = Considered
    BY <1>0, <1>4 DEF Eliminate, Fail, TypeOK, Details
  <2>2. /\ ConsideredOnce'
        /\ \A i \in DOMAIN t : t[i] = bd \/ \E m \in DOMAIN s : t[i] = s[m]
    BY <1>0, <2>1, Recorded
  <2>3. \A n \in 1..Len(stack) : FrameBehind(bd, stack[n])
    BY <2>1, FramesBehindAttack
  <2> QED
    BY <2>1, <2>2, <2>3 DEF OnceInv
<1>5. CASE Split
  <2> DEFINE p == PickedCell(bd)
             f == [orig_bd |-> bd, cell |-> p, splits |-> SplitsOf(bd[p]), i |-> 1]
  <2>1. p \in Cells /\ Len(bd[p]) > 1 /\ CellOK(bd[p])
    BY <1>5, PickedCellCorrect DEF Split, IInv, TypeOK
  <2>2. f \in Frame
    BY <1>0, <2>1, SplitsCover DEF Frame
  <2>3. /\ stack' = Append(stack, f) /\ pc = "attack" /\ pc' = "return" /\ t = Considered
    BY <1>0, <1>5 DEF Split, TypeOK, Details
  <2>4. \A c \in Board : c = bd \/ Behind(c, bd) => FrameBehind(c, f)
    BY <1>0, <2>1, SplitsBehind
  <2> HIDE DEF f
  <2>5. /\ Len(stack') = Len(stack) + 1
        /\ \A n \in 1..(Len(stack) + 1) :
              \/ n \in 1..Len(stack) /\ stack'[n] = stack[n]
              \/ n = Len(stack) + 1 /\ stack'[n] = f
    BY <1>0, <2>2, <2>3, AppendFrame
  <2>6. /\ ConsideredOnce'
        /\ \A i \in DOMAIN t : t[i] = bd \/ \E m \in DOMAIN s : t[i] = s[m]
    BY <1>0, <2>3, Recorded
  <2>7. \A n \in 1..Len(stack) : FrameBehind(bd, stack[n])
    BY <2>3, FramesBehindAttack
  <2>8. ASSUME NEW i \in DOMAIN t, NEW n \in 1..(Len(stack) + 1)
        PROVE  FrameBehind(t[i], stack'[n])
    <3>1. CASE t[i] = bd
      BY <1>0, <2>4, <2>5, <2>7, <3>1
    <3>2. CASE \E m \in DOMAIN s : t[i] = s[m]
      <4>1. PICK m \in DOMAIN s : t[i] = s[m]
        BY <3>2
      <4>2. /\ Behind(s[m], bd) /\ s[m] \in Board
            /\ \A k \in 1..Len(stack) : FrameBehind(s[m], stack[k])
        BY <1>0, <2>3 DEF OnceInv
      <4> QED
        BY <2>4, <2>5, <4>1, <4>2
    <3> QED
      BY <2>6, <3>1, <3>2
  <2> QED
    BY <2>3, <2>5, <2>6, <2>8 DEF OnceInv
<1>6. CASE TakeSplit
  <2>1. stack # <<>> /\ Top.i <= Len(Top.splits) /\ t = s /\ pc' = "attack"
    BY <1>6 DEF TakeSplit
  <2>2. /\ Len(stack) \in Nat \ {0} /\ Top \in Frame /\ BelowTop \in Seq(Frame)
        /\ Len(BelowTop) = Len(stack) - 1
        /\ \A n \in 1..Len(BelowTop) : n \in 1..Len(stack) /\ BelowTop[n] = stack[n]
    BY <1>0, <2>1, StackTop
  <2> DEFINE f == [Top EXCEPT !.i = @ + 1]
  <2>3. /\ f \in Frame /\ f.orig_bd = Top.orig_bd /\ f.cell = Top.cell
        /\ f.splits = Top.splits /\ f.i = Top.i + 1
        /\ Top.i \in Nat \ {0} /\ Len(Top.splits) \in Nat
    <3>1. Top.i + 1 \in Nat \ {0}
      BY <2>2 DEF Frame
    <3> QED
      BY <2>2, <3>1, LenProperties DEF Frame
  <2>4. stack' = Append(BelowTop, f) /\ bd' = SplitBoard(Top, Top.i)
    BY <1>6 DEF TakeSplit, NextBoard
  <2> HIDE DEF f
  <2>5. /\ Len(stack') = Len(BelowTop) + 1
        /\ \A n \in 1..(Len(BelowTop) + 1) :
              \/ n \in 1..Len(BelowTop) /\ stack'[n] = BelowTop[n]
              \/ n = Len(BelowTop) + 1 /\ stack'[n] = f
    BY <2>2, <2>3, <2>4, AppendFrame
  <2>6. Top.i \in Remaining(Top) /\ Remaining(f) \subseteq Remaining(Top)
    <3>1. \A x, y \in Nat : x <= y => x \in x..y /\ (x + 1)..y \subseteq x..y
      OBVIOUS
    <3> QED
      BY <2>1, <2>3, <3>1 DEF Remaining
  <2>7. \A j : SplitBoard(f, j) = SplitBoard(Top, j)
    BY <2>3 DEF SplitBoard
  <2>8. Len(stack) \in 1..Len(stack) /\ Top = stack[Len(stack)]
    BY <2>2 DEF Top
  <2>9. ASSUME NEW i \in DOMAIN s
        PROVE  /\ Behind(s[i], bd')
               /\ \A n \in 1..(Len(BelowTop) + 1) : FrameBehind(s[i], stack'[n])
    <3>1. \A n \in 1..Len(stack) : FrameBehind(s[i], stack[n])
      BY DEF OnceInv
    <3>2. FrameBehind(s[i], Top)
      BY <2>8, <3>1
    <3>3. Behind(s[i], bd') /\ FrameBehind(s[i], f)
      BY <2>4, <2>6, <2>7, <3>2 DEF FrameBehind
    <3> QED
      BY <2>2, <2>5, <3>1, <3>3
  <2> HIDE DEF s, t
  <2> QED
    BY <1>1, <2>1, <2>5, <2>9 DEF OnceInv, s, t
<1>7. CASE EndSplits
  <2>1. stack # <<>> /\ stack' = BelowTop /\ t = s /\ pc' # "attack"
    BY <1>7 DEF EndSplits
  <2>2. \A n \in 1..Len(stack') : n \in 1..Len(stack) /\ stack'[n] = stack[n]
    BY <1>0, <2>1, StackTop
  <2> QED
    BY <1>1, <2>1, <2>2 DEF OnceInv
<1>8. CASE EndBreak
  <2>1. t = s /\ stack' = stack /\ pc' # "attack"
    BY <1>0, <1>8 DEF EndBreak, TypeOK, Details
  <2> QED
    BY <1>1, <2>1 DEF OnceInv
<1>9. CASE UNCHANGED vars
  <2>1. UNCHANGED <<pc, bd, stack, details>>
    BY <1>9 DEF vars
  <2> QED
    BY <1>1, <2>1 DEF OnceInv
<1> QED
  BY <1>2, <1>3, <1>4, <1>5, <1>6, <1>7, <1>8, <1>9 DEF Next, Breaking

\* A Break on a fresh record considers no class twice: a split is never the whole
\* of what it splits, and no two of them share a board (AttackBoard,
\* SplitBucket, with record_progress).
THEOREM NothingIsConsideredTwice ==
    ASSUME OrdersCoverCells, NoLetterTwice, MaxConsidered \in Nat, MaxConsidered <= 1
    PROVE  Spec => []ConsideredOnce
<1>1. Init => OnceInv
  <2> SUFFICES ASSUME Init PROVE OnceInv
    OBVIOUS
  <2>1. details.boards_considered = <<>>
    BY DEF Init, NoDetails
  <2> QED
    BY <2>1 DEF OnceInv, ConsideredOnce
<1>2. IInv /\ ApartInv /\ OnceInv /\ [Next]_vars => OnceInv'
  BY NextOnce
<1>3. Init => ApartInv
  BY InitApart
<1>4. IInv /\ ApartInv /\ [Next]_vars => ApartInv'
  BY NextApart
<1>5. Spec => []IInv
  BY TypeInvariant
<1>6. OnceInv => ConsideredOnce
  BY DEF OnceInv
<1> QED
  BY <1>1, <1>2, <1>3, <1>4, <1>5, <1>6, PTL DEF Spec

-----------------------------------------------------------------------------
(* What ParseBoard does with one character. *)

\* A row of indices_, and what ParseBoard has while it has not failed.
IndexRow == [0..31 -> Nat \cup {NoIndex}]
ParseState ==
    {s \in [rows : [Cells -> CellRow], cell : Nat, cell_pos : Nat, idx : Nat,
            failed : BOOLEAN, indices : [Cells -> IndexRow]] :
        ~s.failed => s.cell \in Cells /\ s.cell_pos \in Positions}

\* The rows are those before but for the byte at place p of row k.
OneByte(rows, before, k, p, byte) ==
    /\ rows[k][p] = byte
    /\ \A q \in Positions : q # p => rows[k][q] = before[k][q]
    /\ \A j \in Cells : j # k => rows[j] = before[j]

\* Places that a row has, and the characters that are no letters.
LEMMA RowHasRoom ==
    /\ CellSize \in Nat /\ CellSize >= 2 /\ CellSize <= 31
    /\ 0 \in Positions /\ 1 \in Positions /\ Positions \subseteq Nat
    /\ \A p \in Positions : p + 1 \in 0..31
    /\ NUL \notin Letters /\ NUL # Dot /\ Space \notin Letters
    /\ Space # Dot /\ Dot \notin Letters
<1>1. CellSize \in 2..31 /\ {Space, NUL} \cap (Letters \cup {Dot}) = {}
  BY CellSizeAssumption, CharactersAssumption
<1> QED
  BY <1>1, LettersAssumption DEF Positions

\* Writing a byte.
LEMMA PutByte ==
    ASSUME NEW rows \in [Cells -> CellRow], NEW k \in Cells, NEW p \in Positions,
           NEW byte \in Letters \cup {NUL}
    PROVE  /\ [rows EXCEPT ![k][p] = byte] \in [Cells -> CellRow]
           /\ OneByte([rows EXCEPT ![k][p] = byte], rows, k, p, byte)
<1>1. rows[k] \in [Positions -> Letters \cup {NUL}]
  BY DEF CellRow
<1>2. [rows[k] EXCEPT ![p] = byte] \in CellRow
  BY <1>1 DEF CellRow
<1> QED
  BY <1>1, <1>2 DEF OneByte

\* Before the first character nothing is rejected, and the first row is next.
LEMMA StartIs ==
    ASSUME NEW rows \in [Cells -> CellRow]
    PROVE  /\ Start(rows) \in ParseState
           /\ ~Start(rows).failed /\ Start(rows).rows = rows
           /\ Start(rows).cell = 1 /\ Start(rows).cell_pos = 0 /\ Start(rows).idx = 0
<1> DEFINE none == [p \in 0..31 |-> NoIndex]
           nowhere == [k \in Cells |-> none]
<1>1. none \in IndexRow
  BY DEF IndexRow
<1> HIDE DEF none
<1>2. nowhere \in [Cells -> IndexRow]
  BY <1>1
<1>3. Start(rows) = [rows |-> rows, cell |-> 1, cell_pos |-> 0, idx |-> 0,
                     failed |-> FALSE, indices |-> nowhere]
  BY DEF Start, none
<1>4. 1 \in Cells /\ 1 \in Nat /\ 0 \in Nat
  BY CellsType
<1> HIDE DEF nowhere
<1>5. Start(rows) \in [rows : [Cells -> CellRow], cell : Nat, cell_pos : Nat, idx : Nat,
                       failed : BOOLEAN, indices : [Cells -> IndexRow]]
  BY <1>2, <1>3, <1>4
<1> QED
  BY <1>3, <1>4, <1>5, RowHasRoom DEF ParseState

\* A text that is rejected stays a state of the parse.
LEMMA RejectedIs ==
    ASSUME NEW s \in ParseState
    PROVE  Rejected(s) \in ParseState /\ Rejected(s).failed
  BY DEF Rejected, ParseState

\* A space ends the row with a NUL and goes on to the next, which there must be.
LEMMA NextCellIs ==
    ASSUME NEW s \in ParseState, ~s.failed
    PROVE  LET r == NextCell(s)
           IN  /\ r \in ParseState
               /\ r.failed <=> s.cell_pos = 0 \/ s.cell + 1 > NumCells
               /\ ~r.failed => /\ OneByte(r.rows, s.rows, s.cell, s.cell_pos, NUL)
                               /\ r.cell = s.cell + 1 /\ r.cell_pos = 0
                               /\ r.idx = s.idx /\ r.indices = s.indices
<1> DEFINE bytes == [s.rows EXCEPT ![s.cell][s.cell_pos] = NUL]
           e == [s EXCEPT !.rows[s.cell][s.cell_pos] = NUL, !.cell = @ + 1, !.cell_pos = 0]
<1>1. /\ s.rows \in [Cells -> CellRow] /\ s.cell \in Cells /\ s.cell_pos \in Positions
      /\ s.cell \in Nat
  BY DEF ParseState
<1>2. bytes \in [Cells -> CellRow] /\ OneByte(bytes, s.rows, s.cell, s.cell_pos, NUL)
  BY <1>1, PutByte
<1>3. /\ e = [s EXCEPT !.rows = bytes, !.cell = s.cell + 1, !.cell_pos = 0]
  BY DEF ParseState
<1> HIDE DEF bytes
<1>4. /\ e.rows = bytes /\ e.cell = s.cell + 1 /\ e.cell_pos = 0
      /\ e.idx = s.idx /\ e.indices = s.indices /\ ~e.failed
  BY <1>3 DEF ParseState
<1>5. e \in [rows : [Cells -> CellRow], cell : Nat, cell_pos : Nat, idx : Nat,
             failed : BOOLEAN, indices : [Cells -> IndexRow]]
  <2> DEFINE A == [Cells -> CellRow]
             I == [Cells -> IndexRow]
             n == s.cell + 1
  <2>1. /\ s \in [rows : A, cell : Nat, cell_pos : Nat, idx : Nat,
                  failed : BOOLEAN, indices : I]
        /\ bytes \in A /\ n \in Nat
    BY <1>1, <1>2 DEF ParseState
  <2> HIDE DEF A, I, n
  <2>2. e \in [rows : A, cell : Nat, cell_pos : Nat, idx : Nat, failed : BOOLEAN,
               indices : I]
    BY ONLY <2>1, <1>3 DEF n
  <2> QED
    BY <2>2 DEF A, I
<1>6. NextCell(s) = IF s.cell_pos = 0 THEN Rejected(s)
                    ELSE IF e.cell > NumCells THEN Rejected(e) ELSE e
  BY DEF NextCell
<1> HIDE DEF e
<1>7. e.cell > NumCells => /\ Rejected(e) \in ParseState /\ Rejected(e).failed
  BY <1>5 DEF Rejected, ParseState
<1>8. ~(e.cell > NumCells) => e \in ParseState
  BY <1>1, <1>4, <1>5, CellsType, RowHasRoom DEF ParseState
<1> QED
  BY <1>1, <1>2, <1>4, <1>6, <1>7, <1>8, RejectedIs

\* A '.' ends the row at its start; the next character comes after that.
LEMMA EmptyCellIs ==
    ASSUME NEW s \in ParseState, ~s.failed
    PROVE  LET r == EmptyCell(s)
           IN  /\ r \in ParseState /\ ~r.failed
               /\ OneByte(r.rows, s.rows, s.cell, 0, NUL)
               /\ r.cell = s.cell /\ r.cell_pos = 1
               /\ r.idx = s.idx /\ r.indices = s.indices
<1> DEFINE bytes == [s.rows EXCEPT ![s.cell][0] = NUL]
           e == EmptyCell(s)
<1>1. s.rows \in [Cells -> CellRow] /\ s.cell \in Cells
  BY DEF ParseState
<1>2. bytes \in [Cells -> CellRow] /\ OneByte(bytes, s.rows, s.cell, 0, NUL)
  BY <1>1, PutByte, RowHasRoom
<1>3. /\ e = [s EXCEPT !.rows = bytes, !.cell_pos = 1]
  BY DEF ParseState, EmptyCell
<1> HIDE DEF bytes, e
<1>4. /\ e.rows = bytes /\ e.cell = s.cell /\ e.cell_pos = 1
      /\ e.idx = s.idx /\ e.indices = s.indices /\ ~e.failed
  BY <1>3 DEF ParseState
<1>5. e \in ParseState
  BY <1>1, <1>2, <1>3, RowHasRoom DEF ParseState
<1> QED
  BY <1>2, <1>4, <1>5 DEF e

\* A letter is written where the row stands, and its number one place later.
LEMMA PutLetterIs ==
    ASSUME NEW s \in ParseState, ~s.failed, NEW c \in Letters
    PROVE  LET r == PutLetter(s, c)
           IN  /\ r \in ParseState
               /\ r.failed <=> s.cell_pos + 1 >= CellSize
               /\ OneByte(r.rows, s.rows, s.cell, s.cell_pos, c)
               /\ r.cell = s.cell /\ r.cell_pos = s.cell_pos + 1
               /\ r.idx = s.idx + 1
               /\ r.indices[s.cell][s.cell_pos + 1] = s.idx
               /\ \A p \in 0..31 : p # s.cell_pos + 1
                                    => r.indices[s.cell][p] = s.indices[s.cell][p]
               /\ \A k \in Cells : k # s.cell => r.indices[k] = s.indices[k]
<1> DEFINE bytes == [s.rows EXCEPT ![s.cell][s.cell_pos] = c]
           numbers == [s.indices EXCEPT ![s.cell][s.cell_pos + 1] = s.idx]
           e == [s EXCEPT !.rows[s.cell][s.cell_pos] = c, !.cell_pos = @ + 1,
                          !.indices[s.cell][s.cell_pos + 1] = s.idx,
                          !.idx = @ + 1]
<1>1. /\ s.rows \in [Cells -> CellRow] /\ s.cell \in Cells /\ s.cell_pos \in Positions
      /\ s.indices \in [Cells -> IndexRow] /\ s.idx \in Nat /\ s.cell_pos \in Nat
  BY DEF ParseState
<1>2. bytes \in [Cells -> CellRow] /\ OneByte(bytes, s.rows, s.cell, s.cell_pos, c)
  BY <1>1, PutByte
<1>3. /\ numbers \in [Cells -> IndexRow]
      /\ numbers[s.cell][s.cell_pos + 1] = s.idx
      /\ \A p \in 0..31 : p # s.cell_pos + 1 => numbers[s.cell][p] = s.indices[s.cell][p]
      /\ \A k \in Cells : k # s.cell => numbers[k] = s.indices[k]
  <2> DEFINE at == s.cell_pos + 1
             row == [s.indices[s.cell] EXCEPT ![at] = s.idx]
  <2>1. at \in 0..31
    BY <1>1, RowHasRoom
  <2> HIDE DEF at
  <2>2. /\ row \in IndexRow /\ row[at] = s.idx
        /\ \A p \in 0..31 : p # at => row[p] = s.indices[s.cell][p]
    BY <1>1, <2>1 DEF IndexRow
  <2>3. numbers = [s.indices EXCEPT ![s.cell] = row]
    BY <1>1 DEF at
  <2> HIDE DEF row, numbers
  <2> QED
    BY <1>1, <2>2, <2>3 DEF at
<1>4. e = [s EXCEPT !.rows = bytes, !.cell_pos = s.cell_pos + 1, !.indices = numbers,
                    !.idx = s.idx + 1]
  BY DEF ParseState
<1> HIDE DEF bytes, numbers
<1>5. /\ e.rows = bytes /\ e.cell = s.cell /\ e.cell_pos = s.cell_pos + 1
      /\ e.idx = s.idx + 1 /\ e.indices = numbers /\ ~e.failed
  BY <1>4 DEF ParseState
<1>6. e \in [rows : [Cells -> CellRow], cell : Nat, cell_pos : Nat, idx : Nat,
             failed : BOOLEAN, indices : [Cells -> IndexRow]]
  <2> DEFINE A == [Cells -> CellRow]
             I == [Cells -> IndexRow]
             n == s.cell_pos + 1
             m == s.idx + 1
  <2>1. /\ s \in [rows : A, cell : Nat, cell_pos : Nat, idx : Nat,
                  failed : BOOLEAN, indices : I]
        /\ bytes \in A /\ numbers \in I /\ n \in Nat /\ m \in Nat
    BY <1>1, <1>2, <1>3 DEF ParseState
  <2>2. e = [s EXCEPT !.rows = bytes, !.cell_pos = n, !.indices = numbers, !.idx = m]
    BY <1>4
  <2> HIDE DEF A, I, n, m
  <2>3. e \in [rows : A, cell : Nat, cell_pos : Nat, idx : Nat, failed : BOOLEAN,
               indices : I]
    BY ONLY <2>1, <2>2
  <2> QED
    BY <2>3 DEF A, I
<1>7. PutLetter(s, c) = IF e.cell_pos >= CellSize THEN Rejected(e) ELSE e
  BY DEF PutLetter
<1> HIDE DEF e
<1>8. /\ Rejected(e) \in ParseState /\ Rejected(e).failed
      /\ Rejected(e).rows = e.rows /\ Rejected(e).cell = e.cell
      /\ Rejected(e).cell_pos = e.cell_pos /\ Rejected(e).idx = e.idx
      /\ Rejected(e).indices = e.indices
  BY <1>6 DEF Rejected, ParseState
<1>9. ~(e.cell_pos >= CellSize) => e \in ParseState
  BY <1>1, <1>5, <1>6, RowHasRoom DEF ParseState, Positions
<1> QED
  BY SMTT(20), <1>1, <1>2, <1>3, <1>5, <1>7, <1>8, <1>9

\* ParseBoard goes by the character; what is none of them it rejects.
LEMMA OneCharacterIs ==
    ASSUME NEW s \in ParseState, NEW c
    PROVE  /\ OneCharacter(s, c) \in ParseState
           /\ s.failed => OneCharacter(s, c) = s
           /\ ~s.failed /\ c = Space => OneCharacter(s, c) = NextCell(s)
           /\ ~s.failed /\ c = Dot => OneCharacter(s, c) = EmptyCell(s)
           /\ ~s.failed /\ c \in Letters => OneCharacter(s, c) = PutLetter(s, c)
           /\ ~s.failed /\ c \notin Letters \cup {Dot, Space}
                => OneCharacter(s, c).failed
<1>1. s.failed => OneCharacter(s, c) = s
  BY DEF OneCharacter
<1>2. ~s.failed /\ c = Space => OneCharacter(s, c) = NextCell(s)
  BY RowHasRoom DEF OneCharacter
<1>3. ~s.failed /\ c = Dot => OneCharacter(s, c) = EmptyCell(s)
  BY RowHasRoom DEF OneCharacter
<1>4. ~s.failed /\ c \in Letters => OneCharacter(s, c) = PutLetter(s, c)
  BY RowHasRoom DEF OneCharacter
<1>5. ~s.failed /\ c \notin Letters \cup {Dot, Space} => OneCharacter(s, c) = Rejected(s)
  BY DEF OneCharacter
<1> QED
  BY <1>1, <1>2, <1>3, <1>4, <1>5, NextCellIs, EmptyCellIs, PutLetterIs, RejectedIs

-----------------------------------------------------------------------------
(* The characters in turn. *)

\* Progress has what each character makes of the state before it.
LEMMA ProgressIs ==
    ASSUME NEW rows \in [Cells -> CellRow], NEW C, NEW t \in Seq(C)
    PROVE  /\ Progress(rows, t) \in [0..Len(t) -> ParseState]
           /\ Progress(rows, t)[0] = Start(rows)
           /\ \A i \in 1..Len(t) :
                 Progress(rows, t)[i] = OneCharacter(Progress(rows, t)[i - 1], t[i])
<1> DEFINE N == Len(t)
           V == ParseState
           base == Start(rows)
           step == [j \in 1..N |-> [v \in V |-> OneCharacter(v, t[j])]]
           Eq(f) == f = [i \in 0..N |->
                           IF i = 0 THEN base ELSE OneCharacter(f[i - 1], t[i])]
           h == CHOOSE f : Eq(f)
<1>1. N \in Nat
  BY LenProperties
<1>2. \A v \in V : \A c : OneCharacter(v, c) \in V
  BY OneCharacterIs
<1>3. base \in V
  BY StartIs
<1>4. Progress(rows, t) = h
  BY DEF Progress
<1> HIDE DEF V, base, N
<1>5. \A j \in 1..N : \A v \in V : step[j][v] = OneCharacter(v, t[j])
  OBVIOUS
<1>6. \A j \in 1..N : \A v \in V : step[j][v] \in V
  BY <1>2, <1>5
<1> HIDE DEF step
<1>7. PICK g : Iterates(g, N, V, base, step)
  BY <1>1, <1>3, <1>6, IteratesExist
<1>8. g \in [0..N -> V] /\ g[0] = base /\ \A j \in 1..N : g[j] = step[j][g[j - 1]]
  BY <1>7 DEF Iterates
<1>9. \A j \in 0..N : j = 0 \/ (j \in 1..N /\ j - 1 \in 0..N)
  BY <1>1
<1>10. \A j \in 0..N : g[j] = IF j = 0 THEN base ELSE OneCharacter(g[j - 1], t[j])
  BY <1>5, <1>8, <1>9
<1>11. Eq(g)
  BY <1>8, <1>10
<1>12. Eq(h)
  BY <1>11
<1> HIDE DEF h
<1>13. 0 \in 0..N /\ \A j \in 1..N : j \in 0..N /\ j # 0
  BY <1>1
<1>14. h = [j \in 0..N |-> h[j]] /\ h[0] = base
  BY <1>12, <1>13
<1>15. \A j \in 1..N : h[j] = OneCharacter(h[j - 1], t[j])
  BY <1>12, <1>13
<1>16. \A j \in 1..N : h[j - 1] \in V => h[j] = step[j][h[j - 1]]
  BY <1>5, <1>15
<1>17. Iterates(h, N, V, base, step)
  BY ONLY <1>1, <1>3, <1>6, <1>14, <1>16, RecursionIs
<1> QED
  BY <1>4, <1>14, <1>15, <1>17 DEF Iterates, N, V, base

\* Pieces of texts with characters in C.
PieceSeqs(C) == Seq(Seq(C)) \ {<<>>}

\* One more character.
LEMMA WithNextIs ==
    ASSUME NEW C, NEW p \in PieceSeqs(C), NEW c \in C
    PROVE  /\ WithNext(p, c) \in PieceSeqs(C)
           /\ Len(p) \in Nat \ {0} /\ p[Len(p)] \in Seq(C)
           /\ \A k \in 1..(Len(p) - 1) : k \in 1..Len(p) /\ WithNext(p, c)[k] = p[k]
           /\ c = Space => /\ Len(WithNext(p, c)) = Len(p) + 1
                           /\ WithNext(p, c)[Len(p)] = p[Len(p)]
                           /\ WithNext(p, c)[Len(p) + 1] = <<>>
           /\ c # Space => /\ Len(WithNext(p, c)) = Len(p)
                           /\ WithNext(p, c)[Len(p)] = Append(p[Len(p)], c)
<1> DEFINE V == Seq(C)
           n == Len(p)
           e == <<>>
           w == WithNext(p, c)
<1>1. n \in Nat \ {0} /\ p[n] \in V /\ p \in Seq(V)
  BY EmptySeq, LenProperties, ElementOfSeq DEF PieceSeqs
<1>2. \A k \in 1..(n - 1) : k \in 1..n /\ k # n
  BY <1>1
<1>3. n \in 1..n /\ e \in V
  BY <1>1, EmptySeq
<1>4. CASE c = Space
  <2>1. w = Append(p, e)
    BY <1>4 DEF WithNext
  <2> HIDE DEF V, e, w
  <2>2. /\ Append(p, e) \in Seq(V) /\ Len(Append(p, e)) = Len(p) + 1
        /\ \A k \in 1..Len(p) : Append(p, e)[k] = p[k]
        /\ Append(p, e)[Len(p) + 1] = e
    BY ONLY <1>1, <1>3, AppendProperties
  <2>3. w # <<>>
    <3>1. Len(<<>>) = 0
      BY EmptySeq
    <3> QED
      BY <1>1, <2>1, <2>2, <3>1
  <2> QED
    BY <1>1, <1>2, <1>3, <1>4, <2>1, <2>2, <2>3 DEF PieceSeqs, V, e, w
<1>5. CASE c # Space
  <2> DEFINE a == Append(p[n], c)
  <2>1. w = [p EXCEPT ![n] = a]
    BY <1>1, <1>5 DEF WithNext
  <2>2. a \in V
    BY <1>1, AppendProperties
  <2> HIDE DEF V, a, w
  <2>3. /\ [p EXCEPT ![n] = a] \in Seq(V) /\ Len([p EXCEPT ![n] = a]) = Len(p)
        /\ \A j \in 1..Len(p) : [p EXCEPT ![n] = a][j] = IF j = n THEN a ELSE p[j]
    BY ONLY <1>1, <1>3, <2>2, ExceptSeq
  <2>4. w # <<>>
    <3>1. Len(<<>>) = 0
      BY EmptySeq
    <3> QED
      BY <1>1, <2>1, <2>3, <3>1
  <2> QED
    BY <1>1, <1>2, <1>3, <1>5, <2>1, <2>3, <2>4 DEF PieceSeqs, V, a, w
<1> QED
  BY <1>4, <1>5

\* The pieces before the last stay.
LEMMA WithNextKeeps ==
    \A C : \A p \in PieceSeqs(C) : \A c \in C : \A k \in 1..(Len(p) - 1) :
        k \in 1..Len(p) /\ WithNext(p, c)[k] = p[k]
  BY WithNextIs

\* PiecesUpTo has what each character makes of the pieces before it.
LEMMA PiecesUpToIs ==
    ASSUME NEW C, NEW t \in Seq(C)
    PROVE  /\ PiecesUpTo(t) \in [0..Len(t) -> PieceSeqs(C)]
           /\ PiecesUpTo(t)[0] = << <<>> >>
           /\ \A i \in 1..Len(t) : PiecesUpTo(t)[i] = WithNext(PiecesUpTo(t)[i - 1], t[i])
<1> DEFINE N == Len(t)
           V == PieceSeqs(C)
           base == << <<>> >>
           step == [j \in 1..N |-> [v \in V |-> WithNext(v, t[j])]]
           Eq(f) == f = [i \in 0..N |->
                           IF i = 0 THEN base ELSE WithNext(f[i - 1], t[i])]
           h == CHOOSE f : Eq(f)
<1>1. N \in Nat /\ \A j \in 1..N : t[j] \in C
  BY LenProperties, ElementOfSeq
<1>2. \A v \in V : \A c \in C : WithNext(v, c) \in V
  BY WithNextIs
<1>3. base \in V
  <2>1. <<>> \in Seq(C)
    BY EmptySeq
  <2>2. <<>> # << <<>> >>
    OBVIOUS
  <2> QED
    BY <2>1, <2>2 DEF PieceSeqs
<1>4. PiecesUpTo(t) = h
  BY DEF PiecesUpTo
<1> HIDE DEF V, base, N
<1>5. \A j \in 1..N : \A v \in V : step[j][v] = WithNext(v, t[j])
  OBVIOUS
<1>6. \A j \in 1..N : \A v \in V : step[j][v] \in V
  BY <1>1, <1>2, <1>5
<1> HIDE DEF step
<1>7. PICK g : Iterates(g, N, V, base, step)
  BY <1>1, <1>3, <1>6, IteratesExist
<1>8. g \in [0..N -> V] /\ g[0] = base /\ \A j \in 1..N : g[j] = step[j][g[j - 1]]
  BY <1>7 DEF Iterates
<1>9. \A j \in 0..N : j = 0 \/ (j \in 1..N /\ j - 1 \in 0..N)
  BY <1>1
<1>10. \A j \in 0..N : g[j] = IF j = 0 THEN base ELSE WithNext(g[j - 1], t[j])
  BY <1>5, <1>8, <1>9
<1>11. Eq(g)
  BY <1>8, <1>10
<1>12. Eq(h)
  BY <1>11
<1> HIDE DEF h
<1>13. 0 \in 0..N /\ \A j \in 1..N : j \in 0..N /\ j # 0
  BY <1>1
<1>14. h = [j \in 0..N |-> h[j]] /\ h[0] = base
  BY <1>12, <1>13
<1>15. \A j \in 1..N : h[j] = WithNext(h[j - 1], t[j])
  BY <1>12, <1>13
<1>16. \A j \in 1..N : h[j - 1] \in V => h[j] = step[j][h[j - 1]]
  BY <1>5, <1>15
<1>17. Iterates(h, N, V, base, step)
  BY ONLY <1>1, <1>3, <1>6, <1>14, <1>16, RecursionIs
<1> QED
  BY <1>4, <1>14, <1>15, <1>17 DEF Iterates, N, V, base

-----------------------------------------------------------------------------
(* A piece of the text and the row it is written to. *)

\* The place of a row that comes after a piece: a '.' goes back to the start.
PlaceAfter(x, n) ==
    \/ /\ \A i \in 1..Len(x) : x[i] # Dot
       /\ n = Len(x)
    \/ \E d \in 1..Len(x) : /\ x[d] = Dot
                            /\ \A i \in (d + 1)..Len(x) : x[i] # Dot
                            /\ n = 1 + Len(x) - d

\* What the row of a piece has, and what the class has for it.
RowHolds(row, x) ==
    IF HasDot(x) THEN row[0] = NUL ELSE \A i \in 1..Len(x) : row[i - 1] = x[i]
CellOf(x) == IF HasDot(x) THEN <<>> ELSE x

\* A '.' somewhere in a piece.
LEMMA HasDotIs ==
    ASSUME NEW C, NEW x \in Seq(C)
    PROVE  HasDot(x) <=> \E i \in 1..Len(x) : x[i] = Dot
<1>1. DOMAIN x = 1..Len(x)
  BY LenProperties
<1> QED
  BY <1>1 DEF HasDot, ToSet

\* The place is 0 before the first character only; without a '.' it is the length.
LEMMA PlaceIs ==
    ASSUME NEW C, NEW x \in Seq(C), NEW n, PlaceAfter(x, n)
    PROVE  /\ n \in Nat
           /\ n = 0 <=> x = <<>>
           /\ ~HasDot(x) => n = Len(x)
<1>1. Len(x) \in Nat /\ (x # <<>> => Len(x) # 0) /\ Len(<<>>) = 0
  BY LenProperties, EmptySeq
<1>2. CASE /\ \A i \in 1..Len(x) : x[i] # Dot
           /\ n = Len(x)
  BY <1>1, <1>2
<1>3. CASE \E d \in 1..Len(x) : /\ x[d] = Dot
                                /\ \A i \in (d + 1)..Len(x) : x[i] # Dot
                                /\ n = 1 + Len(x) - d
  <2>1. PICK d \in 1..Len(x) : /\ x[d] = Dot
                               /\ \A i \in (d + 1)..Len(x) : x[i] # Dot
                               /\ n = 1 + Len(x) - d
    BY <1>3
  <2>2. n \in Nat /\ n # 0 /\ Len(x) # 0
    BY <1>1, <2>1
  <2> QED
    BY <1>1, <2>1, <2>2, HasDotIs
<1> QED
  BY <1>2, <1>3 DEF PlaceAfter

\* A '.' sets the place to 1, any other character moves it on.
LEMMA PlaceOfNext ==
    ASSUME NEW C, NEW x \in Seq(C), NEW n, PlaceAfter(x, n), NEW c \in C
    PROVE  /\ c = Dot => PlaceAfter(Append(x, c), 1)
           /\ c # Dot => PlaceAfter(Append(x, c), n + 1)
<1> DEFINE a == Append(x, c)
           l == Len(x)
           m == l + 1
<1>1. /\ l \in Nat /\ Len(a) = m
      /\ \A i \in 1..l : a[i] = x[i]
      /\ a[m] = c
  BY AppendProperties, LenProperties
<1> HIDE DEF a
<1>2. ASSUME c = Dot PROVE PlaceAfter(a, 1)
  <2>1. m \in 1..m /\ 1 = 1 + m - m /\ (m + 1)..m = {}
    BY <1>1
  <2> QED
    BY <1>1, <1>2, <2>1 DEF PlaceAfter
<1>3. ASSUME c # Dot PROVE PlaceAfter(a, n + 1)
  <2>1. \A i \in 1..m : i \in 1..l \/ i = m
    BY <1>1
  <2>2. CASE /\ \A i \in 1..l : x[i] # Dot
             /\ n = l
    BY <1>1, <1>3, <2>1, <2>2 DEF PlaceAfter
  <2>3. ASSUME NEW d \in 1..l, x[d] = Dot, \A i \in (d + 1)..l : x[i] # Dot,
               n = 1 + l - d
        PROVE  PlaceAfter(a, n + 1)
    <3>1. d \in 1..m /\ n + 1 = 1 + m - d
      BY <1>1, <2>3
    <3>2. \A i \in (d + 1)..m : i = m \/ (i \in (d + 1)..l /\ i \in 1..l)
      BY <1>1
    <3>3. \A i \in (d + 1)..m : a[i] # Dot
      BY <1>1, <1>3, <2>3, <3>2
    <3>4. a[d] = Dot
      BY <1>1, <2>3
    <3> QED
      BY <1>1, <3>1, <3>3, <3>4 DEF PlaceAfter
  <2> QED
    BY <2>2, <2>3 DEF PlaceAfter
<1> QED
  BY <1>2, <1>3 DEF a

\* Fits, said of the places of the piece.
LEMMA FitsIs ==
    ASSUME NEW C, NEW x \in Seq(C)
    PROVE  Fits(x) <=>
             \A i, j \in 1..Len(x) :
                i <= j /\ (\A n \in i..j : x[n] # Dot)
                  => (j - i + 1) + (IF i > 1 THEN 1 ELSE 0) < CellSize
<1>1. DOMAIN x = 1..Len(x)
  BY LenProperties
<1> QED
  BY <1>1 DEF Fits

\* A piece with one more character fits while its place has room for it.
LEMMA FitsNext ==
    ASSUME NEW C, NEW x \in Seq(C), NEW n, PlaceAfter(x, n), NEW c \in C
    PROVE  /\ Fits(Append(x, c)) => Fits(x)
           /\ c = Dot => (Fits(x) => Fits(Append(x, c)))
           /\ c # Dot => (Fits(Append(x, c)) <=> Fits(x) /\ n + 1 < CellSize)
<1> DEFINE a == Append(x, c)
           l == Len(x)
           m == l + 1
           Clear(s, i, j) == \A h \in i..j : s[h] # Dot
           Room(i, j) == (j - i + 1) + (IF i > 1 THEN 1 ELSE 0) < CellSize
<1>1. /\ l \in Nat /\ Len(a) = m /\ a \in Seq(C)
      /\ \A i \in 1..l : a[i] = x[i]
      /\ a[m] = c
  BY AppendProperties, LenProperties
<1>2. /\ Fits(x) <=> \A i, j \in 1..l : i <= j /\ Clear(x, i, j) => Room(i, j)
  BY FitsIs
<1>3. /\ Fits(a) <=> \A i, j \in 1..m : i <= j /\ Clear(a, i, j) => Room(i, j)
  <2> HIDE DEF a
  <2> QED
    BY <1>1, FitsIs
<1> HIDE DEF a
<1>4. CellSize \in Nat /\ CellSize >= 2
  BY RowHasRoom
<1>5. \A i \in 1..m : i \in 1..l \/ i = m
  BY <1>1
<1>6. \A i \in 1..l : i \in 1..m /\ i # m /\ i \in Nat
  BY <1>1
<1>7. ASSUME NEW i \in 1..l, NEW j \in 1..l PROVE Clear(a, i, j) <=> Clear(x, i, j)
  <2>1. \A h \in i..j : h \in 1..l
    BY <1>1
  <2> QED
    BY <1>1, <2>1
<1>8. ASSUME NEW i \in 1..m, i <= m PROVE Clear(a, i, m) <=> c # Dot /\ Clear(x, i, l)
  <2>1. m \in i..m
    BY <1>1, <1>8
  <2>2. \A h \in i..m : h = m \/ h \in i..l
    BY <1>1
  <2>3. \A h \in i..l : h \in i..m /\ h \in 1..l
    BY <1>1
  <2> QED
    BY <1>1, <2>1, <2>2, <2>3
<1> HIDE DEF Clear
<1>9. Fits(a) => Fits(x)
  <2> HIDE DEF Room
  <2> QED
    BY <1>2, <1>3, <1>6, <1>7
<1>10. ASSUME Fits(x), NEW i \in 1..m, NEW j \in 1..l, i <= j, Clear(a, i, j)
       PROVE  Room(i, j)
  <2>1. i \in 1..l
    BY <1>1, <1>10
  <2> HIDE DEF Room
  <2> QED
    BY <1>2, <1>7, <1>10, <2>1
<1>11. ASSUME c = Dot, Fits(x) PROVE Fits(a)
  <2>1. \A i \in 1..m : i <= m => ~Clear(a, i, m)
    BY <1>8, <1>11
  <2> HIDE DEF Room
  <2> QED
    BY <1>3, <1>5, <1>10, <1>11, <2>1
<1>12. ASSUME c # Dot, Fits(a) PROVE n + 1 < CellSize
  <2>1. CASE /\ \A i \in 1..l : x[i] # Dot
             /\ n = l
    <3>1. 1 \in 1..m /\ m \in 1..m /\ 1 <= m
      BY <1>1
    <3>2. Clear(x, 1, l)
      BY <2>1 DEF Clear
    <3>3. Clear(a, 1, m)
      BY <1>8, <1>12, <3>1, <3>2
    <3>4. Room(1, m)
      <4> HIDE DEF Room
      <4> QED
        BY <1>3, <1>12, <3>1, <3>3
    <3> QED
      BY <1>1, <1>4, <2>1, <3>4
  <2>2. ASSUME NEW d \in 1..l, x[d] = Dot, \A i \in (d + 1)..l : x[i] # Dot,
               n = 1 + l - d
        PROVE  n + 1 < CellSize
    <3> DEFINE f == d + 1
    <3>1. f \in 1..m /\ m \in 1..m /\ f <= m /\ f > 1
      BY <1>1
    <3>2. Clear(x, f, l)
      BY <2>2 DEF Clear
    <3> HIDE DEF f
    <3>3. Clear(a, f, m)
      BY <1>8, <1>12, <3>1, <3>2
    <3>4. Room(f, m)
      <4> HIDE DEF Room
      <4> QED
        BY <1>3, <1>12, <3>1, <3>3
    <3>5. m - f + 1 + 1 < CellSize
      BY <3>1, <3>4
    <3> QED
      BY <1>1, <1>4, <2>2, <3>5 DEF f
  <2> QED
    BY <2>1, <2>2 DEF PlaceAfter
<1>13. ASSUME c # Dot, Fits(x), n + 1 < CellSize PROVE Fits(a)
  <2>1. ASSUME NEW i \in 1..m, Clear(x, i, l) PROVE Room(i, m)
    <3>1. CASE /\ \A h \in 1..l : x[h] # Dot
               /\ n = l
      BY <1>1, <1>4, <1>13, <3>1
    <3>2. ASSUME NEW d \in 1..l, x[d] = Dot, n = 1 + l - d PROVE Room(i, m)
      <4>1. ~(d \in i..l)
        BY <2>1, <3>2 DEF Clear
      <4>2. d < i
        BY <1>1, <4>1
      <4> QED
        BY <1>1, <1>4, <1>13, <3>2, <4>2
    <3> QED
      BY <3>1, <3>2 DEF PlaceAfter
  <2>2. \A i \in 1..m : i <= m
    BY <1>1
  <2> HIDE DEF Room
  <2> QED
    BY <1>3, <1>5, <1>8, <1>10, <1>13, <2>1, <2>2
<1> QED
  BY <1>9, <1>11, <1>12, <1>13 DEF a

\* The first NUL of a row is where its C string ends.
LEMMA StrLenIs ==
    ASSUME NEW row \in CellRow, NEW p \in Positions, row[p] = NUL,
           \A q \in Positions : q < p => row[q] # NUL
    PROVE  StrLen(row) = p
<1>1. Terminated(row)
  BY DEF Terminated
<1>2. \A a, b \in Positions : /\ a \in Int /\ b \in Int
                              /\ \A q \in 0..(a - 1) : q \in Positions /\ q < a
                              /\ b < a => b \in 0..(a - 1)
  BY RowHasRoom DEF Positions
<1>3. \A q \in 0..(p - 1) : row[q] # NUL
  BY <1>2
<1>4. ASSUME NEW a \in Positions, row[a] = NUL, \A q \in 0..(a - 1) : row[q] # NUL
      PROVE  a = p
  <2>1. ~(a < p) /\ ~(p < a)
    BY <1>2, <1>4
  <2> QED
    BY <1>2, <2>1
<1> QED
  BY <1>1, <1>3, <1>4 DEF StrLen

\* The C string of a row is letters, CellSize of them at most.
LEMMA CellStringType ==
    ASSUME NEW row \in CellRow
    PROVE  CellString(row) \in Seq(Letters) /\ Len(CellString(row)) <= CellSize
<1> DEFINE l == StrLen(row)
<1>1. ASSUME l \in Nat, l <= CellSize, \A q \in Positions : q < l => row[q] # NUL
      PROVE  CellString(row) \in Seq(Letters) /\ Len(CellString(row)) = l
  <2> HIDE DEF l
  <2>1. ASSUME NEW i \in 1..l PROVE row[i - 1] \in Letters
    <3>1. i - 1 \in Positions /\ i - 1 < l
      BY <1>1, RowHasRoom DEF Positions
    <3> QED
      BY <1>1, <3>1 DEF CellRow
  <2>2. CellString(row) = [i \in 1..l |-> row[i - 1]]
    BY DEF CellString, l
  <2>3. CellString(row) \in [1..l -> Letters]
    BY <2>1, <2>2
  <2> HIDE DEF CellRow
  <2>4. CellString(row) \in Seq(Letters)
    BY <1>1, <2>3, FunctionIsSeq
  <2>5. Len(CellString(row)) \in Nat /\ DOMAIN CellString(row) = 1..Len(CellString(row))
    BY <2>4, LenProperties
  <2>6. 1..Len(CellString(row)) = 1..l
    BY <2>3, <2>5
  <2> QED
    BY ONLY <1>1, <2>4, <2>5, <2>6, SameInterval
<1>2. CASE Terminated(row)
  <2> DEFINE T == {p \in Positions : row[p] = NUL}
  <2>1. T \subseteq Nat /\ T # {}
    BY <1>2, RowHasRoom DEF Terminated
  <2> HIDE DEF T
  <2>2. PICK p \in T : \A q \in T : p <= q
    BY ONLY <2>1, LeastElement
  <2>3. p \in Positions /\ row[p] = NUL /\ \A q \in Positions : q < p => row[q] # NUL
    BY <2>2, RowHasRoom DEF T
  <2>4. l = p
    BY <2>3, StrLenIs
  <2>5. p \in Nat /\ p <= CellSize
    BY <2>3, RowHasRoom DEF Positions
  <2> HIDE DEF l
  <2> QED
    BY <1>1, <2>3, <2>4, <2>5
<1>3. CASE ~Terminated(row)
  <2>1. l = CellSize
    BY <1>3 DEF StrLen
  <2>2. \A q \in Positions : row[q] # NUL
    BY <1>3 DEF Terminated
  <2> HIDE DEF l
  <2> QED
    BY <1>1, <2>1, <2>2, RowHasRoom
<1> QED
  BY <1>2, <1>3

\* A row that holds a piece, ended at its place, is the cell of that piece.
LEMMA RowEnds ==
    ASSUME NEW C, NEW x \in Seq(C), ToSet(x) \subseteq Letters \cup {Dot},
           NEW n \in Positions, n # 0, PlaceAfter(x, n),
           NEW row \in CellRow, RowHolds(row, x),
           NEW ended \in CellRow, ended[n] = NUL,
           \A q \in Positions : q # n => ended[q] = row[q]
    PROVE  CellString(ended) = CellOf(x)
<1>1. Len(x) \in Nat /\ DOMAIN x = 1..Len(x)
  BY LenProperties
<1>2. CASE HasDot(x)
  <2>1. ended[0] = NUL
    BY <1>2, RowHasRoom DEF RowHolds
  <2>2. \A q \in Positions : ~(q < 0)
    BY RowHasRoom
  <2>3. StrLen(ended) = 0
    BY <2>1, <2>2, StrLenIs, RowHasRoom
  <2>4. CellString(ended) = [i \in 1..0 |-> ended[i - 1]]
    BY <2>3 DEF CellString
  <2> QED
    BY <1>2, <2>4 DEF CellOf
<1>3. CASE ~HasDot(x)
  <2>1. n = Len(x)
    BY <1>3, PlaceIs
  <2>2. ASSUME NEW i \in 1..n PROVE ended[i - 1] = x[i] /\ x[i] \in Letters
    <3>1. i - 1 \in Positions /\ i - 1 # n
      BY RowHasRoom DEF Positions
    <3>2. row[i - 1] = x[i]
      BY <1>3, <2>1 DEF RowHolds
    <3>3. x[i] \in ToSet(x) /\ x[i] # Dot
      BY <1>1, <1>3, <2>1 DEF ToSet, HasDot
    <3> QED
      BY <3>1, <3>2, <3>3
  <2>3. ASSUME NEW q \in Positions, q < n PROVE ended[q] # NUL
    <3>1. q + 1 \in 1..n /\ (q + 1) - 1 = q
      BY <2>3, RowHasRoom DEF Positions
    <3> QED
      BY <2>2, <3>1, RowHasRoom
  <2>4. StrLen(ended) = n
    BY <2>3, StrLenIs
  <2>5. CellString(ended) = [i \in 1..n |-> x[i]]
    BY <2>2, <2>4 DEF CellString
  <2>6. x = [i \in 1..Len(x) |-> x[i]]
    BY LenProperties
  <2> QED
    BY <1>3, <2>1, <2>5, <2>6 DEF CellOf
<1> QED
  BY <1>2, <1>3

\* A row that holds a piece holds it with its next character, too.
LEMMA RowGrows ==
    ASSUME NEW C, NEW x \in Seq(C), NEW n \in Positions, PlaceAfter(x, n), NEW c \in C,
           NEW row \in CellRow, RowHolds(row, x), NEW after
    PROVE  /\ c = Dot /\ after[0] = NUL => RowHolds(after, Append(x, c))
           /\ /\ c # Dot /\ after[n] = c
              /\ \A q \in Positions : q # n => after[q] = row[q]
              => RowHolds(after, Append(x, c))
<1> DEFINE a == Append(x, c)
           l == Len(x)
           m == l + 1
<1>1. /\ l \in Nat /\ Len(a) = m /\ a \in Seq(C)
      /\ \A i \in 1..l : a[i] = x[i]
      /\ a[m] = c
  BY AppendProperties, LenProperties
<1> HIDE DEF a
<1>2. HasDot(a) <=> \E i \in 1..m : a[i] = Dot
  BY <1>1, HasDotIs
<1>3. HasDot(x) <=> \E i \in 1..l : x[i] = Dot
  BY HasDotIs
<1>4. \A i \in 1..m : i \in 1..l \/ i = m
  BY <1>1
<1>5. m \in 1..m /\ \A i \in 1..l : i \in 1..m
  BY <1>1
<1>6. c = Dot => HasDot(a)
  BY <1>1, <1>2, <1>5
<1>7. c # Dot => (HasDot(a) <=> HasDot(x))
  BY <1>1, <1>2, <1>3, <1>4, <1>5
<1>8. ASSUME c # Dot, after[n] = c, \A q \in Positions : q # n => after[q] = row[q]
      PROVE  RowHolds(after, a)
  <2>1. CASE HasDot(x)
    <3>1. n # 0
      <4>1. x # <<>>
        <5>1. Len(<<>>) = 0
          BY EmptySeq
        <5> QED
          BY <1>1, <1>3, <2>1, <5>1
      <4> QED
        BY <4>1, PlaceIs
    <3>2. after[0] = NUL
      BY <1>8, <2>1, <3>1, RowHasRoom DEF RowHolds
    <3> QED
      BY <1>7, <1>8, <2>1, <3>2 DEF RowHolds
  <2>2. CASE ~HasDot(x)
    <3>1. n = l
      BY <2>2, PlaceIs
    <3>2. ASSUME NEW i \in 1..l PROVE after[i - 1] = a[i]
      <4>1. i - 1 \in Positions /\ i - 1 # n
        <5>1. l \in 0..(CellSize - 1) /\ CellSize \in Nat
          BY <3>1, RowHasRoom DEF Positions
        <5> HIDE DEF l
        <5> QED
          BY <3>1, <5>1 DEF Positions
      <4> QED
        BY <1>1, <1>8, <2>2, <4>1 DEF RowHolds
    <3>3. m - 1 = n
      BY <1>1, <3>1
    <3>4. \A i \in 1..m : after[i - 1] = a[i]
      BY <1>1, <1>4, <1>8, <3>2, <3>3
    <3> QED
      BY <1>1, <1>7, <1>8, <2>2, <3>4 DEF RowHolds
  <2> QED
    BY <2>1, <2>2
<1> QED
  BY <1>6, <1>8 DEF a, RowHolds

-----------------------------------------------------------------------------
(* ParseBoard has not failed while the pieces are those of a class. *)

\* A piece that a cell may begin with, and the pieces that a class may.
GoodPiece(x) == ToSet(x) \subseteq Letters \cup {Dot} /\ Fits(x)
Good(p) ==
    /\ Len(p) <= NumCells
    /\ \A k \in 1..Len(p) : GoodPiece(p[k])
    /\ \A k \in 1..(Len(p) - 1) : p[k] # <<>>
\* The rows have the pieces so far: the last is open, the others are ended.
Follows(s, p) ==
    /\ s.cell = Len(p)
    /\ PlaceAfter(p[Len(p)], s.cell_pos)
    /\ RowHolds(s.rows[Len(p)], p[Len(p)])
    /\ \A k \in 1..(Len(p) - 1) : CellString(s.rows[k]) = CellOf(p[k])

\* What one more character asks of a piece that may become a cell.
LEMMA GoodPieceNext ==
    ASSUME NEW C, NEW x \in Seq(C), NEW n, PlaceAfter(x, n), NEW c \in C
    PROVE  /\ GoodPiece(Append(x, c)) => GoodPiece(x)
           /\ c = Dot => (GoodPiece(Append(x, c)) <=> GoodPiece(x))
           /\ c \in Letters => (GoodPiece(Append(x, c)) <=> GoodPiece(x) /\ n + 1 < CellSize)
           /\ c \notin Letters \cup {Dot} => ~GoodPiece(Append(x, c))
<1>1. ToSet(Append(x, c)) = ToSet(x) \cup {c}
  BY ToSetAppend
<1> QED
  BY <1>1, FitsNext, RowHasRoom DEF GoodPiece

\* The empty piece is the start of one.
LEMMA GoodEmpty == GoodPiece(<<>>) /\ PlaceAfter(<<>>, 0) /\ ~HasDot(<<>>)
<1> DEFINE e == <<>>
<1>1. e \in Seq(Letters) /\ Len(e) = 0 /\ DOMAIN e = {}
  BY EmptySeq
<1> HIDE DEF e
<1>2. 1..0 = {}
  OBVIOUS
<1>3. GoodPiece(e) /\ PlaceAfter(e, 0) /\ ~HasDot(e)
  BY <1>1, <1>2 DEF GoodPiece, PlaceAfter, HasDot, ToSet, Fits
<1> QED
  BY <1>3 DEF e

\* What one more character asks of the pieces of the start of a class.
LEMMA GoodNext ==
    ASSUME NEW C, NEW p \in PieceSeqs(C), NEW n, PlaceAfter(p[Len(p)], n), NEW c \in C
    PROVE  /\ Good(WithNext(p, c)) => Good(p)
           /\ c = Space => (Good(WithNext(p, c)) <=>
                              Good(p) /\ n # 0 /\ Len(p) + 1 <= NumCells)
           /\ c = Dot => (Good(WithNext(p, c)) <=> Good(p))
           /\ c \in Letters => (Good(WithNext(p, c)) <=> Good(p) /\ n + 1 < CellSize)
           /\ c \notin Letters \cup {Dot, Space} => ~Good(WithNext(p, c))
<1> DEFINE l == Len(p)
           m == l + 1
           w == WithNext(p, c)
           e == <<>>
<1>1. /\ l \in Nat \ {0} /\ p[l] \in Seq(C)
      /\ \A k \in 1..(l - 1) : w[k] = p[k]
      /\ c = Space => Len(w) = m /\ w[l] = p[l] /\ w[m] = e
      /\ c # Space => Len(w) = l /\ w[l] = Append(p[l], c)
  BY WithNextIs
<1>2. NumCells \in Nat
  BY CellsType
<1>3. /\ \A k \in 1..m : k \in 1..(l - 1) \/ k = l \/ k = m
      /\ \A k \in 1..l : k \in 1..(l - 1) \/ k = l
      /\ \A k \in 1..(l - 1) : k \in 1..l
      /\ \A k \in 1..l : k \in 1..m
      /\ l \in 1..l /\ m \in 1..m /\ m - 1 = l
      /\ m <= NumCells => l <= NumCells
  BY <1>1, <1>2
<1>4. GoodPiece(e)
  BY GoodEmpty
<1>5. n = 0 <=> p[l] = e
  BY <1>1, PlaceIs
<1> HIDE DEF w, l, m, e
<1>6. CASE c = Space
  <2>1. Good(w) <=> /\ m <= NumCells
                    /\ \A k \in 1..m : GoodPiece(w[k])
                    /\ \A k \in 1..l : w[k] # e
    BY <1>1, <1>3, <1>6 DEF Good, e
  <2>2. Good(p) <=> /\ l <= NumCells
                    /\ \A k \in 1..l : GoodPiece(p[k])
                    /\ \A k \in 1..(l - 1) : p[k] # e
    BY DEF Good, e, l
  <2>3. \A k \in 1..l : w[k] = p[k]
    BY <1>1, <1>3, <1>6
  <2>4. (\A k \in 1..m : GoodPiece(w[k])) <=> \A k \in 1..l : GoodPiece(p[k])
    BY <1>1, <1>3, <1>4, <1>6, <2>3
  <2>5. (\A k \in 1..l : w[k] # e) <=> n # 0 /\ \A k \in 1..(l - 1) : p[k] # e
    BY <1>3, <1>5, <2>3
  <2>6. Good(w) <=> Good(p) /\ n # 0 /\ m <= NumCells
    BY <1>3, <2>1, <2>2, <2>4, <2>5
  <2> QED
    BY <1>6, <2>6, RowHasRoom DEF w, l, m
<1>7. CASE c # Space
  <2>1. Good(w) <=> /\ l <= NumCells
                    /\ \A k \in 1..l : GoodPiece(w[k])
                    /\ \A k \in 1..(l - 1) : w[k] # e
    BY <1>1, <1>7 DEF Good, e
  <2>2. Good(p) <=> /\ l <= NumCells
                    /\ \A k \in 1..l : GoodPiece(p[k])
                    /\ \A k \in 1..(l - 1) : p[k] # e
    BY DEF Good, e, l
  <2>3. (\A k \in 1..(l - 1) : w[k] # e) <=> \A k \in 1..(l - 1) : p[k] # e
    BY <1>1
  <2>4. (\A k \in 1..l : GoodPiece(w[k])) <=>
            GoodPiece(Append(p[l], c)) /\ \A k \in 1..(l - 1) : GoodPiece(p[k])
    BY <1>1, <1>3, <1>7
  <2>5. (\A k \in 1..l : GoodPiece(p[k])) <=>
            GoodPiece(p[l]) /\ \A k \in 1..(l - 1) : GoodPiece(p[k])
    BY <1>3
  <2>6. /\ GoodPiece(Append(p[l], c)) => GoodPiece(p[l])
        /\ c = Dot => (GoodPiece(Append(p[l], c)) <=> GoodPiece(p[l]))
        /\ c \in Letters =>
             (GoodPiece(Append(p[l], c)) <=> GoodPiece(p[l]) /\ n + 1 < CellSize)
        /\ c \notin Letters \cup {Dot} => ~GoodPiece(Append(p[l], c))
    <3>1. PlaceAfter(p[l], n)
      BY DEF l
    <3> QED
      BY <1>1, <3>1, GoodPieceNext
  <2>7. /\ Good(w) => Good(p)
        /\ c = Dot => (Good(w) <=> Good(p))
        /\ c \in Letters => (Good(w) <=> Good(p) /\ n + 1 < CellSize)
        /\ c \notin Letters \cup {Dot} => ~Good(w)
    BY <2>1, <2>2, <2>3, <2>4, <2>5, <2>6
  <2> QED
    BY <1>7, <2>7, RowHasRoom DEF w
<1> QED
  BY <1>6, <1>7

\* There is a place after every piece.
LEMMA PlaceExists ==
    ASSUME NEW C, NEW x \in Seq(C)
    PROVE  \E n : PlaceAfter(x, n)
<1> DEFINE l == Len(x)
           T == {i \in 0..l : i # l /\ x[l - i] = Dot}
<1>1. l \in Nat
  BY LenProperties
<1>2. CASE T = {}
  <2>1. \A i \in 1..l : l - i \in 0..l /\ l - i # l /\ l - (l - i) = i
    BY <1>1
  <2>2. \A i \in 1..l : x[i] # Dot
    BY <1>2, <2>1
  <2> QED
    BY <2>2 DEF PlaceAfter
<1>3. CASE T # {}
  <2>1. T \subseteq Nat
    BY <1>1
  <2> HIDE DEF T
  <2>2. PICK i \in T : \A j \in T : i <= j
    BY ONLY <1>3, <2>1, LeastElement
  <2> DEFINE d == l - i
  <2>3. i \in 0..l /\ i # l /\ x[d] = Dot
    BY <2>2 DEF T
  <2>4. d \in 1..l
    BY <1>1, <2>3
  <2>5. ASSUME NEW j \in (d + 1)..l PROVE x[j] # Dot
    <3>1. l - j \in 0..l /\ l - j # l /\ l - (l - j) = j /\ ~(i <= l - j)
      BY <1>1, <2>3, <2>4
    <3> QED
      BY <2>2, <3>1 DEF T
  <2> HIDE DEF d
  <2> QED
    BY <2>3, <2>4, <2>5 DEF PlaceAfter
<1> QED
  BY <1>2, <1>3

\* The parse follows the pieces from one character to the next.
LEMMA FollowsNext ==
    ASSUME NEW C, NEW p \in PieceSeqs(C), NEW c \in C, NEW s \in ParseState,
           ~s.failed <=> Good(p), ~s.failed => Follows(s, p)
    PROVE  LET r == OneCharacter(s, c)
               w == WithNext(p, c)
           IN  (~r.failed <=> Good(w)) /\ (~r.failed => Follows(r, w))
<1> DEFINE r == OneCharacter(s, c)
           w == WithNext(p, c)
           l == Len(p)
           m == l + 1
           e == <<>>
           x == p[l]
<1>1. /\ l \in Nat \ {0} /\ x \in Seq(C) /\ w \in PieceSeqs(C)
      /\ \A k \in 1..(l - 1) : k \in 1..l /\ w[k] = p[k]
      /\ c = Space => Len(w) = m /\ w[l] = x /\ w[m] = e
      /\ c # Space => Len(w) = l /\ w[l] = Append(x, c)
  <2>1. w \in PieceSeqs(C)
    BY WithNextIs
  <2>2. l \in Nat \ {0} /\ x \in Seq(C)
    BY WithNextIs
  <2>3. \A k \in 1..(l - 1) : k \in 1..l /\ w[k] = p[k]
    BY WithNextIs
  <2>4. c = Space => Len(w) = m /\ w[l] = x /\ w[m] = e
    BY WithNextIs
  <2>5. c # Space => Len(w) = l /\ w[l] = Append(x, c)
    BY WithNextIs
  <2> QED
    BY <2>1, <2>2, <2>3, <2>4, <2>5
<1>2. NumCells \in Nat /\ Cells = 1..NumCells
  BY CellsType
<1>3. /\ r \in ParseState
      /\ s.failed => r = s
      /\ ~s.failed /\ c = Space => r = NextCell(s)
      /\ ~s.failed /\ c = Dot => r = EmptyCell(s)
      /\ ~s.failed /\ c \in Letters => r = PutLetter(s, c)
      /\ ~s.failed /\ c \notin Letters \cup {Dot, Space} => r.failed
  BY OneCharacterIs
<1>4. CASE s.failed
  <2>1. PICK n : PlaceAfter(x, n)
    BY <1>1, PlaceExists
  <2>2. ~Good(w)
    BY <1>4, <2>1, GoodNext
  <2> QED
    BY <1>3, <1>4, <2>2
<1>5. ASSUME ~s.failed PROVE (~r.failed <=> Good(w)) /\ (~r.failed => Follows(r, w))
  <2> DEFINE n == s.cell_pos
  <2>1. /\ Good(p) /\ s.cell = l /\ PlaceAfter(x, n) /\ RowHolds(s.rows[l], x)
        /\ \A k \in 1..(l - 1) : CellString(s.rows[k]) = CellOf(p[k])
    BY <1>5 DEF Follows
  <2>2. /\ s.rows \in [Cells -> CellRow] /\ l \in Cells /\ n \in Positions /\ n \in Nat
        /\ s.rows[l] \in CellRow
    BY <1>5, <2>1 DEF ParseState
  <2>3. /\ c = Space => (Good(w) <=> Good(p) /\ n # 0 /\ m <= NumCells)
        /\ c = Dot => (Good(w) <=> Good(p))
        /\ c \in Letters => (Good(w) <=> Good(p) /\ n + 1 < CellSize)
        /\ c \notin Letters \cup {Dot, Space} => ~Good(w)
    BY <2>1, GoodNext
  <2>4. \A k \in 1..(l - 1) : k \in Cells /\ k # l
    BY <1>1, <1>2, <2>2
  <2>5. r.rows \in [Cells -> CellRow]
    BY <1>3 DEF ParseState
  <2> HIDE DEF r, w, n, x, l, e, m
  <2>6. CASE c = Space
    <3>1. /\ r.failed <=> n = 0 \/ m > NumCells
          /\ ~r.failed => /\ OneByte(r.rows, s.rows, l, n, NUL)
                          /\ r.cell = m /\ r.cell_pos = 0
      BY <1>3, <1>5, <2>1, <2>6, NextCellIs DEF n, m
    <3>2. m \in Nat
      BY <1>1 DEF m
    <3>3. ~r.failed <=> Good(w)
      BY <1>2, <2>1, <2>3, <2>6, <3>1, <3>2
    <3>4. ASSUME ~r.failed PROVE Follows(r, w)
      <4>1. /\ OneByte(r.rows, s.rows, l, n, NUL) /\ n # 0
            /\ r.cell = m /\ r.cell_pos = 0 /\ m \in Cells
        BY <1>1, <1>2, <3>1, <3>2, <3>4 DEF m
      <4>2. PlaceAfter(e, 0) /\ RowHolds(r.rows[m], e)
        <5>1. ~HasDot(e) /\ PlaceAfter(e, 0) /\ Len(e) = 0
          BY GoodEmpty, EmptySeq DEF e
        <5> QED
          BY <5>1 DEF RowHolds
      <4>3. CellString(r.rows[l]) = CellOf(x)
        <5>1. ToSet(x) \subseteq Letters \cup {Dot}
          <6>1. l \in 1..Len(p)
            BY <1>1 DEF l
          <6> QED
            BY <2>1, <6>1 DEF Good, GoodPiece, x
        <5>2. /\ r.rows[l] \in CellRow /\ r.rows[l][n] = NUL
              /\ \A q \in Positions : q # n => r.rows[l][q] = s.rows[l][q]
          BY <2>2, <2>5, <4>1 DEF OneByte
        <5> QED
          BY <1>1, <2>1, <2>2, <4>1, <5>1, <5>2, RowEnds
      <4>4. \A k \in 1..(l - 1) : r.rows[k] = s.rows[k]
        BY <2>4, <4>1 DEF OneByte
      <4>5. \A k \in 1..(m - 1) : k = l \/ k \in 1..(l - 1)
        BY <1>1 DEF m
      <4>6. \A k \in 1..(m - 1) : CellString(r.rows[k]) = CellOf(w[k])
        BY <1>1, <2>1, <2>6, <4>3, <4>4, <4>5
      <4> QED
        BY <1>1, <2>6, <4>1, <4>2, <4>6 DEF Follows
    <3> QED
      BY <3>3, <3>4
  <2>7. CASE c = Dot
    <3>1. /\ ~r.failed /\ OneByte(r.rows, s.rows, l, 0, NUL)
          /\ r.cell = l /\ r.cell_pos = 1
      BY <1>3, <1>5, <2>1, <2>7, EmptyCellIs
    <3>2. ~r.failed <=> Good(w)
      BY <2>1, <2>3, <2>7, <3>1
    <3>3. PlaceAfter(w[l], 1) /\ RowHolds(r.rows[l], w[l])
      <4>1. c # Space
        BY <2>7, RowHasRoom
      <4>2. r.rows[l][0] = NUL
        BY <3>1 DEF OneByte
      <4>3. RowHolds(r.rows[l], Append(x, c))
        BY <1>1, <2>1, <2>2, <2>7, <4>2, RowGrows
      <4>4. PlaceAfter(Append(x, c), 1)
        BY <1>1, <2>1, <2>7, PlaceOfNext
      <4> QED
        BY <1>1, <4>1, <4>3, <4>4
    <3>4. \A k \in 1..(l - 1) : CellString(r.rows[k]) = CellOf(w[k])
      BY <1>1, <2>1, <2>4, <3>1 DEF OneByte
    <3>5. Len(w) = l
      BY <1>1, <2>7, RowHasRoom
    <3> QED
      BY <3>1, <3>2, <3>3, <3>4, <3>5 DEF Follows
  <2>8. CASE c \in Letters
    <3>1. /\ r.failed <=> n + 1 >= CellSize
          /\ OneByte(r.rows, s.rows, l, n, c)
          /\ r.cell = l /\ r.cell_pos = n + 1
      BY <1>3, <1>5, <2>1, <2>8, PutLetterIs DEF n
    <3>2. ~r.failed <=> Good(w)
      BY <2>1, <2>2, <2>3, <2>8, <3>1, RowHasRoom
    <3>3. c # Space /\ c # Dot
      BY <2>8, RowHasRoom
    <3>4. PlaceAfter(w[l], n + 1) /\ RowHolds(r.rows[l], w[l])
      <4>1. /\ r.rows[l][n] = c
            /\ \A q \in Positions : q # n => r.rows[l][q] = s.rows[l][q]
        BY <3>1 DEF OneByte
      <4>2. RowHolds(r.rows[l], Append(x, c))
        BY <1>1, <2>1, <2>2, <3>3, <4>1, RowGrows
      <4>3. PlaceAfter(Append(x, c), n + 1)
        BY <1>1, <2>1, <3>3, PlaceOfNext
      <4> QED
        BY <1>1, <3>3, <4>2, <4>3
    <3>5. \A k \in 1..(l - 1) : CellString(r.rows[k]) = CellOf(w[k])
      BY <1>1, <2>1, <2>4, <3>1 DEF OneByte
    <3> QED
      BY <1>1, <3>1, <3>2, <3>3, <3>4, <3>5 DEF Follows
  <2>9. CASE c \notin Letters \cup {Dot, Space}
    BY <1>3, <1>5, <2>3, <2>9
  <2> QED
    BY <2>6, <2>7, <2>8, <2>9
<1> QED
  BY <1>4, <1>5

\* The numbers of the letters, when no letter is hidden by a '.'.
LEMMA LettersUpToIs ==
    ASSUME NEW b \in Board
    PROVE  /\ LettersUpTo(b) \in [0..NumCells -> Nat]
           /\ LettersUpTo(b)[0] = 0
           /\ \A k \in Cells : /\ LettersUpTo(b)[k] = LettersUpTo(b)[k - 1] + Len(b[k])
                               /\ Len(b[k]) \in Nat
<1> DEFINE N == NumCells
           step == [j \in 1..N |-> [v \in Nat |-> v + Len(b[j])]]
           Eq(f) == f = [k \in 0..N |-> IF k = 0 THEN 0 ELSE f[k - 1] + Len(b[k])]
           h == CHOOSE f : Eq(f)
<1>1. N \in Nat /\ Cells = 1..N
  BY CellsType
<1>2. \A j \in 1..N : Len(b[j]) \in Nat
  BY <1>1, LenProperties DEF Board
<1>4. LettersUpTo(b) = h
  BY DEF LettersUpTo
<1> HIDE DEF N
<1>5. \A j \in 1..N : \A v \in Nat : step[j][v] = v + Len(b[j])
  OBVIOUS
<1>6. \A j \in 1..N : \A v \in Nat : step[j][v] \in Nat
  BY <1>2, <1>5
<1> HIDE DEF step
<1> DEFINE z == 0
<1>3. z \in Nat
  OBVIOUS
<1>7. PICK g : Iterates(g, N, Nat, z, step)
  <2> HIDE DEF z
  <2> QED
    BY <1>1, <1>3, <1>6, IteratesExist
<1>8. g \in [0..N -> Nat] /\ g[0] = 0 /\ \A j \in 1..N : g[j] = step[j][g[j - 1]]
  BY <1>7 DEF Iterates
<1>9. \A j \in 0..N : j = 0 \/ (j \in 1..N /\ j - 1 \in 0..N)
  BY <1>1
<1>10. \A j \in 0..N : g[j] = IF j = 0 THEN 0 ELSE g[j - 1] + Len(b[j])
  BY <1>5, <1>8, <1>9
<1>11. Eq(g)
  BY <1>8, <1>10
<1>12. Eq(h)
  BY <1>11
<1> HIDE DEF h
<1>13. 0 \in 0..N /\ \A j \in 1..N : j \in 0..N /\ j # 0
  BY <1>1
<1>14. h = [j \in 0..N |-> h[j]] /\ h[0] = z
  BY <1>12, <1>13
<1>15. \A j \in 1..N : h[j] = h[j - 1] + Len(b[j])
  BY <1>12, <1>13
<1>16. \A j \in 1..N : h[j - 1] \in Nat => h[j] = step[j][h[j - 1]]
  BY <1>5, <1>15
<1> HIDE DEF z
<1>17. Iterates(h, N, Nat, z, step)
  BY ONLY <1>1, <1>3, <1>6, <1>14, <1>16, RecursionIs
<1> QED
  BY <1>1, <1>2, <1>4, <1>14, <1>15, <1>17 DEF Iterates, N, z

\* The count depends on the cells it has passed only.
LEMMA LettersUpToSame ==
    ASSUME NEW b \in Board, NEW c \in Board, NEW n \in 0..NumCells,
           \A k \in 1..n : b[k] = c[k]
    PROVE  \A k \in 0..n : LettersUpTo(b)[k] = LettersUpTo(c)[k]
<1> DEFINE T == {k \in 0..n : LettersUpTo(b)[k] = LettersUpTo(c)[k]}
<1>1. n \in Nat /\ 0 \in 0..n /\ \A k \in 1..n : k \in 0..n /\ k \in Cells
  BY CellsType
<1>2. 0 \in T
  BY <1>1, LettersUpToIs
<1>3. ASSUME NEW k \in 1..n, k - 1 \in T PROVE k \in T
  <2>1. /\ LettersUpTo(b)[k] = LettersUpTo(b)[k - 1] + Len(b[k])
        /\ LettersUpTo(c)[k] = LettersUpTo(c)[k - 1] + Len(c[k])
    BY <1>1, LettersUpToIs
  <2> QED
    BY <1>1, <1>3, <2>1
<1> HIDE DEF T
<1>4. \A k \in 0..n : k \in T
  BY ONLY <1>1, <1>2, <1>3, StepsUp
<1> QED
  BY <1>4 DEF T

\* The class that the pieces so far are the start of.
SoFar(p) == [k \in Cells |-> IF k <= Len(p) THEN CellOf(p[k]) ELSE <<>>]
\* The letters so far are numbered in turn, each one place late.
Numbered(s, p) ==
    /\ s.idx = LettersUpTo(SoFar(p))[Len(p)]
    /\ \A k \in 1..Len(p) : \A j \in 1..Len(CellOf(p[k])) :
          s.indices[k][j] = LettersUpTo(SoFar(p))[k - 1] + j - 1

\* The cell of a piece is letters.
LEMMA CellOfType ==
    ASSUME NEW C, NEW x \in Seq(C), GoodPiece(x)
    PROVE  CellOf(x) \in Seq(Letters)
<1>1. CASE HasDot(x)
  BY <1>1, EmptySeq DEF CellOf
<1>2. CASE ~HasDot(x)
  <2>1. Len(x) \in Nat /\ DOMAIN x = 1..Len(x) /\ x \in [1..Len(x) -> C]
    BY LenProperties
  <2>2. \A i \in 1..Len(x) : x[i] \in Letters
    BY <1>2, <2>1 DEF HasDot, ToSet, GoodPiece
  <2>3. x \in [1..Len(x) -> Letters]
    BY <2>1, <2>2
  <2> QED
    BY <1>2, <2>1, <2>3, FunctionIsSeq DEF CellOf
<1> QED
  BY <1>1, <1>2

\* The pieces so far are the start of a class.
LEMMA SoFarType ==
    ASSUME NEW C, NEW p \in PieceSeqs(C), Good(p)
    PROVE  SoFar(p) \in Board
<1>1. ASSUME NEW k \in Cells
      PROVE  (IF k <= Len(p) THEN CellOf(p[k]) ELSE <<>>) \in Seq(Letters)
  <2>1. CASE k <= Len(p)
    <3>1. k \in 1..Len(p) /\ p \in Seq(Seq(C))
      BY <2>1, CellsType, LenProperties DEF PieceSeqs
    <3>2. p[k] \in Seq(C) /\ GoodPiece(p[k])
      BY <3>1, ElementOfSeq DEF Good
    <3> QED
      BY <2>1, <3>2, CellOfType
  <2>2. CASE ~(k <= Len(p))
    BY <2>2, EmptySeq
  <2> QED
    BY <2>1, <2>2
<1> QED
  BY <1>1 DEF SoFar, Board

\* If no '.' hides a letter now, none did before, and none comes to.
LEMMA NothingHiddenNext ==
    ASSUME NEW C, NEW p \in PieceSeqs(C), NEW c \in C, NothingHidden(WithNext(p, c))
    PROVE  /\ NothingHidden(p)
           /\ c = Dot => p[Len(p)] = <<>>
           /\ c # Dot /\ c # Space => ~HasDot(p[Len(p)])
<1> DEFINE l == Len(p)
           w == WithNext(p, c)
           x == p[l]
<1>1. /\ l \in Nat \ {0} /\ x \in Seq(C) /\ w \in PieceSeqs(C)
  BY WithNextIs
<1>2. \A k \in 1..(l - 1) : k \in 1..l /\ w[k] = p[k]
  BY WithNextIs
<1>3. c = Space => Len(w) = l + 1 /\ w[l] = x
  BY WithNextIs
<1>4. c # Space => Len(w) = l /\ w[l] = Append(x, c)
  BY WithNextIs
<1>5. DOMAIN p = 1..l /\ DOMAIN w = 1..Len(w)
  BY <1>1, LenProperties DEF PieceSeqs
<1>6. l \in 1..Len(w) /\ \A k \in 1..l : k \in 1..Len(w) /\ (k = l \/ k \in 1..(l - 1))
  BY <1>1, <1>3, <1>4
<1> HIDE DEF w, x, l
<1>7. \A k \in 1..Len(w) : HasDot(w[k]) => Len(w[k]) = 1
  BY <1>5 DEF NothingHidden, w
<1>8. CASE c = Space
  <2>1. \A k \in 1..l : w[k] = p[k]
    BY <1>2, <1>3, <1>6, <1>8 DEF x
  <2>2. NothingHidden(p)
    BY <1>5, <1>6, <1>7, <2>1 DEF NothingHidden
  <2> QED
    BY <1>8, <2>2, RowHasRoom
<1>9. CASE c # Space
  <2> DEFINE a == Append(x, c)
             n == Len(x)
             m == n + 1
  <2>1. /\ n \in Nat /\ Len(a) = m /\ a \in Seq(C)
        /\ \A i \in 1..n : a[i] = x[i]
        /\ a[m] = c
    BY <1>1, AppendProperties, LenProperties
  <2>2. w[l] = a
    BY <1>4, <1>9
  <2> HIDE DEF a, n
  <2>3. HasDot(a) => n = 0
    <3>1. HasDot(w[l]) => Len(w[l]) = 1
      BY <1>6, <1>7
    <3>2. HasDot(a) => m = 1
      BY <2>1, <2>2, <3>1
    <3> QED
      BY <2>1, <3>2
  <2>4. HasDot(x) => n # 0 /\ HasDot(a)
    <3>1. HasDot(x) <=> \E i \in 1..n : x[i] = Dot
      BY <1>1, HasDotIs DEF n
    <3>2. HasDot(a) <=> \E i \in 1..m : a[i] = Dot
      BY <2>1, HasDotIs
    <3>3. \A i \in 1..n : i \in 1..m /\ n # 0
      BY <2>1
    <3> QED
      BY <2>1, <3>1, <3>2, <3>3
  <2>5. ~HasDot(x)
    BY <2>3, <2>4
  <2>6. c = Dot => x = <<>>
    <3>1. HasDot(a) <=> \E i \in 1..m : a[i] = Dot
      BY <2>1, HasDotIs
    <3>2. m \in 1..m
      BY <2>1
    <3>3. n = 0 => x = <<>>
      BY <1>1, EmptySeq DEF n
    <3> QED
      BY <2>1, <2>3, <3>1, <3>2, <3>3
  <2>7. NothingHidden(p)
    <3>1. \A k \in 1..l : HasDot(p[k]) => Len(p[k]) = 1
      BY <1>2, <1>6, <1>7, <2>5 DEF x
    <3> QED
      BY <1>5, <3>1 DEF NothingHidden
  <2> QED
    BY <1>9, <2>5, <2>6, <2>7 DEF x, l
<1> QED
  BY <1>8, <1>9

\* A character that is taken keeps the numbers of the letters exact.
LEMMA NumberedNext ==
    ASSUME NEW C, NEW p \in PieceSeqs(C), NEW c \in C, NEW s \in ParseState,
           ~s.failed, Good(p), Follows(s, p), Numbered(s, p),
           ~OneCharacter(s, c).failed, Good(WithNext(p, c)),
           NothingHidden(WithNext(p, c))
    PROVE  Numbered(OneCharacter(s, c), WithNext(p, c))
<1> DEFINE r == OneCharacter(s, c)
           w == WithNext(p, c)
           l == Len(p)
           m == l + 1
           x == p[l]
           b == SoFar(p)
           d == SoFar(w)
           B == LettersUpTo(b)
           D == LettersUpTo(d)
           n == s.cell_pos
           e == <<>>
<1>1. /\ l \in Nat \ {0} /\ x \in Seq(C) /\ w \in PieceSeqs(C)
  BY WithNextIs
<1>2. \A k \in 1..(l - 1) : k \in 1..l /\ w[k] = p[k]
  BY WithNextIs
<1>3. c = Space => Len(w) = m /\ w[l] = x /\ w[m] = e
  BY WithNextIs
<1>4. c # Space => Len(w) = l /\ w[l] = Append(x, c)
  BY WithNextIs
<1>5. /\ c = Space => r = NextCell(s)
      /\ c = Dot => r = EmptyCell(s)
      /\ c \in Letters => r = PutLetter(s, c)
      /\ c \notin Letters \cup {Dot, Space} => r.failed
  BY OneCharacterIs
<1>6. NumCells \in Nat /\ Cells = 1..NumCells
  BY CellsType
<1>7. /\ s.cell = l /\ l \in Cells /\ n \in Positions
      /\ PlaceAfter(x, n)
  BY DEF Follows, ParseState
<1>8. b \in Board /\ d \in Board
  <2> HIDE DEF w
  <2>1. Good(w)
    BY DEF w
  <2> QED
    BY <1>1, <2>1, SoFarType
<1>9. /\ \A k \in Cells : b[k] = IF k <= l THEN CellOf(p[k]) ELSE e
      /\ \A k \in Cells : d[k] = IF k <= Len(w) THEN CellOf(w[k]) ELSE e
  BY DEF SoFar
<1>10. /\ s.idx = B[l]
       /\ \A k \in 1..l : \A j \in 1..Len(CellOf(p[k])) : s.indices[k][j] = B[k - 1] + j - 1
  BY DEF Numbered
<1>11. /\ c = Dot => x = e
       /\ c # Dot /\ c # Space => ~HasDot(x)
  BY NothingHiddenNext
<1>12. ~r.failed /\ r \in ParseState
  BY OneCharacterIs
<1>13. s.indices \in [Cells -> IndexRow] /\ s.idx \in Nat
  BY DEF ParseState
<1>14. /\ \A k \in 1..m : k = m \/ k = l \/ k \in 1..(l - 1)
       /\ \A k \in 1..l : k = l \/ k \in 1..(l - 1)
       /\ \A k \in 1..(l - 1) : k # l /\ k \in Cells /\ k <= l
       /\ l \in 1..l /\ m - 1 = l /\ l <= m
  BY <1>1, <1>6, <1>7
<1>15. Numbered(r, w) <=>
         /\ r.idx = D[Len(w)]
         /\ \A k \in 1..Len(w) : \A j \in 1..Len(CellOf(w[k])) :
               r.indices[k][j] = D[k - 1] + j - 1
  BY DEF Numbered
<1>16. CellOf(e) = e /\ Len(e) = 0
  BY GoodEmpty, EmptySeq DEF CellOf
<1>17. s.cell_pos = n
  OBVIOUS
<1>18. b = d => B = D
  OBVIOUS
<1>19. c # Space => Len(w) = l /\ l <= NumCells
  BY <1>1, <1>4, <1>6, <1>7
<1>20. b = [k \in Cells |-> b[k]] /\ d = [k \in Cells |-> d[k]]
  BY DEF SoFar
<1> HIDE DEF r, w, l, m, x, b, d, B, D, n, e
<1>21. CASE c = Space
  <2>1. /\ r.cell = m /\ r.idx = s.idx /\ r.indices = s.indices
    BY <1>5, <1>7, <1>12, <1>21, NextCellIs DEF m
  <2>2. m \in Cells
    BY <1>12, <2>1 DEF ParseState
  <2>3. \A k \in Cells : d[k] = b[k]
    <3>1. \A k \in Cells : k <= l => k <= m /\ k # m /\ k \in 1..l
      BY <1>1, <1>6 DEF m
    <3>2. \A k \in Cells : k <= m => k <= l \/ k = m
      BY <1>1, <1>6 DEF m
    <3>3. \A k \in 1..l : w[k] = p[k]
      BY <1>2, <1>3, <1>14, <1>21 DEF x
    <3>4. ~(m <= l)
      BY <1>1 DEF m
    <3> QED
      BY <1>3, <1>9, <1>16, <1>21, <3>1, <3>2, <3>3, <3>4
  <2>4. b = d
    BY <1>20, <2>3
  <2>5. D[m] = D[l] + Len(d[m]) /\ D \in [0..NumCells -> Nat]
    BY <1>8, <1>14, <2>2, LettersUpToIs DEF D
  <2>6. d[m] = e
    BY <1>3, <1>9, <1>16, <1>21, <2>2
  <2>7. r.idx = D[m]
    <3>1. D[l] \in Nat
      BY <1>1, <1>6, <1>7, <2>5
    <3>2. D[m] = D[l] + 0
      BY <1>16, <2>5, <2>6
    <3> QED
      BY <1>10, <1>18, <2>1, <2>4, <3>1, <3>2
  <2>8. ASSUME NEW k \in 1..m, NEW j \in 1..Len(CellOf(w[k]))
        PROVE  r.indices[k][j] = D[k - 1] + j - 1
    <3>1. CASE k = m
      <4>1. w[k] = e
        BY <1>3, <1>21, <3>1
      <4>2. Len(CellOf(w[k])) = 0
        BY <1>16, <4>1
      <4> QED
        BY <2>8, <4>2
    <3>2. CASE k # m
      <4>1. k \in 1..l
        BY <1>14, <2>8, <3>2
      <4>2. w[k] = p[k]
        BY <1>2, <1>3, <1>14, <1>21, <4>1 DEF x
      <4> QED
        BY <1>10, <1>18, <2>1, <2>4, <2>8, <4>1, <4>2
    <3> QED
      BY <3>1, <3>2
  <2> QED
    BY <1>3, <1>15, <1>21, <2>7, <2>8 DEF r, w
<1>22. CASE c = Dot
  <2>1. c # Space
    BY <1>22, RowHasRoom
  <2>2. r.idx = s.idx /\ r.indices = s.indices
    BY <1>5, <1>22, EmptyCellIs
  <2>3. CellOf(w[l]) = e /\ CellOf(p[l]) = e
    <3>1. x = e
      BY <1>11, <1>22
    <3>2. HasDot(Append(e, c))
      <4>1. /\ Append(e, c) \in Seq(C) /\ Len(Append(e, c)) = Len(e) + 1
            /\ Append(e, c)[Len(e) + 1] = c
        BY <1>1, <3>1, AppendProperties
      <4>2. Len(e) + 1 = 1
        BY <1>16
      <4>3. 1 \in 1..1
        OBVIOUS
      <4> QED
        BY <1>22, <4>1, <4>2, <4>3, HasDotIs
    <3> QED
      BY <1>4, <1>16, <2>1, <3>1, <3>2 DEF CellOf, e, x
  <2>4. \A k \in 1..l : CellOf(w[k]) = CellOf(p[k])
    BY <1>2, <1>14, <2>3
  <2>5. \A k \in Cells : k <= l => k \in 1..l
    BY <1>1, <1>6
  <2>6. \A k \in Cells : d[k] = b[k]
    BY <1>9, <1>19, <2>1, <2>4, <2>5
  <2>7. b = d
    BY <1>20, <2>6
  <2> QED
    BY <1>10, <1>15, <1>18, <1>19, <2>1, <2>2, <2>4, <2>7 DEF r, w
<1>23. CASE c \in Letters
  <2> DEFINE a == Append(x, c)
  <2>1. c # Space /\ c # Dot
    BY <1>23, RowHasRoom
  <2>2. /\ r.idx = s.idx + 1
        /\ r.indices[l][n + 1] = s.idx
        /\ \A q \in 0..31 : q # n + 1 => r.indices[l][q] = s.indices[l][q]
        /\ \A k \in Cells : k # l => r.indices[k] = s.indices[k]
    <3> DEFINE u == PutLetter(s, c)
    <3>1. /\ u.idx = s.idx + 1
          /\ u.indices[s.cell][s.cell_pos + 1] = s.idx
          /\ \A q \in 0..31 : q # s.cell_pos + 1
                => u.indices[s.cell][q] = s.indices[s.cell][q]
          /\ \A k \in Cells : k # s.cell => u.indices[k] = s.indices[k]
      BY <1>23, PutLetterIs
    <3>2. r = u
      BY <1>5, <1>23
    <3> HIDE DEF u
    <3> QED
      BY <1>7, <3>1, <3>2 DEF n
  <2>3. /\ n = Len(x) /\ CellOf(x) = x
    BY <1>1, <1>7, <1>11, <2>1, PlaceIs DEF CellOf
  <2>4. Len(a) = Len(x) + 1 /\ CellOf(a) = a
    <3>1. /\ Len(a) = Len(x) + 1 /\ a \in Seq(C)
          /\ \A i \in 1..Len(x) : a[i] = x[i]
          /\ a[Len(x) + 1] = c
      BY <1>1, AppendProperties
    <3>2. Len(x) \in Nat
      BY <1>1, LenProperties
    <3> HIDE DEF a
    <3>3. ~HasDot(x)
      BY <1>11, <2>1
    <3>4. \A i \in 1..Len(x) : x[i] # Dot
      BY <1>1, <3>3, HasDotIs
    <3>5. \A i \in 1..(Len(x) + 1) : i = Len(x) + 1 \/ i \in 1..Len(x)
      BY <3>2
    <3>6. \A i \in 1..Len(a) : a[i] # Dot
      BY <2>1, <3>1, <3>4, <3>5
    <3>7. ~HasDot(a)
      BY <3>1, <3>6, HasDotIs
    <3> QED
      BY <3>1, <3>7 DEF CellOf
  <2>5. w[l] = a /\ Len(w) = l
    BY <1>4, <2>1
  <2> HIDE DEF a
  <2>6. b[l] = x /\ d[l] = a
    BY <1>7, <1>9, <1>14, <2>3, <2>4, <2>5 DEF x
  <2>7. \A k \in 1..(l - 1) : b[k] = d[k]
    BY <1>2, <1>9, <1>14, <2>5
  <2> DEFINE i == l - 1
  <2>8. i \in 0..NumCells /\ i \in 0..i /\ \A k \in 1..l : k - 1 \in 0..i
    BY <1>1, <1>6, <1>7
  <2>9. \A k \in 0..i : B[k] = D[k]
    <3> HIDE DEF i
    <3>1. \A k \in 1..i : b[k] = d[k]
      BY <2>7 DEF i
    <3> QED
      BY ONLY <1>8, <2>8, <3>1, LettersUpToSame DEF B, D
  <2>10. B[l] = B[i] + Len(b[l]) /\ D[l] = D[i] + Len(d[l])
    BY <1>7, <1>8, LettersUpToIs DEF B, D
  <2>11. B[i] \in Nat /\ n \in Nat
    <3>1. B \in [0..NumCells -> Nat]
      BY <1>8, LettersUpToIs DEF B
    <3> QED
      BY <1>7, <2>8, <3>1, RowHasRoom
  <2>12. B[l] = B[i] + n /\ D[l] = B[i] + (n + 1)
    BY <2>3, <2>4, <2>6, <2>8, <2>9, <2>10
  <2>13. r.idx = D[l]
    <3>1. s.idx = B[i] + n
      BY <1>10, <2>12
    <3> QED
      BY <2>2, <2>11, <2>12, <3>1
  <2>14. ASSUME NEW k \in 1..l, NEW j \in 1..Len(CellOf(w[k]))
         PROVE  r.indices[k][j] = D[k - 1] + j - 1
    <3>1. D[k - 1] = B[k - 1]
      BY <2>8, <2>9
    <3>2. CASE k # l
      <4>1. k \in 1..(l - 1)
        BY <1>14, <3>2
      <4>2. r.indices[k] = s.indices[k] /\ w[k] = p[k]
        BY <1>2, <1>14, <2>2, <4>1
      <4> QED
        BY <1>10, <2>14, <3>1, <4>2
    <3>3. CASE k = l
      <4>1. j \in 1..(n + 1)
        BY <2>3, <2>4, <2>5, <3>3
      <4>2. CASE j = n + 1
        <5>1. r.indices[k][j] = B[i] + n /\ D[k - 1] = B[i]
          BY <1>10, <2>2, <2>12, <3>1, <3>3, <4>2
        <5> QED
          BY <2>11, <4>2, <5>1
      <4>3. CASE j # n + 1
        <5>1. j \in 1..n /\ j \in 0..31
          BY <1>7, <2>11, <4>1, <4>3, RowHasRoom DEF Positions
        <5>2. CellOf(p[l]) = x
          BY <2>3 DEF x
        <5>3. s.indices[l][j] = B[l - 1] + j - 1
          BY <1>10, <1>14, <2>3, <5>1, <5>2
        <5> QED
          BY <2>2, <3>1, <3>3, <4>3, <5>1, <5>3
      <4> QED
        BY <4>2, <4>3
    <3> QED
      BY <3>2, <3>3
  <2> QED
    BY <1>15, <2>5, <2>13, <2>14 DEF r, w
<1>24. CASE c \notin Letters \cup {Dot, Space}
  BY <1>5, <1>12, <1>24
<1> QED
  BY <1>21, <1>22, <1>23, <1>24 DEF r, w

-----------------------------------------------------------------------------
(* What ParseBoard makes of a text. *)

\* At the end of the text, ParseBoard has its pieces in its rows.
LEMMA ParseFollows ==
    ASSUME NEW rows \in [Cells -> CellRow], NEW C, NEW t \in Seq(C)
    PROVE  LET s == Progress(rows, t)[Len(t)]
               p == Pieces(t)
           IN  /\ s \in ParseState /\ p \in PieceSeqs(C)
               /\ ~s.failed <=> Good(p)
               /\ ~s.failed => Follows(s, p)
               /\ ~s.failed /\ NothingHidden(p) => Numbered(s, p)
<1> DEFINE N == Len(t)
           f == Progress(rows, t)
           g == PiecesUpTo(t)
           Same(s, p) == /\ ~s.failed <=> Good(p)
                         /\ ~s.failed => Follows(s, p)
                         /\ ~s.failed /\ NothingHidden(p) => Numbered(s, p)
           T == {i \in 0..N : Same(f[i], g[i])}
<1>1. N \in Nat /\ \A i \in 1..N : t[i] \in C
  BY LenProperties, ElementOfSeq
<1>2. /\ f \in [0..N -> ParseState] /\ f[0] = Start(rows)
      /\ \A i \in 1..N : f[i] = OneCharacter(f[i - 1], t[i])
  BY ProgressIs
<1>3. /\ g \in [0..N -> PieceSeqs(C)] /\ g[0] = << <<>> >>
      /\ \A i \in 1..N : g[i] = WithNext(g[i - 1], t[i])
  BY PiecesUpToIs
<1>4. Pieces(t) = g[N]
  BY DEF Pieces
<1> HIDE DEF f, g, N
<1>5. Same(f[0], g[0])
  <2> DEFINE e == <<>>
             p == <<e>>
             s == f[0]
  <2>1. /\ ~s.failed /\ s.cell = 1 /\ s.cell_pos = 0 /\ s.idx = 0 /\ g[0] = p
    BY <1>2, <1>3, StartIs
  <2>2. Len(p) = 1 /\ p[1] = e
    OBVIOUS
  <2>3. GoodPiece(e) /\ PlaceAfter(e, 0) /\ ~HasDot(e) /\ Len(e) = 0
    BY GoodEmpty, EmptySeq
  <2>4. NumCells \in Nat /\ 1 <= NumCells /\ 1 \in Cells /\ 1 - 1 = 0 /\ 1..0 = {}
        /\ \A k \in 1..1 : k = 1
    BY CellsType
  <2> HIDE DEF e, p, s
  <2>5. Good(p)
    BY <2>2, <2>3, <2>4 DEF Good
  <2>6. Follows(s, p)
    <3>1. RowHolds(s.rows[1], e)
      BY <2>3, <2>4 DEF RowHolds
    <3> QED
      BY <2>1, <2>2, <2>3, <2>4, <3>1 DEF Follows
  <2>7. Numbered(s, p)
    <3>1. SoFar(p) \in Board
      <4>1. p \in PieceSeqs(C)
        BY <1>1, <1>3, <2>1
      <4> QED
        BY <2>5, <4>1, SoFarType
    <3>2. CellOf(e) = e
      BY <2>3 DEF CellOf
    <3>3. SoFar(p)[1] = e
      BY <2>2, <2>4, <3>2 DEF SoFar
    <3>4. LettersUpTo(SoFar(p))[1] = LettersUpTo(SoFar(p))[0] + 0
      BY <2>3, <2>4, <3>1, <3>3, LettersUpToIs
    <3>5. LettersUpTo(SoFar(p))[1] = 0
      BY <3>1, <3>4, LettersUpToIs
    <3> QED
      BY <2>1, <2>2, <2>3, <2>4, <3>2, <3>5 DEF Numbered
  <2> QED
    BY <2>1, <2>5, <2>6, <2>7 DEF s
<1>6. ASSUME NEW i \in 1..N, i - 1 \in T PROVE i \in T
  <2> DEFINE s == f[i - 1]
             p == g[i - 1]
             c == t[i]
  <2>1. /\ i - 1 \in 0..N /\ i \in 0..N /\ s \in ParseState /\ p \in PieceSeqs(C)
        /\ c \in C /\ f[i] = OneCharacter(s, c) /\ g[i] = WithNext(p, c)
    BY <1>1, <1>2, <1>3
  <2>2. Same(s, p)
    BY <1>6
  <2> HIDE DEF s, p, c
  <2>3. /\ ~OneCharacter(s, c).failed <=> Good(WithNext(p, c))
        /\ ~OneCharacter(s, c).failed => Follows(OneCharacter(s, c), WithNext(p, c))
    BY <2>1, <2>2, FollowsNext
  <2>4. s.failed => OneCharacter(s, c).failed
    BY <2>1, OneCharacterIs
  <2>5. NothingHidden(WithNext(p, c)) => NothingHidden(p)
    BY <2>1, NothingHiddenNext
  <2>6. ~OneCharacter(s, c).failed /\ NothingHidden(WithNext(p, c))
          => Numbered(OneCharacter(s, c), WithNext(p, c))
    BY <2>1, <2>2, <2>3, <2>4, <2>5, NumberedNext
  <2> QED
    BY <2>1, <2>3, <2>6
<1> HIDE DEF Same
<1>7. 0 \in T
  BY <1>1, <1>5
<1> HIDE DEF T
<1>8. \A i \in 0..N : i \in T
  BY ONLY <1>1, <1>6, <1>7, StepsUp
<1>9. N \in 0..N
  BY <1>1
<1>10. Same(f[N], g[N]) /\ f[N] \in ParseState /\ g[N] \in PieceSeqs(C)
  BY <1>2, <1>3, <1>8, <1>9 DEF T
<1> QED
  BY <1>4, <1>10 DEF Same, N, f

\* The end of the text ends the last row, which must be that of the last cell.
LEMMA EndOfTextIs ==
    ASSUME NEW s \in ParseState
    PROVE  LET r == EndOfText(s)
           IN  /\ r \in [rows : [Cells -> CellRow], cell : Nat, cell_pos : Nat, idx : Nat,
                          failed : BOOLEAN, indices : [Cells -> IndexRow]]
               /\ r.failed <=> s.failed \/ s.cell_pos = 0 \/ s.cell # NumCells
               /\ ~r.failed => /\ OneByte(r.rows, s.rows, s.cell, s.cell_pos, NUL)
                               /\ r.indices = s.indices
<1> DEFINE bytes == [s.rows EXCEPT ![s.cell][s.cell_pos] = NUL]
           e == [s EXCEPT !.rows[s.cell][s.cell_pos] = NUL]
<1>1. s \in [rows : [Cells -> CellRow], cell : Nat, cell_pos : Nat, idx : Nat,
             failed : BOOLEAN, indices : [Cells -> IndexRow]]
  BY DEF ParseState
<1>2. CASE s.failed
  BY <1>1, <1>2 DEF EndOfText
<1>3. CASE ~s.failed
  <2>1. /\ s.rows \in [Cells -> CellRow] /\ s.cell \in Cells /\ s.cell_pos \in Positions
        /\ s.cell_pos \in Nat
    BY <1>3 DEF ParseState
  <2>2. bytes \in [Cells -> CellRow] /\ OneByte(bytes, s.rows, s.cell, s.cell_pos, NUL)
    BY <2>1, PutByte
  <2>3. e = [s EXCEPT !.rows = bytes]
    OBVIOUS
  <2> HIDE DEF bytes
  <2>4. e.rows = bytes /\ e.indices = s.indices /\ ~e.failed
    BY <1>1, <1>3, <2>3
  <2>5. e \in [rows : [Cells -> CellRow], cell : Nat, cell_pos : Nat, idx : Nat,
               failed : BOOLEAN, indices : [Cells -> IndexRow]]
    BY <1>1, <2>2, <2>3
  <2>6. EndOfText(s) = IF s.cell_pos <= 0 \/ s.cell # NumCells THEN Rejected(e) ELSE e
    BY <1>3 DEF EndOfText
  <2> HIDE DEF e
  <2>7. /\ Rejected(e).failed
        /\ Rejected(e) \in [rows : [Cells -> CellRow], cell : Nat, cell_pos : Nat,
                            idx : Nat, failed : BOOLEAN, indices : [Cells -> IndexRow]]
    BY <2>5 DEF Rejected
  <2>8. s.cell_pos <= 0 <=> s.cell_pos = 0
    BY <2>1
  <2> QED
    BY <1>3, <2>2, <2>4, <2>5, <2>6, <2>7, <2>8
<1> QED
  BY <1>2, <1>3

\* A text is a class when its pieces are the start of one that has all its cells.
LEMMA LegalIs ==
    ASSUME NEW C, NEW t \in Seq(C), Pieces(t) \in PieceSeqs(C)
    PROVE  Legal(t) <=> LET p == Pieces(t)
                        IN  Good(p) /\ Len(p) = NumCells /\ p[Len(p)] # <<>>
<1> DEFINE p == Pieces(t)
           l == Len(p)
           e == <<>>
<1>1. l \in Nat \ {0}
  BY EmptySeq, LenProperties DEF PieceSeqs
<1>2. Legal(t) <=> l = NumCells /\ \A k \in Cells : p[k] # e /\ GoodPiece(p[k])
  BY DEF Legal, GoodPiece
<1>3. Good(p) <=> /\ l <= NumCells
                  /\ \A k \in 1..l : GoodPiece(p[k])
                  /\ \A k \in 1..(l - 1) : p[k] # e
  BY DEF Good
<1> HIDE DEF p, l, e
<1>4. l \in 1..l /\ \A k \in 1..l : k = l \/ k \in 1..(l - 1)
  BY <1>1
<1>5. \A k \in 1..(l - 1) : k \in 1..l
  BY <1>1
<1>6. NumCells \in Nat /\ Cells = 1..NumCells
  BY CellsType
<1>7. Legal(t) => Good(p) /\ l = NumCells /\ p[l] # e
  BY <1>2, <1>3, <1>4, <1>5, <1>6
<1>8. Good(p) /\ l = NumCells /\ p[l] # e => Legal(t)
  BY <1>2, <1>3, <1>4, <1>6
<1> QED
  BY <1>7, <1>8 DEF p, l, e

\* What a text says of the class, and of the numbers of its letters.
NumbersOf(b, indices) ==
    \A k \in Cells : \A j \in 1..Len(b[k]) : indices[k][j] = LettersUpTo(b)[k - 1] + j - 1

\* ParseBoard takes the texts that name a class, and its rows are then that class.
LEMMA ParseIs ==
    ASSUME NEW rows \in [Cells -> CellRow], NEW C, NEW t \in Seq(C)
    PROVE  LET r == Parse(rows, t)
           IN  /\ r.rows \in [Cells -> CellRow]
               /\ r.indices \in [Cells -> IndexRow]
               /\ r.failed \in BOOLEAN
               /\ ~r.failed <=> Legal(t)
               /\ Legal(t) => /\ ClassNamed(t) \in Board
                              /\ ClassIn(r.rows) = ClassNamed(t)
                              /\ NothingHidden(Pieces(t))
                                   => NumbersOf(ClassNamed(t), r.indices)
<1> DEFINE s == Progress(rows, t)[Len(t)]
           p == Pieces(t)
           l == Len(p)
           x == p[l]
           n == s.cell_pos
           r == EndOfText(s)
           b == ClassNamed(t)
<1>1. /\ s \in ParseState /\ p \in PieceSeqs(C)
      /\ ~s.failed <=> Good(p)
      /\ ~s.failed => Follows(s, p)
      /\ ~s.failed /\ NothingHidden(p) => Numbered(s, p)
  BY ParseFollows
<1>2. Parse(rows, t) = r
  BY DEF Parse
<1>3. Legal(t) <=> Good(p) /\ l = NumCells /\ x # <<>>
  BY <1>1, LegalIs
<1>4. NumCells \in Nat \ {0} /\ Cells = 1..NumCells
  BY CellsType
<1>5. b = [k \in Cells |-> CellOf(p[k])]
  BY DEF ClassNamed, CellOf
<1> HIDE DEF s, p
<1>6. /\ r \in [rows : [Cells -> CellRow], cell : Nat, cell_pos : Nat, idx : Nat,
                failed : BOOLEAN, indices : [Cells -> IndexRow]]
      /\ r.failed <=> s.failed \/ n = 0 \/ s.cell # NumCells
      /\ ~r.failed => /\ OneByte(r.rows, s.rows, s.cell, n, NUL)
                      /\ r.indices = s.indices
  BY <1>1, EndOfTextIs
<1> HIDE DEF r, b
<1>7. /\ l \in Nat \ {0} /\ x \in Seq(C)
  <2>1. /\ p \in Seq(Seq(C)) /\ p # <<>>
    BY <1>1 DEF PieceSeqs
  <2>2. l \in Nat \ {0} /\ l \in 1..l
    BY <2>1, EmptySeq, LenProperties
  <2> QED
    BY <2>1, <2>2, ElementOfSeq
<1>8. ~r.failed <=> Legal(t)
  <2>1. ~s.failed => s.cell = l /\ (n = 0 <=> x = <<>>)
    <3>1. ~s.failed => s.cell = l /\ PlaceAfter(x, n)
      BY <1>1 DEF Follows
    <3> QED
      BY <1>7, <3>1, PlaceIs
  <2> HIDE DEF l, x, n
  <2> QED
    BY <1>1, <1>3, <1>6, <2>1
<1>9. ASSUME Legal(t)
      PROVE  /\ b \in Board /\ ClassIn(r.rows) = b
             /\ NothingHidden(p) => NumbersOf(b, r.indices)
  <2>1. /\ ~s.failed /\ Good(p) /\ l = NumCells /\ x # <<>>
        /\ s.cell = l /\ PlaceAfter(x, n) /\ RowHolds(s.rows[l], x)
        /\ \A k \in 1..(l - 1) : CellString(s.rows[k]) = CellOf(p[k])
        /\ OneByte(r.rows, s.rows, l, n, NUL)
        /\ r.indices = s.indices
        /\ NothingHidden(p) => Numbered(s, p)
    BY <1>1, <1>3, <1>6, <1>8, <1>9 DEF Follows
  <2>2. /\ n \in Positions /\ n # 0 /\ l \in Cells
        /\ s.rows \in [Cells -> CellRow] /\ r.rows \in [Cells -> CellRow]
    <3>1. n # 0
      BY <1>7, <2>1, PlaceIs
    <3> QED
      BY <1>1, <1>4, <1>6, <2>1, <3>1 DEF ParseState
  <2>3. b = SoFar(p)
    <3>1. \A k \in Cells : k <= l
      BY <1>4, <2>1
    <3> QED
      BY <1>5, <3>1 DEF SoFar
  <2>4. b \in Board
    BY <1>1, <2>1, <2>3, SoFarType
  <2>5. CellString(r.rows[l]) = CellOf(x)
    <3>1. ToSet(x) \subseteq Letters \cup {Dot}
      <4>1. l \in 1..l
        BY <1>7
      <4> QED
        BY <2>1, <4>1 DEF Good, GoodPiece
    <3>2. /\ r.rows[l] \in CellRow /\ s.rows[l] \in CellRow /\ r.rows[l][n] = NUL
          /\ \A q \in Positions : q # n => r.rows[l][q] = s.rows[l][q]
      BY <2>1, <2>2 DEF OneByte
    <3> HIDE DEF l, n, x
    <3> QED
      BY <1>7, <2>1, <2>2, <3>1, <3>2, RowEnds
  <2>6. \A k \in Cells : CellString(r.rows[k]) = CellOf(p[k])
    <3>1. \A k \in Cells : k = l \/ k \in 1..(l - 1)
      BY <1>4, <2>1
    <3>2. \A k \in 1..(l - 1) : k # l /\ k \in Cells
      BY <1>4, <1>7, <2>1
    <3>3. \A k \in 1..(l - 1) : r.rows[k] = s.rows[k]
      BY <2>1, <3>2 DEF OneByte
    <3> HIDE DEF l, n
    <3> QED
      BY <2>1, <2>5, <3>1, <3>3 DEF x
  <2>7. ClassIn(r.rows) = b
    BY <1>5, <2>6 DEF ClassIn
  <2>8. ASSUME NothingHidden(p) PROVE NumbersOf(b, r.indices)
    <3>1. \A k \in 1..l : \A j \in 1..Len(CellOf(p[k])) :
            s.indices[k][j] = LettersUpTo(b)[k - 1] + j - 1
      BY <2>1, <2>3, <2>8 DEF Numbered
    <3>2. \A k \in Cells : k \in 1..l /\ b[k] = CellOf(p[k])
      BY <1>4, <1>5, <2>1
    <3> HIDE DEF l
    <3> QED
      BY <2>1, <3>1, <3>2 DEF NumbersOf
  <2> QED
    BY <2>4, <2>7, <2>8
<1> QED
  BY <1>2, <1>6, <1>8, <1>9 DEF p, b

-----------------------------------------------------------------------------
(* The pieces of what as_string writes. *)

\* The pieces up to a character are known from the text up to it.
LEMMA PiecesSame ==
    ASSUME NEW C, NEW t \in Seq(C), NEW u \in Seq(C), Len(t) <= Len(u),
           \A i \in 1..Len(t) : t[i] = u[i]
    PROVE  PiecesUpTo(u)[Len(t)] = Pieces(t)
<1> DEFINE n == Len(t)
           f == PiecesUpTo(t)
           g == PiecesUpTo(u)
           T == {i \in 0..n : f[i] = g[i]}
<1>1. n \in Nat /\ Len(u) \in Nat /\ 0 \in 0..n /\ n \in 0..n
  BY LenProperties
<1>2. f[0] = << <<>> >> /\ \A i \in 1..n : f[i] = WithNext(f[i - 1], t[i])
  BY PiecesUpToIs
<1>3. g[0] = << <<>> >> /\ \A i \in 1..Len(u) : g[i] = WithNext(g[i - 1], u[i])
  BY PiecesUpToIs
<1>4. Pieces(t) = f[n]
  BY DEF Pieces
<1>5. \A i \in 1..n : i \in 1..Len(u) /\ i \in 0..n
  BY <1>1
<1> HIDE DEF f, g
<1>6. 0 \in T
  BY <1>1, <1>2, <1>3
<1>7. ASSUME NEW i \in 1..n, i - 1 \in T PROVE i \in T
  BY <1>2, <1>3, <1>5, <1>7
<1> HIDE DEF T, n
<1>8. \A i \in 0..n : i \in T
  BY ONLY <1>1, <1>6, <1>7, StepsUp
<1> QED
  BY <1>1, <1>4, <1>8 DEF T, n, g

\* A text has pieces, one at least.
LEMMA PiecesType ==
    ASSUME NEW C, NEW t \in Seq(C)
    PROVE  Pieces(t) \in PieceSeqs(C) /\ Len(Pieces(t)) \in Nat \ {0}
<1>1. Len(t) \in 0..Len(t)
  BY LenProperties
<1>2. Pieces(t) \in PieceSeqs(C)
  BY <1>1, PiecesUpToIs DEF Pieces
<1> QED
  BY <1>2, EmptySeq DEF PieceSeqs

\* A text with one more character.
LEMMA PiecesAppend ==
    ASSUME NEW C, NEW t \in Seq(C), NEW c \in C
    PROVE  Pieces(Append(t, c)) = WithNext(Pieces(t), c)
<1> DEFINE u == Append(t, c)
           n == Len(t)
           m == n + 1
<1>1. /\ u \in Seq(C) /\ Len(u) = m /\ n \in Nat
      /\ \A i \in 1..n : t[i] = u[i]
      /\ u[m] = c
  BY AppendProperties, LenProperties
<1> HIDE DEF u
<1>2. m \in 1..m /\ m - 1 = n /\ n <= m
  BY <1>1
<1>3. PiecesUpTo(u)[m] = WithNext(PiecesUpTo(u)[m - 1], u[m])
  BY <1>1, <1>2, PiecesUpToIs
<1>4. PiecesUpTo(u)[n] = Pieces(t)
  BY <1>1, <1>2, PiecesSame
<1>5. Pieces(u) = PiecesUpTo(u)[m]
  BY <1>1 DEF Pieces
<1> QED
  BY <1>1, <1>2, <1>3, <1>4, <1>5 DEF u

\* A text with one more word, after a space.
LEMMA PiecesWord ==
    ASSUME NEW C, NEW t \in Seq(C), NEW w \in Seq(C), \A i \in 1..Len(w) : w[i] # Space,
           Pieces(t)[Len(Pieces(t))] = <<>>
    PROVE  /\ Len(Pieces(t \o w)) = Len(Pieces(t))
           /\ \A k \in 1..(Len(Pieces(t)) - 1) : Pieces(t \o w)[k] = Pieces(t)[k]
           /\ Pieces(t \o w)[Len(Pieces(t))] = w
<1> DEFINE p == Pieces(t)
           l == Len(p)
           n == Len(t)
           h == Len(w)
           u == t \o w
           g == PiecesUpTo(u)
           e == <<>>
           Holds(q, i) == /\ q \in PieceSeqs(C) /\ Len(q) = l
                          /\ \A k \in 1..(l - 1) : q[k] = p[k]
                          /\ Len(q[l]) = i
                          /\ \A j \in 1..i : q[l][j] = w[j]
           T == {i \in 0..h : Holds(g[n + i], i)}
<1>1. /\ n \in Nat /\ h \in Nat /\ u \in Seq(C) /\ Len(u) = n + h
      /\ \A i \in 1..(n + h) : u[i] = IF i <= n THEN t[i] ELSE w[i - n]
      /\ \A i \in 1..h : w[i] \in C
  BY ConcatProperties, LenProperties, ElementOfSeq
<1>2. /\ p \in PieceSeqs(C) /\ l \in Nat \ {0}
  BY PiecesType
<1>3. Pieces(u) = g[n + h]
  BY <1>1 DEF Pieces
<1>4. g[n] = p
  <2> HIDE DEF u
  <2>1. n <= n + h /\ \A i \in 1..n : i \in 1..(n + h) /\ i <= n
    BY <1>1
  <2>2. \A i \in 1..n : t[i] = u[i]
    BY <1>1, <2>1
  <2> QED
    BY <1>1, <2>1, <2>2, PiecesSame
<1>5. \A i \in 1..(n + h) : g[i] = WithNext(g[i - 1], u[i])
  <2> HIDE DEF u
  <2> QED
    BY <1>1, PiecesUpToIs
<1>6. p[l] = e
  OBVIOUS
<1> HIDE DEF p, l, g, u, n
<1>7. 0 \in T
  <2>1. n + 0 = n /\ 0 \in 0..h /\ 1..0 = {} /\ Len(e) = 0
    BY <1>1, EmptySeq
  <2> HIDE DEF e
  <2>2. Len(p[l]) = 0
    BY <1>6, <2>1
  <2>3. Holds(p, 0)
    BY ONLY <1>2, <2>1, <2>2, l = Len(p) DEF l
  <2> HIDE DEF Holds
  <2> QED
    BY <1>4, <2>1, <2>3
<1> HIDE DEF e
<1>8. ASSUME NEW i \in 1..h, i - 1 \in T PROVE i \in T
  <2> DEFINE m == n + i
             q == g[m - 1]
             c == w[i]
             a == q[l]
             j == i - 1
             r == WithNext(q, c)
  <2>1. /\ m \in 1..(n + h) /\ ~(m <= n) /\ m - n = i /\ n + j = m - 1
        /\ i \in 0..h /\ j \in Nat /\ j + 1 = i
        /\ \A k \in 1..i : k = i \/ k \in 1..j
    BY <1>1
  <2>2. u[m] = c /\ c \in C /\ c # Space
    BY <1>1, <2>1
  <2>3. g[m] = r
    BY <1>5, <2>1, <2>2
  <2>4. Holds(q, j)
    BY <1>8, <2>1
  <2> HIDE DEF q, c, m
  <2>5. /\ r \in PieceSeqs(C) /\ Len(r) = l /\ a \in Seq(C)
        /\ \A k \in 1..(l - 1) : r[k] = q[k]
        /\ r[l] = Append(a, c)
    <3>1. q \in PieceSeqs(C)
      BY <2>4
    <3>6. Len(q) = l
      BY <2>4
    <3>7. c \in C
      BY <2>2
    <3>2. r \in PieceSeqs(C)
      BY ONLY <3>1, <3>7, WithNextIs
    <3>3. q[Len(q)] \in Seq(C)
      BY ONLY <3>1, <3>7, WithNextIs
    <3>4. \A k \in 1..(Len(q) - 1) : k \in 1..Len(q) /\ r[k] = q[k]
      BY ONLY <3>1, <3>7, WithNextKeeps
    <3>5. c # Space => Len(r) = Len(q) /\ r[Len(q)] = Append(q[Len(q)], c)
      BY ONLY <3>1, <3>7, WithNextIs
    <3> HIDE DEF r, Holds
    <3> QED
      BY <2>2, <3>1, <3>2, <3>3, <3>4, <3>5, <3>6
  <2> HIDE DEF r, a, j
  <2>6. /\ Len(Append(a, c)) = Len(a) + 1
        /\ \A k \in 1..Len(a) : Append(a, c)[k] = a[k]
        /\ Append(a, c)[Len(a) + 1] = c
    BY ONLY <2>2, <2>5, AppendProperties
  <2>7. Len(a) = j /\ \A k \in 1..j : a[k] = w[k]
    BY <2>4 DEF a
  <2>8. Len(r[l]) = i /\ \A k \in 1..i : r[l][k] = w[k]
    BY <2>1, <2>5, <2>6, <2>7 DEF c
  <2>9. Holds(r, i)
    BY <2>4, <2>5, <2>8
  <2> HIDE DEF Holds
  <2> QED
    BY <2>1, <2>3, <2>9 DEF m
<1>9. \A i \in 0..h : i \in T
  <2> HIDE DEF T, h
  <2> QED
    BY ONLY <1>1, <1>7, <1>8, StepsUp
<1>10. Holds(g[n + h], h)
  <2>1. h \in 0..h
    BY <1>1
  <2> HIDE DEF Holds
  <2> QED
    BY <1>9, <2>1
<1> DEFINE q == g[n + h]
<1>11. q[l] \in Seq(C) /\ Len(q[l]) = h /\ \A j \in 1..h : q[l][j] = w[j]
  <2>1. q \in Seq(Seq(C)) /\ l \in 1..Len(q)
    BY <1>2, <1>10 DEF PieceSeqs
  <2> HIDE DEF q
  <2>2. q[l] \in Seq(C)
    BY <2>1, ElementOfSeq
  <2> QED
    BY <1>10, <2>2 DEF q
<1>12. q[l] = w
  <2> DEFINE x == q[l]
  <2>1. x \in Seq(C) /\ Len(x) = Len(w) /\ \A j \in 1..Len(x) : x[j] = w[j]
    BY <1>11
  <2> HIDE DEF x
  <2>2. x = w
    BY ONLY w \in Seq(C), <2>1, SeqEqual
  <2> QED
    BY <2>2 DEF x
<1>13. Len(q) = l /\ \A k \in 1..(l - 1) : q[k] = p[k]
  BY <1>10
<1> HIDE DEF q, h
<1> QED
  BY <1>3, <1>12, <1>13 DEF p, l, u, q

\* What as_string writes, and the pieces of it.
Characters == Letters \cup {Dot, Space}
CellTexts(b) ==
    [k \in Cells |-> IF k = NumCells THEN CellText(b[k]) ELSE Append(CellText(b[k]), Space)]

\* What is put after the end of two sequences is put after the second.
LEMMA ConcatAppend ==
    ASSUME NEW S, NEW s \in Seq(S), NEW t \in Seq(S), NEW x \in S
    PROVE  s \o Append(t, x) = Append(s \o t, x)
<1> DEFINE n == Len(s)
           m == Len(t)
           u == Append(t, x)
           c == s \o t
           left == s \o u
           right == Append(c, x)
<1>1. /\ n \in Nat /\ m \in Nat
      /\ u \in Seq(S) /\ Len(u) = m + 1 /\ u[m + 1] = x
      /\ \A i \in 1..m : u[i] = t[i]
  BY AppendProperties, LenProperties
<1>2. /\ c \in Seq(S) /\ Len(c) = n + m
      /\ \A i \in 1..(n + m) : c[i] = IF i <= n THEN s[i] ELSE t[i - n]
  BY ConcatProperties
<1> HIDE DEF u, c
<1>3. /\ left \in Seq(S) /\ Len(left) = n + (m + 1)
      /\ \A i \in 1..(n + (m + 1)) : left[i] = IF i <= n THEN s[i] ELSE u[i - n]
  <2>1. /\ left \in Seq(S) /\ Len(left) = Len(s) + Len(u)
        /\ \A i \in 1..(Len(s) + Len(u)) : left[i] = IF i <= Len(s) THEN s[i] ELSE u[i - Len(s)]
    BY <1>1, ConcatProperties
  <2> HIDE DEF left, m
  <2> QED
    BY <1>1, <2>1
<1>4. /\ right \in Seq(S) /\ Len(right) = (n + m) + 1
      /\ \A i \in 1..(n + m) : right[i] = c[i]
      /\ right[n + m + 1] = x
  BY <1>2, AppendProperties
<1> HIDE DEF left, right, n, m
<1>5. ASSUME NEW i \in 1..(n + (m + 1)) PROVE left[i] = right[i]
  <2>1. CASE i = n + m + 1
    <3>1. ~(i <= n) /\ i - n = m + 1
      BY <1>1, <2>1
    <3> QED
      BY <1>1, <1>3, <1>4, <2>1, <3>1
  <2>2. CASE i # n + m + 1
    <3>1. i \in 1..(n + m) /\ (~(i <= n) => i - n \in 1..m)
      BY <1>1, <2>2
    <3> QED
      BY <1>1, <1>2, <1>3, <1>4, <3>1
  <2> QED
    BY <2>1, <2>2
<1>6. Len(left) = Len(right)
  BY <1>1, <1>3, <1>4
<1>7. left = right
  BY ONLY <1>3, <1>4, <1>5, <1>6, SeqEqual
<1> QED
  BY <1>7 DEF left, right, u, c

\* What as_string writes for a cell is read back as that cell.
LEMMA CellTextIs ==
    ASSUME NEW x \in Seq(Letters)
    PROVE  /\ CellText(x) \in Seq(Characters) /\ CellText(x) \in Seq(Letters \cup {Dot})
           /\ CellText(x) # <<>>
           /\ \A i \in 1..Len(CellText(x)) : CellText(x)[i] # Space
           /\ CellOf(CellText(x)) = x
           /\ HasDot(CellText(x)) => Len(CellText(x)) = 1
           /\ Len(x) < CellSize => GoodPiece(CellText(x))
<1> DEFINE e == <<>>
           L == Letters \cup {Dot}
           w == CellText(x)
<1>1. CASE x = e
  <2>1. w = <<Dot>>
    BY <1>1 DEF CellText
  <2>2. w \in Seq(Characters) /\ w \in Seq(L) /\ Len(w) = 1 /\ w[1] = Dot
    BY <2>1 DEF Characters
  <2> HIDE DEF w, L
  <2>3. \A i \in 1..Len(w) : i = 1
    BY <2>2
  <2>4. 1 \in 1..Len(w)
    BY <2>2
  <2>5. HasDot(w)
    BY <2>2, <2>4, HasDotIs
  <2>6. GoodPiece(w)
    <3>1. ToSet(w) \subseteq L
      <4>1. DOMAIN w = 1..Len(w) /\ \A i \in 1..Len(w) : w[i] \in L
        BY <2>2, LenProperties, ElementOfSeq
      <4> QED
        BY <4>1 DEF ToSet
    <3>2. ASSUME NEW i \in 1..Len(w), NEW j \in 1..Len(w), i <= j,
                 \A n \in i..j : w[n] # Dot
          PROVE  FALSE
      <4>1. i = 1 /\ j = 1 /\ 1 \in i..j
        BY <2>3, <3>2
      <4> QED
        BY <2>2, <3>2, <4>1
    <3>3. Fits(w)
      BY <2>2, <3>2, FitsIs
    <3> QED
      BY <3>1, <3>3 DEF GoodPiece, L
  <2>7. w # <<>>
    <3>1. Len(<<>>) = 0
      BY EmptySeq
    <3>2. Len(w) = 1
      BY <2>2
    <3> QED
      BY <3>1, <3>2
  <2> QED
    BY <1>1, <2>2, <2>3, <2>5, <2>6, <2>7, RowHasRoom DEF w, L, CellOf
<1>2. CASE x # e
  <2>1. w = x
    BY <1>2 DEF CellText
  <2>2. /\ Len(x) \in Nat \ {0} /\ \A i \in 1..Len(x) : x[i] \in Letters
        /\ ToSet(x) \subseteq Letters /\ DOMAIN x = 1..Len(x)
    <3>1. Len(x) \in Nat \ {0} /\ DOMAIN x = 1..Len(x)
      BY <1>2, EmptySeq, LenProperties
    <3>2. \A i \in 1..Len(x) : x[i] \in Letters
      BY ElementOfSeq
    <3> QED
      BY <3>1, <3>2 DEF ToSet
  <2>3. x \in Seq(Characters) /\ x \in Seq(L)
    <3>1. Letters \subseteq Characters /\ Letters \subseteq L
      BY DEF Characters
    <3> HIDE DEF L
    <3> QED
      BY <3>1, SeqMonotonic
  <2>4. ~HasDot(x)
    BY <2>2, RowHasRoom DEF HasDot
  <2>5. Len(x) < CellSize => GoodPiece(x)
    <3>1. ASSUME Len(x) < CellSize, NEW i \in 1..Len(x), NEW j \in 1..Len(x), i <= j
          PROVE  (j - i + 1) + (IF i > 1 THEN 1 ELSE 0) < CellSize
      <4> DEFINE l == Len(x)
      <4>1. l \in Nat /\ CellSize \in Nat /\ l < CellSize /\ i \in 1..l /\ j \in 1..l
        BY <2>2, <3>1, RowHasRoom
      <4> HIDE DEF l
      <4> QED
        BY <3>1, <4>1
    <3>2. Len(x) < CellSize => Fits(x)
      BY <3>1, FitsIs
    <3> QED
      BY <2>2, <3>2 DEF GoodPiece
  <2> HIDE DEF w, L
  <2> QED
    BY <1>2, <2>1, <2>2, <2>3, <2>4, <2>5, RowHasRoom DEF w, L, CellOf
<1> QED
  BY <1>1, <1>2

\* The pieces of what as_string writes are the texts of the cells.
LEMMA AsStringPieces ==
    ASSUME NEW b \in Board
    PROVE  /\ AsString(b) \in Seq(Characters)
           /\ Len(Pieces(AsString(b))) = NumCells
           /\ \A k \in Cells : Pieces(AsString(b))[k] = CellText(b[k])
<1> DEFINE N == NumCells
           C == Characters
           parts == CellTexts(b)
           e == <<>>
<1>1. N \in Nat \ {0} /\ Cells = 1..N
  BY CellsType
<1>2. \A k \in Cells : b[k] \in Seq(Letters)
  BY DEF Board
<1>3. \A k \in Cells : /\ CellText(b[k]) \in Seq(C)
                       /\ \A i \in 1..Len(CellText(b[k])) : CellText(b[k])[i] # Space
  BY <1>2, CellTextIs
<1>4. Space \in C
  BY DEF Characters
<1> HIDE DEF C
<1>5. \A k \in Cells : (IF k = N THEN CellText(b[k]) ELSE Append(CellText(b[k]), Space)) \in Seq(C)
  BY <1>3, <1>4, AppendProperties
<1>6. parts \in [1..N -> Seq(C)]
  BY <1>1, <1>5 DEF CellTexts
<1>7. \A k \in Cells : parts[k] = IF k = N THEN CellText(b[k]) ELSE Append(CellText(b[k]), Space)
  BY DEF CellTexts
<1>8. AsString(b) = FlattenSeq(parts)
  BY DEF AsString, CellTexts
<1> HIDE DEF parts, N
<1>9. parts \in Seq(Seq(C)) /\ Len(parts) = N
  <2>1. parts \in Seq(Seq(C))
    BY ONLY <1>1, <1>6, FunctionIsSeq
  <2>2. Len(parts) \in Nat /\ DOMAIN parts = 1..Len(parts)
    BY <2>1, LenProperties
  <2>3. 1..Len(parts) = 1..N
    BY <1>6, <2>2
  <2>4. Len(parts) = N
    BY ONLY <1>1, <2>2, <2>3, SameInterval
  <2> QED
    BY <2>1, <2>4
<1>10. PICK f : /\ f \in [0..N -> Seq(C)]
                /\ f[0] = <<>>
                /\ \A j \in 1..N : f[j] = f[j - 1] \o parts[j]
                /\ FlattenSeq(parts) = f[N]
  BY <1>9, FlattenIs
<1> DEFINE Holds(p, k) == /\ Len(p) = IF k = N THEN N ELSE k + 1
                          /\ \A j \in 1..k : p[j] = CellText(b[j])
                          /\ k # N => p[k + 1] = e
           T == {k \in 0..N : Holds(Pieces(f[k]), k)}
<1>11. 0 \in T
  <2> DEFINE t == <<>>
             p == <<e>>
  <2>1. t \in Seq(C) /\ Len(t) = 0
    BY EmptySeq
  <2>2. PiecesUpTo(t)[0] = p
    BY <2>1, PiecesUpToIs
  <2>3. Pieces(t) = p
    BY <2>1, <2>2 DEF Pieces
  <2>4. Len(p) = 1 /\ p[1] = e
    OBVIOUS
  <2>5. 0 # N /\ 0 \in 0..N /\ 0 + 1 = 1 /\ 1..0 = {}
    BY <1>1
  <2> HIDE DEF t, p, e
  <2>6. Holds(p, 0)
    BY <2>4, <2>5
  <2>7. f[0] = t
    BY <1>10 DEF t
  <2> HIDE DEF Holds
  <2> QED
    BY <2>3, <2>5, <2>6, <2>7
<1>12. ASSUME NEW k \in 1..N, k - 1 \in T PROVE k \in T
  <2> DEFINE t == f[k - 1]
             w == CellText(b[k])
             p == Pieces(t)
             u == t \o w
             q == Pieces(u)
             i == k - 1
  <2>1. /\ i \in 0..N /\ i # N /\ i + 1 = k /\ k \in Nat \ {0} /\ k \in Cells /\ k \in 0..N
        /\ \A j \in 1..k : j = k \/ j \in 1..i
    BY <1>1
  <2>2. t \in Seq(C) /\ w \in Seq(C) /\ \A j \in 1..Len(w) : w[j] # Space
    BY <1>3, <1>10, <2>1
  <2>3. Len(p) = k /\ p[k] = e /\ \A j \in 1..i : p[j] = CellText(b[j])
    BY <1>12, <2>1
  <2> HIDE DEF t, w, i
  <2>4. Len(q) = k /\ q[k] = w /\ \A j \in 1..i : q[j] = p[j]
    <3>1. /\ Len(q) = Len(p)
          /\ \A j \in 1..(Len(p) - 1) : q[j] = p[j]
          /\ q[Len(p)] = w
      BY <2>2, <2>3, PiecesWord DEF e
    <3> HIDE DEF p, q
    <3> QED
      BY <2>3, <3>1 DEF i
  <2>5. u \in Seq(C)
    BY <2>2, ConcatProperties
  <2> HIDE DEF p
  <2>6. \A j \in 1..k : q[j] = CellText(b[j])
    BY <2>1, <2>3, <2>4 DEF w
  <2> HIDE DEF q, e
  <2>7. CASE k = N
    <3>1. f[k] = u
      BY <1>7, <1>10, <2>1, <2>7 DEF t, w
    <3>2. Holds(q, k)
      BY <2>4, <2>6, <2>7
    <3> HIDE DEF Holds, u
    <3> QED
      BY <2>1, <3>1, <3>2 DEF q
  <2>8. CASE k # N
    <3>1. f[k] = t \o Append(w, Space)
      BY <1>7, <1>10, <2>1, <2>8 DEF t, w
    <3>2. f[k] = Append(u, Space)
      BY <1>4, <2>2, <3>1, ConcatAppend
    <3> HIDE DEF u
    <3>3. Pieces(f[k]) = WithNext(q, Space)
      BY <1>4, <2>5, <3>2, PiecesAppend DEF q
    <3>4. q \in PieceSeqs(C)
      BY <2>5, PiecesType DEF q
    <3> DEFINE r == WithNext(q, Space)
               s == Space
    <3>5. s \in C
      BY <1>4
    <3>6. s = Space => /\ Len(WithNext(q, s)) = Len(q) + 1
                       /\ WithNext(q, s)[Len(q)] = q[Len(q)]
                       /\ WithNext(q, s)[Len(q) + 1] = <<>>
      <4> HIDE DEF s
      <4> QED
        BY ONLY <3>4, <3>5, WithNextIs
    <3>7. \A j \in 1..(Len(q) - 1) : WithNext(q, s)[j] = q[j]
      <4> HIDE DEF s
      <4> QED
        BY ONLY <3>4, <3>5, WithNextKeeps
    <3>8. Len(r) = k + 1 /\ r[k + 1] = e /\ \A j \in 1..k : r[j] = q[j]
      <4>1. \A j \in 1..k : j = k \/ j \in 1..(k - 1)
        BY <2>1
      <4> HIDE DEF r
      <4>2. Len(r) = Len(q) + 1 /\ r[Len(q)] = q[Len(q)] /\ r[Len(q) + 1] = e
        BY <3>6 DEF r, e
      <4>3. \A j \in 1..(Len(q) - 1) : r[j] = q[j]
        BY <3>7 DEF r
      <4> QED
        BY <2>4, <4>1, <4>2, <4>3
    <3> HIDE DEF r
    <3>9. Holds(r, k)
      BY <2>6, <2>8, <3>8
    <3> HIDE DEF Holds
    <3> QED
      BY <2>1, <3>3, <3>9 DEF r
  <2> QED
    BY <2>7, <2>8
<1>13. \A k \in 0..N : k \in T
  <2> HIDE DEF T
  <2> QED
    BY ONLY <1>1, <1>11, <1>12, StepsUp
<1>14. Holds(Pieces(f[N]), N)
  <2>1. N \in 0..N
    BY <1>1
  <2> HIDE DEF Holds
  <2> QED
    BY <1>13, <2>1
<1>15. f[N] \in Seq(C)
  BY <1>1, <1>10
<1> QED
  BY <1>1, <1>8, <1>10, <1>14, <1>15 DEF N, C

\* as_string is text that ParseBoard takes back for the same class.
LEMMA AsStringIs ==
    ASSUME NEW b \in Board
    PROVE  /\ AsString(b) \in Seq(Characters)
           /\ ClassNamed(AsString(b)) = b
           /\ NothingHidden(Pieces(AsString(b)))
           /\ (\A k \in Cells : Len(b[k]) < CellSize) => Legal(AsString(b))
<1> DEFINE p == Pieces(AsString(b))
<1>1. /\ AsString(b) \in Seq(Characters) /\ Len(p) = NumCells
      /\ \A k \in Cells : p[k] = CellText(b[k])
  BY AsStringPieces
<1>2. \A k \in Cells : b[k] \in Seq(Letters)
  BY DEF Board
<1>3. p \in Seq(Seq(Characters))
  BY <1>1, PiecesType DEF PieceSeqs
<1>4. DOMAIN p = Cells
  BY <1>1, <1>3, LenProperties, CellsType
<1>5. \A k \in Cells : /\ p[k] # <<>> /\ CellOf(p[k]) = b[k]
                       /\ HasDot(p[k]) => Len(p[k]) = 1
                       /\ Len(b[k]) < CellSize => GoodPiece(p[k])
  BY <1>1, <1>2, CellTextIs
<1>6. NothingHidden(p)
  <2> HIDE DEF p
  <2> QED
    BY <1>4, <1>5 DEF NothingHidden
<1>7. ClassNamed(AsString(b)) = b
  <2>1. ClassNamed(AsString(b)) = [k \in Cells |-> CellOf(p[k])]
    BY DEF ClassNamed, CellOf
  <2>2. b = [k \in Cells |-> b[k]]
    BY DEF Board
  <2>3. \A k \in Cells : CellOf(p[k]) = b[k]
    BY <1>5
  <2> HIDE DEF p
  <2> QED
    BY <2>1, <2>2, <2>3
<1>8. (\A k \in Cells : Len(b[k]) < CellSize) => Legal(AsString(b))
  <2>1. Legal(AsString(b)) <=>
          Len(p) = NumCells /\ \A k \in Cells : p[k] # <<>> /\ GoodPiece(p[k])
    BY DEF Legal, GoodPiece
  <2> HIDE DEF p
  <2> QED
    BY <1>1, <1>5, <2>1
<1> QED
  BY <1>1, <1>6, <1>7, <1>8

\* The class of a text that parses has room.
LEMMA ClassRoom ==
    ASSUME NEW C, NEW t \in Seq(C), Legal(t)
    PROVE  \A k \in Cells : Len(ClassNamed(t)[k]) < CellSize
<1> DEFINE p == Pieces(t)
<1>1. p \in Seq(Seq(C)) /\ Len(p) = NumCells
  BY PiecesType DEF PieceSeqs, Legal
<1> SUFFICES ASSUME NEW k \in Cells PROVE Len(ClassNamed(t)[k]) < CellSize
  OBVIOUS
<1> DEFINE x == p[k]
           l == Len(x)
<1>2. x \in Seq(C)
  BY <1>1, ElementOfSeq, CellsType
<1>3. x # <<>> /\ Fits(x)
  BY DEF Legal
<1>4. ClassNamed(t)[k] = IF HasDot(x) THEN <<>> ELSE x
  BY DEF ClassNamed
<1>5. l \in Nat \ {0}
  BY <1>2, <1>3, EmptySeq
<1> HIDE DEF p, x
<1>6. CASE HasDot(x)
  <2>1. Len(<<>>) = 0
    BY EmptySeq
  <2> QED
    BY <1>4, <1>6, <2>1, RowHasRoom
<1>7. CASE ~HasDot(x)
  <2>1. \A n \in 1..l : x[n] # Dot
    BY <1>2, <1>7, HasDotIs
  <2>2. \A i, j \in 1..l : i <= j /\ (\A n \in i..j : x[n] # Dot)
           => (j - i + 1) + (IF i > 1 THEN 1 ELSE 0) < CellSize
    BY <1>2, <1>3, FitsIs
  <2> HIDE DEF l
  <2>3. 1 \in 1..l /\ l \in 1..l /\ 1 <= l
    BY <1>5
  <2>4. (l - 1 + 1) + (IF 1 > 1 THEN 1 ELSE 0) < CellSize
    BY <2>1, <2>2, <2>3
  <2>5. l < CellSize
    BY <1>5, <2>4, RowHasRoom
  <2> QED
    BY <1>4, <1>7, <2>5 DEF l
<1> QED
  BY <1>6, <1>7

\* What ParseBoard makes of what as_string wrote.
LEMMA ReadsBack ==
    ASSUME NEW rows \in [Cells -> CellRow], NEW b \in Board
    PROVE  LET s == Parse(rows, AsString(b))
           IN  /\ s.rows \in [Cells -> CellRow]
               /\ s.indices \in [Cells -> IndexRow]
               /\ s.failed \in BOOLEAN
               /\ ~s.failed => ClassIn(s.rows) = b /\ NumbersOf(b, s.indices)
               /\ (\A k \in Cells : Len(b[k]) < CellSize) => ~s.failed
<1> DEFINE t == AsString(b)
           s == Parse(rows, t)
<1>1. /\ t \in Seq(Characters) /\ ClassNamed(t) = b /\ NothingHidden(Pieces(t))
      /\ (\A k \in Cells : Len(b[k]) < CellSize) => Legal(t)
  BY AsStringIs
<1> HIDE DEF t
<1>2. /\ s.rows \in [Cells -> CellRow]
      /\ s.indices \in [Cells -> IndexRow]
      /\ s.failed \in BOOLEAN
      /\ ~s.failed <=> Legal(t)
      /\ Legal(t) => /\ ClassIn(s.rows) = ClassNamed(t)
                     /\ NothingHidden(Pieces(t)) => NumbersOf(ClassNamed(t), s.indices)
  BY <1>1, ParseIs
<1> HIDE DEF s
<1>3. /\ s.rows \in [Cells -> CellRow]
      /\ s.indices \in [Cells -> IndexRow]
      /\ s.failed \in BOOLEAN
      /\ ~s.failed => ClassIn(s.rows) = b /\ NumbersOf(b, s.indices)
      /\ (\A k \in Cells : Len(b[k]) < CellSize) => ~s.failed
  BY <1>1, <1>2
<1> QED
  BY <1>3 DEF s, t

\* A class whose cells have room for their letters is what ParseBoard makes of
\* its as_string, whatever was in the rows before.
THEOREM EveryClassReadsBack ==
    ASSUME NEW rows \in [Cells -> CellRow], NEW b \in Board,
           \A k \in Cells : Len(b[k]) < CellSize
    PROVE  ~Parse(rows, AsString(b)).failed /\ ClassIn(Parse(rows, AsString(b)).rows) = b
  BY ReadsBack

-----------------------------------------------------------------------------
(* The numbers of the letters. *)

\* The first cell at which the letters counted through pass i has letter i.
LEMMA PossibilityIs ==
    ASSUME NEW b \in Board, NEW i \in 0..(NumPossibilities(b) - 1), NEW indices,
           NumbersOf(b, indices)
    PROVE  LET at == Possibility(b, i)
           IN  indices[at[1]][at[2] + 1] = i
<1> DEFINE N == NumCells
           L == LettersUpTo(b)
           First(k) == L[k] > i /\ \A j \in 1..(k - 1) : L[j] <= i
           first == CHOOSE k \in Cells : First(k)
           T == {k \in Cells : L[k] > i}
<1>1. N \in Nat \ {0} /\ Cells = 1..N
  BY CellsType
<1>2. /\ L \in [0..N -> Nat] /\ L[0] = 0
      /\ \A k \in Cells : L[k] = L[k - 1] + Len(b[k]) /\ Len(b[k]) \in Nat
  BY LettersUpToIs
<1>3. i \in Nat /\ L[N] > i
  <2>1. NumPossibilities(b) = L[N]
    BY DEF NumPossibilities
  <2>2. L[N] \in Nat
    BY <1>1, <1>2
  <2> HIDE DEF L
  <2> QED
    BY <2>1, <2>2
<1>4. Possibility(b, i) = <<first, i - L[first - 1]>>
  BY DEF Possibility
<1> HIDE DEF L, N
<1>5. T \subseteq Nat /\ T # {}
  BY <1>1, <1>3
<1>6. PICK k \in T : \A j \in T : k <= j
  <2> HIDE DEF T
  <2> QED
    BY ONLY <1>5, LeastElement
<1>7. k \in Cells /\ First(k)
  <2>1. \A j \in 1..(k - 1) : j \in Cells /\ ~(k <= j) /\ j \in 0..N
    BY <1>1, <1>6
  <2>2. \A j \in 1..(k - 1) : ~(L[j] > i) /\ L[j] \in Nat
    BY <1>2, <1>6, <2>1
  <2> QED
    BY <1>3, <1>6, <2>2
<1>8. first \in Cells /\ First(first)
  BY <1>7
<1> HIDE DEF first
<1> DEFINE prev == first - 1
           n == i - L[prev]
<1>9. prev \in 0..N /\ (prev = 0 \/ prev \in 1..prev)
  BY <1>1, <1>8
<1>10. L[prev] \in Nat /\ L[prev] <= i
  BY <1>2, <1>3, <1>8, <1>9
<1>11. L[first] = L[prev] + Len(b[first]) /\ Len(b[first]) \in Nat /\ L[first] > i
  BY <1>2, <1>8
<1> HIDE DEF prev
<1>12. n + 1 \in 1..Len(b[first])
  BY <1>3, <1>10, <1>11
<1>13. indices[first][n + 1] = L[prev] + (n + 1) - 1
  BY <1>8, <1>12 DEF NumbersOf, prev, L
<1>14. L[prev] + (n + 1) - 1 = i
  BY <1>3, <1>10
<1> QED
  BY <1>4, <1>13, <1>14 DEF prev

-----------------------------------------------------------------------------
(* The steps of the callers. *)

\* The rows hold a class, whatever is in them.
LEMMA ClassInType ==
    ASSUME NEW rows \in [Cells -> CellRow]
    PROVE  ClassIn(rows) \in Board
  BY CellStringType DEF ClassIn, Board

\* strcpy leaves a row of letters and NULs.
LEMMA StrCpyType ==
    ASSUME NEW row \in CellRow, NEW s \in Seq(Letters)
    PROVE  StrCpy(row, s) \in CellRow
<1>1. Len(s) \in Nat /\ \A i \in 1..Len(s) : s[i] \in Letters
  BY LenProperties, ElementOfSeq
<1>2. ASSUME NEW p \in Positions, p < Len(s) PROVE s[p + 1] \in Letters
  <2>1. p + 1 \in 1..Len(s)
    BY <1>1, <1>2, RowHasRoom
  <2> QED
    BY <1>1, <2>1
<1>3. \A p \in Positions : row[p] \in Letters \cup {NUL}
  BY DEF CellRow
<1> QED
  BY <1>2, <1>3 DEF StrCpy, CellRow

\* What the loads, splits and restores keep.  What as_string wrote is text that
\* ParseBoard reads back as the same class; that makes Restore undo the splits.
BoardInv ==
    /\ BoardTypeOK
    /\ parsed <=> Legal(text)
    /\ caller = "solve" /\ checked => parsed
    /\ caller = "exit" => ~parsed
    /\ caller = "solve" => \E b \in Board : orig_bd = AsString(b)
    /\ caller = "solve" /\ narrowed = {} => AsString(ClassIn(bd_)) = orig_bd
    /\ parsed => /\ orig_bd = AsString(ClassNamed(text))
                 /\ \A k \in Cells \ narrowed : CellString(bd_[k]) = ClassNamed(text)[k]
                 /\ NothingHidden(Pieces(text)) => NumbersOf(ClassNamed(text), indices_)

\* A text without characters names no class.
LEMMA EmptyNotLegal == ASSUME NEW e, e = <<>> PROVE ~Legal(e)
<1> DEFINE p == <<e>>
<1>1. e \in Seq(Letters) /\ Len(e) = 0
  BY EmptySeq
<1>2. PiecesUpTo(e)[0] = p
  BY <1>1, PiecesUpToIs
<1>3. Pieces(e) = p
  BY <1>1, <1>2 DEF Pieces
<1>4. p[1] = e /\ 1 \in Cells
  BY CellsType
<1> HIDE DEF p
<1> QED
  BY <1>3, <1>4 DEF Legal

\* The memory that bd_ comes from is no class that was parsed.
LEMMA BoardInvInit == BoardInit => BoardInv
<1> SUFFICES ASSUME BoardInit PROVE BoardInv
  OBVIOUS
<1>1. bd_ \in [Cells -> CellRow]
  <2> DEFINE nuls == [p \in Positions |-> NUL]
  <2>1. PICK s \in {<<>>} \cup {<<c>> : c \in Letters} : bd_ = [k \in Cells |-> StrCpy(nuls, s)]
    BY DEF BoardInit
  <2>2. s \in Seq(Letters)
    <3>1. <<>> \in Seq(Letters)
      BY EmptySeq
    <3>2. \A c \in Letters : <<c>> \in Seq(Letters)
      OBVIOUS
    <3> QED
      BY <3>1, <3>2
  <2>3. nuls \in CellRow
    BY DEF CellRow
  <2> HIDE DEF nuls
  <2> QED
    BY <2>1, <2>2, <2>3, StrCpyType
<1>2. indices_ \in [Cells -> [0..31 -> Nat \cup {NoIndex}]]
  <2> DEFINE none == [p \in 0..31 |-> NoIndex]
  <2>1. none \in [0..31 -> Nat \cup {NoIndex}] /\ indices_ = [k \in Cells |-> none]
    BY DEF BoardInit
  <2> HIDE DEF none
  <2> QED
    BY <2>1
<1>3. BoardTypeOK
  <2>1. orig_bd \in Seq(Letters \cup {Dot, Space})
    BY EmptySeq DEF BoardInit
  <2>2. 0 \in 0..MaxLoads
    BY TextsAssumption
  <2>3. /\ caller = "idle" /\ loads = 0 /\ text = <<>> /\ parsed = FALSE
        /\ checked = FALSE /\ narrowed = {}
    BY DEF BoardInit
  <2> QED
    BY <1>1, <1>2, <2>1, <2>2, <2>3 DEF BoardTypeOK
<1>4. ~Legal(text)
  BY EmptyNotLegal DEF BoardInit
<1> QED
  BY <1>3, <1>4 DEF BoardInv, BoardInit

\* A parse of a new text.
LEMMA LoadIs ==
    ASSUME BoardInv, NEW t \in Texts, Load(t)
    PROVE  /\ bd_' \in [Cells -> CellRow]
           /\ indices_' \in [Cells -> IndexRow]
           /\ loads' \in 0..MaxLoads /\ text' = t /\ narrowed' = {}
           /\ parsed' \in BOOLEAN /\ (parsed' <=> Legal(t))
           /\ parsed' <=> ~Parse(bd_, t).failed
           /\ orig_bd' = AsString(ClassIn(bd_')) /\ ClassIn(bd_') \in Board
           /\ Legal(t) => /\ ClassIn(bd_') = ClassNamed(t)
                          /\ NothingHidden(Pieces(t)) => NumbersOf(ClassNamed(t), indices_')
<1> DEFINE s == Parse(bd_, t)
<1>1. bd_ \in [Cells -> CellRow] /\ loads \in 0..MaxLoads
  BY DEF BoardInv, BoardTypeOK
<1>2. t \in Seq(ToSet(t)) /\ MaxLoads \in Nat
  BY TextsAssumption
<1>3. /\ s.rows \in [Cells -> CellRow]
      /\ s.indices \in [Cells -> IndexRow]
      /\ s.failed \in BOOLEAN
      /\ ~s.failed <=> Legal(t)
      /\ Legal(t) => /\ ClassIn(s.rows) = ClassNamed(t)
                     /\ NothingHidden(Pieces(t)) => NumbersOf(ClassNamed(t), s.indices)
  BY <1>1, <1>2, ParseIs
<1>4. /\ loads < MaxLoads /\ loads' = loads + 1 /\ bd_' = s.rows /\ indices_' = s.indices
      /\ text' = t /\ parsed' = ~s.failed /\ orig_bd' = AsString(ClassIn(s.rows))
      /\ narrowed' = {}
  BY DEF Load
<1> HIDE DEF s
<1>5. ClassIn(bd_') \in Board
  BY <1>3, <1>4, ClassInType
<1>6. loads' \in 0..MaxLoads
  BY <1>1, <1>2, <1>4
<1> QED
  BY <1>3, <1>4, <1>5, <1>6 DEF s

\* A parse of a new text keeps BoardInv, whether or not the caller looks at it.
LEMMA LoadKeeps ==
    ASSUME BoardInv, NEW t \in Texts, Load(t), NEW c,
           caller' = c, c \in {"idle", "solve", "exit"}, checked' \in BOOLEAN,
           c = "solve" /\ checked' => parsed', c = "exit" => ~parsed'
    PROVE  BoardInv'
<1>1. /\ bd_' \in [Cells -> CellRow]
      /\ indices_' \in [Cells -> IndexRow]
      /\ loads' \in 0..MaxLoads /\ text' = t /\ narrowed' = {}
      /\ parsed' \in BOOLEAN /\ (parsed' <=> Legal(t))
      /\ orig_bd' = AsString(ClassIn(bd_')) /\ ClassIn(bd_') \in Board
      /\ Legal(t) => /\ ClassIn(bd_') = ClassNamed(t)
                     /\ NothingHidden(Pieces(t)) => NumbersOf(ClassNamed(t), indices_')
  BY LoadIs
<1>2. orig_bd' \in Seq(Letters \cup {Dot, Space})
  BY <1>1, AsStringIs DEF Characters
<1>3. BoardTypeOK'
  BY <1>1, <1>2 DEF BoardTypeOK, IndexRow
<1>4. Legal(t) => \A k \in Cells : CellString(bd_[k])' = ClassNamed(t)[k]
  BY <1>1 DEF ClassIn
<1>5. /\ (Legal(text) <=> Legal(t))'
      /\ (ClassNamed(text))' = ClassNamed(t)
      /\ (Pieces(text))' = Pieces(t)
  BY <1>1
<1> QED
  BY <1>1, <1>3, <1>4, <1>5 DEF BoardInv

\* Every step of a caller keeps BoardInv.
LEMMA BoardInvNext == BoardInv /\ [BoardNext]_boardVars => BoardInv'
<1> SUFFICES ASSUME BoardInv, [BoardNext]_boardVars PROVE BoardInv'
  OBVIOUS
<1>1. /\ caller \in {"idle", "solve", "exit"}
      /\ bd_ \in [Cells -> CellRow]
      /\ indices_ \in [Cells -> IndexRow]
      /\ loads \in 0..MaxLoads /\ text \in Texts \cup {<<>>}
      /\ parsed \in BOOLEAN /\ checked \in BOOLEAN
      /\ orig_bd \in Seq(Letters \cup {Dot, Space}) /\ narrowed \subseteq Cells
  BY DEF BoardInv, BoardTypeOK, IndexRow
<1>2. ASSUME LoadChecked PROVE BoardInv'
  <2>1. PICK t \in Texts : Load(t) /\ caller' = AfterChecked(t)
    BY <1>2 DEF LoadChecked
  <2>2. checked' = TRUE
    BY <1>2 DEF LoadChecked
  <2>3. (parsed' <=> ~Parse(bd_, t).failed) /\ parsed' \in BOOLEAN
    BY <2>1, LoadIs
  <2> DEFINE c == AfterChecked(t)
  <2>4. c = IF parsed' THEN "solve" ELSE "exit"
    BY <2>3 DEF AfterChecked
  <2> HIDE DEF c
  <2>5. /\ c \in {"idle", "solve", "exit"} /\ (c = "exit" => ~parsed')
        /\ (c = "solve" /\ checked' => parsed')
    BY <2>3, <2>4
  <2>6. caller' = c
    BY <2>1 DEF c
  <2> QED
    BY <2>1, <2>2, <2>5, <2>6, LoadKeeps
<1>3. ASSUME LoadUnchecked PROVE BoardInv'
  <2>1. PICK t \in Texts : Load(t)
    BY <1>3 DEF LoadUnchecked
  <2> DEFINE c == "solve"
  <2>2. caller' = c /\ checked' = FALSE
    BY <1>3 DEF LoadUnchecked
  <2>3. c \in {"idle", "solve", "exit"} /\ c # "exit" /\ checked' \in BOOLEAN /\ ~checked'
    BY <2>2
  <2> HIDE DEF c
  <2>4. caller' = c /\ (c = "solve" /\ checked' => parsed') /\ (c = "exit" => ~parsed')
    BY <2>2, <2>3
  <2> QED
    BY <2>1, <2>3, <2>4, LoadKeeps
<1>4. ASSUME Narrow PROVE BoardInv'
  <2>1. /\ caller = "solve"
        /\ UNCHANGED <<caller, indices_, loads, text, parsed, checked, orig_bd>>
    BY <1>4 DEF Narrow
  <2>2. PICK k \in Cells : \E n \in 1..Len(CellString(bd_[k])) :
            /\ bd_' = [bd_ EXCEPT ![k] = StrCpy(@, <<CellString(bd_[k])[n]>>)]
            /\ narrowed' = narrowed \cup {k}
    BY <1>4 DEF Narrow
  <2>3. PICK n \in 1..Len(CellString(bd_[k])) :
            /\ bd_' = [bd_ EXCEPT ![k] = StrCpy(@, <<CellString(bd_[k])[n]>>)]
            /\ narrowed' = narrowed \cup {k}
    BY <2>2
  <2> DEFINE x == CellString(bd_[k])
             row == StrCpy(bd_[k], <<x[n]>>)
  <2>4. x[n] \in Letters
    <3>1. x \in Seq(Letters)
      BY <1>1, CellStringType
    <3> QED
      BY <3>1, ElementOfSeq
  <2>5. row \in CellRow
    <3> DEFINE one == <<x[n]>>
               old == bd_[k]
    <3>1. one \in Seq(Letters) /\ old \in CellRow
      BY <1>1, <2>4
    <3> HIDE DEF one, old
    <3>2. StrCpy(old, one) \in CellRow
      BY <3>1, StrCpyType
    <3> QED
      BY <3>2 DEF one, old
  <2>6. bd_' = [bd_ EXCEPT ![k] = row]
    BY <1>1, <2>3
  <2> HIDE DEF row
  <2>7. bd_' \in [Cells -> CellRow] /\ \A j \in Cells : j # k => bd_'[j] = bd_[j]
    BY <1>1, <2>5, <2>6
  <2>8. narrowed' = narrowed \cup {k} /\ narrowed' # {} /\ narrowed' \subseteq Cells
    BY <1>1, <2>3
  <2>9. BoardTypeOK'
    BY <1>1, <2>1, <2>7, <2>8 DEF BoardTypeOK, IndexRow
  <2>10. parsed => \A j \in Cells \ narrowed' : CellString(bd_'[j]) = ClassNamed(text)[j]
    BY <2>7, <2>8 DEF BoardInv
  <2>11. (\E b \in Board : orig_bd = AsString(b))
    BY <2>1 DEF BoardInv
  <2> QED
    BY <2>1, <2>8, <2>9, <2>10, <2>11 DEF BoardInv
<1>5. ASSUME Restore PROVE BoardInv'
  <2> DEFINE s == Parse(bd_, orig_bd)
  <2>1. /\ caller = "solve" /\ caller' = (IF s.failed THEN "exit" ELSE caller)
        /\ bd_' = s.rows /\ indices_' = s.indices /\ narrowed' = {}
        /\ UNCHANGED <<loads, text, parsed, checked, orig_bd>>
    BY <1>5 DEF Restore
  <2>2. PICK b \in Board : orig_bd = AsString(b)
    BY <2>1 DEF BoardInv
  <2>3. /\ s.rows \in [Cells -> CellRow] /\ s.indices \in [Cells -> IndexRow]
        /\ s.failed \in BOOLEAN
        /\ ~s.failed => ClassIn(s.rows) = b /\ NumbersOf(b, s.indices)
        /\ (\A k \in Cells : Len(b[k]) < CellSize) => ~s.failed
    BY <1>1, <2>2, ReadsBack
  <2> HIDE DEF s
  <2>4. parsed => /\ ~s.failed /\ b = ClassNamed(text)
    <3>1. SUFFICES ASSUME parsed PROVE ~s.failed /\ b = ClassNamed(text)
      OBVIOUS
    <3>2. Legal(text) /\ orig_bd = AsString(ClassNamed(text))
      BY <3>1 DEF BoardInv
    <3>3. PICK C : text \in Seq(C)
      <4>1. CASE text \in Texts
        BY <4>1, TextsAssumption
      <4>2. CASE text = <<>>
        <5>1. <<>> \in Seq(Letters)
          BY EmptySeq
        <5> QED
          BY <4>2, <5>1
      <4> QED
        BY <1>1, <4>1, <4>2
    <3>4. ClassNamed(text) \in Board
      BY <1>1, <3>2, <3>3, ParseIs
    <3>5. b = ClassNamed(text)
      <4>1. ClassNamed(AsString(b)) = b
        BY AsStringIs
      <4>2. ClassNamed(AsString(ClassNamed(text))) = ClassNamed(text)
        BY <3>4, AsStringIs
      <4> QED
        BY <2>2, <3>2, <4>1, <4>2
    <3>6. \A k \in Cells : Len(b[k]) < CellSize
      BY <3>2, <3>3, <3>5, ClassRoom
    <3> QED
      BY <2>3, <3>5, <3>6
  <2>5. caller' \in {"solve", "exit"} /\ (caller' = "exit" <=> s.failed)
    BY <2>1, <2>3
  <2>6. BoardTypeOK'
    BY <1>1, <2>1, <2>3, <2>5 DEF BoardTypeOK, IndexRow
  <2>7. caller' = "solve" => AsString(ClassIn(bd_')) = orig_bd
    BY <2>1, <2>2, <2>3, <2>5
  <2>8. parsed => /\ \A k \in Cells : CellString(bd_'[k]) = ClassNamed(text)[k]
                  /\ NumbersOf(ClassNamed(text), indices_')
    <3>1. parsed => ClassIn(bd_') = ClassNamed(text) /\ NumbersOf(ClassNamed(text), indices_')
      BY <2>1, <2>3, <2>4
    <3> QED
      BY <3>1 DEF ClassIn
  <2>9. /\ parsed <=> Legal(text)
        /\ checked => parsed
        /\ parsed => orig_bd = AsString(ClassNamed(text))
    BY <2>1 DEF BoardInv
  <2>10. caller' = "exit" => ~parsed
    BY <2>4, <2>5
  <2>11. /\ loads' = loads /\ text' = text /\ parsed' = parsed /\ checked' = checked
         /\ orig_bd' = orig_bd /\ narrowed' = {}
    BY <2>1
  <2>12. /\ (Legal(text))' <=> Legal(text)
         /\ (ClassNamed(text))' = ClassNamed(text)
         /\ (Pieces(text))' = Pieces(text)
    BY <2>11
  <2> QED
    BY <2>2, <2>6, <2>7, <2>8, <2>9, <2>10, <2>11, <2>12 DEF BoardInv
<1>6. ASSUME Return PROVE BoardInv'
  <2>1. /\ caller' = "idle"
        /\ UNCHANGED <<bd_, indices_, loads, text, parsed, checked, orig_bd, narrowed>>
    BY <1>6 DEF Return
  <2>2. BoardTypeOK'
    BY <1>1, <2>1 DEF BoardTypeOK, IndexRow
  <2> QED
    BY <2>1, <2>2 DEF BoardInv
<1>7. ASSUME UNCHANGED boardVars PROVE BoardInv'
  BY <1>7 DEF boardVars, BoardInv, BoardTypeOK
<1> QED
  BY <1>2, <1>3, <1>4, <1>5, <1>6, <1>7 DEF BoardNext

\* Whatever texts the callers of ParseBoard load, whatever SplitBucket narrows and
\* restores, BoardInv holds.
THEOREM BoardInvariant == BoardSpec => []BoardInv
<1>1. BoardInit => BoardInv
  BY BoardInvInit
<1>2. BoardInv /\ [BoardNext]_boardVars => BoardInv'
  BY BoardInvNext
<1> QED
  BY <1>1, <1>2, PTL DEF BoardSpec

\* ParseBoard takes the texts that name a class that fits, and no others.
THEOREM ParsesTheClasses == BoardSpec => []ParseExact
<1>1. BoardInv => ParseExact
  <2> SUFFICES ASSUME BoardInv PROVE ParseExact
    OBVIOUS
  <2>1. ASSUME parsed, narrowed = {} PROVE ClassIn(bd_) = ClassNamed(text)
    <3>1. \A k \in Cells : CellString(bd_[k]) = ClassNamed(text)[k]
      BY <2>1 DEF BoardInv
    <3> QED
      BY <3>1 DEF ClassIn, ClassNamed
  <2> QED
    BY <2>1 DEF BoardInv, ParseExact
<1> QED
  BY <1>1, BoardInvariant, PTL

\* No caller that looks at what ParseBoard returns works on a mixture of two
\* classes; the modes that do not look do so only for a text that names none.
THEOREM CheckedWorkIsOfTheClass == BoardSpec => []WorksOnItsClass
<1>1. BoardInv => WorksOnItsClass
  BY DEF BoardInv, WorksOnItsClass, BoardTypeOK
<1> QED
  BY <1>1, BoardInvariant, PTL

\* SplitBucket reads its copy back, and it is the class that was copied.
THEOREM CopyIsRestored == BoardSpec => []RestoresCopy
<1>1. BoardInv => RestoresCopy
  BY DEF BoardInv, RestoresCopy
<1> QED
  BY <1>1, BoardInvariant, PTL

\* The numbers that ParseBoard puts into indices_ for PossibilityIndex are those
\* that Possibility counts by, one place late.
THEOREM NumbersAreOnePlaceLate == BoardSpec => []IndicesOnePlaceLate
<1>1. BoardInv => IndicesOnePlaceLate
  <2> SUFFICES ASSUME BoardInv, parsed, narrowed = {}, NothingHidden(Pieces(text)),
                      NEW i \in 0..(NumPossibilities(ClassIn(bd_)) - 1)
               PROVE  LET at == Possibility(ClassIn(bd_), i)
                      IN  indices_[at[1]][at[2] + 1] = i
    BY DEF IndicesOnePlaceLate
  <2> DEFINE b == ClassIn(bd_)
  <2>1. b \in Board
    BY ClassInType DEF BoardInv, BoardTypeOK
  <2>2. b = ClassNamed(text)
    <3>1. \A k \in Cells : CellString(bd_[k]) = ClassNamed(text)[k]
      BY DEF BoardInv
    <3> QED
      BY <3>1 DEF ClassIn, ClassNamed
  <2>3. NumbersOf(b, indices_)
    BY <2>2 DEF BoardInv
  <2> HIDE DEF b
  <2>4. i \in 0..(NumPossibilities(b) - 1)
    BY DEF b
  <2>5. LET at == Possibility(b, i) IN indices_[at[1]][at[2] + 1] = i
    BY <2>1, <2>3, <2>4, PossibilityIs
  <2> QED
    BY <2>5 DEF b
<1> QED
  BY <1>1, BoardInvariant, PTL

-----------------------------------------------------------------------------
(* What the tree is made of. *)

\* What is left of a sequence without the elements of a set; if they count
\* nothing, the sum is the same.
IsWithout(w, s, S, X, v) ==
    /\ w \in Seq(X)
    /\ ToSet(w) = ToSet(s) \ S
    /\ SeqSum(v, w) = SeqSum(v, s)

\* Without takes out the elements of S and no others, and no points with them.
LEMMA WithoutIs ==
    ASSUME NEW X, NEW s \in Seq(X), NEW S, NEW v \in [X -> Nat],
           \A x \in X : x \in S => v[x] = 0
    PROVE  IsWithout(Without(s, S), s, S, X, v)
<1> DEFINE N == Len(s)
           q == [i \in 1..N |-> IF s[i] \in S THEN <<>> ELSE <<s[i]>>]
           g == [i \in 1..N |-> v[s[i]]]
           e == <<>>
<1>1. N \in Nat /\ DOMAIN s = 1..N /\ (\A i \in 1..N : s[i] \in X)
      /\ e \in Seq(X) /\ Len(e) = 0
  BY LenProperties, ElementOfSeq, EmptySeq
<1>2. Without(s, S) = FlattenSeq(q)
  BY <1>1 DEF Without
<1>3. q \in Seq(Seq(X)) /\ Len(q) = N
  <2>1. \A i \in 1..N : q[i] \in Seq(X)
    BY <1>1
  <2>2. q \in [1..N -> Seq(X)]
    BY <2>1
  <2> HIDE DEF q, N
  <2>3. q \in Seq(Seq(X))
    BY <1>1, <2>2, FunctionIsSeq
  <2>4. DOMAIN q = 1..Len(q) /\ Len(q) \in Nat
    BY <2>3, LenProperties
  <2>5. DOMAIN q = 1..N
    BY <2>2
  <2> QED
    BY <1>1, <2>3, <2>4, <2>5, SameInterval
<1>4. \A i \in 1..N : q[i] = IF s[i] \in S THEN e ELSE <<s[i]>>
  OBVIOUS
<1> HIDE DEF q, e
<1>5. PICK f : /\ f \in [0..Len(q) -> Seq(X)]
               /\ f[0] = <<>>
               /\ \A j \in 1..Len(q) : f[j] = f[j - 1] \o q[j]
               /\ FlattenSeq(q) = f[Len(q)]
  BY <1>3, FlattenIs
<1>6. \A i \in 1..N : g[i] = v[s[i]] /\ g[i] \in Nat
  BY <1>1
<1> HIDE DEF N, g
<1> DEFINE T == {j \in 0..N : /\ ToSet(f[j]) = {s[i] : i \in 1..j} \ S
                              /\ SeqSum(v, f[j]) = SumOf(g, 1..j)}
<1>7. 0 \in T
  <2>1. 0 \in 0..N /\ 1..0 = {} /\ f[0] = e
    BY <1>1, <1>5 DEF e
  <2>2. ToSet(e) = {}
    <3>1. DOMAIN e = {}
      BY <1>1, LenProperties, <2>1
    <3> QED
      BY <3>1 DEF ToSet
  <2>3. SeqSum(v, e) = 0
    <3>1. 1..Len(e) = {}
      BY <1>1, <2>1
    <3> QED
      BY <3>1, SumEmpty DEF SeqSum
  <2>4. SumOf(g, 1..0) = 0
    BY <2>1, SumEmpty
  <2> QED
    BY <2>1, <2>2, <2>3, <2>4
<1>8. ASSUME NEW j \in 1..N, j - 1 \in T PROVE j \in T
  <2> DEFINE m == j - 1
             x == s[j]
  <2>1. /\ m \in 0..N /\ m \in T /\ j \in 0..N /\ 1..j = 1..m \cup {j} /\ j \notin 1..m
        /\ x \in X /\ \A i \in 1..m : i \in 1..N
    BY <1>1, <1>8
  <2> HIDE DEF m
  <2>2. f[m] \in Seq(X) /\ f[j] = f[m] \o q[j]
    BY <1>3, <1>5, <2>1 DEF m
  <2>3. ToSet(f[m]) = {s[i] : i \in 1..m} \ S /\ SeqSum(v, f[m]) = SumOf(g, 1..m)
    BY <2>1
  <2>4. SumOf(g, 1..j) = g[j] + SumOf(g, 1..m) /\ SumOf(g, 1..m) \in Nat
    <3> DEFINE D == 1..m
    <3>1. IsFiniteSet(D) /\ j \notin D /\ (\A i \in D \cup {j} : g[i] \in Nat)
          /\ 1..j = D \cup {j}
      <4>1. m \in Nat
        BY <1>1, <2>1
      <4>2. IsFiniteSet(1..m)
        BY <4>1, FS_Interval
      <4> QED
        BY <1>6, <2>1, <4>2
    <3> HIDE DEF D
    <3>2. SumOf(g, D \cup {j}) = g[j] + SumOf(g, D) /\ SumOf(g, D) \in Nat
      BY <3>1, SumAdd, SumNat
    <3> QED
      BY <3>1, <3>2 DEF D
  <2>5. {s[i] : i \in 1..j} = {s[i] : i \in 1..m} \cup {x}
    BY <2>1
  <2>6. g[j] = v[x] /\ q[j] = IF x \in S THEN e ELSE <<x>>
    BY <1>4, <1>6
  <2> HIDE DEF x
  <2>7. CASE x \in S
    <3>1. f[j] = f[m]
      BY <2>2, <2>6, <2>7, ConcatEmptySeq DEF e
    <3>2. v[x] = 0
      BY <2>1, <2>7
    <3>3. SumOf(g, 1..j) = SumOf(g, 1..m)
      BY <2>4, <2>6, <3>2
    <3>4. {s[i] : i \in 1..j} \ S = {s[i] : i \in 1..m} \ S
      BY <2>5, <2>7
    <3> QED
      BY <2>1, <2>3, <3>1, <3>3, <3>4
  <2>8. CASE x \notin S
    <3>1. f[j] = f[m] \o <<x>>
      BY <2>2, <2>6, <2>8
    <3>2. /\ ToSet(f[j]) = ToSet(f[m]) \cup {x}
          /\ SeqSum(v, f[j]) = SeqSum(v, f[m]) + v[x]
      BY <2>1, <2>2, <3>1, SeqSumOne
    <3>3. SeqSum(v, f[j]) = SumOf(g, 1..j)
      <4>1. g[j] \in Nat
        BY <1>6
      <4> QED
        BY <2>3, <2>4, <2>6, <3>2, <4>1
    <3>4. {s[i] : i \in 1..j} \ S = ({s[i] : i \in 1..m} \ S) \cup {x}
      BY <2>5, <2>8
    <3> QED
      BY <2>1, <2>3, <3>2, <3>3, <3>4
  <2> QED
    BY <2>7, <2>8
<1> HIDE DEF T
<1>9. N \in T
  <2>1. N \in 0..N
    BY <1>1
  <2> QED
    BY ONLY <1>1, <1>7, <1>8, <2>1, StepsUp
<1>10. ToSet(s) = {s[i] : i \in 1..N}
  BY <1>1 DEF ToSet
<1>11. SeqSum(v, s) = SumOf(g, 1..N)
  BY DEF SeqSum, g, N
<1> QED
  BY <1>1, <1>2, <1>3, <1>5, <1>9, <1>10, <1>11 DEF T, IsWithout

\* The same, without the points.
LEMMA WithoutType ==
    ASSUME NEW X, NEW s \in Seq(X), NEW S
    PROVE  Without(s, S) \in Seq(X) /\ ToSet(Without(s, S)) = ToSet(s) \ S
<1> DEFINE v == [x \in X |-> 0]
<1>1. v \in [X -> Nat] /\ \A x \in X : x \in S => v[x] = 0
  OBVIOUS
<1> HIDE DEF v
<1>2. IsWithout(Without(s, S), s, S, X, v)
  BY ONLY <1>1, s \in Seq(X), WithoutIs
<1> QED
  BY <1>2 DEF IsWithout

-----------------------------------------------------------------------------
(* Trees by their levels. *)

\* The cells of the tree are those of the board; there are levels.
LEMMA SizesAre ==
    /\ NumCells \in Nat \ {0} /\ Squares = Cells /\ Cells = 1..NumCells
    /\ Width * Height = NumCells
    /\ Levels = 2 * NumCells + 1 /\ Levels \in Nat /\ Levels # 0
<1>1. \A m, n \in Nat \ {0} : m * n \in Nat \ {0}
  OBVIOUS
<1>2. Width * Height \in Nat \ {0}
  BY <1>1, SizeAssumption
<1>3. NumCells = Width * Height /\ Cells = 1..NumCells /\ Squares = Cells
      /\ Levels = 2 * NumCells + 1
  BY DEF NumCells, Cells, Squares, Levels
<1> QED
  BY <1>2, <1>3

\* The equation of Trees has a solution.
LEMMA TreesExist ==
    \E f : f = [h \in 0..Levels |->
                   {Null} \cup (IF h = 0 THEN {} ELSE NodesOver(f[h - 1]))]
<1> DEFINE Step(f, h) == {Null} \cup (IF h = 0 THEN {} ELSE NodesOver(f[h - 1]))
           Upto(f, m) == f = [h \in 0..m |-> Step(f, h)]
           T == {m \in 0..Levels : \E f : Upto(f, m)}
<1>1. 0 \in 0..Levels /\ Levels \in 0..Levels /\ Levels \in Nat
  BY SizesAre
<1>2. 0 \in T
  <2> DEFINE f == [h \in 0..0 |-> {Null}]
  <2>1. \A h \in 0..0 : h = 0
    OBVIOUS
  <2>2. f = [h \in 0..0 |-> Step(f, h)]
    BY <2>1
  <2> QED
    BY <1>1, <2>2
<1>3. ASSUME NEW j \in 1..Levels, j - 1 \in T PROVE j \in T
  <2> DEFINE m == j - 1
  <2>1. /\ m \in 0..Levels /\ j \in 0..Levels /\ j # 0 /\ m \in 0..m /\ j \notin 0..m
        /\ 0..j = 0..m \cup {j}
        /\ \A h \in 0..m : h = 0 \/ h - 1 \in 0..m
    BY <1>1
  <2> HIDE DEF m
  <2>2. PICK f : Upto(f, m)
    BY <1>3 DEF m
  <2> DEFINE v == {Null} \cup NodesOver(f[m])
             g == [h \in 0..j |-> IF h = j THEN v ELSE f[h]]
  <2> HIDE DEF v
  <2>3. DOMAIN g = 0..j /\ g[j] = v /\ \A h \in 0..m : g[h] = f[h]
    BY <2>1
  <2>4. g = [h \in 0..j |-> g[h]]
    BY <2>3
  <2> HIDE DEF g
  <2>5. Step(g, j) = v
    BY <2>1, <2>3 DEF v, m
  <2>6. ASSUME NEW h \in 0..m PROVE g[h] = Step(g, h)
    <3>1. f[h] = Step(f, h)
      BY <2>2
    <3>2. Step(f, h) = Step(g, h)
      BY <2>1, <2>3
    <3> QED
      BY <2>3, <3>1, <3>2
  <2>7. \A h \in 0..j : g[h] = Step(g, h)
    BY <2>1, <2>3, <2>5, <2>6
  <2> HIDE DEF Step
  <2>8. g = [h \in 0..j |-> Step(g, h)]
    BY <2>4, <2>7
  <2> QED
    BY <2>1, <2>8
<1> HIDE DEF T
<1>4. Levels \in T
  BY ONLY <1>1, <1>2, <1>3, StepsUp
<1> QED
  BY <1>4 DEF T

\* Trees, level by level; NULL is one of each.
LEMMA TreesAre ==
    /\ Trees[0] = {Null}
    /\ \A h \in 1..Levels : /\ Trees[h] = {Null} \cup NodesOver(Trees[h - 1])
                            /\ Null \notin NodesOver(Trees[h - 1])
<1>1. Trees = [h \in 0..Levels |->
                   {Null} \cup (IF h = 0 THEN {} ELSE NodesOver(Trees[h - 1]))]
  BY TreesExist DEF Trees
<1>2. 0 \in 0..Levels /\ \A h \in 1..Levels : h \in 0..Levels /\ h # 0
  BY SizesAre
<1> HIDE DEF Trees
<1>3. \A h \in 0..Levels :
          Trees[h] = {Null} \cup (IF h = 0 THEN {} ELSE NodesOver(Trees[h - 1]))
  BY <1>1
<1>4. Trees[0] = {Null}
  BY <1>2, <1>3
<1> QED
  BY <1>2, <1>3, <1>4, TreeAssumption

\* What a tree that is not NULL is made of.
NodeOf(n, h) ==
    /\ h \in 1..Levels /\ h - 1 \in 0..Levels
    /\ n.letter \in Int /\ n.cell \in Nat /\ n.points \in Nat /\ n.bound \in Nat
    /\ n.children \in Seq(Trees[h - 1])
    /\ Len(n.children) \in Nat /\ DOMAIN n.children = 1..Len(n.children)
    /\ IsFiniteSet(DOMAIN n.children)
    /\ \A i \in DOMAIN n.children : n.children[i] \in Trees[h - 1]
    /\ n.possibilities \in SUBSET Nat

\* A tree of at most h levels has children of at most h - 1.
LEMMA NodesAre ==
    ASSUME NEW h \in 0..Levels, NEW n \in Trees[h], n # Null
    PROVE  NodeOf(n, h)
<1>1. h \in 1..Levels /\ h - 1 \in 0..Levels
  <2>1. h # 0
    BY TreesAre
  <2> QED
    BY <2>1, SizesAre
<1>2. n \in NodesOver(Trees[h - 1])
  BY <1>1, TreesAre
<1>3. /\ n.letter \in Int /\ n.cell \in Nat /\ n.points \in Nat /\ n.bound \in Nat
      /\ n.children \in Seq(Trees[h - 1]) /\ n.possibilities \in SUBSET Nat
  BY <1>2 DEF NodesOver
<1> DEFINE c == n.children
           S == Trees[h - 1]
<1>4. c \in Seq(S)
  BY <1>3
<1> HIDE DEF c, S
<1>5. Len(c) \in Nat /\ DOMAIN c = 1..Len(c) /\ \A i \in 1..Len(c) : c[i] \in S
  BY <1>4, LenProperties, ElementOfSeq
<1>6. IsFiniteSet(1..Len(c))
  <2> DEFINE N == Len(c)
  <2>1. 1 \in Int /\ N \in Int
    BY <1>5
  <2> HIDE DEF N
  <2>2. IsFiniteSet(1..N)
    BY ONLY <2>1, FS_Interval
  <2> QED
    BY <2>2 DEF N
<1> QED
  BY <1>1, <1>3, <1>5, <1>6 DEF NodeOf, c, S

-----------------------------------------------------------------------------
(* What a node makes of the scores of its children. *)

\* What a node scores is a number, 0 if there is nothing to count.
LEMMA CombinedIs ==
    ASSUME NEW p \in Nat, NEW g, NEW D, D = DOMAIN g, IsFiniteSet(D),
           \A i \in D : g[i] \in Nat, NEW letter
    PROVE  /\ Combined(letter, p, g) \in Nat
           /\ Combined(letter, p, g) = 0
                  <=> (letter = ChoiceNode \/ p = 0) /\ \A i \in D : g[i] = 0
<1>1. CASE letter = ChoiceNode
  <2> DEFINE m == Max({0} \cup Range(g))
  <2>1. m \in Nat /\ m \in {0} \cup Range(g) /\ \A i \in D : g[i] <= m
    BY MaxOfScores
  <2>2. Combined(letter, p, g) = m
    BY <1>1 DEF Combined
  <2> HIDE DEF m
  <2>3. m = 0 <=> \A i \in D : g[i] = 0
    BY <2>1 DEF Range
  <2> QED
    BY <1>1, <2>1, <2>2, <2>3
<1>2. CASE letter # ChoiceNode
  <2> DEFINE m == SumOf(g, D)
  <2>1. Combined(letter, p, g) = p + m
    BY <1>2, FoldIsSum DEF Combined
  <2>2. m \in Nat
    BY SumNat
  <2>3. ASSUME m = 0, NEW i \in D PROVE g[i] = 0
    <3> DEFINE R == D \ {i}
               r == SumOf(g, R)
    <3>1. m = g[i] + r
      BY SumRemove
    <3>2. r \in Nat
      <4>1. IsFiniteSet(R) /\ \A x \in R : g[x] \in Nat
        BY FS_Subset
      <4> QED
        BY <4>1, SumNat
    <3>3. g[i] \in Nat
      OBVIOUS
    <3> HIDE DEF m, r
    <3> QED
      BY <2>3, <3>1, <3>2, <3>3
  <2>4. ASSUME \A i \in D : g[i] = 0 PROVE m = 0
    BY <2>4, SumOfZeros
  <2> HIDE DEF m
  <2> QED
    BY <1>2, <2>1, <2>2, <2>3, <2>4
<1> QED
  BY <1>1, <1>2

NonNull(s) == Without(s, {Null})
Over(v, s) == [i \in DOMAIN s |-> v[s[i]]]

\* NULLs make no difference to it.
LEMMA CombinedWithout ==
    ASSUME NEW X, NEW s \in Seq(X), NEW v \in [X -> Nat],
           Null \in X => v[Null] = 0, NEW letter, NEW p
    PROVE  LET w == NonNull(s)
           IN  Combined(letter, p, Over(v, w)) = Combined(letter, p, Over(v, s))
<1> DEFINE w == NonNull(s)
           g == [i \in DOMAIN s |-> v[s[i]]]
           k == [i \in DOMAIN w |-> v[w[i]]]
<1>1. w \in Seq(X) /\ ToSet(w) = ToSet(s) \ {Null} /\ SeqSum(v, w) = SeqSum(v, s)
  <2> DEFINE S == {Null}
  <2>1. \A x \in X : x \in S => v[x] = 0
    OBVIOUS
  <2> HIDE DEF S
  <2>2. IsWithout(Without(s, S), s, S, X, v)
    BY ONLY <2>1, s \in Seq(X), v \in [X -> Nat], WithoutIs
  <2> QED
    BY <2>2 DEF S, IsWithout, NonNull
<1> HIDE DEF w
<1>2. DOMAIN s = 1..Len(s) /\ DOMAIN w = 1..Len(w) /\ \A i \in DOMAIN s : s[i] \in X
  BY <1>1, LenProperties, ElementOfSeq
<1>3. CASE letter = ChoiceNode
  <2>1. \A i \in DOMAIN w : w[i] \in ToSet(s) /\ w[i] # Null
    BY <1>1 DEF ToSet
  <2>2. ASSUME NEW i \in DOMAIN w PROVE k[i] \in Range(g)
    <3>1. PICK n \in DOMAIN s : s[n] = w[i]
      BY <2>1 DEF ToSet
    <3> QED
      BY <3>1 DEF Range
  <2>3. ASSUME NEW i \in DOMAIN s PROVE g[i] \in {0} \cup Range(k)
    <3>1. CASE s[i] = Null
      BY <1>2, <3>1
    <3>2. CASE s[i] # Null
      <4>1. s[i] \in ToSet(w)
        BY <1>1, <3>2 DEF ToSet
      <4>2. PICK n \in DOMAIN w : w[n] = s[i]
        BY <4>1 DEF ToSet
      <4> QED
        BY <4>2 DEF Range
    <3> QED
      BY <3>1, <3>2
  <2>4. DOMAIN k = DOMAIN w /\ DOMAIN g = DOMAIN s
    OBVIOUS
  <2> HIDE DEF k, g
  <2>5. {0} \cup Range(k) = {0} \cup Range(g)
    BY <2>2, <2>3, <2>4 DEF Range
  <2> QED
    BY <1>3, <2>5 DEF Combined, k, g, w, Over
<1>4. CASE letter # ChoiceNode
  <2>1. FoldFunction(+, 0, k) = SeqSum(v, w)
    BY <1>2, FoldIsSum DEF SeqSum
  <2>2. FoldFunction(+, 0, g) = SeqSum(v, s)
    BY <1>2, FoldIsSum DEF SeqSum
  <2> QED
    BY <1>1, <1>4, <2>1, <2>2 DEF Combined, w, Over
<1> QED
  BY <1>3, <1>4

-----------------------------------------------------------------------------
(* Scores of trees.  RecomputeScore and ScoreWithForce differ in where they  *)
(* stop and take the bound, and in which children they go on to.             *)

AllTrees == UNION {Trees[h] : h \in 0..Levels}

IsScore(f, stop, onto) ==
    /\ f = [h \in 0..Levels |-> f[h]]
    /\ \A h \in 0..Levels :
        /\ f[h] = [t \in Trees[h] |-> f[h][t]]
        /\ f[h][Null] = 0
        /\ \A t \in Trees[h] :
            t # Null =>
                f[h][t] = IF t \in stop THEN t.bound
                          ELSE Combined(t.letter, t.points,
                                   [i \in onto[t] |-> f[h - 1][t.children[i]]])
GoesDown(onto) == \A t \in AllTrees : t # Null => onto[t] \subseteq DOMAIN t.children

\* What one node scores is a number when those of its children are.
LEMMA ScoreStep ==
    ASSUME NEW h \in 0..Levels, NEW t \in Trees[h], t # Null,
           NEW v, \A c \in Trees[h - 1] : v[c] \in Nat,
           NEW D, D \subseteq DOMAIN t.children
    PROVE  Combined(t.letter, t.points, [i \in D |-> v[t.children[i]]]) \in Nat
<1>1. NodeOf(t, h)
  BY NodesAre
<1> DEFINE g == [i \in D |-> v[t.children[i]]]
           p == t.points
           l == t.letter
<1>2. p \in Nat /\ IsFiniteSet(D) /\ DOMAIN g = D /\ \A i \in D : g[i] \in Nat
  <2>1. IsFiniteSet(D)
    BY <1>1, FS_Subset DEF NodeOf
  <2> QED
    BY <1>1, <2>1 DEF NodeOf
<1> HIDE DEF g, p, l
<1>3. Combined(l, p, g) \in Nat
  BY <1>2, CombinedIs
<1> QED
  BY <1>3 DEF g, p, l

\* There is a score of all trees, wherever it stops and goes on to.
LEMMA ScoresExist ==
    ASSUME NEW stop, NEW onto, GoesDown(onto)
    PROVE  \E f : IsScore(f, stop, onto)
<1> DEFINE V == [h \in 0..Levels |-> [Trees[h] -> Nat]]
           One(v, t) == IF t = Null THEN 0 ELSE IF t \in stop THEN t.bound
                        ELSE Combined(t.letter, t.points,
                                 [i \in onto[t] |-> v[t.children[i]]])
           base == [t \in Trees[0] |-> 0]
           step == [h \in 1..Levels |-> [v \in V[h - 1] |-> [t \in Trees[h] |-> One(v, t)]]]
           N == Levels
<1>1. N \in Nat /\ 0 \in 0..N /\ \A h \in 1..N : h \in 0..N /\ h - 1 \in 0..N /\ h # 0
  BY SizesAre
<1>2. base \in V[0]
  BY <1>1
<1>3. ASSUME NEW h \in 1..N, NEW v \in V[h - 1]
      PROVE  /\ step[h][v] \in V[h]
             /\ step[h][v] = [t \in Trees[h] |-> One(v, t)]
  <2>1. v \in [Trees[h - 1] -> Nat]
    BY <1>1
  <2>2. ASSUME NEW t \in Trees[h] PROVE One(v, t) \in Nat
    <3>1. CASE t # Null /\ t \notin stop
      <4>1. onto[t] \subseteq DOMAIN t.children
        BY <1>1, <3>1 DEF GoesDown, AllTrees
      <4> DEFINE D == onto[t]
      <4>2. \A c \in Trees[h - 1] : v[c] \in Nat
        BY <2>1
      <4>3. h \in 0..Levels
        BY <1>1
      <4> HIDE DEF D
      <4>4. Combined(t.letter, t.points, [i \in D |-> v[t.children[i]]]) \in Nat
        BY ONLY <3>1, <4>1, <4>2, <4>3, t \in Trees[h], ScoreStep DEF D
      <4> QED
        BY <3>1, <4>4 DEF D
    <3>2. CASE t # Null /\ t \in stop
      <4>1. t.bound \in Nat
        BY <1>1, <3>2, NodesAre DEF NodeOf
      <4> QED
        BY <3>2, <4>1
    <3> QED
      BY <3>1, <3>2
  <2>3. step[h][v] = [t \in Trees[h] |-> One(v, t)]
    OBVIOUS
  <2> HIDE DEF One
  <2> QED
    BY <1>1, <2>2, <2>3
<1> HIDE DEF base, step, V, N, One
<1>4. PICK f : /\ f = [j \in 0..N |-> f[j]]
               /\ f[0] = base
               /\ \A j \in 0..N : f[j] \in V[j]
               /\ \A j \in 1..N : f[j] = step[j][f[j - 1]]
  <2>1. \A j \in 1..N : \A v \in V[j - 1] : step[j][v] \in V[j]
    BY <1>3
  <2>2. N \in Nat
    BY <1>1
  <2>3. \E f : Leads(f, N, base, step, V)
    BY ONLY <1>2, <2>1, <2>2, LevelsExist
  <2> QED
    BY <2>3 DEF Leads
<1>5. \A h \in 0..N : f[h] \in [Trees[h] -> Nat]
  BY <1>4 DEF V, N
<1>6. \A h \in 1..N : f[h] = [t \in Trees[h] |-> One(f[h - 1], t)]
  BY ZenonT(20), <1>1, <1>3, <1>4
<1>7. ASSUME NEW h \in 0..N
      PROVE  /\ f[h] = [t \in Trees[h] |-> f[h][t]]
             /\ f[h][Null] = 0
             /\ \A t \in Trees[h] :
                    t # Null => f[h][t] = One(f[h - 1], t)
  <2>1. f[h] = [t \in Trees[h] |-> f[h][t]]
    BY <1>5
  <2>2. CASE h = 0
    <3>1. \A t \in Trees[h] : t = Null
      BY <2>2, TreesAre
    <3>2. f[h][Null] = 0
      BY <1>4, <2>2, TreesAre DEF base
    <3> QED
      BY <2>1, <3>1, <3>2
  <2>3. CASE h # 0
    <3>1. h \in 1..N
      BY <1>1, <2>3
    <3>2. Null \in Trees[h] /\ One(f[h - 1], Null) = 0
      BY <3>1, TreesAre DEF N, One
    <3> QED
      BY ZenonT(20), <1>6, <2>1, <3>1, <3>2
  <2> QED
    BY <2>2, <2>3
<1>8. IsScore(f, stop, onto)
  BY <1>4, <1>7 DEF IsScore, One, N
<1> QED
  BY <1>8

\* They are numbers.
LEMMA ScoresType ==
    ASSUME NEW stop, NEW onto, GoesDown(onto), NEW f, IsScore(f, stop, onto),
           NEW h \in 0..Levels
    PROVE  \A t \in Trees[h] : f[h][t] \in Nat
<1> DEFINE T == {n \in 0..Levels : \A t \in Trees[n] : f[n][t] \in Nat}
<1>1. Levels \in Nat /\ 0 \in 0..Levels /\ \A n \in 1..Levels : n \in 0..Levels
  BY SizesAre
<1>2. 0 \in T
  BY <1>1, TreesAre DEF IsScore
<1>3. ASSUME NEW n \in 1..Levels, n - 1 \in T PROVE n \in T
  <2>1. ASSUME NEW t \in Trees[n], t # Null PROVE f[n][t] \in Nat
    <3> DEFINE v == f[n - 1]
    <3>1. onto[t] \subseteq DOMAIN t.children
      BY <1>1, <2>1 DEF GoesDown, AllTrees
    <3>2. \A c \in Trees[n - 1] : v[c] \in Nat
      BY <1>3
    <3>3. f[n][t] = IF t \in stop THEN t.bound
                    ELSE Combined(t.letter, t.points, [i \in onto[t] |-> v[t.children[i]]])
      BY <1>1, <2>1 DEF IsScore
    <3>4. t.bound \in Nat
      BY <1>1, <2>1, NodesAre DEF NodeOf
    <3> HIDE DEF v
    <3>5. Combined(t.letter, t.points, [i \in onto[t] |-> v[t.children[i]]]) \in Nat
      BY <1>1, <2>1, <3>1, <3>2, ScoreStep
    <3> QED
      BY <3>3, <3>4, <3>5
  <2>2. f[n][Null] = 0
    BY <1>1 DEF IsScore
  <2> QED
    BY <1>1, <2>1, <2>2
<1> HIDE DEF T
<1>4. \A n \in 0..Levels : n \in T
  BY ONLY <1>1, <1>2, <1>3, StepsUp
<1> QED
  BY <1>4 DEF T

ScoreOne(v, t, stop, onto) ==
    IF t = Null THEN 0
    ELSE IF t \in stop THEN t.bound
    ELSE Combined(t.letter, t.points, [i \in onto[t] |-> v[t.children[i]]])

\* A score is what the recursion in RecomputeScore and ScoreWithForce defines.
LEMMA ScoreEquation ==
    ASSUME NEW f, NEW stop, NEW onto
    PROVE  IsScore(f, stop, onto)
               <=> f = [h \in 0..Levels |->
                           [t \in Trees[h] |-> ScoreOne(f[h - 1], t, stop, onto)]]
<1> DEFINE One(v, t) == ScoreOne(v, t, stop, onto)
           E == [h \in 0..Levels |-> [t \in Trees[h] |-> One(f[h - 1], t)]]
<1>1. \A h \in 0..Levels : Null \in Trees[h]
  BY TreesAre, SizesAre
<1>2. ASSUME IsScore(f, stop, onto) PROVE f = E
  <2>1. f = [h \in 0..Levels |-> f[h]]
    BY <1>2 DEF IsScore
  <2>2. ASSUME NEW h \in 0..Levels PROVE f[h] = [t \in Trees[h] |-> One(f[h - 1], t)]
    <3>1. f[h] = [t \in Trees[h] |-> f[h][t]]
      BY <1>2 DEF IsScore
    <3>2. \A t \in Trees[h] : f[h][t] = One(f[h - 1], t)
      BY <1>2 DEF IsScore, ScoreOne
    <3> HIDE DEF One
    <3> QED
      BY <3>1, <3>2
  <2> HIDE DEF One
  <2> QED
    BY <2>1, <2>2
<1>3. ASSUME f = E PROVE IsScore(f, stop, onto)
  <2>1. \A h \in 0..Levels : f[h] = [t \in Trees[h] |-> One(f[h - 1], t)]
    <3> HIDE DEF One
    <3> QED
      BY <1>3
  <2>2. f = [h \in 0..Levels |-> f[h]]
    <3> HIDE DEF One
    <3> QED
      BY <1>3
  <2>3. ASSUME NEW h \in 0..Levels
        PROVE  /\ f[h] = [t \in Trees[h] |-> f[h][t]]
               /\ \A t \in Trees[h] : f[h][t] = One(f[h - 1], t)
    <3> HIDE DEF One
    <3> QED
      BY <2>1
  <2> QED
    BY <1>1, <2>2, <2>3 DEF IsScore, ScoreOne
<1> QED
  BY <1>2, <1>3

FullOnto == [t \in AllTrees |-> DOMAIN t.children]

\* RecomputeScore stops nowhere and goes on to all children.
LEMMA RecomputeIs ==
    \E f : /\ IsScore(f, {}, FullOnto)
           /\ \A n \in Trees[Levels] : RecomputeScore(n) = f[Levels][n]
<1> DEFINE One(v, t) == IF t = Null THEN 0
                        ELSE Combined(t.letter, t.points,
                                 [i \in DOMAIN t.children |-> v[t.children[i]]])
           E(f) == [h \in 0..Levels |-> [t \in Trees[h] |-> One(f[h - 1], t)]]
           D(f) == [h \in 0..Levels |->
                       [t \in Trees[h] |-> ScoreOne(f[h - 1], t, {}, FullOnto)]]
           c == CHOOSE f : f = E(f)
<1>1. GoesDown(FullOnto)
  BY DEF GoesDown, FullOnto
<1>2. PICK f : IsScore(f, {}, FullOnto)
  <2> DEFINE s == {}
  <2> HIDE DEF s
  <2>1. \E f : IsScore(f, s, FullOnto)
    BY <1>1, ScoresExist
  <2> QED
    BY <2>1 DEF s
<1>3. \A v : \A h \in 0..Levels : \A t \in Trees[h] :
          ScoreOne(v, t, {}, FullOnto) = One(v, t)
  BY DEF ScoreOne, FullOnto, AllTrees
<1>4. ASSUME NEW g PROVE E(g) = D(g)
  <2> HIDE DEF One
  <2> QED
    BY <1>3
<1>5. f = E(f)
  BY <1>2, <1>4, ScoreEquation
<1>6. c = E(c)
  <2> HIDE DEF E
  <2> QED
    BY <1>5
<1>7. IsScore(c, {}, FullOnto)
  BY <1>4, <1>6, ScoreEquation
<1>8. \A n \in Trees[Levels] : RecomputeScore(n) = c[Levels][n]
  BY DEF RecomputeScore
<1> HIDE DEF c
<1> QED
  BY <1>7, <1>8

ForceStop(k) == {t \in AllTrees : t # Null /\ k \notin t.possibilities}
ForceOnto(k, m) == [t \in AllTrees |-> Onto(t, k, m)]

\* ScoreWithForce goes on to children.
LEMMA ForceGoesDown ==
    ASSUME NEW k, NEW m
    PROVE  GoesDown(ForceOnto(k, m))
BY DEF GoesDown, ForceOnto, Onto, Taken

\* ScoreWithForce stops where the cell is not among the possibilities.
LEMMA ForceIs ==
    ASSUME NEW k, NEW m
    PROVE  \E f : /\ IsScore(f, ForceStop(k), ForceOnto(k, m))
                  /\ \A n \in Trees[Levels] : ScoreWithForce(n, k, m) = f[Levels][n]
<1> DEFINE One(v, t) == IF t = Null THEN 0
                        ELSE IF k \notin t.possibilities THEN t.bound
                        ELSE Combined(t.letter, t.points,
                                 [i \in Onto(t, k, m) |-> v[t.children[i]]])
           E(f) == [h \in 0..Levels |-> [t \in Trees[h] |-> One(f[h - 1], t)]]
           s == ForceStop(k)
           o == ForceOnto(k, m)
           D(f) == [h \in 0..Levels |->
                       [t \in Trees[h] |-> ScoreOne(f[h - 1], t, s, o)]]
           c == CHOOSE f : f = E(f)
<1>1. GoesDown(o)
  BY ForceGoesDown
<1>2. PICK f : IsScore(f, s, o)
  <2> HIDE DEF s, o
  <2> QED
    BY <1>1, ScoresExist
<1>3. \A v : \A h \in 0..Levels : \A t \in Trees[h] :
          ScoreOne(v, t, s, o) = One(v, t)
  BY DEF ScoreOne, ForceStop, ForceOnto, AllTrees
<1>4. ASSUME NEW g PROVE E(g) = D(g)
  <2> HIDE DEF One, s, o
  <2> QED
    BY <1>3
<1>5. f = E(f)
  BY <1>2, <1>4, ScoreEquation
<1>6. c = E(c)
  <2> HIDE DEF E
  <2> QED
    BY <1>5
<1>7. IsScore(c, s, o)
  BY <1>4, <1>6, ScoreEquation
<1>8. \A n \in Trees[Levels] : ScoreWithForce(n, k, m) = c[Levels][n]
  BY DEF ScoreWithForce
<1> HIDE DEF c
<1> QED
  BY <1>7, <1>8

\* The trees whose nodes are all in P.
IsKept(G, P) ==
    \A h \in 0..Levels :
        G[h] = {t \in Trees[h] :
                    t = Null \/ (t \in P /\ \A i \in DOMAIN t.children :
                                                t.children[i] \in G[h - 1])}

\* There are such sets of trees.
LEMMA KeptExist ==
    ASSUME NEW P PROVE \E G : IsKept(G, P)
<1> DEFINE V == [h \in 0..Levels |-> SUBSET Trees[h]]
           Keep(S, h) == {t \in Trees[h] :
                    t = Null \/ (t \in P /\ \A i \in DOMAIN t.children : t.children[i] \in S)}
           base == {Null}
           step == [h \in 1..Levels |-> [S \in V[h - 1] |-> Keep(S, h)]]
           N == Levels
<1>1. N \in Nat /\ 0 \in 0..N /\ \A h \in 1..N : h \in 0..N /\ h - 1 \in 0..N /\ h # 0
  BY SizesAre
<1>2. base \in V[0]
  BY <1>1, TreesAre
<1>3. \A j \in 1..N : \A S \in V[j - 1] : step[j][S] \in V[j] /\ step[j][S] = Keep(S, j)
  BY <1>1
<1> HIDE DEF V, base, step, N, Keep
<1>4. PICK f : /\ f[0] = base
               /\ \A j \in 0..N : f[j] \in V[j]
               /\ \A j \in 1..N : f[j] = step[j][f[j - 1]]
  <2>2. N \in Nat /\ \A j \in 1..N : \A S \in V[j - 1] : step[j][S] \in V[j]
    BY <1>1, <1>3
  <2>3. \E f : Leads(f, N, base, step, V)
    BY ONLY <1>2, <2>2, LevelsExist
  <2> QED
    BY <2>3 DEF Leads
<1>5. \A h \in 1..N : f[h] = Keep(f[h - 1], h)
  BY <1>1, <1>3, <1>4
<1>6. f[0] = Keep(f[0 - 1], 0)
  BY <1>4, TreesAre DEF Keep, base
<1>7. \A h \in 0..N : f[h] = Keep(f[h - 1], h)
  BY <1>5, <1>6
<1> QED
  BY <1>7 DEF IsKept, N, Keep

\* A tree is in one if its node is in P and its children are.
LEMMA KeptAre ==
    ASSUME NEW P, NEW G, IsKept(G, P), NEW h \in 0..Levels
    PROVE  /\ G[h] \subseteq Trees[h]
           /\ Null \in G[h]
           /\ \A t \in G[h] : t # Null => /\ t \in P
                                          /\ \A i \in DOMAIN t.children : t.children[i] \in G[h - 1]
           /\ \A t \in Trees[h] : t \in P /\ (\A i \in DOMAIN t.children : t.children[i] \in G[h - 1])
                                      => t \in G[h]
<1>1. Null \in Trees[h]
  BY TreesAre, SizesAre
<1>2. G[h] = {t \in Trees[h] :
                    t = Null \/ (t \in P /\ \A i \in DOMAIN t.children :
                                                t.children[i] \in G[h - 1])}
  BY DEF IsKept
<1> QED
  BY <1>1, <1>2

BoundsOf(t) == [i \in DOMAIN t.children |-> BoundOf(t.children[i])]
LocallyGood ==
    {t \in AllTrees :
        /\ t.bound = Combined(t.letter, t.points, BoundsOf(t))
        /\ OwnPossibility(t) \subseteq Squares /\ t.possibilities \subseteq Squares
        /\ t.letter = ChoiceNode =>
               \A i \in DOMAIN t.children :
                   t.children[i] # Null => /\ t.children[i].letter >= 0
                                           /\ t.children[i].cell = t.cell}
Covers ==
    {t \in AllTrees :
        /\ OwnPossibility(t) \subseteq t.possibilities
        /\ \A i \in DOMAIN t.children : PossibilitiesOf(t.children[i]) \subseteq t.possibilities}

\* Bounds are numbers.
LEMMA BoundsType ==
    ASSUME NEW h \in 0..Levels
    PROVE  \A t \in Trees[h] : BoundOf(t) \in Nat
BY NodesAre DEF BoundOf, NodeOf

\* Recomputed, a bound is what it was.
LEMMA GoodBound ==
    ASSUME NEW G, IsKept(G, LocallyGood), NEW f, IsScore(f, {}, FullOnto)
    PROVE  \A h \in 0..Levels : \A t \in G[h] : f[h][t] = BoundOf(t)
<1> DEFINE T == {n \in 0..Levels : \A t \in G[n] : f[n][t] = BoundOf(t)}
<1>1. Levels \in Nat /\ 0 \in 0..Levels /\ \A n \in 1..Levels : n \in 0..Levels
  BY SizesAre
<1>2. \A n \in 0..Levels : f[n][Null] = BoundOf(Null)
  BY DEF IsScore, BoundOf
<1>3. 0 \in T
  <2>1. \A t \in G[0] : t = Null
    BY <1>1, KeptAre, TreesAre
  <2> QED
    BY <1>1, <1>2, <2>1
<1>4. ASSUME NEW n \in 1..Levels, n - 1 \in T PROVE n \in T
  <2>1. ASSUME NEW t \in G[n], t # Null PROVE f[n][t] = BoundOf(t)
    <3>1. t \in Trees[n] /\ t \in LocallyGood /\ t \in AllTrees
          /\ \A i \in DOMAIN t.children : t.children[i] \in G[n - 1]
      BY <1>1, <2>1, KeptAre DEF AllTrees
    <3>2. f[n][t] = Combined(t.letter, t.points,
                        [i \in FullOnto[t] |-> f[n - 1][t.children[i]]])
      BY <1>1, <2>1, <3>1 DEF IsScore
    <3>3. FullOnto[t] = DOMAIN t.children
      BY <3>1 DEF FullOnto
    <3>4. \A i \in DOMAIN t.children : f[n - 1][t.children[i]] = BoundOf(t.children[i])
      BY <1>4, <3>1
    <3>5. [i \in FullOnto[t] |-> f[n - 1][t.children[i]]] = BoundsOf(t)
      BY <3>3, <3>4 DEF BoundsOf
    <3> QED
      BY <2>1, <3>1, <3>2, <3>5 DEF LocallyGood, BoundOf
  <2> QED
    BY <1>1, <1>2, <2>1
<1> HIDE DEF T
<1>5. \A n \in 0..Levels : n \in T
  BY ONLY <1>1, <1>3, <1>4, StepsUp
<1> QED
  BY <1>5 DEF T

\* With a bound of 0 a tree scores 0, whatever children it goes on to.
LEMMA GoodZero ==
    ASSUME NEW G, IsKept(G, LocallyGood), NEW onto, GoesDown(onto),
           NEW f, IsScore(f, {}, onto)
    PROVE  \A h \in 0..Levels : \A t \in G[h] : BoundOf(t) = 0 => f[h][t] = 0
<1> DEFINE T == {n \in 0..Levels : \A t \in G[n] : BoundOf(t) = 0 => f[n][t] = 0}
<1>1. Levels \in Nat /\ 0 \in 0..Levels
      /\ \A n \in 1..Levels : n \in 0..Levels /\ n - 1 \in 0..Levels
  BY SizesAre
<1>2. \A n \in 0..Levels : f[n][Null] = 0
  BY DEF IsScore
<1>3. 0 \in T
  <2>1. \A t \in G[0] : t = Null
    BY <1>1, KeptAre, TreesAre
  <2> QED
    BY <1>1, <1>2, <2>1
<1>4. ASSUME NEW n \in 1..Levels, n - 1 \in T PROVE n \in T
  <2>1. ASSUME NEW t \in G[n], t # Null, BoundOf(t) = 0 PROVE f[n][t] = 0
    <3> DEFINE l == t.letter
               p == t.points
               g == BoundsOf(t)
               D == DOMAIN t.children
               O == onto[t]
               k == [i \in O |-> f[n - 1][t.children[i]]]
    <3>1. t \in Trees[n] /\ t \in LocallyGood /\ t \in AllTrees
          /\ \A i \in D : t.children[i] \in G[n - 1]
      BY <1>1, <2>1, KeptAre DEF AllTrees
    <3>2. f[n][t] = Combined(l, p, k)
      BY <1>1, <2>1, <3>1 DEF IsScore
    <3>3. Combined(l, p, g) = 0
      BY <2>1, <3>1 DEF LocallyGood, BoundOf
    <3>4. p \in Nat /\ D = DOMAIN g /\ IsFiniteSet(D) /\ O \subseteq D
      BY <1>1, <2>1, <3>1, NodesAre DEF NodeOf, BoundsOf, GoesDown
    <3>5. \A i \in D : g[i] \in Nat /\ g[i] = BoundOf(t.children[i])
      <4>1. \A i \in D : t.children[i] \in Trees[n - 1]
        BY <1>1, <2>1, <3>1, NodesAre DEF NodeOf
      <4> QED
        BY <1>1, <4>1, BoundsType DEF BoundsOf
    <3>6. DOMAIN k = O /\ \A i \in O : k[i] = f[n - 1][t.children[i]]
      OBVIOUS
    <3> HIDE DEF l, p, g, k, O
    <3>7. (l = ChoiceNode \/ p = 0) /\ \A i \in D : g[i] = 0
      <4> HIDE DEF D
      <4> QED
        BY <3>3, <3>4, <3>5, CombinedIs
    <3>8. \A i \in O : k[i] = 0
      BY <1>4, <3>1, <3>4, <3>5, <3>6, <3>7
    <3>9. IsFiniteSet(O) /\ \A i \in O : k[i] \in Nat
      BY <3>4, <3>8, FS_Subset
    <3>10. Combined(l, p, k) = 0
      BY <3>4, <3>6, <3>7, <3>8, <3>9, CombinedIs
    <3> QED
      BY <3>2, <3>10
  <2> QED
    BY <1>1, <1>2, <2>1
<1> HIDE DEF T
<1>5. \A n \in 0..Levels : n \in T
  BY ONLY <1>1, <1>3, <1>4, StepsUp
<1> QED
  BY <1>5 DEF T

\* A tree with no choice of the cell scores its bound.
LEMMA NotThereScore ==
    ASSUME NEW G, IsKept(G, LocallyGood), NEW C, IsKept(C, Covers), NEW k, NEW m,
           NEW f, IsScore(f, {}, ForceOnto(k, m))
    PROVE  \A h \in 0..Levels : \A t \in G[h] \cap C[h] :
               k \notin PossibilitiesOf(t) => f[h][t] = BoundOf(t)
<1> DEFINE T == {n \in 0..Levels : \A t \in G[n] \cap C[n] :
                    k \notin PossibilitiesOf(t) => f[n][t] = BoundOf(t)}
<1>1. Levels \in Nat /\ 0 \in 0..Levels
      /\ \A n \in 1..Levels : n \in 0..Levels /\ n - 1 \in 0..Levels
  BY SizesAre
<1>2. \A n \in 0..Levels : f[n][Null] = BoundOf(Null)
  BY DEF IsScore, BoundOf
<1>3. 0 \in T
  <2>1. \A t \in G[0] : t = Null
    BY <1>1, KeptAre, TreesAre
  <2> QED
    BY <1>1, <1>2, <2>1
<1>4. ASSUME NEW n \in 1..Levels, n - 1 \in T PROVE n \in T
  <2>1. ASSUME NEW t \in G[n] \cap C[n], t # Null, k \notin PossibilitiesOf(t)
        PROVE  f[n][t] = BoundOf(t)
    <3> DEFINE D == DOMAIN t.children
               O == Onto(t, k, m)
               c(i) == t.children[i]
    <3>1. /\ t \in Trees[n] /\ t \in AllTrees /\ t \in LocallyGood /\ t \in Covers
          /\ \A i \in D : t.children[i] \in G[n - 1] \cap C[n - 1]
      BY <1>1, <2>1, KeptAre DEF AllTrees
    <3>2. f[n][t] = Combined(t.letter, t.points, [i \in O |-> f[n - 1][t.children[i]]])
      BY <1>1, <2>1, <3>1 DEF IsScore, ForceOnto
    <3>3. k \notin t.possibilities
      BY <2>1 DEF PossibilitiesOf
    <3>4. \A i \in D : f[n - 1][t.children[i]] = BoundOf(t.children[i])
      BY <1>4, <3>1, <3>3 DEF Covers
    <3>5. CASE ~(t.letter = ChoiceNode /\ t.cell = k)
      <4>1. O = D
        BY <3>5 DEF Onto
      <4>2. [i \in O |-> f[n - 1][t.children[i]]] = BoundsOf(t)
        BY <3>4, <4>1 DEF BoundsOf
      <4> QED
        BY <2>1, <3>1, <3>2, <4>2 DEF LocallyGood, BoundOf
    <3>6. CASE t.letter = ChoiceNode /\ t.cell = k
      <4>1. ASSUME NEW i \in D, t.children[i] # Null PROVE FALSE
        <5> DEFINE u == t.children[i]
        <5>1. u.letter >= 0 /\ u.cell = k /\ u # Null
          BY <3>1, <3>6, <4>1 DEF LocallyGood
        <5>2. u \in C[n - 1] /\ PossibilitiesOf(u) \subseteq t.possibilities
          BY <3>1 DEF Covers
        <5> HIDE DEF u
        <5>3. u \in Covers
          BY <1>1, <5>1, <5>2, KeptAre
        <5>4. k \in OwnPossibility(u)
          BY <5>1 DEF OwnPossibility
        <5> QED
          BY <3>3, <5>1, <5>2, <5>3, <5>4 DEF Covers, PossibilitiesOf
      <4>2. O = {}
        BY <3>6, <4>1 DEF Onto, Taken
      <4>3. \A i \in D : BoundsOf(t)[i] = 0
        BY <4>1 DEF BoundsOf, BoundOf
      <4> DEFINE g == BoundsOf(t)
                 e == [i \in O |-> f[n - 1][t.children[i]]]
                 p == t.points
                 l == t.letter
      <4>4. p \in Nat /\ D = DOMAIN g /\ IsFiniteSet(D) /\ DOMAIN e = O /\ IsFiniteSet(O)
        BY <1>1, <2>1, <3>1, <4>2, NodesAre, FS_EmptySet DEF NodeOf, BoundsOf
      <4> HIDE DEF g, e, p, l, O, D
      <4>5. Combined(l, p, g) = 0
        BY <3>6, <4>3, <4>4, CombinedIs DEF g, l
      <4>6. Combined(l, p, e) = 0
        <5>1. \A i \in O : e[i] \in Nat /\ e[i] = 0
          BY <4>2
        <5> QED
          BY <3>6, <4>4, <5>1, CombinedIs DEF l
      <4> QED
        BY <2>1, <3>1, <3>2, <4>5, <4>6 DEF e, g, p, l, LocallyGood, BoundOf
    <3> QED
      BY <3>5, <3>6
  <2> QED
    BY <1>1, <1>2, <2>1
<1> HIDE DEF T
<1>5. \A n \in 0..Levels : n \in T
  BY ONLY <1>1, <1>3, <1>4, StepsUp
<1> QED
  BY <1>5 DEF T

\* So ScoreWithForce may stop there.
LEMMA ForceMayStop ==
    ASSUME NEW G, IsKept(G, LocallyGood), NEW C, IsKept(C, Covers), NEW k, NEW m,
           NEW f, IsScore(f, {}, ForceOnto(k, m)),
           NEW s, IsScore(s, ForceStop(k), ForceOnto(k, m))
    PROVE  \A h \in 0..Levels : \A t \in G[h] \cap C[h] : s[h][t] = f[h][t]
<1> DEFINE T == {n \in 0..Levels : \A t \in G[n] \cap C[n] : s[n][t] = f[n][t]}
<1>1. Levels \in Nat /\ 0 \in 0..Levels
      /\ \A n \in 1..Levels : n \in 0..Levels /\ n - 1 \in 0..Levels
  BY SizesAre
<1>2. \A n \in 0..Levels : f[n][Null] = 0 /\ s[n][Null] = 0
  BY DEF IsScore
<1>3. 0 \in T
  <2>1. \A t \in G[0] : t = Null
    BY <1>1, KeptAre, TreesAre
  <2> QED
    BY <1>1, <1>2, <2>1
<1>4. ASSUME NEW n \in 1..Levels, n - 1 \in T PROVE n \in T
  <2>1. ASSUME NEW t \in G[n] \cap C[n], t # Null PROVE s[n][t] = f[n][t]
    <3> DEFINE O == Onto(t, k, m)
    <3>1. /\ t \in Trees[n] /\ t \in AllTrees
          /\ \A i \in DOMAIN t.children : t.children[i] \in G[n - 1] \cap C[n - 1]
      BY <1>1, <2>1, KeptAre DEF AllTrees
    <3>2. f[n][t] = Combined(t.letter, t.points, [i \in O |-> f[n - 1][t.children[i]]])
      BY ZenonT(20), <1>1, <2>1, <3>1 DEF IsScore, ForceOnto
    <3>3. CASE t \in ForceStop(k)
      <4>1. s[n][t] = t.bound
        BY <1>1, <2>1, <3>1, <3>3 DEF IsScore
      <4>2. f[n][t] = BoundOf(t)
        BY <1>1, <2>1, <3>3, NotThereScore DEF ForceStop, PossibilitiesOf
      <4> QED
        BY <2>1, <4>1, <4>2 DEF BoundOf
    <3>4. CASE t \notin ForceStop(k)
      <4>1. s[n][t] = Combined(t.letter, t.points, [i \in O |-> s[n - 1][t.children[i]]])
        <5> DEFINE o == ForceOnto(k, m)
        <5>1. o[t] = O
          BY <3>1 DEF ForceOnto
        <5> HIDE DEF o, O
        <5>2. IsScore(s, ForceStop(k), o)
          BY DEF o
        <5> DEFINE c == Combined(t.letter, t.points, [i \in o[t] |-> s[n - 1][t.children[i]]])
        <5>3. n \in 0..Levels /\ t \in Trees[n] /\ t # Null
          BY <1>1, <2>1, <3>1
        <5>4. s[n][t] = IF t \in ForceStop(k) THEN t.bound ELSE c
          BY ONLY <5>2, <5>3 DEF IsScore
        <5> HIDE DEF c
        <5>5. s[n][t] = c
          BY <3>4, <5>4
        <5> QED
          BY <5>1, <5>5 DEF c
      <4>2. O \subseteq DOMAIN t.children
        BY DEF Onto, Taken
      <4> HIDE DEF O
      <4>3. \A i \in O : s[n - 1][t.children[i]] = f[n - 1][t.children[i]]
        BY <1>4, <3>1, <4>2
      <4>4. [i \in O |-> s[n - 1][t.children[i]]] = [i \in O |-> f[n - 1][t.children[i]]]
        BY <4>3
      <4> QED
        BY <3>2, <4>1, <4>4
    <3> QED
      BY <3>3, <3>4
  <2> QED
    BY <1>1, <1>2, <2>1
<1> HIDE DEF T
<1>5. \A n \in 0..Levels : n \in T
  BY ONLY <1>1, <1>3, <1>4, StepsUp
<1> QED
  BY <1>5 DEF T

-----------------------------------------------------------------------------
(* Prune and AttachPossibilities. *)

Moved(v, t) == [i \in DOMAIN t.children |-> v[t.children[i]]]
PrunedOne(v, t) ==
    IF t = Null \/ Worthless(t) THEN Null
    ELSE [t EXCEPT !.children = Without(Moved(v, t), {Null})]
AttachedOne(v, t) ==
    IF t = Null THEN Null
    ELSE [t EXCEPT !.children = Moved(v, t),
                   !.possibilities = t.possibilities \cup OwnPossibility(t) \cup
                       UNION {PossibilitiesOf(Moved(v, t)[i]) : i \in DOMAIN Moved(v, t)}]

IsPruning(p) ==
    \A h \in 0..Levels :
        /\ p[h] \in [Trees[h] -> Trees[h]]
        /\ \A t \in Trees[h] : p[h][t] = PrunedOne(p[h - 1], t)
IsAttaching(p) ==
    \A h \in 0..Levels :
        /\ p[h] \in [Trees[h] -> Trees[h]]
        /\ \A t \in Trees[h] : p[h][t] = AttachedOne(p[h - 1], t)

\* The children after an operation on each.
LEMMA MovedType ==
    ASSUME NEW h \in 1..Levels, NEW v \in [Trees[h - 1] -> Trees[h - 1]],
           NEW t \in Trees[h], t # Null
    PROVE  Moved(v, t) \in Seq(Trees[h - 1])
<1> DEFINE w == Moved(v, t)
           S == Trees[h - 1]
           n == Len(t.children)
<1>1. h \in 0..Levels
  BY SizesAre
<1>2. n \in Nat /\ DOMAIN t.children = 1..n /\ \A i \in 1..n : t.children[i] \in S
  BY <1>1, NodesAre DEF NodeOf
<1>3. w \in [1..n -> S]
  BY <1>2 DEF Moved
<1> HIDE DEF w, S, n
<1>4. w \in Seq(S)
  BY <1>2, <1>3, FunctionIsSeq
<1> QED
  BY <1>4 DEF w, S

\* Prune of a node that stays changes nothing but its children.
LEMMA PrunedOneIs ==
    ASSUME NEW h \in 1..Levels, NEW v \in [Trees[h - 1] -> Trees[h - 1]],
           NEW t \in Trees[h], t # Null, ~Worthless(t), NEW u, u = PrunedOne(v, t)
    PROVE  /\ u \in Trees[h] /\ u # Null
           /\ u.letter = t.letter /\ u.cell = t.cell /\ u.points = t.points
           /\ u.bound = t.bound /\ u.possibilities = t.possibilities
           /\ u.children = NonNull(Moved(v, t))
           /\ \A z : z \in ToSet(u.children) <=> z \in ToSet(Moved(v, t)) /\ z # Null
           /\ Moved(v, t) \in Seq(Trees[h - 1])
<1> DEFINE w == Moved(v, t)
           S == Trees[h - 1]
           Z == {Null}
           x == Without(w, Z)
<1>1. w \in Seq(S)
  BY MovedType
<1>2. x \in Seq(S) /\ \A z : z \in ToSet(x) <=> z \in ToSet(w) /\ z # Null
  <2> HIDE DEF w, S, Z
  <2>1. x \in Seq(S) /\ ToSet(x) = ToSet(w) \ Z
    BY <1>1, WithoutType
  <2> QED
    BY <2>1 DEF Z
<1>3. u = [t EXCEPT !.children = x]
  BY DEF PrunedOne
<1>4. t \in NodesOver(S) /\ Null \notin NodesOver(S) /\ Trees[h] = {Null} \cup NodesOver(S)
  BY TreesAre
<1> HIDE DEF x, w, S
<1>5. /\ u \in NodesOver(S)
      /\ u.letter = t.letter /\ u.cell = t.cell /\ u.points = t.points
      /\ u.bound = t.bound /\ u.possibilities = t.possibilities
      /\ u.children = x
  BY <1>2, <1>3, <1>4 DEF NodesOver
<1>6. u \in Trees[h] /\ u # Null
  BY <1>4, <1>5
<1> QED
  BY <1>1, <1>2, <1>5, <1>6 DEF x, w, S, NonNull

\* AttachPossibilities changes nothing but children and possibilities.
LEMMA AttachedOneIs ==
    ASSUME NEW h \in 1..Levels, NEW v \in [Trees[h - 1] -> Trees[h - 1]],
           NEW t \in Trees[h], t # Null, NEW u, u = AttachedOne(v, t)
    PROVE  /\ u \in Trees[h] /\ u # Null
           /\ u.letter = t.letter /\ u.cell = t.cell /\ u.points = t.points
           /\ u.bound = t.bound
           /\ u.possibilities = t.possibilities \cup OwnPossibility(t) \cup
                  UNION {PossibilitiesOf(Moved(v, t)[i]) : i \in DOMAIN Moved(v, t)}
           /\ u.children = Moved(v, t)
           /\ Moved(v, t) \in Seq(Trees[h - 1])
<1> DEFINE w == Moved(v, t)
           S == Trees[h - 1]
           o == OwnPossibility(t)
           q == UNION {PossibilitiesOf(w[i]) : i \in DOMAIN w}
           z == t.possibilities \cup o \cup q
<1>1. w \in Seq(S) /\ \A i \in DOMAIN w : w[i] \in S
  <2>1. w \in Seq(S)
    BY MovedType
  <2> HIDE DEF w, S
  <2> QED
    BY <2>1, LenProperties, ElementOfSeq
<1>2. h \in 0..Levels /\ h - 1 \in 0..Levels
  BY SizesAre
<1>3. \A c \in S : PossibilitiesOf(c) \in SUBSET Nat
  BY <1>2, NodesAre DEF PossibilitiesOf, NodeOf
<1>4. t.possibilities \in SUBSET Nat /\ o \in SUBSET Nat
  BY <1>2, NodesAre DEF NodeOf, OwnPossibility
<1>5. q \in SUBSET Nat
  <2> HIDE DEF w, S
  <2> QED
    BY <1>1, <1>3
<1>6. z \in SUBSET Nat
  <2> HIDE DEF q, o
  <2> QED
    BY <1>4, <1>5
<1>7. u = [t EXCEPT !.children = w, !.possibilities = z]
  BY DEF AttachedOne
<1>8. t \in NodesOver(S) /\ Null \notin NodesOver(S) /\ Trees[h] = {Null} \cup NodesOver(S)
  BY TreesAre
<1> HIDE DEF z, w, S
<1>9. /\ u \in NodesOver(S)
      /\ u.letter = t.letter /\ u.cell = t.cell /\ u.points = t.points
      /\ u.bound = t.bound /\ u.possibilities = z
      /\ u.children = w
  BY <1>1, <1>6, <1>7, <1>8 DEF NodesOver
<1>10. u \in Trees[h] /\ u # Null
  BY <1>8, <1>9
<1> QED
  BY <1>1, <1>9, <1>10 DEF z, w, S

\* Prune, level by level.
LEMMA PruneIs ==
    \E p : /\ IsPruning(p)
           /\ \A n \in Trees[Levels] : Prune(n) = p[Levels][n]
<1> DEFINE One(v, t) == PrunedOne(v, t)
           E(f) == [h \in 0..Levels |-> [t \in Trees[h] |-> One(f[h - 1], t)]]
           c == CHOOSE f : f = E(f)
           V == [h \in 0..Levels |-> [Trees[h] -> Trees[h]]]
           base == [t \in Trees[0] |-> Null]
           step == [h \in 1..Levels |-> [v \in V[h - 1] |-> [t \in Trees[h] |-> One(v, t)]]]
           N == Levels
<1>1. N \in Nat /\ 0 \in 0..N /\ \A h \in 1..N : h \in 0..N /\ h - 1 \in 0..N /\ h # 0
  BY SizesAre
<1>2. \A h \in 0..N : Null \in Trees[h]
  BY TreesAre, SizesAre
<1>3. \A h \in 1..N : \A v \in [Trees[h - 1] -> Trees[h - 1]] : \A t \in Trees[h] :
          One(v, t) \in Trees[h]
  <2>1. ASSUME NEW h \in 1..N, NEW v \in [Trees[h - 1] -> Trees[h - 1]], NEW t \in Trees[h]
        PROVE  One(v, t) \in Trees[h]
    <3>1. CASE t = Null \/ Worthless(t)
      BY <1>1, <1>2, <3>1 DEF PrunedOne
    <3>2. CASE ~(t = Null \/ Worthless(t))
      BY <3>2, PrunedOneIs
    <3> QED
      BY <3>1, <3>2
  <2> QED
    BY <2>1
<1>4. base \in V[0]
  BY <1>1, <1>2
<1>5. \A v : One(v, Null) = Null
  BY DEF PrunedOne
<1> HIDE DEF One
<1>6. ASSUME NEW h \in 1..N, NEW v \in V[h - 1]
      PROVE  step[h][v] \in V[h] /\ step[h][v] = [t \in Trees[h] |-> One(v, t)]
  <2>1. v \in [Trees[h - 1] -> Trees[h - 1]]
    BY <1>1
  <2>2. step[h][v] = [t \in Trees[h] |-> One(v, t)]
    OBVIOUS
  <2> QED
    BY <1>1, <1>3, <2>1, <2>2
<1> HIDE DEF V, base, step, N
<1>7. PICK f : /\ f = [j \in 0..N |-> f[j]]
               /\ f[0] = base
               /\ \A j \in 0..N : f[j] \in V[j]
               /\ \A j \in 1..N : f[j] = step[j][f[j - 1]]
  <2>2. N \in Nat /\ \A j \in 1..N : \A S \in V[j - 1] : step[j][S] \in V[j]
    BY <1>1, <1>6
  <2>3. \E f : Leads(f, N, base, step, V)
    BY ONLY <1>4, <2>2, LevelsExist
  <2> QED
    BY <2>3 DEF Leads
<1>8. \A j \in 1..N : f[j] = [t \in Trees[j] |-> One(f[j - 1], t)]
  BY ZenonT(20), <1>1, <1>6, <1>7
<1>9. f[0] = [t \in Trees[0] |-> One(f[0 - 1], t)]
  BY <1>5, <1>7, TreesAre DEF base
<1>10. \A j \in 0..N : f[j] = [t \in Trees[j] |-> One(f[j - 1], t)]
  BY <1>8, <1>9
<1>11. f = E(f)
  BY <1>7, <1>10 DEF N
<1>12. c = E(c)
  <2> HIDE DEF E
  <2> QED
    BY <1>11
<1>13. \A n \in Trees[Levels] : Prune(n) = c[Levels][n]
  BY DEF Prune, One, PrunedOne, Moved
<1> HIDE DEF c
<1>14. \A j \in 0..N : c[j] = [t \in Trees[j] |-> One(c[j - 1], t)]
  BY <1>12 DEF N
<1> DEFINE T == {j \in 0..N : c[j] \in [Trees[j] -> Trees[j]]}
<1>15. 0 \in T
  <2>1. \A t \in Trees[0] : One(c[0 - 1], t) \in Trees[0]
    BY <1>1, <1>2, <1>5, TreesAre
  <2>2. c[0] = [t \in Trees[0] |-> One(c[0 - 1], t)]
    BY <1>1, <1>14
  <2>3. c[0] \in [Trees[0] -> Trees[0]]
    BY <2>1, <2>2
  <2> QED
    BY <1>1, <2>3
<1>16. ASSUME NEW j \in 1..N, j - 1 \in T PROVE j \in T
  <2> DEFINE v == c[j - 1]
  <2>1. v \in [Trees[j - 1] -> Trees[j - 1]] /\ j \in 0..N
    BY <1>1, <1>16
  <2>2. c[j] = [t \in Trees[j] |-> One(v, t)]
    BY <1>14, <2>1
  <2> HIDE DEF v
  <2>3. \A t \in Trees[j] : One(v, t) \in Trees[j]
    BY <1>3, <2>1
  <2>4. c[j] \in [Trees[j] -> Trees[j]]
    BY <2>2, <2>3
  <2> QED
    BY <2>1, <2>4
<1> HIDE DEF T
<1>17. \A j \in 0..N : j \in T
  BY ONLY <1>1, <1>15, <1>16, StepsUp
<1>18. IsPruning(c)
  BY <1>14, <1>17 DEF IsPruning, T, N, One
<1> QED
  BY <1>13, <1>18

\* AttachPossibilities, level by level.
LEMMA AttachIs ==
    \E p : /\ IsAttaching(p)
           /\ \A n \in Trees[Levels] : AttachPossibilities(n) = p[Levels][n]
<1> DEFINE One(v, t) == AttachedOne(v, t)
           E(f) == [h \in 0..Levels |-> [t \in Trees[h] |-> One(f[h - 1], t)]]
           c == CHOOSE f : f = E(f)
           V == [h \in 0..Levels |-> [Trees[h] -> Trees[h]]]
           base == [t \in Trees[0] |-> Null]
           step == [h \in 1..Levels |-> [v \in V[h - 1] |-> [t \in Trees[h] |-> One(v, t)]]]
           N == Levels
<1>1. N \in Nat /\ 0 \in 0..N /\ \A h \in 1..N : h \in 0..N /\ h - 1 \in 0..N /\ h # 0
  BY SizesAre
<1>2. \A h \in 0..N : Null \in Trees[h]
  BY TreesAre, SizesAre
<1>3. \A h \in 1..N : \A v \in [Trees[h - 1] -> Trees[h - 1]] : \A t \in Trees[h] :
          One(v, t) \in Trees[h]
  <2>1. ASSUME NEW h \in 1..N, NEW v \in [Trees[h - 1] -> Trees[h - 1]], NEW t \in Trees[h]
        PROVE  One(v, t) \in Trees[h]
    <3>1. CASE t = Null
      BY <1>1, <1>2, <3>1 DEF AttachedOne
    <3>2. CASE t # Null
      BY <3>2, AttachedOneIs
    <3> QED
      BY <3>1, <3>2
  <2> QED
    BY <2>1
<1>4. base \in V[0]
  BY <1>1, <1>2
<1>5. \A v : One(v, Null) = Null
  BY DEF AttachedOne
<1> HIDE DEF One
<1>6. ASSUME NEW h \in 1..N, NEW v \in V[h - 1]
      PROVE  step[h][v] \in V[h] /\ step[h][v] = [t \in Trees[h] |-> One(v, t)]
  <2>1. v \in [Trees[h - 1] -> Trees[h - 1]]
    BY <1>1
  <2>2. step[h][v] = [t \in Trees[h] |-> One(v, t)]
    OBVIOUS
  <2> QED
    BY <1>1, <1>3, <2>1, <2>2
<1> HIDE DEF V, base, step, N
<1>7. PICK f : /\ f = [j \in 0..N |-> f[j]]
               /\ f[0] = base
               /\ \A j \in 0..N : f[j] \in V[j]
               /\ \A j \in 1..N : f[j] = step[j][f[j - 1]]
  <2>2. N \in Nat /\ \A j \in 1..N : \A S \in V[j - 1] : step[j][S] \in V[j]
    BY <1>1, <1>6
  <2>3. \E f : Leads(f, N, base, step, V)
    BY ONLY <1>4, <2>2, LevelsExist
  <2> QED
    BY <2>3 DEF Leads
<1>8. \A j \in 1..N : f[j] = [t \in Trees[j] |-> One(f[j - 1], t)]
  BY <1>1, <1>6, <1>7
<1>9. f[0] = [t \in Trees[0] |-> One(f[0 - 1], t)]
  BY <1>5, <1>7, TreesAre DEF base
<1>10. \A j \in 0..N : f[j] = [t \in Trees[j] |-> One(f[j - 1], t)]
  BY <1>8, <1>9
<1>11. f = E(f)
  BY <1>7, <1>10 DEF N
<1>12. c = E(c)
  <2> HIDE DEF E
  <2> QED
    BY <1>11
<1>13. \A n \in Trees[Levels] : AttachPossibilities(n) = c[Levels][n]
  BY DEF AttachPossibilities, One, AttachedOne, Moved
<1> HIDE DEF c
<1>14. \A j \in 0..N : c[j] = [t \in Trees[j] |-> One(c[j - 1], t)]
  BY <1>12 DEF N
<1> DEFINE T == {j \in 0..N : c[j] \in [Trees[j] -> Trees[j]]}
<1>15. 0 \in T
  <2>1. \A t \in Trees[0] : One(c[0 - 1], t) \in Trees[0]
    BY <1>1, <1>2, <1>5, TreesAre
  <2>2. c[0] = [t \in Trees[0] |-> One(c[0 - 1], t)]
    BY <1>1, <1>14
  <2>3. c[0] \in [Trees[0] -> Trees[0]]
    BY <2>1, <2>2
  <2> QED
    BY <1>1, <2>3
<1>16. ASSUME NEW j \in 1..N, j - 1 \in T PROVE j \in T
  <2> DEFINE v == c[j - 1]
  <2>1. v \in [Trees[j - 1] -> Trees[j - 1]] /\ j \in 0..N
    BY <1>1, <1>16
  <2>2. c[j] = [t \in Trees[j] |-> One(v, t)]
    BY <1>14, <2>1
  <2> HIDE DEF v
  <2>3. \A t \in Trees[j] : One(v, t) \in Trees[j]
    BY <1>3, <2>1
  <2>4. c[j] \in [Trees[j] -> Trees[j]]
    BY <2>2, <2>3
  <2> QED
    BY <2>1, <2>4
<1> HIDE DEF T
<1>17. \A j \in 0..N : j \in T
  BY ONLY <1>1, <1>15, <1>16, StepsUp
<1>18. IsAttaching(c)
  BY <1>14, <1>17 DEF IsAttaching, T, N, One
<1> QED
  BY <1>13, <1>18

\* What Prune and AttachPossibilities leave of a node.
LEMMA PrunedSame ==
    ASSUME NEW p, IsPruning(p), NEW h \in 0..Levels
    PROVE  /\ p[h][Null] = Null
           /\ \A t \in Trees[h] :
                /\ p[h][t] \in Trees[h]
                /\ t # Null /\ ~Worthless(t) =>
                       /\ p[h][t] # Null
                       /\ p[h][t].letter = t.letter /\ p[h][t].cell = t.cell
                       /\ p[h][t].points = t.points /\ p[h][t].bound = t.bound
                       /\ p[h][t].possibilities = t.possibilities
                /\ t = Null \/ Worthless(t) => p[h][t] = Null /\ BoundOf(t) = 0
<1>1. Null \in Trees[h]
  BY TreesAre, SizesAre
<1>2. p[h] \in [Trees[h] -> Trees[h]] /\ \A t \in Trees[h] : p[h][t] = PrunedOne(p[h - 1], t)
  BY DEF IsPruning
<1>3. p[h][Null] = Null
  BY <1>1, <1>2 DEF PrunedOne
<1>4. ASSUME NEW t \in Trees[h], t # Null, ~Worthless(t)
      PROVE  /\ p[h][t] # Null
             /\ p[h][t].letter = t.letter /\ p[h][t].cell = t.cell
             /\ p[h][t].points = t.points /\ p[h][t].bound = t.bound
             /\ p[h][t].possibilities = t.possibilities
  <2> DEFINE v == p[h - 1]
             u == p[h][t]
  <2>1. h \in 1..Levels /\ h - 1 \in 0..Levels
    BY <1>4, NodesAre DEF NodeOf
  <2>2. v \in [Trees[h - 1] -> Trees[h - 1]] /\ u = PrunedOne(v, t)
    BY <1>2, <2>1 DEF IsPruning
  <2> HIDE DEF v, u
  <2>3. /\ u # Null
        /\ u.letter = t.letter /\ u.cell = t.cell /\ u.points = t.points
        /\ u.bound = t.bound /\ u.possibilities = t.possibilities
    BY <1>4, <2>1, <2>2, PrunedOneIs
  <2> QED
    BY <2>3 DEF u
<1>5. ASSUME NEW t \in Trees[h], t = Null \/ Worthless(t) PROVE p[h][t] = Null /\ BoundOf(t) = 0
  BY <1>2, <1>5 DEF PrunedOne, Worthless, BoundOf
<1> QED
  BY <1>2, <1>3, <1>4, <1>5

\* What it makes of the children.
LEMMA PrunedChildren ==
    ASSUME NEW p, IsPruning(p), NEW h \in 1..Levels,
           NEW t \in Trees[h], t # Null, ~Worthless(t)
    PROVE  LET v == p[h - 1]
               w == Moved(v, t)
               x == p[h][t].children
           IN  /\ w \in Seq(Trees[h - 1]) /\ x = NonNull(w)
               /\ DOMAIN w = DOMAIN t.children
               /\ \A i \in DOMAIN w : w[i] = v[t.children[i]]
               /\ \A j \in DOMAIN x : \E i \in DOMAIN w : x[j] = w[i]
               /\ \A j \in DOMAIN x : x[j] # Null
               /\ \A i \in DOMAIN w : w[i] # Null => \E j \in DOMAIN x : x[j] = w[i]
<1> DEFINE v == p[h - 1]
           u == p[h][t]
           w == Moved(v, t)
           x == u.children
<1>1. h \in 0..Levels /\ h - 1 \in 0..Levels
  BY SizesAre
<1>2. v \in [Trees[h - 1] -> Trees[h - 1]] /\ u = PrunedOne(v, t)
  BY <1>1 DEF IsPruning
<1>3. DOMAIN w = DOMAIN t.children /\ \A i \in DOMAIN w : w[i] = v[t.children[i]]
  BY DEF Moved
<1> HIDE DEF v, u
<1>4. /\ w \in Seq(Trees[h - 1]) /\ x = NonNull(w)
      /\ \A z : z \in ToSet(x) <=> z \in ToSet(w) /\ z # Null
  <2>1. w \in Seq(Trees[h - 1])
    BY <1>2, PrunedOneIs
  <2>2. x = NonNull(w)
    BY <1>2, PrunedOneIs
  <2>3. \A z : z \in ToSet(x) <=> z \in ToSet(w) /\ z # Null
    BY <1>2, PrunedOneIs
  <2> QED
    BY <2>1, <2>2, <2>3
<1> HIDE DEF w, x
<1>5. ASSUME NEW j \in DOMAIN x PROVE x[j] # Null /\ \E i \in DOMAIN w : x[j] = w[i]
  <2>1. x[j] \in ToSet(x)
    BY DEF ToSet
  <2>2. x[j] \in ToSet(w) /\ x[j] # Null
    BY <1>4, <2>1
  <2> QED
    BY <2>2 DEF ToSet
<1>6. ASSUME NEW i \in DOMAIN w, w[i] # Null PROVE \E j \in DOMAIN x : x[j] = w[i]
  <2>1. w[i] \in ToSet(w)
    BY DEF ToSet
  <2>2. w[i] \in ToSet(x)
    BY <1>4, <1>6, <2>1
  <2> QED
    BY <2>2 DEF ToSet
<1> QED
  BY <1>3, <1>4, <1>5, <1>6 DEF v, u, w, x

\* The tree has the shape and the bounds it had.
LEMMA AttachedSame ==
    ASSUME NEW p, IsAttaching(p), NEW h \in 0..Levels
    PROVE  /\ p[h][Null] = Null
           /\ \A t \in Trees[h] :
                /\ p[h][t] \in Trees[h]
                /\ t # Null =>
                       /\ p[h][t] # Null
                       /\ p[h][t].letter = t.letter /\ p[h][t].cell = t.cell
                       /\ p[h][t].points = t.points /\ p[h][t].bound = t.bound
<1>1. Null \in Trees[h]
  BY TreesAre, SizesAre
<1>2. p[h] \in [Trees[h] -> Trees[h]] /\ \A t \in Trees[h] : p[h][t] = AttachedOne(p[h - 1], t)
  BY DEF IsAttaching
<1>3. p[h][Null] = Null
  BY <1>1, <1>2 DEF AttachedOne
<1>4. ASSUME NEW t \in Trees[h], t # Null
      PROVE  /\ p[h][t] # Null
             /\ p[h][t].letter = t.letter /\ p[h][t].cell = t.cell
             /\ p[h][t].points = t.points /\ p[h][t].bound = t.bound
  <2> DEFINE v == p[h - 1]
             u == p[h][t]
  <2>1. h \in 1..Levels /\ h - 1 \in 0..Levels
    BY <1>4, NodesAre DEF NodeOf
  <2>2. v \in [Trees[h - 1] -> Trees[h - 1]] /\ u = AttachedOne(v, t)
    BY <1>2, <2>1 DEF IsAttaching
  <2> HIDE DEF v, u
  <2>3. /\ u # Null
        /\ u.letter = t.letter /\ u.cell = t.cell /\ u.points = t.points
        /\ u.bound = t.bound
    BY <1>4, <2>1, <2>2, AttachedOneIs
  <2> QED
    BY <2>3 DEF u
<1> QED
  BY <1>2, <1>3, <1>4

PossibilitiesIn(x) == UNION {PossibilitiesOf(x[i]) : i \in DOMAIN x}

\* The children have theirs attached, and the node has them all.
LEMMA AttachedChildren ==
    ASSUME NEW p, IsAttaching(p), NEW h \in 1..Levels, NEW t \in Trees[h], t # Null
    PROVE  LET v == p[h - 1]
               x == p[h][t].children
           IN  /\ x \in Seq(Trees[h - 1])
               /\ DOMAIN x = DOMAIN t.children
               /\ \A i \in DOMAIN x : x[i] = v[t.children[i]]
               /\ p[h][t].possibilities =
                      t.possibilities \cup OwnPossibility(t) \cup PossibilitiesIn(x)
<1> DEFINE v == p[h - 1]
           u == p[h][t]
           w == Moved(v, t)
<1>1. h \in 0..Levels /\ h - 1 \in 0..Levels
  BY SizesAre
<1>2. v \in [Trees[h - 1] -> Trees[h - 1]] /\ u = AttachedOne(v, t)
  BY <1>1 DEF IsAttaching
<1>3. DOMAIN w = DOMAIN t.children /\ \A i \in DOMAIN w : w[i] = v[t.children[i]]
  BY DEF Moved
<1> HIDE DEF v, u
<1>4. /\ w \in Seq(Trees[h - 1]) /\ u.children = w
      /\ u.possibilities = t.possibilities \cup OwnPossibility(t) \cup PossibilitiesIn(w)
  BY <1>2, AttachedOneIs DEF PossibilitiesIn
<1> HIDE DEF w
<1> QED
  BY <1>3, <1>4 DEF v, u

-----------------------------------------------------------------------------
(* What they keep. *)

\* Pruned, a node still has the bound that its children's bounds make.
LEMMA PruneKeepsGood ==
    ASSUME NEW G, IsKept(G, LocallyGood), NEW p, IsPruning(p)
    PROVE  \A h \in 0..Levels : \A t \in G[h] :
               p[h][t] \in G[h] /\ BoundOf(p[h][t]) = BoundOf(t)
<1> DEFINE T == {n \in 0..Levels : \A t \in G[n] :
                    p[n][t] \in G[n] /\ BoundOf(p[n][t]) = BoundOf(t)}
<1>1. Levels \in Nat /\ 0 \in 0..Levels
      /\ \A n \in 1..Levels : n \in 0..Levels /\ n - 1 \in 0..Levels
  BY SizesAre
<1>2. \A n \in 0..Levels : p[n][Null] = Null /\ Null \in G[n] /\ BoundOf(Null) = 0
  BY PrunedSame, KeptAre DEF BoundOf
<1>3. 0 \in T
  <2>1. \A t \in G[0] : t = Null
    BY <1>1, KeptAre, TreesAre
  <2> QED
    BY <1>1, <1>2, <2>1
<1>4. ASSUME NEW n \in 1..Levels, n - 1 \in T PROVE n \in T
  <2>1. ASSUME NEW t \in G[n] PROVE p[n][t] \in G[n] /\ BoundOf(p[n][t]) = BoundOf(t)
    <3>1. t \in Trees[n] /\ n \in 0..Levels /\ n - 1 \in 0..Levels
      BY <1>1, KeptAre
    <3>2. CASE t = Null \/ Worthless(t)
      <4>1. p[n][t] = Null /\ BoundOf(t) = 0
        BY <3>1, <3>2, PrunedSame
      <4> QED
        BY <1>2, <3>1, <4>1
    <3>3. CASE t # Null /\ ~Worthless(t)
      <4> DEFINE v == p[n - 1]
                 u == p[n][t]
                 w == Moved(v, t)
                 x == u.children
                 l == t.letter
                 q == t.points
                 S == Trees[n - 1]
                 b == [c \in S |-> BoundOf(c)]
      <4>1. /\ u \in Trees[n] /\ u # Null
            /\ u.letter = l /\ u.cell = t.cell /\ u.points = q
            /\ u.bound = t.bound /\ u.possibilities = t.possibilities
        BY <3>1, <3>3, PrunedSame
      <4>2. /\ t \in LocallyGood /\ \A i \in DOMAIN t.children : t.children[i] \in G[n - 1]
        BY <3>1, <3>3, KeptAre
      <4>3. /\ w \in Seq(S) /\ x = NonNull(w)
            /\ DOMAIN w = DOMAIN t.children
            /\ \A i \in DOMAIN w : w[i] = v[t.children[i]]
            /\ \A j \in DOMAIN x : \E i \in DOMAIN w : x[j] = w[i]
            /\ \A j \in DOMAIN x : x[j] # Null
        BY <3>1, <3>3, PrunedChildren
      <4> HIDE DEF v, w, u, x
      <4>4. \A i \in DOMAIN w : w[i] \in G[n - 1] /\ BoundOf(w[i]) = BoundOf(t.children[i])
        BY <1>4, <4>2, <4>3 DEF v
      <4>5. b \in [S -> Nat] /\ b[Null] = 0 /\ \A c \in S : b[c] = BoundOf(c)
        <5>1. Null \in S
          BY <1>2, <3>1, KeptAre
        <5> QED
          BY <1>2, <3>1, <5>1, BoundsType
      <4> HIDE DEF b, l, q, S
      <4>6. Combined(l, q, Over(b, x)) = Combined(l, q, Over(b, w))
        <5>1. Null \in S => b[Null] = 0
          BY <4>5
        <5>2. Combined(l, q, Over(b, NonNull(w))) = Combined(l, q, Over(b, w))
          BY <4>3, <4>5, <5>1, CombinedWithout
        <5> QED
          BY <4>3, <5>2
      <4>7. Over(b, w) = BoundsOf(t)
        <5>1. \A i \in DOMAIN w : b[w[i]] = BoundOf(t.children[i])
          BY <3>1, <4>4, <4>5, KeptAre DEF S
        <5> QED
          BY <4>3, <5>1 DEF BoundsOf, Over
      <4>8. Over(b, x) = BoundsOf(u)
        <5>1. \A i \in DOMAIN x : b[x[i]] = BoundOf(x[i])
          BY <3>1, <4>3, <4>4, <4>5, KeptAre DEF S
        <5> QED
          BY <5>1 DEF BoundsOf, Over, x
      <4>9. u.bound = Combined(u.letter, u.points, BoundsOf(u))
        BY <4>1, <4>2, <4>6, <4>7, <4>8 DEF LocallyGood, l, q
      <4>10. ASSUME u.letter = ChoiceNode, NEW j \in DOMAIN x
             PROVE  x[j].letter >= 0 /\ x[j].cell = u.cell
        <5>1. PICK i \in DOMAIN w : x[j] = w[i] /\ w[i] # Null
          BY <4>3
        <5> DEFINE c == t.children[i]
        <5>2. c \in G[n - 1] /\ w[i] = v[c]
          BY <4>2, <4>3, <5>1
        <5> HIDE DEF c
        <5>3. c \in Trees[n - 1]
          BY <3>1, <5>2, KeptAre
        <5>4. c # Null /\ w[i].letter = c.letter /\ w[i].cell = c.cell
          BY <3>1, <5>1, <5>2, <5>3, PrunedSame DEF v
        <5>5. c.letter >= 0 /\ c.cell = t.cell
          BY <4>1, <4>2, <4>3, <4>10, <5>1, <5>4 DEF LocallyGood, c, l
        <5> QED
          BY <4>1, <5>1, <5>4, <5>5
      <4>11. u \in LocallyGood
        <5>1. u \in AllTrees
          BY <3>1, <4>1 DEF AllTrees
        <5>2. OwnPossibility(u) = OwnPossibility(t)
          BY <4>1 DEF OwnPossibility, l
        <5>3. OwnPossibility(u) \subseteq Squares /\ u.possibilities \subseteq Squares
          BY <4>1, <4>2, <5>2 DEF LocallyGood
        <5> QED
          BY <4>9, <4>10, <5>1, <5>3 DEF LocallyGood, x
      <4>12. \A j \in DOMAIN u.children : u.children[j] \in G[n - 1]
        BY <4>3, <4>4 DEF x
      <4>13. u \in G[n]
        BY <3>1, <4>1, <4>11, <4>12, KeptAre
      <4>14. BoundOf(u) = BoundOf(t)
        BY <3>3, <4>1 DEF BoundOf
      <4> QED
        BY <4>13, <4>14 DEF u
    <3> QED
      BY <3>2, <3>3
  <2> QED
    BY <1>1, <2>1
<1> HIDE DEF T
<1>5. \A n \in 0..Levels : n \in T
  BY ONLY <1>1, <1>3, <1>4, StepsUp
<1> QED
  BY <1>5 DEF T

\* Pruned, it still has its own cell and the possibilities of its children.
LEMMA PruneKeepsCover ==
    ASSUME NEW C, IsKept(C, Covers), NEW p, IsPruning(p)
    PROVE  \A h \in 0..Levels : \A t \in C[h] :
               p[h][t] \in C[h] /\ PossibilitiesOf(p[h][t]) \subseteq PossibilitiesOf(t)
<1> DEFINE T == {n \in 0..Levels : \A t \in C[n] :
                    p[n][t] \in C[n] /\ PossibilitiesOf(p[n][t]) \subseteq PossibilitiesOf(t)}
<1>1. Levels \in Nat /\ 0 \in 0..Levels
      /\ \A n \in 1..Levels : n \in 0..Levels /\ n - 1 \in 0..Levels
  BY SizesAre
<1>2. \A n \in 0..Levels : p[n][Null] = Null /\ Null \in C[n] /\ PossibilitiesOf(Null) = {}
  BY PrunedSame, KeptAre DEF PossibilitiesOf
<1>3. 0 \in T
  <2>1. \A t \in C[0] : t = Null
    BY <1>1, KeptAre, TreesAre
  <2> QED
    BY <1>1, <1>2, <2>1
<1>4. ASSUME NEW n \in 1..Levels, n - 1 \in T PROVE n \in T
  <2>1. ASSUME NEW t \in C[n]
        PROVE  p[n][t] \in C[n] /\ PossibilitiesOf(p[n][t]) \subseteq PossibilitiesOf(t)
    <3>1. t \in Trees[n] /\ n \in 0..Levels /\ n - 1 \in 0..Levels
      BY <1>1, KeptAre
    <3>2. CASE t = Null \/ Worthless(t)
      <4>1. p[n][t] = Null
        BY <3>1, <3>2, PrunedSame
      <4> QED
        BY <1>2, <3>1, <4>1
    <3>3. CASE t # Null /\ ~Worthless(t)
      <4> DEFINE v == p[n - 1]
                 u == p[n][t]
                 w == Moved(v, t)
                 x == u.children
      <4>1. /\ u \in Trees[n] /\ u # Null
            /\ u.letter = t.letter /\ u.cell = t.cell
            /\ u.possibilities = t.possibilities
        BY <3>1, <3>3, PrunedSame
      <4>2. /\ t \in Covers /\ \A i \in DOMAIN t.children : t.children[i] \in C[n - 1]
        BY <3>1, <3>3, KeptAre
      <4>3. /\ DOMAIN w = DOMAIN t.children
            /\ \A i \in DOMAIN w : w[i] = v[t.children[i]]
            /\ \A j \in DOMAIN x : \E i \in DOMAIN w : x[j] = w[i]
        BY <3>1, <3>3, PrunedChildren
      <4> HIDE DEF v, w, u, x
      <4>4. \A i \in DOMAIN w : w[i] \in C[n - 1] /\ PossibilitiesOf(w[i]) \subseteq t.possibilities
        BY <1>4, <4>2, <4>3 DEF v, Covers
      <4>5. \A j \in DOMAIN x : x[j] \in C[n - 1] /\ PossibilitiesOf(x[j]) \subseteq u.possibilities
        BY <4>1, <4>3, <4>4
      <4>6. OwnPossibility(u) \subseteq u.possibilities
        <5>1. OwnPossibility(u) = OwnPossibility(t)
          BY <4>1 DEF OwnPossibility
        <5> QED
          BY <4>1, <4>2, <5>1 DEF Covers
      <4>7. u \in Covers
        <5>1. u \in AllTrees
          BY <3>1, <4>1 DEF AllTrees
        <5> QED
          BY <4>5, <4>6, <5>1 DEF Covers, x
      <4>8. u \in C[n]
        BY <3>1, <4>1, <4>5, <4>7, KeptAre DEF x
      <4>9. PossibilitiesOf(u) = PossibilitiesOf(t)
        BY <3>3, <4>1 DEF PossibilitiesOf
      <4> QED
        BY <4>8, <4>9 DEF u
    <3> QED
      BY <3>2, <3>3
  <2> QED
    BY <1>1, <2>1
<1> HIDE DEF T
<1>5. \A n \in 0..Levels : n \in T
  BY ONLY <1>1, <1>3, <1>4, StepsUp
<1> QED
  BY <1>5 DEF T

\* With possibilities attached bounds are right, and possibilities cover.
LEMMA AttachKeepsGood ==
    ASSUME NEW G, IsKept(G, LocallyGood), NEW C, IsKept(C, Covers), NEW p, IsAttaching(p)
    PROVE  \A h \in 0..Levels : \A t \in G[h] :
               p[h][t] \in G[h] \cap C[h] /\ BoundOf(p[h][t]) = BoundOf(t)
<1> DEFINE T == {n \in 0..Levels : \A t \in G[n] :
                    p[n][t] \in G[n] \cap C[n] /\ BoundOf(p[n][t]) = BoundOf(t)}
<1>1. Levels \in Nat /\ 0 \in 0..Levels
      /\ \A n \in 1..Levels : n \in 0..Levels /\ n - 1 \in 0..Levels
  BY SizesAre
<1>2. \A n \in 0..Levels : p[n][Null] = Null /\ Null \in G[n] \cap C[n]
  BY AttachedSame, KeptAre
<1>3. 0 \in T
  <2>1. \A t \in G[0] : t = Null
    BY <1>1, KeptAre, TreesAre
  <2> QED
    BY <1>1, <1>2, <2>1
<1>4. ASSUME NEW n \in 1..Levels, n - 1 \in T PROVE n \in T
  <2>1. ASSUME NEW t \in G[n], t # Null
        PROVE  p[n][t] \in G[n] \cap C[n] /\ BoundOf(p[n][t]) = BoundOf(t)
    <3>1. t \in Trees[n] /\ n \in 0..Levels /\ n - 1 \in 0..Levels
      BY <1>1, KeptAre
    <3> DEFINE v == p[n - 1]
               u == p[n][t]
               x == u.children
               o == OwnPossibility(t)
               q == PossibilitiesIn(x)
    <3>2. /\ u \in Trees[n] /\ u # Null /\ u \in AllTrees
          /\ u.letter = t.letter /\ u.cell = t.cell /\ u.points = t.points
          /\ u.bound = t.bound
      BY <2>1, <3>1, AttachedSame DEF AllTrees
    <3>3. t \in LocallyGood /\ \A i \in DOMAIN t.children : t.children[i] \in G[n - 1]
      BY <2>1, <3>1, KeptAre
    <3>4. /\ DOMAIN x = DOMAIN t.children
          /\ \A i \in DOMAIN x : x[i] = v[t.children[i]]
          /\ u.possibilities = t.possibilities \cup o \cup q
      <4>1. DOMAIN x = DOMAIN t.children
        BY <2>1, <3>1, AttachedChildren
      <4>2. \A i \in DOMAIN x : x[i] = v[t.children[i]]
        BY <2>1, <3>1, AttachedChildren
      <4>3. u.possibilities = t.possibilities \cup o \cup q
        BY <2>1, <3>1, AttachedChildren
      <4> QED
        BY <4>1, <4>2, <4>3
    <3>5. OwnPossibility(u) = o
      BY <3>2 DEF OwnPossibility
    <3> HIDE DEF v, u, x, o
    <3>6. \A i \in DOMAIN x : /\ x[i] \in G[n - 1] \cap C[n - 1]
                              /\ BoundOf(x[i]) = BoundOf(t.children[i])
      BY <1>4, <3>3, <3>4 DEF v
    <3>7. \A i \in DOMAIN x : PossibilitiesOf(x[i]) \subseteq Squares
      <4>1. \A c \in G[n - 1] : PossibilitiesOf(c) \subseteq Squares
        BY <3>1, KeptAre DEF PossibilitiesOf, LocallyGood
      <4> QED
        BY <3>6, <4>1
    <3>8. o \subseteq Squares /\ u.possibilities \subseteq Squares
      <4>1. o \subseteq Squares /\ t.possibilities \subseteq Squares
        BY <3>3 DEF LocallyGood, o
      <4>2. q \subseteq Squares
        BY <3>7 DEF PossibilitiesIn
      <4> HIDE DEF q
      <4> QED
        BY <3>4, <4>1, <4>2
    <3>9. BoundsOf(u) = BoundsOf(t)
      BY <3>4, <3>6 DEF BoundsOf, x
    <3>10. ASSUME u.letter = ChoiceNode, NEW j \in DOMAIN x, x[j] # Null
           PROVE  x[j].letter >= 0 /\ x[j].cell = u.cell
      <4> DEFINE c == t.children[j]
      <4>1. c \in G[n - 1] /\ x[j] = v[c] /\ j \in DOMAIN t.children
        BY <3>3, <3>4, <3>10
      <4> HIDE DEF c
      <4>2. c \in Trees[n - 1]
        BY <3>1, <4>1, KeptAre
      <4>3. c # Null /\ x[j].letter = c.letter /\ x[j].cell = c.cell
        BY <3>1, <3>10, <4>1, <4>2, AttachedSame DEF v
      <4>4. c.letter >= 0 /\ c.cell = t.cell
        BY <3>2, <3>3, <3>10, <4>1, <4>3 DEF LocallyGood, c
      <4> QED
        BY <3>2, <4>3, <4>4
    <3>11. u \in LocallyGood
      <4>1. u.bound = Combined(u.letter, u.points, BoundsOf(u))
        BY <3>2, <3>3, <3>9 DEF LocallyGood
      <4> QED
        BY <3>2, <3>5, <3>8, <3>10, <4>1 DEF LocallyGood, x
    <3>12. u \in Covers
      <4>1. o \subseteq u.possibilities
        BY <3>4
      <4>2. \A i \in DOMAIN x : PossibilitiesOf(x[i]) \subseteq u.possibilities
        BY <3>4 DEF PossibilitiesIn
      <4> QED
        BY <3>2, <3>5, <4>1, <4>2 DEF Covers, x
    <3>13. u \in G[n] \cap C[n]
      BY <3>1, <3>2, <3>6, <3>11, <3>12, KeptAre DEF x
    <3>14. BoundOf(u) = BoundOf(t)
      BY <2>1, <3>2 DEF BoundOf
    <3> QED
      BY <3>13, <3>14 DEF u
  <2> QED
    BY <1>1, <1>2, <2>1
<1> HIDE DEF T
<1>5. \A n \in 0..Levels : n \in T
  BY ONLY <1>1, <1>3, <1>4, StepsUp
<1> QED
  BY <1>5 DEF T

\* Prune changes no score, whatever letter is forced.
LEMMA PruneKeepsScore ==
    ASSUME NEW G, IsKept(G, LocallyGood), NEW p, IsPruning(p), NEW k, NEW m,
           NEW f, IsScore(f, {}, ForceOnto(k, m))
    PROVE  \A h \in 0..Levels : \A t \in G[h] : f[h][p[h][t]] = f[h][t]
<1> DEFINE T == {n \in 0..Levels : \A t \in G[n] : f[n][p[n][t]] = f[n][t]}
<1>1. Levels \in Nat /\ 0 \in 0..Levels
      /\ \A n \in 1..Levels : n \in 0..Levels /\ n - 1 \in 0..Levels
  BY SizesAre
<1>2. \A n \in 0..Levels : p[n][Null] = Null /\ f[n][Null] = 0
  BY PrunedSame DEF IsScore
<1>3. 0 \in T
  <2>1. \A t \in G[0] : t = Null
    BY <1>1, KeptAre, TreesAre
  <2> QED
    BY <1>1, <1>2, <2>1
<1> DEFINE o == ForceOnto(k, m)
           none == {}
<1>6. GoesDown(o) /\ IsScore(f, none, o)
  BY ForceGoesDown
<1>7. \A t \in AllTrees : o[t] = Onto(t, k, m)
  BY DEF ForceOnto
<1>8. \A t : t \notin none
  OBVIOUS
<1> HIDE DEF o, none
<1>9. \A n \in 0..Levels : f[n] \in [Trees[n] -> Nat]
  <2>1. ASSUME NEW n \in 0..Levels PROVE f[n] \in [Trees[n] -> Nat]
    <3>1. \A t \in Trees[n] : f[n][t] \in Nat
      BY <1>6, ScoresType
    <3>2. f[n] = [t \in Trees[n] |-> f[n][t]]
      BY <1>6 DEF IsScore
    <3> QED
      BY <3>1, <3>2
  <2> QED
    BY <2>1
<1>4. ASSUME NEW n \in 1..Levels, n - 1 \in T PROVE n \in T
  <2>1. ASSUME NEW t \in G[n] PROVE f[n][p[n][t]] = f[n][t]
    <3>1. t \in Trees[n] /\ n \in 0..Levels /\ n - 1 \in 0..Levels
      BY <1>1, KeptAre
    <3>2. CASE t = Null \/ Worthless(t)
      <4>1. p[n][t] = Null /\ BoundOf(t) = 0
        BY <3>1, <3>2, PrunedSame
      <4>2. f[n][t] = 0
        BY <1>6, <3>1, <4>1, GoodZero DEF none
      <4> QED
        BY <1>2, <3>1, <4>1, <4>2
    <3>3. CASE t # Null /\ ~Worthless(t)
      <4> DEFINE v == p[n - 1]
                 u == p[n][t]
                 w == Moved(v, t)
                 x == u.children
                 l == t.letter
                 q == t.points
                 S == Trees[n - 1]
                 s == f[n - 1]
      <4>1. /\ u \in Trees[n] /\ u # Null
            /\ u.letter = l /\ u.cell = t.cell /\ u.points = q
        BY <3>1, <3>3, PrunedSame
      <4>2. \A i \in DOMAIN t.children : t.children[i] \in G[n - 1] /\ t.children[i] \in S
        BY <3>1, <3>3, KeptAre
      <4>3. /\ w \in Seq(S) /\ x = NonNull(w)
            /\ DOMAIN w = DOMAIN t.children
            /\ \A i \in DOMAIN w : w[i] = v[t.children[i]]
            /\ \A j \in DOMAIN x : \E i \in DOMAIN w : x[j] = w[i]
            /\ \A j \in DOMAIN x : x[j] # Null
            /\ \A i \in DOMAIN w : w[i] # Null => \E j \in DOMAIN x : x[j] = w[i]
        <5>1. /\ w \in Seq(S) /\ x = NonNull(w)
              /\ DOMAIN w = DOMAIN t.children
              /\ \A i \in DOMAIN w : w[i] = v[t.children[i]]
          BY <3>1, <3>3, PrunedChildren
        <5>2. \A j \in DOMAIN x : \E i \in DOMAIN w : x[j] = w[i]
          BY <3>1, <3>3, PrunedChildren
        <5>4. \A j \in DOMAIN x : x[j] # Null
          BY <3>1, <3>3, PrunedChildren
        <5>3. \A i \in DOMAIN w : w[i] # Null => \E j \in DOMAIN x : x[j] = w[i]
          BY <3>1, <3>3, PrunedChildren
        <5> QED
          BY <5>1, <5>2, <5>3, <5>4
      <4>4. t \in AllTrees /\ u \in AllTrees
        BY <3>1, <4>1 DEF AllTrees
      <4>5. f[n][t] = Combined(l, q, [i \in o[t] |-> s[t.children[i]]])
        BY <1>6, <1>8, <3>1, <3>3, <4>4 DEF IsScore
      <4>6. f[n][u] = Combined(l, q, [j \in o[u] |-> s[x[j]]])
        <5> HIDE DEF u
        <5> QED
          BY <1>6, <1>8, <3>1, <4>1, <4>4 DEF IsScore
      <4> HIDE DEF v, w, u, x, s, l, q, S
      <4>7. \A i \in DOMAIN w : s[w[i]] = s[t.children[i]]
        BY <1>4, <4>2, <4>3 DEF s, v
      <4>8. s \in [S -> Nat] /\ s[Null] = 0
        BY <1>2, <1>9, <3>1 DEF s, S
      <4>9. ASSUME NEW i \in DOMAIN w, w[i] # Null
            PROVE  t.children[i] # Null /\ w[i].letter = t.children[i].letter
        <5> DEFINE c == t.children[i]
        <5>1. c \in S /\ w[i] = v[c]
          BY <4>2, <4>3
        <5> HIDE DEF c
        <5>2. c # Null /\ w[i].letter = c.letter
          BY <3>1, <4>9, <5>1, PrunedSame DEF v, S
        <5> QED
          BY <5>2 DEF c
      <4>10. CASE ~(l = ChoiceNode /\ t.cell = k)
        <5>1. o[t] = DOMAIN w /\ o[u] = DOMAIN x
          BY <1>7, <4>1, <4>3, <4>4, <4>10 DEF Onto, l, x
        <5>2. [j \in o[u] |-> s[x[j]]] = Over(s, x)
          BY <5>1 DEF Over
        <5>3. [i \in o[t] |-> s[t.children[i]]] = Over(s, w)
          BY <4>7, <5>1 DEF Over
        <5>4. Combined(l, q, Over(s, NonNull(w))) = Combined(l, q, Over(s, w))
          BY <4>3, <4>8, CombinedWithout
        <5>5. f[n][t] = Combined(l, q, Over(s, w))
          BY <4>5, <5>3
        <5>6. f[n][u] = Combined(l, q, Over(s, x))
          BY <4>6, <5>2
        <5> QED
          BY <4>3, <5>4, <5>5, <5>6 DEF u
      <4>11. CASE l = ChoiceNode /\ t.cell = k
        <5> DEFINE A == o[t]
                   B == o[u]
                   g == [i \in A |-> s[t.children[i]]]
                   d == [j \in B |-> s[x[j]]]
        <5>1. A = Taken(t, m) /\ B = Taken(u, m)
          BY <1>7, <4>1, <4>4, <4>11 DEF Onto, l
        <5>2. \A i \in A : i \in DOMAIN w /\ t.children[i] # Null /\ t.children[i].letter = m
          BY <4>3, <5>1 DEF Taken
        <5>3. \A j \in DOMAIN x : x[j].letter = m => j \in B
          BY <4>3, <5>1 DEF Taken, x
        <5>4. \A j \in B : j \in DOMAIN x /\ x[j].letter = m
          BY <5>1 DEF Taken, x
        <5>5. \A i \in DOMAIN w : t.children[i] # Null /\ t.children[i].letter = m => i \in A
          BY <4>3, <5>1 DEF Taken
        <5> HIDE DEF A, B
        <5>6. ASSUME NEW i \in A PROVE g[i] \in {0} \cup Range(d)
          <6>1. g[i] = s[w[i]]
            BY <4>7, <5>2
          <6>2. CASE w[i] = Null
            BY <4>8, <6>1, <6>2
          <6>3. CASE w[i] # Null
            <7>1. PICK j \in DOMAIN x : x[j] = w[i]
              BY <4>3, <5>2, <6>3
            <7>2. j \in B
              BY <4>9, <5>2, <5>3, <6>3, <7>1
            <7> QED
              BY <6>1, <7>1, <7>2 DEF Range
          <6> QED
            BY <6>2, <6>3
        <5>7. ASSUME NEW j \in B PROVE d[j] \in Range(g)
          <6>1. PICK i \in DOMAIN w : x[j] = w[i] /\ w[i] # Null
            BY <4>3, <5>4
          <6>2. i \in A
            BY <4>9, <5>4, <5>5, <6>1
          <6>3. d[j] = g[i]
            BY <4>7, <6>1, <6>2
          <6> QED
            BY <6>2, <6>3 DEF Range
        <5>8. DOMAIN g = A /\ DOMAIN d = B
          OBVIOUS
        <5> HIDE DEF g, d
        <5>9. {0} \cup Range(g) = {0} \cup Range(d)
          BY <5>6, <5>7, <5>8 DEF Range
        <5>10. Combined(l, q, g) = Combined(l, q, d)
          BY <4>11, <5>9 DEF Combined
        <5> QED
          BY <4>5, <4>6, <5>10 DEF g, d, A, B, u
      <4> QED
        BY <4>10, <4>11
    <3> QED
      BY <3>2, <3>3
  <2> QED
    BY <1>1, <2>1
<1> HIDE DEF T
<1>5. \A n \in 0..Levels : n \in T
  BY ONLY <1>1, <1>3, <1>4, StepsUp
<1> QED
  BY <1>5 DEF T

\* Nor does AttachPossibilities, but for the short cut.
LEMMA AttachKeepsScore ==
    ASSUME NEW G, IsKept(G, LocallyGood), NEW p, IsAttaching(p), NEW k, NEW m,
           NEW f, IsScore(f, {}, ForceOnto(k, m))
    PROVE  \A h \in 0..Levels : \A t \in G[h] : f[h][p[h][t]] = f[h][t]
<1> DEFINE T == {n \in 0..Levels : \A t \in G[n] : f[n][p[n][t]] = f[n][t]}
<1>1. Levels \in Nat /\ 0 \in 0..Levels
      /\ \A n \in 1..Levels : n \in 0..Levels /\ n - 1 \in 0..Levels
  BY SizesAre
<1>2. \A n \in 0..Levels : p[n][Null] = Null /\ f[n][Null] = 0
  BY AttachedSame DEF IsScore
<1>3. 0 \in T
  <2>1. \A t \in G[0] : t = Null
    BY <1>1, KeptAre, TreesAre
  <2> QED
    BY <1>1, <1>2, <2>1
<1> DEFINE o == ForceOnto(k, m)
           none == {}
<1>6. IsScore(f, none, o)
  OBVIOUS
<1>7. \A t \in AllTrees : o[t] = Onto(t, k, m)
  BY DEF ForceOnto
<1>8. \A t : t \notin none
  OBVIOUS
<1> HIDE DEF o, none
<1>4. ASSUME NEW n \in 1..Levels, n - 1 \in T PROVE n \in T
  <2>1. ASSUME NEW t \in G[n], t # Null PROVE f[n][p[n][t]] = f[n][t]
    <3>1. t \in Trees[n] /\ n \in 0..Levels /\ n - 1 \in 0..Levels
      BY <1>1, KeptAre
    <3> DEFINE v == p[n - 1]
               u == p[n][t]
               x == u.children
               l == t.letter
               q == t.points
               s == f[n - 1]
    <3>2. /\ u \in Trees[n] /\ u # Null
          /\ u.letter = l /\ u.cell = t.cell /\ u.points = q
      BY <2>1, <3>1, AttachedSame
    <3>3. \A i \in DOMAIN t.children :
              t.children[i] \in G[n - 1] /\ t.children[i] \in Trees[n - 1]
      BY <2>1, <3>1, KeptAre
    <3>4. DOMAIN x = DOMAIN t.children /\ \A i \in DOMAIN x : x[i] = v[t.children[i]]
      <4>1. DOMAIN x = DOMAIN t.children
        BY <2>1, <3>1, AttachedChildren
      <4>2. \A i \in DOMAIN x : x[i] = v[t.children[i]]
        BY <2>1, <3>1, AttachedChildren
      <4> QED
        BY <4>1, <4>2
    <3>5. t \in AllTrees /\ u \in AllTrees
      BY <3>1, <3>2 DEF AllTrees
    <3>6. f[n][t] = Combined(l, q, [i \in o[t] |-> s[t.children[i]]])
      BY <1>6, <1>8, <2>1, <3>1, <3>5 DEF IsScore
    <3>7. f[n][u] = Combined(l, q, [i \in o[u] |-> s[x[i]]])
      <4> HIDE DEF u
      <4> QED
        BY <1>6, <1>8, <3>1, <3>2, <3>5 DEF IsScore
    <3> HIDE DEF v, u, x, s, l, q
    <3>8. \A i \in DOMAIN x : s[x[i]] = s[t.children[i]]
      BY <1>4, <3>3, <3>4 DEF s, v
    <3>9. \A i \in DOMAIN x :
              /\ x[i] # Null <=> t.children[i] # Null
              /\ t.children[i] # Null => x[i].letter = t.children[i].letter
      BY <3>1, <3>3, <3>4, AttachedSame DEF v
    <3>10. o[t] = o[u] /\ o[t] \subseteq DOMAIN x
      <4>1. Taken(t, m) = Taken(u, m)
        BY <3>4, <3>9 DEF Taken, x
      <4>2. Onto(t, k, m) = Onto(u, k, m)
        BY <3>2, <3>4, <4>1 DEF Onto, l, x
      <4>3. Onto(t, k, m) \subseteq DOMAIN x
        BY <3>4 DEF Onto, Taken
      <4> QED
        BY <1>7, <3>5, <4>2, <4>3
    <3>11. [i \in o[u] |-> s[x[i]]] = [i \in o[t] |-> s[t.children[i]]]
      BY <3>8, <3>10
    <3> QED
      BY <3>6, <3>7, <3>11 DEF u
  <2> QED
    BY <1>1, <1>2, <2>1
<1> HIDE DEF T
<1>5. \A n \in 0..Levels : n \in T
  BY ONLY <1>1, <1>3, <1>4, StepsUp
<1> QED
  BY <1>5 DEF T

-----------------------------------------------------------------------------
(* The tree that UpperBound builds. *)

\* Nodes of the trie are sequences, and their lengths go up with each letter.
LEMMA TrieNodesAre ==
    ASSUME NEW t \in Nodes PROVE \E S : t \in Seq(S)
<1>1. CASE t = <<>>
  <2> DEFINE S == {}
             e == <<>>
  <2>1. e \in Seq(S)
    BY EmptySeq
  <2> HIDE DEF S
  <2> QED
    BY <1>1, <2>1
<1>2. CASE t # <<>>
  <2>0. PICK w \in Words : \E n \in 1..Len(w) : t = SubSeq(w, 1, n)
    BY <1>2 DEF Nodes
  <2>1. PICK n \in 1..Len(w) : t = SubSeq(w, 1, n)
    BY <2>0
  <2> DEFINE S == ToSet(w)
  <2>2. w \in Seq(S)
    BY TreeWordsAssumption
  <2> HIDE DEF S
  <2>3. Len(w) \in Nat
    BY <2>2, LenProperties
  <2>4. SubSeq(w, 1, n) \in Seq(S)
    BY <2>1, <2>2, <2>3, SubSeqProperties
  <2> QED
    BY <2>1, <2>4
<1> QED
  BY <1>1, <1>2

\* The length of a word, with two for a q, is a number.
LEMMA WordLenType ==
    ASSUME NEW S, NEW t \in Seq(S) PROVE WordLen(t) \in Nat
<1> DEFINE n == Len(t)
           A == {i \in DOMAIN t : t[i] = Q}
<1>1. n \in Nat /\ DOMAIN t = 1..n
  BY LenProperties
<1> HIDE DEF n
<1>2. IsFiniteSet(1..n) /\ A \subseteq 1..n
  BY <1>1, FS_Interval
<1>3. Cardinality(A) \in Nat
  BY <1>2, FS_Subset, FS_CardinalityType
<1> QED
  BY <1>1, <1>3 DEF WordLen, n

\* A letter adds its length (len + (cc==kQ ? 2 : 1)).
LEMMA WordLenStep ==
    ASSUME NEW S, NEW t \in Seq(S), NEW c
    PROVE  WordLen(Append(t, c)) = WordLen(t) + LetterLen(c)
<1> DEFINE X == S \cup {c}
           a == Append(t, c)
           n == CountOf(t, Q)
           m == CountOf(a, Q)
<1>1. t \in Seq(X) /\ c \in X
  <2>1. \A i \in 1..Len(t) : t[i] \in X
    BY ElementOfSeq
  <2>2. Len(t) \in Nat /\ t = [i \in 1..Len(t) |-> t[i]]
    BY LenProperties, SeqDef
  <2> HIDE DEF X
  <2>3. t \in [1..Len(t) -> X]
    BY <2>1, <2>2
  <2>4. t \in Seq(X)
    BY <2>2, <2>3, FunctionIsSeq
  <2> QED
    BY <2>4 DEF X
<1> HIDE DEF X
<1>2. n \in Nat /\ m = IF c = Q THEN n + 1 ELSE n
  BY <1>1, CountAppend
<1>3. Len(t) \in Nat /\ Len(a) = Len(t) + 1
  BY <1>1, AppendProperties, LenProperties
<1>4. WordLen(t) = Len(t) + n /\ WordLen(a) = Len(a) + m
  BY DEF WordLen, CountOf
<1> HIDE DEF a, n, m
<1>5. WordLen(a) = WordLen(t) + LetterLen(c)
  <2>1. CASE c = Q
    BY <1>2, <1>3, <1>4, <2>1 DEF LetterLen
  <2>2. CASE c # Q
    BY <1>2, <1>3, <1>4, <2>2 DEF LetterLen
  <2> QED
    BY <2>1, <2>2
<1> QED
  BY <1>5 DEF a

\* The points of a node of the trie.
PointsOf(t) == IF IsWord(t) THEN kWordScores[WordLen(t)] ELSE 0

\* The points of a node of the trie, if any.
LEMMA PointsType ==
    ASSUME NEW t PROVE PointsOf(t) \in Nat
<1>1. \A i \in DOMAIN kWordScores : kWordScores[i] \in Nat
  BY DEF kWordScores
<1>2. CASE IsWord(t)
  <2>1. WordLen(t) \in DOMAIN kWordScores
    BY <1>2, TreeWordsAssumption DEF IsWord
  <2> QED
    BY <1>1, <1>2, <2>1 DEF PointsOf
<1>3. CASE ~IsWord(t)
  BY <1>3 DEF PointsOf
<1> QED
  BY <1>2, <1>3

\* A new node is good when it is over good trees, and a choice over its letters.
LEMMA NewNodeGood ==
    ASSUME NEW G, IsKept(G, LocallyGood), NEW h \in 1..Levels,
           NEW letter \in Int, NEW cell \in Nat, NEW points \in Nat,
           NEW c \in Seq(G[h - 1]),
           letter >= 0 => cell \in Squares,
           letter = ChoiceNode =>
               \A i \in DOMAIN c : c[i] # Null => c[i].letter >= 0 /\ c[i].cell = cell,
           NEW n, n = NewNode(letter, cell, points, c)
    PROVE  /\ n \in G[h] /\ n # Null
           /\ n.letter = letter /\ n.cell = cell /\ n.points = points
           /\ n.children = c /\ n.possibilities = {}
           /\ n.bound = Combined(letter, points, BoundsOf(n))
<1> DEFINE D == DOMAIN c
           g == [i \in D |-> BoundOf(c[i])]
           bound == Combined(letter, points, g)
           S == Trees[h - 1]
<1>1. h \in 0..Levels /\ h - 1 \in 0..Levels
  BY SizesAre
<1>2. G[h - 1] \subseteq S
  BY <1>1, KeptAre
<1>3. D = 1..Len(c) /\ Len(c) \in Nat /\ \A i \in D : c[i] \in G[h - 1]
  BY LenProperties, ElementOfSeq
<1>4. c \in Seq(S)
  <2>1. c = [i \in 1..Len(c) |-> c[i]]
    BY SeqDef
  <2> HIDE DEF S
  <2>2. c \in [1..Len(c) -> S]
    BY <1>2, <1>3, <2>1
  <2> QED
    BY <1>3, <2>2, FunctionIsSeq
<1>5. bound \in Nat
  <2>1. IsFiniteSet(1..Len(c))
    BY <1>3, FS_Interval
  <2>2. DOMAIN g = D /\ IsFiniteSet(D) /\ \A i \in D : g[i] \in Nat
    BY <1>1, <1>2, <1>3, <2>1, BoundsType
  <2> HIDE DEF g
  <2> QED
    BY <2>2, CombinedIs
<1>6. /\ n.letter = letter /\ n.cell = cell /\ n.points = points
      /\ n.children = c /\ n.possibilities = {} /\ n.bound = bound
      /\ n = [letter |-> letter, cell |-> cell, points |-> points, bound |-> bound,
              children |-> c, possibilities |-> {}]
  BY DEF NewNode
<1> HIDE DEF bound, S
<1>7. n \in NodesOver(S)
  BY <1>4, <1>5, <1>6 DEF NodesOver
<1>8. n \in Trees[h] /\ n # Null
  BY <1>7, TreesAre DEF S
<1>9. BoundsOf(n) = g
  BY <1>6 DEF BoundsOf
<1>10. n.bound = Combined(letter, points, BoundsOf(n))
  BY <1>6, <1>9 DEF bound
<1>11. n \in LocallyGood
  <2>1. n \in AllTrees
    BY <1>1, <1>8 DEF AllTrees
  <2>2. OwnPossibility(n) \subseteq Squares /\ n.possibilities \subseteq Squares
    BY <1>6 DEF OwnPossibility
  <2>3. ASSUME n.letter = ChoiceNode, NEW i \in DOMAIN n.children, n.children[i] # Null
        PROVE  n.children[i].letter >= 0 /\ n.children[i].cell = n.cell
    BY <1>6, <2>3
  <2> QED
    BY <1>6, <1>10, <2>1, <2>2, <2>3 DEF LocallyGood
<1>12. n \in G[h]
  <2>1. \A i \in DOMAIN n.children : n.children[i] \in G[h - 1]
    BY <1>3, <1>6
  <2> QED
    BY <1>1, <1>8, <1>11, <2>1, KeptAre
<1> QED
  BY <1>6, <1>8, <1>10, <1>12

\* What DoAllDescents is called with, and where it goes on to.
CallTo(k, t, u) == [cell |-> k, len |-> WordLen(t), node |-> t, used |-> u]
Beyond(k, u) == Without(Visits[k], u \cup {k})

\* The arguments of a call.
LEMMA CallsAre ==
    ASSUME NEW k \in Squares, NEW t \in Nodes, NEW u \in SUBSET Squares
    PROVE  CallTo(k, t, u) \in Calls
<1>1. WordLen(t) \in Nat
  BY TrieNodesAre, WordLenType
<1> QED
  BY <1>1 DEF CallTo, Calls

\* The cells that a search goes on to are cells of the board.
LEMMA BeyondType ==
    ASSUME NEW k \in Squares, NEW u
    PROVE  /\ Beyond(k, u) \in Seq(Squares)
           /\ Len(Beyond(k, u)) \in Nat /\ DOMAIN Beyond(k, u) = 1..Len(Beyond(k, u))
           /\ \A i \in DOMAIN Beyond(k, u) : Beyond(k, u)[i] \in Squares
<1> DEFINE s == Visits[k]
           U == u \cup {k}
           X == Squares
           w == Without(s, U)
<1>1. s \in Seq(X)
  BY TreeAssumption DEF ListsNeighbours, Squares
<1> HIDE DEF s, U, X
<1>2. w \in Seq(X)
  BY <1>1, WithoutType
<1> HIDE DEF w
<1>3. Len(w) \in Nat /\ DOMAIN w = 1..Len(w) /\ \A i \in DOMAIN w : w[i] \in X
  BY <1>2, LenProperties, ElementOfSeq
<1> QED
  BY <1>2, <1>3 DEF w, X, U, s, Beyond

\* DoDFS.
IsDFSNode(n, v, k, j, t, u) ==
    /\ n # Null
    /\ n.letter = j /\ n.cell = k /\ n.points = PointsOf(t) /\ n.possibilities = {}
    /\ DOMAIN n.children = DOMAIN Beyond(k, u)
    /\ \A i \in DOMAIN n.children :
           /\ CallTo(Beyond(k, u)[i], t, u \cup {k}) \in Calls
           /\ n.children[i] = v[CallTo(Beyond(k, u)[i], t, u \cup {k})]
    /\ n.bound = Combined(j, PointsOf(t), BoundsOf(n))

\* DoDFS makes a good node for its letter, over a choice for each neighbour.
LEMMA DoDFSIs ==
    ASSUME NEW G, IsKept(G, LocallyGood), NEW h \in 1..Levels, NEW v \in [Calls -> G[h - 1]],
           NEW k \in Squares, NEW j \in Nat, NEW t \in Nodes, NEW u \in SUBSET Squares,
           NEW n, n = DoDFS(v, k, j, WordLen(t), t, u)
    PROVE  n \in G[h] /\ IsDFSNode(n, v, k, j, t, u)
<1> DEFINE o == Beyond(k, u)
           U == u \cup {k}
           c == [i \in DOMAIN o |-> v[CallTo(o[i], t, U)]]
           q == PointsOf(t)
           S == G[h - 1]
<1>1. U \in SUBSET Squares
  OBVIOUS
<1>2. Len(o) \in Nat /\ DOMAIN o = 1..Len(o) /\ \A i \in DOMAIN o : o[i] \in Squares
  BY BeyondType
<1>3. n = NewNode(j, k, q, c)
  BY DEF DoDFS, Beyond, CallTo, PointsOf
<1> HIDE DEF o, U
<1>4. \A i \in DOMAIN o : CallTo(o[i], t, U) \in Calls
  BY <1>1, <1>2, CallsAre
<1>5. c \in [1..Len(o) -> S]
  BY <1>2, <1>4
<1>6. DOMAIN c = DOMAIN o /\ \A i \in DOMAIN o : c[i] = v[CallTo(o[i], t, U)]
  OBVIOUS
<1> HIDE DEF c, S, q
<1>7. c \in Seq(S)
  BY <1>2, <1>5, FunctionIsSeq
<1>8. j \in Int /\ k \in Nat /\ q \in Nat /\ (j >= 0 => k \in Squares) /\ j # ChoiceNode
  BY PointsType, SizesAre DEF q, ChoiceNode
<1>9. j = ChoiceNode => \A i \in DOMAIN c : c[i] # Null => c[i].letter >= 0 /\ c[i].cell = k
  BY <1>8
<1>10. /\ n \in G[h] /\ n # Null
       /\ n.letter = j /\ n.cell = k /\ n.points = q
       /\ n.children = c /\ n.possibilities = {}
       /\ n.bound = Combined(j, q, BoundsOf(n))
  BY <1>3, <1>7, <1>8, <1>9, NewNodeGood DEF S
<1>11. DOMAIN n.children = DOMAIN o
       /\ \A i \in DOMAIN n.children : /\ CallTo(o[i], t, U) \in Calls
                                       /\ n.children[i] = v[CallTo(o[i], t, U)]
  BY <1>4, <1>6, <1>10
<1> QED
  BY <1>10, <1>11 DEF o, U, q, IsDFSNode

\* A letter of a choice.
ChildOf(b, v, e, j) ==
    LET c == b[e.cell][j]
    IN  IF StartsWord(e.node, c)
        THEN DoDFS(v, e.cell, j - 1, e.len + LetterLen(c), Append(e.node, c), e.used)
        ELSE Null

\* For a letter that goes on, DoAllDescents calls DoDFS one letter further.
LEMMA ChildIs ==
    ASSUME NEW v, NEW b, NEW e \in Calls, NEW j, StartsWord(e.node, b[e.cell][j])
    PROVE  LET t == Append(e.node, b[e.cell][j])
           IN  /\ t \in Nodes
               /\ ChildOf(b, v, e, j) = DoDFS(v, e.cell, j - 1, WordLen(t), t, e.used)
<1> DEFINE c == b[e.cell][j]
           t == Append(e.node, c)
<1>1. t \in Nodes
  BY DEF StartsWord
<1>2. e.node \in Nodes /\ e.len = WordLen(e.node)
  BY DEF Calls
<1>3. PICK S : e.node \in Seq(S)
  BY <1>2, TrieNodesAre
<1>4. WordLen(t) = e.len + LetterLen(c)
  <2> HIDE DEF c
  <2> QED
    BY <1>2, <1>3, WordLenStep
<1>5. ChildOf(b, v, e, j) = DoDFS(v, e.cell, j - 1, e.len + LetterLen(c), t, e.used)
  BY DEF ChildOf
<1> QED
  BY <1>1, <1>4, <1>5

IsAllNode(n, h, G, b, v, e) ==
    /\ n # Null
    /\ n.letter = ChoiceNode /\ n.cell = e.cell /\ n.points = 0
    /\ DOMAIN n.children = DOMAIN b[e.cell]
    /\ \A j \in DOMAIN n.children :
           /\ n.children[j] = ChildOf(b, v, e, j)
           /\ j - 1 \in Nat
           /\ n.children[j] \in G[h - 1]
           /\ n.children[j] # Null => n.children[j].letter = j - 1
    /\ n.bound = Combined(ChoiceNode, 0, BoundsOf(n))

\* DoAllDescents makes a good choice of the letters of its cell.
LEMMA DoAllIs ==
    ASSUME NEW G, IsKept(G, LocallyGood), NEW h \in 2..Levels, NEW v \in [Calls -> G[h - 2]],
           NEW b \in Board, NEW e \in Calls, NEW n, n = DoAllDescents(b, v, e)
    PROVE  n \in G[h] /\ IsAllNode(n, h, G, b, v, e)
<1> DEFINE k == e.cell
           D == DOMAIN b[k]
           c == [j \in D |-> ChildOf(b, v, e, j)]
           S == G[h - 1]
           m == h - 1
<1>1. k \in Squares /\ e.used \in SUBSET Squares /\ k \in Cells /\ k \in Nat
  BY SizesAre DEF Calls
<1>2. b[k] \in Seq(Letters)
  BY <1>1 DEF Board
<1>3. D = 1..Len(b[k]) /\ Len(b[k]) \in Nat /\ \A j \in D : j - 1 \in Nat
  <2> HIDE DEF k
  <2>1. D = 1..Len(b[k]) /\ Len(b[k]) \in Nat
    BY <1>2, LenProperties
  <2> QED
    BY <2>1
<1>4. n = NewNode(ChoiceNode, k, 0, c)
  BY DEF DoAllDescents, ChildOf
<1>5. /\ m \in 1..Levels /\ m \in 0..Levels /\ h \in 1..Levels /\ m - 1 = h - 2
  BY SizesAre
<1> HIDE DEF m
<1>6. v \in [Calls -> G[m - 1]]
  BY <1>5
<1>7. ASSUME NEW j \in D
      PROVE  /\ ChildOf(b, v, e, j) \in G[m]
             /\ ChildOf(b, v, e, j) # Null =>
                    ChildOf(b, v, e, j).letter = j - 1 /\ ChildOf(b, v, e, j).cell = k
  <2> DEFINE u == ChildOf(b, v, e, j)
             t == Append(e.node, b[e.cell][j])
             i == j - 1
             U == e.used
  <2>1. CASE StartsWord(e.node, b[e.cell][j])
    <3>1. t \in Nodes /\ u = DoDFS(v, k, i, WordLen(t), t, U)
      BY <2>1, ChildIs
    <3>2. i \in Nat
      BY <1>3
    <3>3. U \in SUBSET Squares
      BY <1>1
    <3> HIDE DEF u, t, i, k, U
    <3>4. u \in G[m] /\ IsDFSNode(u, v, k, i, t, U)
      <4>1. k \in Squares /\ m \in 1..Levels
        BY <1>1, <1>5
      <4>2. IsKept(G, LocallyGood)
        OBVIOUS
      <4> QED
        BY ONLY <1>6, <3>1, <3>2, <3>3, <4>1, <4>2, DoDFSIs
    <3> QED
      BY <3>4 DEF u, i, IsDFSNode
  <2>2. CASE ~StartsWord(e.node, b[e.cell][j])
    <3>1. u = Null
      BY <2>2 DEF ChildOf
    <3> QED
      BY <1>5, <3>1, KeptAre
  <2> QED
    BY <2>1, <2>2
<1>8. /\ DOMAIN c = D
      /\ \A j \in D : c[j] = ChildOf(b, v, e, j)
  OBVIOUS
<1> HIDE DEF c
<1>9. S = G[m] /\ \A j \in D : c[j] \in S
  BY <1>7, <1>8 DEF m
<1> HIDE DEF S, D, k
<1>10. c \in [1..Len(b[k]) -> S]
  <2>1. c = [j \in D |-> c[j]]
    BY <1>8 DEF c
  <2> QED
    BY <1>3, <1>9, <2>1
<1>11. c \in Seq(S)
  BY <1>3, <1>10, FunctionIsSeq
<1>12. \A i \in DOMAIN c : c[i] # Null => c[i].letter >= 0 /\ c[i].cell = k
  BY <1>3, <1>7, <1>8
<1> DEFINE l == ChoiceNode
           z == 0
<1>13. l \in Int /\ z \in Nat /\ (l >= 0 => k \in Squares)
  BY <1>1 DEF ChoiceNode
<1>14. c \in Seq(G[h - 1])
  BY <1>11 DEF S
<1>15. l = ChoiceNode => \A i \in DOMAIN c : c[i] # Null => c[i].letter >= 0 /\ c[i].cell = k
  BY <1>12
<1>16. n = NewNode(l, k, z, c)
  BY <1>4
<1> HIDE DEF l, z
<1>17. /\ n \in G[h] /\ n # Null
       /\ n.letter = l /\ n.cell = k /\ n.points = z /\ n.children = c
       /\ n.bound = Combined(l, z, BoundsOf(n))
  BY <1>1, <1>5, <1>13, <1>14, <1>15, <1>16, NewNodeGood
<1> QED
  BY <1>3, <1>7, <1>8, <1>9, <1>17 DEF l, z, D, k, S, IsAllNode

\* Each call makes a good tree, of two levels for each cell that is left.
LEMMA DescentsAre ==
    ASSUME NEW G, IsKept(G, LocallyGood), NEW b \in Board, NEW d, d = Descents(b)
    PROVE  /\ \A n \in 0..NumCells : d[n] \in [Calls -> G[2 * n]]
           /\ \A e \in Calls : d[0][e] = Null
           /\ \A n \in 1..NumCells : \A e \in Calls : d[n][e] = DoAllDescents(b, d[n - 1], e)
<1> DEFINE N == Width * Height
           One(n, v, e) == IF n = 0 THEN Null ELSE DoAllDescents(b, v, e)
           E(f) == [n \in 0..N |-> [e \in Calls |-> One(n, f[n - 1], e)]]
           c == CHOOSE f : f = E(f)
           V == [n \in 0..N |-> [Calls -> G[2 * n]]]
           base == [e \in Calls |-> Null]
           step == [n \in 1..N |-> [v \in V[n - 1] |-> [e \in Calls |-> One(n, v, e)]]]
<1>1. N = NumCells /\ N \in Nat
  BY SizesAre
<1>2. d = c
  BY DEF Descents
<1>3. /\ 0 \in 0..N /\ \A n \in 1..N : n \in 0..N /\ n - 1 \in 0..N /\ n # 0
      /\ \A n \in 1..N : 2 * n \in 2..Levels /\ 2 * n - 2 = 2 * (n - 1)
      /\ 2 * 0 = 0 /\ 0 \in 0..Levels
  <2> HIDE DEF N
  <2> QED
    BY <1>1, SizesAre
<1> HIDE DEF N, c
<1>4. Null \in G[0] /\ Null \in G[2 * 0]
  BY <1>3, KeptAre
<1>5. ASSUME NEW n \in 1..N, NEW v \in [Calls -> G[2 * (n - 1)]], NEW e \in Calls
      PROVE  One(n, v, e) \in G[2 * n]
  <2> DEFINE h == 2 * n
             u == DoAllDescents(b, v, e)
  <2>1. h \in 2..Levels /\ v \in [Calls -> G[h - 2]]
    BY <1>3
  <2> HIDE DEF h, u
  <2>2. IsKept(G, LocallyGood)
    OBVIOUS
  <2>3. u \in G[h]
    BY ONLY <2>1, <2>2, e \in Calls, b \in Board, DoAllIs DEF u
  <2>4. One(n, v, e) = u
    BY <1>3 DEF u
  <2> QED
    BY <2>3, <2>4 DEF h
<1>6. \A v, e : One(0, v, e) = Null
  OBVIOUS
<1> HIDE DEF One
<1>7. base \in V[0]
  BY <1>3, <1>4
<1>8. ASSUME NEW n \in 1..N, NEW v \in V[n - 1]
      PROVE  step[n][v] \in V[n] /\ step[n][v] = [e \in Calls |-> One(n, v, e)]
  <2>1. v \in [Calls -> G[2 * (n - 1)]]
    BY <1>3
  <2>2. step[n][v] = [e \in Calls |-> One(n, v, e)]
    OBVIOUS
  <2>3. \A e \in Calls : One(n, v, e) \in G[2 * n]
    BY <1>5, <2>1
  <2> QED
    BY <1>3, <2>2, <2>3
<1> HIDE DEF V, base, step
<1>9. PICK f : /\ f = [j \in 0..N |-> f[j]]
               /\ f[0] = base
               /\ \A j \in 0..N : f[j] \in V[j]
               /\ \A j \in 1..N : f[j] = step[j][f[j - 1]]
  <2>2. N \in Nat /\ \A j \in 1..N : \A S \in V[j - 1] : step[j][S] \in V[j]
    BY <1>1, <1>8
  <2>3. \E f : Leads(f, N, base, step, V)
    BY ONLY <1>7, <2>2, LevelsExist
  <2> QED
    BY <2>3 DEF Leads
<1>10. \A j \in 1..N : f[j] = [e \in Calls |-> One(j, f[j - 1], e)]
  BY <1>3, <1>8, <1>9
<1>11. f[0] = [e \in Calls |-> One(0, f[0 - 1], e)]
  BY <1>6, <1>9 DEF base
<1>12. \A j \in 0..N : f[j] = [e \in Calls |-> One(j, f[j - 1], e)]
  BY <1>1, <1>10, <1>11
<1>13. f = E(f)
  BY <1>9, <1>12
<1>14. c = E(c)
  <2> HIDE DEF E
  <2> QED
    BY <1>13 DEF c
<1>15. \A j \in 0..N : c[j] = [e \in Calls |-> One(j, c[j - 1], e)]
  BY <1>14
<1> DEFINE T == {j \in 0..N : c[j] \in [Calls -> G[2 * j]]}
<1>16. 0 \in T
  <2>1. c[0] = [e \in Calls |-> One(0, c[0 - 1], e)]
    BY <1>3, <1>15
  <2>2. \A e \in Calls : One(0, c[0 - 1], e) \in G[2 * 0]
    BY <1>4, <1>6
  <2> QED
    BY <1>3, <2>1, <2>2
<1>17. ASSUME NEW j \in 1..N, j - 1 \in T PROVE j \in T
  <2> DEFINE v == c[j - 1]
  <2>1. v \in [Calls -> G[2 * (j - 1)]] /\ j \in 0..N
    BY <1>3, <1>17
  <2>2. c[j] = [e \in Calls |-> One(j, v, e)]
    BY <1>15, <2>1
  <2> HIDE DEF v
  <2>3. \A e \in Calls : One(j, v, e) \in G[2 * j]
    BY <1>5, <2>1
  <2>4. c[j] \in [Calls -> G[2 * j]]
    BY <2>2, <2>3
  <2> QED
    BY <2>1, <2>4
<1> HIDE DEF T
<1>18. \A j \in 0..N : j \in T
  BY ONLY <1>1, <1>16, <1>17, StepsUp
<1>19. \A e \in Calls : c[0][e] = Null
  <2>1. c[0] = [e \in Calls |-> One(0, c[0 - 1], e)]
    BY <1>3, <1>15
  <2>2. ASSUME NEW e \in Calls PROVE c[0][e] = One(0, c[0 - 1], e)
    BY <2>1
  <2> QED
    BY <1>6, <2>2
<1>20. ASSUME NEW n \in 1..N, NEW e \in Calls PROVE c[n][e] = One(n, c[n - 1], e)
  <2> DEFINE v == c[n - 1]
  <2>1. c[n] = [x \in Calls |-> One(n, v, x)]
    BY <1>3, <1>15
  <2> HIDE DEF v
  <2>2. c[n][e] = One(n, v, e)
    BY <2>1
  <2> QED
    BY <2>2 DEF v
<1>21. \A n \in 1..N : \A e \in Calls : c[n][e] = DoAllDescents(b, c[n - 1], e)
  BY <1>3, <1>20 DEF One
<1> QED
  BY <1>1, <1>2, <1>18, <1>19, <1>21 DEF T

StartAt(k) == CallTo(k, <<>>, {})

\* The calls that InternalUpperBound makes.
LEMMA StartsAre ==
    ASSUME NEW k \in Squares
    PROVE  StartAt(k) \in Calls /\ StartAt(k) = [cell |-> k, len |-> 0, node |-> <<>>, used |-> {}]
<1> DEFINE e == <<>>
           u == {}
<1>1. e \in Nodes /\ u \in SUBSET Squares
  BY DEF Nodes
<1>2. WordLen(e) = 0
  <2> DEFINE A == {i \in DOMAIN e : e[i] = Q}
  <2>1. A = {} /\ Len(e) = 0
    OBVIOUS
  <2>2. Cardinality(A) = 0
    BY <2>1, FS_EmptySet
  <2> QED
    BY <2>1, <2>2 DEF WordLen
<1> HIDE DEF e, u
<1>3. CallTo(k, e, u) \in Calls
  BY <1>1, CallsAre
<1> QED
  BY <1>2, <1>3 DEF StartAt, CallTo, e, u

\* InternalUpperBound.
IsRootNode(n, b) ==
    /\ n # Null /\ n.letter = RootNode /\ n.points = 0 /\ n.possibilities = {}
    /\ DOMAIN n.children = Squares
    /\ \A k \in Squares : n.children[k] = Descents(b)[NumCells][StartAt(k)]
    /\ n.bound = Combined(RootNode, 0, BoundsOf(n))

\* The tree of a class is good, with a choice for each cell to start from.
LEMMA TreeIs ==
    ASSUME NEW G, IsKept(G, LocallyGood), NEW b \in Board, NEW n, n = Tree(b)
    PROVE  n \in G[Levels] /\ IsRootNode(n, b)
<1> DEFINE d == Descents(b)[NumCells]
           c == [k \in Squares |-> d[StartAt(k)]]
           h == Levels
           l == RootNode
           z == 0
           S == G[h - 1]
<1>1. Width * Height = NumCells /\ NumCells \in Nat /\ NumCells \in 0..NumCells
      /\ Squares = 1..NumCells /\ h \in 1..Levels /\ 2 * NumCells = h - 1
  BY SizesAre
<1>2. n = NewNode(l, z, z, c)
  <2>1. c = [k \in Squares |-> d[[cell |-> k, len |-> 0, node |-> <<>>, used |-> {}]]]
    BY StartsAre
  <2> QED
    BY <1>1, <2>1 DEF Tree
<1>3. d \in [Calls -> S]
  <2> DEFINE D == Descents(b)
  <2> HIDE DEF D
  <2>1. D = Descents(b)
    BY DEF D
  <2>2. \A i \in 0..NumCells : D[i] \in [Calls -> G[2 * i]]
    BY <2>1, DescentsAre
  <2> QED
    BY <1>1, <2>1, <2>2
<1> HIDE DEF d, h
<1>4. \A k \in Squares : c[k] = d[StartAt(k)] /\ c[k] \in S
  BY <1>3, StartsAre
<1>5. c \in [1..NumCells -> S] /\ DOMAIN c = Squares
  BY <1>1, <1>4
<1> HIDE DEF c, S
<1>6. c \in Seq(S)
  BY <1>1, <1>5, FunctionIsSeq
<1>7. /\ l \in Int /\ z \in Nat /\ (l >= 0 => z \in Squares)
      /\ l = ChoiceNode => \A i \in DOMAIN c : c[i] # Null => c[i].letter >= 0 /\ c[i].cell = z
  BY DEF RootNode, ChoiceNode
<1>8. c \in Seq(G[h - 1])
  BY <1>6 DEF S
<1> HIDE DEF l, z
<1>9. /\ n \in G[h] /\ n # Null
      /\ n.letter = l /\ n.points = z
      /\ n.children = c /\ n.possibilities = {}
      /\ n.bound = Combined(l, z, BoundsOf(n))
  BY <1>1, <1>2, <1>7, <1>8, NewNodeGood
<1> QED
  BY <1>4, <1>5, <1>9 DEF IsRootNode, d, h, l, z

-----------------------------------------------------------------------------
(* The score with a letter forced is the bound of the class with only this   *)
(* letter in its cell.                                                       *)

\* Only a choice counts its children otherwise.
LEMMA OtherLetter ==
    ASSUME NEW l, NEW m, l # ChoiceNode, m # ChoiceNode, NEW p, NEW g
    PROVE  Combined(l, p, g) = Combined(m, p, g)
BY DEF Combined

\* What is not a choice of the cell scores what its children do.
LEMMA ElsewhereScore ==
    ASSUME NEW h \in 1..Levels, NEW k, NEW m, NEW f, IsScore(f, {}, ForceOnto(k, m)),
           NEW n \in Trees[h], n # Null, ~(n.letter = ChoiceNode /\ n.cell = k),
           NEW g, DOMAIN g = DOMAIN n.children,
           g = [i \in DOMAIN g |-> g[i]],
           \A i \in DOMAIN n.children : f[h - 1][n.children[i]] = g[i]
    PROVE  f[h][n] = Combined(n.letter, n.points, g)
<1> DEFINE o == ForceOnto(k, m)
           s == f[h - 1]
<1>1. h \in 0..Levels /\ n \in AllTrees
  BY SizesAre DEF AllTrees
<1>2. o[n] = DOMAIN n.children
  BY <1>1 DEF ForceOnto, Onto
<1>3. IsScore(f, {}, o)
  OBVIOUS
<1> HIDE DEF o, s
<1>4. f[h][n] = Combined(n.letter, n.points, [i \in o[n] |-> s[n.children[i]]])
  BY <1>1, <1>3 DEF IsScore, s
<1>5. [i \in o[n] |-> s[n.children[i]]] = g
  BY <1>2 DEF s
<1> QED
  BY <1>4, <1>5

\* v2 has the bounds that v scores.
Scores(f, h, v, v2) == \A e \in Calls : f[h][v[e]] = BoundOf(v2[e])

\* The searches from a letter, in the tree and in that of the narrowed class.
LEMMA DFSForced ==
    ASSUME NEW G, IsKept(G, LocallyGood), NEW h \in 1..Levels,
           NEW k, NEW m, NEW f, IsScore(f, {}, ForceOnto(k, m)),
           NEW v, NEW v2, Scores(f, h - 1, v, v2),
           NEW c, NEW i \in Nat, NEW j \in Nat, NEW t, NEW u,
           NEW n \in Trees[h], IsDFSNode(n, v, c, i, t, u),
           NEW n2, IsDFSNode(n2, v2, c, j, t, u)
    PROVE  f[h][n] = BoundOf(n2)
<1> DEFINE g == BoundsOf(n2)
           p == PointsOf(t)
<1>1. i # ChoiceNode /\ j # ChoiceNode
  BY DEF ChoiceNode
<1>2. /\ n # Null /\ n.letter = i /\ n.points = p
      /\ n2 # Null /\ n2.bound = Combined(j, p, g)
      /\ DOMAIN n.children = DOMAIN n2.children
      /\ \A x \in DOMAIN n.children : \E e \in Calls :
             n.children[x] = v[e] /\ n2.children[x] = v2[e]
  BY DEF IsDFSNode
<1>3. DOMAIN g = DOMAIN n2.children /\ g = [x \in DOMAIN g |-> g[x]]
      /\ \A x \in DOMAIN g : g[x] = BoundOf(n2.children[x])
  BY DEF BoundsOf
<1> HIDE DEF g, p
<1>4. \A x \in DOMAIN n.children : f[h - 1][n.children[x]] = g[x]
  BY <1>2, <1>3 DEF Scores
<1>5. ~(n.letter = ChoiceNode /\ n.cell = k) /\ DOMAIN g = DOMAIN n.children
  BY <1>1, <1>2, <1>3
<1>6. f[h][n] = Combined(n.letter, n.points, g)
  BY <1>2, <1>3, <1>4, <1>5, ElsewhereScore
<1>7. Combined(i, p, g) = Combined(j, p, g)
  BY <1>1, OtherLetter
<1> QED
  BY <1>2, <1>6, <1>7 DEF BoundOf

\* The same letter of a cell.
LEMMA ChildForced ==
    ASSUME NEW G, IsKept(G, LocallyGood), NEW h \in 1..Levels,
           NEW k, NEW m, NEW f, IsScore(f, {}, ForceOnto(k, m)),
           NEW v \in [Calls -> G[h - 1]], NEW v2 \in [Calls -> G[h - 1]],
           Scores(f, h - 1, v, v2),
           NEW b, NEW b2, NEW e \in Calls, NEW i, NEW j, i - 1 \in Nat, j - 1 \in Nat,
           b[e.cell][i] = b2[e.cell][j]
    PROVE  f[h][ChildOf(b, v, e, i)] = BoundOf(ChildOf(b2, v2, e, j))
<1> DEFINE c == b[e.cell][i]
           t == Append(e.node, c)
           n == ChildOf(b, v, e, i)
           n2 == ChildOf(b2, v2, e, j)
           k2 == e.cell
           U == e.used
           x == i - 1
           y == j - 1
<1>1. h \in 0..Levels
  BY SizesAre
<1>2. k2 \in Squares /\ U \in SUBSET Squares
  BY DEF Calls
<1>3. CASE StartsWord(e.node, c)
  <2>1. t \in Nodes /\ n = DoDFS(v, k2, x, WordLen(t), t, U)
    BY <1>3, ChildIs
  <2>2. n2 = DoDFS(v2, k2, y, WordLen(t), t, U)
    <3>1. StartsWord(e.node, b2[e.cell][j])
      BY <1>3
    <3>2. n2 = DoDFS(v2, k2, y, WordLen(Append(e.node, b2[e.cell][j])),
                     Append(e.node, b2[e.cell][j]), U)
      BY <3>1, ChildIs
    <3> QED
      BY <3>2
  <2>3. IsKept(G, LocallyGood) /\ x \in Nat /\ y \in Nat
    OBVIOUS
  <2> HIDE DEF c, t, n, n2, k2, U, x, y
  <2>4. n \in G[h] /\ IsDFSNode(n, v, k2, x, t, U)
    BY ONLY <1>2, <2>1, <2>3, h \in 1..Levels, v \in [Calls -> G[h - 1]], DoDFSIs
  <2>5. n2 \in G[h] /\ IsDFSNode(n2, v2, k2, y, t, U)
    BY ONLY <1>2, <2>1, <2>2, <2>3, h \in 1..Levels, v2 \in [Calls -> G[h - 1]], DoDFSIs
  <2>6. n \in Trees[h]
    BY <1>1, <2>3, <2>4, KeptAre
  <2>7. f[h][n] = BoundOf(n2)
    BY ONLY <2>3, <2>4, <2>5, <2>6, h \in 1..Levels, IsScore(f, {}, ForceOnto(k, m)),
            Scores(f, h - 1, v, v2), DFSForced
  <2> QED
    BY <2>7 DEF n, n2
<1>4. CASE ~StartsWord(e.node, c)
  <2>1. n = Null /\ n2 = Null
    BY <1>4 DEF ChildOf
  <2>2. f[h][Null] = 0
    BY <1>1 DEF IsScore
  <2> HIDE DEF n, n2
  <2>3. f[h][n] = BoundOf(n2)
    BY <2>1, <2>2 DEF BoundOf
  <2> QED
    BY <2>3 DEF n, n2
<1> QED
  BY <1>3, <1>4

Narrowed(b, k, j) == [b EXCEPT ![k] = <<b[k][j]>>]

\* A class with one letter left in a cell.
LEMMA NarrowedIs ==
    ASSUME NEW b \in Board, NEW k \in Cells, NEW j \in DOMAIN b[k]
    PROVE  /\ Narrowed(b, k, j) \in Board
           /\ DOMAIN Narrowed(b, k, j)[k] = {1} /\ Narrowed(b, k, j)[k][1] = b[k][j]
           /\ \A c \in Cells : c # k => Narrowed(b, k, j)[c] = b[c]
           /\ j - 1 \in Nat
<1> DEFINE x == b[k][j]
           u == <<x>>
           s == b[k]
<1>1. s \in Seq(Letters)
  BY DEF Board
<1> HIDE DEF s
<1>2. x \in Letters /\ j - 1 \in Nat
  <2>1. DOMAIN s = 1..Len(s) /\ Len(s) \in Nat /\ \A i \in 1..Len(s) : s[i] \in Letters
    BY <1>1, LenProperties, ElementOfSeq
  <2> QED
    BY <2>1 DEF s
<1> HIDE DEF x
<1>3. u \in Seq(Letters) /\ DOMAIN u = {1} /\ u[1] = x
  BY <1>2
<1> HIDE DEF u
<1>4. Narrowed(b, k, j) = [b EXCEPT ![k] = u]
  BY DEF Narrowed, u, x
<1> QED
  BY <1>2, <1>3, <1>4 DEF Board, x

\* A choice of another cell, and the choice of the cell.
LEMMA DoAllForced ==
    ASSUME NEW G, IsKept(G, LocallyGood), NEW h \in 2..Levels,
           NEW b \in Board, NEW k \in Cells, NEW j \in DOMAIN b[k],
           NEW f, IsScore(f, {}, ForceOnto(k, j - 1)),
           NEW v \in [Calls -> G[h - 2]], NEW v2 \in [Calls -> G[h - 2]],
           Scores(f, h - 2, v, v2), NEW e \in Calls,
           NEW n \in Trees[h], IsAllNode(n, h, G, b, v, e),
           NEW n2, IsAllNode(n2, h, G, Narrowed(b, k, j), v2, e)
    PROVE  f[h][n] = BoundOf(n2)
<1> DEFINE b2 == Narrowed(b, k, j)
           g == BoundsOf(n2)
           m == j - 1
           q == h - 1
           c == e.cell
           l == ChoiceNode
           z == 0
<1>1. /\ q \in 1..Levels /\ q \in 0..Levels /\ h \in 1..Levels /\ h \in 0..Levels
      /\ q - 1 = h - 2
  BY SizesAre
<1>2. c \in Cells
  BY SizesAre DEF Calls
<1>3. /\ n # Null /\ n.letter = l /\ n.cell = c /\ n.points = z
      /\ DOMAIN n.children = DOMAIN b[c]
      /\ \A i \in DOMAIN n.children :
             /\ n.children[i] = ChildOf(b, v, e, i) /\ i - 1 \in Nat
             /\ n.children[i] # Null => n.children[i].letter = i - 1
  BY DEF IsAllNode
<1>4. /\ n2 # Null /\ n2.bound = Combined(l, z, g)
      /\ DOMAIN n2.children = DOMAIN b2[c]
      /\ \A i \in DOMAIN n2.children :
             n2.children[i] = ChildOf(b2, v2, e, i) /\ i - 1 \in Nat
  BY DEF IsAllNode
<1>5. /\ DOMAIN b2[k] = {1} /\ b2[k][1] = b[k][j]
      /\ \A x \in Cells : x # k => b2[x] = b[x]
      /\ m \in Nat
  BY NarrowedIs
<1>6. DOMAIN g = DOMAIN n2.children /\ g = [x \in DOMAIN g |-> g[x]]
      /\ \A x \in DOMAIN g : g[x] = BoundOf(n2.children[x])
  BY DEF BoundsOf
<1>7. f[q][Null] = 0
  BY <1>1 DEF IsScore
<1>8. IsScore(f, {}, ForceOnto(k, m)) /\ IsKept(G, LocallyGood)
  OBVIOUS
<1>9. v \in [Calls -> G[q - 1]] /\ v2 \in [Calls -> G[q - 1]] /\ Scores(f, q - 1, v, v2)
  BY <1>1
<1> HIDE DEF b2, g, q, l, z, m
<1>10. ASSUME NEW i \in DOMAIN n.children, NEW i2 \in DOMAIN n2.children,
              b[e.cell][i] = b2[e.cell][i2]
       PROVE  f[q][n.children[i]] = BoundOf(n2.children[i2])
  <2>1. i - 1 \in Nat /\ i2 - 1 \in Nat /\ n.children[i] = ChildOf(b, v, e, i)
        /\ n2.children[i2] = ChildOf(b2, v2, e, i2)
    BY <1>3, <1>4
  <2>2. f[q][ChildOf(b, v, e, i)] = BoundOf(ChildOf(b2, v2, e, i2))
    BY ONLY <1>1, <1>8, <1>9, <1>10, <2>1, e \in Calls, ChildForced
  <2> QED
    BY <2>1, <2>2
<1>11. CASE c # k
  <2>1. b2[c] = b[c] /\ DOMAIN g = DOMAIN n.children
    BY <1>2, <1>3, <1>4, <1>5, <1>6, <1>11
  <2>2. \A i \in DOMAIN n.children : f[q][n.children[i]] = g[i]
    BY <1>4, <1>6, <1>10, <2>1
  <2>3. \A i \in DOMAIN n.children : f[h - 1][n.children[i]] = g[i]
    BY <2>2 DEF q
  <2>4. ~(n.letter = ChoiceNode /\ n.cell = k)
    BY <1>3, <1>11
  <2>5. f[h][n] = Combined(n.letter, n.points, g)
    BY ONLY <1>1, <1>3, <1>6, <1>8, <2>1, <2>3, <2>4, n \in Trees[h], ElsewhereScore
  <2> QED
    BY <1>3, <1>4, <2>5 DEF BoundOf
<1>12. CASE c = k
  <2> DEFINE o == ForceOnto(k, m)
             A == o[n]
             s == f[q]
             d == [i \in A |-> s[n.children[i]]]
  <2>1. n \in AllTrees
    BY <1>1 DEF AllTrees
  <2>2. IsScore(f, {}, o)
    BY <1>8
  <2>3. A = Taken(n, m)
    BY <1>3, <1>12, <2>1 DEF ForceOnto, Onto, l
  <2> HIDE DEF o
  <2>4. f[h][n] = Combined(l, z, d)
    BY <1>1, <1>3, <2>1, <2>2 DEF IsScore, q
  <2>5. \A i \in A : i = j /\ n.children[i] # Null /\ i \in DOMAIN n.children
    <3>1. \A i \in DOMAIN b[c] : i \in Nat
      <4> DEFINE y == b[c]
      <4>1. y \in Seq(Letters)
        BY <1>2 DEF Board
      <4> HIDE DEF y
      <4>2. \A i \in DOMAIN y : i \in Nat
        BY <4>1, LenProperties
      <4> QED
        BY <4>2 DEF y
    <3>2. ASSUME NEW i \in A PROVE i = j /\ n.children[i] # Null /\ i \in DOMAIN n.children
      <4>1. i \in DOMAIN n.children /\ n.children[i] # Null /\ n.children[i].letter = m
        BY <2>3 DEF Taken
      <4>2. n.children[i].letter = i - 1 /\ i \in Nat /\ j \in Nat
        BY <1>3, <1>12, <3>1, <4>1
      <4> QED
        BY <4>1, <4>2 DEF m
    <3> QED
      BY <3>2
  <2>6. j \in DOMAIN n.children /\ 1 \in DOMAIN n2.children /\ DOMAIN g = {1}
    BY <1>3, <1>4, <1>5, <1>6, <1>12
  <2>7. s[n.children[j]] = g[1]
    BY <1>5, <1>6, <1>10, <1>12, <2>6
  <2>8. n.children[j] # Null => j \in A
    BY <1>3, <2>3, <2>6 DEF Taken, m
  <2>9. n.children[j] = Null => g[1] = 0
    BY <1>7, <2>7
  <2>10. DOMAIN d = A /\ \A i \in A : d[i] = g[1]
    BY <2>5, <2>7
  <2> HIDE DEF A, s, d
  <2>11. {0} \cup Range(d) = {0} \cup Range(g)
    <3>1. Range(g) = {g[1]}
      BY <2>6 DEF Range
    <3>2. CASE n.children[j] = Null
      <4>1. A = {}
        BY <2>5, <3>2
      <4>2. Range(d) = {}
        BY <2>10, <4>1 DEF Range
      <4> QED
        BY <2>9, <3>1, <3>2, <4>2
    <3>3. CASE n.children[j] # Null
      <4>1. Range(d) = {g[1]}
        BY <2>5, <2>8, <2>10, <3>3 DEF Range
      <4> QED
        BY <3>1, <4>1
    <3> QED
      BY <3>2, <3>3
  <2>12. Combined(l, z, d) = Combined(l, z, g)
    BY <2>11 DEF Combined, l
  <2> QED
    BY <1>4, <2>4, <2>12 DEF BoundOf
<1> QED
  BY <1>11, <1>12

\* The same for every call, by the cells that are left.
LEMMA DescentsForced ==
    ASSUME NEW G, IsKept(G, LocallyGood),
           NEW b \in Board, NEW k \in Cells, NEW j \in DOMAIN b[k],
           NEW f, IsScore(f, {}, ForceOnto(k, j - 1)),
           NEW d, d = Descents(b), NEW d2, d2 = Descents(Narrowed(b, k, j))
    PROVE  \A n \in 0..NumCells : Scores(f, 2 * n, d[n], d2[n])
<1> DEFINE b2 == Narrowed(b, k, j)
           T == {n \in 0..NumCells : Scores(f, 2 * n, d[n], d2[n])}
           N == NumCells
<1>1. b2 \in Board
  BY NarrowedIs
<1>2. /\ N \in Nat /\ 0 \in 0..N /\ 2 * 0 \in 0..Levels
      /\ \A n \in 1..N : n \in 0..N /\ n - 1 \in 0..N
      /\ \A n \in 1..N : 2 * n \in 2..Levels /\ 2 * n \in 0..Levels /\ 2 * n - 2 = 2 * (n - 1)
  BY SizesAre
<1>3. IsKept(G, LocallyGood) /\ IsScore(f, {}, ForceOnto(k, j - 1))
  OBVIOUS
<1>4. /\ \A n \in 0..N : d[n] \in [Calls -> G[2 * n]]
      /\ \A e \in Calls : d[0][e] = Null
      /\ \A n \in 1..N : \A e \in Calls : d[n][e] = DoAllDescents(b, d[n - 1], e)
  BY DescentsAre
<1> HIDE DEF b2
<1>5. /\ \A n \in 0..N : d2[n] \in [Calls -> G[2 * n]]
      /\ \A e \in Calls : d2[0][e] = Null
      /\ \A n \in 1..N : \A e \in Calls : d2[n][e] = DoAllDescents(b2, d2[n - 1], e)
  <2>1. d2 = Descents(b2)
    BY DEF b2
  <2> QED
    BY <1>1, <2>1, DescentsAre
<1> HIDE DEF N
<1>6. 0 \in T
  <2>1. f[2 * 0][Null] = 0 /\ BoundOf(Null) = 0
    BY <1>2, <1>3 DEF IsScore, BoundOf
  <2> QED
    BY <1>2, <1>4, <1>5, <2>1 DEF Scores, N
<1>7. ASSUME NEW n \in 1..N, n - 1 \in T PROVE n \in T
  <2> DEFINE v == d[n - 1]
             v2 == d2[n - 1]
             h == 2 * n
  <2>1. h \in 2..Levels /\ v \in [Calls -> G[h - 2]] /\ v2 \in [Calls -> G[h - 2]]
        /\ Scores(f, h - 2, v, v2) /\ h \in 0..Levels
    BY <1>2, <1>4, <1>5, <1>7
  <2> HIDE DEF v, v2, h
  <2>2. ASSUME NEW e \in Calls PROVE f[h][d[n][e]] = BoundOf(d2[n][e])
    <3> DEFINE x == d[n][e]
               y == d2[n][e]
    <3>1. x = DoAllDescents(b, v, e) /\ y = DoAllDescents(b2, v2, e)
      BY <1>4, <1>5 DEF v, v2
    <3> HIDE DEF x, y
    <3>2. x \in G[h] /\ IsAllNode(x, h, G, b, v, e)
      BY ONLY <1>3, <2>1, <3>1, e \in Calls, b \in Board, DoAllIs
    <3>3. IsAllNode(y, h, G, b2, v2, e)
      BY ONLY <1>1, <1>3, <2>1, <3>1, e \in Calls, DoAllIs
    <3>4. IsAllNode(y, h, G, Narrowed(b, k, j), v2, e)
      BY <3>3 DEF b2
    <3>5. x \in Trees[h]
      BY <1>3, <2>1, <3>2, KeptAre
    <3>6. f[h][x] = BoundOf(y)
      BY ONLY <1>3, <2>1, <3>2, <3>4, <3>5, e \in Calls, b \in Board, k \in Cells,
              j \in DOMAIN b[k], DoAllForced
    <3> QED
      BY <3>6 DEF x, y
  <2>3. Scores(f, h, d[n], d2[n])
    BY <2>2 DEF Scores
  <2> QED
    BY <1>2, <2>3 DEF h, N
<1> HIDE DEF T
<1>8. \A n \in 0..N : n \in T
  BY ONLY <1>2, <1>6, <1>7, StepsUp
<1> QED
  BY <1>8 DEF T, N

\* And so for the tree: forced, it scores the bound of the narrowed class.
LEMMA TreeForced ==
    ASSUME NEW G, IsKept(G, LocallyGood),
           NEW b \in Board, NEW k \in Cells, NEW j \in DOMAIN b[k],
           NEW f, IsScore(f, {}, ForceOnto(k, j - 1))
    PROVE  f[Levels][Tree(b)] = max_nomark(Narrowed(b, k, j))
<1> DEFINE b2 == Narrowed(b, k, j)
           n == Tree(b)
           n2 == Tree(b2)
           d == Descents(b)
           d2 == Descents(b2)
           h == Levels
           m == j - 1
           g == BoundsOf(n2)
           N == NumCells
<1>1. b2 \in Board /\ IsKept(G, LocallyGood)
  BY NarrowedIs
<1>2. /\ h \in 1..Levels /\ h \in 0..Levels /\ h - 1 = 2 * N /\ N \in 0..N
  BY SizesAre
<1>3. \A i \in 0..N : Scores(f, 2 * i, d[i], d2[i])
  BY DescentsForced
<1> HIDE DEF b2, n, n2, d, d2, h, m, N
<1>4. n \in G[h] /\ IsRootNode(n, b) /\ IsRootNode(n2, b2)
  <2>1. n = Tree(b)
    BY DEF n
  <2>2. n2 = Tree(b2)
    BY DEF n2
  <2>3. n \in G[Levels] /\ IsRootNode(n, b)
    BY <2>1, TreeIs
  <2>4. IsRootNode(n2, b2)
    BY <1>1, <2>2, TreeIs
  <2> QED
    BY <2>3, <2>4 DEF h
<1>5. n \in Trees[h]
  BY <1>2, <1>4, KeptAre
<1>6. DOMAIN g = DOMAIN n2.children /\ g = [x \in DOMAIN g |-> g[x]]
      /\ \A x \in DOMAIN g : g[x] = BoundOf(n2.children[x])
  BY DEF BoundsOf
<1>7. /\ n # Null /\ n.letter = RootNode /\ n.points = 0
      /\ DOMAIN n.children = Squares /\ DOMAIN n2.children = Squares
      /\ \A i \in Squares : n.children[i] = d[N][StartAt(i)]
                            /\ n2.children[i] = d2[N][StartAt(i)]
      /\ n2.bound = Combined(RootNode, 0, g)
  BY <1>4 DEF IsRootNode, d, d2, N
<1> HIDE DEF g
<1>8. DOMAIN g = DOMAIN n.children
      /\ \A i \in DOMAIN n.children : f[h - 1][n.children[i]] = g[i]
  <2>1. Scores(f, 2 * N, d[N], d2[N])
    BY <1>2, <1>3
  <2>2. ASSUME NEW i \in Squares PROVE f[h - 1][n.children[i]] = g[i]
    <3>1. f[2 * N][d[N][StartAt(i)]] = BoundOf(d2[N][StartAt(i)])
      BY <2>1, StartsAre DEF Scores
    <3> QED
      BY <1>2, <1>6, <1>7, <3>1
  <2> QED
    BY <1>6, <1>7, <2>2
<1>9. ~(n.letter = ChoiceNode /\ n.cell = k) /\ IsScore(f, {}, ForceOnto(k, m))
  BY <1>7 DEF RootNode, ChoiceNode, m
<1>10. f[h][n] = Combined(n.letter, n.points, g)
  BY ONLY <1>2, <1>5, <1>6, <1>7, <1>8, <1>9, ElsewhereScore
<1>11. f[h][n] = n2.bound
  BY <1>7, <1>10
<1> QED
  BY <1>11 DEF max_nomark, n, n2, b2, h

-----------------------------------------------------------------------------
(* What the tool does with a tree leaves it a tree of its class.             *)

\* Every node of n is in P.
AllIn(n, P) == \A G : IsKept(G, P) => n \in G[Levels]

\* n is a tree of class b: recomputed, its score is the bound of b, and with a
\* letter forced the bound of b with only this letter in its cell.
ForcedScores(n, b) ==
    \A k \in Cells : \A j \in DOMAIN b[k] : \A f :
        IsScore(f, {}, ForceOnto(k, j - 1)) => f[Levels][n] = max_nomark(Narrowed(b, k, j))
IsTreeOf(n, b) ==
    /\ n # Null /\ n.letter = RootNode
    /\ AllIn(n, LocallyGood)
    /\ n.bound = max_nomark(b)
    /\ ForcedScores(n, b)

\* The root's fields have their types.
LEMMA TreeOfType ==
    ASSUME NEW n, NEW b, IsTreeOf(n, b)
    PROVE  n \in Trees[Levels] /\ n.bound \in Nat /\ n.possibilities \subseteq Cells
<1>1. PICK G : IsKept(G, LocallyGood)
  BY KeptExist
<1>2. n \in G[Levels] /\ n # Null
  BY <1>1 DEF IsTreeOf, AllIn
<1>3. Levels \in 0..Levels
  BY SizesAre
<1>4. n \in Trees[Levels] /\ n \in LocallyGood
  BY <1>1, <1>2, <1>3, KeptAre
<1>5. NodeOf(n, Levels)
  BY <1>2, <1>3, <1>4, NodesAre
<1> QED
  BY <1>4, <1>5, SizesAre DEF NodeOf, LocallyGood

\* UpperBound builds one.
LEMMA BuiltTree ==
    ASSUME NEW b \in Board PROVE IsTreeOf(Tree(b), b)
<1>1. ASSUME NEW G, IsKept(G, LocallyGood)
      PROVE  Tree(b) \in G[Levels] /\ IsRootNode(Tree(b), b)
  BY <1>1, TreeIs
<1>2. AllIn(Tree(b), LocallyGood)
  BY <1>1 DEF AllIn
<1>3. IsRootNode(Tree(b), b)
  BY <1>1, KeptExist
<1>4. PICK G : IsKept(G, LocallyGood)
  BY KeptExist
<1>5. ForcedScores(Tree(b), b)
  BY <1>4, TreeForced DEF ForcedScores
<1> QED
  BY <1>2, <1>3, <1>5 DEF IsTreeOf, IsRootNode, max_nomark

\* Prune leaves one.
LEMMA PrunedTree ==
    ASSUME NEW n, NEW b, IsTreeOf(n, b)
    PROVE  IsTreeOf(Prune(n), b) /\ (AllIn(n, Covers) => AllIn(Prune(n), Covers))
<1> DEFINE m == Prune(n)
           h == Levels
<1>1. h \in 0..Levels
  BY SizesAre
<1>2. n \in Trees[h]
  BY TreeOfType
<1>3. PICK p : IsPruning(p) /\ m = p[h][n]
  BY <1>2, PruneIs
<1> HIDE DEF m, h
<1>4. n # Null /\ ~Worthless(n) /\ n.letter = RootNode
  BY DEF IsTreeOf, Worthless
<1>5. m # Null /\ m.letter = RootNode /\ m.bound = n.bound
  BY <1>1, <1>2, <1>3, <1>4, PrunedSame
<1>6. AllIn(m, LocallyGood)
  <2>1. ASSUME NEW G, IsKept(G, LocallyGood) PROVE m \in G[h]
    BY <1>1, <1>3, <2>1, PruneKeepsGood DEF IsTreeOf, AllIn, h
  <2> QED
    BY <2>1 DEF AllIn, h
<1>7. ForcedScores(m, b)
  <2>1. PICK G : IsKept(G, LocallyGood)
    BY KeptExist
  <2>2. n \in G[h]
    BY <2>1 DEF IsTreeOf, AllIn, h
  <2>3. ASSUME NEW k \in Cells, NEW j \in DOMAIN b[k], NEW f,
               IsScore(f, {}, ForceOnto(k, j - 1))
        PROVE  f[h][m] = max_nomark(Narrowed(b, k, j))
    <3>1. f[h][m] = f[h][n]
      BY <1>1, <1>3, <2>1, <2>2, <2>3, PruneKeepsScore
    <3>2. f[h][n] = max_nomark(Narrowed(b, k, j))
      BY <2>3 DEF IsTreeOf, ForcedScores, h
    <3> QED
      BY <3>1, <3>2
  <2> QED
    BY <2>3 DEF ForcedScores, h
<1>8. ASSUME AllIn(n, Covers) PROVE AllIn(m, Covers)
  <2>1. ASSUME NEW C, IsKept(C, Covers) PROVE m \in C[h]
    BY <1>1, <1>3, <1>8, <2>1, PruneKeepsCover DEF AllIn, h
  <2> QED
    BY <2>1 DEF AllIn, h
<1>9. IsTreeOf(m, b)
  BY <1>5, <1>6, <1>7 DEF IsTreeOf
<1> QED
  BY <1>8, <1>9 DEF m

\* So does AttachPossibilities, whose work covers every node.
LEMMA AttachedTree ==
    ASSUME NEW n, NEW b, IsTreeOf(n, b)
    PROVE  IsTreeOf(AttachPossibilities(n), b) /\ AllIn(AttachPossibilities(n), Covers)
<1> DEFINE m == AttachPossibilities(n)
           h == Levels
<1>1. h \in 0..Levels
  BY SizesAre
<1>2. n \in Trees[h]
  BY TreeOfType
<1>3. PICK p : IsAttaching(p) /\ m = p[h][n]
  BY <1>2, AttachIs
<1> HIDE DEF m, h
<1>4. n # Null /\ n.letter = RootNode
  BY DEF IsTreeOf
<1>5. m # Null /\ m.letter = RootNode /\ m.bound = n.bound
  BY <1>1, <1>2, <1>3, <1>4, AttachedSame
<1>6. PICK G : IsKept(G, LocallyGood)
  BY KeptExist
<1>7. n \in G[h]
  BY <1>6 DEF IsTreeOf, AllIn, h
<1>8. AllIn(m, LocallyGood)
  <2>1. PICK C : IsKept(C, Covers)
    BY KeptExist
  <2>2. ASSUME NEW F, IsKept(F, LocallyGood) PROVE m \in F[h]
    <3>1. n \in F[h]
      BY <2>2 DEF IsTreeOf, AllIn, h
    <3> QED
      BY <1>1, <1>3, <2>1, <2>2, <3>1, AttachKeepsGood
  <2> QED
    BY <2>2 DEF AllIn, h
<1>9. AllIn(m, Covers)
  <2>1. ASSUME NEW C, IsKept(C, Covers) PROVE m \in C[h]
    BY <1>1, <1>3, <1>6, <1>7, <2>1, AttachKeepsGood
  <2> QED
    BY <2>1 DEF AllIn, h
<1>10. ForcedScores(m, b)
  <2>1. ASSUME NEW k \in Cells, NEW j \in DOMAIN b[k], NEW f,
               IsScore(f, {}, ForceOnto(k, j - 1))
        PROVE  f[h][m] = max_nomark(Narrowed(b, k, j))
    <3>1. f[h][m] = f[h][n]
      BY <1>1, <1>3, <1>6, <1>7, <2>1, AttachKeepsScore
    <3>2. f[h][n] = max_nomark(Narrowed(b, k, j))
      BY <2>1 DEF IsTreeOf, ForcedScores, h
    <3> QED
      BY <3>1, <3>2
  <2> QED
    BY <2>1 DEF ForcedScores, h
<1>11. IsTreeOf(m, b)
  BY <1>4, <1>5, <1>8, <1>10 DEF IsTreeOf
<1> QED
  BY <1>9, <1>11 DEF m

\* What the tools print of one.
LEMMA RecomputedScore ==
    ASSUME NEW n, NEW b, IsTreeOf(n, b)
    PROVE  RecomputeScore(n) = max_nomark(b)
<1>1. PICK f : /\ IsScore(f, {}, FullOnto)
               /\ \A t \in Trees[Levels] : RecomputeScore(t) = f[Levels][t]
  BY RecomputeIs
<1>2. PICK G : IsKept(G, LocallyGood)
  BY KeptExist
<1>3. n \in G[Levels] /\ n # Null /\ n.bound = max_nomark(b)
  BY <1>2 DEF IsTreeOf, AllIn
<1>4. Levels \in 0..Levels
  BY SizesAre
<1>5. f[Levels][n] = BoundOf(n)
  BY <1>1, <1>2, <1>3, <1>4, GoodBound
<1>6. n \in Trees[Levels]
  BY TreeOfType
<1> QED
  BY <1>1, <1>3, <1>5, <1>6 DEF BoundOf

\* ScoreWithForce, with possibilities attached.
LEMMA ForcedScore ==
    ASSUME NEW n, NEW b, IsTreeOf(n, b), AllIn(n, Covers),
           NEW k \in Cells, NEW j \in DOMAIN b[k]
    PROVE  ScoreWithForce(n, k, j - 1) = max_nomark(Narrowed(b, k, j))
<1> DEFINE m == j - 1
<1>1. PICK s : /\ IsScore(s, ForceStop(k), ForceOnto(k, m))
               /\ \A t \in Trees[Levels] : ScoreWithForce(t, k, m) = s[Levels][t]
  BY ForceIs
<1>2. PICK f : IsScore(f, {}, ForceOnto(k, m))
  BY ForceGoesDown, ScoresExist
<1>3. PICK G : IsKept(G, LocallyGood)
  BY KeptExist
<1>4. PICK C : IsKept(C, Covers)
  BY KeptExist
<1>5. n \in G[Levels] \cap C[Levels]
  BY <1>3, <1>4 DEF IsTreeOf, AllIn
<1>6. Levels \in 0..Levels
  BY SizesAre
<1>7. f[Levels][n] = max_nomark(Narrowed(b, k, j))
  BY <1>2 DEF IsTreeOf, ForcedScores
<1>8. n \in Trees[Levels]
  BY TreeOfType
<1> HIDE DEF m
<1>9. s[Levels][n] = f[Levels][n]
  BY <1>1, <1>2, <1>3, <1>4, <1>5, <1>6, ForceMayStop
<1>10. ScoreWithForce(n, k, m) = max_nomark(Narrowed(b, k, j))
  BY <1>1, <1>7, <1>8, <1>9
<1> QED
  BY <1>10 DEF m

-----------------------------------------------------------------------------
(* The steps of the tools. *)

\* What the steps of the tools keep: a tree is of a class that was parsed, and
\* once AttachPossibilities was called its possibilities cover every node.
TreeInv ==
    /\ BoardInv
    /\ pruned \in BOOLEAN /\ attached \in BOOLEAN
    /\ treeClass \in Board
    /\ (pruned \/ attached) => root_ # Null
    /\ root_ # Null => /\ \E t \in Texts : Legal(t) /\ treeClass = ClassNamed(t)
                       /\ IsTreeOf(root_, treeClass)
    /\ attached => AllIn(root_, Covers)

\* At first there is no tree.
LEMMA TreeInvInit == TreeInit => TreeInv
<1> SUFFICES ASSUME TreeInit PROVE TreeInv
  OBVIOUS
<1>1. BoardInv
  BY BoardInvInit DEF TreeInit
<1>2. treeClass \in Board
  <2> DEFINE e == <<>>
  <2>1. e \in Seq(Letters)
    BY EmptySeq
  <2>2. treeClass = [k \in Cells |-> e]
    BY DEF TreeInit
  <2> HIDE DEF e
  <2> QED
    BY <2>1, <2>2 DEF Board
<1> QED
  BY <1>1, <1>2 DEF TreeInit, TreeInv

\* The text of a class that was parsed is one of the callers'.
LEMMA LegalText ==
    ASSUME BoardInv, parsed
    PROVE  text \in Texts /\ Legal(text)
<1>1. text \in Texts \cup {<<>>} /\ Legal(text)
  BY DEF BoardInv, BoardTypeOK
<1>2. text # <<>>
  BY <1>1, EmptyNotLegal
<1> QED
  BY <1>1, <1>2

\* A tree is built for the class that the text names.
LEMMA BuildKeeps ==
    ASSUME TreeInv, BuildTree PROVE TreeInv'
<1> DEFINE b == ClassIn(bd_)
<1>1. /\ BoardInv /\ caller = "solve" /\ checked /\ narrowed = {}
      /\ treeClass' = b /\ root_' = Tree(treeClass') /\ pruned' = FALSE
      /\ attached' = FALSE /\ UNCHANGED boardVars
  BY DEF TreeInv, BuildTree
<1>2. parsed
  BY <1>1 DEF BoardInv
<1>3. b \in Board
  BY <1>1, ClassInType DEF BoardInv, BoardTypeOK
<1>4. b = ClassNamed(text)
  <2>1. \A k \in Cells : CellString(bd_[k]) = ClassNamed(text)[k]
    BY <1>1, <1>2 DEF BoardInv
  <2> QED
    BY <2>1 DEF ClassIn, ClassNamed
<1>5. text \in Texts /\ Legal(text)
  BY <1>1, <1>2, LegalText
<1> HIDE DEF b
<1>6. IsTreeOf(root_', treeClass')
  BY <1>1, <1>3, BuiltTree
<1>7. BoardInv'
  BY <1>1, BoardInvNext
<1>8. \E t \in Texts : Legal(t) /\ treeClass' = ClassNamed(t)
  BY <1>1, <1>4, <1>5
<1>9. (IsTreeOf(root_, treeClass))' = IsTreeOf(root_', treeClass')
  OBVIOUS
<1> QED
  BY <1>1, <1>3, <1>6, <1>7, <1>8, <1>9 DEF TreeInv

\* Every step keeps TreeInv.
LEMMA TreeInvNext == TreeInv /\ [TreeNext]_toolVars => TreeInv'
<1> SUFFICES ASSUME TreeInv, [TreeNext]_toolVars PROVE TreeInv'
  OBVIOUS
<1>1. ASSUME [BoardNext]_boardVars, UNCHANGED treeVars PROVE TreeInv'
  <2>1. BoardInv'
    BY <1>1, BoardInvNext DEF TreeInv
  <2> QED
    BY <1>1, <2>1 DEF TreeInv, treeVars
<1>2. CASE BuildTree
  BY <1>2, BuildKeeps
<1>3. ASSUME UNCHANGED boardVars PROVE BoardInv'
  BY <1>3, BoardInvNext DEF TreeInv
<1>4. CASE PruneTree
  <2>1. /\ root_ # Null /\ root_' = Prune(root_) /\ pruned' = TRUE
        /\ UNCHANGED <<boardVars, attached, treeClass>>
    BY <1>4 DEF PruneTree
  <2>2. /\ IsTreeOf(root_', treeClass')
        /\ attached' => AllIn(root_', Covers)
    BY <2>1, PrunedTree DEF TreeInv
  <2>3. root_' # Null
    BY <2>2 DEF IsTreeOf
  <2>4. /\ (IsTreeOf(root_, treeClass))' = IsTreeOf(root_', treeClass')
        /\ (AllIn(root_, Covers))' = AllIn(root_', Covers)
    OBVIOUS
  <2> QED
    BY <1>3, <2>1, <2>2, <2>3, <2>4 DEF TreeInv
<1>5. CASE AttachToTree
  <2>1. /\ root_ # Null /\ root_' = AttachPossibilities(root_) /\ attached' = TRUE
        /\ UNCHANGED <<boardVars, pruned, treeClass>>
    BY <1>5 DEF AttachToTree
  <2>2. IsTreeOf(root_', treeClass') /\ AllIn(root_', Covers)
    BY <2>1, AttachedTree DEF TreeInv
  <2>3. root_' # Null
    BY <2>2 DEF IsTreeOf
  <2>4. /\ (IsTreeOf(root_, treeClass))' = IsTreeOf(root_', treeClass')
        /\ (AllIn(root_, Covers))' = AllIn(root_', Covers)
    OBVIOUS
  <2> QED
    BY <1>3, <2>1, <2>2, <2>3, <2>4 DEF TreeInv
<1>6. CASE BoardStep
  BY <1>1, <1>6 DEF BoardStep
<1>7. CASE UNCHANGED toolVars
  BY <1>1, <1>7 DEF toolVars
<1> QED
  BY <1>2, <1>4, <1>5, <1>6, <1>7 DEF TreeNext

\* Whatever the tools do, TreeInv holds.
LEMMA TreeInvariant == TreeSpec => []TreeInv
<1>1. TreeInit => TreeInv
  BY TreeInvInit
<1>2. TreeInv /\ [TreeNext]_toolVars => TreeInv'
  BY TreeInvNext
<1> QED
  BY <1>1, <1>2, PTL DEF TreeSpec

\* Whatever is parsed and narrowed around it, the score recomputed from the tree,
\* pruned or not, is the bound that UpperBound left in max_nomark for the class the
\* tree was built for (ibucket_boggle.cc:69, tree_tool.cc:59).
THEOREM RecomputedScoreIsBound == TreeSpec => []RecomputedIsBound
<1>1. TreeInv => RecomputedIsBound
  <2> SUFFICES ASSUME TreeInv PROVE RecomputedIsBound
    OBVIOUS
  <2>1. ASSUME root_ # Null
        PROVE  /\ root_.letter = RootNode /\ root_.bound \in Nat
               /\ root_.possibilities \subseteq Cells
               /\ RecomputeScore(root_) = max_nomark(treeClass)
    <3>1. IsTreeOf(root_, treeClass)
      BY <2>1 DEF TreeInv
    <3>2. root_.letter = RootNode
      BY <3>1 DEF IsTreeOf
    <3> QED
      BY <3>1, <3>2, TreeOfType, RecomputedScore
  <2> QED
    BY <2>1 DEF TreeInv, BoardInv, RecomputedIsBound, TreeTypeOK
<1> QED
  BY <1>1, TreeInvariant, PTL

\* The two sums that tree_tool prints are equal term by term: with a letter forced,
\* the tree scores what UpperBound finds for the class with only this letter in its
\* cell, in whatever order the tree was pruned and possibilities attached.
THEOREM ForcedScoreIsNarrowed == TreeSpec => []ForcedIsNarrowed
<1>1. TreeInv => ForcedIsNarrowed
  <2> SUFFICES ASSUME TreeInv, attached, NEW k \in Cells, NEW j \in DOMAIN treeClass[k]
               PROVE  ScoreWithForce(root_, k, j - 1) = NarrowedBounds[treeClass][k][j]
    BY DEF ForcedIsNarrowed
  <2>1. /\ IsTreeOf(root_, treeClass) /\ AllIn(root_, Covers)
        /\ \E t \in Texts : Legal(t) /\ treeClass = ClassNamed(t)
    BY DEF TreeInv
  <2>2. ScoreWithForce(root_, k, j - 1) = max_nomark(Narrowed(treeClass, k, j))
    BY <2>1, ForcedScore
  <2>3. treeClass \in {ClassNamed(t) : t \in {t \in Texts : Legal(t)}}
    BY <2>1
  <2>4. NarrowedBounds[treeClass][k][j] = max_nomark([treeClass EXCEPT ![k] = <<treeClass[k][j]>>])
    BY <2>3 DEF NarrowedBounds
  <2> QED
    BY <2>2, <2>4 DEF Narrowed
<1> QED
  BY <1>1, TreeInvariant, PTL
=============================================================================
