--------------------------- MODULE BreakAllProofs ---------------------------
(***************************************************************************)
(* Proofs about BreakAll, for every size of the grid, every set of letter  *)
(* classes and every dictionary.  Three things are put together: a class   *)
(* and its number are in one-to-one correspondence, and the order of the   *)
(* numbers is that of the encoded boards; what the code turns and mirrors  *)
(* are symmetries of a square grid; and a symmetry keeps the score.        *)
(***************************************************************************)
EXTENDS BreakAll, ScoringProofs

-----------------------------------------------------------------------------
\* There are cells and letter classes.
LEMMA Sizes ==
    /\ NumCells \in Nat \ {0} /\ Cells = 1..NumCells /\ AllCells = Cells
    /\ num_classes \in Nat \ {0} /\ DOMAIN classes = 1..num_classes
    /\ \A c \in 1..num_classes : classes[c] \in Seq(Letters)
<1>1. \A w, h \in Nat \ {0} : w * h \in Nat \ {0}
  OBVIOUS
<1>2. /\ classes \in Seq(Seq(Letters) \ {<<>>}) /\ classes # <<>>
  BY PartitionAssumption
<1>3. num_classes \in Nat /\ DOMAIN classes = 1..num_classes
  BY <1>2, LenProperties DEF num_classes
<1>4. num_classes # 0
  BY <1>2, <1>3, EmptySeq DEF num_classes
<1>5. \A c \in 1..num_classes : classes[c] \in Seq(Letters)
  BY <1>2, ElementOfSeq DEF num_classes
<1> QED
  BY <1>1, <1>3, <1>4, <1>5, GridAssumption DEF NumCells, Cells, AllCells

Digits == 0..(num_classes - 1)

-----------------------------------------------------------------------------
(* Numbers and encoded boards. *)

\* The loop of BoardFromId, round by round.
LEMMA LeftIs ==
    ASSUME NEW id \in Nat
    PROVE  /\ Left(id) \in [0..NumCells -> Nat]
           /\ Left(id)[0] = id
           /\ \A j \in 1..NumCells : Left(id)[j] = Left(id)[j - 1] \div num_classes
<1> DEFINE N == NumCells
           n == num_classes
           step == [j \in 1..N |-> [v \in Nat |-> v \div n]]
           Eq(f) == f = [j \in 0..N |-> IF j = 0 THEN id ELSE f[j - 1] \div n]
<1>1. N \in Nat \ {0} /\ n \in Nat \ {0}
  BY Sizes
<1>2. \A v \in Nat : v \div n \in Nat
  BY <1>1
<1>3. Left(id) = CHOOSE f : Eq(f)
  BY DEF Left
<1> HIDE DEF N, n
<1>4. \A j \in 1..N : \A v \in Nat : step[j][v] = v \div n /\ step[j][v] \in Nat
  BY <1>2
<1> HIDE DEF step
<1>5. PICK f : Iterates(f, N, Nat, id, step)
  BY <1>1, <1>4, IteratesExist
<1>6. \A j \in 0..N : j # 0 => j \in 1..N /\ j - 1 \in 0..N
  BY <1>1
<1>7. \A j \in 0..N : f[j] = IF j = 0 THEN id ELSE f[j - 1] \div n
  BY <1>4, <1>5, <1>6 DEF Iterates
<1>8. Eq(f)
  BY <1>5, <1>7 DEF Iterates
<1>9. Eq(Left(id))
  BY <1>3, <1>8
<1> DEFINE g == Left(id)
<1>10. g = [j \in 0..N |-> g[j]]
  BY <1>9
<1>11. \A j \in 0..N : g[j] = IF j = 0 THEN id ELSE g[j - 1] \div n
  BY <1>9
<1> HIDE DEF g, Eq
<1>12. /\ 0 \in 0..N /\ \A j \in 1..N : j \in 0..N /\ j # 0 /\ j - 1 \in 0..N
  BY <1>1
<1>13. g[0] = id /\ \A j \in 1..N : g[j] = g[j - 1] \div n
  BY <1>11, <1>12
<1> DEFINE T == {j \in 0..N : g[j] \in Nat}
<1>14. 0 \in T /\ \A j \in 1..N : j - 1 \in T => j \in T
  BY <1>2, <1>12, <1>13
<1> HIDE DEF T
<1>15. \A j \in 0..N : j \in T
  BY <1>1, <1>14, StepsUp
<1> QED
  BY <1>10, <1>13, <1>15 DEF T, g, N, n

\* num_classes to the power of j.
LEMMA PowerIs ==
    /\ Power \in [0..NumCells -> Nat \ {0}]
    /\ Power[0] = 1
    /\ \A j \in 1..NumCells : Power[j] = Power[j - 1] * num_classes
<1> DEFINE N == NumCells
           n == num_classes
           P == Nat \ {0}
           step == [j \in 1..N |-> [v \in P |-> v * n]]
           Eq(f) == f = [j \in 0..N |-> IF j = 0 THEN 1 ELSE f[j - 1] * n]
<1>1. N \in Nat \ {0} /\ n \in P /\ 1 \in P
  BY Sizes
<1>2. \A v, w \in P : v * w \in P
  OBVIOUS
<1>3. Power = CHOOSE f : Eq(f)
  BY DEF Power
<1> HIDE DEF N, n, P
<1>4. \A j \in 1..N : \A v \in P : step[j][v] = v * n /\ step[j][v] \in P
  BY <1>1, <1>2
<1> HIDE DEF step
<1>5. PICK f : Iterates(f, N, P, 1, step)
  BY <1>1, <1>4, IteratesExist
<1>6. \A j \in 0..N : j # 0 => j \in 1..N /\ j - 1 \in 0..N
  BY <1>1
<1>7. \A j \in 0..N : f[j] = IF j = 0 THEN 1 ELSE f[j - 1] * n
  BY <1>4, <1>5, <1>6 DEF Iterates
<1>8. Eq(f)
  BY <1>5, <1>7 DEF Iterates
<1>9. Eq(Power)
  BY <1>3, <1>8
<1> DEFINE g == Power
<1>10. g = [j \in 0..N |-> g[j]]
  BY <1>9
<1>11. \A j \in 0..N : g[j] = IF j = 0 THEN 1 ELSE g[j - 1] * n
  BY <1>9
<1> HIDE DEF g, Eq
<1>12. /\ 0 \in 0..N /\ \A j \in 1..N : j \in 0..N /\ j # 0 /\ j - 1 \in 0..N
  BY <1>1
<1>13. g[0] = 1 /\ \A j \in 1..N : g[j] = g[j - 1] * n
  BY <1>11, <1>12
<1> DEFINE T == {j \in 0..N : g[j] \in P}
<1>14. 0 \in T /\ \A j \in 1..N : j - 1 \in T => j \in T
  BY <1>1, <1>2, <1>12, <1>13
<1> HIDE DEF T
<1>15. \A j \in 0..N : j \in T
  BY <1>1, <1>14, StepsUp
<1> QED
  BY <1>10, <1>13, <1>15 DEF T, g, N, n, P

\* The value of a numeral with the digits d, the highest first.
Horner(f, d) ==
    /\ f \in [0..NumCells -> Nat]
    /\ f[0] = 0
    /\ \A j \in 1..NumCells : f[j] = f[j - 1] * num_classes + d[j]

\* Every numeral has a value.
LEMMA HornerExists ==
    ASSUME NEW d, \A j \in 1..NumCells : d[j] \in Digits
    PROVE  \E f : Horner(f, d)
<1> DEFINE N == NumCells
           n == num_classes
           step == [j \in 1..N |-> [v \in Nat |-> v * n + d[j]]]
<1>1. N \in Nat \ {0} /\ n \in Nat \ {0}
  BY Sizes
<1>2. \A j \in 1..N : d[j] \in Nat
  BY <1>1 DEF Digits
<1>3. \A v, w, x \in Nat : v * w + x \in Nat
  OBVIOUS
<1> HIDE DEF N, n
<1>4. \A j \in 1..N : \A v \in Nat : step[j][v] = v * n + d[j] /\ step[j][v] \in Nat
  BY <1>1, <1>2, <1>3
<1> HIDE DEF step
<1>5. PICK f : Iterates(f, N, Nat, 0, step)
  BY <1>1, <1>4, IteratesExist
<1>6. \A j \in 1..N : j - 1 \in 0..N
  BY <1>1
<1>7. \A j \in 1..N : f[j] = f[j - 1] * n + d[j]
  BY <1>4, <1>5, <1>6 DEF Iterates
<1> QED
  BY <1>5, <1>7 DEF Iterates, Horner, N, n

\* A digit does not carry.
LEMMA Carry ==
    ASSUME NEW n \in Nat \ {0}, NEW a \in Nat, NEW b \in Nat, a < b, NEW r \in 0..(n - 1)
    PROVE  a * n + r < b * n
<1> DEFINE c == b - a - 1
<1>1. c \in Nat /\ b = a + 1 + c
  OBVIOUS
<1> HIDE DEF c
<1>2. b * n = a * n + n + c * n
  BY <1>1
<1>3. a * n \in Nat /\ c * n \in Nat
  BY <1>1
<1> QED
  BY <1>2, <1>3

\* One digit is split off.
LEMMA DigitOff ==
    ASSUME NEW n \in Nat \ {0}, NEW q \in Nat, NEW r \in 0..(n - 1)
    PROVE  (q * n + r) \div n = q /\ (q * n + r) % n = r
  OBVIOUS

\* What is left is smaller by the factor.
LEMMA DivSmaller ==
    ASSUME NEW n \in Nat \ {0}, NEW x \in Nat, NEW p \in Nat, x < p * n
    PROVE  x \div n < p
<1> DEFINE q == x \div n
           r == x % n
<1>1. q \in Nat /\ r \in 0..(n - 1) /\ x = q * n + r
  BY ModIs
<1> HIDE DEF q, r
<1>2. ASSUME p <= q PROVE FALSE
  <2> DEFINE c == q - p
  <2>1. c \in Nat /\ q = p + c
    BY <1>1, <1>2
  <2> HIDE DEF c
  <2>2. q * n = p * n + c * n
    BY <2>1
  <2>3. p * n \in Nat /\ c * n \in Nat
    BY <2>1
  <2> QED
    BY <1>1, <2>2, <2>3
<1>3. \A i, j \in Nat : ~(j <= i) => i < j
  OBVIOUS
<1>4. q < p
  BY <1>1, <1>2, <1>3
<1> QED
  BY <1>4 DEF q

\* The value of a numeral is below the power, and taking it apart again gives
\* the values of its beginnings and its digits.
LEMMA HornerLeft ==
    ASSUME NEW d, \A j \in 1..NumCells : d[j] \in Digits, NEW f, Horner(f, d)
    PROVE  /\ f[NumCells] \in Nat /\ f[NumCells] < NumClasses
           /\ \A j \in 0..NumCells : Left(f[NumCells])[j] = f[NumCells - j]
           /\ \A j \in 1..NumCells :
                 Left(f[NumCells])[NumCells - j] % num_classes = d[j]
<1> DEFINE N == NumCells
           n == num_classes
           id == f[NumCells]
           g == Left(id)
<1>1. N \in Nat \ {0} /\ n \in Nat \ {0} /\ N \in 0..N /\ 0 \in 0..N
  BY Sizes
<1>2. /\ \A j \in 0..N : f[j] \in Nat
      /\ f[0] = 0
      /\ \A j \in 1..N : f[j] = f[j - 1] * n + d[j] /\ d[j] \in 0..(n - 1)
  BY DEF Horner, Digits
<1>3. id \in Nat
  BY <1>1, <1>2
<1>4. /\ g \in [0..N -> Nat] /\ g[0] = id
      /\ \A j \in 1..N : g[j] = g[j - 1] \div n
  BY <1>3, LeftIs
<1>5. /\ Power \in [0..N -> Nat \ {0}] /\ Power[0] = 1
      /\ \A j \in 1..N : Power[j] = Power[j - 1] * n
  BY PowerIs
<1>6. id = f[N]
  OBVIOUS
<1> HIDE DEF N, n, id, g
<1>7. \A j \in 1..N : /\ j \in 0..N /\ j - 1 \in 0..N /\ N - j \in 0..N
                      /\ N - (j - 1) \in 1..N /\ (N - (j - 1)) - 1 = N - j
                      /\ N - (j - 1) \in 0..N
  BY <1>1
<1>8. \A j \in 1..N : f[j] \div n = f[j - 1] /\ f[j] % n = d[j]
  <2>1. ASSUME NEW j \in 1..N PROVE f[j] \div n = f[j - 1] /\ f[j] % n = d[j]
    <3> DEFINE q == f[j - 1]
               r == d[j]
    <3>1. q \in Nat /\ r \in 0..(n - 1) /\ f[j] = q * n + r
      BY <1>2, <1>7
    <3> HIDE DEF q, r
    <3>2. f[j] \div n = q /\ f[j] % n = r
      BY <1>1, <3>1, DigitOff
    <3> QED
      BY <3>2 DEF q, r
  <2> QED
    BY <2>1
<1>9. \A j \in 0..N : f[j] < Power[j]
  <2> DEFINE T == {j \in 0..N : f[j] < Power[j]}
  <2>1. 0 \in T
    BY <1>1, <1>2, <1>5
  <2>2. ASSUME NEW j \in 1..N, j - 1 \in T PROVE j \in T
    <3> DEFINE a == f[j - 1]
               b == Power[j - 1]
               r == d[j]
    <3>1. /\ a \in Nat /\ b \in Nat /\ a < b /\ r \in 0..(n - 1)
          /\ f[j] = a * n + r /\ Power[j] = b * n
      BY <1>2, <1>5, <1>7, <2>2
    <3> HIDE DEF a, b, r
    <3>2. f[j] < Power[j]
      BY <1>1, <3>1, Carry
    <3> QED
      BY <1>7, <3>2
  <2> HIDE DEF T
  <2>3. \A j \in 0..N : j \in T
    BY <1>1, <2>1, <2>2, StepsUp
  <2> QED
    BY <2>3 DEF T
<1>10. \A j \in 0..N : g[j] = f[N - j]
  <2> DEFINE T == {j \in 0..N : g[j] = f[N - j]}
  <2>1. 0 \in T
    <3>1. N - 0 = N
      BY <1>1
    <3> QED
      BY <1>1, <1>4, <1>6, <3>1
  <2>2. ASSUME NEW j \in 1..N, j - 1 \in T PROVE j \in T
    <3> DEFINE k == N - (j - 1)
    <3>1. g[j] = g[j - 1] \div n /\ g[j - 1] = f[k]
      BY <1>4, <2>2
    <3>2. k \in 1..N /\ k - 1 = N - j
      BY <1>7
    <3> HIDE DEF k
    <3>3. f[k] \div n = f[N - j]
      BY <1>8, <3>2
    <3> QED
      BY <1>7, <3>1, <3>3
  <2> HIDE DEF T
  <2>3. \A j \in 0..N : j \in T
    BY <1>1, <2>1, <2>2, StepsUp
  <2> QED
    BY <2>3 DEF T
<1>11. \A j \in 1..N : g[N - j] % n = d[j]
  <2>1. ASSUME NEW j \in 1..N PROVE g[N - j] % n = d[j]
    <3>1. N - j \in 0..N /\ N - (N - j) = j
      BY <1>1
    <3>2. g[N - j] = f[j]
      BY <1>10, <3>1
    <3> QED
      BY <1>8, <3>2
  <2> QED
    BY <2>1
<1>12. f[N] \in Nat /\ f[N] < Power[N]
  BY <1>1, <1>2, <1>9
<1> QED
  BY <1>10, <1>11, <1>12 DEF N, n, id, g, NumClasses

\* The first digit that differs decides which value is smaller.
LEMMA HornerLess ==
    ASSUME NEW a, NEW b, \A j \in 1..NumCells : a[j] \in Digits /\ b[j] \in Digits,
           NEW f, NEW g, Horner(f, a), Horner(g, b),
           NEW k \in 1..NumCells, a[k] < b[k], \A m \in 1..(k - 1) : a[m] = b[m]
    PROVE  f[NumCells] < g[NumCells]
<1> DEFINE N == NumCells
           n == num_classes
           T == {j \in 0..N : IF j < k THEN f[j] = g[j] ELSE f[j] < g[j]}
<1>1. N \in Nat \ {0} /\ n \in Nat \ {0} /\ N \in 0..N /\ 0 \in 0..N /\ k \in 1..N
  BY Sizes
<1>2. /\ \A j \in 0..N : f[j] \in Nat /\ g[j] \in Nat
      /\ f[0] = 0 /\ g[0] = 0
      /\ \A j \in 1..N : /\ f[j] = f[j - 1] * n + a[j] /\ a[j] \in 0..(n - 1)
                         /\ g[j] = g[j - 1] * n + b[j] /\ b[j] \in 0..(n - 1)
  BY DEF Horner, Digits
<1> HIDE DEF N, n
<1>3. 0 \in T
  BY <1>1, <1>2
<1>4. ASSUME NEW j \in 1..N, j - 1 \in T PROVE j \in T
  <2>1. j - 1 \in 0..N /\ j \in 0..N /\ j \in Nat /\ k \in Nat
    BY <1>1
  <2> DEFINE x == f[j - 1]
             y == g[j - 1]
             r == a[j]
             s == b[j]
  <2>2. /\ x \in Nat /\ y \in Nat /\ r \in 0..(n - 1) /\ s \in 0..(n - 1)
        /\ f[j] = x * n + r /\ g[j] = y * n + s
        /\ IF j - 1 < k THEN x = y ELSE x < y
    BY <1>2, <1>4, <2>1
  <2>3. (j < k => r = s) /\ (j = k => r < s)
    BY <1>1, <2>1
  <2> HIDE DEF x, y, r, s
  <2>4. CASE j < k
    BY <1>1, <2>1, <2>2, <2>3, <2>4
  <2>5. CASE j = k
    <3>1. x = y
      BY <1>1, <2>1, <2>2, <2>5
    <3>2. x * n \in Nat
      BY <1>1, <2>2
    <3>3. f[j] < g[j]
      BY <1>1, <2>2, <2>3, <2>5, <3>1, <3>2
    <3> QED
      BY <1>1, <2>1, <2>5, <3>3
  <2>6. CASE j > k
    <3>1. x < y
      BY <1>1, <2>1, <2>2, <2>6
    <3>2. f[j] < y * n
      BY <1>1, <2>2, <3>1, Carry
    <3>3. x * n \in Nat /\ y * n \in Nat
      BY <1>1, <2>2
    <3>4. f[j] < g[j]
      BY <1>1, <2>2, <3>2, <3>3
    <3> QED
      BY <1>1, <2>1, <2>6, <3>4
  <2> QED
    BY <1>1, <2>1, <2>4, <2>5, <2>6
<1> HIDE DEF T
<1>5. N \in T
  BY <1>1, <1>3, <1>4, StepsUp
<1>6. ~(N < k)
  BY <1>1
<1> QED
  BY <1>5, <1>6 DEF T, N

\* Numerals with the same digits have the same value.
LEMMA HornerSame ==
    ASSUME NEW a, NEW b, \A j \in 1..NumCells : a[j] = b[j],
           NEW f, NEW g, Horner(f, a), Horner(g, b)
    PROVE  f[NumCells] = g[NumCells]
<1> DEFINE N == NumCells
           T == {j \in 0..N : f[j] = g[j]}
<1>1. N \in Nat \ {0} /\ N \in 0..N /\ 0 \in 0..N
  BY Sizes
<1>2. 0 \in T
  BY <1>1 DEF Horner
<1>3. \A j \in 1..N : j - 1 \in T => j \in T
  <2>1. \A j \in 1..N : j \in 0..N
    BY <1>1
  <2> QED
    BY <2>1 DEF Horner
<1> HIDE DEF T
<1>4. N \in T
  BY <1>1, <1>2, <1>3, StepsUp
<1> QED
  BY <1>4 DEF T

EncodedBoards == [Cells -> Digits]

\* What the numbers stand for.
LEMMA FromIdType ==
    ASSUME NEW id \in Nat
    PROVE  BoardFromId(id) \in EncodedBoards /\ PaperFromId(id) \in EncodedBoards
<1>1. /\ NumCells \in Nat \ {0} /\ num_classes \in Nat \ {0} /\ Cells = 1..NumCells
  BY Sizes
<1>2. Left(id) \in [0..NumCells -> Nat]
  BY LeftIs
<1>3. \A x \in Nat : x % num_classes \in Digits
  BY <1>1 DEF Digits
<1>4. \A k \in Cells : NumCells - k \in 0..NumCells /\ k - 1 \in 0..NumCells
  BY <1>1
<1>5. \A k \in Cells : /\ Left(id)[NumCells - k] % num_classes \in Digits
                       /\ Left(id)[k - 1] % num_classes \in Digits
  BY <1>2, <1>3, <1>4
<1> QED
  BY <1>5 DEF BoardFromId, PaperFromId, EncodedBoards

\* A number below max_index is the value of its own board.
LEMMA NumberIsValue ==
    ASSUME NEW id \in 0..(NumClasses - 1)
    PROVE  \E f : Horner(f, BoardFromId(id)) /\ f[NumCells] = id
<1> DEFINE N == NumCells
           n == num_classes
           g == Left(id)
           b == BoardFromId(id)
           f == [j \in 0..N |-> g[N - j]]
<1>1. /\ N \in Nat \ {0} /\ n \in Nat \ {0} /\ N \in 0..N /\ 0 \in 0..N
      /\ Cells = 1..N
  BY Sizes
<1>2. /\ Power \in [0..N -> Nat \ {0}] /\ Power[0] = 1
      /\ \A j \in 1..N : Power[j] = Power[j - 1] * n
  BY PowerIs
<1>3. id \in Nat /\ id < Power[N]
  BY <1>1, <1>2 DEF NumClasses
<1>4. /\ g \in [0..N -> Nat] /\ g[0] = id
      /\ \A j \in 1..N : g[j] = g[j - 1] \div n
  BY <1>3, LeftIs
<1>5. \A k \in 1..N : b[k] = g[N - k] % n
  BY <1>1 DEF BoardFromId
<1> HIDE DEF N, n, g, b
<1>6. \A j \in 1..N : /\ j \in 0..N /\ j - 1 \in 0..N /\ N - j \in 0..N
                      /\ N - (j - 1) \in 1..N /\ (N - (j - 1)) - 1 = N - j
                      /\ N - (j - 1) \in 0..N
  BY <1>1
<1>7. \A j \in 0..N : g[j] < Power[N - j]
  <2> DEFINE T == {j \in 0..N : g[j] < Power[N - j]}
  <2>1. 0 \in T
    <3>1. N - 0 = N
      BY <1>1
    <3> QED
      BY <1>1, <1>3, <1>4, <3>1
  <2>2. ASSUME NEW j \in 1..N, j - 1 \in T PROVE j \in T
    <3> DEFINE k == N - (j - 1)
               x == g[j - 1]
               p == Power[N - j]
    <3>1. k \in 1..N /\ k - 1 = N - j /\ k \in 0..N
      BY <1>6
    <3>2. Power[k] = Power[k - 1] * n
      BY <1>2, <3>1
    <3>3. x < Power[k]
      BY <2>2
    <3>4. Power[k] = p * n
      BY <3>1, <3>2
    <3>5. x \in Nat /\ p \in Nat /\ g[j] = x \div n
      BY <1>2, <1>4, <1>6
    <3> HIDE DEF x, p, k
    <3>6. x \div n < p
      BY <1>1, <3>3, <3>4, <3>5, DivSmaller
    <3> QED
      BY <1>6, <3>5, <3>6 DEF p
  <2> HIDE DEF T
  <2>3. \A j \in 0..N : j \in T
    BY <1>1, <2>1, <2>2, StepsUp
  <2> QED
    BY <2>3 DEF T
<1>8. g[N] = 0
  <2>1. N - N = 0
    BY <1>1
  <2>2. g[N] \in Nat /\ g[N] < 1
    BY <1>1, <1>2, <1>4, <1>7, <2>1
  <2> QED
    BY <2>2
<1>9. f \in [0..N -> Nat]
  <2>1. \A j \in 0..N : N - j \in 0..N
    BY <1>1
  <2> QED
    BY <1>4, <2>1
<1>10. f[0] = 0 /\ f[N] = id
  <2>1. N - 0 = N /\ N - N = 0
    BY <1>1
  <2> QED
    BY <1>1, <1>4, <1>8, <2>1
<1>11. \A j \in 1..N : f[j] = f[j - 1] * n + b[j]
  <2>1. ASSUME NEW j \in 1..N PROVE f[j] = f[j - 1] * n + b[j]
    <3> DEFINE k == N - (j - 1)
               x == g[N - j]
    <3>1. f[j] = x /\ f[j - 1] = g[k] /\ b[j] = x % n /\ x \in Nat
      BY <1>4, <1>5, <1>6
    <3>2. g[k] = x \div n
      BY <1>4, <1>6
    <3> HIDE DEF x
    <3>3. x = (x \div n) * n + (x % n)
      BY <1>1, <3>1, ModIs
    <3> QED
      BY <3>1, <3>2, <3>3
  <2> QED
    BY <2>1
<1> HIDE DEF f
<1>12. Horner(f, b) /\ f[N] = id
  BY <1>9, <1>10, <1>11 DEF Horner, N, n
<1> QED
  BY <1>12 DEF N, b

\* A board that is less than that of a number has a lower number.
LEMMA NumberedBefore ==
    ASSUME NEW id \in 0..(NumClasses - 1), NEW b \in EncodedBoards,
           LessThan(b, BoardFromId(id))
    PROVE  \E m \in 0..(id - 1) : BoardFromId(m) = b
<1> DEFINE N == NumCells
           a == BoardFromId(id)
<1>1. /\ N \in Nat \ {0} /\ Cells = 1..N /\ num_classes \in Nat \ {0}
  BY Sizes
<1>2. id \in Nat
  BY PowerIs, Sizes DEF NumClasses
<1>3. a \in EncodedBoards
  BY <1>2, FromIdType
<1>4. PICK f : Horner(f, a) /\ f[N] = id
  BY NumberIsValue
<1>5. \A j \in 1..N : b[j] \in Digits /\ a[j] \in Digits
  BY <1>1, <1>3 DEF EncodedBoards
<1>6. PICK g : Horner(g, b)
  BY <1>5, HornerExists
<1>7. PICK k \in Cells : b[k] < a[k] /\ \A m \in 1..(k - 1) : b[m] = a[m]
  BY DEF LessThan
<1> HIDE DEF a
<1>8. g[N] < f[N]
  BY <1>1, <1>4, <1>5, <1>6, <1>7, HornerLess
<1>9. /\ g[N] \in Nat
      /\ \A j \in 1..N : Left(g[N])[N - j] % num_classes = b[j]
  BY <1>5, <1>6, HornerLeft
<1>10. BoardFromId(g[N]) = b
  BY <1>1, <1>9 DEF BoardFromId, EncodedBoards
<1>11. g[N] \in 0..(id - 1)
  BY <1>2, <1>4, <1>8, <1>9
<1> QED
  BY <1>10, <1>11

\* Paper's numbers: those of the boards read backwards.
LEMMA PaperIsReverse ==
    ASSUME NEW id \in Nat
    PROVE  \A k \in Cells : PaperFromId(id)[k] = BoardFromId(id)[NumCells + 1 - k]
<1>1. NumCells \in Nat /\ Cells = 1..NumCells
  BY Sizes
<1>2. \A k \in Cells : /\ NumCells + 1 - k \in Cells
                       /\ NumCells - (NumCells + 1 - k) = k - 1
  BY <1>1
<1> QED
  BY <1>2 DEF PaperFromId, BoardFromId

\* BoardId is the inverse of FromId (paper/breaker.cc:210).
LEMMA PaperNumber ==
    ASSUME NEW b \in EncodedBoards
    PROVE  /\ PaperBoardId(b) \in 0..(NumClasses - 1)
           /\ PaperFromId(PaperBoardId(b)) = b
<1> DEFINE N == NumCells
           n == num_classes
           d == [j \in 1..N |-> b[N + 1 - j]]
           Eq(f) == f = [j \in 0..N |-> IF j = 0 THEN 0 ELSE f[j - 1] * n + b[N + 1 - j]]
           v == CHOOSE f : Eq(f)
<1>1. /\ N \in Nat \ {0} /\ Cells = 1..N /\ n \in Nat \ {0} /\ N \in 0..N
  BY Sizes
<1>2. \A j \in 1..N : N + 1 - j \in 1..N /\ N + 1 - (N + 1 - j) = j
                      /\ N - (N + 1 - j) = j - 1
  BY <1>1
<1>3. \A j \in 1..N : d[j] \in Digits /\ d[j] = b[N + 1 - j]
  BY <1>1, <1>2 DEF EncodedBoards
<1>4. PICK f : Horner(f, d)
  BY <1>3, HornerExists
<1>5. PaperBoardId(b) = v[N]
  BY DEF PaperBoardId
<1>6. Eq(f)
  <2>1. \A j \in 0..N : j # 0 => j \in 1..N
    BY <1>1
  <2>2. \A j \in 0..N : f[j] = IF j = 0 THEN 0 ELSE f[j - 1] * n + b[N + 1 - j]
    BY <1>3, <1>4, <2>1 DEF Horner
  <2> QED
    BY <1>4, <2>2 DEF Horner
<1>7. Eq(v)
  BY <1>6
<1> HIDE DEF d
<1>8. \A j \in 0..N : v[j] = IF j = 0 THEN 0 ELSE v[j - 1] * n + b[N + 1 - j]
  BY <1>7
<1> HIDE DEF v, Eq
<1>9. v[N] = f[N]
  <2> DEFINE T == {j \in 0..N : v[j] = f[j]}
  <2>1. 0 \in T
    BY <1>1, <1>4, <1>8 DEF Horner
  <2>2. \A j \in 1..N : j - 1 \in T => j \in T
    <3>1. \A j \in 1..N : j \in 0..N /\ j # 0
      BY <1>1
    <3> QED
      BY <1>3, <1>4, <1>8, <3>1 DEF Horner
  <2> HIDE DEF T
  <2>3. N \in T
    BY <1>1, <2>1, <2>2, StepsUp
  <2> QED
    BY <2>3 DEF T
<1>10. /\ f[N] \in Nat /\ f[N] < NumClasses
       /\ \A j \in 1..N : Left(f[N])[N - j] % n = d[j]
  BY <1>3, <1>4, HornerLeft
<1>11. NumClasses \in Nat
  BY PowerIs, Sizes DEF NumClasses
<1>12. f[N] \in 0..(NumClasses - 1)
  BY <1>10, <1>11
<1>13. PaperFromId(f[N]) = b
  <2>1. ASSUME NEW k \in Cells PROVE Left(f[N])[k - 1] % n = b[k]
    <3> DEFINE j == N + 1 - k
    <3>1. j \in 1..N /\ N - j = k - 1 /\ N + 1 - j = k
      BY <1>1, <1>2
    <3> HIDE DEF j
    <3>2. Left(f[N])[N - j] % n = d[j] /\ d[j] = b[N + 1 - j]
      BY <1>3, <1>10, <3>1
    <3> QED
      BY <3>1, <3>2
  <2> QED
    BY <1>1, <2>1 DEF PaperFromId, EncodedBoards
<1> QED
  BY <1>5, <1>9, <1>12, <1>13

\* Two numbers stand for boards that differ.
LEMMA FromIdOnce ==
    ASSUME NEW id \in 0..(NumClasses - 1), NEW m \in 0..(NumClasses - 1), id # m
    PROVE  /\ \E k \in Cells : BoardFromId(id)[k] # BoardFromId(m)[k]
           /\ \E k \in Cells : PaperFromId(id)[k] # PaperFromId(m)[k]
<1>1. /\ NumCells \in Nat /\ Cells = 1..NumCells /\ NumClasses \in Nat
  BY PowerIs, Sizes DEF NumClasses
<1>2. id \in Nat /\ m \in Nat
  BY <1>1
<1>3. PICK k \in Cells : BoardFromId(id)[k] # BoardFromId(m)[k]
  <2>1. PICK f : Horner(f, BoardFromId(id)) /\ f[NumCells] = id
    BY NumberIsValue
  <2>2. PICK g : Horner(g, BoardFromId(m)) /\ g[NumCells] = m
    BY NumberIsValue
  <2> DEFINE a == BoardFromId(id)
             b == BoardFromId(m)
  <2>3. Horner(f, a) /\ Horner(g, b) /\ f[NumCells] # g[NumCells]
    BY <2>1, <2>2
  <2> HIDE DEF a, b
  <2>4. \E k \in 1..NumCells : a[k] # b[k]
    BY <2>3, HornerSame
  <2> QED
    BY <1>1, <2>4 DEF a, b
<1> DEFINE i == NumCells + 1 - k
<1>4. i \in Cells /\ NumCells + 1 - i = k
  BY <1>1
<1> HIDE DEF i
<1>5. PaperFromId(id)[i] # PaperFromId(m)[i]
  BY <1>2, <1>3, <1>4, PaperIsReverse
<1> QED
  BY <1>3, <1>4, <1>5

-----------------------------------------------------------------------------
(* The symmetries of a square grid.  Each is given by three bits: whether it *)
(* swaps columns and rows, and whether it then mirrors either of them.       *)

Bits == {0, 1}
Differ(a, b) == IF a = b THEN 0 ELSE 1
Mirror(a, x) == IF a = 1 THEN Height - 1 - x ELSE x
Image(t, a, b, k) ==
    IF t = 1 THEN GridCell(Mirror(a, Row(k)), Mirror(b, Column(k)))
    ELSE GridCell(Mirror(a, Column(k)), Mirror(b, Row(k)))
Turned(t, a, b, r) == [k \in Cells |-> r[Image(t, a, b, k)]]
Orbit(r) == {Turned(t, a, b, r) : t \in Bits, a \in Bits, b \in Bits}

\* Cells and coordinates.
LEMMA Coordinates ==
    ASSUME Width = Height
    PROVE  /\ \A k \in Cells : /\ Column(k) \in 0..(Height - 1)
                               /\ Row(k) \in 0..(Height - 1)
                               /\ GridCell(Column(k), Row(k)) = k
                               /\ X(k) = Row(k) /\ Y(k) = Column(k)
           /\ \A x, y \in 0..(Height - 1) :
                 /\ GridCell(x, y) \in Cells
                 /\ Column(GridCell(x, y)) = x /\ Row(GridCell(x, y)) = y
                 /\ Id(y, x) = GridCell(x, y)
<1> DEFINE s == Height
<1>1. s \in Nat \ {0} /\ Width = s
  BY GridAssumption
<1>2. NumCells = s * s /\ Cells = 1..NumCells /\ NumCells \in Nat
  BY <1>1, Sizes DEF NumCells
<1> HIDE DEF s
<1>3. ASSUME NEW k \in Cells
      PROVE  /\ (k - 1) \div s \in 0..(s - 1) /\ (k - 1) % s \in 0..(s - 1)
             /\ ((k - 1) \div s) * s + ((k - 1) % s) + 1 = k
  <2> DEFINE m == k - 1
             q == m \div s
             r == m % s
  <2>1. m \in Nat /\ m < s * s /\ k = m + 1
    BY <1>2
  <2> HIDE DEF m
  <2>2. q \in Nat /\ r \in 0..(s - 1) /\ m = q * s + r
    BY <1>1, <2>1, ModIs
  <2>3. q < s
    BY <1>1, <2>1, DivSmaller
  <2> HIDE DEF q, r
  <2>4. q \in 0..(s - 1)
    BY <1>1, <2>2, <2>3
  <2>5. q * s \in Nat
    BY <1>1, <2>2
  <2>6. q * s + r + 1 = k
    BY <1>1, <2>1, <2>2, <2>5
  <2> QED
    BY <2>2, <2>4, <2>6 DEF q, r, m
<1>4. ASSUME NEW x \in 0..(s - 1), NEW y \in 0..(s - 1)
      PROVE  /\ x * s + y + 1 \in 1..(s * s)
             /\ ((x * s + y + 1) - 1) \div s = x
             /\ ((x * s + y + 1) - 1) % s = y
  <2>1. x \in Nat /\ x < s /\ y \in Nat
    BY <1>1
  <2>2. x * s + y < s * s
    BY <1>1, <2>1, Carry
  <2>3. x * s \in Nat /\ s * s \in Nat
    BY <1>1, <2>1
  <2> DEFINE p == x * s
             z == s * s
  <2>4. p \in Nat /\ z \in Nat /\ p + y < z
    BY <2>2, <2>3
  <2>5. (p + y) \div s = x /\ (p + y) % s = y
    BY <1>1, <2>1, DigitOff
  <2> HIDE DEF p, z
  <2>6. p + y + 1 \in 1..z /\ (p + y + 1) - 1 = p + y
    BY <2>1, <2>4
  <2> QED
    BY <2>5, <2>6 DEF p, z
<1>5. \A k \in Cells : /\ Column(k) = (k - 1) \div s /\ Row(k) = (k - 1) % s
                       /\ X(k) = (k - 1) % s /\ Y(k) = (k - 1) \div s
  BY <1>1 DEF Column, Row, X, Y, s
<1>6. \A k : Column(k) = (k - 1) \div s /\ Row(k) = (k - 1) % s
  BY DEF Column, Row, s
<1>7. \A x, y : GridCell(x, y) = x * s + y + 1 /\ Id(y, x) = x * s + y + 1
  BY <1>1 DEF GridCell, Id, s
<1>8. ASSUME NEW k \in Cells
      PROVE  /\ Column(k) \in 0..(s - 1) /\ Row(k) \in 0..(s - 1)
             /\ GridCell(Column(k), Row(k)) = k
             /\ X(k) = Row(k) /\ Y(k) = Column(k)
  BY <1>3, <1>5, <1>7
<1>9. ASSUME NEW x \in 0..(s - 1), NEW y \in 0..(s - 1)
      PROVE  /\ GridCell(x, y) \in Cells
             /\ Column(GridCell(x, y)) = x /\ Row(GridCell(x, y)) = y
             /\ Id(y, x) = GridCell(x, y)
  BY <1>2, <1>4, <1>6, <1>7
<1> QED
  BY <1>8, <1>9 DEF s

\* Mirroring keeps a coordinate in range, and twice is not at all.
LEMMA MirrorIs ==
    /\ \A a \in Bits : \A x \in 0..(Height - 1) : Mirror(a, x) \in 0..(Height - 1)
    /\ \A a, b \in Bits : \A x \in 0..(Height - 1) :
          /\ Differ(a, b) \in Bits
          /\ Mirror(a, Mirror(b, x)) = Mirror(Differ(a, b), x)
<1>1. Height \in Nat \ {0}
  BY GridAssumption
<1> QED
  BY <1>1 DEF Bits, Mirror, Differ

\* Where a cell goes.
LEMMA ImageIs ==
    ASSUME Width = Height, NEW t \in Bits, NEW a \in Bits, NEW b \in Bits,
           NEW k \in Cells
    PROVE  /\ Image(t, a, b, k) \in Cells
           /\ Column(Image(t, a, b, k)) =
                 Mirror(a, IF t = 1 THEN Row(k) ELSE Column(k))
           /\ Row(Image(t, a, b, k)) =
                 Mirror(b, IF t = 1 THEN Column(k) ELSE Row(k))
<1>1. Column(k) \in 0..(Height - 1) /\ Row(k) \in 0..(Height - 1)
  BY Coordinates
<1>2. CASE t = 1
  <2>1. /\ Mirror(a, Row(k)) \in 0..(Height - 1)
        /\ Mirror(b, Column(k)) \in 0..(Height - 1)
    BY <1>1, MirrorIs
  <2> QED
    BY <1>2, <2>1, Coordinates DEF Image
<1>3. CASE t # 1
  <2>1. /\ Mirror(a, Column(k)) \in 0..(Height - 1)
        /\ Mirror(b, Row(k)) \in 0..(Height - 1)
    BY <1>1, MirrorIs
  <2> QED
    BY <1>3, <2>1, Coordinates DEF Image
<1> QED
  BY <1>2, <1>3

\* One symmetry after another is a symmetry.
LEMMA ImageTwice ==
    ASSUME Width = Height, NEW t, NEW a, NEW b, NEW u, NEW c, NEW d, NEW k,
           t \in Bits, a \in Bits, b \in Bits, u \in Bits, c \in Bits, d \in Bits,
           k \in Cells
    PROVE  Image(t, a, b, Image(u, c, d, k)) =
               IF t = 1 THEN Image(Differ(t, u), Differ(a, d), Differ(b, c), k)
               ELSE Image(u, Differ(a, c), Differ(b, d), k)
<1> DEFINE z == Image(u, c, d, k)
           x == IF u = 1 THEN Row(k) ELSE Column(k)
           y == IF u = 1 THEN Column(k) ELSE Row(k)
<1>1. /\ z \in Cells /\ Column(z) = Mirror(c, x) /\ Row(z) = Mirror(d, y)
  BY ImageIs
<1>2. x \in 0..(Height - 1) /\ y \in 0..(Height - 1)
  BY Coordinates
<1>3. \A e, f \in Bits :
          /\ Image(u, e, f, k) = GridCell(Mirror(e, x), Mirror(f, y))
          /\ Image(Differ(1, u), e, f, k) = GridCell(Mirror(e, y), Mirror(f, x))
  BY DEF Image, Differ, Bits
<1> HIDE DEF z, x, y
<1>4. CASE t = 1
  <2>1. Image(t, a, b, z) = GridCell(Mirror(a, Mirror(d, y)), Mirror(b, Mirror(c, x)))
    BY <1>1, <1>4 DEF Image
  <2>2. /\ Mirror(a, Mirror(d, y)) = Mirror(Differ(a, d), y) /\ Differ(a, d) \in Bits
        /\ Mirror(b, Mirror(c, x)) = Mirror(Differ(b, c), x) /\ Differ(b, c) \in Bits
    BY <1>2, MirrorIs
  <2> DEFINE e == Differ(a, d)
             f == Differ(b, c)
  <2>3. /\ e \in Bits /\ f \in Bits
        /\ Image(t, a, b, z) = GridCell(Mirror(e, y), Mirror(f, x))
    BY <2>1, <2>2
  <2> HIDE DEF e, f
  <2>4. Image(t, a, b, z) = Image(Differ(t, u), e, f, k)
    BY <1>3, <1>4, <2>3
  <2> QED
    BY <1>4, <2>4 DEF z, e, f
<1>5. CASE t # 1
  <2>1. Image(t, a, b, z) = GridCell(Mirror(a, Mirror(c, x)), Mirror(b, Mirror(d, y)))
    BY <1>1, <1>5 DEF Image
  <2>2. /\ Mirror(a, Mirror(c, x)) = Mirror(Differ(a, c), x) /\ Differ(a, c) \in Bits
        /\ Mirror(b, Mirror(d, y)) = Mirror(Differ(b, d), y) /\ Differ(b, d) \in Bits
    BY <1>2, MirrorIs
  <2> DEFINE e == Differ(a, c)
             f == Differ(b, d)
  <2>3. /\ e \in Bits /\ f \in Bits
        /\ Image(t, a, b, z) = GridCell(Mirror(e, x), Mirror(f, y))
    BY <2>1, <2>2
  <2> HIDE DEF e, f
  <2>4. Image(t, a, b, z) = Image(u, e, f, k)
    BY <1>3, <2>3
  <2> QED
    BY <1>5, <2>4 DEF z, e, f
<1> QED
  BY <1>4, <1>5

\* The symmetry without swap and mirrors leaves all as it is, and each can be
\* taken back.
LEMMA ImageBack ==
    ASSUME Width = Height
    PROVE  /\ \A k \in Cells : Image(0, 0, 0, k) = k
           /\ \A t, a, b \in Bits : \E c, d \in Bits : \A k \in Cells :
                 /\ Image(t, a, b, Image(t, c, d, k)) = k
                 /\ Image(t, c, d, Image(t, a, b, k)) = k
<1>1. \A k \in Cells : Image(0, 0, 0, k) = k
  BY Coordinates DEF Image, Mirror
<1>2. ASSUME NEW t \in Bits, NEW a \in Bits, NEW b \in Bits
      PROVE  \E c, d \in Bits : \A k \in Cells :
                /\ Image(t, a, b, Image(t, c, d, k)) = k
                /\ Image(t, c, d, Image(t, a, b, k)) = k
  <2>1. \A x \in Bits : Differ(x, x) = 0
    BY DEF Differ
  <2>2. CASE t = 1
    <3>1. ASSUME NEW k \in Cells
          PROVE  /\ Image(t, a, b, Image(t, b, a, k)) = Image(0, 0, 0, k)
                 /\ Image(t, b, a, Image(t, a, b, k)) = Image(0, 0, 0, k)
      BY <2>1, <2>2, ImageTwice
    <3> QED
      BY <1>1, <3>1
  <2>3. CASE t # 1
    <3>1. t = 0
      BY <2>3 DEF Bits
    <3>2. ASSUME NEW k \in Cells
          PROVE  /\ Image(t, a, b, Image(t, a, b, k)) = Image(0, 0, 0, k)
      BY <2>1, <3>1, ImageTwice
    <3> QED
      BY <1>1, <3>2
  <2> QED
    BY <2>2, <2>3
<1> QED
  BY <1>1, <1>2

\* Cells that touch still touch.
LEMMA ImageAdjacent ==
    ASSUME Width = Height, NEW t \in Bits, NEW a \in Bits, NEW b \in Bits,
           NEW k \in Cells, NEW n \in Cells, Adjacent(k, n)
    PROVE  Adjacent(Image(t, a, b, k), Image(t, a, b, n))
<1>1. Height \in Nat \ {0}
  BY GridAssumption
<1>2. ASSUME NEW e \in Bits, NEW x \in 0..(Height - 1), NEW y \in 0..(Height - 1),
             y \in (x - 1)..(x + 1)
      PROVE  Mirror(e, y) \in (Mirror(e, x) - 1)..(Mirror(e, x) + 1)
  BY <1>1, <1>2 DEF Mirror
<1>3. /\ Column(k) \in 0..(Height - 1) /\ Row(k) \in 0..(Height - 1)
      /\ Column(n) \in 0..(Height - 1) /\ Row(n) \in 0..(Height - 1)
  BY Coordinates
<1>4. /\ Column(n) \in (Column(k) - 1)..(Column(k) + 1)
      /\ Row(n) \in (Row(k) - 1)..(Row(k) + 1)
  BY DEF Adjacent
<1>5. CASE t = 1
  BY <1>2, <1>3, <1>4, <1>5, ImageIs DEF Adjacent
<1>6. CASE t # 1
  BY <1>2, <1>3, <1>4, <1>6, ImageIs DEF Adjacent
<1> QED
  BY <1>5, <1>6

\* A word that can be found is found again where the symmetry takes its path.
LEMMA FoundAlong ==
    ASSUME Width = Height, NEW t \in Bits, NEW a \in Bits, NEW b \in Bits,
           NEW r, NEW s, \A k \in Cells : s[Image(t, a, b, k)] = r[k],
           NEW w \in Words, Found(r, w)
    PROVE  Found(s, w)
<1>1. /\ Len(w) \in Nat
      /\ \A x : Found(x, w) <=>
            \E p \in Seq(AllCells) : /\ Len(p) = Len(w) /\ IsPath(p)
                                     /\ \A i \in 1..Len(w) : x[p[i]] = w[i]
  BY FoundIs
<1>2. PICK p \in Seq(AllCells) : /\ Len(p) = Len(w) /\ IsPath(p)
                                 /\ \A i \in 1..Len(w) : r[p[i]] = w[i]
  BY <1>1
<1> DEFINE n == Len(w)
           q == [i \in 1..n |-> Image(t, a, b, p[i])]
<1>3. \A i \in 1..n : p[i] \in Cells /\ q[i] = Image(t, a, b, p[i]) /\ q[i] \in Cells
  <2>1. \A i \in 1..n : p[i] \in Cells
    BY <1>2, Sizes, ElementOfSeq
  <2> QED
    BY <2>1, ImageIs
<1>4. q \in [1..n -> AllCells]
  BY <1>3, Sizes
<1>5. n \in Nat
  BY <1>1
<1> HIDE DEF q
<1>6. q \in Seq(AllCells) /\ Len(q) = n
  BY <1>4, <1>5, SeqOfLen
<1>7. \A i, j \in 1..n : q[i] = q[j] => i = j
  <2>1. ASSUME NEW i \in 1..n, NEW j \in 1..n, q[i] = q[j] PROVE i = j
    <3>1. PICK c \in Bits, d \in Bits : \A k \in Cells :
              /\ Image(t, a, b, Image(t, c, d, k)) = k
              /\ Image(t, c, d, Image(t, a, b, k)) = k
      BY ZenonT(40), ImageBack
    <3>2. p[i] = p[j]
      BY <1>3, <2>1, <3>1
    <3> QED
      BY <1>2, <3>2 DEF IsPath
  <2> QED
    BY <2>1
<1>8. \A i \in 1..(n - 1) : Adjacent(q[i], q[i + 1])
  <2>1. ASSUME NEW i \in 1..(n - 1) PROVE Adjacent(q[i], q[i + 1])
    <3> DEFINE j == i + 1
    <3>1. i \in 1..n /\ j \in 1..n
      BY <1>5
    <3>2. Adjacent(p[i], p[j])
      BY <1>2 DEF IsPath
    <3> HIDE DEF j
    <3>3. Adjacent(q[i], q[j])
      BY <1>3, <3>1, <3>2, ImageAdjacent
    <3> QED
      BY <3>3 DEF j
  <2> QED
    BY <2>1
<1>9. IsPath(q)
  BY <1>6, <1>7, <1>8 DEF IsPath
<1>10. \A i \in 1..n : s[q[i]] = w[i]
  BY <1>2, <1>3
<1> QED
  BY <1>1, <1>6, <1>9, <1>10

\* A board scores the same turned or mirrored.
LEMMA TurnedScore ==
    ASSUME Width = Height, NEW t \in Bits, NEW a \in Bits, NEW b \in Bits, NEW r
    PROVE  DictionaryScore(Turned(t, a, b, r)) = DictionaryScore(r)
<1> DEFINE s == Turned(t, a, b, r)
<1>1. \A k \in Cells : r[Image(t, a, b, k)] = s[k]
  BY DEF Turned
<1>2. PICK c \in Bits, d \in Bits : \A k \in Cells :
          /\ Image(t, a, b, Image(t, c, d, k)) = k
          /\ Image(t, c, d, Image(t, a, b, k)) = k
  BY ImageBack
<1>3. \A k \in Cells : s[Image(t, c, d, k)] = r[k]
  BY <1>2, ImageIs DEF Turned
<1> HIDE DEF s
<1>4. \A w \in Words : Found(s, w) <=> Found(r, w)
  BY <1>1, <1>3, FoundAlong
<1>5. {w \in Words : Found(s, w)} = {w \in Words : Found(r, w)}
  BY <1>4
<1>6. DictionaryScore(s) = DictionaryScore(r)
  BY <1>5 DEF DictionaryScore
<1> QED
  BY <1>6 DEF s

\* Boards turned twice.
LEMMA TurnedTwice ==
    ASSUME Width = Height, NEW t \in Bits, NEW a \in Bits, NEW b \in Bits,
           NEW u \in Bits, NEW c \in Bits, NEW d \in Bits, NEW r
    PROVE  Turned(t, a, b, Turned(u, c, d, r)) =
               IF u = 1 THEN Turned(Differ(u, t), Differ(c, b), Differ(d, a), r)
               ELSE Turned(t, Differ(c, a), Differ(d, b), r)
<1>1. ASSUME NEW k \in Cells
      PROVE  Turned(u, c, d, r)[Image(t, a, b, k)] = r[Image(u, c, d, Image(t, a, b, k))]
  BY ImageIs DEF Turned
<1>2. Turned(t, a, b, Turned(u, c, d, r)) =
          [k \in Cells |-> r[Image(u, c, d, Image(t, a, b, k))]]
  BY <1>1 DEF Turned
<1>3. ASSUME NEW k \in Cells
      PROVE  Image(u, c, d, Image(t, a, b, k)) =
                 IF u = 1 THEN Image(Differ(u, t), Differ(c, b), Differ(d, a), k)
                 ELSE Image(t, Differ(c, a), Differ(d, b), k)
  BY <1>3, ImageTwice
<1>4. CASE u = 1
  <2> DEFINE x == Differ(u, t)
             y == Differ(c, b)
             z == Differ(d, a)
  <2>4. ASSUME NEW k \in Cells
        PROVE  Image(u, c, d, Image(t, a, b, k)) =
                             Image(Differ(u, t), Differ(c, b), Differ(d, a), k)
    BY <1>4, <1>3
  <2>1. \A k \in Cells : Image(u, c, d, Image(t, a, b, k)) = Image(x, y, z, k)
    BY <2>4
  <2> HIDE DEF x, y, z
  <2>2. Turned(x, y, z, r) = [k \in Cells |-> r[Image(x, y, z, k)]]
    BY DEF Turned
  <2>3. Turned(t, a, b, Turned(u, c, d, r)) = Turned(x, y, z, r)
    BY ONLY <1>2, <2>1, <2>2
  <2> QED
    BY <1>4, <2>3 DEF x, y, z
<1>5. CASE u # 1
  <2> DEFINE y == Differ(c, a)
             z == Differ(d, b)
  <2>4. ASSUME NEW k \in Cells
        PROVE  Image(u, c, d, Image(t, a, b, k)) =
                             Image(t, Differ(c, a), Differ(d, b), k)
    BY <1>5, <1>3
  <2>1. \A k \in Cells : Image(u, c, d, Image(t, a, b, k)) = Image(t, y, z, k)
    BY <2>4
  <2> HIDE DEF y, z
  <2>2. Turned(t, y, z, r) = [k \in Cells |-> r[Image(t, y, z, k)]]
    BY DEF Turned
  <2>3. Turned(t, a, b, Turned(u, c, d, r)) = Turned(t, y, z, r)
    BY ONLY <1>2, <2>1, <2>2
  <2> QED
    BY <1>5, <2>3 DEF y, z
<1> QED
  BY <1>4, <1>5

\* The orbit of a board contains those of its boards.
LEMMA OrbitClosed ==
    ASSUME Width = Height, NEW r, NEW s \in Orbit(r)
    PROVE  Orbit(s) \subseteq Orbit(r)
<1>1. ASSUME NEW x \in Orbit(s) PROVE x \in Orbit(r)
  <2>1. PICK t \in Bits, a \in Bits, b \in Bits : x = Turned(t, a, b, s)
    BY <1>1 DEF Orbit
  <2>2. PICK u \in Bits, c \in Bits, d \in Bits : s = Turned(u, c, d, r)
    BY DEF Orbit
  <2>3. /\ Differ(u, t) \in Bits /\ Differ(c, b) \in Bits /\ Differ(d, a) \in Bits
        /\ Differ(c, a) \in Bits /\ Differ(d, b) \in Bits
    BY DEF Differ, Bits
  <2>4. Turned(t, a, b, Turned(u, c, d, r)) =
            IF u = 1 THEN Turned(Differ(u, t), Differ(c, b), Differ(d, a), r)
            ELSE Turned(t, Differ(c, a), Differ(d, b), r)
    BY SMTT(20), TurnedTwice
  <2>5. x = IF u = 1 THEN Turned(Differ(u, t), Differ(c, b), Differ(d, a), r)
            ELSE Turned(t, Differ(c, a), Differ(d, b), r)
    BY ONLY <2>1, <2>2, <2>4
  <2> QED
    BY <2>3, <2>5 DEF Orbit
<1> QED
  BY <1>1

\* A board that is turned can be turned back.
LEMMA OrbitSymmetric ==
    ASSUME Width = Height, NEW V, NEW r \in [Cells -> V], NEW s \in Orbit(r)
    PROVE  r \in Orbit(s) /\ r \in Orbit(r) /\ s \in [Cells -> V]
<1>1. PICK t \in Bits, a \in Bits, b \in Bits : s = Turned(t, a, b, r)
  BY DEF Orbit
<1>2. PICK c \in Bits, d \in Bits : \A k \in Cells :
          /\ Image(t, a, b, Image(t, c, d, k)) = k
          /\ Image(t, c, d, Image(t, a, b, k)) = k
  BY ZenonT(40), ImageBack
<1>3. Turned(t, c, d, s) = r
  <2>1. ASSUME NEW k \in Cells PROVE s[Image(t, c, d, k)] = r[k]
    BY <1>1, <1>2, ImageIs DEF Turned
  <2> QED
    BY <2>1 DEF Turned
<1>4. r \in Orbit(s)
  BY <1>3 DEF Orbit
<1>5. Turned(0, 0, 0, r) = r
  BY ImageBack DEF Turned
<1>6. r \in Orbit(r)
  BY <1>5 DEF Orbit, Bits
<1>7. s \in [Cells -> V]
  BY <1>1, ImageIs DEF Turned
<1> QED
  BY <1>4, <1>6, <1>7

\* Flips, turns and swaps of the code are symmetries.
LEMMA FlipsAre ==
    ASSUME Width = Height, NEW r
    PROVE  /\ FlipLeftRight(r) = Turned(0, 0, 1, r)
           /\ FlipTopBottom(r) = Turned(0, 1, 0, r)
           /\ Rotate90CW(r) = Turned(1, 1, 0, r)
           /\ Height = 3 => /\ SwapFirstIndex(r) = Turned(0, 1, 0, r)
                            /\ SwapSecondIndex(r) = Turned(0, 0, 1, r)
                            /\ Transpose(r) = Turned(1, 0, 0, r)
<1>1. Height \in Nat \ {0}
  BY GridAssumption
<1>2. ASSUME NEW k \in Cells
      PROVE  /\ Id(Width - 1 - X(k), Y(k)) = Image(0, 0, 1, k)
             /\ Id(X(k), Height - 1 - Y(k)) = Image(0, 1, 0, k)
             /\ Id(Y(k), Width - 1 - X(k)) = Image(1, 1, 0, k)
             /\ Id(Y(k), X(k)) = Image(1, 0, 0, k)
  <2>1. /\ Column(k) \in 0..(Height - 1) /\ Row(k) \in 0..(Height - 1)
        /\ X(k) = Row(k) /\ Y(k) = Column(k)
    BY Coordinates
  <2>2. /\ Height - 1 - Column(k) \in 0..(Height - 1)
        /\ Height - 1 - Row(k) \in 0..(Height - 1)
    BY <1>1, <2>1
  <2>3. \A x, y \in 0..(Height - 1) : Id(y, x) = GridCell(x, y)
    BY Coordinates
  <2>4. /\ Id(Height - 1 - Row(k), Column(k)) = GridCell(Column(k), Height - 1 - Row(k))
        /\ Id(Row(k), Height - 1 - Column(k)) = GridCell(Height - 1 - Column(k), Row(k))
        /\ Id(Column(k), Height - 1 - Row(k)) = GridCell(Height - 1 - Row(k), Column(k))
        /\ Id(Column(k), Row(k)) = GridCell(Row(k), Column(k))
    BY <2>1, <2>2, <2>3
  <2> QED
    BY <2>1, <2>4 DEF Image, Mirror
<1>3. /\ FlipLeftRight(r) = Turned(0, 0, 1, r)
      /\ FlipTopBottom(r) = Turned(0, 1, 0, r)
      /\ Rotate90CW(r) = Turned(1, 1, 0, r)
  BY <1>2 DEF FlipLeftRight, FlipTopBottom, Rotate90CW, Turned
<1>4. ASSUME Height = 3
      PROVE  /\ SwapFirstIndex(r) = Turned(0, 1, 0, r)
             /\ SwapSecondIndex(r) = Turned(0, 0, 1, r)
             /\ Transpose(r) = Turned(1, 0, 0, r)
  <2>1. Width - 1 = 2 /\ Height - 1 = 2
    BY <1>4
  <2> QED
    BY <1>2, <2>1 DEF SwapFirstIndex, SwapSecondIndex, Transpose, Turned
<1> QED
  BY <1>3, <1>4

\* Three elements in a row.
LEMMA ThreeElements ==
    ASSUME NEW a, NEW b, NEW c
    PROVE  LET s == <<a, b, c>>
           IN  s \in Seq({a, b, c}) /\ ToSet(s) = {a, b, c}
<1> DEFINE s == <<a, b, c>>
<1>1. s \in Seq({a, b, c}) /\ DOMAIN s = 1..3 /\ s[1] = a /\ s[2] = b /\ s[3] = c
  OBVIOUS
<1> HIDE DEF s
<1>2. ToSet(s) = {a, b, c}
  BY <1>1 DEF ToSet
<1> QED
  BY <1>1, <1>2 DEF s

\* Seven elements as the code puts them together.
LEMMA SevenElements ==
    ASSUME NEW a, NEW b, NEW c, NEW d, NEW e, NEW f, NEW g
    PROVE  /\ ToSet(<<a, b, c>> \o (<<d>> \o <<e, f, g>>)) = {a, b, c, d, e, f, g}
           /\ ToSet((<<a, b, c>> \o <<d>>) \o <<e, f, g>>) = {a, b, c, d, e, f, g}
<1> DEFINE s == <<a, b, c>>
           t == <<d>>
           u == <<e, f, g>>
           S == {a, b, c, d, e, f, g}
<1>1. s \in Seq(S) /\ u \in Seq(S) /\ t \in Seq(S) /\ DOMAIN t = 1..1 /\ t[1] = d
  OBVIOUS
<1>2. ToSet(s) = {a, b, c} /\ ToSet(u) = {e, f, g}
  BY ThreeElements
<1> HIDE DEF s, t, u
<1>3. ToSet(t) = {d}
  BY <1>1 DEF ToSet
<1>4. S = {a, b, c} \cup {d} \cup {e, f, g}
  OBVIOUS
<1> HIDE DEF S
<1> DEFINE p == s \o t
           q == t \o u
<1>5. /\ p \in Seq(S) /\ ToSet(p) = ToSet(s) \cup ToSet(t)
      /\ q \in Seq(S) /\ ToSet(q) = ToSet(t) \cup ToSet(u)
  BY <1>1, ToSetConcat
<1> HIDE DEF p, q
<1>6. ToSet(p \o u) = ToSet(p) \cup ToSet(u) /\ ToSet(s \o q) = ToSet(s) \cup ToSet(q)
  BY <1>1, <1>5, ToSetConcat
<1>7. ToSet(p \o u) = S /\ ToSet(s \o q) = S
  BY <1>2, <1>3, <1>4, <1>5, <1>6
<1> QED
  BY <1>7 DEF p, q, s, t, u, S

\* On a square board the code makes all its images, in either version.
LEMMA SquareImages ==
    ASSUME Width = Height, NEW V, NEW b \in [Cells -> V]
    PROVE  /\ ToSet(Images(b)) \cup {b} = Orbit(b)
           /\ Height = 3 => ToSet(PaperImages(b)) \cup {b} = Orbit(b)
<1> DEFINE T(t, i, j) == Turned(t, i, j, b)
<1>1. T(0, 0, 0) = b
  BY ImageBack DEF Turned
<1>2. 0 \in Bits /\ 1 \in Bits
  BY DEF Bits
<1>3. Differ(0, 0) = 0 /\ Differ(1, 1) = 0 /\ Differ(0, 1) = 1 /\ Differ(1, 0) = 1
  BY DEF Differ
<1>4. ASSUME NEW i \in Bits, NEW j \in Bits
      PROVE  /\ FlipLeftRight(T(0, i, j)) = T(0, i, Differ(j, 1))
             /\ FlipTopBottom(T(0, i, j)) = T(0, Differ(i, 1), j)
             /\ FlipLeftRight(T(1, i, j)) = T(1, Differ(i, 1), j)
             /\ FlipTopBottom(T(1, i, j)) = T(1, i, Differ(j, 1))
  <2>1. Differ(i, 0) = i /\ Differ(j, 0) = j
    BY DEF Differ, Bits
  <2>2. /\ Turned(0, 0, 1, T(0, i, j)) = T(0, Differ(i, 0), Differ(j, 1))
        /\ Turned(0, 1, 0, T(0, i, j)) = T(0, Differ(i, 1), Differ(j, 0))
        /\ Turned(0, 0, 1, T(1, i, j)) = T(Differ(1, 0), Differ(i, 1), Differ(j, 0))
        /\ Turned(0, 1, 0, T(1, i, j)) = T(Differ(1, 0), Differ(i, 0), Differ(j, 1))
    BY <1>2, TurnedTwice
  <2> QED
    BY <1>3, <2>1, <2>2, FlipsAre
<1>5. /\ FlipLeftRight(b) = T(0, 0, 1) /\ FlipTopBottom(b) = T(0, 1, 0)
      /\ Rotate90CW(b) = T(1, 1, 0)
  BY FlipsAre
<1>6. Height = 3 => /\ \A s : SwapFirstIndex(s) = FlipTopBottom(s)
                    /\ \A s : SwapSecondIndex(s) = FlipLeftRight(s)
                    /\ Transpose(b) = T(1, 0, 0)
  BY FlipsAre
<1>7. Orbit(b) = {T(0, 0, 0), T(0, 0, 1), T(0, 1, 0), T(0, 1, 1),
                  T(1, 0, 0), T(1, 0, 1), T(1, 1, 0), T(1, 1, 1)}
  BY DEF Orbit, Bits
<1> HIDE DEF T
<1>8. /\ Flips(b) = <<T(0, 0, 1), T(0, 1, 1), T(0, 1, 0)>>
      /\ Flips(T(1, 1, 0)) = <<T(1, 0, 0), T(1, 0, 1), T(1, 1, 1)>>
  BY <1>2, <1>3, <1>4, <1>5 DEF Flips
<1>9. ToSet(Images(b)) \cup {b} = Orbit(b)
  <2>1. Images(b) = <<T(0, 0, 1), T(0, 1, 1), T(0, 1, 0)>>
                    \o (<<T(1, 1, 0)>> \o <<T(1, 0, 0), T(1, 0, 1), T(1, 1, 1)>>)
    BY <1>5, <1>8 DEF Images
  <2>2. ToSet(Images(b)) = {T(0, 0, 1), T(0, 1, 1), T(0, 1, 0), T(1, 1, 0),
                            T(1, 0, 0), T(1, 0, 1), T(1, 1, 1)}
    BY <2>1, SevenElements
  <2> QED
    BY <1>1, <1>7, <2>2
<1>10. ASSUME Height = 3 PROVE ToSet(PaperImages(b)) \cup {b} = Orbit(b)
  <2>1. PaperFlips(b) = <<T(0, 1, 0), T(0, 1, 1), T(0, 0, 1)>>
    BY <1>2, <1>3, <1>4, <1>5, <1>6, <1>10 DEF PaperFlips
  <2>2. Transpose(SwapSecondIndex(PaperFlips(b)[3])) = T(1, 0, 0)
    <3>1. SwapSecondIndex(PaperFlips(b)[3]) = b
      BY <1>1, <1>2, <1>3, <1>4, <1>6, <1>10, <2>1
    <3> QED
      BY <1>6, <1>10, <3>1
  <2>3. PaperFlips(T(1, 0, 0)) = <<T(1, 0, 1), T(1, 1, 1), T(1, 1, 0)>>
    BY <1>2, <1>3, <1>4, <1>6, <1>10 DEF PaperFlips
  <2>4. PaperImages(b) = (<<T(0, 1, 0), T(0, 1, 1), T(0, 0, 1)>> \o <<T(1, 0, 0)>>)
                         \o <<T(1, 0, 1), T(1, 1, 1), T(1, 1, 0)>>
    BY <2>1, <2>2, <2>3 DEF PaperImages
  <2>5. ToSet(PaperImages(b)) = {T(0, 1, 0), T(0, 1, 1), T(0, 0, 1), T(1, 0, 0),
                                 T(1, 0, 1), T(1, 1, 1), T(1, 1, 0)}
    BY <2>4, SevenElements
  <2> QED
    BY <1>1, <1>7, <2>5
<1> QED
  BY <1>9, <1>10

\* What counts as the same board are the boards of its orbit.
LEMMA SameBoardsIs ==
    ASSUME Width = Height, NEW V, NEW r \in [Cells -> V]
    PROVE  SameBoards(r) = Orbit(r)
<1>1. ASSUME NEW s \in [Cells -> V]
      PROVE  Mirrored(s) = {Turned(0, 0, 0, s), Turned(0, 1, 0, s),
                            Turned(0, 0, 1, s), Turned(0, 1, 1, s)}
  <2>1. Turned(0, 0, 0, s) = s
    BY ImageBack DEF Turned
  <2>2. /\ Turned(0, 1, 0, s) =
               [k \in Cells |-> s[GridCell(Width - 1 - Column(k), Row(k))]]
        /\ Turned(0, 0, 1, s) =
               [k \in Cells |-> s[GridCell(Column(k), Height - 1 - Row(k))]]
        /\ Turned(0, 1, 1, s) =
               [k \in Cells |-> s[GridCell(Width - 1 - Column(k), Height - 1 - Row(k))]]
    BY DEF Turned, Image, Mirror
  <2> QED
    BY <2>1, <2>2 DEF Mirrored
<1> DEFINE u == Turned(1, 0, 0, r)
<1>2. u = [k \in Cells |-> r[GridCell(Row(k), Column(k))]]
  BY DEF Turned, Image, Mirror
<1>3. u \in [Cells -> V]
  <2>1. u \in Orbit(r)
    BY DEF Orbit, Bits
  <2> QED
    BY <2>1, OrbitSymmetric
<1>4. /\ Turned(0, 0, 0, u) = Turned(1, 0, 0, r)
      /\ Turned(0, 1, 0, u) = Turned(1, 0, 1, r)
      /\ Turned(0, 0, 1, u) = Turned(1, 1, 0, r)
      /\ Turned(0, 1, 1, u) = Turned(1, 1, 1, r)
  <2>1. 0 \in Bits /\ 1 \in Bits
    BY DEF Bits
  <2>2. \A a, b \in Bits :
            Turned(0, a, b, u) = Turned(Differ(1, 0), Differ(0, b), Differ(0, a), r)
    BY <2>1, TurnedTwice
  <2>3. Differ(1, 0) = 1 /\ Differ(0, 0) = 0 /\ Differ(0, 1) = 1
    BY DEF Differ
  <2> HIDE DEF u
  <2> QED
    BY <2>1, <2>2, <2>3
<1>5. SameBoards(r) = Mirrored(r) \cup Mirrored(u)
  BY <1>2 DEF SameBoards
<1> HIDE DEF u
<1>6. Orbit(r) = {Turned(0, 0, 0, r), Turned(0, 1, 0, r),
                  Turned(0, 0, 1, r), Turned(0, 1, 1, r),
                  Turned(1, 0, 0, r), Turned(1, 0, 1, r),
                  Turned(1, 1, 0, r), Turned(1, 1, 1, r)}
  BY DEF Orbit, Bits
<1> QED
  BY <1>1, <1>3, <1>4, <1>5, <1>6

-----------------------------------------------------------------------------
(* The boards of a class. *)

\* BoardsOf takes one letter of each cell.
LEMMA BoardsOfIs ==
    ASSUME NEW b \in Board
    PROVE  BoardsOf(b) = {r \in [Cells -> Letters] : \A k \in Cells : r[k] \in ToSet(b[k])}
<1> DEFINE N == NumCells
           Begun(j) == {r \in Seq(Letters) :
                            Len(r) = j /\ \A i \in 1..j : r[i] \in ToSet(b[i])}
           Longer(S, k) == {Append(r, c) : r \in S, c \in ToSet(b[k])}
           Eq(h) == h = [k \in 0..N |->
                            IF k = 0 THEN {<<>>} ELSE Longer(h[k - 1], k)]
           f == [j \in 0..N |-> Begun(j)]
           g == CHOOSE h : Eq(h)
<1>1. N \in Nat \ {0} /\ Cells = 1..N /\ N \in 0..N /\ 0 \in 0..N
  BY Sizes
<1>2. \A k \in 1..N : ToSet(b[k]) \subseteq Letters
  <2>1. ASSUME NEW k \in 1..N PROVE ToSet(b[k]) \subseteq Letters
    <3>1. b[k] \in Seq(Letters)
      BY <1>1 DEF Board
    <3>2. DOMAIN b[k] = 1..Len(b[k]) /\ \A i \in 1..Len(b[k]) : b[k][i] \in Letters
      BY <3>1, LenProperties, ElementOfSeq
    <3> QED
      BY <3>2 DEF ToSet
  <2> QED
    BY <2>1
<1>3. Begun(0) = {<<>>}
  <2>1. <<>> \in Seq(Letters) /\ Len(<<>>) = 0 /\ 1..0 = {}
    OBVIOUS
  <2>2. \A r \in Seq(Letters) : Len(r) = 0 => r = <<>>
    BY EmptySeq
  <2> QED
    BY <2>1, <2>2
<1>4. ASSUME NEW k \in 1..N
      PROVE  Begun(k) = Longer(Begun(k - 1), k)
  <2> DEFINE m == k - 1
  <2>1. m \in Nat /\ k = m + 1 /\ k \in Nat /\ k # 0 /\ k \in 1..k
        /\ \A i \in 1..k : i \in 1..m \/ i = k
    OBVIOUS
  <2> HIDE DEF m
  <2>2. ASSUME NEW r \in Begun(m), NEW c \in ToSet(b[k]) PROVE Append(r, c) \in Begun(k)
    <3> DEFINE a == Append(r, c)
    <3>1. r \in Seq(Letters) /\ Len(r) = m /\ c \in Letters
          /\ \A i \in 1..m : r[i] \in ToSet(b[i])
      BY <1>2, <2>2
    <3>2. /\ a \in Seq(Letters) /\ Len(a) = m + 1
          /\ \A i \in 1..(m + 1) : \/ i \in 1..m /\ a[i] = r[i]
                                   \/ i = m + 1 /\ a[i] = c
      BY <3>1, AppendCases
    <3> HIDE DEF a
    <3>3. \A i \in 1..k : a[i] \in ToSet(b[i])
      BY <2>1, <2>2, <3>1, <3>2
    <3>4. a \in Begun(k)
      BY <2>1, <3>2, <3>3
    <3> QED
      BY <3>4 DEF a
  <2>3. ASSUME NEW r \in Begun(k) PROVE r \in Longer(Begun(m), k)
    <3>1. r \in Seq(Letters) /\ Len(r) = k /\ \A i \in 1..k : r[i] \in ToSet(b[i])
      BY <2>3
    <3>2. r # <<>>
      BY <2>1, <3>1, EmptySeq
    <3> DEFINE q == SubSeq(r, 1, Len(r) - 1)
               c == r[Len(r)]
               a == Append(q, c)
    <3>3. /\ c \in Letters /\ q \in Seq(Letters) /\ Len(q) = Len(r) - 1
          /\ \A i \in 1..(Len(r) - 1) : i \in 1..Len(r) /\ q[i] = r[i]
      BY <3>1, <3>2, AllButLast
    <3>4. Len(r) - 1 = m /\ c = r[k]
      BY <3>1 DEF m
    <3> HIDE DEF q, c
    <3>5. q \in Begun(m) /\ c \in ToSet(b[k])
      BY <2>1, <3>1, <3>3, <3>4
    <3>6. /\ a \in Seq(Letters) /\ Len(a) = m + 1
          /\ \A i \in 1..(m + 1) : \/ i \in 1..m /\ a[i] = q[i]
                                   \/ i = m + 1 /\ a[i] = c
      BY <3>3, <3>4, AppendCases
    <3>7. \A i \in 1..k : a[i] = r[i]
      BY <2>1, <3>3, <3>4, <3>6
    <3>8. DOMAIN a = 1..k /\ DOMAIN r = 1..k
      BY <2>1, <3>1, <3>6, LenProperties
    <3>9. a = r
      <4>1. a = [i \in 1..k |-> a[i]] /\ r = [i \in 1..k |-> r[i]]
        BY <3>1, <3>6, <3>8, LenProperties
      <4> QED
        BY <3>7, <4>1
    <3> QED
      BY <3>5, <3>9
  <2>4. Begun(k) = Longer(Begun(m), k)
    BY <2>2, <2>3
  <2> QED
    BY <2>4 DEF m
<1>5. /\ Begun(0) = {<<>>}
      /\ \A k \in 1..N : Begun(k) = Longer(Begun(k - 1), k)
  BY <1>3, <1>4
<1>6. BoardsOf(b) = g[N]
  BY DEF BoardsOf
<1> HIDE DEF Begun, Longer, N
<1>7. \A k \in 1..N : k # 0 /\ k \in 0..N /\ k - 1 \in 0..N
  BY <1>1
<1>8. \A j \in 0..N : j = 0 \/ j \in 1..N
  BY <1>1
<1>9. \A j \in 0..N : f[j] = Begun(j)
  OBVIOUS
<1> HIDE DEF f
<1>10. \A k \in 0..N : f[k] = IF k = 0 THEN {<<>>} ELSE Longer(f[k - 1], k)
  BY <1>5, <1>7, <1>8, <1>9
<1>11. f = [k \in 0..N |-> f[k]]
  BY DEF f
<1>12. Eq(f)
  BY <1>10, <1>11
<1>13. Eq(g)
  BY <1>12
<1> HIDE DEF g
<1>14. \A k \in 0..N : g[k] = IF k = 0 THEN {<<>>} ELSE Longer(g[k - 1], k)
  BY <1>13
<1> HIDE DEF Eq
<1>15. g[N] = Begun(N)
  <2> DEFINE T == {j \in 0..N : g[j] = Begun(j)}
  <2>1. 0 \in T
    BY <1>1, <1>5, <1>14
  <2>2. \A k \in 1..N : k - 1 \in T => k \in T
    BY <1>5, <1>7, <1>14
  <2> HIDE DEF T
  <2>3. N \in T
    BY <1>1, <2>1, <2>2, StepsUp
  <2> QED
    BY <2>3 DEF T
<1>16. \A r : r \in [1..N -> Letters] <=> r \in Seq(Letters) /\ Len(r) = N
  BY <1>1, SeqOfLen
<1> QED
  BY <1>1, <1>6, <1>15, <1>16 DEF Begun

\* The encoded board with a number, in either version.
FromId(v, id) == IF v = "paper" THEN PaperFromId(id) ELSE BoardFromId(id)

\* The board has a letter of each class.
InClass(e, r) == \A k \in Cells : r[k] \in ToSet(classes[e[k] + 1])

\* The classes that the loop breaks are classes of letters.
LEMMA ClassIsBoard ==
    ASSUME NEW v, NEW id \in 0..(NumClasses - 1)
    PROVE  /\ id \in Nat
           /\ FromId(v, id) \in EncodedBoards
           /\ ClassOf(v, id) \in Board
           /\ \A k \in Cells : ClassOf(v, id)[k] = classes[FromId(v, id)[k] + 1]
<1>1. id \in Nat
  BY PowerIs, Sizes DEF NumClasses
<1>2. FromId(v, id) \in EncodedBoards
  BY <1>1, FromIdType DEF FromId
<1>3. /\ num_classes \in Nat \ {0}
      /\ \A c \in 1..num_classes : classes[c] \in Seq(Letters)
  BY Sizes
<1>4. \A d \in Digits : d + 1 \in 1..num_classes
  BY <1>3 DEF Digits
<1>5. ClassOf(v, id) = [k \in Cells |-> classes[FromId(v, id)[k] + 1]]
  BY DEF ClassOf, FromId, ExpandPartitions
<1>6. \A k \in Cells : FromId(v, id)[k] + 1 \in 1..num_classes
  BY <1>2, <1>4 DEF EncodedBoards
<1> QED
  BY <1>1, <1>2, <1>3, <1>5, <1>6 DEF Board

\* The failures of a class are its boards over the best score.
LEMMA FailuresAre ==
    ASSUME version \in Versions, NEW id \in 0..(NumClasses - 1)
    PROVE  Failures(id) = {r \in [Cells -> Letters] :
               InClass(FromId(version, id), r) /\ DictionaryScore(r) > BestScore}
<1> DEFINE b == ClassOf(version, id)
<1>1. /\ NumClasses \in Nat /\ id \in 0..NumClasses
  BY PowerIs, Sizes DEF NumClasses
<1>2. b \in Board /\ \A k \in Cells : b[k] = classes[FromId(version, id)[k] + 1]
  BY ClassIsBoard
<1>3. Failures(id) = {r \in BoardsOf(b) : DictionaryScore(r) > BestScore}
  BY <1>1 DEF Failures, AllFailures, max_index
<1> HIDE DEF b
<1>4. BoardsOf(b) = {r \in [Cells -> Letters] : \A k \in Cells : r[k] \in ToSet(b[k])}
  BY <1>2, BoardsOfIs
<1>5. \A r : InClass(FromId(version, id), r) <=> \A k \in Cells : r[k] \in ToSet(b[k])
  BY <1>2 DEF InClass
<1> QED
  BY <1>3, <1>4, <1>5

\* A class that is skipped has an image with a lower number.
LEMMA SkippedIsBefore ==
    ASSUME Width = Height, version \in Versions, NEW id \in 0..(NumClasses - 1),
           ~CanonicalId(id)
    PROVE  \E m \in 0..(id - 1) : FromId(version, m) \in Orbit(FromId(version, id))
<1> DEFINE b == FromId(version, id)
<1>1. id \in Nat /\ b \in EncodedBoards
  BY ClassIsBoard
<1>2. CASE version = "paper"
  <2>1. Height = 3
    BY <1>2 DEF Versions
  <2>2. b = PaperFromId(id)
    BY <1>2 DEF FromId
  <2>3. PICK c \in ToSet(PaperImages(b)) : ~(PaperBoardId(c) >= id)
    BY <1>2, <2>2 DEF CanonicalId, PaperIsCanonical
  <2> HIDE DEF b
  <2>4. b \in [Cells -> Digits]
    BY <1>1 DEF EncodedBoards
  <2>5. c \in Orbit(b)
    BY <2>1, <2>3, <2>4, SquareImages
  <2>6. c \in EncodedBoards
    BY <2>4, <2>5, OrbitSymmetric DEF EncodedBoards
  <2>7. PaperBoardId(c) \in 0..(NumClasses - 1) /\ PaperFromId(PaperBoardId(c)) = c
    BY <2>6, PaperNumber
  <2> DEFINE m == PaperBoardId(c)
  <2>8. m \in 0..(NumClasses - 1) /\ ~(m >= id) /\ PaperFromId(m) = c
    BY <2>3, <2>7
  <2> HIDE DEF m
  <2>9. m \in Nat
    BY <2>8, PowerIs, Sizes DEF NumClasses
  <2>10. m \in 0..(id - 1)
    BY <1>1, <2>8, <2>9
  <2>11. FromId(version, m) = c
    BY <1>2, <2>8 DEF FromId
  <2> QED
    BY <2>5, <2>10, <2>11 DEF b
<1>3. CASE version # "paper"
  <2>1. b = BoardFromId(id)
    BY <1>3 DEF FromId
  <2>2. PICK c \in ToSet(Images(b)) : LessThan(c, b)
    BY <1>3, <2>1 DEF CanonicalId, IsCanonical
  <2> HIDE DEF b
  <2>3. b \in [Cells -> Digits]
    BY <1>1 DEF EncodedBoards
  <2>4. c \in Orbit(b)
    BY <2>2, <2>3, SquareImages
  <2>5. c \in EncodedBoards
    BY <2>3, <2>4, OrbitSymmetric DEF EncodedBoards
  <2>6. LessThan(c, BoardFromId(id))
    BY <2>1, <2>2
  <2>7. PICK m \in 0..(id - 1) : BoardFromId(m) = c
    BY <2>5, <2>6, NumberedBefore
  <2>8. FromId(version, m) = c
    BY <1>3, <2>7 DEF FromId
  <2> QED
    BY <2>4, <2>8 DEF b
<1> QED
  BY <1>2, <1>3

\* What two classes have in common when one is the image of the other: the board
\* turned like its class is in the image and scores as much.
LEMMA FailureTurned ==
    ASSUME Width = Height, version \in Versions,
           NEW id \in 0..(NumClasses - 1), NEW m \in 0..(NumClasses - 1),
           FromId(version, m) \in Orbit(FromId(version, id)),
           NEW r \in Failures(id)
    PROVE  \E s \in Failures(m) : s \in Orbit(r)
<1>1. PICK t \in Bits, a \in Bits, b \in Bits :
          FromId(version, m) = Turned(t, a, b, FromId(version, id))
  BY DEF Orbit
<1>2. /\ r \in [Cells -> Letters] /\ InClass(FromId(version, id), r)
      /\ DictionaryScore(r) > BestScore
  BY FailuresAre
<1> DEFINE s == Turned(t, a, b, r)
<1>3. s \in Orbit(r)
  BY DEF Orbit
<1>4. s \in [Cells -> Letters]
  BY <1>2, <1>3, OrbitSymmetric
<1>5. DictionaryScore(s) > BestScore
  BY <1>2, TurnedScore
<1>6. InClass(FromId(version, m), s)
  <2>1. ASSUME NEW k \in Cells PROVE s[k] \in ToSet(classes[FromId(version, m)[k] + 1])
    <3>1. Image(t, a, b, k) \in Cells
      BY ImageIs
    <3>2. /\ s[k] = r[Image(t, a, b, k)]
          /\ FromId(version, m)[k] = FromId(version, id)[Image(t, a, b, k)]
      BY <1>1 DEF Turned
    <3> QED
      BY <1>2, <3>1, <3>2 DEF InClass
  <2> QED
    BY <2>1 DEF InClass
<1> HIDE DEF s
<1>7. s \in Failures(m)
  BY <1>4, <1>5, <1>6, FailuresAre
<1> QED
  BY <1>3, <1>7

\* A set is added to a bag.
LEMMA BagMore ==
    ASSUME NEW B, IsABag(B), NEW S
    PROVE  LET C == B (+) SetToBag(S)
           IN  /\ IsABag(C) /\ BagToSet(C) = BagToSet(B) \cup S
               /\ \A e \in BagToSet(B) : e \notin S => C[e] = B[e]
               /\ \A e \in S : e \notin BagToSet(B) => C[e] = 1
<1> DEFINE one == SetToBag(S)
           C == B (+) one
           both(e) == (IF e \in DOMAIN B THEN B[e] ELSE 0)
                      + (IF e \in DOMAIN one THEN one[e] ELSE 0)
<1>1. DOMAIN one = S /\ \A e \in S : one[e] = 1
  BY DEF SetToBag
<1>2. \A e \in DOMAIN B : B[e] \in Nat /\ B[e] > 0
  BY DEF IsABag
<1>3. C = [e \in (DOMAIN B) \cup (DOMAIN one) |-> both(e)]
  BY DEF (+)
<1>4. DOMAIN C = DOMAIN B \cup S /\ \A e \in DOMAIN B \cup S : C[e] = both(e)
  BY <1>1, <1>3
<1>5. \A e \in DOMAIN B : e \in S => both(e) = B[e] + 1
  BY <1>1
<1>6. \A e \in DOMAIN B : e \notin S => both(e) = B[e]
  BY <1>1, <1>2
<1>7. \A e \in S : e \notin DOMAIN B => both(e) = 1
  BY <1>1
<1> HIDE DEF one, both
<1>8. \A e \in DOMAIN C : C[e] \in {n \in Nat : n > 0}
  BY <1>2, <1>4, <1>5, <1>6, <1>7
<1>9. C = [e \in DOMAIN C |-> C[e]]
  BY <1>3
<1> HIDE DEF C
<1>10. IsABag(C)
  BY <1>8, <1>9 DEF IsABag
<1>11. /\ IsABag(C) /\ BagToSet(C) = BagToSet(B) \cup S
       /\ \A e \in BagToSet(B) : e \notin S => C[e] = B[e]
       /\ \A e \in S : e \notin BagToSet(B) => C[e] = 1
  BY <1>4, <1>6, <1>7, <1>10 DEF BagToSet
<1> QED
  BY <1>11 DEF C, one

-----------------------------------------------------------------------------
(* The loop. *)

\* What a class adds to good_boards.
LEMMA BreakAdds ==
    ASSUME TypeOK, BreakClass
    PROVE  /\ idx \in 0..(NumClasses - 1)
           /\ IsABag(good_boards')
           /\ BagToSet(good_boards') = BagToSet(good_boards) \cup Failures(idx)
           /\ BagToSet(good_boards) \cap Failures(idx) = {} =>
                 /\ \A r \in BagToSet(good_boards) : good_boards'[r] = good_boards[r]
                 /\ \A r \in Failures(idx) : good_boards'[r] = 1
<1>1. NumClasses \in Nat
  BY PowerIs, Sizes DEF NumClasses
<1>2. idx \in 0..(NumClasses - 1)
  BY <1>1 DEF TypeOK, BreakClass, max_index
<1> DEFINE S == Failures(idx)
<1>3. good_boards' = good_boards (+) SetToBag(S)
  BY DEF BreakClass
<1>4. IsABag(good_boards)
  BY DEF TypeOK
<1> HIDE DEF S
<1>5. /\ IsABag(good_boards')
      /\ BagToSet(good_boards') = BagToSet(good_boards) \cup S
      /\ \A r \in BagToSet(good_boards) : r \notin S => good_boards'[r] = good_boards[r]
      /\ \A r \in S : r \notin BagToSet(good_boards) => good_boards'[r] = 1
  BY <1>3, <1>4, BagMore
<1>6. BagToSet(good_boards) \cap S = {} =>
          /\ \A r \in BagToSet(good_boards) : good_boards'[r] = good_boards[r]
          /\ \A r \in S : good_boards'[r] = 1
  BY <1>5
<1> QED
  BY <1>2, <1>5, <1>6 DEF S

\* The loop starts with no class broken.
LEMMA InitTypeOK == Init => TypeOK
<1> SUFFICES ASSUME Init PROVE TypeOK
  OBVIOUS
<1>1. NumClasses \in Nat \ {0}
  BY PowerIs, Sizes DEF NumClasses
<1>2. idx \in 0..NumClasses
  BY <1>1 DEF Init
<1>3. bd \in Board
  BY DEF Init, Board
<1>4. IsABag(good_boards) /\ BagToSet(good_boards) = {}
  BY DEF Init, EmptyBag, SetToBag, IsABag, BagToSet
<1> QED
  BY <1>2, <1>3, <1>4 DEF Init, TypeOK

\* Each round keeps the types.
LEMMA NextTypeOK == TypeOK /\ [Next]_vars => TypeOK'
<1> SUFFICES ASSUME TypeOK, [Next]_vars PROVE TypeOK'
  OBVIOUS
<1>1. NumClasses \in Nat
  BY PowerIs, Sizes DEF NumClasses
<1>2. CASE SkipClass
  <2>1. idx' \in 0..NumClasses
    BY <1>1, <1>2 DEF TypeOK, SkipClass, max_index
  <2> QED
    BY <1>2, <2>1 DEF TypeOK, SkipClass
<1>3. CASE BreakClass
  <2>1. idx' \in 0..NumClasses /\ version' \in Versions
    BY <1>1, <1>3 DEF TypeOK, BreakClass, max_index
  <2>2. idx \in 0..(NumClasses - 1) /\ version \in Versions
    BY <1>3, BreakAdds DEF TypeOK
  <2>3. bd' \in Board
    BY <1>3, <2>2, ClassIsBoard DEF BreakClass
  <2>4. Failures(idx) \subseteq [Cells -> Letters]
    BY <2>2, FailuresAre
  <2>5. /\ IsABag(good_boards')
        /\ BagToSet(good_boards') = BagToSet(good_boards) \cup Failures(idx)
    BY <1>3, BreakAdds
  <2>6. BagToSet(good_boards') \subseteq [Cells -> Letters]
    BY <2>4, <2>5 DEF TypeOK
  <2> QED
    BY <2>1, <2>3, <2>5, <2>6 DEF TypeOK
<1>4. CASE UNCHANGED vars
  BY <1>4 DEF vars, TypeOK
<1> QED
  BY <1>2, <1>3, <1>4 DEF Next

\* The types of all variables.
THEOREM TypeCorrect == Spec => []TypeOK
<1> QED
  BY InitTypeOK, NextTypeOK, PTL DEF Spec

\* No class that the loop has passed has a board over the best score that is not
\* among good_boards, itself, turned or mirrored.
FoundSoFar == \A id \in 0..(idx - 1) : AllFound(Failures(id))

\* Boards found are not lost.
LEMMA StaysFound ==
    ASSUME TypeOK, FoundSoFar, version' = version,
           BagToSet(good_boards) \subseteq BagToSet(good_boards')
    PROVE  \A id \in 0..(idx - 1) : AllFound(Failures(id))'
<1>1. ASSUME NEW id \in 0..(idx - 1) PROVE AllFound(Failures(id))'
  <2>1. AllFound(Failures(id))
    BY DEF FoundSoFar
  <2>2. Failures(id)' = Failures(id)
    BY DEF Failures
  <2> QED
    BY <2>1, <2>2 DEF AllFound
<1> QED
  BY <1>1

\* On a square board each round keeps FoundSoFar: a class that is broken adds its
\* boards, and one that is skipped has an image that was not.
LEMMA NextFoundSoFar ==
    ASSUME Width = Height, TypeOK, FoundSoFar, [Next]_vars
    PROVE  FoundSoFar'
<1>1. NumClasses \in Nat /\ idx \in Nat
  BY PowerIs, Sizes DEF NumClasses, TypeOK
<1>2. PICK n \in Nat : n = idx
  BY <1>1
<1>3. \A id \in 0..((n + 1) - 1) : id \in 0..(n - 1) \/ id = n
  BY <1>2
<1>4. ASSUME idx' = n + 1, version' = version,
             BagToSet(good_boards) \subseteq BagToSet(good_boards'),
             \A r \in Failures(n) : SameBoards(r) \cap BagToSet(good_boards') # {}
      PROVE  FoundSoFar'
  <2>1. \A id \in 0..(n - 1) : AllFound(Failures(id))'
    BY <1>2, <1>4, StaysFound
  <2>2. Failures(n)' = Failures(n)
    BY <1>4 DEF Failures
  <2>3. AllFound(Failures(n))'
    BY <1>4, <2>2 DEF AllFound
  <2>4. ASSUME NEW id \in 0..(idx' - 1) PROVE AllFound(Failures(id))'
    <3>1. id \in 0..(n - 1) \/ id = n
      BY <1>3, <1>4, <2>4
    <3>2. CASE id \in 0..(n - 1)
      BY <2>1, <3>2
    <3>3. CASE id = n
      BY <2>3, <3>3
    <3> QED
      BY <3>1, <3>2, <3>3
  <2> QED
    BY <2>4 DEF FoundSoFar
<1>5. CASE SkipClass
  <2>1. /\ n \in 0..(NumClasses - 1) /\ ~CanonicalId(n) /\ version \in Versions
        /\ idx' = n + 1 /\ version' = version /\ good_boards' = good_boards
    BY <1>1, <1>2, <1>5 DEF SkipClass, TypeOK, max_index
  <2>2. PICK m \in 0..(n - 1) : FromId(version, m) \in Orbit(FromId(version, n))
    BY <2>1, SkippedIsBefore
  <2>3. m \in 0..(NumClasses - 1)
    BY <1>1, <2>1, <2>2
  <2>4. AllFound(Failures(m))
    BY <1>2, <2>2 DEF FoundSoFar
  <2>5. ASSUME NEW r \in Failures(n)
        PROVE  SameBoards(r) \cap BagToSet(good_boards) # {}
    <3>1. PICK s \in Failures(m) : s \in Orbit(r)
      BY <2>1, <2>2, <2>3, FailureTurned
    <3>2. r \in [Cells -> Letters] /\ s \in [Cells -> Letters]
      BY <2>1, <2>3, <3>1, FailuresAre
    <3>3. SameBoards(r) = Orbit(r) /\ SameBoards(s) = Orbit(s)
      BY <3>2, SameBoardsIs
    <3>4. Orbit(s) \subseteq Orbit(r)
      BY <3>1, OrbitClosed
    <3> QED
      BY <2>4, <3>1, <3>3, <3>4 DEF AllFound
  <2> QED
    BY <1>4, <2>1, <2>5
<1>6. CASE BreakClass
  <2>1. /\ n \in 0..(NumClasses - 1) /\ version \in Versions
        /\ idx' = n + 1 /\ version' = version
        /\ BagToSet(good_boards') = BagToSet(good_boards) \cup Failures(n)
    BY <1>2, <1>6, BreakAdds DEF BreakClass, TypeOK
  <2>2. ASSUME NEW r \in Failures(n)
        PROVE  SameBoards(r) \cap BagToSet(good_boards') # {}
    <3>1. r \in [Cells -> Letters]
      BY <2>1, FailuresAre
    <3>2. r \in SameBoards(r)
      BY DEF SameBoards, Mirrored
    <3> QED
      BY <2>1, <3>2
  <2> QED
    BY <1>4, <2>1, <2>2
<1>7. CASE UNCHANGED vars
  <2>1. idx' = idx /\ version' = version /\ good_boards' = good_boards
    BY <1>7 DEF vars
  <2>2. \A id \in 0..(idx - 1) : AllFound(Failures(id))'
    BY <2>1, StaysFound
  <2> QED
    BY <2>1, <2>2 DEF FoundSoFar
<1> QED
  BY <1>5, <1>6, <1>7 DEF Next

\* The first half of NothingMissed and what keeps it.
LEMMA FoundInvariant ==
    ASSUME Width = Height
    PROVE  Spec => [](TypeOK /\ FoundSoFar)
<1>1. Init => FoundSoFar
  <2>1. ASSUME Init PROVE FoundSoFar
    <3>1. 0..(idx - 1) = {}
      BY <2>1 DEF Init
    <3> QED
      BY <3>1 DEF FoundSoFar
  <2> QED
    BY <2>1
<1>2. TypeOK /\ FoundSoFar /\ [Next]_vars => FoundSoFar'
  BY NextFoundSoFar
<1> QED
  BY <1>1, <1>2, InitTypeOK, NextTypeOK, PTL DEF Spec

\* On a square board, when the loop has passed a class, none of its boards over
\* the best score is missing: it is among good_boards itself, turned or mirrored,
\* in both versions, though half of the code turns boards by another numbering of
\* the cells than the other (board-utils.cc:97).
THEOREM SquareNothingMissed ==
    ASSUME Width = Height
    PROVE  Spec => []NothingMissed
<1>1. TypeOK /\ FoundSoFar => NothingMissed
  <2>1. ASSUME TypeOK, FoundSoFar, idx > 0 PROVE AllFound(Failures(idx - 1))
    <3>1. idx \in Nat
      BY <2>1, PowerIs, Sizes DEF NumClasses, TypeOK
    <3>2. idx - 1 \in 0..(idx - 1)
      BY <2>1, <3>1
    <3> QED
      BY <2>1, <3>2 DEF FoundSoFar
  <2> QED
    BY <2>1 DEF NothingMissed
<1> QED
  BY <1>1, FoundInvariant, PTL

\* What board-utils.h:20 promises holds on a square board: when the loop ends, no
\* board over the best score is missing.  On others it does not, as a run shows.
THEOREM SquareEveryBoardFound ==
    ASSUME Width = Height
    PROVE  Spec => []EveryBoardFound
<1>1. FoundSoFar => EveryBoardFound
  BY DEF FoundSoFar, EveryBoardFound
<1> QED
  BY <1>1, FoundInvariant, PTL

-----------------------------------------------------------------------------
(* No board is reported twice. *)

\* The classes are a partition of the letters, as board-utils.cc:14 says should be
\* checked.
ClassesDisjoint ==
    \A c, d \in DOMAIN classes : c # d => ToSet(classes[c]) \cap ToSet(classes[d]) = {}

\* A board is in one class only.
LEMMA OneClass ==
    ASSUME ClassesDisjoint, NEW v,
           NEW id \in 0..(NumClasses - 1), NEW m \in 0..(NumClasses - 1),
           NEW r, InClass(FromId(v, id), r), InClass(FromId(v, m), r)
    PROVE  id = m
<1> SUFFICES ASSUME id # m PROVE FALSE
  OBVIOUS
<1>1. PICK k \in Cells : FromId(v, id)[k] # FromId(v, m)[k]
  BY FromIdOnce DEF FromId
<1> DEFINE c == FromId(v, id)[k]
           d == FromId(v, m)[k]
<1>2. c \in Digits /\ d \in Digits /\ c # d
  BY <1>1, ClassIsBoard DEF EncodedBoards
<1>3. r[k] \in ToSet(classes[c + 1]) /\ r[k] \in ToSet(classes[d + 1])
  BY DEF InClass
<1> HIDE DEF c, d
<1>4. /\ c + 1 \in DOMAIN classes /\ d + 1 \in DOMAIN classes /\ c + 1 # d + 1
  BY <1>2, Sizes DEF Digits
<1> QED
  BY <1>3, <1>4 DEF ClassesDisjoint

\* What is reported comes from the classes passed.
ReportedIsPassed ==
    \A r \in BagToSet(good_boards) : \E id \in 0..(idx - 1) : InClass(FromId(version, id), r)

\* A class that is broken has no board in common with those before.
LEMMA NextReported ==
    ASSUME ClassesDisjoint, TypeOK, ReportedIsPassed, ReportedOnce, [Next]_vars
    PROVE  ReportedIsPassed' /\ ReportedOnce'
<1>1. NumClasses \in Nat /\ idx \in Nat
  BY PowerIs, Sizes DEF NumClasses, TypeOK
<1>2. ASSUME NEW B, B \subseteq BagToSet(good_boards), version' = version,
             idx' = idx \/ idx' = idx + 1
      PROVE  \A r \in B : \E id \in 0..(idx' - 1) : InClass(FromId(version', id), r)
  <2>1. ASSUME NEW r \in B
        PROVE  \E id \in 0..(idx' - 1) : InClass(FromId(version', id), r)
    <3>1. PICK id \in 0..(idx - 1) : InClass(FromId(version, id), r)
      BY <1>2, <2>1 DEF ReportedIsPassed
    <3>2. id \in 0..(idx' - 1)
      BY <1>1, <1>2
    <3> QED
      BY <1>2, <3>1, <3>2
  <2> QED
    BY <2>1
<1>3. CASE SkipClass
  <2>1. idx' = idx + 1 /\ version' = version /\ good_boards' = good_boards
    BY <1>3 DEF SkipClass
  <2>2. ReportedIsPassed'
    BY <1>2, <2>1 DEF ReportedIsPassed
  <2> QED
    BY <2>1, <2>2 DEF ReportedOnce
<1>4. CASE BreakClass
  <2>1. /\ idx \in 0..(NumClasses - 1) /\ version \in Versions
        /\ idx' = idx + 1 /\ version' = version
        /\ BagToSet(good_boards') = BagToSet(good_boards) \cup Failures(idx)
    BY <1>4, BreakAdds DEF BreakClass, TypeOK
  <2>2. \A r \in Failures(idx) : InClass(FromId(version, idx), r)
    BY <2>1, FailuresAre
  <2>3. BagToSet(good_boards) \cap Failures(idx) = {}
    <3> SUFFICES ASSUME NEW r \in BagToSet(good_boards), r \in Failures(idx) PROVE FALSE
      OBVIOUS
    <3>1. PICK id \in 0..(idx - 1) : InClass(FromId(version, id), r)
      BY DEF ReportedIsPassed
    <3>2. id \in 0..(NumClasses - 1) /\ id # idx
      BY <1>1, <2>1, <3>1
    <3>3. InClass(FromId(version, idx), r)
      BY <2>2
    <3> QED
      BY <2>1, <3>1, <3>2, <3>3, OneClass
  <2>4. ReportedOnce'
    BY <1>4, <2>1, <2>3, BreakAdds DEF ReportedOnce
  <2>5. \A r \in BagToSet(good_boards) :
            \E id \in 0..(idx' - 1) : InClass(FromId(version', id), r)
    BY <1>2, <2>1
  <2>6. \A r \in Failures(idx) :
            \E id \in 0..(idx' - 1) : InClass(FromId(version', id), r)
    <3>1. idx \in 0..(idx' - 1)
      BY <1>1, <2>1
    <3> QED
      BY <2>1, <2>2, <3>1
  <2>7. ReportedIsPassed'
    BY <2>1, <2>5, <2>6 DEF ReportedIsPassed
  <2> QED
    BY <2>4, <2>7
<1>5. CASE UNCHANGED vars
  BY <1>5 DEF vars, ReportedIsPassed, ReportedOnce
<1> QED
  BY <1>3, <1>4, <1>5 DEF Next

\* When no letter is in two classes, no board is reported twice: the numbers below
\* max_index stand for classes that have no board in common.
THEOREM PartitionReportedOnce ==
    ASSUME ClassesDisjoint
    PROVE  Spec => []ReportedOnce
<1>1. Init => ReportedIsPassed /\ ReportedOnce
  <2>1. ASSUME Init PROVE BagToSet(good_boards) = {}
    BY <2>1 DEF Init, EmptyBag, SetToBag, BagToSet
  <2> QED
    BY <2>1 DEF ReportedIsPassed, ReportedOnce
<1>2. TypeOK /\ ReportedIsPassed /\ ReportedOnce /\ [Next]_vars
          => ReportedIsPassed' /\ ReportedOnce'
  BY NextReported
<1> QED
  BY <1>1, <1>2, InitTypeOK, NextTypeOK, PTL DEF Spec

-----------------------------------------------------------------------------
(* One image of each board is canonical. *)

\* No board is less than itself, and of two boards that differ one is less.
LEMMA LessThanTotal ==
    ASSUME NEW a \in EncodedBoards, NEW b \in EncodedBoards
    PROVE  ~LessThan(a, a) /\ (a # b => LessThan(a, b) \/ LessThan(b, a))
<1>1. /\ NumCells \in Nat /\ Cells = 1..NumCells /\ num_classes \in Nat
  BY Sizes
<1>2. \A k \in Cells : a[k] \in Nat /\ b[k] \in Nat
  BY <1>1 DEF EncodedBoards, Digits
<1>3. ~LessThan(a, a)
  BY <1>2 DEF LessThan
<1>4. ASSUME a # b PROVE LessThan(a, b) \/ LessThan(b, a)
  <2> DEFINE T == {k \in Cells : a[k] # b[k]}
  <2>1. T # {}
    BY <1>4 DEF EncodedBoards
  <2>2. T \subseteq Nat
    BY <1>1
  <2> HIDE DEF T
  <2>3. PICK k \in T : \A m \in T : k <= m
    BY <2>1, <2>2, LeastElement
  <2>4. k \in Cells /\ a[k] # b[k]
    BY <2>3 DEF T
  <2>5. ASSUME NEW m \in 1..(k - 1) PROVE a[m] = b[m]
    <3>1. m \in Cells /\ ~(k <= m)
      BY <1>1, <2>4
    <3> QED
      BY <2>3, <3>1 DEF T
  <2>6. a[k] < b[k] \/ b[k] < a[k]
    BY <1>2, <2>4
  <2> QED
    BY <2>4, <2>5, <2>6 DEF LessThan
<1> QED
  BY <1>3, <1>4

\* Every board has a number.
LEMMA HasNumber ==
    ASSUME NEW b \in EncodedBoards
    PROVE  \E id \in 0..(NumClasses - 1) : BoardFromId(id) = b
<1>1. /\ NumCells \in Nat /\ Cells = 1..NumCells /\ NumClasses \in Nat
  BY PowerIs, Sizes DEF NumClasses
<1>2. \A j \in 1..NumCells : b[j] \in Digits
  BY <1>1 DEF EncodedBoards
<1>3. PICK f : Horner(f, b)
  BY <1>2, HornerExists
<1>4. /\ f[NumCells] \in Nat /\ f[NumCells] < NumClasses
      /\ \A j \in 1..NumCells : Left(f[NumCells])[NumCells - j] % num_classes = b[j]
  BY <1>2, <1>3, HornerLeft
<1>5. BoardFromId(f[NumCells]) = b
  BY <1>1, <1>4 DEF BoardFromId, EncodedBoards
<1>6. f[NumCells] \in 0..(NumClasses - 1)
  BY <1>1, <1>4
<1> QED
  BY <1>5, <1>6

\* A set of boards has a least one.
LEMMA LeastBoard ==
    ASSUME NEW O, O \subseteq EncodedBoards, O # {}
    PROVE  \E b \in O : \A c \in O : ~LessThan(c, b)
<1> DEFINE T == {id \in 0..(NumClasses - 1) : BoardFromId(id) \in O}
<1>1. NumClasses \in Nat
  BY PowerIs, Sizes DEF NumClasses
<1>2. T \subseteq Nat /\ T # {}
  BY <1>1, HasNumber
<1> HIDE DEF T
<1>3. PICK id \in T : \A m \in T : id <= m
  BY <1>2, LeastElement
<1>4. id \in 0..(NumClasses - 1) /\ BoardFromId(id) \in O
  BY <1>3 DEF T
<1>5. ASSUME NEW c \in O, LessThan(c, BoardFromId(id)) PROVE FALSE
  <2>1. PICK m \in 0..(id - 1) : BoardFromId(m) = c
    BY <1>4, <1>5, NumberedBefore
  <2>2. m \in T
    BY <1>1, <1>4, <2>1 DEF T
  <2> QED
    BY <1>1, <1>3, <1>4, <2>1, <2>2
<1> QED
  BY <1>4, <1>5

\* All images of a board, that on any board of the same kind are the same.
Family(b) ==
    IF Width = Height THEN Orbit(b)
    ELSE {b, FlipLeftRight(b), FlipTopBottom(b), FlipTopBottom(FlipLeftRight(b))}

\* Cells and their places on a board of any size.
LEMMA Places ==
    /\ \A k \in Cells : /\ X(k) \in 0..(Width - 1) /\ Y(k) \in 0..(Height - 1)
                        /\ Id(X(k), Y(k)) = k
    /\ \A x \in 0..(Width - 1), y \in 0..(Height - 1) :
           Id(x, y) \in Cells /\ X(Id(x, y)) = x /\ Y(Id(x, y)) = y
<1> DEFINE w == Width
           h == Height
<1>1. w \in Nat \ {0} /\ h \in Nat \ {0} /\ Cells = 1..(w * h)
  BY GridAssumption, Sizes DEF NumCells
<1>2. \A m, n \in Nat : m * n = n * m /\ m * n \in Nat
  OBVIOUS
<1>3. /\ \A k : X(k) = (k - 1) % w /\ Y(k) = (k - 1) \div w
      /\ \A x, y : Id(x, y) = y * w + x + 1
  BY DEF X, Y, Id
<1> HIDE DEF w, h
<1>4. w * h = h * w /\ h * w \in Nat /\ w * h \in Nat
  BY <1>1, <1>2
<1>5. ASSUME NEW k \in Cells
      PROVE  /\ (k - 1) \div w \in 0..(h - 1) /\ (k - 1) % w \in 0..(w - 1)
             /\ ((k - 1) \div w) * w + ((k - 1) % w) + 1 = k
  <2> DEFINE m == k - 1
             q == m \div w
             r == m % w
  <2>1. m \in Nat /\ m < h * w /\ k = m + 1
    BY <1>1, <1>4
  <2> HIDE DEF m
  <2>2. q \in Nat /\ r \in 0..(w - 1) /\ m = q * w + r
    BY <1>1, <2>1, ModIs
  <2>3. q < h
    BY <1>1, <2>1, DivSmaller
  <2> HIDE DEF q, r
  <2>4. q \in 0..(h - 1)
    BY <1>1, <2>2, <2>3
  <2>5. q * w \in Nat
    BY <1>1, <2>2
  <2>6. q * w + r + 1 = k
    BY <1>1, <2>1, <2>2, <2>5
  <2> QED
    BY <2>2, <2>4, <2>6 DEF q, r, m
<1>6. ASSUME NEW x \in 0..(w - 1), NEW y \in 0..(h - 1)
      PROVE  /\ y * w + x + 1 \in 1..(w * h)
             /\ ((y * w + x + 1) - 1) \div w = y
             /\ ((y * w + x + 1) - 1) % w = x
  <2>1. y \in Nat /\ y < h /\ x \in Nat /\ h \in Nat
    BY <1>1
  <2>2. y * w + x < h * w
    BY <1>1, <2>1, Carry
  <2>3. y * w \in Nat
    BY <1>1, <2>1
  <2> DEFINE p == y * w
             z == w * h
  <2>4. p \in Nat /\ z \in Nat /\ p + x < z
    BY <1>4, <2>2, <2>3
  <2>5. (p + x) \div w = y /\ (p + x) % w = x
    BY <1>1, <2>1, DigitOff
  <2> HIDE DEF p, z
  <2>6. p + x + 1 \in 1..z /\ (p + x + 1) - 1 = p + x
    BY <2>1, <2>4
  <2> QED
    BY <2>5, <2>6 DEF p, z
<1>7. ASSUME NEW k \in Cells
      PROVE  /\ X(k) \in 0..(w - 1) /\ Y(k) \in 0..(h - 1) /\ Id(X(k), Y(k)) = k
  BY <1>3, <1>5
<1>8. ASSUME NEW x \in 0..(w - 1), NEW y \in 0..(h - 1)
      PROVE  Id(x, y) \in Cells /\ X(Id(x, y)) = x /\ Y(Id(x, y)) = y
  BY <1>1, <1>3, <1>6
<1> QED
  BY <1>7, <1>8 DEF w, h

\* Flips on a board of any size: each undoes itself, and their order is the same.
LEMMA FlipTwice ==
    ASSUME NEW V, NEW b \in [Cells -> V]
    PROVE  /\ FlipLeftRight(b) \in [Cells -> V] /\ FlipTopBottom(b) \in [Cells -> V]
           /\ FlipLeftRight(FlipLeftRight(b)) = b /\ FlipTopBottom(FlipTopBottom(b)) = b
           /\ FlipLeftRight(FlipTopBottom(b)) = FlipTopBottom(FlipLeftRight(b))
<1> DEFINE left(k) == Id(Width - 1 - X(k), Y(k))
           top(k) == Id(X(k), Height - 1 - Y(k))
<1>1. Width \in Nat \ {0} /\ Height \in Nat \ {0}
  BY GridAssumption
<1>2. ASSUME NEW k \in Cells
      PROVE  /\ left(k) \in Cells /\ X(left(k)) = Width - 1 - X(k) /\ Y(left(k)) = Y(k)
             /\ top(k) \in Cells /\ X(top(k)) = X(k) /\ Y(top(k)) = Height - 1 - Y(k)
             /\ Width - 1 - (Width - 1 - X(k)) = X(k)
             /\ Height - 1 - (Height - 1 - Y(k)) = Y(k)
  <2>1. X(k) \in 0..(Width - 1) /\ Y(k) \in 0..(Height - 1)
    BY Places
  <2>2. Width - 1 - X(k) \in 0..(Width - 1) /\ Height - 1 - Y(k) \in 0..(Height - 1)
    BY <1>1, <2>1
  <2>3. /\ Width - 1 - (Width - 1 - X(k)) = X(k)
        /\ Height - 1 - (Height - 1 - Y(k)) = Y(k)
    BY <1>1, <2>1
  <2> QED
    BY <2>1, <2>2, <2>3, Places
<1>3. ASSUME NEW k \in Cells
      PROVE  /\ left(left(k)) = k /\ top(top(k)) = k
             /\ top(left(k)) = left(top(k))
  <2>1. /\ left(left(k)) = Id(X(k), Y(k)) /\ top(top(k)) = Id(X(k), Y(k))
        /\ top(left(k)) = Id(Width - 1 - X(k), Height - 1 - Y(k))
        /\ left(top(k)) = Id(Width - 1 - X(k), Height - 1 - Y(k))
    BY <1>2
  <2> QED
    BY <2>1, Places
<1>4. \A c : /\ FlipLeftRight(c) = [k \in Cells |-> c[left(k)]]
             /\ FlipTopBottom(c) = [k \in Cells |-> c[top(k)]]
  BY DEF FlipLeftRight, FlipTopBottom
<1> HIDE DEF left, top
<1>5. \A k \in Cells : left(k) \in Cells /\ top(k) \in Cells
  BY <1>2 DEF left, top
<1>6. FlipLeftRight(b) \in [Cells -> V] /\ FlipTopBottom(b) \in [Cells -> V]
  BY <1>4, <1>5
<1>7. FlipLeftRight(FlipLeftRight(b)) = b
  <2>1. FlipLeftRight(FlipLeftRight(b)) = [k \in Cells |-> FlipLeftRight(b)[left(k)]]
    BY <1>4
  <2>2. \A k \in Cells : FlipLeftRight(b)[left(k)] = b[k]
    BY <1>3, <1>4, <1>5
  <2> QED
    BY <2>1, <2>2
<1>8. FlipTopBottom(FlipTopBottom(b)) = b
  <2>1. FlipTopBottom(FlipTopBottom(b)) = [k \in Cells |-> FlipTopBottom(b)[top(k)]]
    BY <1>4
  <2>2. \A k \in Cells : FlipTopBottom(b)[top(k)] = b[k]
    BY <1>3, <1>4, <1>5
  <2> QED
    BY <2>1, <2>2
<1>9. FlipLeftRight(FlipTopBottom(b)) = FlipTopBottom(FlipLeftRight(b))
  <2>1. /\ FlipLeftRight(FlipTopBottom(b)) = [k \in Cells |-> FlipTopBottom(b)[left(k)]]
        /\ FlipTopBottom(FlipLeftRight(b)) = [k \in Cells |-> FlipLeftRight(b)[top(k)]]
    BY <1>4
  <2>2. ASSUME NEW k \in Cells PROVE FlipTopBottom(b)[left(k)] = FlipLeftRight(b)[top(k)]
    <3>1. FlipTopBottom(b)[left(k)] = b[top(left(k))]
      BY <1>4, <1>5
    <3>2. FlipLeftRight(b)[top(k)] = b[left(top(k))]
      BY <1>4, <1>5
    <3> QED
      BY <1>3, <3>1, <3>2
  <2> QED
    BY <2>1, <2>2
<1> QED
  BY <1>6, <1>7, <1>8, <1>9

\* The family of a board is that of each of its boards.
LEMMA FamilyClosed ==
    ASSUME NEW b \in EncodedBoards, NEW c \in Family(b)
    PROVE  c \in EncodedBoards /\ Family(c) = Family(b) /\ b \in Family(b)
<1>1. b \in [Cells -> Digits]
  BY DEF EncodedBoards
<1>2. CASE Width = Height
  <2>1. c \in Orbit(b) /\ Family(c) = Orbit(c) /\ Family(b) = Orbit(b)
    BY <1>2 DEF Family
  <2>2. b \in Orbit(c) /\ b \in Orbit(b) /\ c \in [Cells -> Digits]
    BY <1>1, <1>2, <2>1, OrbitSymmetric
  <2>3. Orbit(c) \subseteq Orbit(b) /\ Orbit(b) \subseteq Orbit(c)
    BY <1>2, <2>1, <2>2, OrbitClosed
  <2> QED
    BY <2>1, <2>2, <2>3 DEF EncodedBoards
<1>3. CASE Width # Height
  <2> DEFINE l == FlipLeftRight(b)
             t == FlipTopBottom(b)
             lt == FlipTopBottom(l)
  <2>1. /\ l \in [Cells -> Digits] /\ t \in [Cells -> Digits]
        /\ FlipLeftRight(l) = b /\ FlipTopBottom(t) = b /\ FlipLeftRight(t) = lt
    BY <1>1, FlipTwice
  <2>2. lt \in [Cells -> Digits] /\ FlipTopBottom(lt) = l
    BY <2>1, FlipTwice
  <2>3. FlipLeftRight(lt) = t
    <3>1. FlipLeftRight(FlipLeftRight(t)) = t
      BY <2>1, FlipTwice
    <3> QED
      BY <2>1, <3>1
  <2>4. Family(b) = {b, l, t, lt}
    BY <1>3 DEF Family
  <2>5. Family(c) = {c, FlipLeftRight(c), FlipTopBottom(c),
                     FlipTopBottom(FlipLeftRight(c))}
    BY <1>3 DEF Family
  <2>6. FlipLeftRight(b) = l /\ FlipTopBottom(b) = t /\ FlipTopBottom(l) = lt
    OBVIOUS
  <2> HIDE DEF l, t, lt
  <2>7. c \in {b, l, t, lt}
    BY <2>4
  <2>8. Family(c) = {b, l, t, lt}
    BY <2>1, <2>2, <2>3, <2>5, <2>6, <2>7
  <2> QED
    BY <1>1, <2>1, <2>2, <2>4, <2>7, <2>8 DEF EncodedBoards
<1> QED
  BY <1>2, <1>3

\* IsCanonical and Canonicalize look at the whole family.
LEMMA ImagesAre ==
    ASSUME NEW b \in EncodedBoards
    PROVE  /\ ToSet(Images(b)) \cup {b} = Family(b)
           /\ GenerateAnalogues(b) \cup {b} = Family(b)
           /\ Width = 3 /\ Height = 3 => ToSet(PaperImages(b)) \cup {b} = Family(b)
<1>1. b \in [Cells -> Digits]
  BY DEF EncodedBoards
<1>2. CASE Width = Height
  BY <1>1, <1>2, SquareImages DEF Family, GenerateAnalogues
<1>3. CASE Width # Height
  <2> DEFINE l == FlipLeftRight(b)
             t == FlipTopBottom(b)
             lt == FlipTopBottom(l)
  <2>1. FlipLeftRight(lt) = t
    <3>1. /\ l \in [Cells -> Digits] /\ t \in [Cells -> Digits]
          /\ FlipLeftRight(t) = lt
      BY <1>1, FlipTwice
    <3>2. FlipLeftRight(FlipLeftRight(t)) = t
      BY <3>1, FlipTwice
    <3> QED
      BY <3>1, <3>2
  <2>2. Flips(b) = <<l, lt, t>>
    BY <2>1 DEF Flips
  <2>3. Family(b) = {b, l, t, lt}
    BY <1>3 DEF Family
  <2>4. Images(b) = Flips(b) \o <<>>
    BY <1>3 DEF Images
  <2> HIDE DEF l, t, lt
  <2> DEFINE S == {l, lt, t}
             s == <<l, lt, t>>
             z == << >>
  <2>5. s \in Seq(S) /\ ToSet(s) = S
    BY ThreeElements
  <2>6. z \in Seq(S) /\ ToSet(z) = {}
    BY DEF ToSet
  <2>7. Images(b) = s \o z
    BY <2>2, <2>4
  <2> HIDE DEF s, z, S
  <2>8. ToSet(s \o z) = ToSet(s) \cup ToSet(z)
    BY <2>5, <2>6, ToSetConcat
  <2>9. ToSet(Images(b)) \cup {b} = Family(b)
    BY <2>3, <2>5, <2>6, <2>7, <2>8 DEF S
  <2> QED
    BY <1>3, <2>9 DEF GenerateAnalogues
<1> QED
  BY <1>2, <1>3

\* A board is canonical when none of its family is less.
LEMMA CanonicalIsLeast ==
    ASSUME NEW d \in EncodedBoards
    PROVE  IsCanonical(d) <=> \A c \in Family(d) : ~LessThan(c, d)
<1>1. ToSet(Images(d)) \cup {d} = Family(d)
  BY ImagesAre
<1>2. ~LessThan(d, d)
  BY LessThanTotal
<1> QED
  BY <1>1, <1>2 DEF IsCanonical

\* BoardUtils accepts one board of a family, the one that Canonicalize returns.
LEMMA LeastIsCanonical ==
    ASSUME NEW b \in EncodedBoards
    PROVE  LET all == GenerateAnalogues(b) \cup {b}
           IN  \A c \in all : {d \in all : IsCanonical(d)} = {Canonicalize(c)}
<1> DEFINE O == Family(b)
           min == CHOOSE d \in O : \A c \in O : ~LessThan(c, d)
<1>1. /\ GenerateAnalogues(b) \cup {b} = O /\ b \in O
      /\ \A d \in O : d \in EncodedBoards /\ Family(d) = O
  BY ImagesAre, FamilyClosed
<1>2. O # {} /\ O \subseteq EncodedBoards
  BY <1>1
<1> HIDE DEF O
<1>3. \E d \in O : \A c \in O : ~LessThan(c, d)
  BY <1>2, LeastBoard
<1>4. min \in O /\ \A c \in O : ~LessThan(c, min)
  BY <1>3
<1>5. \A c \in O : Canonicalize(c) = min
  <2>1. \A c \in O : GenerateAnalogues(c) \cup {c} = O
    BY <1>1, ImagesAre
  <2> QED
    BY <2>1 DEF Canonicalize
<1> HIDE DEF min
<1>6. ASSUME NEW d \in O PROVE IsCanonical(d) <=> d = min
  <2>1. IsCanonical(d) <=> \A c \in O : ~LessThan(c, d)
    BY <1>1, CanonicalIsLeast
  <2>2. ASSUME \A c \in O : ~LessThan(c, d), d # min PROVE FALSE
    <3>1. LessThan(d, min) \/ LessThan(min, d)
      BY <1>1, <1>4, <2>2, LessThanTotal
    <3> QED
      BY <1>4, <2>2, <3>1
  <2> QED
    BY <1>4, <2>1, <2>2
<1>7. {d \in O : IsCanonical(d)} = {min}
  BY <1>4, <1>6
<1> QED
  BY <1>1, <1>5, <1>7

\* The paper version accepts one board of a family, that with the lowest number.
LEMMA LeastNumberIsCanonical ==
    ASSUME Width = 3, Height = 3, NEW b \in EncodedBoards
    PROVE  LET all == ToSet(PaperImages(b)) \cup {b}
           IN  Cardinality({d \in all : PaperIsCanonical(PaperBoardId(d))}) = 1
<1> DEFINE O == Family(b)
           T == {PaperBoardId(d) : d \in O}
<1>1. /\ ToSet(PaperImages(b)) \cup {b} = O /\ b \in O
      /\ \A d \in O : d \in EncodedBoards /\ ToSet(PaperImages(d)) \cup {d} = O
  BY ImagesAre, FamilyClosed
<1>2. NumClasses \in Nat
  BY PowerIs, Sizes DEF NumClasses
<1> HIDE DEF O
<1>3. \A d \in O : PaperBoardId(d) \in Nat /\ PaperFromId(PaperBoardId(d)) = d
  BY <1>1, <1>2, PaperNumber
<1>4. T # {} /\ T \subseteq Nat
  BY <1>1, <1>3
<1> HIDE DEF T
<1>5. PICK x \in T : \A y \in T : x <= y
  BY <1>4, LeastElement
<1>6. PICK min \in O : PaperBoardId(min) = x
  BY <1>5 DEF T
<1>7. \A d \in O : PaperBoardId(min) <= PaperBoardId(d)
  BY <1>5, <1>6 DEF T
<1>8. ASSUME NEW d \in O
      PROVE  PaperIsCanonical(PaperBoardId(d)) <=>
                 \A c \in O : PaperBoardId(c) >= PaperBoardId(d)
  BY <1>1, <1>3 DEF PaperIsCanonical
<1>9. ASSUME NEW d \in O PROVE PaperIsCanonical(PaperBoardId(d)) <=> d = min
  <2>1. ASSUME \A c \in O : PaperBoardId(c) >= PaperBoardId(d) PROVE d = min
    <3>1. PaperBoardId(d) = PaperBoardId(min)
      BY <1>3, <1>7, <2>1
    <3> QED
      BY <1>3, <3>1
  <2>2. \A c \in O : PaperBoardId(c) >= PaperBoardId(min)
    BY <1>3, <1>7
  <2> QED
    BY <1>8, <2>1, <2>2
<1>10. {d \in O : PaperIsCanonical(PaperBoardId(d))} = {min}
  BY <1>9
<1>11. Cardinality({min}) = 1
  BY FS_Singleton
<1> QED
  BY <1>1, <1>10, <1>11

\* Of a board and its images exactly one is canonical, in both versions and on a
\* board of any size: no class is broken twice under two numbers, and none is
\* skipped together with all its images (board-utils.cc:97, paper/breaker.cc:220).
THEOREM OneOfEachFamily == Spec => []OneCanonical
<1>1. TypeOK => OneCanonical
  <2>1. ASSUME TypeOK, idx < NumClasses PROVE OneCanonical
    <3>1. NumClasses \in Nat
      BY PowerIs, Sizes DEF NumClasses
    <3>2. idx \in Nat
      BY <2>1, <3>1 DEF TypeOK
    <3>3. CASE version = "paper"
      <4>1. Width = 3 /\ Height = 3
        BY <2>1, <3>3 DEF TypeOK, Versions
      <4>2. PaperFromId(idx) \in EncodedBoards
        BY <3>2, FromIdType
      <4> QED
        BY <3>3, <4>1, <4>2, LeastNumberIsCanonical DEF OneCanonical
    <3>4. CASE version # "paper"
      <4>1. BoardFromId(idx) \in EncodedBoards
        BY <3>2, FromIdType
      <4> QED
        BY <3>4, <4>1, LeastIsCanonical DEF OneCanonical
    <3> QED
      BY <3>3, <3>4
  <2> QED
    BY <2>1 DEF OneCanonical
<1> QED
  BY <1>1, TypeCorrect, PTL
=============================================================================
