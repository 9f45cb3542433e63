---------------------------- MODULE ScoringProofs ----------------------------
(***************************************************************************)
(* Lemmas about Scoring for the proofs of the searches: what one more      *)
(* letter adds to the length of a word, and one more word to the score of  *)
(* the words that are marked; the paths of a board without their           *)
(* recursion; and Counted, which says of a set of paths that a number, or  *)
(* the score of a set of words, is no less than what its words score.      *)
(***************************************************************************)
EXTENDS Scoring, DataTheorems

\* A letter makes a word one longer, a q two (the code adds this up along the
\* path, len + (c == kQ ? 2 : 1)).
LEMMA WordLenAppend ==
    ASSUME NEW S, NEW t \in Seq(S), NEW c \in S
    PROVE  WordLen(t) \in Nat /\ WordLen(Append(t, c)) = WordLen(t) + LetterLen(c)
<1> DEFINE a == Append(t, c)
           n == Len(t)
           At == {i \in DOMAIN t : t[i] = Q}
           AtA == {i \in DOMAIN a : a[i] = Q}
<1>1. /\ n \in Nat /\ DOMAIN t = 1..n /\ Len(a) = n + 1 /\ DOMAIN a = 1..(n + 1)
      /\ \A i \in 1..n : a[i] = t[i]
      /\ a[n + 1] = c
  BY AppendProperties, LenProperties
<1>2. WordLen(t) = n + Cardinality(At) /\ WordLen(a) = Len(a) + Cardinality(AtA)
  BY DEF WordLen
<1> HIDE DEF a, n
<1>3. /\ IsFiniteSet(At) /\ Cardinality(At) \in Nat
  <2>1. IsFiniteSet(1..n)
    BY <1>1, FS_Interval
  <2>2. At \subseteq 1..n
    BY <1>1
  <2> QED
    BY <2>1, <2>2, FS_Subset, FS_CardinalityType
<1>4. \A i \in 1..(n + 1) : i \in 1..n \/ i = n + 1
  BY <1>1
<1>5. \A i \in 1..n : i \in 1..(n + 1)
  BY <1>1
<1>6. n + 1 \in 1..(n + 1) /\ n + 1 \notin 1..n
  BY <1>1
<1>7. CASE c = Q
  <2>1. AtA = At \cup {n + 1}
    BY <1>1, <1>4, <1>5, <1>6, <1>7
  <2>2. n + 1 \notin At
    BY <1>1, <1>6
  <2>3. Cardinality(AtA) = Cardinality(At) + 1
    BY <1>3, <2>1, <2>2, FS_AddElement
  <2> HIDE DEF At, AtA
  <2>4. n + 1 + Cardinality(AtA) = n + Cardinality(At) + 2
    BY <1>1, <1>3, <2>3
  <2> QED
    BY <1>1, <1>2, <1>3, <1>7, <2>4 DEF LetterLen, a
<1>8. CASE c # Q
  <2>1. AtA = At
    BY <1>1, <1>4, <1>5, <1>6, <1>8
  <2> HIDE DEF At, AtA
  <2>2. n + 1 + Cardinality(AtA) = n + Cardinality(At) + 1
    BY <1>1, <1>3, <2>1
  <2> QED
    BY <1>1, <1>2, <1>3, <1>8, <2>2 DEF LetterLen, a
<1> QED
  BY <1>7, <1>8

\* The score of a word is a number of points.
LEMMA WordScoreType == \A w \in Words : WordScore(w) \in Nat
<1>1. \A i \in DOMAIN kWordScores : kWordScores[i] \in Nat
  BY DEF kWordScores
<1> QED
  BY <1>1, WordsAssumption DEF WordScore

\* The score of a set of words, as a sum that does not depend on an order.
LEMMA WordSum ==
    ASSUME NEW W, W \subseteq Words
    PROVE  MapThenSumSet(WordScore, W) = SumOf([w \in Words |-> WordScore(w)], W)
<1> DEFINE g == [w \in Words |-> WordScore(w)]
           Eq(f) == f = [s \in SUBSET W |->
                            IF s = {} THEN 0
                            ELSE LET x == CHOOSE x \in s : TRUE
                                 IN  WordScore(x) + f[s \ {x}]]
           F == CHOOSE f : Eq(f)
<1>1. IsFiniteSet(W)
  BY WordsAssumption, FS_Subset
<1>2. ASSUME NEW f, NEW s \in SUBSET W
      PROVE  SumStep(f, g, s) = IF s = {} THEN 0
                                ELSE LET x == CHOOSE x \in s : TRUE
                                     IN  WordScore(x) + f[s \ {x}]
  <2>1. CASE s = {}
    BY <2>1 DEF SumStep
  <2>2. CASE s # {}
    <3> DEFINE x == CHOOSE x \in s : TRUE
    <3>1. x \in Words
      BY <2>2
    <3>2. g[x] = WordScore(x)
      BY <3>1
    <3> HIDE DEF g
    <3> QED
      BY <2>2, <3>2 DEF SumStep
  <2> QED
    BY <2>1, <2>2
<1> HIDE DEF g
<1>3. \A f : IsSum(f, g, W) <=> Eq(f)
  BY <1>2 DEF IsSum
<1>4. MapThenSumSet(WordScore, W) = F[W]
  BY DEF MapThenSumSet, MapThenFoldSet
<1> HIDE DEF Eq
<1>5. \E f : Eq(f)
  <2>1. \E f : IsSum(f, g, W)
    BY <1>1, SumExists
  <2> QED
    BY <1>3, <2>1
<1>6. Eq(F)
  BY <1>5
<1> HIDE DEF F
<1>7. IsSum(F, g, W)
  BY <1>3, <1>6
<1> QED
  BY <1>1, <1>4, <1>7, SumOfSubset DEF g

\* No words, no score; and a new word adds its own.
LEMMA WordSumAdd ==
    /\ MapThenSumSet(WordScore, {}) = 0
    /\ \A W \in SUBSET Words : MapThenSumSet(WordScore, W) \in Nat
    /\ \A W \in SUBSET Words, w \in Words : w \notin W =>
          MapThenSumSet(WordScore, W \cup {w}) =
              MapThenSumSet(WordScore, W) + WordScore(w)
<1> DEFINE g == [w \in Words |-> WordScore(w)]
<1>1. \A w \in Words : g[w] = WordScore(w) /\ g[w] \in Nat
  BY WordScoreType
<1>2. \A W \in SUBSET Words : IsFiniteSet(W)
                              /\ MapThenSumSet(WordScore, W) = SumOf(g, W)
  BY WordsAssumption, FS_Subset, WordSum
<1> HIDE DEF g
<1>3. MapThenSumSet(WordScore, {}) = 0
  BY <1>2, SumEmpty
<1>4. ASSUME NEW W \in SUBSET Words
      PROVE  MapThenSumSet(WordScore, W) \in Nat
  BY <1>1, <1>2, SumNat
<1>5. ASSUME NEW W \in SUBSET Words, NEW w \in Words, w \notin W
      PROVE  MapThenSumSet(WordScore, W \cup {w}) =
                 MapThenSumSet(WordScore, W) + WordScore(w)
  <2>1. W \cup {w} \in SUBSET Words /\ \A x \in W \cup {w} : g[x] \in Nat
    BY <1>1
  <2>2. SumOf(g, W \cup {w}) = g[w] + SumOf(g, W)
    BY <1>2, <1>5, <2>1, SumAdd
  <2>3. g[w] \in Nat /\ SumOf(g, W) \in Nat /\ g[w] = WordScore(w)
    BY <1>1, <1>2, <1>4
  <2>4. \A x, y \in Nat : x + y = y + x
    OBVIOUS
  <2> QED
    BY <1>2, <2>1, <2>2, <2>3, <2>4
<1> QED
  BY <1>3, <1>4, <1>5

-----------------------------------------------------------------------------
(* Paths.  The definition of Paths is recursive; a set that is not solves it, *)
(* and nothing else does, so that the two are the same.                       *)

AllCells == 1..(Width * Height)

\* No cell is used twice, and each touches the one before it.
IsPath(p) ==
    /\ \A i, j \in 1..Len(p) : p[i] = p[j] => i = j
    /\ \A i \in 1..(Len(p) - 1) : Adjacent(p[i], p[i + 1])

\* A function on 1..n is a sequence of n elements, and the other way round.
LEMMA SeqOfLen ==
    ASSUME NEW S, NEW n \in Nat
    PROVE  \A s : s \in [1..n -> S] <=> s \in Seq(S) /\ Len(s) = n
<1>1. ASSUME NEW s \in [1..n -> S] PROVE s \in Seq(S) /\ Len(s) = n
  <2>1. s \in Seq(S)
    BY FunctionIsSeq
  <2>2. Len(s) \in Nat /\ DOMAIN s = 1..Len(s) /\ DOMAIN s = 1..n
    BY <2>1, LenProperties
  <2> QED
    BY <2>1, <2>2, SameInterval
<1>2. ASSUME NEW s \in Seq(S), Len(s) = n PROVE s \in [1..n -> S]
  BY <1>2, LenProperties
<1> QED
  BY <1>1, <1>2

\* One cell more.
LEMMA ExtendPath ==
    ASSUME NEW n \in Nat, NEW p \in Seq(AllCells), Len(p) = n, IsPath(p),
           NEW k \in AllCells, \A i \in 1..n : p[i] # k,
           n > 0 => Adjacent(p[n], k)
    PROVE  /\ Append(p, k) \in Seq(AllCells) /\ Len(Append(p, k)) = n + 1
           /\ IsPath(Append(p, k))
<1> DEFINE a == Append(p, k)
<1>1. /\ a \in Seq(AllCells) /\ Len(a) = n + 1
      /\ \A i \in 1..(n + 1) : \/ i \in 1..n /\ i # n + 1 /\ a[i] = p[i]
                               \/ i = n + 1 /\ i \notin 1..n /\ a[i] = k
  BY AppendCases
<1> HIDE DEF a
<1>2. \A i, j \in 1..(n + 1) : a[i] = a[j] => i = j
  BY <1>1 DEF IsPath
<1>3. ASSUME NEW i \in 1..(n + 1 - 1) PROVE Adjacent(a[i], a[i + 1])
  <2>1. n + 1 - 1 = n /\ i \in 1..n /\ i \in 1..(n + 1) /\ i + 1 \in 1..(n + 1)
    OBVIOUS
  <2>2. a[i] = p[i]
    BY <1>1, <2>1
  <2>3. CASE i = n
    BY <1>1, <2>1, <2>2, <2>3
  <2>4. CASE i # n
    <3>1. i \in 1..(n - 1) /\ i + 1 \in 1..n
      BY <2>1, <2>4
    <3>2. Adjacent(p[i], p[i + 1])
      BY <3>1 DEF IsPath
    <3>3. a[i + 1] = p[i + 1]
      BY <1>1, <2>1, <3>1
    <3> QED
      BY <2>2, <3>2, <3>3
  <2> QED
    BY <2>3, <2>4
<1> QED
  BY <1>1, <1>2, <1>3 DEF IsPath, a

\* ... and one less: what a path of n + 1 cells starts with.
LEMMA ShortenPath ==
    ASSUME NEW n \in Nat, NEW p \in Seq(AllCells), Len(p) = n + 1, IsPath(p)
    PROVE  \E q \in Seq(AllCells) :
              /\ Len(q) = n /\ IsPath(q) /\ p = Append(q, p[n + 1])
              /\ p[n + 1] \in AllCells
              /\ \A i \in 1..n : q[i] # p[n + 1]
              /\ n > 0 => Adjacent(q[n], p[n + 1])
<1> DEFINE q == SubSeq(p, 1, Len(p) - 1)
           a == Append(q, p[n + 1])
<1>1. p # <<>> /\ n + 1 - 1 = n
  BY EmptySeq
<1>2. /\ q \in Seq(AllCells) /\ Len(q) = n /\ p[n + 1] \in AllCells
      /\ \A i \in 1..n : i \in 1..(n + 1) /\ q[i] = p[i]
  BY <1>1, AllButLast
<1> HIDE DEF q
<1>3. /\ a \in Seq(AllCells) /\ Len(a) = n + 1
      /\ \A i \in 1..(n + 1) : \/ i \in 1..n /\ a[i] = q[i]
                               \/ i = n + 1 /\ a[i] = p[n + 1]
  BY <1>2, AppendCases
<1> HIDE DEF a
<1>4. \A i \in 1..(n + 1) : a[i] = p[i]
  BY <1>2, <1>3
<1>5. a \in [1..(n + 1) -> AllCells] /\ p \in [1..(n + 1) -> AllCells]
  BY <1>3, SeqOfLen
<1>6. a = p
  BY <1>4, <1>5
<1>7. IsPath(q)
  <2>1. \A i, j \in 1..n : q[i] = q[j] => i = j
    BY <1>2 DEF IsPath
  <2>2. ASSUME NEW i \in 1..(n - 1) PROVE Adjacent(q[i], q[i + 1])
    <3>1. i \in 1..n /\ i + 1 \in 1..n /\ i \in 1..(n + 1 - 1)
      OBVIOUS
    <3>2. Adjacent(p[i], p[i + 1])
      BY <3>1 DEF IsPath
    <3> QED
      BY <1>2, <3>1, <3>2
  <2> QED
    BY <1>2, <2>1, <2>2 DEF IsPath
<1>8. \A i \in 1..n : q[i] # p[n + 1]
  <2>1. n + 1 \in 1..(n + 1) /\ \A i \in 1..n : i # n + 1
    OBVIOUS
  <2> QED
    BY <1>2, <2>1 DEF IsPath
<1>9. n > 0 => Adjacent(q[n], p[n + 1])
  <2>1. n > 0 => n \in 1..n /\ n \in 1..(n + 1 - 1)
    OBVIOUS
  <2> QED
    BY <1>2, <2>1 DEF IsPath
<1> QED
  BY <1>2, <1>6, <1>7, <1>8, <1>9 DEF a

\* All paths of n cells.
PathsOf(n) == {p \in Seq(AllCells) : Len(p) = n /\ IsPath(p)}

\* Extend is one step from these to the next longer ones.
LEMMA ExtendAll ==
    ASSUME NEW n \in Nat
    PROVE  PathsOf(n + 1) = UNION {Extend(p) : p \in PathsOf(n)}
<1>1. ASSUME NEW p \in PathsOf(n)
      PROVE  Extend(p) = {Append(p, k) : k \in {k \in AllCells :
                              /\ \A i \in 1..n : p[i] # k
                              /\ n > 0 => Adjacent(p[n], k)}}
  <2>1. DOMAIN p = 1..n /\ Last(p) = p[n] /\ (p # <<>> <=> n > 0)
    <3>1. p \in Seq(AllCells) /\ Len(p) = n
      BY DEF PathsOf
    <3>2. p # <<>> <=> n > 0
      BY <3>1, EmptySeq
    <3> QED
      BY <3>1, <3>2, LenProperties DEF Last
  <2> QED
    BY <2>1 DEF Extend, AllCells
<1>2. ASSUME NEW p \in PathsOf(n), NEW x \in Extend(p) PROVE x \in PathsOf(n + 1)
  <2>1. PICK k \in AllCells : /\ x = Append(p, k)
                              /\ \A i \in 1..n : p[i] # k
                              /\ n > 0 => Adjacent(p[n], k)
    BY <1>1, <1>2
  <2> QED
    BY <2>1, ExtendPath DEF PathsOf
<1>3. ASSUME NEW x \in PathsOf(n + 1) PROVE \E p \in PathsOf(n) : x \in Extend(p)
  <2>1. PICK q \in Seq(AllCells) :
              /\ Len(q) = n /\ IsPath(q) /\ x = Append(q, x[n + 1])
              /\ x[n + 1] \in AllCells
              /\ \A i \in 1..n : q[i] # x[n + 1]
              /\ n > 0 => Adjacent(q[n], x[n + 1])
    BY ShortenPath DEF PathsOf
  <2>2. q \in PathsOf(n)
    BY <2>1 DEF PathsOf
  <2>3. Append(q, x[n + 1]) \in Extend(q)
    BY <1>1, <2>1, <2>2
  <2> QED
    BY <2>1, <2>2, <2>3
<1> QED
  BY <1>2, <1>3

\* The recursive definition has these and no others.
LEMMA PathsAre == \A n \in Nat : Paths[n] = PathsOf(n)
<1> DEFINE Step(f, n) == IF n = 0 THEN {<<>>} ELSE UNION {Extend(p) : p \in f[n - 1]}
           Eq(f) == f = [n \in Nat |-> Step(f, n)]
           g == [n \in Nat |-> PathsOf(n)]
<1>1. PathsOf(0) = {<<>>}
  <2>1. <<>> \in Seq(AllCells) /\ Len(<<>>) = 0 /\ 1..0 = {} /\ 1..(0 - 1) = {}
    BY EmptySeq
  <2>2. IsPath(<<>>)
    BY <2>1 DEF IsPath
  <2>3. \A p \in Seq(AllCells) : Len(p) = 0 => p = <<>>
    BY EmptySeq
  <2> QED
    BY <2>1, <2>2, <2>3 DEF PathsOf
<1>2. ASSUME NEW n \in Nat PROVE g[n] = Step(g, n)
  <2>1. CASE n = 0
    BY <1>1, <2>1
  <2>2. CASE n # 0
    <3>1. n - 1 \in Nat /\ n = (n - 1) + 1
      BY <2>2
    <3>2. PathsOf((n - 1) + 1) = UNION {Extend(p) : p \in PathsOf(n - 1)}
      BY <3>1, ExtendAll
    <3>3. g[n] = PathsOf(n) /\ g[n - 1] = PathsOf(n - 1)
      BY <3>1
    <3> HIDE DEF g
    <3> QED
      BY <2>2, <3>1, <3>2, <3>3
  <2> QED
    BY <2>1, <2>2
<1>3. Eq(g)
  <2>1. \A n \in Nat : g[n] = Step(g, n)
    BY <1>2
  <2> DEFINE h == [n \in Nat |-> Step(g, n)]
  <2>2. \A n \in Nat : h[n] = Step(g, n)
    OBVIOUS
  <2>3. DOMAIN h = Nat /\ h = [n \in Nat |-> h[n]] /\ g = [n \in Nat |-> g[n]]
    OBVIOUS
  <2> HIDE DEF Step, h, g
  <2>4. g = h
    BY <2>1, <2>2, <2>3
  <2> QED
    BY <2>4 DEF h
<1>4. Paths = CHOOSE f : Eq(f)
  BY DEF Paths
<1>5. Eq(Paths)
  BY <1>3, <1>4
<1>6. \A n \in Nat : Paths[n] = Step(Paths, n)
  BY <1>5
<1> DEFINE T == {n \in Nat : Paths[n] = PathsOf(n)}
<1>7. 0 \in T
  BY <1>1, <1>6
<1>8. ASSUME NEW n \in Nat, n \in T PROVE n + 1 \in T
  <2>1. n + 1 \in Nat /\ n + 1 # 0 /\ n + 1 - 1 = n
    OBVIOUS
  <2>2. Paths[n + 1] = UNION {Extend(p) : p \in Paths[n]}
    <3> DEFINE m == n + 1
    <3>1. m \in Nat /\ m # 0 /\ m - 1 = n
      BY <2>1
    <3> HIDE DEF m
    <3>2. Paths[m] = Step(Paths, m)
      BY ONLY <1>6, <3>1
    <3>3. Paths[m] = UNION {Extend(p) : p \in Paths[m - 1]}
      BY <3>1, <3>2
    <3> QED
      BY <3>1, <3>3 DEF m
  <2>3. Paths[n + 1] = PathsOf(n + 1)
    BY <1>8, <2>2, ExtendAll
  <2> QED
    BY <2>1, <2>3
<1>9. ASSUME NEW n \in Nat PROVE n \in T
  <2> HIDE DEF T
  <2>1. \A m \in 0..n : m \in T /\ m < n => m + 1 \in T
    BY <1>8
  <2>2. 0..n \subseteq T
    BY <1>7, <2>1, UpTo
  <2>3. n \in 0..n
    OBVIOUS
  <2> QED
    BY <2>2, <2>3
<1> QED
  BY <1>9

\* What it takes for a word to be found: a path with its letters.
LEMMA FoundIs ==
    ASSUME NEW b, NEW w \in Words
    PROVE  /\ Len(w) \in Nat \ {0} /\ DOMAIN w = 1..Len(w)
           /\ Found(b, w) <=>
                 \E p \in Seq(AllCells) :
                    /\ Len(p) = Len(w) /\ IsPath(p)
                    /\ \A i \in 1..Len(w) : b[p[i]] = w[i]
<1>1. w \in Seq(ToSet(w)) /\ WordLen(w) \in DOMAIN kWordScores
  BY WordsAssumption
<1>2. Len(w) \in Nat /\ DOMAIN w = 1..Len(w)
  BY <1>1, LenProperties
<1>3. Len(w) # 0
  <2>1. SUFFICES ASSUME w = <<>> PROVE FALSE
    BY <1>1, EmptySeq
  <2>2. {i \in DOMAIN <<>> : <<>>[i] = Q} = {} /\ Len(<<>>) = 0
    OBVIOUS
  <2>3. WordLen(<<>>) = 0
    BY <2>2, FS_EmptySet DEF WordLen
  <2>4. 0 \notin DOMAIN kWordScores
    BY DEF kWordScores
  <2> QED
    BY <1>1, <2>1, <2>3, <2>4
<1>4. WordPaths[Len(w)] = PathsOf(Len(w))
  BY <1>2, PathsAre DEF WordPaths
<1> QED
  BY <1>2, <1>3, <1>4 DEF Found, PathsOf

\* The beginnings of words are nodes of the trie.
LEMMA PrefixIsNode ==
    ASSUME NEW w \in Words, NEW n \in 0..(Len(w) - 1), NEW t,
           t = [i \in 1..n |-> w[i]]
    PROVE  Append(t, w[n + 1]) \in Nodes
<1>1. Len(w) \in Nat \ {0} /\ w \in Seq(ToSet(w))
  BY FoundIs, WordsAssumption
<1>2. n \in Nat /\ n + 1 \in 1..Len(w) /\ \A i \in 1..n : i \in 1..Len(w)
  BY <1>1
<1>3. \A i \in 1..Len(w) : w[i] \in ToSet(w)
  BY <1>1, ElementOfSeq
<1>4. t \in Seq(ToSet(w)) /\ Len(t) = n
  <2>1. t \in [1..n -> ToSet(w)]
    BY <1>2, <1>3
  <2> QED
    BY <1>2, <2>1, SeqOfLen
<1> DEFINE a == Append(t, w[n + 1])
           s == SubSeq(w, 1, n + 1)
<1>5. /\ a \in Seq(ToSet(w)) /\ Len(a) = n + 1
      /\ \A i \in 1..(n + 1) : \/ i \in 1..n /\ a[i] = t[i]
                               \/ i = n + 1 /\ a[i] = w[n + 1]
  BY <1>2, <1>3, <1>4, AppendCases
<1>6. /\ s \in Seq(ToSet(w)) /\ Len(s) = n + 1
      /\ \A i \in 1..(n + 1) : s[i] = w[i]
  <2>1. \A i \in 1..(n + 1) : i \in 1..Len(w) /\ 1 + i - 1 = i
    BY <1>1, <1>2
  <2>2. n + 1 \in Int /\ 1 \in Int /\ 1 <= n + 1 /\ n + 1 - 1 + 1 = n + 1
    BY <1>2
  <2>3. \A i \in 1..(n + 1) : w[i] \in ToSet(w)
    BY <1>3, <2>1
  <2>4. /\ SubSeq(w, 1, n + 1) \in Seq(ToSet(w))
        /\ Len(SubSeq(w, 1, n + 1)) = IF 1 <= n + 1 THEN n + 1 - 1 + 1 ELSE 0
        /\ \A i \in 1..(n + 1 - 1 + 1) : SubSeq(w, 1, n + 1)[i] = w[1 + i - 1]
    BY <1>1, <2>2, <2>3, SubSeqProperties
  <2> QED
    BY <2>1, <2>2, <2>4
<1> HIDE DEF a, s
<1>7. a = s
  <2>1. \A i \in 1..(n + 1) : a[i] = s[i]
    BY <1>2, <1>5, <1>6
  <2>2. a \in [1..(n + 1) -> ToSet(w)] /\ s \in [1..(n + 1) -> ToSet(w)]
    BY <1>2, <1>5, <1>6, SeqOfLen
  <2> QED
    BY <2>1, <2>2
<1>8. s \in Nodes
  BY <1>2 DEF Nodes, s
<1> QED
  BY <1>7, <1>8 DEF a

-----------------------------------------------------------------------------
(* The paths that spell a word on a board, and what they score.            *)

\* The letters along the cells of p, and the paths that spell a word.
Spell(b, p) == [i \in 1..Len(p) |-> b[p[i]]]
WPaths(b) == {p \in Seq(AllCells) : IsPath(p) /\ Spell(b, p) \in Words}

\* A path that spells a word is as long as the word.
LEMMA SpellIs ==
    ASSUME NEW b, NEW p \in WPaths(b)
    PROVE  /\ p \in Seq(AllCells) /\ IsPath(p) /\ Spell(b, p) \in Words
           /\ Len(p) \in Nat \ {0} /\ Len(Spell(b, p)) = Len(p)
           /\ \A i \in 1..Len(p) : p[i] \in AllCells /\ Spell(b, p)[i] = b[p[i]]
<1>1. p \in Seq(AllCells) /\ IsPath(p) /\ Spell(b, p) \in Words
  BY DEF WPaths
<1>2. Len(p) \in Nat /\ DOMAIN Spell(b, p) = 1..Len(p)
  BY <1>1, LenProperties DEF Spell
<1>3. /\ Len(Spell(b, p)) \in Nat \ {0}
      /\ DOMAIN Spell(b, p) = 1..Len(Spell(b, p))
  BY <1>1, FoundIs
<1>4. Len(Spell(b, p)) = Len(p)
  BY <1>2, <1>3, SameInterval
<1>5. \A i \in 1..Len(p) : p[i] \in AllCells /\ Spell(b, p)[i] = b[p[i]]
  BY <1>1, ElementOfSeq DEF Spell
<1> QED
  BY <1>1, <1>3, <1>4, <1>5

\* A word that is found is spelled by a path.
LEMMA SpellsFound ==
    ASSUME NEW b, NEW w \in Words, Found(b, w)
    PROVE  \E p \in WPaths(b) : Spell(b, p) = w
<1>1. PICK p \in Seq(AllCells) : /\ Len(p) = Len(w) /\ IsPath(p)
                                 /\ \A i \in 1..Len(w) : b[p[i]] = w[i]
  BY FoundIs
<1>2. w \in [1..Len(w) -> ToSet(w)]
  BY WordsAssumption, LenProperties
<1>3. Spell(b, p) = w
  BY <1>1, <1>2 DEF Spell
<1> QED
  BY <1>1, <1>3 DEF WPaths

\* There are finitely many paths of a length.
LEMMA PathsOfFinite == \A n \in Nat : IsFiniteSet(PathsOf(n))
<1> DEFINE K == {n \in Nat : IsFiniteSet(PathsOf(n))}
<1>1. 0 \in K
  <2>1. PathsOf(0) \subseteq {<<>>}
    BY EmptySeq DEF PathsOf
  <2> QED
    BY <2>1, FS_Singleton, FS_Subset
<1>2. ASSUME NEW n \in Nat, n \in K PROVE n + 1 \in K
  <2>1. IsFiniteSet(AllCells)
    <3>1. \A x, y \in Nat : x * y \in Int
      OBVIOUS
    <3> QED
      BY <3>1, GridAssumption, FS_Interval DEF AllCells
  <2>2. ASSUME NEW p PROVE IsFiniteSet(Extend(p))
    <3> DEFINE C == {k \in AllCells : /\ \A i \in DOMAIN p : p[i] # k
                                      /\ p # <<>> => Adjacent(Last(p), k)}
               f == [k \in C |-> Append(p, k)]
    <3>1. IsFiniteSet(C)
      BY <2>1, FS_Subset
    <3>2. Extend(p) = {f[k] : k \in C}
      BY DEF Extend, AllCells
    <3> HIDE DEF C, f
    <3> QED
      BY <3>1, <3>2, FiniteImage
  <2> DEFINE e == [p \in PathsOf(n) |-> Extend(p)]
  <2>3. PathsOf(n + 1) = UNION {e[p] : p \in PathsOf(n)}
    BY ExtendAll
  <2>4. \A p \in PathsOf(n) : IsFiniteSet(e[p])
    BY <2>2
  <2> HIDE DEF e
  <2>5. IsFiniteSet(UNION {e[p] : p \in PathsOf(n)})
    BY <1>2, <2>4, FiniteUnion
  <2> QED
    BY <2>3, <2>5
<1>3. ASSUME NEW n \in Nat PROVE n \in K
  <2> HIDE DEF K
  <2>1. 0..n \subseteq K
    BY <1>1, <1>2, UpTo
  <2>2. n \in 0..n
    OBVIOUS
  <2> QED
    BY <2>1, <2>2
<1> QED
  BY <1>3

\* So there are finitely many that spell words.
LEMMA WPathsFinite ==
    ASSUME NEW b
    PROVE  /\ IsFiniteSet(WPaths(b))
           /\ \A p \in WPaths(b) : WordScore(Spell(b, p)) \in Nat
<1> DEFINE f == [w \in Words |-> PathsOf(Len(w))]
           U == UNION {f[w] : w \in Words}
<1>1. \A w \in Words : IsFiniteSet(f[w])
  <2>1. \A w \in Words : Len(w) \in Nat
    BY FoundIs
  <2> QED
    BY <2>1, PathsOfFinite
<1>2. WPaths(b) \subseteq U
  <2>1. ASSUME NEW p \in WPaths(b) PROVE p \in U
    <3>1. /\ Spell(b, p) \in Words /\ p \in Seq(AllCells) /\ IsPath(p)
          /\ Len(Spell(b, p)) = Len(p)
      BY SpellIs
    <3>2. p \in f[Spell(b, p)]
      BY <3>1 DEF PathsOf
    <3> HIDE DEF f
    <3> QED
      BY <3>1, <3>2
  <2> QED
    BY <2>1
<1> HIDE DEF f
<1>3. IsFiniteSet(U)
  BY <1>1, WordsAssumption, FiniteUnion
<1> HIDE DEF U
<1>4. IsFiniteSet(WPaths(b))
  BY <1>2, <1>3, FS_Subset
<1> QED
  BY <1>4, SpellIs, WordScoreType

\* What the paths in A score, a word as often as it is spelled.
PathScores(b) == [p \in WPaths(b) |-> WordScore(Spell(b, p))]
PathSum(b, A) == SumOf(PathScores(b), A)

\* A search that reports v and has marked M counts the paths in A.
Counted(b, A, v, M) ==
    /\ PathSum(b, A) <= v
    /\ \A p \in A : Spell(b, p) \in M

\* Sums of paths are naturals.
LEMMA PathSumIs ==
    ASSUME NEW b
    PROVE  /\ \A p \in WPaths(b) : PathScores(b)[p] \in Nat
           /\ \A A \in SUBSET WPaths(b) : IsFiniteSet(A) /\ PathSum(b, A) \in Nat
<1>1. \A p \in WPaths(b) : PathScores(b)[p] \in Nat
  BY WPathsFinite DEF PathScores
<1>2. ASSUME NEW A \in SUBSET WPaths(b)
      PROVE  IsFiniteSet(A) /\ PathSum(b, A) \in Nat
  <2>1. IsFiniteSet(A)
    BY WPathsFinite, FS_Subset
  <2>2. \A p \in A : PathScores(b)[p] \in Nat
    BY <1>1
  <2>3. SumOf(PathScores(b), A) \in Nat
    BY <2>1, <2>2, SumNat
  <2> QED
    BY <2>1, <2>3 DEF PathSum
<1> QED
  BY <1>1, <1>2

\* No paths are counted whatever is reported.
LEMMA CountedNone == \A b, M : \A v \in Nat : Counted(b, {}, v, M)
<1>1. \A b : PathSum(b, {}) = 0
  BY SumEmpty DEF PathSum
<1> QED
  BY <1>1 DEF Counted

\* Fewer paths, more points and more marks.
LEMMA CountedLess ==
    ASSUME NEW b, NEW B \in SUBSET WPaths(b), NEW v \in Nat, NEW M, Counted(b, B, v, M),
           NEW A, A \subseteq B, NEW w \in Nat, v <= w, NEW N, M \subseteq N
    PROVE  Counted(b, A, w, N)
<1>1. /\ IsFiniteSet(B) /\ \A p \in B : PathScores(b)[p] \in Nat
      /\ PathSum(b, A) \in Nat /\ PathSum(b, B) \in Nat
  BY PathSumIs
<1>2. PathSum(b, A) <= PathSum(b, B)
  BY <1>1, SumMore DEF PathSum
<1>3. PathSum(b, A) <= w
  BY <1>1, <1>2 DEF Counted
<1> QED
  BY <1>3 DEF Counted

\* Paths that are counted apart are counted together.
LEMMA CountedBoth ==
    ASSUME NEW b, NEW A \in SUBSET WPaths(b), NEW B \in SUBSET WPaths(b),
           NEW v \in Nat, NEW w \in Nat, NEW M, Counted(b, A, v, M), Counted(b, B, w, M)
    PROVE  Counted(b, A \cup B, v + w, M)
<1>1. /\ IsFiniteSet(A) /\ IsFiniteSet(B)
      /\ \A p \in A \cup B : PathScores(b)[p] \in Nat
      /\ PathSum(b, A) \in Nat /\ PathSum(b, B) \in Nat /\ PathSum(b, A \cup B) \in Nat
  BY PathSumIs
<1>2. PathSum(b, A \cup B) <= PathSum(b, A) + PathSum(b, B)
  BY <1>1, SumBoth DEF PathSum
<1>3. PathSum(b, A \cup B) <= v + w
  BY <1>1, <1>2 DEF Counted
<1> QED
  BY <1>3 DEF Counted

\* A single path is counted by the points of its word.
LEMMA CountedOne ==
    ASSUME NEW b, NEW p \in WPaths(b), NEW M, Spell(b, p) \in M
    PROVE  Counted(b, {p}, WordScore(Spell(b, p)), M)
<1> DEFINE g == PathScores(b)
<1>1. g[p] = WordScore(Spell(b, p)) /\ g[p] \in Nat
  BY PathSumIs DEF PathScores
<1>2. IsFiniteSet({}) /\ SumOf(g, {}) = 0 /\ {} \cup {p} = {p}
  BY FS_EmptySet, SumEmpty
<1> HIDE DEF g
<1>3. SumOf(g, {} \cup {p}) = g[p] + SumOf(g, {})
  BY <1>1, <1>2, SumAdd
<1>4. PathSum(b, {p}) = g[p]
  BY <1>1, <1>2, <1>3 DEF PathSum, g
<1> QED
  BY <1>1, <1>4 DEF Counted

\* More words, no smaller a score.
LEMMA ScoreMore ==
    ASSUME NEW V \in SUBSET Words, NEW W, W \subseteq V
    PROVE  MapThenSumSet(WordScore, W) <= MapThenSumSet(WordScore, V)
<1> DEFINE g == [w \in Words |-> WordScore(w)]
<1>1. \A w \in V : g[w] \in Nat
  BY WordScoreType
<1>2. IsFiniteSet(V)
  BY WordsAssumption, FS_Subset
<1>3. MapThenSumSet(WordScore, W) = SumOf(g, W) /\ MapThenSumSet(WordScore, V) = SumOf(g, V)
  BY WordSum
<1> HIDE DEF g
<1> QED
  BY <1>1, <1>2, <1>3, SumMore

\* If all paths that spell a word on a board are counted, what is reported is no
\* less than its score, and neither are the marks.
LEMMA CountedAll ==
    ASSUME NEW b, NEW v \in Nat, NEW M \in SUBSET Words, Counted(b, WPaths(b), v, M)
    PROVE  /\ DictionaryScore(b) <= v
           /\ DictionaryScore(b) <= MapThenSumSet(WordScore, M)
<1> DEFINE W == {w \in Words : Found(b, w)}
           g == [w \in Words |-> WordScore(w)]
           F == [p \in WPaths(b) |-> Spell(b, p)]
<1>1. DictionaryScore(b) = MapThenSumSet(WordScore, W)
  BY DEF DictionaryScore
<1>2. W \subseteq M
  <2>1. ASSUME NEW w \in Words, Found(b, w) PROVE w \in M
    BY <2>1, SpellsFound DEF Counted
  <2> QED
    BY <2>1
<1>3. MapThenSumSet(WordScore, W) = SumOf(g, W)
  BY WordSum
<1>4. IsFiniteSet(W) /\ \A w \in W : g[w] \in Nat
  BY WordsAssumption, FS_Subset, WordScoreType
<1>5. \A w \in W : \E p \in WPaths(b) : F[p] = w /\ PathScores(b)[p] = g[w]
  <2>1. ASSUME NEW w \in W
        PROVE  \E p \in WPaths(b) : F[p] = w /\ PathScores(b)[p] = g[w]
    <3>1. PICK p \in WPaths(b) : Spell(b, p) = w
      BY SpellsFound
    <3>2. F[p] = w /\ PathScores(b)[p] = WordScore(w) /\ g[w] = WordScore(w)
      BY <3>1 DEF PathScores
    <3> HIDE DEF F, g
    <3> QED
      BY <3>2
  <2> QED
    BY <2>1
<1>6. /\ IsFiniteSet(WPaths(b)) /\ \A p \in WPaths(b) : PathScores(b)[p] \in Nat
      /\ PathSum(b, WPaths(b)) \in Nat
  BY PathSumIs
<1> HIDE DEF g, F
<1>7. SumOf(g, W) <= PathSum(b, WPaths(b))
  BY <1>4, <1>5, <1>6, SumCover DEF PathSum
<1>8. SumOf(g, W) \in Nat
  BY <1>4, SumNat
<1>9. SumOf(g, W) <= v
  BY <1>6, <1>7, <1>8 DEF Counted
<1>10. MapThenSumSet(WordScore, W) <= MapThenSumSet(WordScore, M)
  BY <1>2, ScoreMore
<1> HIDE DEF W
<1> QED
  BY <1>1, <1>3, <1>9, <1>10
=============================================================================
