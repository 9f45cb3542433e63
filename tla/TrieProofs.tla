----------------------------- MODULE TrieProofs -----------------------------
(***************************************************************************)
(* Theorems about Dictionary and TrieCompaction: what is read from a file, *)
(* and the memory that CompactTrie fills.                                  *)
(***************************************************************************)
EXTENDS TrieCompaction, DataTheorems

-----------------------------------------------------------------------------
(* Nodes: sequences by their last letter. *)

\* Front takes away what Append added.
LEMMA FrontOfAppend ==
    ASSUME NEW S, NEW s \in Seq(S), NEW x \in S
    PROVE  /\ Append(s, x) \in Seq(S) /\ Append(s, x) # <<>>
           /\ Len(s) \in Nat /\ Len(Append(s, x)) = Len(s) + 1
           /\ Front(Append(s, x)) = s
           /\ Append(s, x)[Len(s) + 1] = x
<1> DEFINE a == Append(s, x)
           l == Len(s)
           f == SubSeq(a, 1, Len(a) - 1)
<1>1. /\ a \in Seq(S) /\ a # <<>> /\ l \in Nat /\ Len(a) = l + 1
      /\ \A i \in 1..l : a[i] = s[i]
      /\ a[l + 1] = x
  BY AppendProperties, LenProperties
<1>2. Front(a) = f
  BY DEF Front
<1>3. /\ f \in Seq(S) /\ Len(f) = Len(a) - 1
      /\ \A n \in 1..(Len(a) - 1) : f[n] = a[n]
  <2> HIDE DEF a
  <2> QED
    BY <1>1, AllButLast
<1> HIDE DEF a, l, f
<1>4. Len(a) - 1 = l
  BY <1>1
<1>5. Len(f) = Len(s) /\ \A i \in 1..Len(f) : f[i] = s[i]
  BY <1>1, <1>3, <1>4 DEF l
<1>6. f = s
  BY <1>3, <1>5, SeqEqual
<1> QED
  BY <1>1, <1>2, <1>6 DEF a, l

\* A node below the root is its parent and one more letter.
LEMMA FrontIs ==
    ASSUME NEW S, NEW s \in Seq(S), s # <<>>
    PROVE  /\ Front(s) \in Seq(S)
           /\ Len(s) \in Nat \ {0} /\ Len(Front(s)) = Len(s) - 1
           /\ s[Len(s)] \in S
           /\ s = Append(Front(s), s[Len(s)])
<1>1. \E t \in Seq(S), c \in S : s = Append(t, c)
  BY SequenceEmptyOrAppend
<1>2. PICK t \in Seq(S), c \in S : s = Append(t, c)
  BY <1>1
<1>3. /\ Len(t) \in Nat /\ Len(s) = Len(t) + 1 /\ Front(s) = t /\ s[Len(t) + 1] = c
  BY <1>2, FrontOfAppend
<1> DEFINE l == Len(s)
           k == Len(t)
<1> HIDE DEF l, k
<1>4. l \in Nat \ {0} /\ k = l - 1
  BY <1>3 DEF l, k
<1> QED
  BY <1>2, <1>3, <1>4 DEF l, k

\* What AddWord passes on the way to w: a finite set with the parent of each.
LEMMA PrefixesAre ==
    ASSUME NEW S, NEW w \in Seq(S)
    PROVE  /\ Prefixes(w) \subseteq Seq(S)
           /\ IsFiniteSet(Prefixes(w))
           /\ w \in Prefixes(w)
           /\ \A t \in Prefixes(w) : t # <<>> => Front(t) \in Prefixes(w)
<1> DEFINE N == Len(w)
           p == [l \in 0..N |-> SubSeq(w, 1, l)]
<1>1. N \in Nat /\ \A i \in 1..N : w[i] \in S
  BY LenProperties, ElementOfSeq
<1>2. Prefixes(w) = {p[l] : l \in 0..N}
  BY DEF Prefixes
<1>3. ASSUME NEW l \in 0..N
      PROVE  p[l] \in Seq(S) /\ Len(p[l]) = l /\ \A i \in 1..l : p[l][i] = w[i]
  <2>1. /\ l \in Int /\ 1 \in Int /\ (IF 1 <= l THEN l - 1 + 1 ELSE 0) = l
        /\ l - 1 + 1 = l /\ \A i \in 1..l : i \in 1..N /\ 1 + i - 1 = i
    BY <1>1
  <2>2. \A i \in 1..l : w[i] \in S
    BY <1>1, <2>1
  <2> DEFINE q == SubSeq(w, 1, l)
  <2>3. /\ q \in Seq(S) /\ Len(q) = IF 1 <= l THEN l - 1 + 1 ELSE 0
        /\ \A i \in 1..(l - 1 + 1) : q[i] = w[1 + i - 1]
    BY <2>1, <2>2, SubSeqProperties
  <2>4. p[l] = q
    OBVIOUS
  <2> HIDE DEF q, p
  <2> QED
    BY <2>1, <2>3, <2>4
<1> HIDE DEF p, N
<1>4. IsFiniteSet(0..N)
  BY <1>1, FS_Interval
<1>5. IsFiniteSet({p[l] : l \in 0..N})
  BY <1>4, FiniteImage
<1>6. N \in 0..N /\ p[N] = w
  <2>1. N \in 0..N
    BY <1>1
  <2>2. p[N] \in Seq(S) /\ Len(p[N]) = Len(w) /\ \A i \in 1..Len(p[N]) : p[N][i] = w[i]
    BY <1>3, <2>1 DEF N
  <2> QED
    BY <2>1, <2>2, SeqEqual
<1>7. ASSUME NEW l \in 0..N, p[l] # <<>> PROVE Front(p[l]) \in {p[k] : k \in 0..N}
  <2> DEFINE t == p[l]
             k == l - 1
             u == p[k]
  <2>1. /\ Front(t) \in Seq(S) /\ Len(t) \in Nat \ {0} /\ Len(Front(t)) = Len(t) - 1
        /\ t = Append(Front(t), t[Len(t)]) /\ t[Len(t)] \in S
    BY <1>3, <1>7, FrontIs
  <2>2. Len(t) = l /\ l # 0
    BY <1>3, <2>1
  <2>3. k \in 0..N /\ \A i \in 1..k : i \in 1..l
    BY <1>1, <2>2
  <2>4. u \in Seq(S) /\ Len(u) = k /\ \A i \in 1..k : u[i] = w[i]
    BY <1>3, <2>3
  <2>5. \A i \in 1..k : t[i] = w[i]
    BY <1>3, <2>3
  <2> DEFINE f == Front(t)
             c == t[Len(t)]
  <2>6. f \in Seq(S) /\ c \in S /\ t = Append(f, c) /\ Len(f) = k
    BY <2>1, <2>2
  <2> HIDE DEF t, k, u, f, c
  <2>7. \A i \in 1..Len(f) : Append(f, c)[i] = f[i]
    BY <2>6, AppendProperties
  <2>8. Len(f) = Len(u) /\ \A i \in 1..Len(f) : f[i] = u[i]
    BY <2>4, <2>5, <2>6, <2>7
  <2>9. f = u
    BY <2>4, <2>6, <2>8, SeqEqual
  <2> QED
    BY <2>3, <2>9 DEF f, t, u
<1> QED
  BY <1>2, <1>3, <1>5, <1>6, <1>7
-----------------------------------------------------------------------------
(* What is read. *)

\* A sequence of two is one and one more.
LEMMA PairIsAppend ==
    ASSUME NEW S, NEW a \in S, NEW b \in S
    PROVE  /\ <<a>> \in Seq(S) /\ <<a, b>> \in Seq(S)
           /\ Append(<<a>>, b) = <<a, b>>
<1>1. <<a>> \in Seq(S) /\ <<a, b>> \in Seq(S)
  OBVIOUS
<1>3. Len(<<a>>) = 1 /\ <<a>>[1] = a /\ Len(<<a, b>>) = 2 /\ <<a, b>>[1] = a /\ <<a, b>>[2] = b
  OBVIOUS
<1> DEFINE s == <<a>>
           t == <<a, b>>
           u == Append(s, b)
<1>4. s \in Seq(S) /\ t \in Seq(S) /\ Len(s) = 1 /\ Len(t) = 2 /\ s[1] = a /\ t[1] = a /\ t[2] = b
  BY <1>1, <1>3
<1> HIDE DEF s, t
<1>5. u \in Seq(S) /\ Len(u) = 2 /\ u[1] = a /\ u[2] = b
  <2>1. /\ u \in Seq(S) /\ Len(u) = Len(s) + 1 /\ \A i \in 1..Len(s) : u[i] = s[i]
        /\ u[Len(s) + 1] = b
    <3>1. s \in Seq(S) /\ b \in S
      BY <1>4
    <3> QED
      BY ONLY <3>1, AppendProperties
  <2>2. 1 + 1 = 2 /\ 1 \in 1..1
    OBVIOUS
  <2> HIDE DEF u
  <2> QED
    BY <1>4, <2>1, <2>2
<1> HIDE DEF u
<1>6. u = t
  <2>1. Len(u) = Len(t) /\ \A i \in 1..Len(u) : i = 1 \/ i = 2
    BY <1>4, <1>5
  <2>2. \A i \in 1..Len(u) : u[i] = t[i]
    BY <1>4, <1>5, <2>1
  <2> QED
    BY <1>4, <1>5, <2>1, <2>2, SeqEqual
<1> QED
  BY <1>1, <1>6 DEF u, s, t

\* Two more letters at the end of a sequence.
LEMMA ConcatPair ==
    ASSUME NEW S, NEW s \in Seq(S), NEW a \in S, NEW b \in S
    PROVE  /\ <<a>> \in Seq(S) /\ <<a, b>> \in Seq(S)
           /\ s \o <<a>> = Append(s, a)
           /\ s \o <<a, b>> = Append(Append(s, a), b)
<1>1. <<a>> \in Seq(S) /\ <<b>> \in Seq(S) /\ <<a, b>> \in Seq(S) /\ Append(<<a>>, b) = <<a, b>>
  BY PairIsAppend
<1> DEFINE x == <<a>>
           y == <<b>>
           z == <<a, b>>
           t == Append(s, a)
<1>2. x \in Seq(S) /\ y \in Seq(S) /\ z \in Seq(S) /\ Append(x, b) = z
  BY <1>1
<1>3. t = s \o x /\ t \in Seq(S)
  BY AppendIsConcat, AppendProperties
<1> HIDE DEF t
<1>4. Append(t, b) = t \o y
  BY <1>3, AppendIsConcat
<1>5. z = x \o y
  <2> HIDE DEF x, z
  <2> QED
    BY <1>2, AppendIsConcat
<1> HIDE DEF x, y, z
<1>6. (s \o x) \o y = s \o (x \o y)
  BY SMTT(20), <1>2, ConcatAssociative
<1>7. s \o x = t /\ s \o z = Append(t, b)
  BY <1>3, <1>4, <1>5, <1>6
<1> QED
  BY <1>1, <1>7 DEF x, z, t

\* A word letter by letter.
LEMMA LetterByLetter ==
    ASSUME NEW S, NEW w \in Seq(S)
    PROVE  /\ SubSeq(w, 1, 0) = <<>>
           /\ SubSeq(w, 1, Len(w)) = w
           /\ \A l \in 1..Len(w) : /\ SubSeq(w, 1, l - 1) \in Seq(S)
                                    /\ SubSeq(w, 1, l) = Append(SubSeq(w, 1, l - 1), w[l])
<1>1. SubSeq(w, 1, 0) = <<>>
  <2>1. 0 \in Int /\ 1 \in Int /\ 0 < 1
    OBVIOUS
  <2> QED
    BY <2>1, SubSeqEmpty
<1>2. SubSeq(w, 1, Len(w)) = w
  BY SubSeqFull
<1>3. ASSUME NEW l \in 1..Len(w)
      PROVE  /\ SubSeq(w, 1, l - 1) \in Seq(S)
             /\ SubSeq(w, 1, l) = Append(SubSeq(w, 1, l - 1), w[l])
  <2>1. Len(w) \in Nat /\ \A i \in 1..Len(w) : w[i] \in S
    BY LenProperties, ElementOfSeq
  <2> DEFINE k == l - 1
  <2>2. 1 \in 1..Len(w) /\ l \in 1..Len(w) /\ k \in Int /\ \A i \in 1..k : i \in 1..Len(w)
    BY <2>1
  <2>3. SubSeq(w, 1, l) = SubSeq(w, 1, l - 1) \o <<w[l]>>
    BY <2>2, SubSeqRecursiveSecond
  <2>4. SubSeq(w, 1, k) \in Seq(S)
    <3>1. 1 \in Int /\ k \in Int /\ \A i \in 1..k : w[i] \in S
      BY <2>1, <2>2
    <3> HIDE DEF k
    <3> QED
      BY ONLY <3>1, SubSeqProperties
  <2> DEFINE p == SubSeq(w, 1, k)
             c == w[l]
  <2>5. p \in Seq(S) /\ c \in S
    BY <2>1, <2>4
  <2> HIDE DEF p, c
  <2>6. p \o <<c>> = Append(p, c)
    BY ONLY <2>5, AppendIsConcat
  <2> QED
    BY <2>3, <2>4, <2>6 DEF p, c, k
<1> QED
  BY <1>1, <1>2, <1>3

\* What a word of q's spells.
Piece(c) == IF c = kQ THEN <<kQ, kU>> ELSE <<c>>
Pieces(s) == [i \in DOMAIN s |-> Piece(s[i])]
SpelledOut(s) == FlattenSeq(Pieces(s))

\* It is in letters ...
LEMMA PiecesType ==
    ASSUME NEW s \in Seq(Letters)
    PROVE  /\ Pieces(s) \in Seq(Seq(Letters)) /\ Len(Pieces(s)) = Len(s)
           /\ \A i \in 1..Len(s) : Pieces(s)[i] = Piece(s[i])
           /\ \A c \in Letters : Piece(c) \in Seq(Letters)
<1>1. /\ Len(s) \in Nat /\ DOMAIN s = 1..Len(s)
      /\ \A i \in 1..Len(s) : s[i] \in Letters
  BY LenProperties, ElementOfSeq
<1>2. ASSUME NEW c \in Letters PROVE Piece(c) \in Seq(Letters)
  <2>1. kQ \in Letters /\ kU \in Letters
    BY LettersAssumption
  <2>2. <<c>> \in Seq(Letters) /\ <<kQ, kU>> \in Seq(Letters)
    BY <2>1, PairIsAppend
  <2> QED
    BY <2>2 DEF Piece
<1> DEFINE p == Pieces(s)
           V == Seq(Letters)
<1>3. p \in [1..Len(s) -> V] /\ \A i \in 1..Len(s) : p[i] = Piece(s[i])
  BY <1>1, <1>2 DEF Pieces
<1> HIDE DEF p, V
<1>4. p \in Seq(V) /\ Len(p) = Len(s)
  <2>1. p \in Seq(V)
    BY <1>1, <1>3, FunctionIsSeq
  <2>2. Len(p) \in Nat /\ DOMAIN p = 1..Len(p) /\ DOMAIN p = 1..Len(s)
    BY <1>3, <2>1, LenProperties
  <2> QED
    BY <1>1, <2>1, <2>2, SameInterval
<1> QED
  BY <1>2, <1>3, <1>4 DEF p, V

\* ... and goes on with the word.
LEMMA SpelledAppend ==
    ASSUME NEW s \in Seq(Letters), NEW c \in Letters
    PROVE  /\ SpelledOut(s) \in Seq(Letters)
           /\ SpelledOut(Append(s, c)) = SpelledOut(s) \o Piece(c)
<1> DEFINE V == Seq(Letters)
           p == Pieces(s)
           t == Append(s, c)
           q == Pieces(t)
           x == Piece(c)
           a == Append(p, x)
<1>1. /\ t \in V /\ Len(s) \in Nat /\ Len(t) = Len(s) + 1
      /\ \A i \in 1..Len(s) : t[i] = s[i]
      /\ t[Len(s) + 1] = c
  BY AppendProperties, LenProperties
<1>2. /\ p \in Seq(V) /\ Len(p) = Len(s) /\ x \in V
      /\ \A i \in 1..Len(s) : p[i] = Piece(s[i])
  BY PiecesType
<1> HIDE DEF t
<1>3. /\ q \in Seq(V) /\ Len(q) = Len(t)
      /\ \A i \in 1..Len(t) : q[i] = Piece(t[i])
  BY <1>1, PiecesType
<1> HIDE DEF V, p, q
<1>4. /\ a \in Seq(V) /\ Len(a) = Len(p) + 1
      /\ \A i \in 1..Len(p) : a[i] = p[i]
      /\ a[Len(p) + 1] = x
  <2> HIDE DEF x
  <2> QED
    BY <1>2, AppendProperties
<1> HIDE DEF a
<1>5. \A i \in 1..(Len(s) + 1) : i \in 1..Len(s) \/ i = Len(s) + 1
  BY <1>1
<1>6. \A i \in 1..Len(q) : q[i] = a[i]
  BY <1>1, <1>2, <1>3, <1>4, <1>5
<1>7. Len(q) = Len(a)
  BY <1>1, <1>2, <1>3, <1>4
<1>8. q = a
  BY <1>3, <1>4, <1>6, <1>7, SeqEqual
<1> HIDE DEF x
<1>9. FlattenSeq(p) \in V /\ FlattenSeq(a) = FlattenSeq(p) \o x
  BY <1>2, FlattenAppend DEF V, a
<1> QED
  BY <1>8, <1>9 DEF SpelledOut, V, p, q, t, x
\* The loop of BogglifyWord: what it has written after so many letters.
LEMMA BogglifyIs ==
    ASSUME NEW S, NEW w \in Seq(S)
    PROVE  /\ BogglifyWord(w) \in Seq(S)
           /\ \E f : /\ f \in [0..Len(w) -> Seq(S)]
                     /\ f[0] = <<>>
                     /\ \A j \in 1..Len(w) :
                           f[j] = IF j > 1 /\ w[j - 1] = kQ THEN f[j - 1]
                                  ELSE Append(f[j - 1], w[j])
                     /\ BogglifyWord(w) = f[Len(w)]
<1> DEFINE V == Seq(S)
           N == Len(w)
           Skips(i) == i > 1 /\ w[i - 1] = kQ
           p == [i \in DOMAIN w |-> IF Skips(i) THEN <<>> ELSE <<w[i]>>]
<1>1. /\ N \in Nat /\ DOMAIN w = 1..N
      /\ \A i \in 1..N : w[i] \in S
  BY LenProperties, ElementOfSeq
<1>2. ASSUME NEW i \in 1..N PROVE <<w[i]>> \in V
  <2>1. w[i] \in S
    BY <1>1
  <2> QED
    BY <2>1, PairIsAppend
<1>3. <<>> \in V
  BY EmptySeq
<1>4. BogglifyWord(w) = FlattenSeq(p)
  BY DEF BogglifyWord
<1> HIDE DEF Skips
<1>5. p \in [1..N -> V] /\ \A i \in 1..N : p[i] = IF Skips(i) THEN <<>> ELSE <<w[i]>>
  BY <1>1, <1>2, <1>3
<1> HIDE DEF p
<1>6. p \in Seq(V) /\ Len(p) = N
  <2> HIDE DEF V, N
  <2>1. p \in Seq(V)
    BY <1>1, <1>5, FunctionIsSeq
  <2>2. Len(p) \in Nat /\ DOMAIN p = 1..Len(p) /\ DOMAIN p = 1..N
    BY <1>5, <2>1, LenProperties
  <2> QED
    BY <1>1, <2>1, <2>2, SameInterval
<1>7. PICK f : /\ f \in [0..Len(p) -> V]
               /\ f[0] = <<>>
               /\ \A j \in 1..Len(p) : f[j] = f[j - 1] \o p[j]
               /\ FlattenSeq(p) = f[Len(p)]
  BY <1>6, FlattenIs
<1>8. ASSUME NEW j \in 1..N
      PROVE  f[j] = IF Skips(j) THEN f[j - 1] ELSE Append(f[j - 1], w[j])
  <2> DEFINE s == f[j - 1]
             c == w[j]
  <2>1. j - 1 \in 0..N
    BY <1>1
  <2>2. s \in V /\ c \in S
    BY <1>1, <1>6, <1>7, <2>1
  <2>3. f[j] = s \o p[j]
    BY <1>6, <1>7
  <2>4. p[j] = IF Skips(j) THEN <<>> ELSE <<c>>
    BY <1>5
  <2> HIDE DEF s, c
  <2>5. s \o <<>> = s
    BY <2>2, ConcatEmptySeq
  <2>6. s \o <<c>> = Append(s, c)
    BY <2>2, AppendIsConcat
  <2>7. f[j] = IF Skips(j) THEN s ELSE Append(s, c)
    BY <2>3, <2>4, <2>5, <2>6
  <2> QED
    BY <2>7 DEF s, c
<1>9. BogglifyWord(w) = f[N] /\ f \in [0..N -> V] /\ N \in 0..N
  BY <1>1, <1>4, <1>6, <1>7
<1> QED
  BY <1>7, <1>8, <1>9 DEF Skips

\* A word that Boggle allows is in letters, and its q's are followed by u's.
LEMMA BoggleWordIs ==
    ASSUME NEW w \in Word, IsBoggleWord(w)
    PROVE  /\ w \in Seq(Letters) /\ Len(w) \in Nat /\ DOMAIN w = 1..Len(w)
           /\ \A i \in 1..Len(w) : w[i] \in Letters
           /\ \A i \in 1..Len(w) : w[i] = kQ => i < Len(w) /\ w[i + 1] = kU
<1>1. Len(w) \in Nat /\ DOMAIN w = 1..Len(w) /\ w \in [1..Len(w) -> Nat]
  BY LenProperties DEF Word
<1>2. \A i \in 1..Len(w) : w[i] \in Letters
  BY <1>1 DEF IsBoggleWord
<1>3. w \in [1..Len(w) -> Letters]
  BY <1>1, <1>2
<1>4. w \in Seq(Letters)
  BY <1>1, <1>3, FunctionIsSeq
<1> QED
  BY <1>1, <1>2, <1>4 DEF IsBoggleWord

\* BogglifyWord loses nothing: the word it writes spells the one it read.
LEMMA BogglifySpells ==
    ASSUME NEW w \in Word, IsBoggleWord(w)
    PROVE  /\ BogglifyWord(w) \in Seq(Letters)
           /\ SpelledOut(BogglifyWord(w)) = w
<1> DEFINE V == Seq(Letters)
           N == Len(w)
           pre == [l \in 0..N |-> SubSeq(w, 1, l)]
<1>1. /\ w \in V /\ N \in Nat
      /\ \A i \in 1..N : w[i] \in Letters
      /\ \A i \in 1..N : w[i] = kQ => i < N /\ w[i + 1] = kU
  BY BoggleWordIs
<1>2. /\ BogglifyWord(w) \in V
      /\ \E f : /\ f \in [0..N -> V]
                /\ f[0] = <<>>
                /\ \A j \in 1..N :
                      f[j] = IF j > 1 /\ w[j - 1] = kQ THEN f[j - 1]
                             ELSE Append(f[j - 1], w[j])
                /\ BogglifyWord(w) = f[N]
  BY <1>1, BogglifyIs
<1>3. /\ pre[0] = <<>> /\ pre[N] = w
      /\ \A l \in 1..N : pre[l - 1] \in V /\ pre[l] = Append(pre[l - 1], w[l])
  <2>1. /\ SubSeq(w, 1, 0) = <<>>
        /\ SubSeq(w, 1, Len(w)) = w
        /\ \A l \in 1..Len(w) : /\ SubSeq(w, 1, l - 1) \in V
                                /\ SubSeq(w, 1, l) = Append(SubSeq(w, 1, l - 1), w[l])
    BY <1>1, LetterByLetter
  <2>2. 0 \in 0..N /\ N \in 0..N /\ \A l \in 1..N : l \in 0..N /\ l - 1 \in 0..N
    BY <1>1
  <2> QED
    BY <2>1, <2>2
<1> HIDE DEF pre, V, N
<1>4. PICK f : /\ f \in [0..N -> V]
               /\ f[0] = <<>>
               /\ \A j \in 1..N :
                     f[j] = IF j > 1 /\ w[j - 1] = kQ THEN f[j - 1]
                            ELSE Append(f[j - 1], w[j])
               /\ BogglifyWord(w) = f[N]
  BY <1>2
<1> DEFINE Due(j) == j > 0 /\ w[j] = kQ
           T == {j \in 0..N : SpelledOut(f[j]) = IF Due(j) THEN pre[j + 1] ELSE pre[j]}
<1>5. kQ \in Letters /\ kU \in Letters /\ kQ # kU
  BY LettersAssumption
<1>6. 0 \in T
  <2>1. SpelledOut(<<>>) = <<>>
    <3>1. Pieces(<<>>) = <<>>
      BY DEF Pieces
    <3> QED
      BY <3>1, FlattenEmpty DEF SpelledOut
  <2>2. 0 \in 0..N
    BY <1>1
  <2> QED
    BY <1>3, <1>4, <2>1, <2>2
<1>7. ASSUME NEW j \in 1..N, j - 1 \in T PROVE j \in T
  <2> DEFINE k == j - 1
             s == f[k]
             c == w[j]
             r == pre[k]
  <2>1. j \in 0..N /\ k \in 0..N /\ j \in Nat /\ k \in Nat /\ (k > 0 => k \in 1..N) /\ k + 1 = j
        /\ (j > 1 <=> k > 0) /\ j > 0
    BY <1>1
  <2>2. s \in V /\ c \in Letters /\ r \in V /\ pre[j] = Append(r, c)
    BY <1>1, <1>3, <1>4, <2>1
  <2>3. f[j] = IF Due(k) THEN s ELSE Append(s, c)
    BY <1>4, <2>1
  <2>4. SpelledOut(s) = IF Due(k) THEN pre[j] ELSE r
    BY <1>7, <2>1
  <2>5. CASE Due(k)
    <3>1. k \in 1..N /\ w[k] = kQ
      BY <2>1, <2>5
    <3>2. w[k + 1] = kU
      BY <1>1, <3>1
    <3>3. ~Due(j)
      BY <1>5, <2>1, <3>2
    <3> HIDE DEF s, k
    <3>4. SpelledOut(f[j]) = pre[j]
      BY <2>3, <2>4, <2>5
    <3> QED
      BY <2>1, <3>3, <3>4
  <2>6. CASE ~Due(k)
    <3> HIDE DEF s, r, k
    <3>1. SpelledOut(f[j]) = SpelledOut(s) \o Piece(c)
      <4>1. s \in Seq(Letters) /\ c \in Letters
        BY <2>2 DEF V
      <4> HIDE DEF c
      <4>2. SpelledOut(Append(s, c)) = SpelledOut(s) \o Piece(c)
        BY ONLY <4>1, SpelledAppend
      <4>3. f[j] = Append(s, c)
        BY <2>3, <2>6 DEF c
      <4> QED
        BY <4>2, <4>3 DEF c
    <3>2. SpelledOut(f[j]) = r \o Piece(c)
      BY <2>4, <2>6, <3>1
    <3>3. CASE c = kQ
      <4> DEFINE n == j + 1
      <4>1. n \in 1..N /\ w[n] = kU /\ n - 1 = j
        BY <1>1, <2>1, <3>3
      <4>2. pre[n] = Append(pre[j], kU)
        BY <1>3, <4>1
      <4>3. r \o <<kQ, kU>> = Append(Append(r, kQ), kU)
        BY <1>5, <2>2, ConcatPair DEF V
      <4>4. pre[j] = Append(r, kQ)
        BY <2>2, <3>3
      <4>5. SpelledOut(f[j]) = pre[n]
        BY <3>2, <3>3, <4>2, <4>3, <4>4 DEF Piece
      <4>6. Due(j)
        BY <2>1, <3>3
      <4> QED
        BY <2>1, <4>5, <4>6
    <3>4. CASE c # kQ
      <4>1. r \o <<c>> = Append(r, c)
        <5>1. r \in V /\ c \in Letters
          BY <2>2
        <5> HIDE DEF c
        <5> QED
          BY <5>1, AppendIsConcat DEF V
      <4>2. SpelledOut(f[j]) = pre[j]
        BY <2>2, <3>2, <3>4, <4>1 DEF Piece
      <4>3. ~Due(j)
        BY <3>4
      <4> QED
        BY <2>1, <4>2, <4>3
    <3> QED
      BY <3>3, <3>4
  <2> QED
    BY <2>5, <2>6
<1> HIDE DEF T
<1>8. \A j \in 0..N : j \in T
  BY ONLY <1>1, <1>6, <1>7, StepsUp
<1>9. N \in 0..N /\ ~Due(N)
  <2>1. N \in 0..N /\ (N > 0 => N \in 1..N) /\ ~(N < N)
    BY <1>1
  <2>2. N > 0 => w[N] # kQ
    BY <1>1, <2>1
  <2> QED
    BY <2>1, <2>2
<1>10. SpelledOut(f[N]) = pre[N]
  BY <1>8, <1>9 DEF T
<1> QED
  BY <1>2, <1>3, <1>4, <1>10 DEF V
-----------------------------------------------------------------------------
(* The loop on feof and fscanf. *)

\* The SimpleTrie is a finite tree, and its words are nodes of it.
NodesInv ==
    /\ IsFiniteSet(nodes) /\ nodes \subseteq Seq(Letters) /\ <<>> \in nodes
    /\ words \subseteq nodes
    /\ \A t \in nodes : t # <<>> => Front(t) \in nodes

\* The loop has read no further than one past the last word, and what may reach
\* AddWord without a look at its letters is in letters.
LoadInv ==
    /\ file \in Files /\ filtered \in BOOLEAN /\ eof \in BOOLEAN
    /\ read \in 0..(Len(file.words) + 1)
    /\ ~eof => read <= Len(file.words)
    /\ line \in Word
    /\ ~filtered => \A w \in ToSet(file.words) \cup {line} : w \in Seq(Letters)
    /\ NodesInv

\* What is read of the file, pc apart.
reading == <<filtered, file, read, eof, line, nodes, words>>

\* Only ReadLine changes it.
LEMMA OnlyReadLine == [Next]_vars => ReadLine \/ UNCHANGED reading
BY DEF Next, Create, Load, EndLoad, StartCompaction, Compact, EndCompaction, Mark,
       SetAllMarks, vars, loadVars, reading

\* The words of a file.
LEMMA FileWords ==
    ASSUME NEW f \in Files
    PROVE  /\ f.words \in Seq(Word) /\ f.newline \in BOOLEAN
           /\ Len(f.words) \in Nat /\ DOMAIN f.words = 1..Len(f.words)
           /\ \A i \in 1..Len(f.words) : f.words[i] \in Word /\ f.words[i] \in ToSet(f.words)
           /\ \A w \in ToSet(f.words) : w \in Word
           /\ f.words # <<>> => Len(f.words) # 0
<1>1. f.words \in Seq(Word) /\ f.newline \in BOOLEAN
  BY FilesAssumption
<1>2. Len(f.words) \in Nat /\ DOMAIN f.words = 1..Len(f.words)
  BY <1>1, LenProperties
<1>3. \A i \in 1..Len(f.words) : f.words[i] \in Word
  BY <1>1, ElementOfSeq
<1>4. ToSet(f.words) = {f.words[i] : i \in 1..Len(f.words)}
  BY <1>2 DEF ToSet
<1>5. f.words # <<>> => Len(f.words) # 0
  BY <1>1, EmptySeq
<1> QED
  BY <1>1, <1>2, <1>3, <1>4, <1>5

\* A word in letters, as a set of characters and as a sequence.
LEMMA InLetters ==
    ASSUME NEW w \in Word, ToSet(w) \subseteq Letters
    PROVE  w \in Seq(Letters)
<1>1. Len(w) \in Nat /\ DOMAIN w = 1..Len(w) /\ w \in [1..Len(w) -> Nat]
  BY LenProperties DEF Word
<1>2. \A i \in 1..Len(w) : w[i] \in Letters
  BY <1>1 DEF ToSet
<1>3. w \in [1..Len(w) -> Letters]
  BY <1>1, <1>2
<1> QED
  BY <1>1, <1>3, FunctionIsSeq

\* AddWord leaves a tree.
LEMMA NodesGrow ==
    ASSUME NodesInv, NEW w \in Seq(Letters), AddWord(w)
    PROVE  NodesInv'
<1>1. nodes' = nodes \cup Prefixes(w) /\ words' = words \cup {w}
  BY DEF AddWord
<1>2. /\ Prefixes(w) \subseteq Seq(Letters) /\ IsFiniteSet(Prefixes(w)) /\ w \in Prefixes(w)
      /\ \A t \in Prefixes(w) : t # <<>> => Front(t) \in Prefixes(w)
  BY PrefixesAre
<1>3. IsFiniteSet(nodes \cup Prefixes(w))
  BY <1>2, FS_Union DEF NodesInv
<1> QED
  BY <1>1, <1>2, <1>3 DEF NodesInv

\* What fscanf leaves in the buffer, and what is added of it.
Written(w) == IF filtered /\ IsBoggleWord(w) THEN BogglifyWord(w) ELSE w
Taken(w) == filtered => IsBoggleWord(w)

\* Either is in letters when it is to be added.
LEMMA ScannedIs ==
    ASSUME LoadInv
    PROVE  /\ Scanned \in Word /\ Written(Scanned) \in Word
           /\ Taken(Scanned) => Written(Scanned) \in Seq(Letters)
           /\ ~filtered => Scanned \in Seq(Letters)
<1>1. file \in Files /\ read \in Nat /\ line \in Word
  BY FileWords DEF LoadInv
<1> DEFINE n == read + 1
           s == Scanned
<1>2. read < Len(file.words) => n \in 1..Len(file.words)
  BY <1>1, FileWords
<1>3. s \in Word
  BY <1>1, <1>2, FileWords DEF Scanned
<1>4. ~filtered => s \in Seq(Letters)
  BY <1>1, <1>2, FileWords DEF Scanned, LoadInv
<1> HIDE DEF s
<1>5. BogglifyWord(s) \in Word
  <2>1. s \in Seq(Nat)
    BY <1>3 DEF Word
  <2> QED
    BY <2>1, BogglifyIs DEF Word
<1>6. IsBoggleWord(s) => BogglifyWord(s) \in Seq(Letters)
  BY <1>3, BogglifySpells
<1>7. Written(s) \in Word
  BY <1>3, <1>5 DEF Written
<1>8. Taken(s) => Written(s) \in Seq(Letters)
  BY <1>4, <1>6 DEF Taken, Written
<1> QED
  BY <1>3, <1>4, <1>7, <1>8 DEF s

\* One round of the loop.
LEMMA ReadLineIs ==
    ASSUME ReadLine
    PROVE  /\ pc = "load" /\ ~eof /\ read' = read + 1 /\ eof' = AtEnd(read + 1)
           /\ line' = Written(Scanned)
           /\ IF Taken(Scanned) THEN AddWord(Written(Scanned)) ELSE UNCHANGED <<nodes, words>>
           /\ UNCHANGED <<pc, filtered, file>>
<1>1. CASE filtered /\ ~IsBoggleWord(Scanned)
  BY <1>1 DEF ReadLine, Taken, Written, AtEnd
<1>2. CASE filtered /\ IsBoggleWord(Scanned)
  <2>1. line' = Written(Scanned) /\ AddWord(line')
    BY <1>2 DEF ReadLine, Written
  <2> QED
    BY <1>2, <2>1 DEF ReadLine, Taken, AtEnd, AddWord
<1>3. CASE ~filtered
  <2>1. line' = Written(Scanned) /\ AddWord(line')
    BY <1>3 DEF ReadLine, Written
  <2> QED
    BY <1>3, <2>1 DEF ReadLine, Taken, AtEnd, AddWord
<1> QED
  BY <1>1, <1>2, <1>3

\* The root is there before a word is.
LEMMA InitLoad == Init => LoadInv
<1> SUFFICES ASSUME Init PROVE LoadInv
  OBVIOUS
<1>1. /\ filtered \in BOOLEAN /\ file \in Files /\ line \in Leftovers
      /\ ~filtered => \A w \in ToSet(file.words) \cup {line} : ToSet(w) \subseteq Letters
      /\ read = 0 /\ eof = FALSE /\ nodes = {<<>>} /\ words = {}
  BY DEF Init, LoadInit
<1>2. line \in Word
  BY <1>1, FilesAssumption
<1>3. ~filtered => \A w \in ToSet(file.words) \cup {line} : w \in Seq(Letters)
  BY <1>1, <1>2, FileWords, InLetters
<1>4. 0 \in 0..(Len(file.words) + 1) /\ 0 <= Len(file.words)
  BY <1>1, FileWords
<1>5. NodesInv
  BY ZenonT(40), <1>1, FS_Singleton, EmptySeq DEF NodesInv
<1> QED
  BY <1>1, <1>2, <1>3, <1>4, <1>5 DEF LoadInv

\* Every step keeps that.
LEMMA NextLoad == LoadInv /\ [Next]_vars => LoadInv'
<1> SUFFICES ASSUME LoadInv, [Next]_vars PROVE LoadInv'
  OBVIOUS
<1>1. CASE UNCHANGED reading
  BY <1>1 DEF LoadInv, NodesInv, reading
<1>2. CASE ReadLine
  <2>1. /\ ~eof /\ read' = read + 1 /\ eof' = AtEnd(read + 1) /\ line' = Written(Scanned)
        /\ IF Taken(Scanned) THEN AddWord(Written(Scanned)) ELSE UNCHANGED <<nodes, words>>
        /\ UNCHANGED <<pc, filtered, file>>
    BY <1>2, ReadLineIs
  <2>2. /\ Written(Scanned) \in Word
        /\ Taken(Scanned) => Written(Scanned) \in Seq(Letters)
        /\ ~filtered => Scanned \in Seq(Letters)
    BY ScannedIs
  <2>3. /\ file \in Files /\ filtered \in BOOLEAN
        /\ read \in 0..(Len(file.words) + 1) /\ read <= Len(file.words)
        /\ ~filtered => \A w \in ToSet(file.words) \cup {line} : w \in Seq(Letters)
        /\ NodesInv
    BY <2>1 DEF LoadInv
  <2>4. Len(file.words) \in Nat
    BY <2>3, FileWords
  <2>5. read + 1 \in 0..(Len(file.words) + 1) /\ (~AtEnd(read + 1) => read + 1 <= Len(file.words))
    BY <2>3, <2>4 DEF AtEnd
  <2>6. AtEnd(read + 1) \in BOOLEAN
    BY DEF AtEnd
  <2>7. ~filtered => Written(Scanned) = Scanned
    BY DEF Written
  <2>8. NodesInv'
    <3>1. CASE Taken(Scanned)
      BY <2>1, <2>2, <2>3, <3>1, NodesGrow
    <3>2. CASE ~Taken(Scanned)
      BY <2>1, <2>3, <3>2 DEF NodesInv
    <3> QED
      BY <3>1, <3>2
  <2>9. ~filtered' => \A w \in ToSet(file'.words) \cup {line'} : w \in Seq(Letters)
    BY <2>1, <2>2, <2>3, <2>7
  <2> QED
    BY <2>1, <2>2, <2>3, <2>5, <2>6, <2>8, <2>9 DEF LoadInv
<1> QED
  BY <1>1, <1>2, OnlyReadLine

\* The loop stops at the end of the file and not before; the buffer has what was
\* made of the word read last, each word read that can be taken has been, and no
\* other.
ReadInv ==
    /\ IF eof THEN read > 0 /\ AtEnd(read) ELSE read > 0 => ~AtEnd(read)
    /\ \A i \in 1..Len(file.words) :
          /\ i = read => line = Written(file.words[i])
          /\ i <= read /\ Taken(file.words[i]) => Written(file.words[i]) \in words
    /\ OnlyWordsLoaded

\* The word that a word taken from the file spells is that word.
LEMMA WrittenSpells ==
    ASSUME NEW w \in Word, Taken(w)
    PROVE  Spelled(Written(w)) = w
<1>1. \A s : filtered => Spelled(s) = SpelledOut(s)
  BY DEF Spelled, SpelledOut, Pieces, Piece
<1>2. \A s : ~filtered => Spelled(s) = s
  BY DEF Spelled
<1>3. filtered => SpelledOut(BogglifyWord(w)) = w
  BY BogglifySpells DEF Taken
<1> QED
  BY <1>1, <1>2, <1>3 DEF Taken, Written

\* What is added in a round is a word of the file, or the last one once more.
LEMMA AddedIsOfFile ==
    ASSUME LoadInv, ReadInv, ~eof, Taken(Scanned)
    PROVE  Spelled(Written(Scanned)) \in ToSet(file.words) \/ ReadTwice(Written(Scanned))
<1> DEFINE N == Len(file.words)
           n == read + 1
           s == Scanned
           v == Written(s)
<1>1. /\ file \in Files /\ N \in Nat /\ read \in Nat /\ read <= N
      /\ \A i \in 1..N : file.words[i] \in Word /\ file.words[i] \in ToSet(file.words)
      /\ file.words # <<>> => N # 0
  BY FileWords DEF LoadInv
<1>2. s \in Word /\ v \in Word
  BY ScannedIs
<1>3. Taken(s)
  OBVIOUS
<1> HIDE DEF v
<1>4. Spelled(v) = s
  <2> HIDE DEF s
  <2> QED
    BY <1>2, <1>3, WrittenSpells DEF v
<1>5. CASE read < N
  <2>1. n \in 1..N
    BY <1>1, <1>5
  <2>2. s = file.words[n]
    BY <1>5 DEF Scanned
  <2> QED
    BY <1>1, <1>4, <2>1, <2>2 DEF v, s
<1>6. CASE ~(read < N)
  <2>1. read = N /\ s = line
    BY <1>1, <1>6 DEF Scanned
  <2>2. CASE N = 0
    BY <1>1, <2>2 DEF ReadTwice, v, s
  <2>3. CASE N # 0
    <3> DEFINE l == file.words[N]
    <3>1. N \in 1..N /\ N > 0
      BY <1>1, <2>3
    <3>2. l \in Word /\ s = Written(l)
      BY <1>1, <2>1, <3>1 DEF ReadInv
    <3>3. file.newline
      BY <2>1, <3>1 DEF ReadInv, AtEnd
    <3>4. l = Last(file.words)
      BY DEF Last
    <3> HIDE DEF l
    <3>5. CASE Taken(l)
      <4>1. Spelled(Written(l)) = l
        BY <3>2, <3>5, WrittenSpells
      <4>2. Spelled(Spelled(v)) = l
        BY <1>4, <3>2, <4>1
      <4> QED
        BY <3>3, <3>4, <4>2 DEF ReadTwice, v, s
    <3>6. CASE ~Taken(l)
      <4>1. s = l
        BY <3>2, <3>6 DEF Taken, Written
      <4> QED
        BY <1>3, <3>6, <4>1
    <3> QED
      BY <3>5, <3>6
  <2> QED
    BY <2>2, <2>3
<1> QED
  BY <1>5, <1>6

\* Nothing is read at the start.
LEMMA InitRead == Init => ReadInv
<1> SUFFICES ASSUME Init PROVE ReadInv
  OBVIOUS
<1>1. read = 0 /\ eof = FALSE /\ words = {}
  BY DEF Init, LoadInit
<1>2. \A i \in 1..Len(file.words) : i # 0 /\ ~(i <= 0)
  BY InitLoad, FileWords DEF LoadInv
<1> QED
  BY <1>1, <1>2 DEF ReadInv, OnlyWordsLoaded

\* A round adds what it read, and ends the loop at the end of the file.
LEMMA NextRead == LoadInv /\ ReadInv /\ [Next]_vars => ReadInv'
<1> SUFFICES ASSUME LoadInv, ReadInv, [Next]_vars PROVE ReadInv'
  OBVIOUS
<1>1. CASE UNCHANGED reading
  BY <1>1 DEF ReadInv, reading, AtEnd, Written, Taken, OnlyWordsLoaded, Spelled, ReadTwice
<1>2. CASE ReadLine
  <2> DEFINE N == Len(file.words)
             n == read + 1
             v == Written(Scanned)
  <2>1. /\ ~eof /\ read' = n /\ eof' = AtEnd(n) /\ line' = v
        /\ IF Taken(Scanned) THEN AddWord(v) ELSE UNCHANGED <<nodes, words>>
        /\ filtered' = filtered /\ file' = file
    BY <1>2, ReadLineIs
  <2>2. N \in Nat /\ read \in Nat /\ n > 0 /\ n \in Nat /\ read <= N
    BY <2>1, FileWords DEF LoadInv
  <2>3. \A s : Written(s)' = Written(s) /\ Taken(s)' = Taken(s) /\ Spelled(s)' = Spelled(s)
               /\ ReadTwice(s)' = ReadTwice(s)
    BY <2>1 DEF Written, Taken, Spelled, ReadTwice
  <2>4. words \subseteq words' /\ (Taken(Scanned) => v \in words')
        /\ \A s \in words' : s \in words \/ (Taken(Scanned) /\ s = v)
    BY <2>1 DEF AddWord
  <2>5. \A i \in 1..N : i = n => Scanned = file.words[i]
    BY <2>2 DEF Scanned
  <2> HIDE DEF v
  <2>8. ASSUME NEW i \in 1..N
        PROVE  /\ i = n => v = Written(file.words[i])
               /\ i <= n /\ Taken(file.words[i]) => Written(file.words[i]) \in words'
    <3>1. CASE i = n
      BY <2>4, <2>5, <3>1 DEF v
    <3>2. CASE i # n
      <4>1. i <= n => i <= read
        BY <2>2, <3>2
      <4> QED
        BY <2>4, <3>2, <4>1 DEF ReadInv
    <3> QED
      BY <3>1, <3>2
  <2>9. ASSUME NEW s \in words' PROVE Spelled(s) \in ToSet(file.words) \/ ReadTwice(s)
    <3>1. CASE s \in words
      BY <3>1 DEF ReadInv, OnlyWordsLoaded
    <3>2. CASE Taken(Scanned) /\ s = v
      BY <2>1, <3>2, AddedIsOfFile DEF v
    <3> QED
      BY <2>4, <3>1, <3>2
  <2>10. OnlyWordsLoaded'
    BY <2>1, <2>3, <2>9 DEF OnlyWordsLoaded
  <2>11. IF eof' THEN read' > 0 /\ AtEnd(read)' ELSE read' > 0 => ~AtEnd(read)'
    <3>1. AtEnd(read)' <=> AtEnd(n)
      BY <2>1 DEF AtEnd
    <3>2. read' > 0
      BY <2>1, <2>2
    <3> QED
      BY <2>1, <3>1, <3>2
  <2>12. \A i \in 1..Len(file'.words) :
            /\ i = read' => line' = Written(file.words[i])'
            /\ i <= read' /\ Taken(file.words[i])' => Written(file.words[i])' \in words'
    <3>1. ASSUME NEW i \in 1..N
          PROVE Written(file.words[i])' = Written(file.words[i])
                /\ Taken(file.words[i])' = Taken(file.words[i])
      BY <2>1 DEF Written, Taken
    <3> QED
      BY <2>1, <2>8, <3>1
  <2> QED
    BY <2>10, <2>11, <2>12 DEF ReadInv
<1> QED
  BY <1>1, <1>2, OnlyReadLine

\* A word that is not taken breaks one of the rules.
LEMMA NotTaken ==
    ASSUME NEW w \in Word, ~Taken(w)
    PROVE  /\ filtered
           /\ \/ Len(w) < 3 \/ Len(w) > MaxWordLen
              \/ \E i \in DOMAIN w : w[i] \notin Letters
              \/ \E i \in DOMAIN w :
                    w[i] = kQ /\ ~\E j \in DOMAIN w : j = i + 1 /\ w[j] = kU
<1>1. filtered /\ ~IsBoggleWord(w)
  BY DEF Taken
<1>2. Len(w) \in Nat /\ DOMAIN w = 1..Len(w)
  BY LenProperties DEF Word
<1>3. CASE Len(w) \notin 3..MaxWordLen
  <2>1. \A n \in Nat : n \notin 3..MaxWordLen => n < 3 \/ n > MaxWordLen
    BY LettersAssumption
  <2> QED
    BY <1>1, <1>2, <1>3, <2>1
<1>4. CASE \E i \in DOMAIN w : w[i] \notin Letters
  BY <1>1, <1>4
<1>5. CASE \E i \in DOMAIN w : w[i] = kQ /\ ~(i < Len(w) /\ w[i + 1] = kU)
  <2>1. PICK i \in DOMAIN w : w[i] = kQ /\ ~(i < Len(w) /\ w[i + 1] = kU)
    BY <1>5
  <2>2. \A j \in 1..Len(w) : j = i + 1 => i < Len(w)
    BY <1>2, <2>1
  <2>3. ~\E j \in DOMAIN w : j = i + 1 /\ w[j] = kU
    BY <1>2, <2>1, <2>2
  <2> QED
    BY <1>1, <2>1, <2>3
<1> QED
  BY <1>1, <1>3, <1>4, <1>5 DEF IsBoggleWord

\* However the file ends, each word of it that Boggle allows is in the trie when
\* the loop is done, "qu" written as q, and no other word but for what the second
\* look at the buffer adds (boggle_solver.cc:34, trie.cc:139).
THEOREM EveryWordIsLoaded == Spec => []WordsLoaded
<1>1. LoadInv /\ ReadInv => WordsLoaded
  <2>1. SUFFICES ASSUME LoadInv, ReadInv, eof, NEW w \in ToSet(file.words)
                 PROVE  \/ \E s \in words : Spelled(s) = w
                        \/ /\ filtered
                           /\ \/ Len(w) < 3 \/ Len(w) > MaxWordLen
                              \/ \E i \in DOMAIN w : w[i] \notin Letters
                              \/ \E i \in DOMAIN w :
                                    w[i] = kQ /\ ~\E j \in DOMAIN w : j = i + 1 /\ w[j] = kU
    BY DEF WordsLoaded, EveryWordLoaded, ReadInv
  <2>2. file \in Files /\ read \in Nat /\ AtEnd(read)
    BY <2>1, FileWords DEF LoadInv, ReadInv
  <2>3. w \in Word
    BY <2>1, <2>2, FileWords
  <2>4. PICK i \in 1..Len(file.words) : w = file.words[i]
    BY <2>1, <2>2, FileWords DEF ToSet
  <2>5. Len(file.words) \in Nat /\ i <= read
    BY <2>2, FileWords DEF AtEnd
  <2>6. CASE Taken(w)
    <3>1. Written(w) \in words
      BY <2>1, <2>4, <2>5, <2>6 DEF ReadInv
    <3>2. Spelled(Written(w)) = w
      BY <2>3, <2>6, WrittenSpells
    <3> QED
      BY <3>1, <3>2
  <2>7. CASE ~Taken(w)
    BY <2>3, <2>7, NotTaken
  <2> QED
    BY <2>6, <2>7
<1>2. Spec => [](LoadInv /\ ReadInv)
  BY InitLoad, NextLoad, InitRead, NextRead, PTL DEF Spec
<1> QED
  BY <1>1, <1>2, PTL
-----------------------------------------------------------------------------
(* Letters in their order. *)

\* How many of S come before c.
RankIn(c, S) == Cardinality({d \in S : d < c})

\* A later letter has more before it.
LEMMA RankGrows ==
    ASSUME NEW S, S \subseteq Nat, IsFiniteSet(S), NEW c \in S
    PROVE  /\ Cardinality(S) \in Nat /\ RankIn(c, S) \in Nat
           /\ RankIn(c, S) < Cardinality(S)
           /\ \A e \in S : c < e => RankIn(c, S) < RankIn(e, S)
<1> DEFINE B(x) == {d \in S : d < x}
<1>1. \A x \in S : IsFiniteSet(B(x)) /\ Cardinality(B(x)) \in Nat
  <2>1. \A x \in S : B(x) \in SUBSET S
    OBVIOUS
  <2> HIDE DEF B
  <2> QED
    BY <2>1, FS_Subset, FS_CardinalityType
<1>2. Cardinality(S) \in Nat
  BY FS_CardinalityType
<1>3. \A x \in S : c \notin B(c) /\ (c < x => c \in B(x) /\ B(c) \subseteq B(x))
  <2>1. \A x, y, z \in Nat : ~(x < x) /\ (x < y /\ y < z => x < z)
    OBVIOUS
  <2>2. \A x \in S : x \in Nat
    OBVIOUS
  <2>3. c \notin B(c)
    BY <2>1, <2>2
  <2>4. ASSUME NEW x \in S, c < x PROVE c \in B(x) /\ B(c) \subseteq B(x)
    <3>1. \A d \in S : d < c => d < x
      BY <2>1, <2>2, <2>4
    <3> QED
      BY <2>4, <3>1
  <2> QED
    BY <2>3, <2>4
<1>4. Cardinality(B(c)) < Cardinality(S)
  <2>1. B(c) \in SUBSET S /\ B(c) # S
    BY <1>3
  <2> HIDE DEF B
  <2>2. Cardinality(B(c)) <= Cardinality(S) /\ Cardinality(B(c)) # Cardinality(S)
    BY <2>1, FS_Subset
  <2> QED
    BY <1>1, <1>2, <2>2
<1>5. ASSUME NEW e \in S, c < e PROVE Cardinality(B(c)) < Cardinality(B(e))
  <2>1. B(c) \in SUBSET B(e) /\ B(c) # B(e)
    BY <1>3, <1>5
  <2> HIDE DEF B
  <2>2. Cardinality(B(c)) <= Cardinality(B(e)) /\ Cardinality(B(c)) # Cardinality(B(e))
    BY <1>1, <2>1, FS_Subset
  <2> QED
    BY <1>1, <2>2
<1> QED
  BY <1>1, <1>2, <1>4, <1>5 DEF RankIn

\* InOrder numbers a finite set of letters from 1, in their order.
LEMMA InOrderIs ==
    ASSUME NEW S, S \subseteq Nat, IsFiniteSet(S)
    PROVE  /\ Cardinality(S) \in Nat /\ DOMAIN InOrder(S) = 1..Cardinality(S)
           /\ \A n \in 1..Cardinality(S) :
                 InOrder(S)[n] \in S /\ RankIn(InOrder(S)[n], S) = n - 1
           /\ \A c \in S : /\ RankIn(c, S) + 1 \in 1..Cardinality(S)
                           /\ InOrder(S)[RankIn(c, S) + 1] = c
<1> DEFINE N == Cardinality(S)
           T == 0..(N - 1)
           f == [c \in S |-> RankIn(c, S)]
<1>1. N \in Nat
  BY FS_CardinalityType
<1>2. ASSUME NEW c \in S PROVE f[c] \in T /\ \A e \in S : c < e => f[c] < f[e]
  <2>1. /\ RankIn(c, S) \in Nat /\ RankIn(c, S) < N
        /\ \A e \in S : c < e => RankIn(c, S) < RankIn(e, S)
    BY RankGrows
  <2> QED
    BY <1>1, <2>1
<1>3. IsFiniteSet(T) /\ Cardinality(T) = N
  <2>1. 0 \in Int /\ N - 1 \in Int /\ (IF 0 > N - 1 THEN 0 ELSE (N - 1) - 0 + 1) = N
    BY <1>1
  <2> HIDE DEF N
  <2> DEFINE m == N - 1
  <2> HIDE DEF m
  <2>2. m \in Int /\ (IF 0 > m THEN 0 ELSE m - 0 + 1) = N /\ 0 \in Int
    BY <2>1 DEF m
  <2>3. IsFiniteSet(0..m) /\ Cardinality(0..m) = N
    BY <2>2, FS_Interval
  <2> QED
    BY <2>3 DEF m
<1>4. DOMAIN f = S
  OBVIOUS
<1> HIDE DEF f, T
<1>5. \A a, b \in S : f[a] = f[b] => a = b
  <2>1. \A a, b \in S : f[a] \in Nat /\ (a < b => f[a] < f[b]) /\ a \in Nat
    BY <1>2 DEF T
  <2>2. \A m, n \in Nat : m < n \/ n < m \/ m = n
    OBVIOUS
  <2>3. \A m \in Nat : ~(m < m)
    OBVIOUS
  <2> QED
    BY <2>1, <2>2, <2>3
<1>6. f \in Injection(S, T)
  <2>1. f \in [S -> T]
    BY <1>2, <1>4 DEF f
  <2> QED
    BY <1>5, <2>1 DEF Injection, IsInjective
<1>7. f \in Surjection(S, T)
  BY <1>3, <1>6, FS_Injection DEF N
<1>8. ASSUME NEW n \in 1..N
      PROVE  InOrder(S)[n] \in S /\ f[InOrder(S)[n]] = n - 1
  <2>1. n - 1 \in T
    BY <1>1 DEF T
  <2>2. \E c \in S : f[c] = n - 1
    BY <1>7, <2>1 DEF Surjection
  <2>3. \E c \in S : RankIn(c, S) = n - 1
    BY <2>2 DEF f
  <2>4. InOrder(S)[n] = CHOOSE c \in S : RankIn(c, S) = n - 1
    BY DEF InOrder, RankIn, N
  <2>5. InOrder(S)[n] \in S /\ RankIn(InOrder(S)[n], S) = n - 1
    BY <2>3, <2>4
  <2> QED
    BY <2>5 DEF f
<1>9. ASSUME NEW c \in S PROVE f[c] + 1 \in 1..N /\ InOrder(S)[f[c] + 1] = c
  <2> DEFINE n == f[c] + 1
  <2>1. n \in 1..N /\ n - 1 = f[c]
    BY <1>1, <1>2 DEF T
  <2>2. InOrder(S)[n] \in S /\ f[InOrder(S)[n]] = n - 1
    BY <1>8, <2>1
  <2>3. f[InOrder(S)[n]] = f[c]
    BY <2>1, <2>2
  <2>4. InOrder(S)[n] = c
    BY <1>5, <2>2, <2>3
  <2> QED
    BY <2>1, <2>4
<1> QED
  BY <1>1, <1>8, <1>9 DEF f, N, InOrder
-----------------------------------------------------------------------------
(* The block of a node, and those of its children. *)

Off(t) == IF IsWordNode(t) THEN 1 ELSE 0
Rank(t, c) == RankIn(c, Children(t))
Count(t) == Cardinality(Children(t))

\* There is a finite number of letters; the bit of a word is none of them.
LEMMA LettersAre ==
    /\ Letters \subseteq Nat /\ IsFiniteSet(Letters) /\ Cardinality(Letters) = kNumLetters
    /\ kNumLetters \in Nat /\ WordBit \in Nat /\ WordBit \notin Letters
    /\ \A c \in Letters : c < WordBit
<1>1. kNumLetters \in Nat
  BY LettersAssumption
<1> DEFINE k == kNumLetters
           m == k - 1
<1>2. /\ 0..m \subseteq Nat /\ k \notin 0..m /\ \A c \in 0..m : c < k
      /\ m \in Int /\ (IF 0 > m THEN 0 ELSE m - 0 + 1) = k /\ 0 \in Int
  BY <1>1
<1> HIDE DEF m
<1>3. IsFiniteSet(0..m) /\ Cardinality(0..m) = k
  BY <1>2, FS_Interval
<1> QED
  BY <1>1, <1>2, <1>3 DEF Letters, WordBit, m

\* A node has a finite number of children, and all of it fits the root's block.
LEMMA SizeIs ==
    ASSUME NEW t
    PROVE  /\ Children(t) \subseteq Letters /\ Children(t) \subseteq Nat
           /\ IsFiniteSet(Children(t)) /\ Count(t) \in Nat
           /\ Off(t) \in {0, 1}
           /\ Size(t) = 1 + Off(t) + Count(t) /\ Size(t) \in Nat \ {0}
           /\ Size(t) <= RootSize
<1>1. Children(t) \in SUBSET Letters /\ Children(t) \subseteq Nat
  BY LettersAre DEF Children
<1>2. IsFiniteSet(Children(t)) /\ Count(t) <= kNumLetters
  BY <1>1, LettersAre, FS_Subset DEF Count
<1>3. Count(t) \in Nat
  BY <1>2, FS_CardinalityType DEF Count
<1>4. Off(t) \in {0, 1} /\ Size(t) = 1 + Off(t) + Count(t)
  BY DEF Off, Size, Count
<1>5. /\ 1 + Off(t) + Count(t) \in Nat \ {0}
      /\ 1 + Off(t) + Count(t) <= RootSize
  <2>1. RootSize \in Nat /\ RootSize >= 2 + kNumLetters /\ kNumLetters \in Nat
    BY MemoryAssumption, LettersAre
  <2> QED
    BY <1>2, <1>3, <1>4, <2>1
<1> QED
  BY <1>1, <1>2, <1>3, <1>4, <1>5

\* The n-th child and its place among them.
LEMMA ChildrenInOrder ==
    ASSUME NEW t
    PROVE  /\ \A n \in 1..Count(t) : /\ InOrder(Children(t))[n] \in Children(t)
                                     /\ Rank(t, InOrder(Children(t))[n]) = n - 1
           /\ \A c \in Children(t) : /\ Rank(t, c) \in 0..(Count(t) - 1)
                                     /\ Rank(t, c) + 1 \in 1..Count(t)
                                     /\ InOrder(Children(t))[Rank(t, c) + 1] = c
           /\ \A c, d \in Children(t) : c < d => Rank(t, c) + 1 <= Rank(t, d)
           /\ \A c, d \in Children(t) : Rank(t, c) = Rank(t, d) => c = d
<1> DEFINE S == Children(t)
           N == Count(t)
           o == InOrder(S)
<1>1. S \subseteq Nat /\ IsFiniteSet(S) /\ N \in Nat /\ N = Cardinality(S)
  BY SizeIs DEF Count
<1> HIDE DEF S, N
<1>2. /\ \A n \in 1..N : o[n] \in S /\ RankIn(o[n], S) = n - 1
      /\ \A c \in S : RankIn(c, S) + 1 \in 1..N /\ o[RankIn(c, S) + 1] = c
  BY <1>1, InOrderIs
<1>3. \A c \in S : RankIn(c, S) \in Nat /\ RankIn(c, S) < N
  BY <1>1, RankGrows
<1>4. \A c \in S : RankIn(c, S) \in 0..(N - 1)
  BY <1>1, <1>3
<1>5. ASSUME NEW c \in S, NEW d \in S, c < d PROVE RankIn(c, S) + 1 <= RankIn(d, S)
  <2>1. RankIn(c, S) < RankIn(d, S)
    BY <1>1, <1>5, RankGrows
  <2> QED
    BY <1>3, <2>1
<1>6. \A c, d \in S : RankIn(c, S) = RankIn(d, S) => c = d
  BY <1>2
<1> QED
  BY <1>2, <1>4, <1>5, <1>6 DEF Rank, S, N

\* A child is one letter longer, and children of different nodes or letters differ.
LEMMA ChildIs ==
    ASSUME NodesInv, NEW t \in nodes, NEW c \in Children(t)
    PROVE  /\ t \in Seq(Letters) /\ c \in Letters
           /\ Append(t, c) \in nodes /\ Append(t, c) # <<>> /\ Front(Append(t, c)) = t
           /\ Len(t) \in Nat /\ Len(Append(t, c)) = Len(t) + 1
           /\ \A d \in Children(t) : Append(t, c) = Append(t, d) => c = d
<1>1. t \in Seq(Letters) /\ \A d \in Children(t) : d \in Letters /\ Append(t, d) \in nodes
  BY DEF NodesInv, Children
<1>2. \A d \in Letters : /\ Append(t, d) # <<>> /\ Len(t) \in Nat
                         /\ Len(Append(t, d)) = Len(t) + 1 /\ Front(Append(t, d)) = t
                         /\ Append(t, d)[Len(t) + 1] = d
  BY <1>1, FrontOfAppend
<1>3. \A d \in Children(t) : Append(t, c) = Append(t, d) => c = d
  BY <1>1, <1>2
<1> QED
  BY <1>1, <1>2, <1>3

\* bytes_used after each of the children.
LEMMA UsedIs ==
    ASSUME bytes_used \in Nat, NEW t
    PROVE  /\ Used(t) \in [0..Count(t) -> Nat]
           /\ Used(t)[0] = bytes_used
           /\ \A n \in 1..Count(t) :
                 Used(t)[n] = Used(t)[n - 1] + Size(Append(t, InOrder(Children(t))[n]))
<1> DEFINE N == Count(t)
           b == bytes_used
           s == [n \in 1..N |-> Size(Append(t, InOrder(Children(t))[n]))]
           step == [n \in 1..N |-> [v \in Nat |-> v + s[n]]]
           Eq(f) == f = [n \in 0..N |-> IF n = 0 THEN b
                            ELSE f[n - 1] + Size(Append(t, InOrder(Children(t))[n]))]
           Eqs(f) == f = [n \in 0..N |-> IF n = 0 THEN b ELSE f[n - 1] + s[n]]
<1>1. N \in Nat /\ b \in Nat /\ \A n \in 1..N : s[n] \in Nat
  BY SizeIs
<1>2. Used(t) = CHOOSE f : Eq(f)
  BY DEF Used, Count
<1>3. \A n \in 0..N : n # 0 => n \in 1..N /\ n - 1 \in 0..N
  BY <1>1
<1>4. ASSUME NEW f PROVE Eq(f) <=> Eqs(f)
  <2>1. \A n \in 0..N : (IF n = 0 THEN b ELSE f[n - 1] + Size(Append(t, InOrder(Children(t))[n])))
                        = (IF n = 0 THEN b ELSE f[n - 1] + s[n])
    BY <1>3
  <2> QED
    BY <2>1
<1>5. \A n \in 1..N : s[n] = Size(Append(t, InOrder(Children(t))[n]))
  OBVIOUS
<1> HIDE DEF N, b, s, Eq
<1>6. \A n \in 1..N : \A v \in Nat : step[n][v] = v + s[n] /\ step[n][v] \in Nat
  BY <1>1
<1> HIDE DEF step
<1>7. PICK f : Iterates(f, N, Nat, b, step)
  BY <1>1, <1>6, IteratesExist
<1>8. \A n \in 0..N : f[n] = IF n = 0 THEN b ELSE f[n - 1] + s[n]
  BY <1>3, <1>6, <1>7 DEF Iterates
<1>9. Eqs(f)
  BY <1>7, <1>8 DEF Iterates
<1> HIDE DEF Eqs
<1>10. Eq(Used(t))
  BY <1>2, <1>4, <1>9
<1> DEFINE g == Used(t)
<1>11. g = [n \in 0..N |-> IF n = 0 THEN b ELSE g[n - 1] + s[n]]
  BY <1>4, <1>10 DEF Eqs
<1> HIDE DEF g
<1>12. 0 \in 0..N /\ \A n \in 1..N : n \in 0..N /\ n # 0
  BY <1>1
<1>13. g[0] = b /\ \A n \in 1..N : g[n] = g[n - 1] + s[n]
  BY <1>11, <1>12
<1> DEFINE T == {n \in 0..N : g[n] \in Nat}
<1>14. 0 \in T /\ \A n \in 1..N : n - 1 \in T => n \in T
  BY <1>1, <1>12, <1>13
<1> HIDE DEF T
<1>15. \A n \in 0..N : n \in T
  BY <1>1, <1>14, StepsUp
<1>16. g \in [0..N -> Nat]
  BY <1>11, <1>15 DEF T
<1> QED
  BY <1>5, <1>13, <1>16 DEF g, N, b

\* It only grows.
LEMMA UsedGrows ==
    ASSUME bytes_used \in Nat, NEW t, NEW j \in 0..Count(t), NEW i \in 0..j
    PROVE  Used(t)[i] <= Used(t)[j]
<1> DEFINE N == Count(t)
           g == Used(t)
           s == [n \in 1..N |-> Size(Append(t, InOrder(Children(t))[n]))]
<1>1. /\ N \in Nat /\ g \in [0..N -> Nat]
      /\ \A n \in 1..N : g[n] = g[n - 1] + s[n] /\ s[n] \in Nat
  BY UsedIs, SizeIs
<1> HIDE DEF N, g, s
<1> DEFINE T == {m \in 0..N : \A k \in 0..m : g[k] <= g[m]}
<1>2. 0 \in T
  <2>1. 0 \in 0..N /\ \A k \in 0..0 : k = 0
    BY <1>1
  <2>2. g[0] <= g[0]
    BY <1>1, <2>1
  <2> QED
    BY <2>1, <2>2
<1>3. ASSUME NEW m \in 1..N, m - 1 \in T PROVE m \in T
  <2> DEFINE p == m - 1
  <2>1. p \in 0..N /\ m \in 0..N /\ \A k \in 0..m : k \in 0..N /\ (k = m \/ k \in 0..p)
    BY <1>1
  <2>2. g[m] = g[p] + s[m] /\ s[m] \in Nat /\ g[m] \in Nat /\ g[p] \in Nat
    BY <1>1, <2>1
  <2>3. \A k \in 0..p : g[k] <= g[p]
    BY <1>3
  <2> HIDE DEF p
  <2>4. ASSUME NEW k \in 0..m PROVE g[k] <= g[m]
    <3>1. g[k] \in Nat
      BY <1>1, <2>1
    <3>2. k = m \/ g[k] <= g[p]
      BY <2>1, <2>3
    <3> QED
      BY <2>2, <3>1, <3>2
  <2> QED
    BY <2>1, <2>4
<1> HIDE DEF T
<1>4. \A m \in 0..N : m \in T
  BY ONLY <1>1, <1>2, <1>3, StepsUp
<1>5. j \in 0..N
  BY DEF N
<1> QED
  BY <1>4, <1>5 DEF T, g

\* Where the block of a child goes.
At(t, c) == RootSize + Used(t)[Rank(t, c)]

\* The children's blocks come after what is in use, one after the other.
LEMMA BlocksOfChildren ==
    ASSUME bytes_used \in Nat, NEW t
    PROVE  /\ \A n \in 0..Count(t) : Used(t)[n] \in Nat /\ bytes_used <= Used(t)[n]
           /\ \A c \in Children(t) :
                 /\ At(t, c) \in Nat /\ RootSize + bytes_used <= At(t, c)
                 /\ \A n \in 0..Count(t) : Rank(t, c) < n =>
                       At(t, c) + Size(Append(t, c)) <= RootSize + Used(t)[n]
           /\ \A c, d \in Children(t) :
                 c < d => At(t, c) + Size(Append(t, c)) <= At(t, d)
<1> DEFINE N == Count(t)
           g == Used(t)
           R == RootSize
<1>1. /\ N \in Nat /\ g \in [0..N -> Nat] /\ g[0] = bytes_used
      /\ \A n \in 1..N : g[n] = g[n - 1] + Size(Append(t, InOrder(Children(t))[n]))
  BY UsedIs, SizeIs
<1>2. \A j \in 0..N : \A i \in 0..j : g[i] <= g[j]
  BY UsedGrows
<1>3. R \in Nat
  BY MemoryAssumption
<1> HIDE DEF N, g, R
<1>4. 0 \in 0..N /\ N \in 0..N /\ \A j \in 0..N : 0 \in 0..j /\ j \in 0..N
  BY <1>1
<1>5. \A n \in 0..N : g[n] \in Nat /\ bytes_used <= g[n]
  BY <1>1, <1>2, <1>4
<1>6. ASSUME NEW c \in Children(t)
      PROVE  /\ Rank(t, c) \in 0..N /\ g[Rank(t, c)] \in Nat /\ g[0] <= g[Rank(t, c)]
             /\ Rank(t, c) + 1 \in 0..N
             /\ g[Rank(t, c) + 1] = g[Rank(t, c)] + Size(Append(t, c))
  <2> DEFINE k == Rank(t, c)
             n == k + 1
  <2>1. k \in 0..(N - 1) /\ n \in 1..N /\ InOrder(Children(t))[n] = c
    <3>1. /\ Rank(t, c) \in 0..(Count(t) - 1) /\ Rank(t, c) + 1 \in 1..Count(t)
          /\ InOrder(Children(t))[Rank(t, c) + 1] = c
      BY ChildrenInOrder
    <3> QED
      BY <3>1 DEF N
  <2>5. n = k + 1
    OBVIOUS
  <2> HIDE DEF k, n
  <2>2. k \in 0..N /\ n \in 0..N /\ n - 1 = k /\ 0 \in 0..k
    BY <1>1, <2>1, <2>5
  <2>3. g[n] = g[k] + Size(Append(t, c))
    BY <1>1, <2>1, <2>2
  <2>4. g[k] \in Nat /\ g[0] <= g[k]
    BY <1>1, <1>2, <2>2
  <2> QED
    BY <2>2, <2>3, <2>4 DEF k, n
<1>7. \A c \in Children(t) : Size(Append(t, c)) \in Nat
  BY SizeIs
<1>8. ASSUME NEW c \in Children(t)
      PROVE  /\ At(t, c) \in Nat /\ R + bytes_used <= At(t, c)
             /\ At(t, c) + Size(Append(t, c)) = R + g[Rank(t, c) + 1]
  <2> DEFINE k == Rank(t, c)
             n == k + 1
             z == Size(Append(t, c))
  <2>1. /\ g[k] \in Nat /\ g[0] <= g[k] /\ n \in 0..N /\ g[n] = g[k] + z /\ z \in Nat
    BY <1>6, <1>7
  <2>2. At(t, c) = R + g[k]
    BY DEF At, R, g
  <2> HIDE DEF k, n, z
  <2>3. /\ R + g[k] \in Nat /\ R + bytes_used <= R + g[k]
        /\ (R + g[k]) + z = R + g[n]
    BY SMTT(20), <1>1, <1>3, <2>1
  <2> QED
    BY <2>2, <2>3 DEF k, n, z
<1>9. ASSUME NEW c \in Children(t), NEW d \in Children(t), c < d
      PROVE  At(t, c) + Size(Append(t, c)) <= At(t, d)
  <2> DEFINE n == Rank(t, c) + 1
             k == Rank(t, d)
  <2>1. n <= k /\ n \in 0..N /\ k \in 0..N
    BY <1>6, <1>9, ChildrenInOrder
  <2>2. n \in 0..k
    BY <2>1
  <2>3. g[n] <= g[k] /\ g[n] \in Nat /\ g[k] \in Nat
    BY <1>1, <1>2, <2>1, <2>2
  <2>4. At(t, c) + Size(Append(t, c)) = R + g[n]
    BY <1>8
  <2>5. At(t, d) = R + g[k]
    BY DEF At, R, g
  <2> HIDE DEF n, k
  <2>6. R + g[n] <= R + g[k]
    BY <1>3, <2>3
  <2> QED
    BY <2>4, <2>5, <2>6
<1>10. ASSUME NEW c \in Children(t), NEW n \in 0..N, Rank(t, c) < n
       PROVE  At(t, c) + Size(Append(t, c)) <= R + g[n]
  <2> DEFINE k == Rank(t, c)
             m == k + 1
  <2>1. k \in 0..N /\ m \in 0..N /\ k < n
    BY <1>6, <1>10
  <2>2. m \in 0..n
    BY <1>1, <2>1
  <2>3. g[m] <= g[n] /\ g[m] \in Nat /\ g[n] \in Nat
    BY <1>1, <1>2, <2>1, <2>2
  <2>4. At(t, c) + Size(Append(t, c)) = R + g[m]
    BY <1>8
  <2> HIDE DEF k, m
  <2>5. R + g[m] <= R + g[n]
    BY <1>3, <2>3
  <2> QED
    BY <2>4, <2>5
<1> QED
  BY <1>5, <1>8, <1>9, <1>10 DEF R, g, N

\* The loop stops after the first child that is too much: as many are allocated
\* as had a predecessor that was not.
LEMMA AllocatedIs ==
    ASSUME bytes_used \in 0..Alloced, NEW t
    PROVE  /\ Allocated(t) \in 0..Count(t)
           /\ \A n \in 1..Allocated(t) : Used(t)[n - 1] <= Alloced
           /\ Used(t)[Allocated(t)] <= Alloced => Allocated(t) = Count(t)
<1> DEFINE N == Count(t)
           g == Used(t)
           A == Alloced
           Fit(m) == {n \in 1..m : g[n - 1] <= A}
           Up(m, k) == Fit(m) = 1..k /\ (g[k] <= A => k = m)
           T == {m \in 0..N : \E k \in 0..m : Up(m, k)}
<1>1. /\ N \in Nat /\ A \in Nat /\ bytes_used \in Nat /\ bytes_used <= A
      /\ g \in [0..N -> Nat] /\ g[0] = bytes_used
  BY MemoryAssumption, UsedIs, SizeIs
<1>2. \A j \in 0..N : \A i \in 0..j : g[i] <= g[j]
  BY <1>1, UsedGrows
<1>3. Allocated(t) = Cardinality(Fit(N))
  BY DEF Allocated, Count
<1> HIDE DEF N, g, A
<1>4. 0 \in T
  <2>1. Fit(0) = 1..0 /\ 0 \in 0..0 /\ 0 \in 0..N
    BY <1>1
  <2> QED
    BY <2>1
<1>5. ASSUME NEW m \in 1..N, m - 1 \in T PROVE m \in T
  <2> DEFINE l == m - 1
  <2>1. l \in 0..N /\ m \in 0..N /\ m = l + 1 /\ l \in Nat /\ g[l] \in Nat
    BY <1>1
  <2>2. PICK k \in 0..l : Up(l, k)
    BY <1>5
  <2>3. k \in Nat /\ k <= l /\ k \in 0..N /\ k \in 0..m /\ g[k] \in Nat /\ g[k] <= g[l]
    BY <1>1, <1>2, <2>1
  <2>4. \A n \in 1..m : n = m \/ n \in 1..l
    BY <2>1
  <2>5. \A n \in 1..l : n \in 1..m /\ n # m
    BY <2>1
  <2>6. m - 1 = l /\ m \in 1..m
    BY <2>1
  <2> HIDE DEF l
  <2>7. CASE g[l] <= A
    <3>1. g[k] <= A
      BY <1>1, <2>1, <2>3, <2>7
    <3>2. k = l /\ Fit(l) = 1..l
      BY <2>2, <3>1
    <3>3. \A n \in 1..m : n \in Fit(m)
      BY <2>4, <2>6, <2>7, <3>2
    <3>4. Fit(m) = 1..m
      BY <3>3
    <3>5. m \in 0..m
      BY <2>1
    <3> QED
      BY <2>1, <3>4, <3>5
  <2>8. CASE ~(g[l] <= A)
    <3>1. Fit(m) = Fit(l)
      BY <2>4, <2>5, <2>6, <2>8
    <3>2. ~(g[k] <= A)
      BY <2>2, <2>8
    <3> QED
      BY <2>1, <2>2, <2>3, <3>1, <3>2
  <2> QED
    BY <2>7, <2>8
<1> HIDE DEF T
<1>6. \A m \in 0..N : m \in T
  BY ONLY <1>1, <1>4, <1>5, StepsUp
<1>7. PICK k \in 0..N : Up(N, k)
  <2>1. N \in 0..N
    BY <1>1
  <2> QED
    BY <1>6, <2>1 DEF T
<1>8. Cardinality(1..k) = k
  <2>1. k \in Nat /\ k \in Int /\ 1 \in Int
    BY <1>1
  <2>2. Cardinality(1..k) = IF 1 > k THEN 0 ELSE k - 1 + 1
    BY <2>1, FS_Interval
  <2> QED
    BY <2>1, <2>2
<1>9. Allocated(t) = k
  BY <1>3, <1>7, <1>8
<1>10. ASSUME NEW n \in 1..k PROVE g[n - 1] <= A
  BY <1>7
<1> QED
  BY <1>7, <1>9, <1>10 DEF N, g, A

\* The children that are allocated, and bytes_used after them.
Given(t) == {c \in Children(t) : Rank(t, c) < Allocated(t)}
End(t) == Used(t)[Allocated(t)]

\* They are the first ones, and all of them when CompactTrie goes on.  None is
\* further than just past the end of the memory.
LEMMA GivenIs ==
    ASSUME bytes_used \in 0..Alloced, NEW t
    PROVE  /\ Given(t) \subseteq Children(t) /\ Allocated(t) \in Nat /\ Allocated(t) <= Count(t)
           /\ \A n \in 1..Allocated(t) : /\ InOrder(Children(t))[n] \in Given(t)
                                         /\ Rank(t, InOrder(Children(t))[n]) = n - 1
           /\ \A c \in Given(t) : /\ Rank(t, c) + 1 \in 1..Allocated(t)
                                  /\ InOrder(Children(t))[Rank(t, c) + 1] = c
                                  /\ RootSize + bytes_used <= At(t, c)
                                  /\ At(t, c) \in Nat /\ At(t, c) <= RootSize + Alloced
                                  /\ At(t, c) + Size(Append(t, c)) <= RootSize + End(t)
           /\ End(t) \in Nat /\ bytes_used <= End(t)
           /\ End(t) <= Alloced => Given(t) = Children(t)
<1> DEFINE S == Children(t)
           N == Count(t)
           K == Allocated(t)
           g == Used(t)
           o == InOrder(S)
<1>1. /\ N \in Nat /\ Alloced \in Nat /\ RootSize \in Nat /\ bytes_used \in Nat
      /\ bytes_used <= Alloced /\ g \in [0..N -> Nat]
  BY MemoryAssumption, UsedIs, SizeIs
<1>2. K \in 0..N /\ (\A n \in 1..K : g[n - 1] <= Alloced) /\ (g[K] <= Alloced => K = N)
  BY AllocatedIs
<1>3. /\ \A n \in 1..N : o[n] \in S /\ Rank(t, o[n]) = n - 1
      /\ \A c \in S : Rank(t, c) \in 0..(N - 1) /\ o[Rank(t, c) + 1] = c
  BY ChildrenInOrder
<1>4. /\ \A n \in 0..N : g[n] \in Nat /\ bytes_used <= g[n]
      /\ \A c \in S : /\ At(t, c) \in Nat /\ RootSize + bytes_used <= At(t, c)
                      /\ At(t, c) = RootSize + g[Rank(t, c)]
                      /\ \A n \in 0..N : Rank(t, c) < n =>
                            At(t, c) + Size(Append(t, c)) <= RootSize + g[n]
  BY <1>1, BlocksOfChildren DEF At
<1>5. Given(t) = {c \in S : Rank(t, c) < K} /\ End(t) = g[K]
  BY DEF Given, End
<1> HIDE DEF S, N, K, g, o
<1>6. ASSUME NEW n \in 1..K PROVE o[n] \in Given(t) /\ Rank(t, o[n]) = n - 1
  <2>1. n \in 1..N /\ n - 1 < K
    BY <1>1, <1>2
  <2> QED
    BY <1>3, <1>5, <2>1
<1>7. ASSUME NEW c \in Given(t)
      PROVE  /\ Rank(t, c) + 1 \in 1..K /\ o[Rank(t, c) + 1] = c
             /\ RootSize + bytes_used <= At(t, c)
             /\ At(t, c) \in Nat /\ At(t, c) <= RootSize + Alloced
             /\ At(t, c) + Size(Append(t, c)) <= RootSize + g[K]
  <2> DEFINE k == Rank(t, c)
             n == k + 1
  <2>1. c \in S /\ k < K /\ k \in 0..(N - 1)
    BY <1>3, <1>5
  <2>2. n = k + 1
    OBVIOUS
  <2>3. /\ At(t, c) \in Nat /\ RootSize + bytes_used <= At(t, c)
        /\ At(t, c) = RootSize + g[k] /\ o[n] = c
        /\ At(t, c) + Size(Append(t, c)) <= RootSize + g[K]
    BY <1>2, <1>3, <1>4, <2>1
  <2> HIDE DEF k, n
  <2>4. n \in 1..K /\ n - 1 = k /\ k \in 0..N
    BY <1>1, <1>2, <2>1, <2>2
  <2>5. g[k] <= Alloced /\ g[k] \in Nat
    BY <1>1, <1>2, <2>4
  <2>6. RootSize + g[k] <= RootSize + Alloced
    BY <1>1, <2>5
  <2> QED
    BY <2>3, <2>4, <2>6 DEF k, n
<1>8. g[K] <= Alloced => Given(t) = S
  <2>1. \A c \in S : Rank(t, c) < N
    BY <1>1, <1>3
  <2> QED
    BY <1>2, <1>5, <2>1
<1>9. K \in Nat /\ K <= N /\ Given(t) \subseteq S /\ g[K] \in Nat /\ bytes_used <= g[K]
  BY <1>1, <1>2, <1>4, <1>5
<1> QED
  BY <1>5, <1>6, <1>7, <1>8, <1>9 DEF S, N, K, g, o

\* What Where and Items list.
LEMMA ItemsAre ==
    ASSUME NodesInv, bytes_used \in 0..Alloced, NEW t \in nodes
    PROVE  /\ Where(t) \in Seq(Nat) /\ Len(Where(t)) = Allocated(t)
           /\ DOMAIN Where(t) = 1..Allocated(t)
           /\ \A c \in Given(t) : Where(t)[Rank(t, c) + 1] = At(t, c)
           /\ \A n \in 1..Allocated(t) : Where(t)[n] = At(t, InOrder(Children(t))[n])
           /\ ToSet(Where(t)) = {At(t, c) : c \in Given(t)}
           /\ Items(t) \in Seq([t : nodes, pt : Nat]) /\ Len(Items(t)) = Allocated(t)
           /\ \A n \in 1..Allocated(t) :
                 Items(t)[n] = [t |-> Append(t, InOrder(Children(t))[n]),
                                pt |-> At(t, InOrder(Children(t))[n])]
           /\ ToSet(Items(t)) = {[t |-> Append(t, c), pt |-> At(t, c)] : c \in Given(t)}
<1> DEFINE N == Allocated(t)
           S == Given(t)
           o == InOrder(Children(t))
           V == [t : nodes, pt : Nat]
           item == [c \in S |-> [t |-> Append(t, c), pt |-> At(t, c)]]
           w == Where(t)
           it == Items(t)
<1>1. /\ N \in Nat /\ \A n \in 1..N : o[n] \in S /\ Rank(t, o[n]) = n - 1
      /\ \A c \in S : Rank(t, c) + 1 \in 1..N /\ o[Rank(t, c) + 1] = c
  BY GivenIs
<1>2. \A c \in S : At(t, c) \in Nat /\ Append(t, c) \in nodes
  BY GivenIs, ChildIs
<1>3. \A c \in S : item[c] \in V
  BY <1>2
<1>4. \A n \in 1..N : At(t, o[n]) = RootSize + Used(t)[n - 1]
  BY <1>1 DEF At
<1>5. w = [n \in 1..N |-> RootSize + Used(t)[n - 1]]
  BY DEF Where
<1>6. it = [n \in 1..N |-> [t |-> Append(t, o[n]), pt |-> w[n]]]
  BY DEF Items
<1> HIDE DEF N, o, S, w, it
<1>7. w \in [1..N -> Nat] /\ \A n \in 1..N : w[n] = At(t, o[n])
  BY <1>1, <1>2, <1>4, <1>5
<1>8. /\ it \in [1..N -> V]
      /\ \A n \in 1..N : it[n] = [t |-> Append(t, o[n]), pt |-> At(t, o[n])]
  <2>1. \A n \in 1..N : it[n] = [t |-> Append(t, o[n]), pt |-> At(t, o[n])] /\ it[n] \in V
    BY <1>1, <1>2, <1>6, <1>7
  <2> QED
    BY <1>6, <2>1
<1>9. \A n \in 1..N : it[n] = item[o[n]]
  BY <1>1, <1>8
<1> HIDE DEF V
<1>10. w \in Seq(Nat) /\ Len(w) = N /\ DOMAIN w = 1..N
  <2>1. w \in Seq(Nat)
    BY <1>1, <1>7, FunctionIsSeq
  <2>2. Len(w) \in Nat /\ DOMAIN w = 1..Len(w) /\ DOMAIN w = 1..N
    BY <1>7, <2>1, LenProperties
  <2> QED
    BY <1>1, <2>1, <2>2, SameInterval
<1>11. it \in Seq(V) /\ Len(it) = N /\ DOMAIN it = 1..N
  <2>1. it \in Seq(V)
    BY <1>1, <1>8, FunctionIsSeq
  <2>2. Len(it) \in Nat /\ DOMAIN it = 1..Len(it) /\ DOMAIN it = 1..N
    BY <1>8, <2>1, LenProperties
  <2> QED
    BY <1>1, <2>1, <2>2, SameInterval
<1>12. \A c \in S : w[Rank(t, c) + 1] = At(t, c)
  BY <1>1, <1>7
<1>13. ToSet(w) = {At(t, c) : c \in S}
  <2>1. ToSet(w) = {w[n] : n \in 1..N}
    BY <1>10 DEF ToSet
  <2>2. \A n \in 1..N : \E c \in S : w[n] = At(t, c)
    BY <1>1, <1>7
  <2>3. \A c \in S : \E n \in 1..N : w[n] = At(t, c)
    BY <1>1, <1>12
  <2> QED
    BY <2>1, <2>2, <2>3
<1>14. ToSet(it) = {item[c] : c \in S}
  <2>1. ToSet(it) = {it[n] : n \in 1..N}
    BY <1>11 DEF ToSet
  <2>2. \A n \in 1..N : \E c \in S : it[n] = item[c]
    BY <1>1, <1>9
  <2> HIDE DEF item
  <2>3. \A c \in S : \E n \in 1..N : it[n] = item[c]
    BY <1>1, <1>9
  <2> QED
    BY <2>1, <2>2, <2>3
<1>15. {item[c] : c \in S} = {[t |-> Append(t, c), pt |-> At(t, c)] : c \in S}
  OBVIOUS
<1> QED
  BY <1>7, <1>8, <1>10, <1>11, <1>12, <1>13, <1>14, <1>15 DEF w, it, N, S, o, V
-----------------------------------------------------------------------------
(* The queue of CompactTrie and the nodes copied so far. *)

\* The nodes that are allocated but not written yet, and the written ones.
Waiting == {x.t : x \in ToSet(todo)}
Done == DOMAIN placed \ Waiting
Bits(t) == Children(t) \cup (IF IsWordNode(t) THEN {WordBit} ELSE {})

MemType ==
    /\ pc \in {"load", "loaded", "compact", "ready", "null"}
    /\ bits_ \in [Addresses -> SUBSET (Letters \cup {WordBit})]
    /\ data_ \in [Addresses -> Nat]
    /\ bytes_used \in Nat /\ (pc = "null" <=> bytes_used > Alloced)
    /\ todo \in Seq([t : nodes, pt : Nat])

\* What the phases before and after the copying are like.
PhaseInv ==
    /\ pc \in {"load", "loaded"} =>
          /\ todo = <<>> /\ DOMAIN placed = {} /\ bytes_used = 0
          /\ bits_ = [p \in Addresses |-> {}]
    /\ pc \notin {"load", "loaded"} => <<>> \in DOMAIN placed
    /\ pc = "ready" => todo = <<>> /\ marked \in [words -> Nat]

\* A node is in the queue once, with its place.
PlacedInv ==
    /\ DOMAIN placed \subseteq nodes
    /\ \A x \in ToSet(todo) : x.t \in DOMAIN placed /\ x.pt = placed[x.t]
    /\ \A i, j \in 1..Len(todo) : todo[i].t = todo[j].t => i = j

\* A node has a place once its parent is written, unless CompactTrie gave up.
ClosedInv ==
    /\ \A t \in DOMAIN placed : t # <<>> => Front(t) \in Done
    /\ pc # "null" =>
          \A t \in Done : \A c \in Children(t) : Append(t, c) \in DOMAIN placed

\* The places are apart by what AllocatePT counts for each.  All of a written node
\* is within its block; one that waits may begin just past the end.
Apart(p, m, q, n) == p + m <= q \/ q + n <= p
BlocksInv ==
    /\ \A t \in DOMAIN placed :
          /\ placed[t] \in Nat /\ placed[t] + Size(t) <= RootSize + bytes_used
          /\ placed[t] <= RootSize + Alloced
          /\ t \in Done => placed[t] + Size(t) <= RootSize + Alloced
          /\ t = <<>> => placed[t] = Root
          /\ t # <<>> => RootSize <= placed[t] /\ placed[Front(t)] < placed[t]
          /\ \A u \in DOMAIN placed \ {t} : Apart(placed[t], Size(t), placed[u], Size(u))

\* What is in a written node, and in one that waits.  The last one may be written
\* in part when CompactTrie gives up.
WrittenInv ==
    /\ \A t \in Waiting : bits_[placed[t]] = {}
    /\ \A t \in Done : bits_[placed[t]] \subseteq Bits(t)
ContentsInv ==
    \A t \in Done :
       /\ bits_[placed[t]] = Bits(t)
       /\ \A c \in Children(t) :
             data_[placed[t] + 1 + Off(t) + Rank(t, c)] = placed[Append(t, c)]
       /\ pc = "ready" /\ t \in words => data_[placed[t] + 1] = marked[t]
       /\ pc # "ready" /\ t \in words => data_[placed[t] + 1] = 0

\* The queue goes level by level, and addresses with it.
LevelInv ==
    /\ \A i, j \in 1..Len(todo) : i < j => Len(todo[i].t) <= Len(todo[j].t)
    /\ todo # <<>> => \A u \in DOMAIN placed : Len(u) <= Len(Head(todo).t) + 1
    /\ BreadthFirst

\* What is used of the memory until CompactTrie gives up.
LEMMA RoomIs ==
    ASSUME MemType
    PROVE  /\ RootSize \in Nat /\ Alloced \in Nat /\ bytes_used \in Nat
           /\ pc # "null" => bytes_used <= Alloced /\ bytes_used \in 0..Alloced
<1>1. RootSize \in Nat /\ Alloced \in Nat /\ bytes_used \in Nat
  BY MemoryAssumption DEF MemType
<1>2. pc # "null" => ~(bytes_used > Alloced)
  BY DEF MemType
<1> QED
  BY <1>1, <1>2

\* The node whose turn it is.
Cur == Head(todo).t

\* It is in the queue once, and where its item says.
LEMMA CurIs ==
    ASSUME MemType, PlacedInv, todo # <<>>
    PROVE  /\ Cur \in nodes /\ Cur \in DOMAIN placed /\ Cur \in Waiting
           /\ Head(todo).pt = placed[Cur]
           /\ Waiting = {Cur} \cup {x.t : x \in ToSet(Tail(todo))}
           /\ Cur \notin {x.t : x \in ToSet(Tail(todo))}
           /\ Tail(todo) \in Seq([t : nodes, pt : Nat])
           /\ Len(todo) \in Nat \ {0} /\ Len(Tail(todo)) = Len(todo) - 1
           /\ \A i \in 1..Len(Tail(todo)) : i + 1 \in 1..Len(todo) /\ Tail(todo)[i] = todo[i + 1]
           /\ Head(todo) = todo[1]
<1> DEFINE V == [t : nodes, pt : Nat]
           r == Tail(todo)
           h == Head(todo)
<1>1. todo \in Seq(V) /\ todo # <<>>
  BY DEF MemType
<1>2. \A x \in V : x.t \in nodes
  OBVIOUS
<1> HIDE DEF V
<1>3. h = todo[1] /\ h \in V /\ r \in Seq(V)
  BY <1>1, HeadTailProperties
<1>4. Len(todo) \in Nat \ {0} /\ Len(r) = Len(todo) - 1
  BY <1>1, HeadTailProperties, LenProperties, EmptySeq
<1>5. \A i \in 1..Len(r) : i + 1 \in 1..Len(todo) /\ r[i] = todo[i + 1] /\ i + 1 # 1
  <2>1. \A i \in 1..Len(r) : r[i] = todo[i + 1]
    BY <1>1, HeadTailProperties
  <2> HIDE DEF r
  <2> QED
    BY <1>4, <2>1
<1>6. ToSet(todo) = {h} \cup ToSet(r)
  BY ONLY <1>1, HeadAndTail
<1>7. ToSet(r) = {r[i] : i \in 1..Len(r)}
  BY <1>3, LenProperties DEF ToSet
<1>8. Cur \in nodes /\ h.t = Cur
  BY <1>2, <1>3 DEF Cur
<1> HIDE DEF h, r
<1>9. Cur \in DOMAIN placed /\ h.pt = placed[Cur]
  BY <1>6, <1>8 DEF PlacedInv
<1>10. Waiting = {Cur} \cup {x.t : x \in ToSet(r)}
  BY <1>6, <1>8 DEF Waiting
<1>11. \A x \in ToSet(r) : x.t # Cur
  <2>1. ASSUME NEW i \in 1..Len(r) PROVE r[i].t # Cur
    <3>1. i + 1 \in 1..Len(todo) /\ 1 \in 1..Len(todo) /\ i + 1 # 1
      BY <1>4, <1>5
    <3>2. todo[i + 1].t # todo[1].t
      BY <3>1 DEF PlacedInv
    <3> QED
      BY <1>3, <1>5, <1>8, <3>2
  <2> QED
    BY <1>7, <2>1
<1> QED
  BY <1>3, <1>4, <1>5, <1>8, <1>9, <1>10, <1>11 DEF h, r, V

\* Its children that are allocated with it.
New == {Append(Cur, c) : c \in Given(Cur)}

\* None of them has a place yet.
LEMMA NewIs ==
    ASSUME NodesInv, MemType, PlacedInv, ClosedInv, todo # <<>>
    PROVE  New \cap DOMAIN placed = {} /\ New \subseteq nodes
<1>1. Cur \in nodes /\ Cur \in Waiting
  BY CurIs
<1>2. ASSUME NEW c \in Children(Cur)
      PROVE  Append(Cur, c) \in nodes /\ Append(Cur, c) \notin DOMAIN placed
  <2>1. Append(Cur, c) \in nodes /\ Append(Cur, c) # <<>> /\ Front(Append(Cur, c)) = Cur
    BY <1>1, ChildIs
  <2>2. Append(Cur, c) \in DOMAIN placed => Front(Append(Cur, c)) \in Done
    BY <2>1 DEF ClosedInv
  <2> QED
    BY <1>1, <2>1, <2>2 DEF Done
<1> QED
  BY <1>2 DEF New, Given

\* What it does.
LEMMA CompactIs ==
    ASSUME NodesInv, MemType, PlacedInv, Compact
    PROVE  /\ todo # <<>> /\ pc = "compact" /\ bytes_used \in 0..Alloced
           /\ pc' = (IF End(Cur) > Alloced THEN "null" ELSE "compact")
           /\ bytes_used' = End(Cur)
           /\ bits_' = [p \in Addresses |->
                 IF p = placed[Cur]
                 THEN Given(Cur) \cup (IF IsWordNode(Cur) THEN {WordBit} ELSE {})
                 ELSE IF p \in ToSet(Where(Cur)) THEN {} ELSE bits_[p]]
           /\ data_' = [p \in Addresses |->
                 IF Off(Cur) = 1 /\ p = placed[Cur] + 1 THEN 0
                 ELSE IF p - placed[Cur] - Off(Cur) \in 1..Allocated(Cur)
                 THEN Where(Cur)[p - placed[Cur] - Off(Cur)] ELSE data_[p]]
           /\ todo' = Tail(todo) \o Items(Cur)
           /\ placed' = [t \in DOMAIN placed \cup {x.t : x \in ToSet(Items(Cur))} |->
                 IF t \in DOMAIN placed THEN placed[t]
                 ELSE (CHOOSE x \in ToSet(Items(Cur)) : x.t = t).pt]
           /\ UNCHANGED reading /\ UNCHANGED marked
<1>1. pc = "compact" /\ todo # <<>>
  BY DEF Compact
<1>2. Cur \in nodes /\ Head(todo).pt = placed[Cur] /\ Cur = Head(todo).t
  BY <1>1, CurIs DEF Cur
<1>3. bytes_used \in 0..Alloced
  BY <1>1, RoomIs
<1>4. Len(Where(Cur)) = Allocated(Cur) /\ DOMAIN Where(Cur) = 1..Allocated(Cur)
  BY <1>2, <1>3, ItemsAre
<1>5. {InOrder(Children(Cur))[n] : n \in 1..Allocated(Cur)} = Given(Cur)
  <2>1. \A n \in 1..Allocated(Cur) : InOrder(Children(Cur))[n] \in Given(Cur)
    BY <1>3, GivenIs
  <2>2. \A c \in Given(Cur) : \E n \in 1..Allocated(Cur) : InOrder(Children(Cur))[n] = c
    BY <1>3, GivenIs
  <2> QED
    BY <2>1, <2>2
<1>6. (IF Off(Cur) = 1 THEN {WordBit} ELSE {}) = (IF IsWordNode(Cur) THEN {WordBit} ELSE {})
  BY DEF Off
<1>7. /\ pc' = (IF bytes_used' > Alloced THEN "null" ELSE "compact")
      /\ bytes_used' = Used(Cur)[Len(Where(Cur))]
      /\ bits_' = [p \in Addresses |->
            IF p = Head(todo).pt
            THEN {InOrder(Children(Cur))[n] : n \in DOMAIN Where(Cur)} \cup
                 (IF Off(Cur) = 1 THEN {WordBit} ELSE {})
            ELSE IF p \in ToSet(Where(Cur)) THEN {} ELSE bits_[p]]
      /\ data_' = [p \in Addresses |->
            IF Off(Cur) = 1 /\ p = Head(todo).pt + 1 THEN 0
            ELSE IF p - Head(todo).pt - Off(Cur) \in DOMAIN Where(Cur)
            THEN Where(Cur)[p - Head(todo).pt - Off(Cur)] ELSE data_[p]]
      /\ todo' = Tail(todo) \o Items(Cur)
      /\ placed' = [t \in DOMAIN placed \cup {x.t : x \in ToSet(Items(Cur))} |->
            IF t \in DOMAIN placed THEN placed[t]
            ELSE (CHOOSE x \in ToSet(Items(Cur)) : x.t = t).pt]
      /\ UNCHANGED reading /\ UNCHANGED marked
  BY DEF Compact, Queued, Off, Cur, reading
<1>8. bytes_used' = End(Cur)
  BY <1>4, <1>7 DEF End
<1> QED
  BY <1>1, <1>2, <1>3, <1>4, <1>5, <1>6, <1>7, <1>8

\* The queue and the places after it.
LEMMA QueueStep ==
    ASSUME NodesInv, MemType, PlacedInv, ClosedInv, Compact
    PROVE  /\ DOMAIN placed' = DOMAIN placed \cup New
           /\ \A u \in DOMAIN placed : placed'[u] = placed[u]
           /\ \A c \in Given(Cur) : placed'[Append(Cur, c)] = At(Cur, c)
           /\ todo' \in Seq([t : nodes, pt : Nat])
           /\ ToSet(todo') = ToSet(Tail(todo)) \cup ToSet(Items(Cur))
           /\ \A x \in ToSet(todo') : x.t \in DOMAIN placed' /\ x.pt = placed'[x.t]
           /\ Waiting' = (Waiting \ {Cur}) \cup New
           /\ Done' = Done \cup {Cur}
<1> DEFINE S == Given(Cur)
           I == ToSet(Items(Cur))
           V == [t : nodes, pt : Nat]
           r == Tail(todo)
           W == {x.t : x \in ToSet(r)}
<1>1. todo # <<>> /\ bytes_used \in 0..Alloced /\ S \subseteq Children(Cur)
  BY CompactIs DEF Given
<1>2. /\ Cur \in nodes /\ Cur \in DOMAIN placed /\ r \in Seq(V)
      /\ Waiting = {Cur} \cup W /\ Cur \notin W
  BY <1>1, CurIs
<1>4. Items(Cur) \in Seq(V) /\ I = {[t |-> Append(Cur, c), pt |-> At(Cur, c)] : c \in S}
  BY <1>1, <1>2, ItemsAre
<1>5. /\ todo' = r \o Items(Cur)
      /\ placed' = [t \in DOMAIN placed \cup {x.t : x \in I} |->
            IF t \in DOMAIN placed THEN placed[t] ELSE (CHOOSE x \in I : x.t = t).pt]
  BY CompactIs
<1>6. New \cap DOMAIN placed = {}
  BY <1>1, NewIs
<1>7. {x.t : x \in I} = New
  <2>1. \A x \in I : \E c \in S : x.t = Append(Cur, c)
    BY <1>4
  <2>2. ASSUME NEW c \in S PROVE \E x \in I : x.t = Append(Cur, c)
    <3>1. [t |-> Append(Cur, c), pt |-> At(Cur, c)] \in I
      BY <1>4
    <3> QED
      BY <3>1
  <2> QED
    BY <2>1, <2>2 DEF New
<1>8. DOMAIN placed' = DOMAIN placed \cup New
  BY <1>5, <1>7
<1>9. \A u \in DOMAIN placed : placed'[u] = placed[u]
  BY <1>5
<1>10. ASSUME NEW c \in S PROVE placed'[Append(Cur, c)] = At(Cur, c)
  <2> DEFINE u == Append(Cur, c)
             y == [t |-> u, pt |-> At(Cur, c)]
  <2>1. u \in New
    BY DEF New
  <2>2. u \notin DOMAIN placed /\ u \in DOMAIN placed \cup {x.t : x \in I}
    BY <1>6, <1>7, <2>1
  <2>3. placed'[u] = (CHOOSE x \in I : x.t = u).pt
    BY <1>5, <2>2
  <2>4. y \in I /\ y.t = u /\ y.pt = At(Cur, c)
    BY <1>4
  <2>5. ASSUME NEW x \in I, x.t = u PROVE x = y
    <3>1. PICK d \in S : x = [t |-> Append(Cur, d), pt |-> At(Cur, d)]
      BY <1>4
    <3>2. Append(Cur, c) = Append(Cur, d)
      BY <2>5, <3>1
    <3>3. c = d
      BY <1>1, <1>2, <3>2, ChildIs
    <3> QED
      BY <3>1, <3>3
  <2> HIDE DEF u, y
  <2>6. (CHOOSE x \in I : x.t = u) = y
    BY <2>4, <2>5
  <2> QED
    BY <2>3, <2>4, <2>6 DEF u
<1> HIDE DEF V, r, S
<1>11. todo' \in Seq(V) /\ ToSet(todo') = ToSet(r) \cup I
  <2>1. r \o Items(Cur) \in Seq(V) /\ ToSet(r \o Items(Cur)) = ToSet(r) \cup ToSet(Items(Cur))
    BY ONLY <1>2, <1>4, ToSetConcat
  <2> QED
    BY <1>5, <2>1
<1>12. ASSUME NEW x \in ToSet(todo') PROVE x.t \in DOMAIN placed' /\ x.pt = placed'[x.t]
  <2>1. CASE x \in ToSet(r)
    <3>1. ToSet(todo) = {Head(todo)} \cup ToSet(r)
      <4>1. todo \in Seq([t : nodes, pt : Nat]) /\ todo # <<>>
        BY <1>1 DEF MemType
      <4>2. ToSet(todo) = {Head(todo)} \cup ToSet(Tail(todo))
        BY ONLY <4>1, HeadAndTail
      <4> QED
        BY <4>2 DEF r
    <3>2. x.t \in DOMAIN placed /\ x.pt = placed[x.t]
      BY <2>1, <3>1 DEF PlacedInv
    <3> QED
      BY <1>8, <1>9, <3>2
  <2>2. CASE x \in I
    <3>1. PICK c \in S : x = [t |-> Append(Cur, c), pt |-> At(Cur, c)]
      BY <1>4, <2>2 DEF S
    <3>2. x.t = Append(Cur, c) /\ x.pt = At(Cur, c) /\ Append(Cur, c) \in New
      BY <3>1 DEF New, S
    <3> QED
      BY <1>8, <1>10, <3>2 DEF S
  <2> QED
    BY <1>11, <2>1, <2>2
<1>13. Waiting' = W \cup New
  BY <1>7, <1>11 DEF Waiting
<1>14. Done' = Done \cup {Cur}
  BY <1>2, <1>6, <1>8, <1>13 DEF Done
<1> QED
  BY <1>2, <1>8, <1>9, <1>10, <1>11, <1>12, <1>13, <1>14 DEF V, r, S

\* Compact writes the node, empties the children's blocks, and nothing else.
LEMMA MemoryStep ==
    ASSUME NodesInv, MemType, PlacedInv, BlocksInv, Compact
    PROVE  /\ bytes_used <= bytes_used' /\ bytes_used' \in Nat
           /\ bits_' \in [Addresses -> SUBSET (Letters \cup {WordBit})]
           /\ data_' \in [Addresses -> Nat]
           /\ bits_'[placed[Cur]] \subseteq Bits(Cur)
           /\ pc' # "null" => Given(Cur) = Children(Cur) /\ bits_'[placed[Cur]] = Bits(Cur)
           /\ \A c \in Given(Cur) : bits_'[At(Cur, c)] = {}
           /\ \A p \in Addresses : p # placed[Cur] /\ p < RootSize + bytes_used
                                      => bits_'[p] = bits_[p]
           /\ \A c \in Given(Cur) :
                 data_'[placed[Cur] + 1 + Off(Cur) + Rank(Cur, c)] = At(Cur, c)
           /\ Cur \in words => data_'[placed[Cur] + 1] = 0
           /\ \A p \in Addresses : p <= placed[Cur] \/ placed[Cur] + Size(Cur) <= p
                                      => data_'[p] = data_[p]
<1> DEFINE S == Given(Cur)
           pt == placed[Cur]
           off == Off(Cur)
           N == Allocated(Cur)
           written == S \cup (IF IsWordNode(Cur) THEN {WordBit} ELSE {})
           Z == Size(Cur)
           R == RootSize
           b == bytes_used
           w == Where(Cur)
<1>1. todo # <<>> /\ bytes_used \in 0..Alloced /\ pc = "compact"
  BY CompactIs
<1>2. Cur \in nodes /\ Cur \in DOMAIN placed
  BY <1>1, CurIs
<1>3. R \in Nat /\ Alloced \in Nat /\ b \in Nat /\ R > 0
  <2>1. kNumLetters \in Nat
    BY LettersAre
  <2> QED
    BY <2>1, MemoryAssumption DEF MemType
<1>4. /\ w \in Seq(Nat) /\ DOMAIN w = 1..N
      /\ \A c \in S : w[Rank(Cur, c) + 1] = At(Cur, c)
      /\ \A n \in 1..N : w[n] = At(Cur, InOrder(Children(Cur))[n])
      /\ ToSet(w) = {At(Cur, c) : c \in S}
  BY <1>1, <1>2, ItemsAre
<1>5. /\ bytes_used' = End(Cur) /\ pc' = (IF End(Cur) > Alloced THEN "null" ELSE "compact")
      /\ bits_' = [p \in Addresses |->
            IF p = pt THEN written ELSE IF p \in ToSet(w) THEN {} ELSE bits_[p]]
      /\ data_' = [p \in Addresses |->
            IF off = 1 /\ p = pt + 1 THEN 0
            ELSE IF p - pt - off \in 1..N THEN w[p - pt - off] ELSE data_[p]]
  BY CompactIs
<1>6. /\ End(Cur) \in Nat /\ b <= End(Cur)
      /\ \A c \in S : /\ At(Cur, c) \in Nat /\ R + b <= At(Cur, c)
                      /\ At(Cur, c) <= R + Alloced
      /\ End(Cur) <= Alloced => S = Children(Cur)
  BY <1>1, GivenIs
<1>7. /\ N \in Nat /\ off \in {0, 1} /\ Z = 1 + off + Count(Cur) /\ Count(Cur) \in Nat
      /\ N <= Count(Cur)
      /\ pt \in Nat /\ pt + Z <= R + b
  BY <1>1, <1>2, SizeIs, GivenIs DEF BlocksInv
<1>8. /\ \A c \in S : Rank(Cur, c) \in Nat /\ Rank(Cur, c) + 1 \in 1..N
      /\ \A n \in 1..N : InOrder(Children(Cur))[n] \in S
  <2>1. \A c \in S : Rank(Cur, c) \in 0..(Count(Cur) - 1)
    BY ChildrenInOrder DEF Given
  <2>2. \A c \in S : Rank(Cur, c) \in Nat
    BY <2>1
  <2> QED
    BY <1>1, <2>2, GivenIs
<1>9. Addresses = 0..(R + Alloced)
  BY DEF Addresses, PastEnd
<1>10. b <= Alloced /\ b <= bytes_used' /\ bytes_used' \in Nat
  BY <1>1, <1>5, <1>6
<1>11. ASSUME NEW p \in Nat, p < R + b PROVE p \in Addresses
  BY <1>3, <1>9, <1>10, <1>11
<1>12. /\ written \in SUBSET (Letters \cup {WordBit}) /\ written \subseteq Bits(Cur)
       /\ pc' # "null" => S = Children(Cur) /\ written = Bits(Cur)
  <2>1. S \subseteq Children(Cur) /\ Children(Cur) \subseteq Letters
    BY SizeIs DEF Given
  <2>2. pc' # "null" => S = Children(Cur)
    <3>1. pc' # "null" => ~(End(Cur) > Alloced)
      BY <1>5
    <3> QED
      BY <1>3, <1>6, <3>1
  <2> QED
    BY <2>1, <2>2 DEF Bits
<1>13. ASSUME NEW c \in S PROVE At(Cur, c) \in Addresses /\ At(Cur, c) # pt
  <2> DEFINE q == At(Cur, c)
  <2>1. q \in Nat /\ R + b <= q /\ q <= R + Alloced
    BY <1>6
  <2> HIDE DEF q, R, b, pt, Z, off, N
  <2>2. q \in 0..(R + Alloced) /\ q # pt
    BY <1>3, <1>7, <2>1
  <2> QED
    BY <1>9, <2>2 DEF q
<1> HIDE DEF S, pt, off, N, Z, R, b, w, written
<1>14. bits_' \in [Addresses -> SUBSET (Letters \cup {WordBit})]
  <2>1. \A p \in Addresses : bits_[p] \in SUBSET (Letters \cup {WordBit})
    BY DEF MemType
  <2> QED
    BY <1>5, <1>12, <2>1
<1>15. data_' \in [Addresses -> Nat]
  <2>1. \A p \in Addresses : data_[p] \in Nat
    BY DEF MemType
  <2>2. \A n \in 1..N : w[n] \in Nat
    BY <1>4, <1>6, <1>8
  <2> QED
    BY <1>5, <2>1, <2>2
<1>16. pt \in Addresses /\ bits_'[pt] = written
  <2>1. pt < R + b
    BY <1>3, <1>7
  <2> QED
    BY <1>5, <1>7, <1>11, <2>1
<1>17. ASSUME NEW c \in S PROVE bits_'[At(Cur, c)] = {}
  <2>1. At(Cur, c) \in ToSet(w)
    BY <1>4
  <2> QED
    BY <1>5, <1>13, <2>1
<1>18. ASSUME NEW p \in Addresses, p # pt, p < R + b PROVE bits_'[p] = bits_[p]
  <2>1. ASSUME NEW c \in S PROVE At(Cur, c) # p
    BY <1>3, <1>6, <1>18, <1>9
  <2>2. p \notin ToSet(w)
    BY <1>4, <2>1
  <2> QED
    BY <1>5, <1>18, <2>2
<1>19. ASSUME NEW c \in S PROVE data_'[pt + 1 + off + Rank(Cur, c)] = At(Cur, c)
  <2> DEFINE k == Rank(Cur, c)
             n == k + 1
             p == pt + 1 + off + k
  <2>1. k \in Nat /\ n \in 1..N /\ w[n] = At(Cur, c)
    BY <1>4, <1>8
  <2>2. n = k + 1 /\ p = pt + 1 + off + k
    OBVIOUS
  <2> HIDE DEF k, n, p
  <2>3. p \in Nat /\ p < R + b /\ p - pt - off = n /\ ~(off = 1 /\ p = pt + 1)
    BY <1>3, <1>7, <2>1, <2>2
  <2>4. p \in Addresses
    BY <1>11, <2>3
  <2>5. data_'[p] = w[n]
    BY <1>5, <2>1, <2>3, <2>4
  <2> QED
    BY <2>1, <2>5 DEF p, k
<1>20. ASSUME Cur \in words PROVE data_'[pt + 1] = 0
  <2>1. off = 1
    BY <1>20 DEF off, Off, IsWordNode
  <2> DEFINE p == pt + 1
  <2>2. p \in Nat /\ p < R + b
    BY <1>3, <1>7, <2>1
  <2>3. p = pt + 1
    OBVIOUS
  <2> HIDE DEF p
  <2>4. p \in Addresses
    BY <1>11, <2>2
  <2> QED
    BY <1>5, <2>1, <2>3, <2>4
<1>21. ASSUME NEW p \in Addresses, p <= pt \/ pt + Z <= p PROVE data_'[p] = data_[p]
  <2>1. ~(off = 1 /\ p = pt + 1) /\ p - pt - off \notin 1..N
    BY <1>3, <1>7, <1>9, <1>21
  <2> QED
    BY <1>5, <2>1
<1> QED
  BY <1>10, <1>12, <1>14, <1>15, <1>16, <1>17, <1>18, <1>19, <1>20, <1>21 DEF S, pt, off, Z, R, b

\* The blocks, bits and ranks depend on the SimpleTrie alone.
LEMMA SameTree ==
    ASSUME UNCHANGED <<nodes, words>>
    PROVE  \A t : /\ Children(t)' = Children(t) /\ Size(t)' = Size(t) /\ Off(t)' = Off(t)
                  /\ Bits(t)' = Bits(t) /\ \A c : Rank(t, c)' = Rank(t, c)
<1>1. \A t : Children(t)' = Children(t) /\ (IsWordNode(t)' <=> IsWordNode(t))
  BY DEF Children, IsWordNode
<1>2. ASSUME NEW t
      PROVE  /\ Size(t)' = Size(t) /\ Off(t)' = Off(t) /\ Bits(t)' = Bits(t)
             /\ \A c : Rank(t, c)' = Rank(t, c)
  BY <1>1 DEF Size, Off, Bits, Rank, RankIn
<1> QED
  BY <1>1, <1>2

\* The queue goes on with what was in it, then with the children in their order.
LEMMA TodoCases ==
    ASSUME NodesInv, MemType, PlacedInv, ClosedInv, Compact
    PROVE  /\ Len(todo) - 1 \in Nat /\ Len(todo') \in Nat
           /\ \A i \in 1..Len(todo') :
                 \/ /\ i \in 1..(Len(todo) - 1) /\ i + 1 \in 1..Len(todo)
                    /\ todo'[i] = todo[i + 1]
                 \/ /\ i > Len(todo) - 1
                    /\ \E c \in Given(Cur) : /\ todo'[i].t = Append(Cur, c)
                                             /\ Rank(Cur, c) = i - Len(todo)
<1> DEFINE r == Tail(todo)
           s == Items(Cur)
           L == Len(todo)
           N == Allocated(Cur)
           V == [t : nodes, pt : Nat]
<1>1. /\ todo # <<>> /\ todo' = r \o s /\ bytes_used \in 0..Alloced
  BY CompactIs
<1>2. /\ Cur \in nodes /\ r \in Seq(V) /\ L \in Nat \ {0} /\ Len(r) = L - 1
      /\ \A i \in 1..Len(r) : i + 1 \in 1..L /\ r[i] = todo[i + 1]
  BY <1>1, CurIs
<1>4. /\ s \in Seq(V) /\ Len(s) = N
      /\ \A n \in 1..N : s[n].t = Append(Cur, InOrder(Children(Cur))[n])
  <2>1. /\ Items(Cur) \in Seq([t : nodes, pt : Nat]) /\ Len(Items(Cur)) = Allocated(Cur)
        /\ \A n \in 1..Allocated(Cur) :
              Items(Cur)[n] = [t |-> Append(Cur, InOrder(Children(Cur))[n]),
                               pt |-> At(Cur, InOrder(Children(Cur))[n])]
    BY <1>1, <1>2, ItemsAre
  <2> QED
    BY <2>1
<1>5. N \in Nat /\ \A n \in 1..N : /\ InOrder(Children(Cur))[n] \in Given(Cur)
                                   /\ Rank(Cur, InOrder(Children(Cur))[n]) = n - 1
  BY <1>1, GivenIs
<1> HIDE DEF V, s, r, L, N
<1>6. /\ Len(r \o s) = Len(r) + Len(s)
      /\ \A i \in 1..(Len(r) + Len(s)) : (r \o s)[i] = IF i <= Len(r) THEN r[i] ELSE s[i - Len(r)]
  BY ONLY <1>2, <1>4, ConcatProperties
<1>7. ASSUME NEW i \in 1..Len(todo')
      PROVE  \/ i \in 1..(L - 1) /\ i + 1 \in 1..L /\ todo'[i] = todo[i + 1]
             \/ /\ i > L - 1
                /\ \E c \in Given(Cur) : todo'[i].t = Append(Cur, c) /\ Rank(Cur, c) = i - L
  <2>1. i \in 1..(Len(r) + Len(s)) /\ todo'[i] = IF i <= Len(r) THEN r[i] ELSE s[i - Len(r)]
    BY <1>1, <1>6
  <2>2. CASE i <= Len(r)
    <3>1. i \in 1..Len(r) /\ i \in 1..(L - 1)
      BY <1>2, <1>4, <1>5, <2>1, <2>2
    <3> QED
      BY <1>2, <2>1, <2>2, <3>1
  <2>3. CASE ~(i <= Len(r))
    <3> DEFINE n == i - Len(r)
    <3>1. n \in 1..N /\ i > L - 1 /\ n - 1 = i - L
      BY <1>2, <1>4, <1>5, <2>1, <2>3
    <3>2. todo'[i] = s[n]
      BY <2>1, <2>3
    <3> HIDE DEF n
    <3>3. todo'[i].t = Append(Cur, InOrder(Children(Cur))[n])
      BY <1>4, <3>1, <3>2
    <3>4. Rank(Cur, InOrder(Children(Cur))[n]) = i - L
      BY <1>5, <3>1
    <3>5. InOrder(Children(Cur))[n] \in Given(Cur)
      BY <1>5, <3>1
    <3> QED
      BY <3>1, <3>3, <3>4, <3>5
  <2> QED
    BY <2>2, <2>3
<1>8. L - 1 \in Nat /\ Len(todo') \in Nat
  BY <1>1, <1>2, <1>4, <1>5, <1>6
<1> QED
  BY <1>7, <1>8 DEF L

\* Compact keeps the types and the queue.
LEMMA PlacedStep ==
    ASSUME NodesInv, MemType, PlacedInv, ClosedInv, BlocksInv, Compact
    PROVE  MemType' /\ PlacedInv' /\ ClosedInv'
<1>1. /\ todo # <<>> /\ UNCHANGED <<nodes, words>> /\ pc = "compact"
      /\ pc' = (IF bytes_used' > Alloced THEN "null" ELSE "compact")
  BY CompactIs DEF reading
<1>2. /\ DOMAIN placed' = DOMAIN placed \cup New
      /\ todo' \in Seq([t : nodes, pt : Nat])
      /\ \A x \in ToSet(todo') : x.t \in DOMAIN placed' /\ x.pt = placed'[x.t]
      /\ Done' = Done \cup {Cur}
  BY QueueStep
<1>3. New \cap DOMAIN placed = {} /\ New \subseteq nodes
  BY <1>1, NewIs
<1>4. Cur \in nodes
  BY <1>1, CurIs
<1>5. MemType'
  <2>1. /\ bits_' \in [Addresses -> SUBSET (Letters \cup {WordBit})]
        /\ data_' \in [Addresses -> Nat] /\ bytes_used' \in Nat
    BY MemoryStep
  <2> QED
    BY <1>1, <1>2, <2>1 DEF MemType
<1>6. ASSUME NEW i \in 1..Len(todo'), NEW j \in 1..Len(todo'), todo'[i].t = todo'[j].t
      PROVE  i = j
  <2> DEFINE L == Len(todo)
             Old(k) == k \in 1..(L - 1) /\ k + 1 \in 1..L /\ todo'[k] = todo[k + 1]
             Child(k) == \E c \in Given(Cur) : /\ todo'[k].t = Append(Cur, c)
                                               /\ Rank(Cur, c) = k - L
  <2>1. L - 1 \in Nat /\ (Old(i) \/ Child(i)) /\ (Old(j) \/ Child(j))
    BY TodoCases
  <2>2. \A k \in 1..L : todo[k].t \in DOMAIN placed
    <3>1. todo \in Seq([t : nodes, pt : Nat])
      BY DEF MemType
    <3>2. \A k \in 1..L : todo[k] \in ToSet(todo)
      BY <3>1, LenProperties DEF ToSet
    <3> QED
      BY <3>2 DEF PlacedInv
  <2>3. \A k \in Nat : Child(k) => todo'[k].t \in New
    BY DEF New
  <2>4. \A k \in Nat : Old(k) => todo'[k].t \in DOMAIN placed
    BY <2>2
  <2>5. i \in Nat /\ j \in Nat
    OBVIOUS
  <2>6. CASE Old(i) /\ Old(j)
    <3>1. todo[i + 1].t = todo[j + 1].t
      BY <1>6, <2>6
    <3>2. i + 1 = j + 1
      BY <2>6, <3>1 DEF PlacedInv
    <3> QED
      BY <2>5, <3>2
  <2>7. CASE Child(i) /\ Child(j)
    <3>1. PICK c \in Given(Cur) : todo'[i].t = Append(Cur, c) /\ Rank(Cur, c) = i - L
      BY <2>7
    <3>2. PICK d \in Given(Cur) : todo'[j].t = Append(Cur, d) /\ Rank(Cur, d) = j - L
      BY <2>7
    <3>3. Append(Cur, c) = Append(Cur, d)
      BY <1>6, <3>1, <3>2
    <3>4. c = d
      BY <1>4, <3>3, ChildIs DEF Given
    <3> QED
      BY <2>1, <2>5, <3>1, <3>2, <3>4
  <2> QED
    BY <1>3, <1>6, <2>1, <2>3, <2>4, <2>5, <2>6, <2>7
<1>7. PlacedInv'
  BY <1>1, <1>2, <1>3, <1>6 DEF PlacedInv
<1>8. \A t \in New : \E c \in Given(Cur) : t = Append(Cur, c)
  BY DEF New
<1>9. \A c \in Given(Cur) : Front(Append(Cur, c)) = Cur /\ Append(Cur, c) \in New
  BY <1>4, ChildIs DEF New, Given
<1>10. ClosedInv'
  <2>1. ASSUME NEW t \in DOMAIN placed', t # <<>> PROVE Front(t) \in Done'
    BY <1>2, <1>8, <1>9, <2>1 DEF ClosedInv
  <2>2. ASSUME pc' # "null", NEW t \in Done', NEW c \in Children(t)
        PROVE  Append(t, c) \in DOMAIN placed'
    <3>1. Given(Cur) = Children(Cur)
      BY <2>2, MemoryStep
    <3> QED
      BY <1>1, <1>2, <1>9, <3>1 DEF ClosedInv
  <2>3. \A t : Children(t)' = Children(t)
    BY <1>1, SameTree
  <2> QED
    BY <2>1, <2>2, <2>3 DEF ClosedInv
<1> QED
  BY <1>5, <1>7, <1>10

\* Compact puts the new blocks after all others.
LEMMA BlocksStep ==
    ASSUME NodesInv, MemType, PlacedInv, ClosedInv, BlocksInv, Compact
    PROVE  BlocksInv'
<1> DEFINE R == RootSize
           b == bytes_used
           e == bytes_used'
<1>1. /\ todo # <<>> /\ UNCHANGED <<nodes, words>> /\ e = End(Cur)
      /\ b \in 0..Alloced
  BY CompactIs DEF reading
<1>2. /\ DOMAIN placed' = DOMAIN placed \cup New /\ Done' = Done \cup {Cur}
      /\ \A u \in DOMAIN placed : placed'[u] = placed[u]
      /\ \A c \in Given(Cur) : placed'[Append(Cur, c)] = At(Cur, c)
  BY QueueStep
<1>3. Cur \in nodes /\ Cur \in DOMAIN placed
  BY <1>1, CurIs
<1>4. /\ R \in Nat /\ b \in Nat /\ e \in Nat /\ b <= e /\ Alloced \in Nat /\ b <= Alloced
  BY <1>1, MemoryStep, MemoryAssumption
<1>5. \A t : Size(t) \in Nat \ {0}
  BY SizeIs
<1>6. \A t : Size(t)' = Size(t)
  BY <1>1, SameTree
<1>7. ASSUME NEW t \in New
      PROVE  \E c \in Given(Cur) :
                /\ t = Append(Cur, c) /\ t # <<>> /\ Front(t) = Cur /\ placed'[t] = At(Cur, c)
                /\ placed'[t] \in Nat /\ R + b <= placed'[t]
                /\ placed'[t] + Size(t) <= R + e /\ placed'[t] <= R + Alloced
  <2>1. PICK c \in Given(Cur) : t = Append(Cur, c)
    BY DEF New
  <2>2. /\ At(Cur, c) \in Nat /\ R + b <= At(Cur, c) /\ At(Cur, c) <= R + Alloced
        /\ At(Cur, c) + Size(Append(Cur, c)) <= R + e
    BY <1>1, GivenIs
  <2>3. Append(Cur, c) # <<>> /\ Front(Append(Cur, c)) = Cur
    BY <1>3, ChildIs DEF Given
  <2> QED
    BY <1>2, <2>1, <2>2, <2>3
<1>8. \A t \in DOMAIN placed : /\ placed[t] \in Nat /\ placed[t] + Size(t) <= R + b
                               /\ placed'[t] = placed[t]
  BY <1>2 DEF BlocksInv
<1> HIDE DEF R, b, e
<1>9. ASSUME NEW t \in DOMAIN placed, NEW u \in New
      PROVE  placed'[t] + Size(t) <= placed'[u]
  <2>1. placed'[u] \in Nat /\ R + b <= placed'[u]
    BY <1>7
  <2> QED
    BY <1>4, <1>5, <1>8, <2>1
<1>10. ASSUME NEW t \in New, NEW u \in New, t # u
       PROVE  Apart(placed'[t], Size(t), placed'[u], Size(u))
  <2>1. PICK c \in Given(Cur) : t = Append(Cur, c) /\ placed'[t] = At(Cur, c)
    BY <1>7
  <2>2. PICK d \in Given(Cur) : u = Append(Cur, d) /\ placed'[u] = At(Cur, d)
    BY <1>7
  <2>3. c \in Nat /\ d \in Nat /\ c # d
    BY <1>10, <2>1, <2>2, SizeIs DEF Given
  <2>4. c < d \/ d < c
    BY <2>3
  <2>5. /\ c < d => At(Cur, c) + Size(Append(Cur, c)) <= At(Cur, d)
        /\ d < c => At(Cur, d) + Size(Append(Cur, d)) <= At(Cur, c)
    BY <1>4, BlocksOfChildren DEF b, Given
  <2> QED
    BY <2>1, <2>2, <2>4, <2>5 DEF Apart
<1>11. ASSUME NEW t \in DOMAIN placed'
       PROVE  /\ placed'[t] \in Nat /\ placed'[t] + Size(t) <= R + e
              /\ placed'[t] <= R + Alloced
              /\ t \in Done' => placed'[t] + Size(t) <= R + Alloced
              /\ t = <<>> => placed'[t] = Root
              /\ t # <<>> => R <= placed'[t] /\ placed'[Front(t)] < placed'[t]
              /\ \A u \in DOMAIN placed' \ {t} :
                    Apart(placed'[t], Size(t), placed'[u], Size(u))
  <2>1. CASE t \in DOMAIN placed
    <3>1. /\ placed'[t] + Size(t) <= R + e /\ placed'[t] + Size(t) <= R + Alloced
          /\ placed'[t] <= R + Alloced
      BY <1>4, <1>5, <1>8, <2>1
    <3>2. t # <<>> => Front(t) \in DOMAIN placed
      BY <2>1 DEF ClosedInv, Done
    <3>3. t # <<>> => R <= placed'[t] /\ placed'[Front(t)] < placed'[t]
      BY <1>8, <2>1, <3>2 DEF BlocksInv, R
    <3>4. ASSUME NEW u \in DOMAIN placed' \ {t}
          PROVE  Apart(placed'[t], Size(t), placed'[u], Size(u))
      <4>1. CASE u \in DOMAIN placed
        BY <1>8, <2>1, <3>4, <4>1 DEF BlocksInv
      <4>2. CASE u \in New
        BY <1>9, <2>1, <4>2 DEF Apart
      <4> QED
        BY <1>2, <4>1, <4>2
    <3>5. t = <<>> => placed'[t] = Root
      BY <1>8, <2>1 DEF BlocksInv
    <3> QED
      BY <1>8, <2>1, <3>1, <3>3, <3>4, <3>5
  <2>2. CASE t \in New
    <3>1. /\ t # <<>> /\ Front(t) = Cur /\ placed'[t] \in Nat /\ R + b <= placed'[t]
          /\ placed'[t] + Size(t) <= R + e /\ placed'[t] <= R + Alloced
      BY <1>7, <2>2
    <3>2. R <= placed'[t]
      BY <1>4, <3>1
    <3>3. placed'[Cur] < placed'[t]
      <4>1. placed'[Cur] + Size(Cur) <= placed'[t] /\ placed'[Cur] \in Nat
        BY <1>3, <1>8, <1>9, <2>2
      <4> QED
        BY <1>5, <3>1, <4>1
    <3>4. ASSUME NEW u \in DOMAIN placed' \ {t}
          PROVE  Apart(placed'[t], Size(t), placed'[u], Size(u))
      <4>1. CASE u \in DOMAIN placed
        BY <1>9, <2>2, <4>1 DEF Apart
      <4>2. CASE u \in New
        BY <1>10, <2>2, <3>4, <4>2
      <4> QED
        BY <1>2, <4>1, <4>2
    <3>5. t \notin Done'
      BY <1>1, <1>2, <1>3, <2>2, NewIs DEF Done
    <3> QED
      BY <3>1, <3>2, <3>3, <3>4, <3>5
  <2> QED
    BY <1>2, <2>1, <2>2
<1> QED
  BY <1>6, <1>11 DEF BlocksInv, R, e

\* Compact leaves what is in the other nodes alone.
LEMMA ContentsStep ==
    ASSUME NodesInv, MemType, PlacedInv, ClosedInv, BlocksInv, WrittenInv, ContentsInv, Compact
    PROVE  WrittenInv' /\ (pc' # "null" => ContentsInv')
<1> DEFINE R == RootSize
           b == bytes_used
           P == placed[Cur]
           Z == Size(Cur)
<1>1. /\ todo # <<>> /\ UNCHANGED <<nodes, words>> /\ pc = "compact"
      /\ pc' \in {"compact", "null"}
  BY CompactIs DEF reading
<1>2. /\ \A u \in DOMAIN placed : placed'[u] = placed[u]
      /\ \A c \in Given(Cur) : placed'[Append(Cur, c)] = At(Cur, c)
      /\ Waiting' = (Waiting \ {Cur}) \cup New /\ Done' = Done \cup {Cur}
  BY QueueStep
<1>3. Cur \in DOMAIN placed /\ Cur \in Waiting
  BY <1>1, CurIs
<1>4. /\ bits_'[P] \subseteq Bits(Cur)
      /\ pc' # "null" => Given(Cur) = Children(Cur) /\ bits_'[P] = Bits(Cur)
      /\ \A c \in Given(Cur) : bits_'[At(Cur, c)] = {}
      /\ \A p \in Addresses : p # P /\ p < R + b => bits_'[p] = bits_[p]
      /\ \A c \in Given(Cur) : data_'[P + 1 + Off(Cur) + Rank(Cur, c)] = At(Cur, c)
      /\ Cur \in words => data_'[P + 1] = 0
      /\ \A p \in Addresses : p <= P \/ P + Z <= p => data_'[p] = data_[p]
  BY MemoryStep
<1>5. /\ R \in Nat /\ b \in Nat /\ b <= Alloced /\ Alloced \in Nat
      /\ Addresses = 0..(R + Alloced)
  BY <1>1, RoomIs DEF Addresses, PastEnd
<1>6. \A t \in DOMAIN placed :
         /\ placed[t] \in Nat /\ Size(t) \in Nat \ {0} /\ placed[t] + Size(t) <= R + b
         /\ t # Cur => placed[t] + Size(t) <= P \/ P + Z <= placed[t]
  BY <1>3, SizeIs DEF BlocksInv, Apart
<1>7. Waiting \subseteq DOMAIN placed
  BY DEF Waiting, PlacedInv
<1> HIDE DEF R, b, P, Z
<1>8. P \in Nat /\ Z \in Nat \ {0}
  BY <1>3, <1>6 DEF P, Z
<1>9. ASSUME NEW t \in DOMAIN placed, t # Cur PROVE bits_'[placed[t]] = bits_[placed[t]]
  <2>1. /\ placed[t] \in Nat /\ Size(t) \in Nat \ {0} /\ placed[t] + Size(t) <= R + b
        /\ placed[t] + Size(t) <= P \/ P + Z <= placed[t]
    BY <1>6, <1>9
  <2> DEFINE q == placed[t]
             z == Size(t)
  <2> HIDE DEF q, z
  <2>2. q \in 0..(R + Alloced) /\ q # P /\ q < R + b
    BY <1>5, <1>8, <2>1 DEF q, z
  <2> QED
    BY <1>4, <1>5, <2>2 DEF q
<1>10. ASSUME NEW t \in DOMAIN placed, t # Cur, NEW k \in Nat, k < Size(t)
       PROVE  data_'[placed[t] + k] = data_[placed[t] + k]
  <2>1. /\ placed[t] \in Nat /\ Size(t) \in Nat \ {0} /\ placed[t] + Size(t) <= R + b
        /\ placed[t] + Size(t) <= P \/ P + Z <= placed[t]
    BY <1>6, <1>10
  <2> DEFINE q == placed[t] + k
  <2>2. q \in 0..(R + Alloced) /\ (q <= P \/ P + Z <= q)
    BY <1>5, <1>8, <1>10, <2>1
  <2> HIDE DEF q
  <2>3. data_'[q] = data_[q]
    BY <1>4, <1>5, <2>2
  <2> QED
    BY <2>3 DEF q
<1>11. ASSUME NEW t \in Waiting' PROVE bits_'[placed'[t]] = {}
  <2>1. CASE t \in Waiting \ {Cur}
    <3>1. t \in DOMAIN placed /\ t # Cur /\ bits_[placed[t]] = {}
      BY <1>7, <2>1 DEF WrittenInv
    <3> QED
      BY <1>2, <1>9, <3>1
  <2>2. CASE t \in New
    <3>1. PICK c \in Given(Cur) : t = Append(Cur, c)
      BY <2>2 DEF New
    <3> QED
      BY <1>2, <1>4, <3>1
  <2> QED
    BY <1>2, <2>1, <2>2
<1>12. ASSUME pc' # "null", NEW t \in Done'
       PROVE  /\ bits_'[placed'[t]] = Bits(t)
              /\ \A c \in Children(t) :
                    data_'[placed'[t] + 1 + Off(t) + Rank(t, c)] = placed'[Append(t, c)]
              /\ t \in words => data_'[placed'[t] + 1] = 0
  <2>1. CASE t = Cur
    <3>1. placed'[t] = P
      BY <1>2, <1>3, <2>1 DEF P
    <3> QED
      BY <1>2, <1>4, <1>12, <2>1, <3>1
  <2>2. CASE t # Cur
    <3>1. t \in Done /\ t \in DOMAIN placed /\ t # Cur
      BY <1>2, <2>2 DEF Done
    <3>2. placed'[t] = placed[t] /\ placed[t] \in Nat
      BY <1>2, <1>6, <3>1
    <3>3. bits_'[placed'[t]] = Bits(t)
      BY <1>9, <3>1, <3>2 DEF ContentsInv
    <3>4. /\ Off(t) \in {0, 1} /\ Size(t) = 1 + Off(t) + Count(t) /\ Count(t) \in Nat
          /\ \A c \in Children(t) : Rank(t, c) \in 0..(Count(t) - 1)
      BY SizeIs, ChildrenInOrder
    <3>5. ASSUME NEW c \in Children(t)
          PROVE  data_'[placed'[t] + 1 + Off(t) + Rank(t, c)] = placed'[Append(t, c)]
      <4> DEFINE k == 1 + Off(t) + Rank(t, c)
      <4>1. k \in Nat /\ k < Size(t) /\ Rank(t, c) \in Nat
        BY <3>4, <3>5
      <4>2. data_'[placed[t] + k] = data_[placed[t] + k]
        BY <1>10, <3>1, <4>1
      <4>3. \A p \in Nat : p + k = p + 1 + Off(t) + Rank(t, c)
        BY <3>4, <4>1
      <4>4. placed[t] + k = placed[t] + 1 + Off(t) + Rank(t, c)
        BY <3>2, <4>3
      <4> HIDE DEF k
      <4>5. data_[placed[t] + k] = placed[Append(t, c)]
        BY <3>1, <4>4 DEF ContentsInv
      <4>6. Append(t, c) \in DOMAIN placed
        BY <1>1, <3>1 DEF ClosedInv
      <4>7. placed'[Append(t, c)] = placed[Append(t, c)]
        BY <1>2, <4>6
      <4> QED
        BY <3>2, <4>2, <4>4, <4>5, <4>7
    <3>6. t \in words => data_'[placed'[t] + 1] = 0
      <4>1. SUFFICES ASSUME t \in words PROVE data_'[placed[t] + 1] = 0
        BY <3>2
      <4>2. Off(t) = 1 /\ 1 \in Nat
        BY <4>1 DEF Off, IsWordNode
      <4>3. 1 < Size(t)
        BY <3>4, <4>2
      <4>4. data_'[placed[t] + 1] = data_[placed[t] + 1]
        BY <1>10, <3>1, <4>2, <4>3
      <4> QED
        BY <1>1, <3>1, <4>1, <4>4 DEF ContentsInv
    <3> QED
      BY <3>3, <3>5, <3>6
  <2> QED
    BY <2>1, <2>2
<1>13. \A t : /\ Children(t)' = Children(t) /\ Off(t)' = Off(t)
              /\ Bits(t)' = Bits(t) /\ \A c : Rank(t, c)' = Rank(t, c)
  BY <1>1, SameTree
<1>14. ASSUME NEW t \in Done' PROVE bits_'[placed'[t]] \subseteq Bits(t)
  <2>1. CASE t = Cur
    BY <1>2, <1>3, <1>4, <2>1 DEF P
  <2>2. CASE t # Cur
    <3>1. t \in Done /\ t \in DOMAIN placed
      BY <1>2, <2>2 DEF Done
    <3> QED
      BY <1>2, <1>9, <2>2, <3>1 DEF WrittenInv
  <2> QED
    BY <2>1, <2>2
<1>15. WrittenInv'
  BY <1>11, <1>13, <1>14 DEF WrittenInv
<1>16. ASSUME pc' # "null" PROVE ContentsInv'
  BY <1>1, <1>12, <1>13, <1>16 DEF ContentsInv
<1> QED
  BY <1>15, <1>16

\* Compact goes on with the same level, then the next.
LEMMA LevelStep ==
    ASSUME NodesInv, MemType, PlacedInv, ClosedInv, BlocksInv, LevelInv, Compact
    PROVE  LevelInv'
<1> DEFINE L == Len(todo)
           l == Len(Cur)
           Old(k) == k \in 1..(L - 1) /\ k + 1 \in 1..L /\ todo'[k] = todo[k + 1]
           Child(k) == k > L - 1 /\ \E c \in Given(Cur) :
                          todo'[k].t = Append(Cur, c) /\ Rank(Cur, c) = k - L
<1>1. todo # <<>> /\ UNCHANGED <<nodes, words>> /\ bytes_used \in 0..Alloced
  BY CompactIs DEF reading
<1>2. /\ DOMAIN placed' = DOMAIN placed \cup New
      /\ \A u \in DOMAIN placed : placed'[u] = placed[u]
      /\ \A c \in Given(Cur) : placed'[Append(Cur, c)] = At(Cur, c)
      /\ todo' \in Seq([t : nodes, pt : Nat])
  BY QueueStep
<1>3. /\ Cur \in nodes /\ Cur \in DOMAIN placed /\ L \in Nat \ {0}
      /\ Head(todo) = todo[1] /\ Head(todo).t = Cur
  BY <1>1, CurIs DEF Cur
<1>4. \A t \in nodes : Len(t) \in Nat
  BY LenProperties DEF NodesInv
<1>5. \A t \in DOMAIN placed : t \in nodes
  BY DEF PlacedInv
<1>6. \A t \in DOMAIN placed : Len(t) \in Nat /\ Len(t) <= l + 1
  BY <1>1, <1>3, <1>4, <1>5 DEF LevelInv
<1>7. l \in Nat
  BY <1>3, <1>4
<1>8. \A c \in Given(Cur) : Len(Append(Cur, c)) = l + 1 /\ Append(Cur, c) \in New
  BY <1>3, ChildIs DEF New, Given
<1>9. \A t \in New : \E c \in Given(Cur) : t = Append(Cur, c)
  BY DEF New
<1>10. \A k \in 1..L : todo[k].t \in DOMAIN placed
  <2>1. todo \in Seq([t : nodes, pt : Nat])
    BY DEF MemType
  <2>2. \A k \in 1..L : todo[k] \in ToSet(todo)
    BY <2>1, LenProperties DEF ToSet
  <2> QED
    BY <2>2 DEF PlacedInv
<1>11. \A k \in 1..Len(todo') : Old(k) \/ Child(k)
  BY TodoCases
<1>12. \A i, j \in 1..L : i < j => Len(todo[i].t) <= Len(todo[j].t)
  BY DEF LevelInv
<1> HIDE DEF L, l
<1>13. \A k \in 1..L : l <= Len(todo[k].t)
  <2>1. 1 \in 1..L /\ \A k \in 1..L : k = 1 \/ 1 < k
    BY <1>3
  <2>2. Len(todo[1].t) = l
    BY <1>3 DEF l
  <2>3. \A k \in 1..L : 1 < k => l <= Len(todo[k].t)
    BY <1>12, <2>1, <2>2
  <2> QED
    BY <1>7, <2>1, <2>2, <2>3
<1>14. ASSUME NEW k \in 1..Len(todo')
       PROVE  /\ Len(todo'[k].t) \in {l, l + 1}
              /\ Child(k) => Len(todo'[k].t) = l + 1
  <2>1. ASSUME Old(k) PROVE Len(todo'[k].t) \in {l, l + 1}
    <3>1. todo[k + 1].t \in DOMAIN placed /\ l <= Len(todo[k + 1].t)
      BY <1>10, <1>13, <2>1
    <3>2. Len(todo[k + 1].t) \in Nat /\ Len(todo[k + 1].t) <= l + 1
      BY <1>6, <3>1
    <3>3. \A m, n \in Nat : n <= m /\ m <= n + 1 => m \in {n, n + 1}
      OBVIOUS
    <3>4. Len(todo[k + 1].t) \in {l, l + 1}
      BY <1>7, <3>1, <3>2, <3>3
    <3> QED
      BY <2>1, <3>4
  <2>2. ASSUME Child(k) PROVE Len(todo'[k].t) = l + 1
    BY <1>8, <2>2
  <2> QED
    BY <1>11, <2>1, <2>2
<1>15. ASSUME NEW i \in 1..Len(todo'), NEW j \in 1..Len(todo'), i < j
       PROVE  Len(todo'[i].t) <= Len(todo'[j].t)
  <2>1. CASE Child(j)
    BY <1>7, <1>14, <2>1
  <2>2. CASE Old(j)
    <3>1. i \in Nat /\ j \in Nat /\ i <= L - 1
      BY <1>3, <1>15, <2>2
    <3>2. ~Child(i)
      BY <1>3, <3>1
    <3>3. Old(i)
      BY <1>11, <3>2
    <3>4. i + 1 < j + 1
      BY <1>15, <3>1
    <3>5. Len(todo[i + 1].t) <= Len(todo[j + 1].t)
      BY <1>12, <2>2, <3>3, <3>4
    <3> QED
      BY <2>2, <3>3, <3>5
  <2> QED
    BY <1>11, <2>1, <2>2
<1>16. ASSUME todo' # <<>>, NEW u \in DOMAIN placed' PROVE Len(u) <= Len(Head(todo').t) + 1
  <2> DEFINE V == [t : nodes, pt : Nat]
  <2>1. todo' \in Seq(V)
    BY <1>2
  <2> HIDE DEF V
  <2>2. Head(todo') = todo'[1] /\ 1 \in 1..Len(todo')
    BY <1>16, <2>1, HeadTailProperties, EmptySeq, LenProperties
  <2>3. Len(Head(todo').t) \in {l, l + 1}
    BY <1>14, <2>2
  <2>4. Len(u) \in Nat /\ Len(u) <= l + 1
    BY <1>2, <1>6, <1>7, <1>8, <1>9
  <2> QED
    BY <1>7, <2>3, <2>4
<1>17. ASSUME NEW t \in DOMAIN placed' \ {<<>>}, NEW u \in DOMAIN placed' \ {<<>>},
              Len(t) < Len(u)
       PROVE  placed'[t] < placed'[u]
  <2>1. CASE t \in DOMAIN placed /\ u \in DOMAIN placed
    BY <1>2, <1>17, <2>1 DEF LevelInv, BreadthFirst
  <2>2. CASE t \in DOMAIN placed /\ u \in New
    <3>1. PICK c \in Given(Cur) : u = Append(Cur, c)
      BY <1>9, <2>2
    <3>2. bytes_used \in Nat
      BY MemoryAssumption DEF MemType
    <3>3. RootSize + bytes_used <= placed'[u] /\ placed'[u] \in Nat
      BY <1>1, <1>2, <3>1, GivenIs
    <3>4. /\ placed'[t] \in Nat /\ placed'[t] + Size(t) <= RootSize + bytes_used
          /\ Size(t) \in Nat \ {0}
      BY <1>2, <2>2, SizeIs DEF BlocksInv
    <3>5. RootSize \in Nat
      BY MemoryAssumption
    <3> QED
      BY <3>2, <3>3, <3>4, <3>5
  <2>3. CASE t \in New
    <3>1. Len(t) = l + 1
      BY <1>8, <1>9, <2>3
    <3>2. Len(u) \in Nat /\ Len(u) <= l + 1
      BY <1>2, <1>6, <1>7, <1>8, <1>9
    <3> QED
      BY <1>7, <1>17, <3>1, <3>2
  <2> QED
    BY <1>2, <2>1, <2>2, <2>3
<1> QED
  BY <1>15, <1>16, <1>17 DEF LevelInv, BreadthFirst
-----------------------------------------------------------------------------
(* What is found in the memory. *)

MemInv ==
    /\ MemType /\ PhaseInv /\ PlacedInv /\ ClosedInv /\ BlocksInv /\ WrittenInv /\ LevelInv
    /\ pc # "null" => ContentsInv

\* A written node has its letters in bits_ and its children in their order.
LEMMA NodeIs ==
    ASSUME NodesInv, BlocksInv, ContentsInv, NEW t \in Done
    PROVE  /\ IsWord(placed[t]) <=> t \in words
           /\ \A c \in Letters : StartsWord(placed[t], c) <=> c \in Children(t)
           /\ bits_[placed[t]] \ {WordBit} = Children(t)
           /\ bits_[placed[t]] \cap Letters = Children(t)
           /\ \A c \in Children(t) : /\ Slot(placed[t], c) = Off(t) + Rank(t, c)
                                     /\ Descend(placed[t], c) = placed[Append(t, c)]
<1> DEFINE p == placed[t]
<1>1. bits_[p] = Bits(t)
  BY DEF ContentsInv
<1>2. /\ WordBit \notin Letters /\ \A c \in Letters : c < WordBit /\ c \in Nat
      /\ WordBit \in Nat
  BY LettersAre
<1>3. Children(t) \subseteq Letters
  BY SizeIs
<1>8. p \in Nat
  BY DEF Done, BlocksInv
<1> HIDE DEF p
<1>4. IsWord(p) <=> t \in words
  BY <1>1, <1>2, <1>3 DEF IsWord, Bits, IsWordNode
<1>5. /\ \A c \in Letters : StartsWord(p, c) <=> c \in Children(t)
      /\ bits_[p] \ {WordBit} = Children(t) /\ bits_[p] \cap Letters = Children(t)
  BY <1>1, <1>2, <1>3 DEF StartsWord, Bits
<1>6. (IF IsWord(p) THEN 1 ELSE 0) = Off(t)
  BY <1>4 DEF Off, IsWordNode
<1>7. ASSUME NEW c \in Children(t)
      PROVE  /\ Slot(p, c) = Off(t) + Rank(t, c)
             /\ Descend(p, c) = placed[Append(t, c)]
  <2>1. c \in Letters /\ c < WordBit /\ c \in Nat /\ ~(WordBit < c)
    BY <1>2, <1>3
  <2>2. \A d \in bits_[p] : d < c => d \in Children(t)
    BY <1>1, <2>1 DEF Bits
  <2>3. \A d \in Children(t) : d \in bits_[p]
    BY <1>1 DEF Bits
  <2>4. {d \in bits_[p] : d < c} = {d \in Children(t) : d < c}
    BY <2>2, <2>3
  <2>5. Slot(p, c) = Off(t) + Rank(t, c)
    BY <1>6, <2>4 DEF Slot, Rank, RankIn
  <2>6. Off(t) \in Nat /\ Rank(t, c) \in Nat
    BY SizeIs, ChildrenInOrder
  <2>7. data_[p + 1 + Off(t) + Rank(t, c)] = placed[Append(t, c)]
    BY DEF ContentsInv, p
  <2>8. Descend(p, c) = data_[p + 1 + (Off(t) + Rank(t, c))]
    BY <2>5 DEF Descend
  <2> DEFINE o == Off(t)
             k == Rank(t, c)
  <2>9. p + 1 + (o + k) = p + 1 + o + k
    <3>1. o \in Nat /\ k \in Nat
      BY <2>6
    <3> HIDE DEF o, k
    <3> QED
      BY <1>8, <3>1
  <2> QED
    BY <2>5, <2>7, <2>8, <2>9
<1> QED
  BY <1>4, <1>5, <1>7 DEF p

\* A node uses its own block only, and one that waits no more than its bits_.
LEMMA InUseIs ==
    ASSUME NodesInv, MemInv, NEW t \in DOMAIN placed
    PROVE  /\ placed[t] \in InUse(placed[t])
           /\ InUse(placed[t]) \subseteq placed[t]..(placed[t] + Size(t) - 1)
           /\ t \in Done \/ InUse(placed[t]) = {placed[t]}
<1> DEFINE p == placed[t]
           Z == Size(t)
           N == Count(t)
           W == bits_[p]
<1>1. p \in Nat /\ Z \in Nat \ {0}
  BY SizeIs DEF MemInv, BlocksInv
<1>2. p \in InUse(p)
  BY DEF InUse
<1>3. CASE t \in Waiting
  <2>1. bits_[p] = {}
    BY <1>3 DEF MemInv, WrittenInv
  <2>2. InUse(p) = {p}
    BY <2>1 DEF InUse
  <2>3. p \in p..(p + Z - 1)
    BY <1>1
  <2> QED
    BY <1>2, <2>2, <2>3
<1>4. CASE t \in Done
  <2>1. W \subseteq Bits(t)
    BY <1>4 DEF MemInv, WrittenInv
  <2>2. /\ Children(t) \subseteq Letters /\ Children(t) \subseteq Nat
        /\ IsFiniteSet(Children(t)) /\ N \in Nat
        /\ Off(t) \in {0, 1} /\ Z = 1 + Off(t) + N
        /\ \A c \in Children(t) : Rank(t, c) \in 0..(N - 1)
    BY SizeIs, ChildrenInOrder
  <2>3. WordBit \in W => Off(t) = 1
    BY <2>1, <2>2, LettersAre DEF Bits, Off
  <2>4. W \cap Letters \subseteq Children(t)
    BY <2>1, LettersAre DEF Bits
  <2>5. ASSUME NEW c \in W \cap Letters
        PROVE  Slot(p, c) \in Nat /\ Slot(p, c) <= Off(t) + N - 1
    <3> DEFINE D == {d \in W : d < c}
               E == {d \in Children(t) : d < c}
               k == Rank(t, c)
    <3>1. c \in Children(t)
      BY <2>4
    <3>2. D \subseteq E
      <4>1. c \in Letters /\ c < WordBit /\ c \in Nat /\ WordBit \in Nat /\ ~(WordBit < c)
        BY LettersAre
      <4> QED
        BY <2>1, <4>1 DEF Bits
    <3>3. IsFiniteSet(E) /\ Cardinality(E) = k
      <4>1. E \subseteq Children(t)
        OBVIOUS
      <4>2. IsFiniteSet(E)
        BY <2>2, <4>1, FS_Subset
      <4> QED
        BY <4>2 DEF Rank, RankIn
    <3>4. Cardinality(D) \in Nat /\ Cardinality(D) <= k
      BY <3>2, <3>3, FS_Subset, FS_CardinalityType
    <3>5. Slot(p, c) = (IF WordBit \in W THEN 1 ELSE 0) + Cardinality(D)
      BY DEF Slot, IsWord
    <3>6. k \in 0..(N - 1)
      BY <2>2, <3>1
    <3> HIDE DEF D, k, N, W
    <3> QED
      BY <2>2, <2>3, <3>4, <3>5, <3>6
  <2>6. ASSUME NEW a \in InUse(p) PROVE a \in p..(p + Z - 1)
    <3>1. \/ a = p
          \/ a = p + 1 /\ WordBit \in W
          \/ \E c \in W \cap Letters : a = p + 1 + Slot(p, c)
      BY <2>6 DEF InUse
    <3> HIDE DEF p, Z, N, W
    <3>2. CASE a = p
      BY <1>1, <3>2
    <3>3. CASE a = p + 1 /\ WordBit \in W
      BY <1>1, <2>2, <2>3, <3>3
    <3>4. CASE \E c \in W \cap Letters : a = p + 1 + Slot(p, c)
      <4>1. PICK c \in W \cap Letters : a = p + 1 + Slot(p, c)
        BY <3>4
      <4> DEFINE l == Slot(p, c)
      <4>2. l \in Nat /\ l <= Off(t) + N - 1 /\ a = p + 1 + l
        BY <2>5, <4>1
      <4> HIDE DEF l
      <4> QED
        BY <1>1, <2>2, <4>2
    <3> QED
      BY <3>1, <3>2, <3>3, <3>4
  <2> QED
    BY <1>2, <1>4, <2>6
<1> QED
  BY <1>3, <1>4 DEF Done

\* When the queue is empty all nodes are written.
LEMMA AllPlaced ==
    ASSUME NodesInv, MemInv, pc \notin {"load", "loaded", "null"}, todo = <<>>
    PROVE  Waiting = {} /\ Done = nodes /\ DOMAIN placed = nodes
<1>1. Waiting = {}
  <2>1. todo \in Seq([t : nodes, pt : Nat])
    BY DEF MemInv, MemType
  <2>2. Len(todo) = 0
    BY <2>1, EmptySeq
  <2>3. DOMAIN todo = 1..0
    BY <2>1, <2>2, LenProperties
  <2> QED
    BY <2>3 DEF Waiting, ToSet
<1>2. Done = DOMAIN placed /\ <<>> \in DOMAIN placed /\ DOMAIN placed \subseteq nodes
  BY <1>1 DEF Done, MemInv, PhaseInv, PlacedInv
<1>3. ASSUME NEW t \in nodes PROVE t \in DOMAIN placed
  <2> DEFINE N == Len(t)
             T == {j \in 0..N : \A u \in nodes : Len(u) = j => u \in DOMAIN placed}
  <2>1. \A u \in nodes : u \in Seq(Letters)
    BY DEF NodesInv
  <2>2. N \in Nat
    BY <2>1, LenProperties
  <2>3. 0 \in T
    <3>1. \A u \in nodes : Len(u) = 0 => u = <<>>
      BY <2>1, EmptySeq
    <3> QED
      BY <1>2, <2>2, <3>1
  <2>4. ASSUME NEW j \in 1..N, j - 1 \in T PROVE j \in T
    <3>1. ASSUME NEW u \in nodes, Len(u) = j PROVE u \in DOMAIN placed
      <4>1. u \in Seq(Letters) /\ u # <<>>
        BY <2>1, <2>2, <3>1, EmptySeq
      <4> DEFINE s == Front(u)
                 c == u[Len(u)]
      <4>2. Len(s) = j - 1 /\ c \in Letters /\ u = Append(s, c)
        BY <3>1, <4>1, FrontIs
      <4>3. s \in nodes
        BY <4>1 DEF NodesInv
      <4> HIDE DEF s, c
      <4>4. s \in Done
        BY <1>2, <2>4, <4>2, <4>3
      <4>5. c \in Children(s)
        BY <4>2 DEF Children
      <4> QED
        BY <4>2, <4>4, <4>5 DEF MemInv, ClosedInv
    <3>2. j \in 0..N
      BY <2>2
    <3> QED
      BY <3>1, <3>2
  <2> HIDE DEF T
  <2>5. \A j \in 0..N : j \in T
    BY ONLY <2>2, <2>3, <2>4, StepsUp
  <2>6. N \in 0..N
    BY <2>2
  <2> QED
    BY <2>5, <2>6 DEF T
<1> QED
  BY <1>1, <1>2, <1>3

\* FindWord goes to where the word was placed.
LEMMA FindWordIs ==
    ASSUME NodesInv, MemInv, pc = "ready", NEW w \in Seq(Letters)
    PROVE  FindWord(w) = IF w \in nodes THEN placed[w] ELSE Null
<1> DEFINE N == Len(w)
           to == [i \in 0..N |-> SubSeq(w, 1, i)]
           Eq(f) == f = [i \in 0..N |->
                       IF i = 0 THEN Root
                       ELSE IF f[i - 1] # Null /\ StartsWord(f[i - 1], w[i])
                       THEN Descend(f[i - 1], w[i]) ELSE Null]
           g == [i \in 0..N |-> IF to[i] \in nodes THEN placed[to[i]] ELSE Null]
           h == CHOOSE f : Eq(f)
<1>1. /\ N \in Nat /\ \A i \in 1..N : w[i] \in Letters
      /\ \A i \in 1..N : i \in 0..N /\ i - 1 \in 0..N /\ i # 0
      /\ 0 \in 0..N /\ N \in 0..N
  BY LenProperties, ElementOfSeq
<1>2. /\ to[0] = <<>> /\ to[N] = w
      /\ \A i \in 1..N : /\ to[i - 1] \in Seq(Letters)
                         /\ to[i] = Append(to[i - 1], w[i])
  <2>1. /\ SubSeq(w, 1, 0) = <<>> /\ SubSeq(w, 1, N) = w
        /\ \A i \in 1..N : /\ SubSeq(w, 1, i - 1) \in Seq(Letters)
                           /\ SubSeq(w, 1, i) = Append(SubSeq(w, 1, i - 1), w[i])
    BY LetterByLetter
  <2> QED
    BY <1>1, <2>1
<1>3. Done = nodes
  BY AllPlaced DEF MemInv, PhaseInv
<1>4. FindWord(w) = h[N]
  BY DEF FindWord
<1>5. \A t \in nodes : placed[t] \in Nat /\ placed[t] # Null
  <2>1. DOMAIN placed = nodes
    BY AllPlaced DEF MemInv, PhaseInv
  <2> QED
    BY <2>1 DEF MemInv, BlocksInv, Null
<1> HIDE DEF to, N
<1>6. g[0] = Root
  <2>1. <<>> \in nodes /\ <<>> \in DOMAIN placed
    BY <1>3 DEF NodesInv, Done
  <2>2. placed[<<>>] = Root
    BY <2>1 DEF MemInv, BlocksInv
  <2> QED
    BY <1>1, <1>2, <2>1, <2>2
<1>7. ASSUME NEW i \in 1..N
      PROVE  g[i] = IF g[i - 1] # Null /\ StartsWord(g[i - 1], w[i])
                    THEN Descend(g[i - 1], w[i]) ELSE Null
  <2> DEFINE s == to[i - 1]
             c == w[i]
  <2>1. s \in Seq(Letters) /\ c \in Letters /\ to[i] = Append(s, c)
    BY <1>1, <1>2
  <2>2. /\ g[i] = IF Append(s, c) \in nodes THEN placed[Append(s, c)] ELSE Null
        /\ g[i - 1] = IF s \in nodes THEN placed[s] ELSE Null
    BY <1>1, <2>1
  <2> HIDE DEF s, g, h
  <2>3. CASE s \in nodes
    <3>1. /\ StartsWord(placed[s], c) <=> c \in Children(s)
          /\ c \in Children(s) => Descend(placed[s], c) = placed[Append(s, c)]
      BY <1>3, <2>1, <2>3, NodeIs DEF MemInv
    <3>2. c \in Children(s) <=> Append(s, c) \in nodes
      BY <2>1 DEF Children
    <3> QED
      BY <1>5, <2>2, <2>3, <3>1, <3>2
  <2>4. CASE s \notin nodes
    <3>1. Append(s, c) # <<>> /\ Front(Append(s, c)) = s
      BY <2>1, FrontOfAppend
    <3>2. Append(s, c) \notin nodes
      BY <2>4, <3>1 DEF NodesInv
    <3> QED
      BY <2>2, <2>4, <3>2
  <2> QED
    BY <2>3, <2>4
<1>8. Eq(g)
  <2>1. \A i \in 0..N : i = 0 \/ i \in 1..N
    BY <1>1
  <2> QED
    BY <1>6, <1>7, <2>1
<1>9. Eq(h)
  BY <1>8
<1>10. h[0] = Root /\ \A i \in 1..N :
          h[i] = IF h[i - 1] # Null /\ StartsWord(h[i - 1], w[i])
                 THEN Descend(h[i - 1], w[i]) ELSE Null
  BY <1>1, <1>9
<1>11. g[N] = IF w \in nodes THEN placed[w] ELSE Null
  BY <1>1, <1>2
<1> DEFINE T == {i \in 0..N : h[i] = g[i]}
<1> HIDE DEF h, g, Eq
<1>12. 0 \in T
  BY <1>1, <1>6, <1>10
<1>13. ASSUME NEW i \in 1..N, i - 1 \in T PROVE i \in T
  BY <1>1, <1>7, <1>10, <1>13
<1> HIDE DEF T
<1>14. \A i \in 0..N : i \in T
  BY ONLY <1>1, <1>12, <1>13, StepsUp
<1> QED
  BY <1>1, <1>4, <1>11, <1>14 DEF T

\* A node is at an address no smaller than its depth.
LEMMA DepthIs ==
    ASSUME NodesInv, MemInv, pc = "ready", NEW t \in nodes
    PROVE  Len(t) \in Nat /\ Len(t) <= placed[t] /\ placed[t] \in Nat /\ Len(t) \in Addresses
<1> DEFINE N == Len(t)
           T == {j \in 0..N : \A u \in nodes : Len(u) = j => j <= placed[u]}
<1>1. \A u \in nodes : u \in Seq(Letters) /\ Len(u) \in Nat
  BY LenProperties DEF NodesInv
<1>2. \A u \in nodes : /\ placed[u] \in Nat /\ placed[u] + Size(u) <= RootSize + bytes_used
                       /\ u # <<>> => placed[Front(u)] < placed[u]
  <2>1. DOMAIN placed = nodes
    BY AllPlaced DEF MemInv, PhaseInv
  <2> QED
    BY <2>1 DEF MemInv, BlocksInv
<1>3. N \in Nat
  BY <1>1
<1>4. 0 \in T
  BY <1>2, <1>3
<1>5. ASSUME NEW j \in 1..N, j - 1 \in T PROVE j \in T
  <2>1. ASSUME NEW u \in nodes, Len(u) = j PROVE j <= placed[u]
    <3>1. u \in Seq(Letters) /\ u # <<>>
      BY <1>1, <1>3, <2>1, EmptySeq
    <3> DEFINE s == Front(u)
    <3>2. Len(s) = j - 1
      BY <2>1, <3>1, FrontIs
    <3>3. s \in nodes /\ placed[s] < placed[u]
      BY <1>2, <3>1 DEF NodesInv
    <3> HIDE DEF s
    <3>4. j - 1 <= placed[s]
      BY <1>5, <3>2, <3>3
    <3> QED
      BY <1>2, <1>3, <3>3, <3>4
  <2>2. j \in 0..N
    BY <1>3
  <2> QED
    BY <2>1, <2>2
<1> HIDE DEF T
<1>6. \A j \in 0..N : j \in T
  BY ONLY <1>3, <1>4, <1>5, StepsUp
<1>7. N <= placed[t]
  <2>1. N \in 0..N
    BY <1>3
  <2> QED
    BY <1>6, <2>1 DEF T
<1>8. N \in Addresses
  <2>1. /\ RootSize \in Nat /\ Alloced \in Nat /\ bytes_used \in 0..Alloced
        /\ Size(t) \in Nat \ {0}
    BY RoomIs, SizeIs DEF MemInv
  <2> DEFINE q == placed[t]
             z == Size(t)
  <2>2. q \in Nat /\ q + z <= RootSize + bytes_used /\ z \in Nat \ {0} /\ N <= q
    BY <1>2, <1>7, <2>1
  <2> HIDE DEF q, z, N
  <2>3. N \in 0..(RootSize + Alloced)
    BY <1>3, <2>1, <2>2
  <2> QED
    BY <2>3 DEF Addresses, PastEnd
<1> QED
  BY <1>2, <1>3, <1>7, <1>8

\* What ReverseLookup says of a node.
Found(t) == [t |-> t, pt |-> placed[t]]

\* All letters tried from the root lead to each node once.
LEMMA WalkIs ==
    ASSUME NodesInv, MemInv, pc = "ready"
    PROVE  /\ ReverseLookups = {Found(t) : t \in nodes}
           /\ ReachedNodes = {placed[t] : t \in nodes}
           /\ Reached = {placed[t] : t \in words}
<1> DEFINE root == {[t |-> <<>>, pt |-> Root]}
           Below(S) == UNION {{[t |-> Append(n.t, c), pt |-> Descend(n.pt, c)] :
                                  c \in bits_[n.pt] \ {WordBit}} : n \in S}
           Eq(f) == f = [d \in Addresses |->
                       IF d = 0 THEN root ELSE Below(f[d - 1])]
           Level(d) == {Found(t) : t \in {u \in nodes : Len(u) = d}}
           g == [d \in Addresses |-> Level(d)]
           M == RootSize + Alloced
<1>1. M \in Nat /\ Addresses = 0..M
  <2>1. RootSize \in Nat /\ Alloced \in Nat /\ RootSize >= 2 + kNumLetters /\ kNumLetters \in Nat
    BY MemoryAssumption, LettersAre
  <2>2. M \in Nat
    BY <2>1
  <2> QED
    BY <2>2 DEF Addresses, PastEnd
<1>2. Done = nodes
  BY AllPlaced DEF MemInv, PhaseInv
<1>3. \A t \in nodes : t \in Seq(Letters) /\ Len(t) \in Addresses /\ Len(t) \in Nat
  BY DepthIs DEF NodesInv
<1>4. Level(0) = root
  <2>1. <<>> \in nodes /\ <<>> \in DOMAIN placed
    BY <1>2 DEF NodesInv, Done
  <2>2. placed[<<>>] = Root
    BY <2>1 DEF MemInv, BlocksInv
  <2>3. {u \in nodes : Len(u) = 0} = {<<>>}
    BY <1>3, <2>1, EmptySeq
  <2> DEFINE e == <<>>
  <2>4. {u \in nodes : Len(u) = 0} = {e} /\ placed[e] = Root
    BY <2>2, <2>3
  <2> HIDE DEF e
  <2>5. Level(0) = {Found(e)}
    BY <2>4
  <2>6. Found(e) = [t |-> e, pt |-> Root]
    BY <2>4 DEF Found
  <2> QED
    BY <2>5, <2>6 DEF e
<1>5. ASSUME NEW n, NEW s \in nodes, n = Found(s), NEW c \in Children(s)
      PROVE  /\ [t |-> Append(n.t, c), pt |-> Descend(n.pt, c)] = Found(Append(s, c))
             /\ bits_[n.pt] \ {WordBit} = Children(s)
  <2>1. n.t = s /\ n.pt = placed[s]
    BY <1>5 DEF Found
  <2>2. /\ bits_[placed[s]] \ {WordBit} = Children(s)
        /\ Descend(placed[s], c) = placed[Append(s, c)]
    BY <1>2, NodeIs DEF MemInv
  <2> QED
    BY <2>1, <2>2 DEF Found
<1>6. ASSUME NEW s \in nodes PROVE bits_[Found(s).pt] \ {WordBit} = Children(s)
  <2>1. bits_[placed[s]] \ {WordBit} = Children(s)
    BY <1>2, NodeIs DEF MemInv
  <2> QED
    BY <2>1 DEF Found
<1> HIDE DEF M
<1>7. ASSUME NEW d \in 1..M PROVE Below(Level(d - 1)) = Level(d)
  <2>1. ASSUME NEW x \in Below(Level(d - 1)) PROVE x \in Level(d)
    <3>1. PICK n \in Level(d - 1) :
             \E c \in bits_[n.pt] \ {WordBit} :
                x = [t |-> Append(n.t, c), pt |-> Descend(n.pt, c)]
      BY <2>1
    <3>2. PICK s \in nodes : n = Found(s) /\ Len(s) = d - 1
      BY <3>1
    <3>3. PICK c \in Children(s) : x = [t |-> Append(n.t, c), pt |-> Descend(n.pt, c)]
      BY <1>6, <3>1, <3>2
    <3>4. x = Found(Append(s, c))
      BY <1>5, <3>2, <3>3
    <3>5. Append(s, c) \in nodes /\ Len(Append(s, c)) = Len(s) + 1
      BY ChildIs
    <3>6. Len(s) + 1 = d
      BY <1>1, <3>2
    <3> QED
      BY <3>4, <3>5, <3>6
  <2>3. ASSUME NEW S, NEW x, \E m \in S : \E e \in bits_[m.pt] \ {WordBit} :
                                x = [t |-> Append(m.t, e), pt |-> Descend(m.pt, e)]
        PROVE  x \in Below(S)
    <3> DEFINE after == [n \in S |-> {[t |-> Append(n.t, c), pt |-> Descend(n.pt, c)] :
                                         c \in bits_[n.pt] \ {WordBit}}]
    <3>1. PICK m \in S : \E e \in bits_[m.pt] \ {WordBit} :
             x = [t |-> Append(m.t, e), pt |-> Descend(m.pt, e)]
      BY <2>3
    <3>2. x \in after[m]
      BY <3>1
    <3>3. Below(S) = UNION {after[n] : n \in S}
      OBVIOUS
    <3> HIDE DEF after, Below
    <3> QED
      BY <3>1, <3>2, <3>3
  <2>2. ASSUME NEW x \in Level(d) PROVE x \in Below(Level(d - 1))
    <3>1. PICK u \in nodes : x = Found(u) /\ Len(u) = d
      BY <2>2
    <3>2. u \in Seq(Letters) /\ u # <<>>
      BY <1>1, <1>3, <3>1, EmptySeq
    <3> DEFINE s == Front(u)
               c == u[Len(u)]
    <3>3. Len(s) = d - 1 /\ u = Append(s, c) /\ c \in Letters
      BY <3>1, <3>2, FrontIs
    <3>4. s \in nodes
      BY <3>2 DEF NodesInv
    <3> HIDE DEF s, c
    <3>5. c \in Children(s)
      BY <3>3 DEF Children
    <3> DEFINE n == Found(s)
    <3>6. n \in Level(d - 1) /\ c \in bits_[n.pt] \ {WordBit}
      BY <1>6, <3>3, <3>4, <3>5
    <3>7. x = [t |-> Append(n.t, c), pt |-> Descend(n.pt, c)]
      BY <1>5, <3>1, <3>3, <3>4, <3>5
    <3> HIDE DEF n
    <3>8. \E m \in Level(d - 1) : \E e \in bits_[m.pt] \ {WordBit} :
             x = [t |-> Append(m.t, e), pt |-> Descend(m.pt, e)]
      BY <3>6, <3>7
    <3> QED
      BY <3>8, <2>3
  <2> QED
    BY <2>1, <2>2
<1>8. \A d \in Addresses : d = 0 \/ (d \in 1..M /\ d - 1 \in Addresses)
  BY <1>1
<1> HIDE DEF Below, Level
<1>9. \A d \in Addresses : g[d] = Level(d)
  OBVIOUS
<1>10. Eq(g)
  BY <1>4, <1>7, <1>8, <1>9
<1>11. Walk = CHOOSE f : Eq(f)
  BY DEF Walk, Below, root
<1> HIDE DEF root
<1> DEFINE w == CHOOSE f : Eq(f)
<1>12. w = [d \in Addresses |-> IF d = 0 THEN root ELSE Below(w[d - 1])]
  <2>1. Eq(w)
    BY <1>10
  <2> QED
    BY <2>1
<1> HIDE DEF w
<1>13. /\ w[0] = root
       /\ \A d \in 1..M : w[d] = Below(w[d - 1])
  <2>1. 0 \in Addresses /\ \A d \in 1..M : d \in Addresses /\ d # 0
    BY <1>1
  <2> QED
    BY <1>12, <2>1
<1> DEFINE T == {d \in 0..M : w[d] = Level(d)}
<1> HIDE DEF Eq, g
<1>14. 0 \in T
  BY <1>1, <1>4, <1>13
<1>15. ASSUME NEW d \in 1..M, d - 1 \in T PROVE d \in T
  BY <1>1, <1>7, <1>13, <1>15
<1> HIDE DEF T
<1>16. \A d \in 0..M : d \in T
  BY ONLY <1>1, <1>14, <1>15, StepsUp
<1>17. ReverseLookups = {Found(t) : t \in nodes}
  <2>1. ReverseLookups = UNION {Level(d) : d \in Addresses}
    BY <1>1, <1>11, <1>16 DEF ReverseLookups, T, w
  <2>2. \A d \in Addresses : \A x \in Level(d) : \E t \in nodes : x = Found(t)
    BY DEF Level
  <2>3. \A t \in nodes : Found(t) \in Level(Len(t))
    BY DEF Level
  <2> QED
    BY <1>3, <2>1, <2>2, <2>3
<1>18. ReachedNodes = {placed[t] : t \in nodes}
  <2>1. \A t \in nodes : Found(t).pt = placed[t]
    BY DEF Found
  <2> QED
    BY <1>17, <2>1 DEF ReachedNodes
<1>19. Reached = {placed[t] : t \in words}
  <2>1. \A t \in nodes : IsWord(placed[t]) <=> t \in words
    BY <1>2, NodeIs DEF MemInv
  <2>2. words \subseteq nodes
    BY DEF NodesInv
  <2> QED
    BY <1>18, <2>1, <2>2 DEF Reached
<1> QED
  BY <1>17, <1>18, <1>19
-----------------------------------------------------------------------------
(* The steps before and after the copying. *)

\* An empty memory.
LEMMA EmptyMem ==
    ASSUME todo = <<>>, DOMAIN placed = {}
    PROVE  PlacedInv /\ ClosedInv /\ BlocksInv /\ WrittenInv /\ ContentsInv /\ LevelInv
<1>1. Len(todo) = 0 /\ DOMAIN todo = {} /\ 1..0 = {}
  <2>1. Len(todo) = 0 /\ todo \in Seq({})
    BY EmptySeq
  <2> QED
    BY <2>1, LenProperties
<1>2. ToSet(todo) = {} /\ Waiting = {} /\ Done = {}
  BY <1>1 DEF ToSet, Waiting, Done
<1> QED
  BY <1>1, <1>2 DEF PlacedInv, ClosedInv, BlocksInv, WrittenInv, ContentsInv, LevelInv, BreadthFirst

\* As at the start.
LEMMA InitMem == Init => MemInv
<1> SUFFICES ASSUME Init PROVE MemInv
  OBVIOUS
<1>1. /\ pc = "load" /\ todo = <<>> /\ placed = <<>> /\ bytes_used = 0
      /\ bits_ = [p \in Addresses |-> {}] /\ data_ = [p \in Addresses |-> 0]
  BY DEF Init, LoadInit
<1>2. DOMAIN placed = {}
  <2>1. <<>> \in Seq({}) /\ Len(<<>>) = 0
    BY EmptySeq
  <2>2. DOMAIN <<>> = 1..0
    BY <2>1, LenProperties
  <2> QED
    BY <1>1, <2>2
<1>3. MemType /\ PhaseInv
  <2>1. Alloced \in Nat /\ ~(0 > Alloced) /\ 0 \in Nat
    BY MemoryAssumption
  <2>2. todo \in Seq([t : nodes, pt : Nat])
    BY <1>1, EmptySeq
  <2> QED
    BY <1>1, <1>2, <2>1, <2>2 DEF MemType, PhaseInv
<1> QED
  BY <1>1, <1>2, <1>3, EmptyMem DEF MemInv

\* Loading leaves the memory as it is.
LEMMA LoadMem ==
    ASSUME LoadInv, MemInv, Load
    PROVE  MemInv'
<1>1. /\ pc = "load" /\ pc' \in {"load", "loaded"} /\ UNCHANGED memoryVars
  BY DEF Load, ReadLine, EndLoad
<1>2. /\ todo' = <<>> /\ DOMAIN placed' = {} /\ bytes_used' = 0
      /\ bits_' = [p \in Addresses |-> {}] /\ data_' \in [Addresses -> Nat]
  BY <1>1 DEF MemInv, MemType, PhaseInv, memoryVars
<1>3. Len(todo') = 0 /\ DOMAIN todo' = {} /\ 1..0 = {}
  <2>1. Len(todo') = 0 /\ todo' \in Seq({})
    BY <1>2, EmptySeq
  <2> QED
    BY <2>1, LenProperties
<1>4. ToSet(todo') = {} /\ Waiting' = {} /\ Done' = {}
  BY <1>2, <1>3 DEF ToSet, Waiting, Done
<1>5. PlacedInv' /\ ClosedInv' /\ BlocksInv' /\ WrittenInv' /\ ContentsInv' /\ LevelInv'
  BY <1>2, <1>3, <1>4
     DEF PlacedInv, ClosedInv, BlocksInv, WrittenInv, ContentsInv, LevelInv, BreadthFirst
<1>6. MemType' /\ PhaseInv'
  <2>1. Alloced \in Nat /\ ~(0 > Alloced) /\ 0 \in Nat
    BY MemoryAssumption
  <2>2. todo' \in Seq([t : nodes', pt : Nat])
    BY <1>2, EmptySeq
  <2> QED
    BY <1>1, <1>2, <2>1, <2>2 DEF MemType, PhaseInv
<1> QED
  BY <1>5, <1>6 DEF MemInv

\* The root is the first in the queue.
LEMMA StartMem ==
    ASSUME LoadInv, MemInv, StartCompaction
    PROVE  MemInv'
<1> DEFINE e == <<>>
           x == [t |-> e, pt |-> Root]
           V == [t : nodes, pt : Nat]
<1>1. /\ pc' = "compact" /\ todo' = <<x>> /\ placed' = [t \in {e} |-> Root]
      /\ UNCHANGED <<nodes, words, bits_, data_, bytes_used>> /\ pc = "loaded"
      /\ bytes_used = 0 /\ bits_ = [p \in Addresses |-> {}] /\ MemType
  BY DEF StartCompaction, MemInv, PhaseInv
<1>2. e \in nodes /\ Root \in Nat /\ Len(e) = 0
  BY EmptySeq DEF LoadInv, NodesInv, Root
<1> HIDE DEF e
<1>3. x \in V /\ x.t = e /\ x.pt = Root
  BY <1>2
<1> HIDE DEF x, V
<1>4. /\ todo' \in Seq(V) /\ Len(todo') = 1 /\ todo'[1] = x /\ todo' # <<>>
      /\ Head(todo') = x /\ ToSet(todo') = {x}
  <2>1. todo' \in Seq(V) /\ Len(todo') = 1 /\ todo'[1] = x
    BY <1>1, <1>3
  <2>2. 1..1 = {1} /\ DOMAIN todo' = 1..1
    BY <2>1, LenProperties
  <2>3. todo' # <<>>
    <3>1. <<x>> # <<>>
      OBVIOUS
    <3> QED
      BY <1>1, <3>1
  <2>4. Head(todo') = todo'[1]
    BY <2>1, <2>3, HeadTailProperties
  <2>5. ToSet(todo') = {todo'[1]}
    BY <2>2 DEF ToSet
  <2> QED
    BY <2>1, <2>3, <2>4, <2>5
<1>5. DOMAIN placed' = {e} /\ placed'[e] = Root /\ Waiting' = {e} /\ Done' = {}
  <2>1. DOMAIN placed' = {e} /\ placed'[e] = Root
    BY <1>1
  <2>2. Waiting' = {e}
    BY <1>3, <1>4 DEF Waiting
  <2> QED
    BY <2>1, <2>2 DEF Done
<1>6. MemType'
  BY <1>1, <1>4 DEF MemType, V
<1>7. PhaseInv'
  BY <1>1, <1>5 DEF PhaseInv, e
<1>8. \A i \in 1..Len(todo') : i = 1
  BY <1>4
<1>9. PlacedInv'
  BY <1>1, <1>2, <1>3, <1>4, <1>5, <1>8 DEF PlacedInv
<1>10. ClosedInv'
  BY <1>5 DEF ClosedInv, e
<1>11. RootSize \in Nat /\ Alloced \in Nat /\ 0 \in Addresses
  <2>1. RootSize \in Nat /\ Alloced \in Nat /\ RootSize >= 2 + kNumLetters /\ kNumLetters \in Nat
    BY MemoryAssumption, LettersAre
  <2> QED
    BY <2>1 DEF Addresses, PastEnd
<1>12. BlocksInv'
  <2>1. Size(e) \in Nat /\ Size(e) <= RootSize
    BY SizeIs
  <2>2. \A t : Size(t)' = Size(t)
    BY <1>1, SameTree
  <2>3. 0 + Size(e) <= RootSize + 0
    BY <1>11, <2>1
  <2>4. Size(e)' = Size(e)
    BY <2>2
  <2>5. /\ placed'[e] \in Nat /\ placed'[e] + Size(e)' <= RootSize + bytes_used'
        /\ placed'[e] = Root /\ placed'[e] <= RootSize + Alloced
    BY <1>1, <1>11, <1>2, <1>5, <2>3, <2>4 DEF Root
  <2>6. \A t \in DOMAIN placed' : t = e
    BY <1>5
  <2> QED
    BY <1>5, <2>5, <2>6 DEF BlocksInv, e
<1>13. WrittenInv' /\ ContentsInv'
  BY <1>1, <1>5, <1>11 DEF WrittenInv, ContentsInv, Root
<1>14. LevelInv'
  <2>1. \A i, j \in 1..Len(todo') : ~(i < j)
    BY <1>8
  <2>2. \A u \in DOMAIN placed' : Len(u) <= Len(Head(todo').t) + 1
    BY <1>2, <1>3, <1>4, <1>5
  <2>3. DOMAIN placed' \ {<<>>} = {}
    BY <1>5 DEF e
  <2> QED
    BY <2>1, <2>2, <2>3 DEF LevelInv, BreadthFirst
<1> QED
  BY <1>6, <1>7, <1>9, <1>10, <1>12, <1>13, <1>14 DEF MemInv

\* Ending leaves the memory as it is.
LEMMA EndMem ==
    ASSUME LoadInv, MemInv, EndCompaction
    PROVE  MemInv'
<1>1. /\ pc = "compact" /\ pc' = "ready"
      /\ UNCHANGED <<nodes, words, bits_, data_, bytes_used, todo, placed>>
      /\ todo = <<>> /\ marked' = [w \in words |-> 0]
  BY DEF EndCompaction
<1>2. \A t : /\ Children(t)' = Children(t) /\ Size(t)' = Size(t) /\ Off(t)' = Off(t)
             /\ Bits(t)' = Bits(t) /\ \A c : Rank(t, c)' = Rank(t, c)
  BY <1>1, SameTree
<1>3. Waiting' = Waiting /\ Done' = Done /\ (BreadthFirst' <=> BreadthFirst)
  BY <1>1 DEF Waiting, Done, BreadthFirst
<1>4. MemType' /\ PlacedInv' /\ LevelInv'
  BY <1>1, <1>3 DEF MemInv, MemType, PlacedInv, LevelInv
<1>5. PhaseInv'
  BY <1>1 DEF MemInv, PhaseInv
<1>6. ClosedInv' /\ BlocksInv' /\ WrittenInv'
  BY <1>1, <1>2, <1>3 DEF MemInv, ClosedInv, BlocksInv, WrittenInv
<1>7. ContentsInv'
  <2>1. ContentsInv /\ pc # "ready"
    BY <1>1 DEF MemInv
  <2>2. \A t \in Done' : t \in words => data_[placed[t] + 1] = 0
    BY <1>3, <2>1 DEF ContentsInv
  <2>3. pc' = "ready" => \A t \in words : marked'[t] = 0
    BY <1>1
  <2> QED
    BY <1>1, <1>2, <1>3, <2>1, <2>2, <2>3 DEF ContentsInv
<1> QED
  BY <1>4, <1>5, <1>6, <1>7 DEF MemInv
-----------------------------------------------------------------------------
(* Marks. *)

\* The slot of a mark is in memory, and nothing else is in it.
LEMMA MarkSlot ==
    ASSUME NodesInv, MemInv, pc = "ready", NEW w \in words, NEW t \in nodes
    PROVE  /\ placed[w] \in Nat /\ placed[w] + 1 \in Addresses
           /\ \A c \in Children(t) : placed[t] + 1 + Off(t) + Rank(t, c) # placed[w] + 1
           /\ t \in words /\ t # w => placed[t] + 1 # placed[w] + 1
           /\ t # w => placed[t] # placed[w]
<1>1. DOMAIN placed = nodes /\ w \in nodes
  BY AllPlaced DEF MemInv, PhaseInv, NodesInv
<1>2. /\ placed[w] \in Nat /\ placed[w] + Size(w) <= RootSize + bytes_used
      /\ placed[t] \in Nat
      /\ t # w => placed[t] + Size(t) <= placed[w] \/ placed[w] + Size(w) <= placed[t]
  BY <1>1 DEF MemInv, BlocksInv, Apart
<1>3. /\ Off(w) = 1 /\ Size(w) = 1 + Off(w) + Count(w) /\ Count(w) \in Nat
      /\ Off(t) \in {0, 1} /\ Size(t) = 1 + Off(t) + Count(t) /\ Count(t) \in Nat
      /\ \A c \in Children(t) : Rank(t, c) \in 0..(Count(t) - 1)
      /\ t = w => Off(t) = 1
      /\ t \in words => Off(t) = 1
  BY SizeIs, ChildrenInOrder DEF Off, IsWordNode
<1>4. RootSize \in Nat /\ Alloced \in Nat /\ bytes_used \in 0..Alloced
  BY RoomIs DEF MemInv
<1> DEFINE p == placed[w]
           q == placed[t]
           N == Count(w)
           M == Count(t)
           o == Off(t)
<1>5. /\ p \in Nat /\ q \in Nat /\ N \in Nat /\ M \in Nat /\ o \in {0, 1}
      /\ p + 2 + N <= RootSize + bytes_used
      /\ t # w => q + (1 + o + M) <= p \/ p + 2 + N <= q
      /\ t = w => o = 1 /\ q = p
      /\ t \in words => o = 1
  BY <1>2, <1>3
<1>6. ASSUME NEW c \in Children(t) PROVE q + 1 + o + Rank(t, c) # p + 1
  <2> DEFINE k == Rank(t, c)
  <2>1. k \in 0..(M - 1)
    BY <1>3
  <2> HIDE DEF k, p, q, N, M, o
  <2>2. q + 1 + o + k # p + 1
    BY <1>5, <2>1
  <2> QED
    BY <2>2 DEF k
<1> HIDE DEF p, q, N, M, o
<1>7. p + 1 \in 0..(RootSize + Alloced)
  BY <1>4, <1>5
<1>8. t # w => q # p /\ q + 1 # p + 1
  BY <1>5
<1> QED
  BY <1>5, <1>6, <1>7, <1>8 DEF Addresses, PastEnd, p, q, o

\* What a change of the marks alone keeps.
LEMMA MarksMem ==
    ASSUME NodesInv, MemInv, pc = "ready",
           UNCHANGED <<loadVars, bits_, bytes_used, todo, placed>>,
           data_' \in [Addresses -> Nat], marked' \in [words -> Nat],
           \A t \in nodes : \A c \in Children(t) :
              data_'[placed[t] + 1 + Off(t) + Rank(t, c)]
                 = data_[placed[t] + 1 + Off(t) + Rank(t, c)],
           \A t \in words : data_'[placed[t] + 1] = marked'[t]
    PROVE  MemInv'
<1>1. UNCHANGED <<pc, nodes, words, bits_, bytes_used, todo, placed>>
  BY DEF loadVars
<1>2. \A t : /\ Children(t)' = Children(t) /\ Size(t)' = Size(t) /\ Off(t)' = Off(t)
             /\ Bits(t)' = Bits(t) /\ \A c : Rank(t, c)' = Rank(t, c)
  BY <1>1, SameTree
<1>3. Waiting' = Waiting /\ Done' = Done /\ (BreadthFirst' <=> BreadthFirst)
  BY <1>1 DEF Waiting, Done, BreadthFirst
<1>4. MemType' /\ PlacedInv' /\ LevelInv' /\ PhaseInv'
  BY <1>1, <1>3 DEF MemInv, MemType, PlacedInv, LevelInv, PhaseInv
<1>5. ClosedInv' /\ BlocksInv' /\ WrittenInv'
  BY <1>1, <1>2, <1>3 DEF MemInv, ClosedInv, BlocksInv, WrittenInv
<1>6. Done = nodes
  BY AllPlaced DEF MemInv, PhaseInv
<1>7. ContentsInv'
  <2>1. ContentsInv
    BY DEF MemInv
  <2>2. ASSUME NEW t \in Done', NEW c \in Children(t)
        PROVE  data_'[placed[t] + 1 + Off(t) + Rank(t, c)] = placed[Append(t, c)]
    BY <1>3, <1>6, <2>1 DEF ContentsInv
  <2>3. \A t \in Done' : bits_[placed[t]] = Bits(t)
    BY <1>3, <2>1 DEF ContentsInv
  <2> QED
    BY <1>1, <1>2, <2>2, <2>3 DEF ContentsInv
<1> QED
  BY <1>4, <1>5, <1>7 DEF MemInv

\* Mark changes the mark of its word.
LEMMA MarkMem ==
    ASSUME NodesInv, MemInv, Mark
    PROVE  MemInv'
<1>1. pc = "ready" /\ UNCHANGED <<loadVars, bits_, bytes_used, todo, placed>>
  BY DEF Mark
<1>2. PICK w \in words, m \in 1..MaxMark :
         /\ data_' = [data_ EXCEPT ![FindWord(w) + 1] = m]
         /\ marked' = [marked EXCEPT ![w] = m]
  BY DEF Mark
<1>3. words \subseteq nodes /\ nodes \subseteq Seq(Letters)
  BY DEF NodesInv
<1>4. FindWord(w) = placed[w]
  BY <1>1, <1>3, FindWordIs
<1>5. /\ data_ \in [Addresses -> Nat] /\ marked \in [words -> Nat] /\ m \in Nat
      /\ \A t \in words : data_[placed[t] + 1] = marked[t]
  <2>1. Done = nodes /\ m \in Nat
    BY <1>1, AllPlaced, MemoryAssumption DEF MemInv, PhaseInv
  <2> QED
    BY <1>1, <1>3, <2>1 DEF MemInv, MemType, PhaseInv, ContentsInv
<1> DEFINE a == placed[w] + 1
<1>6. a \in Addresses
  BY <1>1, <1>3, MarkSlot
<1>7. data_' = [data_ EXCEPT ![a] = m]
  BY <1>2, <1>4
<1>8. \A t \in words : t # w => placed[t] + 1 # a
  BY <1>1, <1>3, MarkSlot
<1>9. ASSUME NEW t \in nodes, NEW c \in Children(t)
      PROVE  placed[t] + 1 + Off(t) + Rank(t, c) # a
  BY <1>1, MarkSlot
<1> HIDE DEF a
<1>10. data_' \in [Addresses -> Nat] /\ marked' \in [words -> Nat]
  BY <1>2, <1>5, <1>7
<1>11. data_'[a] = m /\ \A x : x # a => data_'[x] = data_[x]
  BY <1>5, <1>6, <1>7
<1>12. ASSUME NEW t \in words PROVE data_'[placed[t] + 1] = marked'[t]
  <2>1. CASE t = w
    BY <1>2, <1>5, <1>11, <2>1 DEF a
  <2>2. CASE t # w
    BY <1>2, <1>5, <1>8, <1>11, <2>2
  <2> QED
    BY <2>1, <2>2
<1>13. ASSUME NEW t \in nodes, NEW c \in Children(t)
       PROVE  data_'[placed[t] + 1 + Off(t) + Rank(t, c)]
                 = data_[placed[t] + 1 + Off(t) + Rank(t, c)]
  BY <1>9, <1>11
<1> QED
  BY <1>1, <1>10, <1>12, <1>13, MarksMem

\* SetAllMarks changes the marks of all words.
LEMMA MarkAllMem ==
    ASSUME NodesInv, MemInv, SetAllMarks
    PROVE  MemInv'
<1>1. pc = "ready" /\ UNCHANGED <<loadVars, bits_, bytes_used, todo, placed>>
  BY DEF SetAllMarks
<1>2. PICK m \in 1..MaxMark :
         /\ data_' = [p \in Addresses |-> IF p - 1 \in ToMark THEN m ELSE data_[p]]
         /\ marked' = [w \in words |-> m]
  BY DEF SetAllMarks
<1>3. ToMark = {placed[t] : t \in words}
  BY <1>1, WalkIs DEF ToMark
<1>4. /\ data_ \in [Addresses -> Nat] /\ m \in Nat /\ words \subseteq nodes
  BY MemoryAssumption DEF MemInv, MemType, NodesInv
<1>5. data_' \in [Addresses -> Nat] /\ marked' \in [words -> Nat]
  BY <1>2, <1>4
<1>6. DOMAIN placed = nodes
  BY <1>1, AllPlaced DEF MemInv, PhaseInv
<1>7. ASSUME NEW t \in words PROVE data_'[placed[t] + 1] = marked'[t]
  <2> DEFINE p == placed[t] + 1
  <2>1. p \in Addresses /\ placed[t] \in Nat
    BY <1>1, <1>4, MarkSlot
  <2>2. p - 1 = placed[t]
    BY <2>1
  <2> HIDE DEF p
  <2>3. p - 1 \in ToMark
    BY <1>3, <2>2
  <2>4. data_'[p] = m
    BY <1>2, <2>1, <2>3
  <2> QED
    BY <1>2, <2>4 DEF p
<1>8. ASSUME NEW t \in nodes, NEW c \in Children(t)
      PROVE  data_'[placed[t] + 1 + Off(t) + Rank(t, c)]
                 = data_[placed[t] + 1 + Off(t) + Rank(t, c)]
  <2> DEFINE p == placed[t] + 1 + Off(t) + Rank(t, c)
             k == Rank(t, c)
  <2>1. \A w \in words : placed[w] + 1 # p /\ placed[w] \in Nat
    BY <1>1, MarkSlot
  <2>2. /\ placed[t] \in Nat /\ placed[t] + Size(t) <= RootSize + bytes_used
        /\ Off(t) \in {0, 1} /\ Size(t) = 1 + Off(t) + Count(t) /\ Count(t) \in Nat
        /\ k \in 0..(Count(t) - 1)
        /\ RootSize \in Nat /\ Alloced \in Nat /\ bytes_used \in 0..Alloced
    BY <1>1, <1>6, SizeIs, ChildrenInOrder, RoomIs DEF MemInv, BlocksInv
  <2>3. p = placed[t] + 1 + Off(t) + k
    OBVIOUS
  <2> HIDE DEF p, k
  <2>4. p \in 0..(RootSize + Alloced)
    BY <2>2, <2>3
  <2>5. p \in Addresses /\ p \in Nat
    BY <2>4 DEF Addresses, PastEnd
  <2>6. p - 1 \notin ToMark
    <3>1. \A n \in Nat : p - 1 = n => n + 1 = p
      BY <2>5
    <3> QED
      BY <1>3, <2>1, <3>1
  <2>7. data_'[p] = data_[p]
    BY <1>2, <2>5, <2>6
  <2> QED
    BY <2>7 DEF p, k
<1> QED
  BY <1>1, <1>5, <1>7, <1>8, MarksMem

\* The memory is well formed at every step.
LEMMA NextMem == LoadInv /\ MemInv /\ [Next]_vars => MemInv'
<1> SUFFICES ASSUME LoadInv, MemInv, [Next]_vars PROVE MemInv'
  OBVIOUS
<1>1. NodesInv
  BY DEF LoadInv
<1>2. CASE Load
  BY <1>2, LoadMem
<1>3. CASE StartCompaction
  BY <1>3, StartMem
<1>4. CASE Compact
  <2>1. UNCHANGED <<nodes, words>> /\ pc = "compact" /\ pc' \in {"compact", "null"}
    BY <1>1, <1>4, CompactIs DEF reading, MemInv
  <2>2. /\ MemType' /\ PlacedInv' /\ ClosedInv' /\ BlocksInv' /\ WrittenInv' /\ LevelInv'
        /\ pc' # "null" => ContentsInv'
    BY <1>1, <1>4, <2>1, PlacedStep, BlocksStep, ContentsStep, LevelStep DEF MemInv
  <2>3. DOMAIN placed' = DOMAIN placed \cup New
    BY <1>1, <1>4, QueueStep DEF MemInv
  <2>4. PhaseInv'
    BY <2>1, <2>3 DEF PhaseInv, MemInv
  <2> QED
    BY <2>2, <2>4 DEF MemInv
<1>5. CASE EndCompaction
  BY <1>5, EndMem
<1>6. CASE Mark
  BY <1>1, <1>6, MarkMem
<1>7. CASE SetAllMarks
  BY <1>1, <1>7, MarkAllMem
<1>8. CASE UNCHANGED vars
  <2>1. UNCHANGED <<pc, nodes, words, bits_, data_, bytes_used, todo, placed, marked>>
    BY <1>8 DEF vars, loadVars, memoryVars
  <2>2. \A t : /\ Children(t)' = Children(t) /\ Size(t)' = Size(t) /\ Off(t)' = Off(t)
               /\ Bits(t)' = Bits(t) /\ \A c : Rank(t, c)' = Rank(t, c)
    BY <2>1, SameTree
  <2>3. Waiting' = Waiting /\ Done' = Done /\ (BreadthFirst' <=> BreadthFirst)
    BY <2>1 DEF Waiting, Done, BreadthFirst
  <2>4. MemType' /\ PlacedInv' /\ LevelInv' /\ PhaseInv'
    BY <2>1, <2>3 DEF MemInv, MemType, PlacedInv, LevelInv, PhaseInv
  <2>5. ClosedInv' /\ BlocksInv' /\ WrittenInv' /\ (pc' # "null" => ContentsInv')
    BY <2>1, <2>2, <2>3 DEF MemInv, ClosedInv, BlocksInv, WrittenInv, ContentsInv
  <2> QED
    BY <2>4, <2>5 DEF MemInv
<1> QED
  BY <1>2, <1>3, <1>4, <1>5, <1>6, <1>7, <1>8 DEF Next, Create

\* Init and Next together.
LEMMA MemAlways == Spec => [](LoadInv /\ MemInv)
<1>1. Init => LoadInv /\ MemInv
  BY InitLoad, InitMem
<1>2. LoadInv /\ MemInv /\ [Next]_vars => LoadInv' /\ MemInv'
  BY NextLoad, NextMem
<1> QED
  BY <1>1, <1>2, PTL DEF Spec

\* CompactTrie never lets two nodes share memory, whatever the SimpleTrie is and
\* however much there is of it: the size that is counted for a node is the one
\* that Descend and Mark use.  When it finds that it has used too much, all that
\* is past the end is the bits_ of one node.  All types hold.
THEOREM NodesApart == Spec => []BlocksDisjoint
<1>1. LoadInv /\ MemInv => BlocksDisjoint
  <2> SUFFICES ASSUME LoadInv, MemInv PROVE BlocksDisjoint
    OBVIOUS
  <2>1. NodesInv
    BY DEF LoadInv
  <2>2. /\ RootSize \in Nat /\ Alloced \in Nat /\ bytes_used \in Nat
        /\ pc # "null" => bytes_used <= Alloced
    BY RoomIs DEF MemInv
  <2>3. ASSUME NEW t \in DOMAIN placed
        PROVE  /\ placed[t] \in Nat /\ placed[t] + Size(t) <= RootSize + bytes_used
               /\ placed[t] <= RootSize + Alloced
               /\ \/ placed[t] + Size(t) <= RootSize + Alloced
                  \/ InUse(placed[t]) = {placed[t]}
               /\ Size(t) \in Nat \ {0} /\ Size(t) <= RootSize
               /\ placed[t] \in InUse(placed[t])
               /\ InUse(placed[t]) \subseteq placed[t]..(placed[t] + Size(t) - 1)
               /\ t = <<>> => placed[t] = 0
               /\ t # <<>> => RootSize <= placed[t]
    BY <2>1, InUseIs, SizeIs DEF MemInv, BlocksInv, Root
  <2>4. ASSUME NEW t \in DOMAIN placed
        PROVE  /\ InUse(placed[t]) \subseteq Addresses
               /\ PastEnd \in InUse(placed[t]) => pc = "null" /\ InUse(placed[t]) = {PastEnd}
    <3> DEFINE p == placed[t]
               z == Size(t)
               M == RootSize + Alloced
    <3>1. /\ p \in Nat /\ p + z <= RootSize + bytes_used /\ z \in Nat \ {0}
          /\ InUse(p) \subseteq p..(p + z - 1)
          /\ p <= M /\ (p + z <= M \/ InUse(p) = {p}) /\ M \in Nat
      BY <2>2, <2>3
    <3>2. pc # "null" => p + z <= M
      BY <2>2, <2>3
    <3>3. Addresses = 0..M /\ PastEnd = M
      BY DEF Addresses, PastEnd
    <3> HIDE DEF p, z, M
    <3>4. CASE p + z <= M
      <4>1. \A a \in p..(p + z - 1) : a \in 0..M /\ a # M
        BY <3>1, <3>4
      <4> QED
        BY <3>1, <3>3, <4>1 DEF p
    <3>5. CASE ~(p + z <= M)
      <4>1. pc = "null" /\ InUse(p) = {p} /\ p \in 0..M
        BY <3>1, <3>2, <3>5
      <4> QED
        BY <3>3, <4>1 DEF p
    <3> QED
      BY <3>4, <3>5
  <2>5. ASSUME NEW t \in DOMAIN placed
        PROVE  t = <<>> <=> InUse(placed[t]) \subseteq 0..(RootSize - 1)
    <3>1. CASE t = <<>>
      <4> DEFINE z == Size(t)
      <4>1. InUse(placed[t]) \subseteq 0..(0 + z - 1) /\ z \in Nat /\ z <= RootSize
        BY <2>3, <3>1
      <4> HIDE DEF z
      <4>2. \A a \in 0..(0 + z - 1) : a \in 0..(RootSize - 1)
        BY <2>2, <4>1
      <4> QED
        BY <3>1, <4>1, <4>2
    <3>2. CASE t # <<>>
      <4>1. placed[t] \in InUse(placed[t]) /\ placed[t] \in Nat /\ RootSize <= placed[t]
        BY <2>3, <3>2
      <4>2. placed[t] \notin 0..(RootSize - 1)
        BY <2>2, <4>1
      <4> QED
        BY <3>2, <4>1, <4>2
    <3> QED
      BY <3>1, <3>2
  <2>6. ASSUME NEW t \in DOMAIN placed, NEW u \in DOMAIN placed \ {t}
        PROVE  InUse(placed[t]) \cap InUse(placed[u]) = {}
    <3> DEFINE p == placed[t]
               z == Size(t)
               q == placed[u]
               y == Size(u)
    <3>1. /\ p \in Nat /\ z \in Nat /\ q \in Nat /\ y \in Nat
          /\ InUse(p) \subseteq p..(p + z - 1) /\ InUse(q) \subseteq q..(q + y - 1)
      BY <2>3
    <3>2. p + z <= q \/ q + y <= p
      BY DEF MemInv, BlocksInv, Apart
    <3> HIDE DEF p, z, q, y
    <3>3. \A a \in p..(p + z - 1) : a \notin q..(q + y - 1)
      BY <3>1, <3>2
    <3> QED
      BY <3>1, <3>3 DEF p, q
  <2>7. TypeOK
    <3>1. LoadTypeOK
      BY <2>1 DEF LoadTypeOK, LoadInv, NodesInv
    <3>2. ASSUME NEW i \in DOMAIN todo PROVE todo[i].t \in nodes /\ todo[i].pt \in Addresses
      <4>1. todo[i] \in ToSet(todo)
        BY DEF ToSet
      <4>2. /\ todo[i].t \in DOMAIN placed /\ DOMAIN placed \subseteq nodes
            /\ todo[i].pt = placed[todo[i].t]
        BY <4>1 DEF MemInv, PlacedInv
      <4>3. placed[todo[i].t] \in InUse(placed[todo[i].t])
        BY <2>3, <4>2
      <4> QED
        BY <2>4, <4>2, <4>3
    <3> QED
      BY <3>1, <3>2 DEF TypeOK, MemInv, MemType
  <2>8. pc = "null" <=> bytes_used > Alloced
    BY DEF MemInv, MemType
  <2> QED
    BY <2>4, <2>5, <2>6, <2>7, <2>8 DEF BlocksDisjoint
<1> QED
  BY <1>1, MemAlways, PTL

\* Every longer word is at a higher address, in a trie of any size: what
\* MultiBoggle goes by.
THEOREM LongerIsHigher == Spec => []BreadthFirst
<1>1. MemInv => BreadthFirst
  BY DEF MemInv, LevelInv
<1> QED
  BY <1>1, MemAlways, PTL

\* A set has as many elements as what it is mapped to one by one.
LEMMA SameCount ==
    ASSUME NEW S, IsFiniteSet(S), NEW f, \A x, y \in S : f[x] = f[y] => x = y
    PROVE  Cardinality({f[x] : x \in S}) = Cardinality(S)
<1> DEFINE T == {f[x] : x \in S}
           g == [x \in S |-> f[x]]
<1>1. g \in [S -> T] /\ \A x, y \in S : g[x] = g[y] => x = y
  OBVIOUS
<1>2. \A y \in T : \E x \in S : g[x] = y
  OBVIOUS
<1> HIDE DEF g, T
<1>3. g \in Bijection(S, T)
  BY <1>1, <1>2 DEF Bijection, Injection, Surjection, IsInjective
<1>4. ExistsBijection(S, T)
  BY <1>3 DEF ExistsBijection
<1>5. Cardinality(T) = Cardinality(S)
  BY <1>4, FS_Bijection
<1> QED
  BY <1>5 DEF T

\* The compact trie, whatever marks were put on it, has the words of the file's
\* SimpleTrie and no others, and each node is found on one way: what the tests
\* try on a few words.
THEOREM CompactHasTheWords == Spec => []SameWords
<1>1. LoadInv /\ MemInv => SameWords
  <2> SUFFICES ASSUME LoadInv, MemInv, pc = "ready"
               PROVE  /\ \A w \in Texts : /\ IsWordText(w) <=> w \in words
                                          /\ FindWord(w) # Null <=> w \in nodes
                      /\ Cardinality(Reached) = Cardinality(words)
                      /\ Cardinality(ReachedNodes) = Cardinality(nodes)
                      /\ ReverseLookups = {[t |-> t, pt |-> FindWord(t)] : t \in nodes}
    BY DEF SameWords
  <2>1. /\ NodesInv /\ nodes \subseteq Seq(Letters) /\ words \subseteq nodes
        /\ IsFiniteSet(nodes) /\ IsFiniteSet(words)
    <3>1. NodesInv
      BY DEF LoadInv
    <3>2. IsFiniteSet(nodes) /\ words \in SUBSET nodes /\ nodes \subseteq Seq(Letters)
      BY <3>1 DEF NodesInv
    <3> QED
      BY <3>1, <3>2, FS_Subset
  <2>2. Done = nodes /\ DOMAIN placed = nodes
    BY <2>1, AllPlaced DEF MemInv, PhaseInv
  <2>3. \A t \in nodes : placed[t] \in Nat /\ placed[t] # Null
    BY <2>2 DEF MemInv, BlocksInv, Null
  <2>4. \A w \in Seq(Letters) : FindWord(w) = IF w \in nodes THEN placed[w] ELSE Null
    BY <2>1, FindWordIs
  <2>5. ASSUME NEW w \in Texts
        PROVE  (IsWordText(w) <=> w \in words) /\ (FindWord(w) # Null <=> w \in nodes)
    <3>1. w \in Seq(Letters)
      <4>1. \A t \in nodes, c \in Letters : Append(t, c) \in Seq(Letters)
        BY <2>1, AppendProperties
      <4> QED
        BY <2>1, <4>1 DEF Texts
    <3>2. \A i \in DOMAIN w : w[i] \in Letters
      BY <3>1, LenProperties, ElementOfSeq
    <3>3. FindWord(w) = IF w \in nodes THEN placed[w] ELSE Null
      BY <2>4, <3>1
    <3>4. CASE w \in nodes
      <4>1. FindWord(w) = placed[w] /\ placed[w] # Null
        BY <2>3, <3>3, <3>4
      <4>2. IsWord(placed[w]) <=> w \in words
        BY <2>1, <2>2, <3>4, NodeIs DEF MemInv
      <4> QED
        BY <3>2, <3>4, <4>1, <4>2 DEF IsWordText
    <3>5. CASE w \notin nodes
      <4>1. FindWord(w) = Null /\ w \notin words
        BY <2>1, <3>3, <3>5
      <4> QED
        BY <3>5, <4>1 DEF IsWordText
    <3> QED
      BY <3>4, <3>5
  <2>6. \A t, u \in nodes : placed[t] = placed[u] => t = u
    <3>1. ASSUME NEW t \in nodes, NEW u \in nodes, t # u PROVE placed[t] # placed[u]
      <4>1. /\ placed[t] \in Nat /\ placed[u] \in Nat
            /\ Size(t) \in Nat \ {0} /\ Size(u) \in Nat \ {0}
            /\ placed[t] + Size(t) <= placed[u] \/ placed[u] + Size(u) <= placed[t]
        BY <2>2, <3>1, SizeIs DEF MemInv, BlocksInv, Apart
      <4> QED
        BY <4>1
    <3> QED
      BY <3>1
  <2>7. /\ ReverseLookups = {Found(t) : t \in nodes}
        /\ ReachedNodes = {placed[t] : t \in nodes}
        /\ Reached = {placed[t] : t \in words}
    BY <2>1, WalkIs
  <2>8. Cardinality(ReachedNodes) = Cardinality(nodes)
    BY <2>1, <2>6, <2>7, SameCount
  <2>9. Cardinality(Reached) = Cardinality(words)
    <3>1. \A t, u \in words : placed[t] = placed[u] => t = u
      BY <2>1, <2>6
    <3> QED
      BY <2>1, <2>7, <3>1, SameCount
  <2>10. ReverseLookups = {[t |-> t, pt |-> FindWord(t)] : t \in nodes}
    <3>1. \A t \in nodes : Found(t) = [t |-> t, pt |-> FindWord(t)]
      BY <2>1, <2>4 DEF Found
    <3> QED
      BY <2>7, <3>1
  <2> QED
    BY <2>5, <2>8, <2>9, <2>10
<1> QED
  BY <1>1, MemAlways, PTL

\* No mark of a word is ever lost to another word's, nor does one that is put on
\* all words reach anything but the words.
THEOREM MarksStay == Spec => []MarksKept
<1>1. LoadInv /\ MemInv => MarksKept
  <2> SUFFICES ASSUME LoadInv, MemInv, pc = "ready", NEW w \in words
               PROVE  data_[FindWord(w) + 1] = marked[w]
    BY DEF MarksKept
  <2>1. NodesInv /\ w \in nodes /\ w \in Seq(Letters)
    BY DEF LoadInv, NodesInv
  <2>2. FindWord(w) = placed[w]
    BY <2>1, FindWordIs
  <2>3. w \in Done
    BY <2>1, AllPlaced DEF MemInv, PhaseInv
  <2> QED
    BY <2>2, <2>3 DEF MemInv, ContentsInv
<1> QED
  BY <1>1, MemAlways, PTL
=============================================================================
