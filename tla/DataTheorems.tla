---------------------------- MODULE DataTheorems ----------------------------
(***************************************************************************)
(* Facts about naturals, sequences and sums over finite sets that the      *)
(* proofs about the components share.                                      *)
(***************************************************************************)
EXTENDS Integers, Sequences, FiniteSets, SequencesExt, TLAPS, SequenceTheorems,
        FiniteSetTheorems, WellFoundedInduction

-----------------------------------------------------------------------------
\* A non-empty set of naturals has a least element.
LEMMA LeastElement ==
    ASSUME NEW T, T \subseteq Nat, T # {}
    PROVE  \E x \in T : \A y \in T : x <= y
<1>1. PICK x \in T : \A y \in T : ~(<<y, x>> \in OpToRel(<, Nat))
  BY NatLessThanWellFounded, WFMin
<1>2. ASSUME NEW y \in T PROVE ~(y < x)
  BY <1>1 DEF OpToRel
<1>3. \A m, n \in Nat : ~(m < n) => n <= m
  OBVIOUS
<1> QED
  BY <1>2, <1>3

\* A function on 1..n is a sequence.
LEMMA FunctionIsSeq == \A S, f : \A n \in Nat : f \in [1..n -> S] => f \in Seq(S)
  BY SeqDef, Zenon

\* The elements of a sequence with one more.
LEMMA ToSetAppend ==
    ASSUME NEW S, NEW s \in Seq(S), NEW x \in S
    PROVE  ToSet(Append(s, x)) = ToSet(s) \cup {x}
<1>1. /\ Append(s, x) \in Seq(S)
      /\ Len(Append(s, x)) = Len(s) + 1
      /\ \A i \in 1..Len(s) : Append(s, x)[i] = s[i]
      /\ Append(s, x)[Len(s) + 1] = x
  BY AppendProperties
<1>2. /\ DOMAIN Append(s, x) = 1..(Len(s) + 1)
      /\ DOMAIN s = 1..Len(s) /\ Len(s) \in Nat
  BY <1>1, LenProperties
<1>3. \A n \in Nat : 1..(n + 1) = 1..n \cup {n + 1}
  OBVIOUS
<1> DEFINE a == Append(s, x)
           t == Len(s) + 1
<1>4. DOMAIN a = DOMAIN s \cup {t} /\ a[t] = x /\ \A i \in DOMAIN s : a[i] = s[i]
  BY <1>1, <1>2, <1>3
<1> HIDE DEF a, t
<1>5. ToSet(a) = ToSet(s) \cup {x}
  BY <1>4 DEF ToSet
<1> QED
  BY <1>5 DEF a

\* A sequence with one more element.
LEMMA AppendCases ==
    ASSUME NEW S, NEW s \in Seq(S), NEW x \in S
    PROVE  /\ Append(s, x) \in Seq(S)
           /\ Len(s) \in Nat
           /\ Len(Append(s, x)) = Len(s) + 1
           /\ DOMAIN s = 1..Len(s)
           /\ DOMAIN Append(s, x) = 1..(Len(s) + 1)
           /\ \A n \in 1..(Len(s) + 1) :
                 \/ n \in 1..Len(s) /\ n # Len(s) + 1 /\ Append(s, x)[n] = s[n]
                 \/ n = Len(s) + 1 /\ n \notin 1..Len(s) /\ Append(s, x)[n] = x
           /\ \A n \in 1..Len(s) : n \in 1..(Len(s) + 1) /\ n < Len(s) + 1
<1>1. /\ Append(s, x) \in Seq(S)
      /\ Len(Append(s, x)) = Len(s) + 1
      /\ \A n \in 1..Len(s) : Append(s, x)[n] = s[n]
      /\ Append(s, x)[Len(s) + 1] = x
  BY AppendProperties
<1>2. Len(s) \in Nat /\ DOMAIN s = 1..Len(s)
  BY LenProperties
<1>3. DOMAIN Append(s, x) = 1..(Len(s) + 1)
  BY <1>1, LenProperties
<1>4. \A l \in Nat :
          /\ \A n \in 1..(l + 1) : \/ n \in 1..l /\ n # l + 1
                                   \/ n = l + 1 /\ n \notin 1..l
          /\ \A n \in 1..l : n \in 1..(l + 1) /\ n < l + 1
  OBVIOUS
<1> QED
  BY <1>1, <1>2, <1>3, <1>4

\* A sequence without its last element.
LEMMA AllButLast ==
    ASSUME NEW S, NEW s \in Seq(S), s # <<>>
    PROVE  /\ Len(s) \in Nat \ {0}
           /\ s[Len(s)] \in S
           /\ SubSeq(s, 1, Len(s) - 1) \in Seq(S)
           /\ Len(SubSeq(s, 1, Len(s) - 1)) = Len(s) - 1
           /\ \A n \in 1..(Len(s) - 1) :
                 n \in 1..Len(s) /\ SubSeq(s, 1, Len(s) - 1)[n] = s[n]
<1>1. Len(s) \in Nat \ {0}
  BY EmptySeq, LenProperties
<1>2. \A n \in 1..Len(s) : s[n] \in S
  BY ElementOfSeq
<1> DEFINE l == Len(s)
<1>3. \A m \in Nat \ {0} : /\ m - 1 \in Int /\ 1 \in Int
                           /\ (1 <= m - 1 => m - 1 - 1 + 1 = m - 1)
                           /\ (~(1 <= m - 1) => m - 1 = 0)
                           /\ m - 1 - 1 + 1 = m - 1
                           /\ 1..(m - 1) \subseteq 1..m
                           /\ m \in 1..m
                           /\ \A i \in 1..(m - 1) : 1 + i - 1 = i
  OBVIOUS
<1>4. \A i \in 1..(l - 1) : s[i] \in S
  BY <1>1, <1>2, <1>3
<1>5. /\ SubSeq(s, 1, l - 1) \in Seq(S)
      /\ Len(SubSeq(s, 1, l - 1)) = IF 1 <= l - 1 THEN l - 1 - 1 + 1 ELSE 0
      /\ \A i \in 1..(l - 1 - 1 + 1) : SubSeq(s, 1, l - 1)[i] = s[1 + i - 1]
  <2>1. l - 1 \in Int /\ 1 \in Int
    BY <1>1, <1>3
  <2> HIDE DEF l
  <2> QED
    BY <1>4, <2>1, SubSeqProperties
<1>6. Len(SubSeq(s, 1, l - 1)) = l - 1
  BY <1>1, <1>3, <1>5
<1>7. \A n \in 1..(l - 1) : n \in 1..l /\ SubSeq(s, 1, l - 1)[n] = s[n]
  BY <1>1, <1>3, <1>5
<1> QED
  BY <1>1, <1>2, <1>3, <1>5, <1>6, <1>7

\* The elements of two sequences put together.
LEMMA ToSetConcat ==
    ASSUME NEW S, NEW s \in Seq(S), NEW t \in Seq(S)
    PROVE  s \o t \in Seq(S) /\ ToSet(s \o t) = ToSet(s) \cup ToSet(t)
<1> DEFINE l == Len(s)
           m == Len(t)
           c == s \o t
<1>1. /\ c \in Seq(S) /\ Len(c) = l + m
      /\ \A i \in 1..(l + m) : c[i] = IF i <= l THEN s[i] ELSE t[i - l]
  BY ConcatProperties
<1>2. /\ l \in Nat /\ m \in Nat
      /\ DOMAIN s = 1..l /\ DOMAIN t = 1..m /\ DOMAIN c = 1..(l + m)
  BY <1>1, LenProperties
<1> HIDE DEF l, m, c
<1>3. \A i \in 1..l : i \in 1..(l + m) /\ c[i] = s[i]
  BY <1>1, <1>2
<1>4. \A i \in 1..m : i + l \in 1..(l + m) /\ c[i + l] = t[i]
  <2>1. \A i \in 1..m : i + l \in 1..(l + m) /\ ~(i + l <= l) /\ (i + l) - l = i
    BY <1>2
  <2> QED
    BY <1>1, <2>1
<1>5. \A i \in 1..(l + m) : \/ i \in 1..l /\ c[i] = s[i]
                            \/ i - l \in 1..m /\ c[i] = t[i - l]
  <2>1. \A i \in 1..(l + m) : (i <= l /\ i \in 1..l) \/ (~(i <= l) /\ i - l \in 1..m)
    BY <1>2
  <2> QED
    BY <1>1, <2>1
<1>6. /\ ToSet(c) = {c[i] : i \in 1..(l + m)}
      /\ ToSet(s) = {s[i] : i \in 1..l} /\ ToSet(t) = {t[i] : i \in 1..m}
  BY <1>2 DEF ToSet
<1>7. \A x : x \in ToSet(c) => x \in ToSet(s) \/ x \in ToSet(t)
  BY <1>5, <1>6
<1>8. \A x : x \in ToSet(s) => x \in ToSet(c)
  BY <1>3, <1>6
<1>9. \A x : x \in ToSet(t) => x \in ToSet(c)
  BY <1>4, <1>6
<1>10. ToSet(c) = ToSet(s) \cup ToSet(t)
  BY <1>7, <1>8, <1>9
<1> QED
  BY <1>1, <1>10 DEF c

\* The elements of a sequence are its first and those of the rest.
LEMMA HeadAndTail ==
    \A S : \A s \in Seq(S) : s # <<>> => ToSet(s) = {Head(s)} \cup ToSet(Tail(s))
<1> SUFFICES ASSUME NEW S, NEW s \in Seq(S), s # <<>>
             PROVE  ToSet(s) = {Head(s)} \cup ToSet(Tail(s))
  OBVIOUS
<1> DEFINE l == Len(s) - 1
           t == Tail(s)
<1>1. /\ Head(s) \in S /\ t \in Seq(S) /\ Len(t) = l
      /\ \A i \in 1..Len(t) : t[i] = s[i + 1]
      /\ Head(s) = s[1]
  BY HeadTailProperties
<1>2. /\ Len(s) = l + 1 /\ l \in Nat /\ DOMAIN s = 1..(l + 1)
      /\ DOMAIN t = 1..l
  BY <1>1, EmptySeq, LenProperties
<1> HIDE DEF l, t
<1>3. /\ 1 \in 1..(l + 1) /\ \A i \in 1..l : i + 1 \in 1..(l + 1)
      /\ \A i \in 1..(l + 1) : i = 1 \/ (i - 1 \in 1..l /\ (i - 1) + 1 = i)
  BY <1>2
<1>4. ToSet(s) = {s[i] : i \in 1..(l + 1)} /\ ToSet(t) = {t[i] : i \in 1..l}
  BY <1>2 DEF ToSet
<1>5. \A i \in 1..l : t[i] = s[i + 1]
  BY <1>1
<1>6. ASSUME NEW x \in ToSet(s) PROVE x = s[1] \/ x \in ToSet(t)
  <2>1. PICK i \in 1..(l + 1) : x = s[i]
    BY <1>4
  <2>2. CASE i # 1
    <3>1. i - 1 \in 1..l /\ (i - 1) + 1 = i
      BY <1>3, <2>2
    <3>2. x = t[i - 1]
      BY <1>5, <2>1, <3>1
    <3> QED
      BY <1>4, <3>1, <3>2
  <2> QED
    BY <2>1, <2>2
<1>7. ToSet(t) \subseteq ToSet(s) /\ s[1] \in ToSet(s)
  BY <1>3, <1>4, <1>5
<1> QED
  BY <1>1, <1>6, <1>7 DEF t

\* The length of a sequence is known from its domain.
LEMMA SameInterval == \A i, j \in Nat : 1..i = 1..j => i = j
<1>1. ASSUME NEW i \in Nat, NEW j \in Nat, 1..i = 1..j, i < j PROVE FALSE
  <2>1. j \in 1..j /\ j \notin 1..i
    BY <1>1
  <2> QED
    BY <1>1, <2>1
<1>2. \A i, j \in Nat : i < j \/ j < i \/ i = j
  OBVIOUS
<1> QED
  BY <1>1, <1>2

\* A set of naturals that has 0, and n + 1 with n, has every natural up to N.
LEMMA UpTo ==
    ASSUME NEW N \in Nat, NEW T, 0 \in T,
           \A n \in 0..N : n \in T /\ n < N => n + 1 \in T
    PROVE  0..N \subseteq T
<1> DEFINE Bad == (0..N) \ T
<1>1. SUFFICES ASSUME Bad # {} PROVE FALSE
  OBVIOUS
<1>2. Bad \subseteq Nat
  OBVIOUS
<1>3. PICK m \in Bad : \A n \in Bad : m <= n
  BY <1>1, <1>2, LeastElement
<1>4. m \in 0..N /\ m \notin T /\ m # 0
  BY <1>3
<1>5. m - 1 \in 0..N /\ m - 1 < N /\ (m - 1) + 1 = m /\ ~(m <= m - 1)
  BY <1>4
<1>6. m - 1 \in T
  BY <1>3, <1>5
<1> QED
  BY <1>4, <1>5, <1>6

\* The same, from the number before.
LEMMA StepsUp ==
    ASSUME NEW N \in Nat, NEW T, 0 \in T, \A j \in 1..N : j - 1 \in T => j \in T
    PROVE  \A j \in 0..N : j \in T
<1>1. ASSUME NEW n \in 0..N, n \in T, n < N PROVE n + 1 \in T
  <2>1. n + 1 \in 1..N /\ (n + 1) - 1 = n
    BY <1>1
  <2> QED
    BY <1>1, <2>1
<1>2. 0..N \subseteq T
  BY <1>1, UpTo
<1> QED
  BY <1>2

\* What N steps make of a value: step[j] is a function of the value before it.
Iterates(f, N, V, base, step) ==
    /\ f \in [0..N -> V]
    /\ f[0] = base
    /\ \A j \in 1..N : f[j] = step[j][f[j - 1]]

\* A recursive function on 0..N exists.
LEMMA IteratesExist ==
    ASSUME NEW N \in Nat, NEW V, NEW base \in V, NEW step,
           \A j \in 1..N : \A v \in V : step[j][v] \in V
    PROVE  \E f : Iterates(f, N, V, base, step)
<1> DEFINE T == {n \in 0..N : \E f : Iterates(f, n, V, base, step)}
<1>1. 0 \in 0..N /\ N \in 0..N
  OBVIOUS
<1>2. 0 \in T
  <2> DEFINE f == [k \in 0..0 |-> base]
  <2>1. 0 \in 0..0 /\ 1..0 = {}
    OBVIOUS
  <2>2. f \in [0..0 -> V] /\ f[0] = base
    BY <2>1
  <2> HIDE DEF f
  <2>3. Iterates(f, 0, V, base, step)
    BY <2>1, <2>2 DEF Iterates
  <2> QED
    BY <1>1, <2>3
<1>3. ASSUME NEW j \in 1..N, j - 1 \in T PROVE j \in T
  <2> DEFINE m == j - 1
  <2>1. m \in 0..N /\ j = m + 1 /\ m \in Nat /\ m \in 0..m /\ j \notin 0..m
        /\ j \in 0..N /\ 0 \in 0..m /\ j # 0
        /\ 0..j = 0..m \cup {j} /\ 1..j = 1..m \cup {j}
        /\ \A i \in 1..m : i \in 0..m /\ i - 1 \in 0..m /\ i # j
    OBVIOUS
  <2> HIDE DEF m
  <2>2. PICK f : Iterates(f, m, V, base, step)
    BY <1>3 DEF m
  <2> DEFINE v == step[j][f[m]]
             g == [k \in 0..j |-> IF k = j THEN v ELSE f[k]]
  <2>3. v \in V
    BY <1>3, <2>1, <2>2 DEF Iterates
  <2> HIDE DEF v
  <2>4. g \in [0..j -> V] /\ g[j] = v /\ \A k \in 0..m : g[k] = f[k]
    BY <2>1, <2>2, <2>3 DEF Iterates
  <2> HIDE DEF g
  <2>5. g[0] = base
    BY <2>1, <2>2, <2>4 DEF Iterates
  <2>6. j - 1 = m
    BY DEF m
  <2>7. \A i \in 1..m : g[i] = step[i][g[i - 1]]
    BY <2>1, <2>2, <2>4 DEF Iterates
  <2>8. g[j] = step[j][g[j - 1]]
    BY <2>1, <2>4, <2>6 DEF v
  <2>9. \A i \in 1..j : g[i] = step[i][g[i - 1]]
    BY <2>1, <2>7, <2>8
  <2>10. Iterates(g, j, V, base, step)
    BY <2>4, <2>5, <2>9 DEF Iterates
  <2> QED
    BY <2>1, <2>10
<1> HIDE DEF T
<1>4. N \in T
  BY ONLY <1>1, <1>2, <1>3, StepsUp, N \in Nat
<1> QED
  BY <1>4 DEF T

\* A function that a recursive definition chose is what its steps make.
LEMMA RecursionIs ==
    ASSUME NEW N \in Nat, NEW V, NEW base \in V, NEW step,
           \A j \in 1..N : \A v \in V : step[j][v] \in V,
           NEW f, f = [j \in 0..N |-> f[j]], f[0] = base,
           \A j \in 1..N : f[j - 1] \in V => f[j] = step[j][f[j - 1]]
    PROVE  Iterates(f, N, V, base, step)
<1> DEFINE T == {j \in 0..N : f[j] \in V}
<1>1. 0 \in 0..N /\ \A j \in 1..N : j \in 0..N /\ j - 1 \in 0..N
  OBVIOUS
<1>2. 0 \in T
  BY <1>1
<1>3. ASSUME NEW j \in 1..N, j - 1 \in T PROVE j \in T
  BY <1>1, <1>3
<1> HIDE DEF T
<1>4. \A j \in 0..N : j \in T
  BY ONLY <1>2, <1>3, StepsUp, N \in Nat
<1>5. \A j \in 0..N : f[j] \in V
  BY <1>4 DEF T
<1>6. f \in [0..N -> V]
  BY <1>5
<1> QED
  BY <1>1, <1>5, <1>6 DEF Iterates

-----------------------------------------------------------------------------
(* Sequences put together. *)

\* FlattenSeq of nothing.
LEMMA FlattenEmpty == FlattenSeq(<<>>) = <<>>
<1>1. Len(<<>>) = 0
  BY EmptySeq
<1> QED
  BY <1>1 DEF FlattenSeq

\* FlattenSeq puts one sequence after the other.
LEMMA FlattenIs ==
    ASSUME NEW S, NEW seqs \in Seq(Seq(S))
    PROVE  \E f : /\ f \in [0..Len(seqs) -> Seq(S)]
                  /\ f[0] = <<>>
                  /\ \A j \in 1..Len(seqs) : f[j] = f[j - 1] \o seqs[j]
                  /\ FlattenSeq(seqs) = f[Len(seqs)]
<1> DEFINE N == Len(seqs)
           V == Seq(S)
           e == <<>>
           step == [j \in 1..N |-> [v \in V |-> v \o seqs[j]]]
           Eq(f) == f = [i \in 1..N |-> IF i = 1 THEN seqs[i] ELSE f[i - 1] \o seqs[i]]
<1>1. N \in Nat /\ e \in V /\ \A j \in 1..N : seqs[j] \in V
  BY LenProperties, ElementOfSeq, EmptySeq
<1>2. \A v, w \in V : v \o w \in V
  BY ConcatProperties
<1>3. \A v \in V : e \o v = v
  BY ConcatEmptySeq
<1>4. N = 0 => FlattenSeq(seqs) = e
  <2>1. N = 0 => seqs = <<>>
    BY EmptySeq
  <2> QED
    BY <2>1 DEF FlattenSeq
<1>5. N # 0 => FlattenSeq(seqs) = (CHOOSE f : Eq(f))[N]
  BY DEF FlattenSeq
<1> HIDE DEF N, V, e
<1>6. \A j \in 1..N : \A v \in V : step[j][v] = v \o seqs[j] /\ step[j][v] \in V
  BY <1>1, <1>2
<1> HIDE DEF step
<1>7. PICK f : Iterates(f, N, V, e, step)
  BY <1>1, <1>6, IteratesExist
<1>8. /\ f \in [0..N -> V] /\ f[0] = e
      /\ \A j \in 1..N : f[j] = f[j - 1] \o seqs[j]
  <2>1. \A j \in 1..N : j - 1 \in 0..N
    BY <1>1
  <2> QED
    BY <1>6, <1>7, <2>1 DEF Iterates
<1>9. N # 0 => FlattenSeq(seqs) = f[N]
  <2>1. SUFFICES ASSUME N # 0 PROVE FlattenSeq(seqs) = f[N]
    OBVIOUS
  <2> DEFINE g == [i \in 1..N |-> f[i]]
             h == CHOOSE x : Eq(x)
  <2>2. ASSUME NEW i \in 1..N PROVE g[i] = IF i = 1 THEN seqs[i] ELSE g[i - 1] \o seqs[i]
    <3>1. i # 1 => i - 1 \in 1..N
      BY <1>1
    <3>2. i = 1 => f[i] = seqs[i]
      <4>1. i = 1 => i - 1 = 0
        OBVIOUS
      <4> QED
        BY <1>1, <1>3, <1>8, <4>1
    <3> QED
      BY <1>8, <3>1, <3>2
  <2>3. Eq(g)
    BY <2>2
  <2>4. Eq(h)
    BY <2>3
  <2>5. \A i \in 1..N : h[i] = IF i = 1 THEN seqs[i] ELSE h[i - 1] \o seqs[i]
    BY <2>4
  <2>6. FlattenSeq(seqs) = h[N]
    BY <1>5, <2>1
  <2> HIDE DEF h, g, Eq
  <2> DEFINE T == {j \in 0..N : j = 0 \/ h[j] = f[j]}
  <2>7. 0 \in T
    BY <1>1
  <2>8. ASSUME NEW j \in 1..N, j - 1 \in T PROVE j \in T
    <3>1. j \in 0..N /\ (j = 1 <=> j - 1 = 0)
      BY <1>1
    <3>2. CASE j = 1
      <4>1. h[j] = seqs[j]
        BY <2>5, <3>2
      <4>3. f[j] = f[j - 1] \o seqs[j]
        BY <1>8
      <4>2. f[j] = seqs[j]
        BY <1>1, <1>3, <1>8, <3>1, <3>2, <4>3
      <4> QED
        BY <3>1, <4>1, <4>2
    <3>3. CASE j # 1
      BY <1>8, <2>5, <2>8, <3>1, <3>3
    <3> QED
      BY <3>2, <3>3
  <2> HIDE DEF T
  <2>9. \A j \in 0..N : j \in T
    BY ONLY <1>1, <2>7, <2>8, StepsUp
  <2>10. N \in 0..N
    BY <1>1
  <2> QED
    BY <2>1, <2>6, <2>9, <2>10 DEF T
<1>10. FlattenSeq(seqs) = f[N]
  BY <1>4, <1>8, <1>9
<1> QED
  BY <1>8, <1>10 DEF N, V, e

\* One more sequence comes at the end.
LEMMA FlattenAppend ==
    ASSUME NEW S, NEW seqs \in Seq(Seq(S)), NEW x \in Seq(S)
    PROVE  /\ FlattenSeq(seqs) \in Seq(S)
           /\ FlattenSeq(Append(seqs, x)) = FlattenSeq(seqs) \o x
<1> DEFINE V == Seq(S)
           N == Len(seqs)
           a == Append(seqs, x)
           M == N + 1
<1>1. /\ N \in Nat /\ a \in Seq(V) /\ Len(a) = M
      /\ \A j \in 1..N : a[j] = seqs[j]
      /\ a[M] = x
  BY AppendProperties, LenProperties
<1>2. PICK f : /\ f \in [0..N -> V]
               /\ f[0] = <<>>
               /\ \A j \in 1..N : f[j] = f[j - 1] \o seqs[j]
               /\ FlattenSeq(seqs) = f[N]
  BY FlattenIs
<1>3. PICK g : /\ g \in [0..Len(a) -> V]
               /\ g[0] = <<>>
               /\ \A j \in 1..Len(a) : g[j] = g[j - 1] \o a[j]
               /\ FlattenSeq(a) = g[Len(a)]
  <2> HIDE DEF a
  <2> QED
    BY <1>1, FlattenIs
<1> HIDE DEF V, N, a
<1>4. M \in 1..M /\ M - 1 = N /\ \A j \in 1..N : j \in 1..M
  BY <1>1
<1> HIDE DEF M
<1> DEFINE T == {j \in 0..N : g[j] = f[j]}
<1>5. 0 \in T
  BY <1>1, <1>2, <1>3
<1>6. ASSUME NEW j \in 1..N, j - 1 \in T PROVE j \in T
  <2>1. j \in 0..N
    BY <1>1
  <2> QED
    BY <1>1, <1>2, <1>3, <1>4, <1>6, <2>1
<1> HIDE DEF T
<1>7. \A j \in 0..N : j \in T
  BY ONLY <1>1, <1>5, <1>6, StepsUp
<1>8. N \in 0..N
  BY <1>1
<1>9. g[N] = f[N]
  BY <1>7, <1>8 DEF T
<1>10. g[M] = g[N] \o x
  BY <1>1, <1>3, <1>4
<1>11. FlattenSeq(a) = FlattenSeq(seqs) \o x
  BY <1>1, <1>2, <1>3, <1>9, <1>10
<1>12. FlattenSeq(seqs) \in V
  BY <1>2, <1>8
<1> QED
  BY <1>11, <1>12 DEF a, V
-----------------------------------------------------------------------------
(* Sums over finite sets.  MapThenSumSet takes the elements in an order it   *)
(* chooses; that the order makes no difference is shown by induction on the  *)
(* size of the set, with UpTo.                                               *)

SumOf(g, S) == MapThenSumSet(LAMBDA x : g[x], S)

\* f is the function that MapThenSumSet defines on the subsets of S.
SumStep(f, g, s) ==
    IF s = {} THEN 0
    ELSE LET x == CHOOSE x \in s : TRUE IN g[x] + f[s \ {x}]
IsSum(f, g, S) == f = [s \in SUBSET S |-> SumStep(f, g, s)]

\* The sum is what such a function has for the whole set, if there is one.
LEMMA SumIsStep ==
    ASSUME NEW g, NEW S, \E f : IsSum(f, g, S)
    PROVE  \E f : IsSum(f, g, S) /\ SumOf(g, S) = f[S]
<1> DEFINE F == CHOOSE f : IsSum(f, g, S)
<1>1. IsSum(F, g, S)
  OBVIOUS
<1>2. SumOf(g, S) = F[S]
  BY DEF SumOf, MapThenSumSet, MapThenFoldSet, IsSum, SumStep
<1> QED
  BY <1>1, <1>2

\* The element that is taken out of a set leaves a smaller one.
LEMMA TakeOne ==
    ASSUME NEW s, IsFiniteSet(s), s # {}
    PROVE  LET x == CHOOSE x \in s : TRUE
           IN  /\ x \in s
               /\ IsFiniteSet(s \ {x})
               /\ Cardinality(s) \in Nat \ {0}
               /\ Cardinality(s \ {x}) = Cardinality(s) - 1
<1> DEFINE x == CHOOSE x \in s : TRUE
<1>1. x \in s
  OBVIOUS
<1> HIDE DEF x
<1>2. IsFiniteSet(s \ {x}) /\ Cardinality(s \ {x}) = Cardinality(s) - 1
  BY <1>1, FS_RemoveElement
<1>3. Cardinality(s) \in Nat \ {0}
  BY FS_CardinalityType, FS_EmptySet
<1> QED
  BY <1>1, <1>2, <1>3 DEF x

\* The recursion that MapThenSumSet writes down has a solution.
LEMMA SumExists ==
    ASSUME NEW g, NEW S, IsFiniteSet(S)
    PROVE  \E f : IsSum(f, g, S)
<1> DEFINE Small(n) == {s \in SUBSET S : Cardinality(s) <= n}
           T == {n \in Nat : \E f : f = [s \in Small(n) |-> SumStep(f, g, s)]}
           N == Cardinality(S)
<1>1. \A s \in SUBSET S : IsFiniteSet(s) /\ Cardinality(s) \in Nat /\ Cardinality(s) <= N
  BY FS_Subset, FS_CardinalityType
<1>2. 0 \in T
  <2>1. Small(0) = {{}}
    <3>1. \A s \in SUBSET S : Cardinality(s) <= 0 <=> s = {}
      BY <1>1, FS_EmptySet
    <3> QED
      BY <3>1
  <2> HIDE DEF Small
  <2> DEFINE f == [s \in Small(0) |-> 0]
  <2>2. \A s \in Small(0) : SumStep(f, g, s) = 0
    BY <2>1 DEF SumStep
  <2>3. f = [s \in Small(0) |-> SumStep(f, g, s)]
    BY <2>2
  <2> HIDE DEF f
  <2> QED
    BY <2>3
<1>3. ASSUME NEW n \in Nat, n \in T PROVE n + 1 \in T
  <2>1. PICK f : f = [s \in Small(n) |-> SumStep(f, g, s)]
    BY <1>3
  <2> DEFINE h == [s \in Small(n + 1) |-> SumStep(f, g, s)]
  <2>2. ASSUME NEW s \in Small(n + 1) PROVE SumStep(f, g, s) = SumStep(h, g, s)
    <3>1. CASE s = {}
      BY <3>1 DEF SumStep
    <3>2. CASE s # {}
      <4> DEFINE x == CHOOSE x \in s : TRUE
                 r == s \ {x}
      <4>1. s \in SUBSET S /\ Cardinality(s) <= n + 1
        BY <2>2
      <4>2. /\ x \in s /\ Cardinality(s) \in Nat \ {0}
            /\ Cardinality(s \ {x}) = Cardinality(s) - 1
        BY <1>1, <3>2, <4>1, TakeOne
      <4> HIDE DEF x
      <4>3. r \in Small(n) /\ r \in Small(n + 1)
        <5>1. \A c \in Nat \ {0} : c <= n + 1 => c - 1 <= n /\ c - 1 <= n + 1
          OBVIOUS
        <5>2. r \in SUBSET S /\ Cardinality(r) <= n /\ Cardinality(r) <= n + 1
          BY <4>1, <4>2, <5>1
        <5> QED
          BY <5>2
      <4> HIDE DEF Small
      <4>4. f[r] = SumStep(f, g, r)
        BY <2>1, <4>3
      <4>5. h[r] = SumStep(f, g, r)
        BY <4>3
      <4> HIDE DEF h, r
      <4>6. f[r] = h[r]
        BY <4>4, <4>5
      <4>7. SumStep(f, g, s) = g[x] + f[r] /\ SumStep(h, g, s) = g[x] + h[r]
        BY <3>2 DEF SumStep, x, r
      <4> QED
        BY <4>6, <4>7
    <3> QED
      BY <3>1, <3>2
  <2> HIDE DEF Small
  <2>3. h = [s \in Small(n + 1) |-> SumStep(h, g, s)]
    BY <2>2
  <2> HIDE DEF h
  <2> QED
    BY <2>3
<1>4. N \in Nat
  BY FS_CardinalityType
<1> HIDE DEF N
<1>5. N \in T
  <2> HIDE DEF T
  <2>1. 0..N \subseteq T
    BY <1>2, <1>3, <1>4, UpTo
  <2> QED
    BY <1>4, <2>1
<1>6. PICK f : f = [s \in Small(N) |-> SumStep(f, g, s)]
  BY <1>5
<1>7. Small(N) = SUBSET S
  BY <1>1
<1> HIDE DEF Small
<1> QED
  BY <1>6, <1>7 DEF IsSum

\* Solutions for two sets, and for functions that agree on one of them, agree on
\* its subsets.
LEMMA SumUnique ==
    ASSUME NEW f, NEW g, NEW S, IsSum(f, g, S),
           NEW h, NEW k, NEW R, IsSum(h, k, R),
           R \subseteq S, IsFiniteSet(R), \A x \in R : g[x] = k[x]
    PROVE  \A s \in SUBSET R : f[s] = h[s]
<1> DEFINE N == Cardinality(R)
           T == {n \in Nat : \A s \in SUBSET R : Cardinality(s) = n => f[s] = h[s]}
<1>1. \A s \in SUBSET R : IsFiniteSet(s) /\ Cardinality(s) \in Nat /\ Cardinality(s) <= N
  BY FS_Subset, FS_CardinalityType
<1>2. \A s \in SUBSET R : f[s] = SumStep(f, g, s) /\ h[s] = SumStep(h, k, s)
  BY DEF IsSum
<1>3. 0 \in T
  <2>1. ASSUME NEW s \in SUBSET R, Cardinality(s) = 0 PROVE f[s] = h[s]
    <3>1. s = {}
      BY <1>1, <2>1, FS_EmptySet
    <3> QED
      BY <1>2, <3>1 DEF SumStep
  <2> QED
    BY <2>1
<1>4. ASSUME NEW n \in Nat, n \in T PROVE n + 1 \in T
  <2>1. ASSUME NEW s \in SUBSET R, Cardinality(s) = n + 1 PROVE f[s] = h[s]
    <3> DEFINE x == CHOOSE x \in s : TRUE
               r == s \ {x}
    <3>1. s # {}
      BY <2>1, FS_EmptySet
    <3>2. x \in s /\ Cardinality(s \ {x}) = Cardinality(s) - 1
      BY <1>1, <2>1, <3>1, TakeOne
    <3> HIDE DEF x
    <3>3. r \in SUBSET R /\ Cardinality(r) = n
      BY <2>1, <3>2
    <3>4. f[r] = h[r]
      BY <1>4, <3>3
    <3>5. g[x] = k[x]
      BY <2>1, <3>2
    <3>6. f[s] = g[x] + f[r] /\ h[s] = k[x] + h[r]
      <4>1. f[s] = SumStep(f, g, s) /\ h[s] = SumStep(h, k, s)
        BY <1>2, <2>1
      <4> QED
        BY <3>1, <4>1 DEF SumStep, x
    <3> HIDE DEF r
    <3> QED
      BY <3>4, <3>5, <3>6
  <2> QED
    BY <2>1
<1>5. N \in Nat
  BY FS_CardinalityType
<1> HIDE DEF N
<1>6. 0..N \subseteq T
  <2> HIDE DEF T
  <2> QED
    BY <1>3, <1>4, <1>5, UpTo
<1> QED
  BY <1>1, <1>5, <1>6

\* Any solution gives the sum, of each subset.
LEMMA SumOfSubset ==
    ASSUME NEW f, NEW g, NEW S, IsFiniteSet(S), IsSum(f, g, S), NEW s \in SUBSET S
    PROVE  f[s] = SumOf(g, s)
<1>1. IsFiniteSet(s)
  BY FS_Subset
<1>2. PICK h : IsSum(h, g, s) /\ SumOf(g, s) = h[s]
  BY <1>1, SumExists, SumIsStep
<1> QED
  BY <1>1, <1>2, SumUnique

\* Functions that agree on a set have the same sum over it.
LEMMA SumSame ==
    ASSUME NEW g, NEW k, NEW S, IsFiniteSet(S), \A x \in S : g[x] = k[x]
    PROVE  SumOf(g, S) = SumOf(k, S)
<1>1. PICK f : IsSum(f, g, S) /\ SumOf(g, S) = f[S]
  BY SumExists, SumIsStep
<1>2. PICK h : IsSum(h, k, S) /\ SumOf(k, S) = h[S]
  BY SumExists, SumIsStep
<1> QED
  BY <1>1, <1>2, SumUnique

\* The sum over nothing.
LEMMA SumEmpty == ASSUME NEW g PROVE SumOf(g, {}) = 0
<1>1. IsFiniteSet({})
  BY FS_EmptySet
<1>2. PICK f : IsSum(f, g, {}) /\ SumOf(g, {}) = f[{}]
  BY <1>1, SumExists, SumIsStep
<1> QED
  BY <1>2 DEF IsSum, SumStep

\* The sum over a set is what one element, the one that is taken out first, has
\* and the sum over the others.
LEMMA SumChosen ==
    ASSUME NEW g, NEW s, IsFiniteSet(s), s # {}
    PROVE  LET x == CHOOSE x \in s : TRUE
           IN  x \in s /\ SumOf(g, s) = g[x] + SumOf(g, s \ {x})
<1> DEFINE x == CHOOSE x \in s : TRUE
           r == s \ {x}
<1>1. PICK f : IsSum(f, g, s)
  BY SumExists
<1>2. f[s] = SumOf(g, s) /\ f[r] = SumOf(g, r)
  BY <1>1, SumOfSubset
<1>3. f[s] = SumStep(f, g, s)
  BY <1>1 DEF IsSum
<1>4. f[s] = g[x] + f[r]
  BY <1>3 DEF SumStep
<1>5. x \in s
  OBVIOUS
<1> HIDE DEF x, r
<1>6. SumOf(g, s) = g[x] + SumOf(g, r)
  BY <1>2, <1>4
<1> QED
  BY <1>5, <1>6 DEF x, r

\* A sum of naturals is a natural.
LEMMA SumNat ==
    ASSUME NEW g, NEW S, IsFiniteSet(S), \A x \in S : g[x] \in Nat
    PROVE  SumOf(g, S) \in Nat
<1> DEFINE N == Cardinality(S)
           T == {n \in Nat : \A s \in SUBSET S : Cardinality(s) = n => SumOf(g, s) \in Nat}
<1>1. \A s \in SUBSET S : IsFiniteSet(s)
  BY FS_Subset
<1>2. 0 \in T
  BY <1>1, FS_EmptySet, SumEmpty
<1>3. ASSUME NEW n \in Nat, n \in T PROVE n + 1 \in T
  <2>1. ASSUME NEW s \in SUBSET S, Cardinality(s) = n + 1 PROVE SumOf(g, s) \in Nat
    <3> DEFINE x == CHOOSE x \in s : TRUE
               r == s \ {x}
    <3>1. s # {}
      BY <2>1, FS_EmptySet
    <3>2. Cardinality(s \ {x}) = Cardinality(s) - 1
      BY <1>1, <2>1, <3>1, TakeOne
    <3>3. x \in s /\ SumOf(g, s) = g[x] + SumOf(g, r)
      BY <1>1, <2>1, <3>1, SumChosen
    <3> HIDE DEF x
    <3>4. r \in SUBSET S /\ Cardinality(r) = n /\ g[x] \in Nat
      BY <2>1, <3>2, <3>3
    <3> HIDE DEF r
    <3>5. SumOf(g, r) \in Nat
      BY <1>3, <3>4
    <3> QED
      BY <3>3, <3>4, <3>5
  <2> QED
    BY <2>1
<1>4. N \in Nat
  BY FS_CardinalityType
<1> HIDE DEF N
<1>5. 0..N \subseteq T
  <2> HIDE DEF T
  <2> QED
    BY <1>2, <1>3, <1>4, UpTo
<1> QED
  BY <1>4, <1>5 DEF N

\* ... and any element may be taken out first.
LEMMA SumRemove ==
    ASSUME NEW g, NEW S, IsFiniteSet(S), \A x \in S : g[x] \in Nat, NEW z \in S
    PROVE  SumOf(g, S) = g[z] + SumOf(g, S \ {z})
<1> DEFINE N == Cardinality(S)
           T == {n \in Nat : \A s \in SUBSET S : Cardinality(s) = n =>
                    \A y \in s : SumOf(g, s) = g[y] + SumOf(g, s \ {y})}
<1>1. \A s \in SUBSET S : IsFiniteSet(s) /\ SumOf(g, s) \in Nat
  BY FS_Subset, SumNat
<1>2. 0 \in T
  BY <1>1, FS_EmptySet
<1>3. ASSUME NEW n \in Nat, n \in T PROVE n + 1 \in T
  <2>1. ASSUME NEW s \in SUBSET S, Cardinality(s) = n + 1, NEW y \in s
        PROVE  SumOf(g, s) = g[y] + SumOf(g, s \ {y})
    <3> DEFINE x == CHOOSE x \in s : TRUE
    <3>1. x \in s /\ SumOf(g, s) = g[x] + SumOf(g, s \ {x})
      BY <1>1, <2>1, SumChosen
    <3> HIDE DEF x
    <3>2. CASE x = y
      BY <3>1, <3>2
    <3>3. CASE x # y
      <4>1. Cardinality(s \ {x}) = n /\ Cardinality(s \ {y}) = n
        <5>1. /\ Cardinality(s \ {x}) = Cardinality(s) - 1
              /\ Cardinality(s \ {y}) = Cardinality(s) - 1
          BY <1>1, <2>1, <3>1, FS_RemoveElement
        <5>2. n + 1 - 1 = n
          OBVIOUS
        <5> QED
          BY <2>1, <5>1, <5>2
      <4>2. /\ s \ {x} \in SUBSET S /\ y \in s \ {x}
            /\ s \ {y} \in SUBSET S /\ x \in s \ {y}
        BY <3>1, <3>3
      <4>3. SumOf(g, s \ {x}) = g[y] + SumOf(g, (s \ {x}) \ {y})
        BY <1>3, <4>1, <4>2
      <4>4. SumOf(g, s \ {y}) = g[x] + SumOf(g, (s \ {y}) \ {x})
        BY <1>3, <4>1, <4>2
      <4>5. (s \ {x}) \ {y} = (s \ {y}) \ {x}
        OBVIOUS
      <4> DEFINE a == SumOf(g, (s \ {x}) \ {y})
                 b == SumOf(g, s \ {x})
                 c == SumOf(g, s \ {y})
      <4>6. b = g[y] + a /\ c = g[x] + a
        BY <4>3, <4>4, <4>5
      <4>7. a \in Nat /\ g[x] \in Nat /\ g[y] \in Nat
        BY <1>1, <2>1, <3>1
      <4>8. SumOf(g, s) = g[x] + b
        BY <3>1
      <4> HIDE DEF a, b, c
      <4>9. g[x] + b = g[y] + c
        BY <4>6, <4>7
      <4> QED
        BY <4>8, <4>9 DEF c
    <3> QED
      BY <3>2, <3>3
  <2> QED
    BY <2>1
<1>4. N \in Nat
  BY FS_CardinalityType
<1> HIDE DEF N
<1>5. 0..N \subseteq T
  <2> HIDE DEF T
  <2> QED
    BY <1>2, <1>3, <1>4, UpTo
<1>6. Cardinality(S) \in T
  BY <1>4, <1>5 DEF N
<1> QED
  BY <1>6

\* The sum over a set with one more element.
LEMMA SumAdd ==
    ASSUME NEW g, NEW S, IsFiniteSet(S), NEW z, z \notin S,
           \A x \in S \cup {z} : g[x] \in Nat
    PROVE  SumOf(g, S \cup {z}) = g[z] + SumOf(g, S)
<1>1. IsFiniteSet(S \cup {z})
  BY FS_AddElement
<1>2. (S \cup {z}) \ {z} = S
  OBVIOUS
<1>3. SumOf(g, S \cup {z}) = g[z] + SumOf(g, (S \cup {z}) \ {z})
  BY <1>1, SumRemove
<1> QED
  BY <1>2, <1>3

\* What the elements of one set have can be spread over those of another without
\* the sum getting smaller, if each finds one there of its own.
LEMMA SumCover ==
    ASSUME NEW g, NEW W, IsFiniteSet(W), \A w \in W : g[w] \in Nat,
           NEW h, NEW A, IsFiniteSet(A), \A p \in A : h[p] \in Nat,
           NEW F, \A w \in W : \E p \in A : F[p] = w /\ h[p] = g[w]
    PROVE  SumOf(g, W) <= SumOf(h, A)
<1> DEFINE N == Cardinality(W)
           Covers(V, B) == \A w \in V : \E p \in B : F[p] = w /\ h[p] = g[w]
           T == {n \in Nat : \A V \in SUBSET W, B \in SUBSET A :
                    Cardinality(V) = n /\ Covers(V, B) => SumOf(g, V) <= SumOf(h, B)}
<1>1. /\ \A V \in SUBSET W : IsFiniteSet(V) /\ SumOf(g, V) \in Nat
      /\ \A B \in SUBSET A : IsFiniteSet(B) /\ SumOf(h, B) \in Nat
  BY FS_Subset, SumNat
<1>2. 0 \in T
  <2>1. ASSUME NEW V \in SUBSET W, NEW B \in SUBSET A, Cardinality(V) = 0
        PROVE  SumOf(g, V) <= SumOf(h, B)
    <3>1. V = {}
      BY <1>1, <2>1, FS_EmptySet
    <3>2. SumOf(g, V) = 0
      BY <3>1, SumEmpty
    <3> QED
      BY <1>1, <3>2
  <2> QED
    BY <2>1
<1>3. ASSUME NEW n \in Nat, n \in T PROVE n + 1 \in T
  <2>1. ASSUME NEW V \in SUBSET W, NEW B \in SUBSET A, Cardinality(V) = n + 1, Covers(V, B)
        PROVE  SumOf(g, V) <= SumOf(h, B)
    <3>1. V # {}
      BY <2>1, FS_EmptySet
    <3>2. PICK w \in V : TRUE
      BY <3>1
    <3>3. PICK p \in B : F[p] = w /\ h[p] = g[w]
      BY <2>1
    <3>4. Covers(V \ {w}, B \ {p})
      BY <2>1, <3>3
    <3>5. Cardinality(V \ {w}) = n
      <4>1. Cardinality(V \ {w}) = Cardinality(V) - 1
        BY <1>1, <3>2, FS_RemoveElement
      <4>2. n + 1 - 1 = n
        OBVIOUS
      <4> QED
        BY <2>1, <4>1, <4>2
    <3>6. V \ {w} \in SUBSET W /\ B \ {p} \in SUBSET A
      OBVIOUS
    <3> HIDE DEF Covers
    <3>7. SumOf(g, V \ {w}) <= SumOf(h, B \ {p})
      BY <1>3, <3>4, <3>5, <3>6
    <3>8. SumOf(g, V) = g[w] + SumOf(g, V \ {w})
      <4>1. IsFiniteSet(V) /\ \A x \in V : g[x] \in Nat
        BY <1>1
      <4> QED
        BY ONLY <3>2, <4>1, SumRemove
    <3>9. SumOf(h, B) = h[p] + SumOf(h, B \ {p})
      <4>1. IsFiniteSet(B) /\ \A x \in B : h[x] \in Nat
        BY <1>1
      <4> QED
        BY ONLY <3>3, <4>1, SumRemove
    <3>10. /\ g[w] \in Nat /\ SumOf(g, V \ {w}) \in Nat /\ SumOf(h, B \ {p}) \in Nat
           /\ h[p] = g[w]
      BY <1>1, <3>2, <3>3, <3>6
    <3>11. \A i, j, k \in Nat : j <= k => i + j <= i + k
      OBVIOUS
    <3> QED
      BY <3>7, <3>8, <3>9, <3>10, <3>11
  <2> QED
    BY <2>1
<1>4. N \in Nat
  BY FS_CardinalityType
<1> HIDE DEF N, Covers
<1>5. 0..N \subseteq T
  <2> HIDE DEF T
  <2> QED
    BY <1>2, <1>3, <1>4, UpTo
<1>6. N \in T
  BY <1>4, <1>5
<1>7. Covers(W, A)
  BY DEF Covers
<1> QED
  BY <1>6, <1>7 DEF N

\* More elements, no smaller a sum.
LEMMA SumMore ==
    ASSUME NEW g, NEW S, NEW T, S \subseteq T, IsFiniteSet(T), \A x \in T : g[x] \in Nat
    PROVE  SumOf(g, S) <= SumOf(g, T)
<1> DEFINE F == [x \in T |-> x]
<1>1. IsFiniteSet(S) /\ \A x \in S : g[x] \in Nat
  BY FS_Subset
<1>2. \A w \in S : \E p \in T : F[p] = w /\ g[p] = g[w]
  OBVIOUS
<1> HIDE DEF F
<1> QED
  BY <1>1, <1>2, SumCover

\* Elements of both sets count twice in the two sums.
LEMMA SumBoth ==
    ASSUME NEW g, NEW S, NEW T, IsFiniteSet(S), IsFiniteSet(T),
           \A x \in S \cup T : g[x] \in Nat
    PROVE  SumOf(g, S \cup T) <= SumOf(g, S) + SumOf(g, T)
<1> DEFINE N == Cardinality(T)
           K == {n \in Nat : \A R \in SUBSET T : Cardinality(R) = n =>
                    SumOf(g, S \cup R) <= SumOf(g, S) + SumOf(g, R)}
<1>1. \A R \in SUBSET T : /\ IsFiniteSet(R) /\ SumOf(g, R) \in Nat
                          /\ IsFiniteSet(S \cup R) /\ SumOf(g, S \cup R) \in Nat
  BY FS_Subset, FS_Union, SumNat
<1>2. SumOf(g, S) \in Nat
  BY SumNat
<1>3. 0 \in K
  <2>1. ASSUME NEW R \in SUBSET T, Cardinality(R) = 0
        PROVE  SumOf(g, S \cup R) <= SumOf(g, S) + SumOf(g, R)
    <3>1. R = {} /\ S \cup R = S
      BY <1>1, <2>1, FS_EmptySet
    <3>2. SumOf(g, R) = 0
      BY <3>1, SumEmpty
    <3> QED
      BY <1>2, <3>1, <3>2
  <2> QED
    BY <2>1
<1>4. ASSUME NEW n \in Nat, n \in K PROVE n + 1 \in K
  <2>1. ASSUME NEW R \in SUBSET T, Cardinality(R) = n + 1
        PROVE  SumOf(g, S \cup R) <= SumOf(g, S) + SumOf(g, R)
    <3>1. R # {}
      BY <2>1, FS_EmptySet
    <3>2. PICK x \in R : TRUE
      BY <3>1
    <3> DEFINE P == R \ {x}
    <3>3. P \in SUBSET T /\ Cardinality(P) = n
      <4>1. Cardinality(P) = Cardinality(R) - 1
        BY <1>1, <3>2, FS_RemoveElement
      <4>2. n + 1 - 1 = n
        OBVIOUS
      <4> QED
        BY <2>1, <4>1, <4>2
    <3>4. R = P \cup {x} /\ x \notin P /\ g[x] \in Nat
      BY <3>2
    <3>5. SumOf(g, R) = g[x] + SumOf(g, P)
      <4>1. IsFiniteSet(R) /\ \A y \in R : g[y] \in Nat
        BY <1>1
      <4> QED
        BY ONLY <3>2, <4>1, SumRemove
    <3> HIDE DEF P
    <3>6. SumOf(g, S \cup P) <= SumOf(g, S) + SumOf(g, P)
      BY <1>4, <3>3
    <3>7. /\ SumOf(g, S \cup P) \in Nat /\ SumOf(g, P) \in Nat
          /\ IsFiniteSet(S \cup P)
      BY <1>1, <3>3
    <3>8. CASE x \in S
      <4>1. S \cup R = S \cup P
        BY <3>4, <3>8
      <4>2. \A a, b, c, d \in Nat : a <= b + c => a <= b + (d + c)
        OBVIOUS
      <4>3. SumOf(g, S \cup P) <= SumOf(g, S) + (g[x] + SumOf(g, P))
        BY ONLY <1>2, <3>4, <3>6, <3>7, <4>2
      <4> QED
        BY ONLY <3>5, <4>1, <4>3
    <3>9. CASE x \notin S
      <4>1. S \cup R = (S \cup P) \cup {x} /\ x \notin S \cup P
        BY <3>4, <3>9
      <4>2. \A y \in (S \cup P) \cup {x} : g[y] \in Nat
        BY <3>3, <3>4
      <4>3. SumOf(g, S \cup R) = g[x] + SumOf(g, S \cup P)
        BY <3>7, <4>1, <4>2, SumAdd
      <4>4. \A a, b, c, d \in Nat : a <= b + c => d + a <= b + (d + c)
        OBVIOUS
      <4> QED
        BY <1>2, <3>4, <3>5, <3>6, <3>7, <4>3, <4>4
    <3> QED
      BY <3>8, <3>9
  <2> QED
    BY <2>1
<1>5. N \in Nat
  BY FS_CardinalityType
<1> HIDE DEF N
<1>6. 0..N \subseteq K
  <2> HIDE DEF K
  <2> QED
    BY <1>3, <1>4, <1>5, UpTo
<1>7. N \in K
  BY <1>5, <1>6
<1> QED
  BY <1>7 DEF N

\* The sum over two sets that have nothing in common.
LEMMA SumApart ==
    ASSUME NEW g, NEW S, NEW T, IsFiniteSet(S), IsFiniteSet(T), S \cap T = {},
           \A x \in S \cup T : g[x] \in Nat
    PROVE  SumOf(g, S \cup T) = SumOf(g, S) + SumOf(g, T)
<1> DEFINE N == Cardinality(T)
           K == {n \in Nat : \A R \in SUBSET T : Cardinality(R) = n =>
                    SumOf(g, S \cup R) = SumOf(g, S) + SumOf(g, R)}
<1>1. \A R \in SUBSET T : /\ IsFiniteSet(R) /\ SumOf(g, R) \in Nat
                          /\ IsFiniteSet(S \cup R) /\ SumOf(g, S \cup R) \in Nat
  BY FS_Subset, FS_Union, SumNat
<1>2. SumOf(g, S) \in Nat
  BY SumNat
<1>3. 0 \in K
  <2>1. ASSUME NEW R \in SUBSET T, Cardinality(R) = 0
        PROVE  SumOf(g, S \cup R) = SumOf(g, S) + SumOf(g, R)
    <3>1. R = {} /\ S \cup R = S
      BY <1>1, <2>1, FS_EmptySet
    <3>2. SumOf(g, R) = 0
      BY <3>1, SumEmpty
    <3> QED
      BY <1>2, <3>1, <3>2
  <2> QED
    BY <2>1
<1>4. ASSUME NEW n \in Nat, n \in K PROVE n + 1 \in K
  <2>1. ASSUME NEW R \in SUBSET T, Cardinality(R) = n + 1
        PROVE  SumOf(g, S \cup R) = SumOf(g, S) + SumOf(g, R)
    <3>1. R # {}
      BY <2>1, FS_EmptySet
    <3>2. PICK x \in R : TRUE
      BY <3>1
    <3> DEFINE P == R \ {x}
    <3>3. P \in SUBSET T /\ Cardinality(P) = n
      <4>1. Cardinality(P) = Cardinality(R) - 1
        BY <1>1, <3>2, FS_RemoveElement
      <4>2. n + 1 - 1 = n
        OBVIOUS
      <4> QED
        BY <2>1, <4>1, <4>2
    <3>4. R = P \cup {x} /\ x \notin P /\ g[x] \in Nat
      BY <3>2
    <3>5. SumOf(g, R) = g[x] + SumOf(g, P)
      <4>1. IsFiniteSet(R) /\ \A y \in R : g[y] \in Nat
        BY <1>1
      <4> QED
        BY ONLY <3>2, <4>1, SumRemove
    <3> HIDE DEF P
    <3>6. SumOf(g, S \cup P) = SumOf(g, S) + SumOf(g, P)
      BY <1>4, <3>3
    <3>7. /\ SumOf(g, S \cup P) \in Nat /\ SumOf(g, P) \in Nat
          /\ IsFiniteSet(S \cup P)
      BY <1>1, <3>3
    <3>8. S \cup R = (S \cup P) \cup {x} /\ x \notin S \cup P
      BY <3>2, <3>4
    <3>9. \A y \in (S \cup P) \cup {x} : g[y] \in Nat
      BY <3>3, <3>4
    <3>10. SumOf(g, S \cup R) = g[x] + SumOf(g, S \cup P)
      BY <3>7, <3>8, <3>9, SumAdd
    <3>11. \A a, b, c, d \in Nat : a = b + c => d + a = b + (d + c)
      OBVIOUS
    <3> QED
      BY ONLY <1>2, <3>4, <3>5, <3>6, <3>7, <3>10, <3>11
  <2> QED
    BY <2>1
<1>5. N \in Nat
  BY FS_CardinalityType
<1> HIDE DEF N
<1>6. 0..N \subseteq K
  <2> HIDE DEF K
  <2> QED
    BY <1>3, <1>4, <1>5, UpTo
<1>7. N \in K
  BY <1>5, <1>6
<1> QED
  BY <1>7 DEF N

-----------------------------------------------------------------------------
\* What a function has on a finite set is finite.
LEMMA FiniteImage ==
    ASSUME NEW S, IsFiniteSet(S), NEW f
    PROVE  IsFiniteSet({f[x] : x \in S})
<1> DEFINE T == {f[x] : x \in S}
           g == [x \in S |-> f[x]]
<1>1. g \in Surjection(S, T)
  BY DEF Surjection
<1> HIDE DEF T, g
<1>2. IsFiniteSet(T)
  BY <1>1, FS_Surjection
<1> QED
  BY <1>2 DEF T

\* Finitely many finite sets have finitely many elements.
LEMMA FiniteUnion ==
    ASSUME NEW S, IsFiniteSet(S), NEW f, \A x \in S : IsFiniteSet(f[x])
    PROVE  IsFiniteSet(UNION {f[x] : x \in S})
<1> DEFINE N == Cardinality(S)
           U(R) == UNION {f[x] : x \in R}
           K == {n \in Nat : \A R \in SUBSET S : Cardinality(R) = n => IsFiniteSet(U(R))}
<1>1. \A R \in SUBSET S : IsFiniteSet(R)
  BY FS_Subset
<1>2. 0 \in K
  <2>1. \A R \in SUBSET S : Cardinality(R) = 0 => R = {}
    BY <1>1, FS_EmptySet
  <2>2. U({}) = {}
    OBVIOUS
  <2> HIDE DEF U
  <2> QED
    BY <2>1, <2>2, FS_EmptySet
<1>3. ASSUME NEW n \in Nat, n \in K PROVE n + 1 \in K
  <2>1. ASSUME NEW R \in SUBSET S, Cardinality(R) = n + 1 PROVE IsFiniteSet(U(R))
    <3>1. PICK x \in R : TRUE
      BY <2>1, FS_EmptySet
    <3> DEFINE P == R \ {x}
    <3>2. P \in SUBSET S /\ Cardinality(P) = n
      <4>1. Cardinality(P) = Cardinality(R) - 1
        BY <1>1, <3>1, FS_RemoveElement
      <4>2. n + 1 - 1 = n
        OBVIOUS
      <4> QED
        BY <2>1, <4>1, <4>2
    <3>3. U(R) = U(P) \cup f[x]
      BY <3>1
    <3> HIDE DEF P, U
    <3>4. IsFiniteSet(U(P))
      BY <1>3, <3>2
    <3> QED
      BY <3>3, <3>4, FS_Union
  <2> QED
    BY <2>1
<1>4. N \in Nat
  BY FS_CardinalityType
<1> HIDE DEF N, U
<1>5. 0..N \subseteq K
  <2> HIDE DEF K
  <2> QED
    BY <1>2, <1>3, <1>4, UpTo
<1>6. N \in K
  BY <1>4, <1>5
<1>7. IsFiniteSet(U(S))
  BY <1>6 DEF N
<1> QED
  BY <1>7 DEF U

-----------------------------------------------------------------------------
(* Arithmetic modulo a word.                                               *)

\* Division leaves a quotient and a remainder ...
LEMMA ModIs ==
    ASSUME NEW w \in Nat \ {0}, NEW x \in Nat
    PROVE  /\ x % w \in 0..(w - 1) /\ x \div w \in Nat
           /\ x = (x \div w) * w + (x % w)
  OBVIOUS

\* ... that is the only one.
LEMMA ModUnique ==
    ASSUME NEW w \in Nat \ {0}, NEW q \in Nat, NEW r \in 0..(w - 1)
    PROVE  (q * w + r) % w = r
  OBVIOUS

\* A sum may wrap at any time, or at the end ...
LEMMA ModAdd ==
    ASSUME NEW w \in Nat \ {0}, NEW x \in Nat, NEW y \in Nat
    PROVE  ((x % w) + y) % w = (x + y) % w
<1> DEFINE q == x \div w
           r == x % w
           m == r + y
           p == m \div w
           t == m % w
<1>1. q \in Nat /\ r \in Nat /\ x = q * w + r
  BY ModIs
<1> HIDE DEF q, r
<1>7. m \in Nat /\ m = r + y
  BY <1>1
<1> HIDE DEF m
<1>2. p \in Nat /\ t \in 0..(w - 1) /\ m = p * w + t
  BY <1>7, ModIs
<1>3. t = m % w
  OBVIOUS
<1> HIDE DEF p, t
<1> DEFINE e == q + p
<1>4. e \in Nat /\ e * w = q * w + p * w
  BY <1>1, <1>2
<1>5. x + y = e * w + t
  BY <1>7, <1>1, <1>2, <1>4
<1> HIDE DEF e
<1>6. (e * w + t) % w = t
  BY <1>2, <1>4, ModUnique
<1> QED
  BY <1>7, <1>3, <1>5, <1>6 DEF r

\* ... and so may a product.
LEMMA ModTimes ==
    ASSUME NEW w \in Nat \ {0}, NEW x \in Nat, NEW y \in Nat
    PROVE  ((x % w) * y) % w = (x * y) % w
<1> DEFINE q == x \div w
           r == x % w
           m == r * y
           p == m \div w
           t == m % w
<1>1. q \in Nat /\ r \in Nat /\ x = q * w + r
  BY ModIs
<1> HIDE DEF q, r
<1>2. m \in Nat /\ q * y \in Nat /\ m = r * y
  BY <1>1
<1> HIDE DEF m
<1>3. p \in Nat /\ t \in 0..(w - 1) /\ m = p * w + t
  BY <1>2, ModIs
<1>4. t = m % w
  OBVIOUS
<1> HIDE DEF p, t
<1> DEFINE e == q * y + p
<1>5. x * y = (q * y) * w + m
  BY <1>1, <1>2
<1>6. e \in Nat /\ e * w = (q * y) * w + p * w
  BY <1>2, <1>3
<1>7. x * y = e * w + t
  BY <1>2, <1>3, <1>5, <1>6
<1> HIDE DEF e
<1>8. (e * w + t) % w = t
  BY <1>3, <1>6, ModUnique
<1> QED
  BY <1>2, <1>4, <1>7, <1>8 DEF r

\* A fold of numbers over a function is their sum.
LEMMA FoldIsSum == ASSUME NEW g PROVE FoldFunction(+, 0, g) = SumOf(g, DOMAIN g)
  BY DEF FoldFunction, FoldFunctionOnSet, SumOf, MapThenSumSet, MapThenFoldSet

\* A sequence without repetition is as long as its set is large.
LEMMA LenIsCard ==
    ASSUME NEW S, NEW s \in Seq(S), IsInjective(s)
    PROVE  IsFiniteSet(ToSet(s)) /\ Cardinality(ToSet(s)) = Len(s)
<1>1. Len(s) \in Nat /\ DOMAIN s = 1..Len(s) /\ s \in [1..Len(s) -> S]
  BY LenProperties
<1> DEFINE l == Len(s)
           T == ToSet(s)
           D == 1..l
<1>2. s \in [D -> T] /\ \A a, b \in D : s[a] = s[b] => a = b
  BY <1>1 DEF IsInjective, ToSet
<1>3. \A x \in T : \E a \in D : s[a] = x
  BY <1>1 DEF ToSet
<1>4. IsFiniteSet(D) /\ Cardinality(D) = l
  <2>1. 1 \in Int /\ l \in Int /\ (IF 1 > l THEN 0 ELSE l - 1 + 1) = l
    BY <1>1
  <2> HIDE DEF l
  <2> QED
    BY <2>1, FS_Interval
<1> HIDE DEF D, T
<1>5. s \in Bijection(D, T)
  BY <1>2, <1>3 DEF Bijection, Injection, Surjection, IsInjective
<1>6. ExistsBijection(D, T)
  BY <1>5 DEF ExistsBijection
<1>7. IsFiniteSet(T) /\ Cardinality(T) = Cardinality(D)
  BY <1>4, <1>6, FS_Bijection
<1> QED
  BY <1>4, <1>7 DEF T

\* The parts of a cell have together as many letters as the cell.
LEMMA LengthsAddUp ==
    ASSUME NEW X, NEW S \in Seq(Seq(X)), NEW s \in Seq(X), IsInjective(s),
           \A j \in 1..Len(S) : IsInjective(S[j]) /\ ToSet(S[j]) \subseteq ToSet(s),
           \A i, j \in 1..Len(S) : i # j => ToSet(S[i]) \cap ToSet(S[j]) = {},
           \A x \in ToSet(s) : \E j \in 1..Len(S) : x \in ToSet(S[j])
    PROVE  SumOf([j \in 1..Len(S) |-> Len(S[j])], 1..Len(S)) = Len(s)
<1> DEFINE N == Len(S)
           h == [j \in 1..N |-> Len(S[j])]
           U(n) == UNION {ToSet(S[j]) : j \in 1..n}
           T == {n \in 0..N : IsFiniteSet(U(n)) /\ Cardinality(U(n)) = SumOf(h, 1..n)}
<1>1. N \in Nat /\ \A j \in 1..N : S[j] \in Seq(X) /\ Len(S[j]) \in Nat
  BY ElementOfSeq, LenProperties
<1>2. \A j \in 1..N : IsFiniteSet(ToSet(S[j])) /\ Cardinality(ToSet(S[j])) = Len(S[j])
  BY <1>1, LenIsCard
<1>3. \A j \in 1..N : h[j] = Len(S[j]) /\ h[j] \in Nat
  BY <1>1
<1> HIDE DEF N, h
<1>4. 0 \in T
  <2> DEFINE E == 1..0
  <2>1. E = {} /\ 0 \in 0..N
    BY <1>1
  <2>2. U(0) = {}
    BY <2>1
  <2>3. IsFiniteSet({}) /\ Cardinality({}) = 0 /\ SumOf(h, {}) = 0
    BY FS_EmptySet, SumEmpty
  <2> HIDE DEF U
  <2> QED
    BY <2>1, <2>2, <2>3
<1>5. ASSUME NEW n \in 0..N, n \in T, n < N PROVE n + 1 \in T
  <2> DEFINE z == n + 1
             A == ToSet(S[z])
             I == 1..n
  <2>1. /\ z \in 1..N /\ z \in 0..N /\ z \notin I /\ 1..z = I \cup {z}
        /\ \A j \in I : j \in 1..N /\ j # z
    BY <1>1, <1>5
  <2>2. IsFiniteSet(U(n)) /\ Cardinality(U(n)) = SumOf(h, I)
    BY <1>5
  <2>3. U(z) = U(n) \cup A
    BY <2>1
  <2>4. U(n) \cap A = {}
    <3>1. \A j \in I : ToSet(S[j]) \cap A = {}
      BY <2>1 DEF N
    <3> QED
      BY <3>1
  <2>5. IsFiniteSet(A) /\ Cardinality(A) = h[z]
    BY <1>2, <1>3, <2>1
  <2>6. SumOf(h, I \cup {z}) = h[z] + SumOf(h, I)
    <3>1. IsFiniteSet(I)
      BY <1>1, FS_Interval
    <3>2. \A x \in I \cup {z} : h[x] \in Nat
      BY <1>3, <2>1
    <3> HIDE DEF I, z
    <3> QED
      BY <2>1, <3>1, <3>2, SumAdd
  <2>7. SumOf(h, I) \in Nat /\ h[z] \in Nat
    <3>1. Cardinality(U(n)) \in Nat
      BY <2>2, FS_CardinalityType
    <3> QED
      BY <1>3, <2>1, <2>2, <3>1
  <2> HIDE DEF U, A, z, I
  <2>8. /\ IsFiniteSet(U(n) \cup A)
        /\ Cardinality(U(n) \cup A) = Cardinality(U(n)) + Cardinality(A) - Cardinality({})
    <3> DEFINE V == U(n)
    <3>1. IsFiniteSet(V) /\ IsFiniteSet(A) /\ V \cap A = {}
      BY <2>2, <2>4, <2>5
    <3> HIDE DEF V
    <3>2. /\ IsFiniteSet(V \cup A)
          /\ Cardinality(V \cup A) = Cardinality(V) + Cardinality(A) - Cardinality(V \cap A)
      BY ONLY <3>1, FS_Union
    <3> QED
      BY <3>1, <3>2 DEF V
  <2>9. Cardinality({}) = 0
    BY FS_EmptySet
  <2>10. \A x, y \in Nat : x + y - 0 = y + x
    OBVIOUS
  <2>11. Cardinality(U(n) \cup A) = h[z] + SumOf(h, I)
    BY <2>2, <2>5, <2>7, <2>8, <2>9, <2>10
  <2>12. z \in T
    BY <2>1, <2>3, <2>6, <2>8, <2>11
  <2> QED
    BY <2>12 DEF z
<1> HIDE DEF T
<1>6. N \in T
  <2>1. 0..N \subseteq T
    BY <1>1, <1>4, <1>5, UpTo
  <2> QED
    BY <1>1, <2>1
<1>7. U(N) = ToSet(s)
  BY DEF N
<1>8. Cardinality(ToSet(s)) = Len(s)
  BY LenIsCard
<1> HIDE DEF U
<1>9. Cardinality(U(N)) = SumOf(h, 1..N)
  BY <1>6 DEF T
<1>10. SumOf(h, 1..N) = Len(s)
  BY <1>7, <1>8, <1>9
<1> QED
  BY <1>10 DEF h, N

-----------------------------------------------------------------------------
\* f has what N steps make of a value, each from one set into the next: step[j]
\* is a function of the value before it, and V[j] has the values after j steps.
Leads(f, N, base, step, V) ==
    /\ f = [j \in 0..N |-> f[j]]
    /\ f[0] = base
    /\ \A j \in 0..N : f[j] \in V[j]
    /\ \A j \in 1..N : f[j] = step[j][f[j - 1]]

\* There is such a function.
LEMMA LevelsExist ==
    ASSUME NEW N \in Nat, NEW V, NEW base, base \in V[0], NEW step,
           \A j \in 1..N : \A v \in V[j - 1] : step[j][v] \in V[j]
    PROVE  \E f : Leads(f, N, base, step, V)
<1> DEFINE Upto(f, n) == /\ f = [j \in 0..n |-> f[j]]
                         /\ f[0] = base
                         /\ \A j \in 0..n : f[j] \in V[j]
                         /\ \A j \in 1..n : f[j] = step[j][f[j - 1]]
           T == {n \in 0..N : \E f : Upto(f, n)}
<1>1. 0 \in 0..N /\ N \in 0..N
  OBVIOUS
<1>2. 0 \in T
  <2> DEFINE f == [k \in 0..0 |-> base]
  <2>1. 0 \in 0..0 /\ 1..0 = {} /\ \A k \in 0..0 : k = 0
    OBVIOUS
  <2>2. f = [k \in 0..0 |-> f[k]] /\ f[0] = base
    BY <2>1
  <2> HIDE DEF f
  <2>3. Upto(f, 0)
    BY <2>1, <2>2
  <2> QED
    BY <1>1, <2>3
<1>3. ASSUME NEW j \in 1..N, j - 1 \in T PROVE j \in T
  <2> DEFINE m == j - 1
  <2>1. m \in 0..N /\ j = m + 1 /\ m \in Nat /\ m \in 0..m /\ j \notin 0..m
        /\ j \in 0..N /\ 0 \in 0..m /\ j # 0
        /\ 0..j = 0..m \cup {j} /\ 1..j = 1..m \cup {j}
        /\ \A i \in 1..m : i \in 0..m /\ i - 1 \in 0..m /\ i # j
    OBVIOUS
  <2> HIDE DEF m
  <2>2. PICK f : Upto(f, m)
    BY <1>3 DEF m
  <2> DEFINE v == step[j][f[m]]
             g == [k \in 0..j |-> IF k = j THEN v ELSE f[k]]
  <2>3. v \in V[j]
    BY <1>3, <2>1, <2>2 DEF m
  <2> HIDE DEF v
  <2>4. g = [k \in 0..j |-> g[k]] /\ g[j] = v /\ \A k \in 0..m : g[k] = f[k]
    BY <2>1
  <2> HIDE DEF g
  <2>5. g[0] = base
    BY <2>1, <2>2, <2>4
  <2>6. \A k \in 0..j : g[k] \in V[k]
    BY <2>1, <2>2, <2>3, <2>4
  <2>7. \A i \in 1..m : g[i] = step[i][g[i - 1]]
    BY <2>1, <2>2, <2>4
  <2>8. g[j] = step[j][g[j - 1]]
    BY <2>1, <2>4 DEF v, m
  <2>9. \A i \in 1..j : g[i] = step[i][g[i - 1]]
    BY <2>1, <2>7, <2>8
  <2>10. Upto(g, j)
    BY <2>4, <2>5, <2>6, <2>9
  <2> QED
    BY <2>1, <2>10
<1> HIDE DEF T
<1>4. N \in T
  BY ONLY <1>1, <1>2, <1>3, StepsUp, N \in Nat
<1> QED
  BY <1>4 DEF T, Leads

\* The largest of finitely many numbers, or 0.
LEMMA MaxOfScores ==
    ASSUME NEW g, NEW D, D = DOMAIN g, IsFiniteSet(D), \A i \in D : g[i] \in Nat
    PROVE  /\ Max({0} \cup Range(g)) \in Nat
           /\ Max({0} \cup Range(g)) \in {0} \cup Range(g)
           /\ \A i \in D : g[i] <= Max({0} \cup Range(g))
<1> DEFINE S == {0} \cup Range(g)
           B == SumOf(g, D)
           U == {B - x : x \in S}
<1>1. B \in Nat /\ \A i \in D : g[i] <= B
  <2>1. B \in Nat
    BY SumNat
  <2>2. ASSUME NEW i \in D PROVE g[i] <= B
    <3> DEFINE R == SumOf(g, D \ {i})
    <3>1. B = g[i] + R
      BY SumRemove
    <3>2. R \in Nat
      <4>1. IsFiniteSet(D \ {i})
        BY FS_Subset
      <4> QED
        BY <4>1, SumNat
    <3> HIDE DEF B, R
    <3> QED
      BY <3>1, <3>2
  <2> QED
    BY <2>1, <2>2
<1> HIDE DEF B
<1>2. \A x \in S : x \in Nat /\ x <= B
  BY <1>1 DEF Range
<1>3. S # {} /\ \A i \in D : g[i] \in S
  BY DEF Range
<1> HIDE DEF S
<1>4. U \subseteq Nat /\ U # {}
  BY <1>1, <1>2, <1>3
<1>5. PICK u \in U : \A y \in U : u <= y
  BY <1>4, LeastElement
<1>6. PICK x \in S : u = B - x
  BY <1>5
<1>7. ASSUME NEW y \in S PROVE x >= y
  <2>1. B - x <= B - y
    BY <1>5, <1>6
  <2>2. x \in Nat /\ y \in Nat
    BY <1>2
  <2> QED
    BY <1>1, <2>1, <2>2
<1>8. Max(S) \in S /\ \A y \in S : Max(S) >= y
  BY <1>7 DEF Max
<1>9. Max(S) \in Nat /\ \A y \in S : y <= Max(S)
  BY <1>2, <1>8
<1> QED
  BY <1>3, <1>8, <1>9 DEF S

\* How often q is in a sequence with one more element.
CountOf(t, q) == Cardinality({i \in DOMAIN t : t[i] = q})

\* One more element is counted if it is q.
LEMMA CountAppend ==
    ASSUME NEW S, NEW t \in Seq(S), NEW c \in S, NEW q
    PROVE  /\ CountOf(t, q) \in Nat
           /\ CountOf(Append(t, c), q) = IF c = q THEN CountOf(t, q) + 1 ELSE CountOf(t, q)
<1> DEFINE a == Append(t, c)
           n == Len(t)
           z == n + 1
           At == {i \in DOMAIN t : t[i] = q}
           AtA == {i \in DOMAIN a : a[i] = q}
<1>1. /\ n \in Nat /\ DOMAIN t = 1..n /\ DOMAIN a = 1..z
      /\ \A i \in 1..z : \/ i \in 1..n /\ i # z /\ a[i] = t[i]
                         \/ i = z /\ i \notin 1..n /\ a[i] = c
      /\ \A i \in 1..n : i \in 1..z
  BY AppendCases
<1>2. z \in 1..z
  BY <1>1
<1> HIDE DEF a, n, z
<1>3. IsFiniteSet(At) /\ Cardinality(At) \in Nat
  <2>1. IsFiniteSet(1..n)
    BY <1>1, FS_Interval
  <2>2. At \subseteq 1..n
    BY <1>1
  <2> QED
    BY <2>1, <2>2, FS_Subset, FS_CardinalityType
<1>4. CASE c = q
  <2>1. AtA = At \cup {z} /\ z \notin At
    BY <1>1, <1>2, <1>4
  <2>2. Cardinality(AtA) = Cardinality(At) + 1
    BY <1>3, <2>1, FS_AddElement
  <2> QED
    BY <1>3, <1>4, <2>2 DEF a, CountOf
<1>5. CASE c # q
  <2>1. AtA = At
    BY <1>1, <1>2, <1>5
  <2> QED
    BY <1>3, <1>5, <2>1 DEF a, CountOf
<1> QED
  BY <1>4, <1>5

\* A sum of noughts.
LEMMA SumOfZeros ==
    ASSUME NEW g, NEW S, IsFiniteSet(S), \A x \in S : g[x] = 0
    PROVE  SumOf(g, S) = 0
<1> DEFINE N == Cardinality(S)
           T == {n \in Nat : \A s \in SUBSET S : Cardinality(s) = n => SumOf(g, s) = 0}
<1>1. \A s \in SUBSET S : IsFiniteSet(s)
  BY FS_Subset
<1>2. 0 \in T
  BY <1>1, FS_EmptySet, SumEmpty
<1>3. ASSUME NEW n \in Nat, n \in T PROVE n + 1 \in T
  <2>1. ASSUME NEW s \in SUBSET S, Cardinality(s) = n + 1 PROVE SumOf(g, s) = 0
    <3> DEFINE x == CHOOSE x \in s : TRUE
               r == s \ {x}
    <3>1. s # {}
      BY <2>1, FS_EmptySet
    <3>2. Cardinality(s \ {x}) = Cardinality(s) - 1
      BY <1>1, <2>1, <3>1, TakeOne
    <3>3. x \in s /\ SumOf(g, s) = g[x] + SumOf(g, r)
      BY <1>1, <2>1, <3>1, SumChosen
    <3> HIDE DEF x
    <3>4. r \in SUBSET S /\ Cardinality(r) = n /\ g[x] = 0
      BY <2>1, <3>2, <3>3
    <3> HIDE DEF r
    <3>5. SumOf(g, r) = 0
      BY <1>3, <3>4
    <3> QED
      BY <3>3, <3>4, <3>5
  <2> QED
    BY <2>1
<1>4. N \in Nat
  BY FS_CardinalityType
<1> HIDE DEF N
<1>5. 0..N \subseteq T
  <2> HIDE DEF T
  <2> QED
    BY <1>2, <1>3, <1>4, UpTo
<1> QED
  BY <1>4, <1>5 DEF N

\* The sum over the elements of a sequence, each as often as it is there.
SeqSum(v, s) == SumOf([i \in 1..Len(s) |-> v[s[i]]], 1..Len(s))

\* One more element.
LEMMA SeqSumOne ==
    ASSUME NEW X, NEW s \in Seq(X), NEW x \in X, NEW v, \A y \in X : v[y] \in Nat
    PROVE  /\ s \o <<x>> \in Seq(X)
           /\ ToSet(s \o <<x>>) = ToSet(s) \cup {x}
           /\ SeqSum(v, s \o <<x>>) = SeqSum(v, s) + v[x]
<1> DEFINE u == <<x>>
           a == s \o u
           n == Len(s)
           z == n + 1
           g == [i \in 1..z |-> v[a[i]]]
           k == [i \in 1..n |-> v[s[i]]]
<1>1. u \in Seq(X) /\ Len(u) = 1 /\ u[1] = x
  OBVIOUS
<1> HIDE DEF u
<1>2. n \in Nat /\ \A i \in 1..n : s[i] \in X
  BY LenProperties, ElementOfSeq
<1>3. /\ a \in Seq(X) /\ Len(a) = n + Len(u)
      /\ \A i \in 1..(n + Len(u)) : a[i] = IF i <= n THEN s[i] ELSE u[i - n]
  BY <1>1, ConcatProperties
<1> HIDE DEF n, a
<1>4. /\ z \in 1..z /\ z \notin 1..n /\ 1..z = 1..n \cup {z} /\ z - n = 1 /\ ~(z <= n)
      /\ \A i \in 1..n : i \in 1..z /\ i <= n
  BY <1>2
<1> HIDE DEF z
<1>5. Len(a) = z /\ a[z] = x /\ \A i \in 1..n : a[i] = s[i]
  <2>1. n + Len(u) = z
    BY <1>1 DEF z
  <2> QED
    BY <1>1, <1>3, <1>4, <2>1
<1>6. g[z] = v[x] /\ \A i \in 1..n : g[i] = k[i]
  BY <1>4, <1>5
<1>7. \A i \in 1..n : k[i] \in Nat
  BY <1>2
<1>8. v[x] \in Nat
  OBVIOUS
<1> HIDE DEF g, k
<1>9. IsFiniteSet(1..n) /\ \A i \in 1..n \cup {z} : g[i] \in Nat
  <2>1. IsFiniteSet(1..n)
    BY <1>2, FS_Interval
  <2>2. \A i \in 1..n \cup {z} : g[i] \in Nat
    BY <1>6, <1>7, <1>8
  <2> QED
    BY <2>1, <2>2
<1> DEFINE D == 1..n
<1>10. SumOf(g, D \cup {z}) = g[z] + SumOf(g, D)
  <2>1. IsFiniteSet(D) /\ z \notin D /\ \A i \in D \cup {z} : g[i] \in Nat
    BY <1>4, <1>9
  <2> HIDE DEF D
  <2> QED
    BY <2>1, SumAdd
<1>11. SumOf(g, D) = SumOf(k, D) /\ SumOf(k, D) \in Nat
  <2>1. IsFiniteSet(D) /\ (\A i \in D : g[i] = k[i]) /\ \A i \in D : k[i] \in Nat
    BY <1>6, <1>7, <1>9
  <2> HIDE DEF D
  <2> QED
    BY <2>1, SumSame, SumNat
<1> HIDE DEF D
<1>12. SeqSum(v, a) = SumOf(g, D \cup {z}) /\ SeqSum(v, s) = SumOf(k, D)
  BY <1>4, <1>5 DEF SeqSum, g, k, D, n
<1>13. SeqSum(v, a) = SeqSum(v, s) + v[x]
  BY <1>6, <1>8, <1>10, <1>11, <1>12
<1>14. ToSet(a) = ToSet(s) \cup {x}
  <2>1. DOMAIN a = 1..z /\ DOMAIN s = 1..n
    BY <1>3, <1>5, LenProperties DEF n
  <2> QED
    BY <1>4, <1>5, <2>1 DEF ToSet
<1> QED
  BY <1>3, <1>13, <1>14 DEF a, u
=============================================================================
