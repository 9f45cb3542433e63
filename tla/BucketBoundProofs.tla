-------------------------- MODULE BucketBoundProofs --------------------------
(***************************************************************************)
(* Proofs about BucketBound: whatever the size of the board, the words,    *)
(* the classes and the scores that are bailed out at, UpperBound tracks    *)
(* its path and bounds every board of the class.  The stack holds the two  *)
(* recursive functions' calls in turn; most of what follows speaks of the  *)
(* calls of each as a sequence of its own.                                 *)
(***************************************************************************)
EXTENDS BucketBound, ScoringProofs

-----------------------------------------------------------------------------
\* A board has finitely many cells, and some.
LEMMA CellsFinite == /\ NumCells \in Nat \ {0} /\ IsFiniteSet(Cells)
                     /\ Cells = 1..NumCells /\ AllCells = Cells
<1>1. NumCells \in Nat \ {0}
  <2>1. \A w, h \in Nat \ {0} : w * h \in Nat \ {0}
    OBVIOUS
  <2> QED
    BY <2>1, GridAssumption DEF NumCells
<1> QED
  BY <1>1, FS_Interval DEF Cells, AllCells, NumCells

\* The last element of a sequence is replaced.
Replaced(s, x) == Append(SubSeq(s, 1, Len(s) - 1), x)

\* Replaced keeps the length, and every element but the last.
LEMMA ReplacedIs ==
    ASSUME NEW S, NEW s \in Seq(S), s # <<>>, NEW x \in S
    PROVE  /\ Len(s) \in Nat \ {0} /\ Len(s) \in 1..Len(s) /\ s[Len(s)] \in S
           /\ Replaced(s, x) \in Seq(S) /\ Len(Replaced(s, x)) = Len(s)
           /\ \A n \in 1..Len(s) :
                 \/ n # Len(s) /\ n \in 1..(Len(s) - 1) /\ Replaced(s, x)[n] = s[n]
                 \/ n = Len(s) /\ Replaced(s, x)[n] = x
<1> DEFINE l == Len(s)
           p == SubSeq(s, 1, Len(s) - 1)
<1>1. /\ l \in Nat \ {0} /\ s[l] \in S /\ p \in Seq(S) /\ Len(p) = l - 1
      /\ \A n \in 1..(l - 1) : p[n] = s[n]
  BY AllButLast
<1> HIDE DEF l, p
<1>2. /\ Append(p, x) \in Seq(S) /\ Len(Append(p, x)) = Len(p) + 1
      /\ \A n \in 1..Len(p) : Append(p, x)[n] = p[n]
      /\ Append(p, x)[Len(p) + 1] = x
  BY <1>1, AppendProperties
<1>3. l \in 1..l /\ l - 1 + 1 = l /\ \A n \in 1..l : n \in 1..(l - 1) \/ n = l
  BY <1>1
<1>4. \A n \in 1..l : \/ n # l /\ n \in 1..(l - 1) /\ Append(p, x)[n] = s[n]
                      \/ n = l /\ Append(p, x)[n] = x
  BY <1>1, <1>2, <1>3
<1> QED
  BY <1>1, <1>2, <1>3, <1>4 DEF Replaced, l, p

-----------------------------------------------------------------------------
(* The stack, and the calls of each of the two functions on it.            *)

Frames == DescentsFrame \cup DFSFrame
Calls(st) == [m \in 1..((Len(st) + 1) \div 2) |-> st[2 * m - 1]]
Searches(st) == [m \in 1..(Len(st) \div 2) |-> st[2 * m]]

\* st holds the calls C of DoAllDescents and D of DoDFS in turn.
IsStack(st, C, D) ==
    /\ st \in Seq(Frames) /\ C \in Seq(DescentsFrame) /\ D \in Seq(DFSFrame)
    /\ Len(C) = Len(D) \/ Len(C) = Len(D) + 1
    /\ Len(st) = Len(C) + Len(D)
    /\ \A m \in 1..Len(C) : st[2 * m - 1] = C[m]
    /\ \A m \in 1..Len(D) : st[2 * m] = D[m]

\* They can be read off the stack.
LEMMA StackIs ==
    ASSUME NEW st, NEW C, NEW D, IsStack(st, C, D)
    PROVE  Calls(st) = C /\ Searches(st) = D
<1> DEFINE c == Len(C)
           d == Len(D)
<1>1. c \in Nat /\ d \in Nat /\ C \in [1..c -> DescentsFrame] /\ D \in [1..d -> DFSFrame]
  BY LenProperties DEF IsStack
<1>2. /\ c = d \/ c = d + 1
      /\ Len(st) = c + d
      /\ \A m \in 1..c : st[2 * m - 1] = C[m]
      /\ \A m \in 1..d : st[2 * m] = D[m]
  BY DEF IsStack
<1> HIDE DEF c, d
<1>3. (Len(st) + 1) \div 2 = c /\ Len(st) \div 2 = d
  BY <1>1, <1>2
<1>4. Calls(st) = [m \in 1..c |-> st[2 * m - 1]] /\ Searches(st) = [m \in 1..d |-> st[2 * m]]
  BY <1>3 DEF Calls, Searches
<1>5. [m \in 1..c |-> st[2 * m - 1]] = C
  BY <1>1, <1>2
<1>6. [m \in 1..d |-> st[2 * m]] = D
  BY <1>1, <1>2
<1> QED
  BY <1>4, <1>5, <1>6

\* Every place of the stack belongs to one of the two.
LEMMA Parity ==
    /\ \A c, d \in Nat : c = d \/ c = d + 1 =>
          \A n \in 1..(c + d) : \/ \E m \in 1..c : n = 2 * m - 1
                                \/ \E m \in 1..d : n = 2 * m
    /\ \A c, d \in Nat : c = d \/ c = d + 1 =>
          /\ \A m \in 1..c : 2 * m - 1 \in 1..(c + d)
          /\ \A m \in 1..d : 2 * m \in 1..(c + d)
    /\ \A m, n \in Nat : 2 * m - 1 # 2 * n
<1>1. ASSUME NEW c \in Nat, NEW d \in Nat, c = d \/ c = d + 1, NEW n \in 1..(c + d)
      PROVE  (\E m \in 1..c : n = 2 * m - 1) \/ (\E m \in 1..d : n = 2 * m)
  <2>1. PICK h \in Nat : n = 2 * h \/ n = 2 * h + 1
    <3>1. n \div 2 \in Nat /\ (n = 2 * (n \div 2) \/ n = 2 * (n \div 2) + 1)
      OBVIOUS
    <3> QED
      BY <3>1
  <2>2. CASE n = 2 * h
    <3>1. h \in 1..d
      BY <1>1, <2>2
    <3> QED
      BY <2>2, <3>1
  <2>3. CASE n = 2 * h + 1
    <3>1. h + 1 \in 1..c /\ n = 2 * (h + 1) - 1
      BY <1>1, <2>3
    <3> QED
      BY <3>1
  <2> QED
    BY <2>1, <2>2, <2>3
<1>2. \A c, d \in Nat : c = d \/ c = d + 1 =>
          /\ \A m \in 1..c : 2 * m - 1 \in 1..(c + d)
          /\ \A m \in 1..d : 2 * m \in 1..(c + d)
  OBVIOUS
<1>3. \A m, n \in Nat : 2 * m - 1 # 2 * n
  OBVIOUS
<1> QED
  BY <1>1, <1>2, <1>3

\* The kind of the call on top tells how many there are of each.
LEMMA TopIs ==
    ASSUME NEW st, NEW C, NEW D, IsStack(st, C, D), st # <<>>
    PROVE  /\ Len(C) \in Nat \ {0} /\ Len(D) \in Nat /\ Len(st) \in Nat \ {0}
           /\ st[Len(st)].kind = "descents" =>
                 /\ Len(C) = Len(D) + 1 /\ st[Len(st)] = C[Len(C)]
                 /\ st[Len(st)] \in DescentsFrame
           /\ st[Len(st)].kind = "dfs" =>
                 /\ Len(C) = Len(D) /\ st[Len(st)] = D[Len(D)]
                 /\ Len(D) \in Nat \ {0} /\ st[Len(st)] \in DFSFrame
<1> DEFINE c == Len(C)
           d == Len(D)
<1>1. /\ c \in Nat /\ d \in Nat
      /\ \A m \in 1..c : C[m] \in DescentsFrame
      /\ \A m \in 1..d : D[m] \in DFSFrame
  BY LenProperties, ElementOfSeq DEF IsStack
<1>2. /\ c = d \/ c = d + 1
      /\ Len(st) = c + d
      /\ \A m \in 1..c : st[2 * m - 1] = C[m]
      /\ \A m \in 1..d : st[2 * m] = D[m]
  BY DEF IsStack
<1>3. Len(st) # 0
  BY EmptySeq DEF IsStack
<1> HIDE DEF c, d
<1>4. CASE c = d + 1
  <2>1. c \in 1..c /\ Len(st) = 2 * c - 1 /\ c \in Nat \ {0} /\ Len(st) \in Nat \ {0}
    BY <1>1, <1>2, <1>4
  <2>2. st[Len(st)] = C[c] /\ C[c] \in DescentsFrame
    BY <1>1, <1>2, <2>1
  <2>3. C[c].kind = "descents" /\ "descents" # "dfs"
    BY <2>2 DEF DescentsFrame
  <2> QED
    BY <1>1, <1>4, <2>1, <2>2, <2>3 DEF c, d
<1>5. CASE c = d
  <2>1. d \in 1..d /\ Len(st) = 2 * d /\ d \in Nat \ {0} /\ Len(st) \in Nat \ {0}
    BY <1>1, <1>2, <1>3, <1>5
  <2>2. st[Len(st)] = D[d] /\ D[d] \in DFSFrame
    BY <1>1, <1>2, <2>1
  <2>3. D[d].kind = "dfs" /\ "descents" # "dfs"
    BY <2>2 DEF DFSFrame
  <2> QED
    BY <1>1, <1>5, <2>1, <2>2, <2>3 DEF c, d
<1> QED
  BY <1>2, <1>4, <1>5

\* DoAllDescents calls DoDFS.
LEMMA PushSearch ==
    ASSUME NEW st, NEW C, NEW D, IsStack(st, C, D), Len(C) = Len(D) + 1,
           NEW g \in DFSFrame
    PROVE  IsStack(Append(st, g), C, Append(D, g))
<1> DEFINE c == Len(C)
           d == Len(D)
           l == Len(st)
           a == Append(st, g)
           e == Append(D, g)
<1>0. st \in Seq(Frames) /\ C \in Seq(DescentsFrame) /\ D \in Seq(DFSFrame)
  BY DEF IsStack
<1>1. /\ c \in Nat /\ d \in Nat /\ c = d + 1 /\ l = c + d
      /\ \A m \in 1..c : st[2 * m - 1] = C[m]
      /\ \A m \in 1..d : st[2 * m] = D[m]
  BY <1>0, LenProperties DEF IsStack
<1>2. g \in Frames
  BY DEF Frames
<1>3. /\ a \in Seq(Frames) /\ Len(a) = l + 1
      /\ \A n \in 1..l : a[n] = st[n]
      /\ a[l + 1] = g
  BY <1>0, <1>2, AppendProperties
<1>4. /\ e \in Seq(DFSFrame) /\ Len(e) = d + 1
      /\ \A m \in 1..d : e[m] = D[m]
      /\ e[d + 1] = g
  BY <1>0, AppendProperties
<1> HIDE DEF a, e, c, d, l
<1>5. /\ c + d + 1 = 2 * (d + 1) /\ c + d + 1 = c + (d + 1)
      /\ \A m \in 1..c : 2 * m - 1 \in 1..(c + d)
      /\ \A m \in 1..d : 2 * m \in 1..(c + d)
      /\ \A m \in 1..(d + 1) : m \in 1..d \/ m = d + 1
  BY <1>1
<1>6. \A m \in 1..c : a[2 * m - 1] = C[m]
  BY <1>1, <1>3, <1>5
<1>7. \A m \in 1..Len(e) : a[2 * m] = e[m]
  BY <1>1, <1>3, <1>4, <1>5
<1>8. Len(a) = c + Len(e) /\ c = Len(e)
  BY <1>1, <1>3, <1>4
<1> QED
  BY <1>0, <1>1, <1>3, <1>4, <1>6, <1>7, <1>8 DEF IsStack, a, e, c, d, l

\* DoDFS calls DoAllDescents.
LEMMA PushCall ==
    ASSUME NEW st, NEW C, NEW D, IsStack(st, C, D), Len(C) = Len(D),
           NEW f \in DescentsFrame
    PROVE  IsStack(Append(st, f), Append(C, f), D)
<1> DEFINE c == Len(C)
           d == Len(D)
           l == Len(st)
           a == Append(st, f)
           e == Append(C, f)
<1>0. st \in Seq(Frames) /\ C \in Seq(DescentsFrame) /\ D \in Seq(DFSFrame)
  BY DEF IsStack
<1>1. /\ c \in Nat /\ d \in Nat /\ c = d /\ l = c + d
      /\ \A m \in 1..c : st[2 * m - 1] = C[m]
      /\ \A m \in 1..d : st[2 * m] = D[m]
  BY <1>0, LenProperties DEF IsStack
<1>2. f \in Frames
  BY DEF Frames
<1>3. /\ a \in Seq(Frames) /\ Len(a) = l + 1
      /\ \A n \in 1..l : a[n] = st[n]
      /\ a[l + 1] = f
  BY <1>0, <1>2, AppendProperties
<1>4. /\ e \in Seq(DescentsFrame) /\ Len(e) = c + 1
      /\ \A m \in 1..c : e[m] = C[m]
      /\ e[c + 1] = f
  BY <1>0, AppendProperties
<1> HIDE DEF a, e, c, d, l
<1>5. /\ c + d + 1 = 2 * (c + 1) - 1 /\ c + d + 1 = (c + 1) + d
      /\ \A m \in 1..c : 2 * m - 1 \in 1..(c + d)
      /\ \A m \in 1..d : 2 * m \in 1..(c + d)
      /\ \A m \in 1..(c + 1) : m \in 1..c \/ m = c + 1
  BY <1>1
<1>6. \A m \in 1..Len(e) : a[2 * m - 1] = e[m]
  BY <1>1, <1>3, <1>4, <1>5
<1>7. \A m \in 1..d : a[2 * m] = D[m]
  BY <1>1, <1>3, <1>5
<1>8. Len(a) = Len(e) + d /\ Len(e) = d + 1
  BY <1>1, <1>3, <1>4, <1>5
<1> QED
  BY <1>0, <1>1, <1>3, <1>4, <1>6, <1>7, <1>8 DEF IsStack, a, e, c, d, l

\* A call of DoAllDescents on top goes on.
LEMMA ChangeCall ==
    ASSUME NEW st, NEW C, NEW D, IsStack(st, C, D), Len(C) = Len(D) + 1,
           NEW f \in DescentsFrame
    PROVE  IsStack(Replaced(st, f), Replaced(C, f), D)
<1> DEFINE c == Len(C)
           d == Len(D)
           l == Len(st)
           a == Replaced(st, f)
           e == Replaced(C, f)
<1>0. st \in Seq(Frames) /\ C \in Seq(DescentsFrame) /\ D \in Seq(DFSFrame)
  BY DEF IsStack
<1>1. /\ c \in Nat /\ d \in Nat /\ c = d + 1 /\ l = c + d
      /\ \A m \in 1..c : st[2 * m - 1] = C[m]
      /\ \A m \in 1..d : st[2 * m] = D[m]
  BY <1>0, LenProperties DEF IsStack
<1>2. f \in Frames /\ st # <<>> /\ C # <<>>
  BY <1>0, <1>1, EmptySeq DEF Frames
<1>3. /\ a \in Seq(Frames) /\ Len(a) = l
      /\ \A n \in 1..l : \/ n # l /\ n \in 1..(l - 1) /\ a[n] = st[n]
                         \/ n = l /\ a[n] = f
  BY <1>0, <1>2, ReplacedIs
<1>4. /\ e \in Seq(DescentsFrame) /\ Len(e) = c
      /\ \A m \in 1..c : \/ m # c /\ m \in 1..(c - 1) /\ e[m] = C[m]
                         \/ m = c /\ e[m] = f
  BY <1>0, <1>2, ReplacedIs
<1> HIDE DEF a, e, c, d, l
<1>5. /\ \A m \in 1..c : 2 * m - 1 \in 1..(c + d) /\ (2 * m - 1 = c + d <=> m = c)
      /\ \A m \in 1..d : 2 * m \in 1..(c + d) /\ 2 * m # c + d
  BY <1>1
<1>6. \A m \in 1..c : a[2 * m - 1] = e[m]
  BY <1>1, <1>3, <1>4, <1>5
<1>7. \A m \in 1..d : a[2 * m] = D[m]
  BY <1>1, <1>3, <1>5
<1> QED
  BY <1>0, <1>1, <1>3, <1>4, <1>6, <1>7 DEF IsStack, a, e, c, d, l

\* A call of DoDFS on top goes on.
LEMMA ChangeSearch ==
    ASSUME NEW st, NEW C, NEW D, IsStack(st, C, D), Len(C) = Len(D), D # <<>>,
           NEW g \in DFSFrame
    PROVE  IsStack(Replaced(st, g), C, Replaced(D, g))
<1> DEFINE c == Len(C)
           d == Len(D)
           l == Len(st)
           a == Replaced(st, g)
           e == Replaced(D, g)
<1>0. st \in Seq(Frames) /\ C \in Seq(DescentsFrame) /\ D \in Seq(DFSFrame)
  BY DEF IsStack
<1>1. /\ c \in Nat /\ d \in Nat /\ c = d /\ l = c + d
      /\ \A m \in 1..c : st[2 * m - 1] = C[m]
      /\ \A m \in 1..d : st[2 * m] = D[m]
  BY <1>0, LenProperties DEF IsStack
<1>2. g \in Frames /\ st # <<>> /\ d # 0
  BY <1>0, <1>1, EmptySeq DEF Frames
<1>3. /\ a \in Seq(Frames) /\ Len(a) = l
      /\ \A n \in 1..l : \/ n # l /\ n \in 1..(l - 1) /\ a[n] = st[n]
                         \/ n = l /\ a[n] = g
  BY <1>0, <1>2, ReplacedIs
<1>4. /\ e \in Seq(DFSFrame) /\ Len(e) = d
      /\ \A m \in 1..d : \/ m # d /\ m \in 1..(d - 1) /\ e[m] = D[m]
                         \/ m = d /\ e[m] = g
  BY <1>0, <1>2, ReplacedIs
<1> HIDE DEF a, e, c, d, l
<1>5. /\ \A m \in 1..c : 2 * m - 1 \in 1..(c + d) /\ 2 * m - 1 # c + d
      /\ \A m \in 1..d : 2 * m \in 1..(c + d) /\ (2 * m = c + d <=> m = d)
  BY <1>1
<1>6. \A m \in 1..c : a[2 * m - 1] = C[m]
  BY <1>1, <1>3, <1>5
<1>7. \A m \in 1..d : a[2 * m] = e[m]
  BY <1>1, <1>3, <1>4, <1>5
<1> QED
  BY <1>0, <1>1, <1>3, <1>4, <1>6, <1>7 DEF IsStack, a, e, c, d, l

\* What a call that returns leaves on the stack, x being the caller with the
\* result.
Returned(st, x) == Append(SubSeq(st, 1, Len(st) - 2), x)

\* Returned is one shorter, ends in x, and keeps what is under the two elements
\* that it replaces.
LEMMA ReturnedIs ==
    ASSUME NEW S, NEW st \in Seq(S), Len(st) > 1, NEW x \in S
    PROVE  /\ Returned(st, x) \in Seq(S) /\ Len(Returned(st, x)) = Len(st) - 1
           /\ \A n \in 1..(Len(st) - 1) :
                 \/ n # Len(st) - 1 /\ Returned(st, x)[n] = st[n]
                 \/ n = Len(st) - 1 /\ Returned(st, x)[n] = x
<1> DEFINE l == Len(st)
           p == SubSeq(st, 1, Len(st) - 2)
<1>1. l \in Nat /\ l > 1 /\ \A n \in 1..l : st[n] \in S
  BY LenProperties, ElementOfSeq
<1>2. /\ p \in Seq(S) /\ Len(p) = l - 2
      /\ \A n \in 1..(l - 2) : p[n] = st[n]
  <2>1. /\ l - 2 \in Int /\ 1 \in Int /\ l - 2 - 1 + 1 = l - 2
        /\ \A n \in 1..(l - 2) : n \in 1..l /\ 1 + n - 1 = n
        /\ (~(1 <= l - 2) => l - 2 = 0)
    <3> HIDE DEF l
    <3> QED
      BY <1>1
  <2>2. \A n \in 1..(l - 2) : st[n] \in S
    BY <1>1, <2>1
  <2>3. /\ SubSeq(st, 1, l - 2) \in Seq(S)
        /\ Len(SubSeq(st, 1, l - 2)) = IF 1 <= l - 2 THEN l - 2 - 1 + 1 ELSE 0
        /\ \A n \in 1..(l - 2 - 1 + 1) : SubSeq(st, 1, l - 2)[n] = st[1 + n - 1]
    <3> HIDE DEF l
    <3> QED
      BY <2>1, <2>2, SubSeqProperties
  <2> QED
    BY <2>1, <2>3
<1> HIDE DEF l, p
<1>3. /\ Append(p, x) \in Seq(S) /\ Len(Append(p, x)) = Len(p) + 1
      /\ \A n \in 1..Len(p) : Append(p, x)[n] = p[n]
      /\ Append(p, x)[Len(p) + 1] = x
  BY <1>2, AppendProperties
<1>4. l - 2 + 1 = l - 1 /\ \A n \in 1..(l - 1) : (n # l - 1 /\ n \in 1..(l - 2)) \/ n = l - 1
  BY <1>1
<1> QED
  BY <1>2, <1>3, <1>4 DEF Returned, l, p

\* DoDFS returns to DoAllDescents.
LEMMA ReturnSearch ==
    ASSUME NEW st, NEW C, NEW D, IsStack(st, C, D), Len(C) = Len(D), D # <<>>
    PROVE  /\ st[Len(st) - 1] = C[Len(C)] /\ C[Len(C)] \in DescentsFrame
           /\ \A f \in DescentsFrame :
                 IsStack(Returned(st, f), Replaced(C, f), Front(D))
<1> DEFINE c == Len(C)
           d == Len(D)
           l == Len(st)
<1>0. st \in Seq(Frames) /\ C \in Seq(DescentsFrame) /\ D \in Seq(DFSFrame)
  BY DEF IsStack
<1>1. /\ c \in Nat /\ d \in Nat /\ c = d /\ l = c + d
      /\ \A m \in 1..c : st[2 * m - 1] = C[m]
      /\ \A m \in 1..d : st[2 * m] = D[m]
  BY <1>0, LenProperties DEF IsStack
<1>2. C # <<>> /\ d # 0
  BY <1>0, <1>1, EmptySeq
<1>3. /\ Front(D) \in Seq(DFSFrame) /\ Len(Front(D)) = d - 1
      /\ \A m \in 1..(d - 1) : Front(D)[m] = D[m]
  BY <1>0, AllButLast DEF Front
<1>4. \A f \in DescentsFrame :
         /\ Replaced(C, f) \in Seq(DescentsFrame) /\ Len(Replaced(C, f)) = c
         /\ \A m \in 1..c : \/ m # c /\ Replaced(C, f)[m] = C[m]
                            \/ m = c /\ Replaced(C, f)[m] = f
  BY <1>0, <1>2, ReplacedIs
<1>5. C[c] \in DescentsFrame
  BY <1>0, <1>2, ElementOfSeq
<1>6. ASSUME NEW f \in DescentsFrame
      PROVE  /\ Returned(st, f) \in Seq(Frames) /\ Len(Returned(st, f)) = l - 1
             /\ \A n \in 1..(l - 1) : \/ n # l - 1 /\ Returned(st, f)[n] = st[n]
                                      \/ n = l - 1 /\ Returned(st, f)[n] = f
  <2>1. Len(st) > 1 /\ f \in Frames
    BY <1>1, <1>2 DEF Frames
  <2> QED
    BY <1>0, <2>1, ReturnedIs
<1> HIDE DEF c, d, l
<1>7. /\ c \in 1..c /\ l - 1 = 2 * c - 1 /\ l - 1 = c + (d - 1) /\ c = d - 1 + 1
      /\ \A m \in 1..c : 2 * m - 1 \in 1..(l - 1) /\ (2 * m - 1 = l - 1 <=> m = c)
      /\ \A m \in 1..(d - 1) : 2 * m \in 1..(l - 1) /\ 2 * m # l - 1 /\ m \in 1..d
  BY <1>1, <1>2
<1>8. ASSUME NEW f \in DescentsFrame
      PROVE  IsStack(Returned(st, f), Replaced(C, f), Front(D))
  <2> DEFINE a == Returned(st, f)
             e == Replaced(C, f)
             h == Front(D)
  <2>1. /\ a \in Seq(Frames) /\ Len(a) = l - 1
        /\ \A n \in 1..(l - 1) : \/ n # l - 1 /\ a[n] = st[n]
                                 \/ n = l - 1 /\ a[n] = f
    BY <1>6
  <2>2. /\ e \in Seq(DescentsFrame) /\ Len(e) = c
        /\ \A m \in 1..c : (m # c /\ e[m] = C[m]) \/ (m = c /\ e[m] = f)
    BY <1>4
  <2>3. /\ h \in Seq(DFSFrame) /\ Len(h) = d - 1
        /\ \A m \in 1..(d - 1) : h[m] = D[m]
    BY <1>3
  <2> HIDE DEF a, e, h
  <2>4. \A m \in 1..c : a[2 * m - 1] = e[m]
    BY <1>1, <1>7, <2>1, <2>2
  <2>5. \A m \in 1..(d - 1) : a[2 * m] = h[m]
    BY <1>1, <1>7, <2>1, <2>3
  <2>6. Len(a) = Len(e) + Len(h) /\ Len(e) = Len(h) + 1
    BY <1>1, <1>7, <2>1, <2>2, <2>3
  <2> QED
    BY <2>1, <2>2, <2>3, <2>4, <2>5, <2>6 DEF IsStack, a, e, h
<1>9. st[l - 1] = C[c]
  BY <1>1, <1>7
<1> QED
  BY <1>5, <1>8, <1>9 DEF c, l

\* DoAllDescents returns to DoDFS.
LEMMA ReturnCall ==
    ASSUME NEW st, NEW C, NEW D, IsStack(st, C, D), Len(C) = Len(D) + 1, Len(st) > 1
    PROVE  /\ D # <<>> /\ Len(D) \in Nat \ {0}
           /\ st[Len(st) - 1] = D[Len(D)] /\ D[Len(D)] \in DFSFrame
           /\ \A g \in DFSFrame : IsStack(Returned(st, g), Front(C), Replaced(D, g))
<1> DEFINE c == Len(C)
           d == Len(D)
           l == Len(st)
<1>0. st \in Seq(Frames) /\ C \in Seq(DescentsFrame) /\ D \in Seq(DFSFrame)
  BY DEF IsStack
<1>1. /\ c \in Nat /\ d \in Nat /\ c = d + 1 /\ l = c + d
      /\ \A m \in 1..c : st[2 * m - 1] = C[m]
      /\ \A m \in 1..d : st[2 * m] = D[m]
  BY <1>0, LenProperties DEF IsStack
<1>2. C # <<>> /\ d # 0 /\ D # <<>>
  <2>1. \A m \in Nat : m + 1 + m > 1 => m # 0
    OBVIOUS
  <2>2. d # 0 /\ c # 0
    BY <1>1, <2>1
  <2> QED
    BY <1>0, <2>2, EmptySeq
<1>3. /\ Front(C) \in Seq(DescentsFrame) /\ Len(Front(C)) = c - 1
      /\ \A m \in 1..(c - 1) : Front(C)[m] = C[m]
  BY <1>0, <1>2, AllButLast DEF Front
<1>4. \A g \in DFSFrame :
         /\ Replaced(D, g) \in Seq(DFSFrame) /\ Len(Replaced(D, g)) = d
         /\ \A m \in 1..d : \/ m # d /\ Replaced(D, g)[m] = D[m]
                            \/ m = d /\ Replaced(D, g)[m] = g
  BY <1>0, <1>2, ReplacedIs
<1>5. D[d] \in DFSFrame
  BY <1>0, <1>2, ElementOfSeq
<1>6. ASSUME NEW g \in DFSFrame
      PROVE  /\ Returned(st, g) \in Seq(Frames) /\ Len(Returned(st, g)) = l - 1
             /\ \A n \in 1..(l - 1) : \/ n # l - 1 /\ Returned(st, g)[n] = st[n]
                                      \/ n = l - 1 /\ Returned(st, g)[n] = g
  <2>1. Len(st) > 1 /\ g \in Frames
    BY <1>1, <1>2 DEF Frames
  <2> QED
    BY <1>0, <2>1, ReturnedIs
<1> HIDE DEF c, d, l
<1>7. /\ d \in 1..d /\ l - 1 = 2 * d /\ l - 1 = (c - 1) + d /\ c - 1 = d
      /\ \A m \in 1..d : 2 * m \in 1..(l - 1) /\ (2 * m = l - 1 <=> m = d)
      /\ \A m \in 1..(c - 1) : 2 * m - 1 \in 1..(l - 1) /\ 2 * m - 1 # l - 1
                               /\ m \in 1..c
  BY <1>1, <1>2
<1>8. ASSUME NEW g \in DFSFrame
      PROVE  IsStack(Returned(st, g), Front(C), Replaced(D, g))
  <2> DEFINE a == Returned(st, g)
             e == Front(C)
             h == Replaced(D, g)
  <2>1. /\ a \in Seq(Frames) /\ Len(a) = l - 1
        /\ \A n \in 1..(l - 1) : \/ n # l - 1 /\ a[n] = st[n]
                                 \/ n = l - 1 /\ a[n] = g
    BY <1>6
  <2>2. /\ e \in Seq(DescentsFrame) /\ Len(e) = c - 1
        /\ \A m \in 1..(c - 1) : e[m] = C[m]
    BY <1>3
  <2>3. /\ h \in Seq(DFSFrame) /\ Len(h) = d
        /\ \A m \in 1..d : (m # d /\ h[m] = D[m]) \/ (m = d /\ h[m] = g)
    BY <1>4
  <2> HIDE DEF a, e, h
  <2>4. \A m \in 1..(c - 1) : a[2 * m - 1] = e[m]
    BY <1>1, <1>7, <2>1, <2>2
  <2>5. \A m \in 1..d : a[2 * m] = h[m]
    BY ZenonT(40), <1>1, <1>7, <2>1, <2>3
  <2>6. Len(a) = Len(e) + Len(h) /\ Len(e) = Len(h)
    BY <1>1, <1>7, <2>1, <2>2, <2>3
  <2> QED
    BY <2>1, <2>2, <2>3, <2>4, <2>5, <2>6 DEF IsStack, a, e, h
<1>9. st[l - 1] = D[d]
  BY <1>1, <1>7
<1> QED
  BY <1>1, <1>2, <1>5, <1>8, <1>9 DEF d, l

-----------------------------------------------------------------------------
(* The path of the calls.                                                  *)

OnPath(D, m) == {D[i].cell : i \in 1..m}

\* A call of DoAllDescents is on a cell that is not on the path, next to the last
\* that is, and starts from the node of the word so far.
CallFits(C, D, m) ==
    /\ C[m].cell \notin OnPath(D, m - 1)
    /\ m = 1 => C[m].node = <<>>
    /\ m > 1 => C[m].node = D[m - 1].node /\ Adjacent(D[m - 1].cell, C[m].cell)
    /\ C[m].len = WordLen(C[m].node)

\* The call of DoDFS that it has made is for the letter it tried last.
SearchFits(b, C, D, m) ==
    /\ D[m].cell = C[m].cell
    /\ C[m].j - 1 \in 1..Len(b[C[m].cell])
    /\ D[m].node = Append(C[m].node, b[C[m].cell][C[m].j - 1])
    /\ D[m].len = WordLen(D[m].node)
    /\ D[m].node \in Seq(Letters) /\ Len(D[m].node) = m
    /\ \A i \in 1..m : D[m].node[i] \in ToSet(b[D[i].cell])
    /\ ToSet(D[m].todo) \subseteq ToSet(Visits[D[m].cell])

PathOK(b, C, D, u) ==
    /\ u = OnPath(D, Len(D))
    /\ \A m \in 1..Len(C) : CallFits(C, D, m) /\ C[m].j - 1 \in 0..Len(b[C[m].cell])
    /\ \A m \in 1..Len(D) : SearchFits(b, C, D, m)

\* Both depend on the path up to them only.
LEMMA FitsKept ==
    ASSUME NEW b, NEW C, NEW D, NEW E, NEW F, NEW m \in Nat \ {0},
           \A i \in 1..(m - 1) : F[i].cell = D[i].cell /\ F[i].node = D[i].node,
           E[m].cell = C[m].cell, E[m].node = C[m].node, E[m].len = C[m].len
    PROVE  /\ CallFits(C, D, m) => CallFits(E, F, m)
           /\ SearchFits(b, C, D, m) /\ E[m].j = C[m].j /\ F[m].cell = D[m].cell
                  /\ F[m].node = D[m].node /\ F[m].len = D[m].len
                  /\ ToSet(F[m].todo) \subseteq ToSet(D[m].todo)
              => SearchFits(b, E, F, m)
<1>1. OnPath(F, m - 1) = OnPath(D, m - 1)
  BY DEF OnPath
<1>2. m > 1 => m - 1 \in 1..(m - 1)
  OBVIOUS
<1>3. CallFits(C, D, m) => CallFits(E, F, m)
  BY <1>1, <1>2 DEF CallFits
<1>4. ASSUME SearchFits(b, C, D, m), E[m].j = C[m].j, F[m].cell = D[m].cell,
             F[m].node = D[m].node, F[m].len = D[m].len,
             ToSet(F[m].todo) \subseteq ToSet(D[m].todo)
      PROVE  SearchFits(b, E, F, m)
  <2>1. \A i \in 1..m : F[i].cell = D[i].cell
    <3>1. \A i \in 1..m : i \in 1..(m - 1) \/ i = m
      OBVIOUS
    <3> QED
      BY <1>4, <3>1
  <2> QED
    BY <1>4, <2>1 DEF SearchFits
<1> QED
  BY <1>3, <1>4

\* The letters that a call of DoAllDescents goes on from.
LEMMA NodeIs ==
    ASSUME NEW b, NEW C, NEW D \in Seq(DFSFrame), NEW u, PathOK(b, C, D, u),
           NEW m \in 1..Len(C), m - 1 <= Len(D)
    PROVE  /\ C[m].node \in Seq(Letters) /\ Len(C[m].node) = m - 1
           /\ C[m].len = WordLen(C[m].node)
           /\ \A i \in 1..(m - 1) : C[m].node[i] \in ToSet(b[D[i].cell])
<1>0. Len(D) \in Nat
  BY LenProperties
<1>1. CallFits(C, D, m)
  BY DEF PathOK
<1>2. CASE m = 1
  <2>1. 1..(1 - 1) = {} /\ 1 - 1 = 0
    OBVIOUS
  <2>2. C[m].node = <<>> /\ <<>> \in Seq(Letters) /\ Len(<<>>) = 0
    BY <1>1, <1>2, EmptySeq DEF CallFits
  <2> QED
    BY <1>1, <1>2, <2>1, <2>2 DEF CallFits
<1>3. CASE m # 1
  <2>1. m > 1 /\ m - 1 \in 1..Len(D)
    BY <1>0, <1>3
  <2>2. SearchFits(b, C, D, m - 1)
    BY <2>1 DEF PathOK
  <2> QED
    BY <1>1, <2>1, <2>2 DEF CallFits, SearchFits
<1> QED
  BY <1>2, <1>3

\* The cells of the path are all different.
LEMMA PathApart ==
    ASSUME NEW b, NEW C, NEW D, NEW u, PathOK(b, C, D, u), NEW d \in Nat, d = Len(D),
           d <= Len(C), Len(C) \in Nat
    PROVE  \A i, n \in 1..d : D[i].cell = D[n].cell => i = n
<1>1. ASSUME NEW i \in 1..d, NEW n \in 1..d, i < n PROVE D[i].cell # D[n].cell
  <2>1. n \in 1..Len(C) /\ i \in 1..(n - 1)
    BY <1>1
  <2>2. D[n].cell = C[n].cell
    BY DEF PathOK, SearchFits
  <2>3. C[n].cell \notin {D[k].cell : k \in 1..(n - 1)}
    BY <2>1 DEF PathOK, CallFits, OnPath
  <2> QED
    BY <2>1, <2>2, <2>3
<1>2. \A i, n \in 1..d : i < n \/ n < i \/ i = n
  OBVIOUS
<1> QED
  BY <1>1, <1>2

\* A new root starts a path.
LEMMA StartPath ==
    ASSUME NEW b, NEW k \in Cells
    PROVE  /\ DoAllDescents(k, 0, <<>>) \in DescentsFrame
           /\ IsStack(<<DoAllDescents(k, 0, <<>>)>>, <<DoAllDescents(k, 0, <<>>)>>, <<>>)
           /\ b \in Board => PathOK(b, <<DoAllDescents(k, 0, <<>>)>>, <<>>, {})
<1> DEFINE f == DoAllDescents(k, 0, <<>>)
<1>0. WordLen(<<>>) = 0
  <2>1. {i \in DOMAIN <<>> : <<>>[i] = Q} = {} /\ Len(<<>>) = 0
    OBVIOUS
  <2> QED
    BY <2>1, FS_EmptySet DEF WordLen
<1>1. /\ f \in DescentsFrame /\ f.cell = k /\ f.node = <<>> /\ f.len = WordLen(<<>>)
      /\ f.j = 1
  BY <1>0 DEF DoAllDescents, DescentsFrame, Nodes
<1> HIDE DEF f
<1>2. f \in Frames
  BY <1>1 DEF Frames
<1> DEFINE s == <<f>>
           e == <<>>
<1>3. /\ s \in Seq(Frames) /\ s \in Seq(DescentsFrame) /\ e \in Seq(DFSFrame)
      /\ Len(s) = 1 /\ Len(e) = 0 /\ s[1] = f
  BY <1>1, <1>2
<1> HIDE DEF s, e
<1>4. IsStack(s, s, e)
  <2>1. \A m \in 1..1 : 2 * m - 1 = m
    OBVIOUS
  <2>2. 1..0 = {} /\ 1 = 0 + 1 /\ 1 + 0 = 1
    OBVIOUS
  <2> QED
    BY <1>3, <2>1, <2>2 DEF IsStack
<1>5. ASSUME b \in Board PROVE PathOK(b, s, e, {})
  <2>1. \A m \in 1..1 : m = 1
    OBVIOUS
  <2>2. OnPath(e, 0) = {} /\ OnPath(e, 1 - 1) = {}
    BY DEF OnPath
  <2>3. CallFits(s, e, 1)
    BY <1>1, <1>3, <2>2 DEF CallFits
  <2>4. s[1].j - 1 \in 0..Len(b[s[1].cell])
    <3>1. Len(b[k]) \in Nat
      BY <1>5, LenProperties DEF Board
    <3> QED
      BY <1>1, <1>3, <3>1
  <2> QED
    BY <1>3, <2>1, <2>2, <2>3, <2>4 DEF PathOK
<1> QED
  BY <1>1, <1>4, <1>5 DEF s, e, f

\* DoAllDescents has tried a letter; if a word goes on with it DoDFS is called
\* for it, and the cell is on the path.
LEMMA TryPath ==
    ASSUME NEW b \in Board, NEW C \in Seq(DescentsFrame), NEW D \in Seq(DFSFrame), NEW u,
           PathOK(b, C, D, u), Len(C) = Len(D) + 1,
           NEW f, f = C[Len(C)], f.j <= Len(b[f.cell]),
           NEW h \in DescentsFrame, h.cell = f.cell, h.node = f.node, h.len = f.len,
           h.j = f.j + 1
    PROVE  /\ PathOK(b, Replaced(C, h), D, u)
           /\ \A g \in DFSFrame :
                 /\ g.cell = f.cell /\ g.node = Append(f.node, b[f.cell][f.j])
                 /\ g.len = f.len + LetterLen(b[f.cell][f.j])
                 /\ g.todo = Visits[f.cell]
                 => PathOK(b, Replaced(C, h), Append(D, g), Toggle(u, f.cell))
<1> DEFINE c == Len(C)
           d == Len(D)
           E == Replaced(C, h)
<1>1. /\ c \in Nat /\ d \in Nat /\ c = d + 1 /\ c \in 1..c /\ c \in Nat \ {0} /\ c - 1 = d
  BY LenProperties
<1>2. f \in DescentsFrame
  BY <1>1, ElementOfSeq
<1>3. /\ f.j \in Nat /\ f.cell \in Cells /\ Len(b[f.cell]) \in Nat
      /\ b[f.cell] \in Seq(Letters) /\ f.j \in 1..Len(b[f.cell])
  <2>1. /\ f.j \in Nat /\ f.cell \in Cells /\ Len(b[f.cell]) \in Nat
        /\ b[f.cell] \in Seq(Letters)
    BY <1>2, LenProperties DEF DescentsFrame, Board
  <2>2. f.j - 1 \in 0..Len(b[f.cell])
    BY <1>1 DEF PathOK
  <2> QED
    BY <2>1, <2>2
<1>4. Len(E) = c /\ \A m \in 1..c : \/ m # c /\ m \in 1..(c - 1) /\ E[m] = C[m]
                                    \/ m = c /\ E[m] = h
  <2>1. C # <<>>
    BY <1>1, EmptySeq
  <2>2. C \in Seq(DescentsFrame) /\ h \in DescentsFrame
    OBVIOUS
  <2> QED
    BY ONLY <2>1, <2>2, ReplacedIs
<1>5. \A m \in 1..c : E[m].cell = C[m].cell /\ E[m].node = C[m].node /\ E[m].len = C[m].len
  BY <1>4
<1>6. \A m \in 1..c : CallFits(C, D, m) /\ C[m].j - 1 \in 0..Len(b[C[m].cell])
  BY DEF PathOK
<1>7. \A m \in 1..d : SearchFits(b, C, D, m)
  BY DEF PathOK
<1>8. u = OnPath(D, d)
  BY DEF PathOK
<1> HIDE DEF E, c, d
<1>9. \A m \in 1..c : E[m].j - 1 \in 0..Len(b[E[m].cell])
  <2>1. h.j - 1 \in 0..Len(b[h.cell])
    <3>1. \A j \in Nat : j + 1 - 1 = j
      OBVIOUS
    <3> QED
      BY <1>3, <3>1
  <2>2. ASSUME NEW m \in 1..c PROVE E[m].j - 1 \in 0..Len(b[E[m].cell])
    BY <1>4, <1>6, <2>1
  <2> QED
    BY <2>2
<1>10. \A m \in 1..c : m \in Nat \ {0}
  BY <1>1
<1>11. \A m \in 1..c : CallFits(E, D, m)
  BY <1>5, <1>6, <1>10, FitsKept
<1>12. \A m \in 1..d : m \in 1..c /\ m # c
  BY <1>1
<1>13. \A m \in 1..d : SearchFits(b, E, D, m)
  <2>1. \A m \in 1..d : E[m] = C[m]
    BY <1>4, <1>12
  <2> QED
    BY <1>7, <1>10, <1>12, <2>1, FitsKept
<1>14. PathOK(b, E, D, u)
  BY <1>4, <1>8, <1>9, <1>11, <1>13 DEF PathOK, d
<1>15. ASSUME NEW g \in DFSFrame, g.cell = f.cell,
              g.node = Append(f.node, b[f.cell][f.j]),
              g.len = f.len + LetterLen(b[f.cell][f.j]),
              g.todo = Visits[f.cell]
       PROVE  PathOK(b, E, Append(D, g), Toggle(u, f.cell))
  <2> DEFINE F == Append(D, g)
             x == b[f.cell][f.j]
  <2>1. /\ Len(F) = d + 1
        /\ \A m \in 1..(d + 1) : \/ m \in 1..d /\ m # d + 1 /\ F[m] = D[m]
                                 \/ m = d + 1 /\ m \notin 1..d /\ F[m] = g
    BY AppendCases DEF d
  <2> HIDE DEF F
  <2>2. x \in Letters /\ x \in ToSet(b[f.cell])
    BY <1>3, ElementOfSeq, LenProperties DEF ToSet
  <2> HIDE DEF x
  <2>3. /\ f.node \in Seq(Letters) /\ Len(f.node) = d /\ f.len = WordLen(f.node)
        /\ \A i \in 1..d : f.node[i] \in ToSet(b[D[i].cell])
    <3>1. c \in 1..Len(C) /\ c - 1 <= Len(D) /\ f = C[c] /\ c - 1 = d
      BY <1>1 DEF c, d
    <3>2. /\ C[c].node \in Seq(Letters) /\ Len(C[c].node) = c - 1
          /\ C[c].len = WordLen(C[c].node)
          /\ \A i \in 1..(c - 1) : C[c].node[i] \in ToSet(b[D[i].cell])
      <4> HIDE DEF c
      <4> QED
        BY <3>1, NodeIs
    <3> QED
      BY <3>1, <3>2
  <2>4. /\ g.node \in Seq(Letters) /\ Len(g.node) = d + 1
        /\ \A i \in 1..(d + 1) : \/ i \in 1..d /\ g.node[i] = f.node[i]
                                 \/ i = d + 1 /\ g.node[i] = x
    BY SMTT(20), <1>15, <2>2, <2>3, AppendCases DEF x
  <2>5. g.len = WordLen(g.node)
    BY <1>15, <2>2, <2>3, WordLenAppend DEF x
  <2>6. SearchFits(b, E, F, c)
    <3>1. F[c] = g /\ E[c] = h /\ h.j - 1 = f.j /\ d + 1 = c
      BY <1>1, <1>3, <1>4, <2>1
    <3>2. h.j - 1 \in 1..Len(b[f.cell])
      BY <1>3
    <3>3. \A i \in 1..c : g.node[i] \in ToSet(b[F[i].cell])
      <4>1. ASSUME NEW i \in 1..d PROVE g.node[i] \in ToSet(b[F[i].cell])
        <5>1. d \in Nat /\ i # d + 1 /\ i \in 1..(d + 1)
          BY <1>1
        <5>2. F[i] = D[i] /\ g.node[i] = f.node[i]
          BY <2>1, <2>4, <5>1
        <5> QED
          BY <2>3, <5>2
      <4>2. g.node[d + 1] \in ToSet(b[F[d + 1].cell])
        <5>1. d \in Nat /\ d + 1 \notin 1..d /\ d + 1 \in 1..(d + 1)
          BY <1>1
        <5>2. F[d + 1] = g /\ g.node[d + 1] = x
          BY <2>1, <2>4, <5>1
        <5> QED
          BY <1>15, <2>2, <5>2
      <4>3. \A i \in 1..c : i \in 1..d \/ i = d + 1
        BY <1>1, <3>1
      <4> QED
        BY <4>1, <4>2, <4>3
    <3> QED
      BY <1>1, <1>15, <2>4, <2>5, <3>1, <3>2, <3>3 DEF SearchFits, x
  <2>7. \A m \in 1..c : CallFits(E, F, m)
    <3>1. \A m \in 1..c : \A i \in 1..(m - 1) : F[i] = D[i]
      BY <1>1, <2>1
    <3> QED
      BY <1>5, <1>6, <1>10, <3>1, FitsKept
  <2>8. \A m \in 1..d : SearchFits(b, E, F, m)
    <3>1. \A m \in 1..d : \A i \in 1..m : F[i] = D[i]
      BY <1>1, <2>1
    <3>2. \A m \in 1..d : F[m] = D[m] /\ \A i \in 1..(m - 1) : F[i] = D[i]
      BY <1>1, <3>1
    <3>3. ASSUME NEW m \in 1..d PROVE SearchFits(b, E, F, m)
      <4>1. /\ m \in Nat \ {0}
            /\ \A i \in 1..(m - 1) : F[i].cell = D[i].cell /\ F[i].node = D[i].node
            /\ E[m].cell = E[m].cell /\ E[m].node = E[m].node /\ E[m].len = E[m].len
        BY <1>10, <1>12, <3>2
      <4>2. /\ SearchFits(b, E, D, m) /\ E[m].j = E[m].j /\ F[m].cell = D[m].cell
            /\ F[m].node = D[m].node /\ F[m].len = D[m].len
            /\ ToSet(F[m].todo) \subseteq ToSet(D[m].todo)
        BY <1>13, <3>2
      <4> QED
        BY ONLY <4>1, <4>2, FitsKept
    <3> QED
      BY <3>3
  <2>9. Toggle(u, f.cell) = OnPath(F, d + 1)
    <3>1. f.cell \notin u
      BY <1>1, <1>6, <1>8 DEF CallFits, c
    <3>2. OnPath(F, d + 1) = OnPath(D, d) \cup {f.cell}
      <4>1. /\ \A m \in 1..d : m \in 1..(d + 1) /\ F[m] = D[m]
            /\ d + 1 \in 1..(d + 1) /\ F[d + 1] = g
            /\ \A m \in 1..(d + 1) : m \in 1..d \/ m = d + 1
        BY <1>1, <2>1
      <4>2. \A y : y \in OnPath(F, d + 1) => y \in OnPath(D, d) \/ y = f.cell
        BY <1>15, <4>1 DEF OnPath
      <4>3. OnPath(D, d) \subseteq OnPath(F, d + 1)
        <5>1. ASSUME NEW m \in 1..d PROVE D[m].cell \in OnPath(F, d + 1)
          BY <4>1 DEF OnPath
        <5> QED
          BY <5>1 DEF OnPath
      <4>4. f.cell \in OnPath(F, d + 1)
        <5>1. F[d + 1].cell = f.cell
          BY <1>15, <4>1
        <5> QED
          BY <4>1, <5>1 DEF OnPath
      <4> QED
        BY <4>2, <4>3, <4>4
    <3> QED
      BY <1>8, <3>1, <3>2 DEF Toggle
  <2>10. \A m \in 1..(d + 1) : SearchFits(b, E, F, m)
    BY <1>1, <2>1, <2>6, <2>8
  <2> QED
    BY <1>4, <1>9, <2>1, <2>7, <2>9, <2>10 DEF PathOK, F
<1> QED
  BY <1>14, <1>15 DEF E

\* DoDFS has a cell less to visit; if the cell is not in use DoAllDescents is
\* called for it.
LEMMA VisitPath ==
    ASSUME NEW b \in Board, NEW C \in Seq(DescentsFrame), NEW D \in Seq(DFSFrame), NEW u,
           PathOK(b, C, D, u), Len(C) = Len(D), D # <<>>,
           NEW g, g = D[Len(D)],
           NEW h \in DFSFrame, h.cell = g.cell, h.node = g.node, h.len = g.len,
           ToSet(h.todo) \subseteq ToSet(g.todo)
    PROVE  /\ PathOK(b, C, Replaced(D, h), u)
           /\ \A n \in Cells :
                 n \notin u /\ Adjacent(g.cell, n)
                 => PathOK(b, Append(C, DoAllDescents(n, g.len, g.node)),
                           Replaced(D, h), u)
<1> DEFINE c == Len(C)
           d == Len(D)
           F == Replaced(D, h)
<1>1. c \in Nat /\ d \in Nat /\ c = d /\ d \in 1..d /\ d # 0
  <2>1. c \in Nat /\ d \in Nat /\ c = d /\ d # 0
    BY LenProperties, EmptySeq
  <2> QED
    BY <2>1
<1>2. Len(F) = d /\ \A m \in 1..d : \/ m # d /\ m \in 1..(d - 1) /\ F[m] = D[m]
                                    \/ m = d /\ F[m] = h
  <2>1. D # <<>> /\ D \in Seq(DFSFrame) /\ h \in DFSFrame
    OBVIOUS
  <2> QED
    BY ONLY <2>1, ReplacedIs
<1>3. \A m \in 1..d : /\ F[m].cell = D[m].cell /\ F[m].node = D[m].node
                      /\ F[m].len = D[m].len /\ ToSet(F[m].todo) \subseteq ToSet(D[m].todo)
  BY <1>2
<1>4. \A m \in 1..c : CallFits(C, D, m) /\ C[m].j - 1 \in 0..Len(b[C[m].cell])
  BY DEF PathOK
<1>5. \A m \in 1..d : SearchFits(b, C, D, m)
  BY DEF PathOK
<1>6. u = OnPath(D, d)
  BY DEF PathOK
<1> HIDE DEF F, c, d
<1>7. \A m \in 1..d : m \in Nat \ {0} /\ \A i \in 1..(m - 1) : i \in 1..d
  BY <1>1
<1>8. \A m \in 1..d : CallFits(C, F, m)
  BY <1>1, <1>3, <1>4, <1>7, FitsKept
<1>9. \A m \in 1..d : SearchFits(b, C, F, m)
  BY <1>1, <1>3, <1>5, <1>7, FitsKept
<1>10. u = OnPath(F, d)
  BY <1>3, <1>6 DEF OnPath
<1>11. PathOK(b, C, F, u)
  BY <1>1, <1>2, <1>4, <1>8, <1>9, <1>10 DEF PathOK, c
<1>12. ASSUME NEW n \in Cells, n \notin u, Adjacent(g.cell, n)
       PROVE  PathOK(b, Append(C, DoAllDescents(n, g.len, g.node)), F, u)
  <2> DEFINE f == DoAllDescents(n, g.len, g.node)
             E == Append(C, f)
  <2>1. f.cell = n /\ f.len = g.len /\ f.node = g.node /\ f.j = 1
    BY DEF DoAllDescents
  <2>2. f \in DescentsFrame
    <3>1. g \in DFSFrame
      BY <1>1, ElementOfSeq DEF d
    <3> QED
      BY <3>1 DEF DFSFrame, DescentsFrame, DoAllDescents
  <2> HIDE DEF f
  <2>3. /\ Len(E) = c + 1
        /\ \A m \in 1..(c + 1) : \/ m \in 1..c /\ m # c + 1 /\ E[m] = C[m]
                                 \/ m = c + 1 /\ m \notin 1..c /\ E[m] = f
    BY <2>2, AppendCases DEF c
  <2> HIDE DEF E
  <2>4. c + 1 - 1 = d /\ c + 1 > 1 /\ c + 1 # 1 /\ c + 1 \in 1..(c + 1) /\ c + 1 \in Nat \ {0}
    BY <1>1
  <2>5. CallFits(E, F, c + 1)
    <3>0. E[c + 1] = f
      BY <2>3, <2>4
    <3> DEFINE m == c + 1
    <3>1. E[m] = f
      BY <3>0
    <3>4. m - 1 = d /\ m # 1
      BY <1>1
    <3> HIDE DEF m
    <3>2. F[d].node = g.node /\ F[d].cell = g.cell
      BY <1>1, <1>3 DEF d
    <3>3. g.len = WordLen(g.node)
      BY <1>1, <1>5 DEF SearchFits, d
    <3> QED
      BY <1>10, <1>12, <2>1, <3>1, <3>2, <3>3, <3>4 DEF CallFits, m
  <2>6. \A m \in 1..d : E[m] = C[m]
    BY <1>1, <2>3
  <2>7. \A m \in 1..d : CallFits(E, F, m) /\ SearchFits(b, E, F, m)
    BY <1>7, <1>8, <1>9, <2>6, FitsKept
  <2>8. \A m \in 1..(c + 1) : CallFits(E, F, m)
    BY <1>1, <2>3, <2>5, <2>7
  <2>9. \A m \in 1..(c + 1) : E[m].j - 1 \in 0..Len(b[E[m].cell])
    <3>1. Len(b[n]) \in Nat
      BY LenProperties DEF Board
    <3> QED
      BY <1>4, <2>1, <2>3, <3>1
  <2> QED
    BY <1>2, <1>10, <2>3, <2>7, <2>8, <2>9 DEF PathOK, E, f
<1> QED
  BY <1>11, <1>12 DEF F

\* DoDFS returns: its cell leaves the path.
LEMMA EndSearchPath ==
    ASSUME NEW b \in Board, NEW C \in Seq(DescentsFrame), NEW D \in Seq(DFSFrame), NEW u,
           PathOK(b, C, D, u), Len(C) = Len(D), D # <<>>,
           NEW f, f = C[Len(C)],
           NEW h \in DescentsFrame, h.cell = f.cell, h.node = f.node, h.len = f.len,
           h.j = f.j
    PROVE  /\ D[Len(D)].cell = f.cell
           /\ PathOK(b, Replaced(C, h), Front(D), Toggle(u, D[Len(D)].cell))
<1> DEFINE c == Len(C)
           d == Len(D)
           E == Replaced(C, h)
           F == Front(D)
           k == D[Len(D)].cell
<1>1. c \in Nat /\ d \in Nat /\ c = d /\ d \in 1..d /\ d # 0
  <2>1. c \in Nat /\ d \in Nat /\ c = d /\ d # 0
    BY LenProperties, EmptySeq
  <2> QED
    BY <2>1
<1>2. Len(E) = c /\ \A m \in 1..c : \/ m # c /\ m \in 1..(c - 1) /\ E[m] = C[m]
                                    \/ m = c /\ E[m] = h
  <2>1. C # <<>> /\ C \in Seq(DescentsFrame) /\ h \in DescentsFrame
    BY <1>1, EmptySeq
  <2> QED
    BY ONLY <2>1, ReplacedIs
<1>3. Len(F) = d - 1 /\ \A m \in 1..(d - 1) : F[m] = D[m]
  <2>1. D # <<>> /\ D \in Seq(DFSFrame)
    OBVIOUS
  <2> QED
    BY ONLY <2>1, AllButLast DEF Front
<1>4. \A m \in 1..c : CallFits(C, D, m) /\ C[m].j - 1 \in 0..Len(b[C[m].cell])
  BY DEF PathOK
<1>5. \A m \in 1..d : SearchFits(b, C, D, m)
  BY DEF PathOK
<1>6. u = OnPath(D, d)
  BY DEF PathOK
<1>7. k = f.cell
  BY <1>1, <1>5 DEF SearchFits
<1> HIDE DEF E, F, c, d, k
<1>8. \A m \in 1..c : /\ E[m].cell = C[m].cell /\ E[m].node = C[m].node
                      /\ E[m].len = C[m].len /\ E[m].j = C[m].j
  BY <1>2 DEF c
<1>9. /\ \A m \in 1..c : m \in Nat \ {0} /\ \A i \in 1..(m - 1) : i \in 1..(d - 1)
      /\ \A m \in 1..(d - 1) : m \in 1..c /\ m \in 1..d
      /\ \A m \in 1..d : m = d \/ m \in 1..(d - 1)
      /\ d \notin 1..(d - 1)
  BY <1>1
<1>10. \A m \in 1..c : CallFits(E, F, m)
  BY <1>3, <1>4, <1>8, <1>9, FitsKept
<1>11. \A m \in 1..(d - 1) : SearchFits(b, E, F, m)
  BY <1>3, <1>5, <1>8, <1>9, FitsKept
<1>12. Toggle(u, k) = OnPath(F, d - 1)
  <2>1. OnPath(F, d - 1) = OnPath(D, d - 1)
    BY <1>3 DEF OnPath
  <2>2. u = OnPath(D, d - 1) \cup {k}
    <3>1. k = D[d].cell
      BY DEF k, d
    <3> QED
      BY <1>1, <1>6, <1>9, <3>1 DEF OnPath
  <2>3. k \notin OnPath(D, d - 1)
    BY <1>1, <1>4, <1>7 DEF CallFits, c
  <2> QED
    BY <2>1, <2>2, <2>3 DEF Toggle
<1>13. \A m \in 1..c : E[m].j - 1 \in 0..Len(b[E[m].cell])
  BY <1>4, <1>8
<1> QED
  BY <1>2, <1>3, <1>7, <1>10, <1>11, <1>12, <1>13 DEF PathOK, E, F, k

\* DoAllDescents returns: the path is the same.
LEMMA EndCallPath ==
    ASSUME NEW b \in Board, NEW C \in Seq(DescentsFrame), NEW D \in Seq(DFSFrame), NEW u,
           PathOK(b, C, D, u), Len(C) = Len(D) + 1, D # <<>>,
           NEW g, g = D[Len(D)],
           NEW h \in DFSFrame, h.cell = g.cell, h.node = g.node, h.len = g.len,
           h.todo = g.todo
    PROVE  PathOK(b, Front(C), Replaced(D, h), u)
<1> DEFINE c == Len(C)
           d == Len(D)
           E == Front(C)
           F == Replaced(D, h)
<1>1. c \in Nat /\ d \in Nat /\ c = d + 1 /\ d # 0
  BY LenProperties, EmptySeq
<1>2. Len(E) = c - 1 /\ \A m \in 1..(c - 1) : E[m] = C[m]
  <2>1. C # <<>> /\ C \in Seq(DescentsFrame)
    BY <1>1, EmptySeq
  <2> QED
    BY ONLY <2>1, AllButLast DEF Front
<1>3. Len(F) = d /\ \A m \in 1..d : \/ m # d /\ m \in 1..(d - 1) /\ F[m] = D[m]
                                    \/ m = d /\ F[m] = h
  <2>1. D # <<>> /\ D \in Seq(DFSFrame) /\ h \in DFSFrame
    OBVIOUS
  <2> QED
    BY ONLY <2>1, ReplacedIs
<1>4. \A m \in 1..c : CallFits(C, D, m) /\ C[m].j - 1 \in 0..Len(b[C[m].cell])
  BY DEF PathOK
<1>5. \A m \in 1..d : SearchFits(b, C, D, m)
  BY DEF PathOK
<1>6. u = OnPath(D, d)
  BY DEF PathOK
<1>7. \A m \in 1..d : /\ F[m].cell = D[m].cell /\ F[m].node = D[m].node
                      /\ F[m].len = D[m].len /\ F[m].todo = D[m].todo
  BY <1>3
<1> HIDE DEF E, F, c, d
<1>8. /\ c - 1 = d
      /\ \A m \in 1..d : /\ m \in Nat \ {0} /\ m \in 1..c /\ m \in 1..(c - 1)
                         /\ \A i \in 1..(m - 1) : i \in 1..d
  BY <1>1
<1>9. \A m \in 1..d : CallFits(E, F, m)
  BY <1>2, <1>4, <1>7, <1>8, FitsKept
<1>10. \A m \in 1..d : SearchFits(b, E, F, m)
  BY <1>2, <1>5, <1>7, <1>8, FitsKept
<1>11. u = OnPath(F, d)
  BY <1>6, <1>7 DEF OnPath
<1>12. \A m \in 1..d : E[m].j - 1 \in 0..Len(b[E[m].cell])
  BY <1>2, <1>4, <1>8
<1> QED
  BY <1>2, <1>3, <1>8, <1>9, <1>10, <1>11, <1>12 DEF PathOK, E, F

-----------------------------------------------------------------------------
(* The state.                                                              *)

PathInv ==
    /\ TypeOK
    /\ pc = "search" => /\ stack # <<>>
                        /\ IsStack(stack, Calls(stack), Searches(stack))
                        /\ PathOK(bd, Calls(stack), Searches(stack), used)
    /\ pc # "search" => stack = <<>> /\ used = {}

\* What a step leaves the two sequences of calls as decides.
LEMMA SearchGoesOn ==
    ASSUME NEW C, NEW D, IsStack(stack', C, D), PathOK(bd', C, D, used'), pc' = "search",
           Len(C) # 0, TypeOK'
    PROVE  PathInv' /\ Calls(stack') = C /\ Searches(stack') = D
<1>1. Calls(stack') = C /\ Searches(stack') = D
  BY StackIs
<1>2. stack' # <<>>
  <2>1. Len(C) \in Nat /\ Len(D) \in Nat /\ Len(stack') = Len(C) + Len(D)
    BY LenProperties DEF IsStack
  <2>2. Len(<<>>) = 0
    OBVIOUS
  <2> QED
    BY <2>1, <2>2
<1> QED
  BY <1>1, <1>2 DEF PathInv

\* The calls when one of DoAllDescents is on top.
LEMMA OnCall ==
    ASSUME PathInv, IsTop("descents")
    PROVE  /\ pc = "search" /\ stack # <<>> /\ stack \in Seq(Frames)
           /\ IsStack(stack, Calls(stack), Searches(stack))
           /\ PathOK(bd, Calls(stack), Searches(stack), used)
           /\ Calls(stack) \in Seq(DescentsFrame) /\ Searches(stack) \in Seq(DFSFrame)
           /\ Len(Calls(stack)) = Len(Searches(stack)) + 1
           /\ Len(Calls(stack)) \in Nat \ {0} /\ Len(Searches(stack)) \in Nat
           /\ Top = Calls(stack)[Len(Calls(stack))] /\ Top \in DescentsFrame
           /\ bd \in Board /\ bd[Top.cell] \in Seq(Letters) /\ Top.cell \in Cells
           /\ Top.j \in Nat /\ Top.j - 1 \in 0..Len(bd[Top.cell])
           /\ Len(bd[Top.cell]) \in Nat
<1>1. /\ pc = "search" /\ stack # <<>> /\ IsStack(stack, Calls(stack), Searches(stack))
      /\ PathOK(bd, Calls(stack), Searches(stack), used) /\ Top.kind = "descents"
      /\ bd \in Board
  BY DEF IsTop, PathInv, TypeOK
<1> DEFINE C == Calls(stack)
           D == Searches(stack)
<1> HIDE DEF C, D
<1>2. /\ C \in Seq(DescentsFrame) /\ D \in Seq(DFSFrame) /\ stack \in Seq(Frames)
  BY <1>1 DEF IsStack, C, D
<1>3. /\ Len(C) = Len(D) + 1 /\ Top = C[Len(C)] /\ Top \in DescentsFrame
      /\ Len(C) \in Nat \ {0} /\ Len(D) \in Nat
  BY <1>1, TopIs DEF Top, C, D
<1>4. Top.cell \in Cells /\ Top.j \in Nat /\ bd[Top.cell] \in Seq(Letters)
  BY <1>1, <1>3 DEF DescentsFrame, Board
<1>5. Top.j - 1 \in 0..Len(bd[Top.cell])
  <2>1. Len(C) \in 1..Len(C)
    BY <1>3
  <2> QED
    BY <1>1, <1>3, <2>1 DEF PathOK, C, D
<1>6. Len(bd[Top.cell]) \in Nat
  BY <1>4, LenProperties
<1> QED
  BY <1>1, <1>2, <1>3, <1>4, <1>5, <1>6 DEF C, D

\* ... and when one of DoDFS is.
LEMMA OnSearch ==
    ASSUME PathInv, IsTop("dfs")
    PROVE  /\ pc = "search" /\ stack # <<>> /\ stack \in Seq(Frames)
           /\ IsStack(stack, Calls(stack), Searches(stack))
           /\ PathOK(bd, Calls(stack), Searches(stack), used)
           /\ Calls(stack) \in Seq(DescentsFrame) /\ Searches(stack) \in Seq(DFSFrame)
           /\ Len(Calls(stack)) = Len(Searches(stack))
           /\ Len(Searches(stack)) \in Nat \ {0} /\ Searches(stack) # <<>>
           /\ Top = Searches(stack)[Len(Searches(stack))] /\ Top \in DFSFrame
           /\ bd \in Board /\ Top.cell \in Cells
           /\ SearchFits(bd, Calls(stack), Searches(stack), Len(Searches(stack)))
<1>1. /\ pc = "search" /\ stack # <<>> /\ IsStack(stack, Calls(stack), Searches(stack))
      /\ PathOK(bd, Calls(stack), Searches(stack), used) /\ Top.kind = "dfs"
      /\ bd \in Board
  BY DEF IsTop, PathInv, TypeOK
<1> DEFINE C == Calls(stack)
           D == Searches(stack)
<1> HIDE DEF C, D
<1>2. /\ C \in Seq(DescentsFrame) /\ D \in Seq(DFSFrame) /\ stack \in Seq(Frames)
  BY <1>1 DEF IsStack, C, D
<1>3. /\ Len(C) = Len(D) /\ Top = D[Len(D)] /\ Top \in DFSFrame /\ Len(D) \in Nat \ {0}
  BY <1>1, TopIs DEF Top, C, D
<1>4. Top.cell \in Cells /\ D # <<>>
  BY <1>2, <1>3, EmptySeq DEF DFSFrame
<1>5. SearchFits(bd, C, D, Len(D))
  <2>1. Len(D) \in 1..Len(D)
    BY <1>3
  <2> QED
    BY <1>1, <2>1 DEF PathOK, C, D
<1> QED
  BY <1>1, <1>2, <1>3, <1>4, <1>5 DEF C, D

\* What the calls of the top frame become.
TriedTop == [Top EXCEPT !.j = @ + 1]
Letter == bd[Top.cell][Top.j]
NewSearch == DoDFS(Top.cell, Top.len + LetterLen(Letter), Append(Top.node, Letter))

\* TryLetter, a turn of the loop of DoAllDescents: the call goes on to the next
\* letter, and a search is pushed when the trie has the letter.
LEMMA TrySteps ==
    ASSUME PathInv, TryLetter
    PROVE  /\ PathInv'
           /\ Calls(stack') = Replaced(Calls(stack), TriedTop)
           /\ TriedTop \in DescentsFrame
           /\ IF StartsWord(Top.node, Letter)
              THEN /\ Searches(stack') = Append(Searches(stack), NewSearch)
                   /\ NewSearch \in DFSFrame
              ELSE Searches(stack') = Searches(stack)
<1> DEFINE C == Calls(stack)
           D == Searches(stack)
           h == TriedTop
           g == NewSearch
<1>0. /\ Top.j <= Len(bd[Top.cell])
      /\ UNCHANGED <<pc, bd, marks, runs, details, bailout, root>>
      /\ IF StartsWord(Top.node, Letter)
         THEN stack' = Append(Replaced(stack, h), g) /\ used' = Toggle(used, Top.cell)
         ELSE stack' = Replaced(stack, h) /\ UNCHANGED used
  BY DEF TryLetter, Replaced, Pop, TriedTop, Letter, NewSearch
<1>1. PathInv /\ IsTop("descents") /\ TypeOK
  BY DEF TryLetter, PathInv
<1>2. /\ pc = "search" /\ IsStack(stack, C, D) /\ PathOK(bd, C, D, used)
      /\ C \in Seq(DescentsFrame) /\ D \in Seq(DFSFrame) /\ Len(C) = Len(D) + 1
      /\ Len(C) \in Nat \ {0} /\ Len(D) \in Nat /\ Top = C[Len(C)] /\ Top \in DescentsFrame
      /\ bd \in Board /\ bd[Top.cell] \in Seq(Letters) /\ Top.cell \in Cells
      /\ Top.j \in Nat /\ Top.j - 1 \in 0..Len(bd[Top.cell])
      /\ C # <<>>
  <2>1. Len(C) # 0
    BY <1>1, OnCall
  <2>2. C # <<>>
    <3>1. Len(<<>>) = 0
      OBVIOUS
    <3> QED
      BY <2>1, <3>1
  <2> QED
    BY <1>1, <2>2, OnCall
<1>3. /\ h \in DescentsFrame /\ h.cell = Top.cell /\ h.node = Top.node /\ h.len = Top.len
      /\ h.j = Top.j + 1
  <2>1. \A t \in DescentsFrame :
           LET x == [t EXCEPT !.j = @ + 1]
           IN  /\ x \in DescentsFrame /\ x.cell = t.cell /\ x.node = t.node
               /\ x.len = t.len /\ x.j = t.j + 1
    BY DEF DescentsFrame
  <2> QED
    BY <1>2, <2>1 DEF TriedTop
<1>4. Letter \in Letters
  <2>1. Top.j \in 1..Len(bd[Top.cell])
    <3>1. Len(bd[Top.cell]) \in Nat
      BY <1>2, LenProperties
    <3> QED
      BY <1>0, <1>2, <3>1
  <2> QED
    BY <1>2, <2>1, ElementOfSeq DEF Letter
<1>5. /\ g.cell = Top.cell /\ g.node = Append(Top.node, Letter)
      /\ g.len = Top.len + LetterLen(Letter) /\ g.todo = Visits[Top.cell]
  BY DEF NewSearch, DoDFS
<1>6. ASSUME StartsWord(Top.node, Letter) PROVE g \in DFSFrame
  <2>1. Visits[Top.cell] \in Seq(Cells)
    BY <1>2, VisitsAssumption DEF ListsNeighbours, Cells, NumCells
  <2>2. Top.len + LetterLen(Letter) \in Nat
    BY <1>2 DEF DescentsFrame, LetterLen
  <2> QED
    BY <1>2, <1>6, <2>1, <2>2 DEF NewSearch, DoDFS, DFSFrame, StartsWord
<1> HIDE DEF C, D, h, g
<1>7. IsStack(Replaced(stack, h), Replaced(C, h), D) /\ PathOK(bd, Replaced(C, h), D, used)
  BY <1>0, <1>2, <1>3, ChangeCall, TryPath
<1>8. Len(Replaced(C, h)) = Len(C)
  BY <1>2, <1>3, ReplacedIs
<1>9. used \in SUBSET Cells /\ Toggle(used, Top.cell) \in SUBSET Cells
  BY <1>1, <1>2 DEF TypeOK, Toggle
<1>10. ASSUME stack' \in Seq(Frames) PROVE TypeOK'
  BY <1>0, <1>1, <1>9, <1>10 DEF TypeOK, Frames
<1>11. CASE StartsWord(Top.node, Letter)
  <2>1. IsStack(stack', Replaced(C, h), Append(D, g))
    BY <1>0, <1>2, <1>6, <1>7, <1>8, <1>11, PushSearch
  <2>2. PathOK(bd', Replaced(C, h), Append(D, g), used')
    BY <1>0, <1>2, <1>3, <1>5, <1>6, <1>11, TryPath DEF Letter
  <2>3. TypeOK' /\ pc' = "search" /\ Len(Replaced(C, h)) # 0
    BY <1>0, <1>2, <1>8, <1>10, <2>1 DEF IsStack
  <2>4. PathInv' /\ Calls(stack') = Replaced(C, h) /\ Searches(stack') = Append(D, g)
    BY <2>1, <2>2, <2>3, SearchGoesOn
  <2> QED
    BY <1>3, <1>6, <1>11, <2>4 DEF C, D, h, g
<1>12. CASE ~StartsWord(Top.node, Letter)
  <2>1. IsStack(stack', Replaced(C, h), D) /\ PathOK(bd', Replaced(C, h), D, used')
    BY <1>0, <1>7, <1>12
  <2>2. TypeOK' /\ pc' = "search" /\ Len(Replaced(C, h)) # 0
    BY <1>0, <1>2, <1>8, <1>10, <2>1 DEF IsStack
  <2>3. PathInv' /\ Calls(stack') = Replaced(C, h) /\ Searches(stack') = D
    BY <2>1, <2>2, SearchGoesOn
  <2> QED
    BY <1>3, <1>12, <2>3 DEF C, D, h, g
<1> QED
  BY <1>11, <1>12

VisitedTop == [Top EXCEPT !.todo = Tail(@)]
NewCall == DoAllDescents(Top.todo[1], Top.len, Top.node)

\* Of two cells that follow each other on a path the code visits the second from
\* the first, and what it visits touches.
LEMMA VisitsTouch ==
    ASSUME NEW k \in Cells, NEW n \in Cells
    PROVE  /\ Adjacent(k, n) /\ n # k => n \in ToSet(Visits[k])
           /\ n \in ToSet(Visits[k]) => Adjacent(k, n)
<1>1. ToSet(Visits[k]) \cup {k} = {m \in Cells : Adjacent(k, m)}
  BY VisitsAssumption DEF ListsNeighbours, Cells, NumCells
<1> QED
  BY <1>1

\* VisitNeighbour, a turn of the loop of DoDFS: the search has one neighbour
\* less to go to, and a call is pushed for it when its cell is not in use.
LEMMA VisitSteps ==
    ASSUME PathInv, VisitNeighbour
    PROVE  /\ PathInv'
           /\ Searches(stack') = Replaced(Searches(stack), VisitedTop)
           /\ VisitedTop \in DFSFrame /\ Top.todo[1] \in Cells
           /\ ToSet(Top.todo) = {Top.todo[1]} \cup ToSet(VisitedTop.todo)
           /\ VisitedTop.cell = Top.cell /\ VisitedTop.node = Top.node
           /\ VisitedTop.score = Top.score
           /\ IF Top.todo[1] \in used
              THEN Calls(stack') = Calls(stack)
              ELSE /\ Calls(stack') = Append(Calls(stack), NewCall)
                   /\ NewCall \in DescentsFrame
<1> DEFINE C == Calls(stack)
           D == Searches(stack)
           h == VisitedTop
           f == NewCall
           n == Top.todo[1]
<1>0. /\ Top.todo # <<>>
      /\ UNCHANGED <<pc, bd, used, marks, runs, details, bailout, root>>
      /\ stack' = IF n \in used THEN Replaced(stack, h) ELSE Append(Replaced(stack, h), f)
  BY DEF VisitNeighbour, Replaced, Pop, VisitedTop, NewCall
<1>1. PathInv /\ IsTop("dfs") /\ TypeOK
  BY DEF VisitNeighbour, PathInv
<1>2. /\ pc = "search" /\ IsStack(stack, C, D) /\ PathOK(bd, C, D, used)
      /\ C \in Seq(DescentsFrame) /\ D \in Seq(DFSFrame) /\ Len(C) = Len(D) /\ D # <<>>
      /\ Len(D) \in Nat \ {0} /\ Top = D[Len(D)] /\ Top \in DFSFrame
      /\ bd \in Board /\ Top.cell \in Cells
      /\ ToSet(Top.todo) \subseteq ToSet(Visits[Top.cell])
  BY <1>1, OnSearch DEF SearchFits
<1>3. /\ Top.todo \in Seq(Cells) /\ n \in Cells /\ Tail(Top.todo) \in Seq(Cells)
      /\ ToSet(Top.todo) = {n} \cup ToSet(Tail(Top.todo))
  <2>1. Top.todo \in Seq(Cells)
    BY <1>2 DEF DFSFrame
  <2>2. Head(Top.todo) = n /\ n \in Cells /\ Tail(Top.todo) \in Seq(Cells)
    BY <1>0, <2>1, HeadTailProperties
  <2>3. \A S : \A q \in Seq(S) : q # <<>> => ToSet(q) = {Head(q)} \cup ToSet(Tail(q))
    BY HeadAndTail
  <2> QED
    BY <1>0, <2>1, <2>2, <2>3
<1>4. /\ h \in DFSFrame /\ h.cell = Top.cell /\ h.node = Top.node /\ h.len = Top.len
      /\ h.todo = Tail(Top.todo) /\ h.score = Top.score
  <2>1. \A t \in DFSFrame : Tail(t.todo) \in Seq(Cells) =>
           LET x == [t EXCEPT !.todo = Tail(@)]
           IN  /\ x \in DFSFrame /\ x.cell = t.cell /\ x.node = t.node
               /\ x.len = t.len /\ x.todo = Tail(t.todo) /\ x.score = t.score
    BY DEF DFSFrame
  <2> QED
    BY <1>2, <1>3, <2>1 DEF VisitedTop
<1>5. f = DoAllDescents(n, Top.len, Top.node) /\ f \in DescentsFrame
  BY <1>2, <1>3 DEF NewCall, DoAllDescents, DescentsFrame, DFSFrame
<1>6. Adjacent(Top.cell, n)
  BY <1>2, <1>3, VisitsTouch
<1> HIDE DEF C, D, h, f, n
<1>7. IsStack(Replaced(stack, h), C, Replaced(D, h)) /\ PathOK(bd, C, Replaced(D, h), used)
  <2>1. ToSet(h.todo) \subseteq ToSet(Top.todo)
    BY <1>3, <1>4
  <2> QED
    BY <1>2, <1>4, <2>1, ChangeSearch, VisitPath
<1>8. Len(Replaced(D, h)) = Len(D)
  BY <1>2, <1>4, ReplacedIs
<1>9. ASSUME stack' \in Seq(Frames) PROVE TypeOK'
  BY <1>0, <1>1, <1>9 DEF TypeOK, Frames
<1>10. CASE n \in used
  <2>1. IsStack(stack', C, Replaced(D, h)) /\ PathOK(bd', C, Replaced(D, h), used')
    BY <1>0, <1>7, <1>10
  <2>2. TypeOK' /\ pc' = "search" /\ Len(C) # 0
    BY <1>0, <1>2, <1>9, <2>1 DEF IsStack
  <2>3. PathInv' /\ Calls(stack') = C /\ Searches(stack') = Replaced(D, h)
    BY <2>1, <2>2, SearchGoesOn
  <2> QED
    BY <1>3, <1>4, <1>10, <2>3 DEF C, D, h, n
<1>11. CASE n \notin used
  <2>1. IsStack(stack', Append(C, f), Replaced(D, h))
    BY <1>0, <1>2, <1>5, <1>7, <1>8, <1>11, PushCall
  <2>2. PathOK(bd', Append(C, f), Replaced(D, h), used')
    <3>1. ToSet(h.todo) \subseteq ToSet(Top.todo)
      BY <1>3, <1>4
    <3>2. PathOK(bd, Append(C, DoAllDescents(n, Top.len, Top.node)), Replaced(D, h), used)
      BY <1>2, <1>3, <1>4, <1>6, <1>11, <3>1, VisitPath
    <3> QED
      BY <1>0, <1>5, <3>2
  <2>3. TypeOK' /\ pc' = "search" /\ Len(Append(C, f)) # 0
    <3>1. Len(Append(C, f)) = Len(C) + 1 /\ Len(C) \in Nat
      BY <1>2, <1>5, AppendProperties, LenProperties
    <3> QED
      BY <1>0, <1>2, <1>9, <2>1, <3>1 DEF IsStack
  <2>4. PathInv' /\ Calls(stack') = Append(C, f) /\ Searches(stack') = Replaced(D, h)
    BY <2>1, <2>2, <2>3, SearchGoesOn
  <2> QED
    BY <1>3, <1>4, <1>5, <1>11, <2>4 DEF C, D, h, f, n
<1> QED
  BY <1>10, <1>11

\* The points of the word that a call of DoDFS has reached.
Points == IF IsWord(Top.node) THEN kWordScores[Top.len] ELSE 0
ScoredBelow == [Below EXCEPT !.max_score = Larger(Top.score + Points, @)]

\* The points that a search adds at its node are the score of the node's word:
\* len is that word's length, a q counting twice.
LEMMA PointsAre ==
    ASSUME PathInv, IsTop("dfs")
    PROVE  /\ Points \in Nat
           /\ IsWord(Top.node) => Top.node \in Words /\ Points = WordScore(Top.node)
<1>1. Top.len = WordLen(Top.node)
  <2> DEFINE D == Searches(stack)
  <2>1. Top = D[Len(D)] /\ SearchFits(bd, Calls(stack), D, Len(D))
    BY OnSearch
  <2> QED
    BY <2>1 DEF SearchFits
<1>2. IsWord(Top.node) => Points = WordScore(Top.node)
  BY <1>1 DEF Points, WordScore
<1> QED
  BY <1>2, WordScoreType DEF IsWord, Points

\* EndDFS, the end of DoDFS: the call below takes the search's score if it is
\* more than its best so far.
LEMMA EndDFSSteps ==
    ASSUME PathInv, EndDFS
    PROVE  /\ PathInv'
           /\ Calls(stack') = Replaced(Calls(stack), ScoredBelow)
           /\ Searches(stack') = Front(Searches(stack))
           /\ Below = Calls(stack)[Len(Calls(stack))] /\ Below \in DescentsFrame
           /\ ScoredBelow \in DescentsFrame /\ ScoredBelow.cell = Below.cell
           /\ ScoredBelow.j = Below.j
           /\ ScoredBelow.max_score = Larger(Top.score + Points, Below.max_score)
<1> DEFINE C == Calls(stack)
           D == Searches(stack)
           h == ScoredBelow
<1>0. /\ UNCHANGED <<pc, bd, runs, bailout, root>>
      /\ stack' = Returned(stack, h)
      /\ used' = Toggle(used, Top.cell)
      /\ IF Fresh(Top.node)
         THEN /\ details' = [details EXCEPT !.sum_union = @ + Points]
              /\ marks' = [marks EXCEPT ![Top.node] = runs]
         ELSE UNCHANGED <<details, marks>>
  BY DEF EndDFS, Returned, Return, ScoredBelow, Points
<1>1. PathInv /\ IsTop("dfs") /\ TypeOK
  BY DEF EndDFS, PathInv
<1>2. /\ pc = "search" /\ IsStack(stack, C, D) /\ PathOK(bd, C, D, used)
      /\ C \in Seq(DescentsFrame) /\ D \in Seq(DFSFrame) /\ Len(C) = Len(D) /\ D # <<>>
      /\ Len(D) \in Nat \ {0} /\ Top = D[Len(D)] /\ Top \in DFSFrame
      /\ bd \in Board /\ Top.cell \in Cells
  BY <1>1, OnSearch
<1>3. Below = C[Len(C)] /\ Below \in DescentsFrame
  BY <1>2, ReturnSearch DEF Below
<1>4. Points \in Nat
  BY <1>1, PointsAre
<1>5. /\ h \in DescentsFrame /\ h.cell = Below.cell /\ h.node = Below.node
      /\ h.len = Below.len /\ h.j = Below.j
      /\ h.max_score = Larger(Top.score + Points, Below.max_score)
  <2>1. Top.score + Points \in Nat
    BY <1>2, <1>4 DEF DFSFrame
  <2>2. \A t \in DescentsFrame : \A v \in Nat :
           LET x == [t EXCEPT !.max_score = Larger(v, @)]
           IN  /\ x \in DescentsFrame /\ x.cell = t.cell /\ x.node = t.node
               /\ x.len = t.len /\ x.j = t.j /\ x.max_score = Larger(v, t.max_score)
    BY DEF DescentsFrame, Larger
  <2> QED
    BY <1>3, <2>1, <2>2 DEF ScoredBelow
<1> HIDE DEF C, D, h
<1>6. IsStack(stack', Replaced(C, h), Front(D))
  BY <1>0, <1>2, <1>5, ReturnSearch
<1>7. PathOK(bd', Replaced(C, h), Front(D), used')
  BY <1>0, <1>2, <1>3, <1>5, EndSearchPath
<1>8. TypeOK'
  <2>1. stack' \in Seq(Frames)
    BY <1>6 DEF IsStack
  <2>2. used' \in SUBSET Cells
    BY <1>0, <1>1, <1>2 DEF TypeOK, Toggle
  <2>3. runs \in 0..runs
    BY <1>1, CallerAssumption DEF TypeOK
  <2>4. marks' \in [Words -> 0..runs']
    BY <1>0, <1>1, <2>3 DEF TypeOK
  <2>5. details' \in [max_nomark : Nat, sum_union : Nat]
    BY <1>0, <1>1, <1>4 DEF TypeOK
  <2> QED
    BY <1>0, <1>1, <2>1, <2>2, <2>4, <2>5 DEF TypeOK, Frames
<1>9. pc' = "search" /\ Len(Replaced(C, h)) # 0
  <2>1. C # <<>>
    <3>1. Len(<<>>) = 0
      OBVIOUS
    <3> QED
      BY <1>2, <3>1
  <2>2. Len(Replaced(C, h)) = Len(C)
    BY <1>2, <1>5, <2>1, ReplacedIs
  <2> QED
    BY <1>0, <1>2, <2>2
<1>10. PathInv' /\ Calls(stack') = Replaced(C, h) /\ Searches(stack') = Front(D)
  BY <1>6, <1>7, <1>8, <1>9, SearchGoesOn
<1> QED
  BY <1>3, <1>5, <1>10 DEF C, D, h

ScoredSearch == [Below EXCEPT !.score = @ + Top.max_score]

\* EndDescents, the end of DoAllDescents: the search below adds the call's best
\* score to its own.
LEMMA EndDescentsSteps ==
    ASSUME PathInv, EndDescents
    PROVE  /\ PathInv'
           /\ Calls(stack') = Front(Calls(stack))
           /\ Searches(stack') = Replaced(Searches(stack), ScoredSearch)
           /\ Searches(stack) # <<>>
           /\ Below = Searches(stack)[Len(Searches(stack))] /\ Below \in DFSFrame
           /\ ScoredSearch \in DFSFrame /\ ScoredSearch.cell = Below.cell
           /\ ScoredSearch.node = Below.node /\ ScoredSearch.todo = Below.todo
           /\ ScoredSearch.score = Below.score + Top.max_score
<1> DEFINE C == Calls(stack)
           D == Searches(stack)
           h == ScoredSearch
<1>0. /\ UNCHANGED <<pc, bd, used, marks, runs, details, bailout, root>>
      /\ stack' = Returned(stack, h) /\ Len(stack) > 1
  BY DEF EndDescents, Returned, Return, ScoredSearch
<1>1. PathInv /\ IsTop("descents") /\ TypeOK
  BY DEF EndDescents, PathInv
<1>2. /\ pc = "search" /\ IsStack(stack, C, D) /\ PathOK(bd, C, D, used)
      /\ C \in Seq(DescentsFrame) /\ D \in Seq(DFSFrame) /\ Len(C) = Len(D) + 1
      /\ Top \in DescentsFrame /\ bd \in Board
  BY <1>1, OnCall
<1>3. D # <<>> /\ Len(D) \in Nat \ {0} /\ Below = D[Len(D)] /\ Below \in DFSFrame
  BY <1>0, <1>2, ReturnCall DEF Below
<1>4. /\ h \in DFSFrame /\ h.cell = Below.cell /\ h.node = Below.node
      /\ h.len = Below.len /\ h.todo = Below.todo /\ h.score = Below.score + Top.max_score
  <2>1. Top.max_score \in Nat
    BY <1>2 DEF DescentsFrame
  <2>2. \A t \in DFSFrame : \A v \in Nat :
           LET x == [t EXCEPT !.score = @ + v]
           IN  /\ x \in DFSFrame /\ x.cell = t.cell /\ x.node = t.node
               /\ x.len = t.len /\ x.todo = t.todo /\ x.score = t.score + v
    BY DEF DFSFrame
  <2> QED
    BY <1>3, <2>1, <2>2 DEF ScoredSearch
<1> HIDE DEF C, D, h
<1>5. IsStack(stack', Front(C), Replaced(D, h))
  BY <1>0, <1>2, <1>4, ReturnCall
<1>6. PathOK(bd', Front(C), Replaced(D, h), used')
  BY <1>0, <1>2, <1>3, <1>4, EndCallPath
<1>7. TypeOK'
  BY <1>0, <1>1, <1>5 DEF TypeOK, Frames, IsStack
<1>8. pc' = "search" /\ Len(Front(C)) # 0
  <2>1. C # <<>>
    <3>1. Len(<<>>) = 0
      OBVIOUS
    <3> QED
      BY <1>2, <1>3, <3>1
  <2>2. Len(Front(C)) = Len(C) - 1
    BY <1>2, <2>1, AllButLast DEF Front
  <2> QED
    BY <1>0, <1>2, <1>3, <2>2
<1>9. PathInv' /\ Calls(stack') = Front(C) /\ Searches(stack') = Replaced(D, h)
  BY <1>5, <1>6, <1>7, <1>8, SearchGoesOn
<1> QED
  BY <1>3, <1>4, <1>9 DEF C, D, h

\* EndRoot, the end of a turn of the loop of UpperBound: max_nomark grows by
\* what the cell's call returned, and the next cell's call starts, or the run
\* is over.
LEMMA EndRootSteps ==
    ASSUME PathInv, EndRoot
    PROVE  /\ PathInv'
           /\ Searches(stack) = <<>> /\ Len(Calls(stack)) = 1 /\ Top = Calls(stack)[1]
           /\ Top \in DescentsFrame
           /\ details' = [details EXCEPT !.max_nomark = @ + Top.max_score]
           /\ root < NumCells => root + 1 \in Cells
           /\ pc' = "search" => /\ root < NumCells /\ root' = root + 1
                                /\ Calls(stack') = <<DoAllDescents(root + 1, 0, <<>>)>>
                                /\ Searches(stack') = <<>>
<1> DEFINE C == Calls(stack)
           D == Searches(stack)
           k == root + 1
<1>0. /\ UNCHANGED <<bd, used, marks, runs, bailout>>
      /\ Len(stack) = 1
      /\ details' = [details EXCEPT !.max_nomark = @ + Top.max_score]
      /\ \/ pc' = "done" /\ stack' = <<>> /\ UNCHANGED root
         \/ root # NumCells /\ root' = k /\ pc' = pc
            /\ stack' = <<DoAllDescents(k, 0, <<>>)>>
  BY DEF EndRoot
<1>1. PathInv /\ IsTop("descents") /\ TypeOK
  BY DEF EndRoot, PathInv
<1>2. /\ pc = "search" /\ IsStack(stack, C, D) /\ PathOK(bd, C, D, used)
      /\ C \in Seq(DescentsFrame) /\ D \in Seq(DFSFrame) /\ Len(C) = Len(D) + 1
      /\ Top \in DescentsFrame /\ bd \in Board /\ Top = C[Len(C)]
      /\ Len(D) \in Nat
  BY <1>1, OnCall
<1>3. D = <<>> /\ Len(C) = 1
  <2>1. Len(stack) = Len(C) + Len(D)
    BY <1>2 DEF IsStack
  <2>2. Len(D) = 0 /\ Len(C) = 1
    BY <1>0, <1>2, <2>1
  <2> QED
    BY <1>2, <2>2, EmptySeq
<1>4. used = {}
  BY <1>2, <1>3 DEF PathOK, OnPath
<1>5. root # NumCells => root < NumCells /\ k \in Cells
  <2>1. \A m, n \in Nat : m \in 1..n /\ m # n => m < n /\ m + 1 \in 1..n
    OBVIOUS
  <2>2. root \in 1..NumCells /\ NumCells \in Nat /\ root \in Nat
    BY <1>1, CellsFinite DEF TypeOK, Cells
  <2> QED
    BY <2>1, <2>2 DEF Cells
<1>6. details' \in [max_nomark : Nat, sum_union : Nat]
  <2>1. Top.max_score \in Nat
    BY <1>2 DEF DescentsFrame
  <2> QED
    BY <1>0, <1>1, <2>1 DEF TypeOK
<1> HIDE DEF C, D, k
<1>7. ASSUME stack' \in Seq(Frames), root' \in Cells, pc' \in {"search", "done"} PROVE TypeOK'
  BY <1>0, <1>1, <1>6, <1>7 DEF TypeOK, Frames
<1>8. CASE pc' = "done" /\ stack' = <<>> /\ UNCHANGED root
  <2>1. TypeOK'
    BY <1>1, <1>7, <1>8, EmptySeq DEF TypeOK
  <2> QED
    BY <1>0, <1>2, <1>3, <1>4, <1>5, <1>8, <2>1, CellsFinite DEF PathInv, TypeOK, C, D, k
<1>9. CASE root # NumCells /\ root' = k /\ pc' = pc /\ stack' = <<DoAllDescents(k, 0, <<>>)>>
  <2> DEFINE f == DoAllDescents(k, 0, <<>>)
  <2>1. /\ IsStack(<<f>>, <<f>>, <<>>) /\ PathOK(bd, <<f>>, <<>>, {}) /\ Len(<<f>>) = 1
        /\ f \in DescentsFrame
    BY <1>2, <1>5, <1>9, StartPath
  <2> DEFINE F == <<f>>
             e == <<>>
  <2>2. /\ stack' = F /\ IsStack(F, F, e) /\ PathOK(bd, F, e, {}) /\ Len(F) # 0
    BY <1>9, <2>1
  <2> HIDE DEF f, F, e
  <2>3. IsStack(stack', F, e) /\ PathOK(bd', F, e, used')
    BY <1>0, <1>4, <2>2
  <2>4. TypeOK' /\ pc' = "search"
    BY <1>2, <1>5, <1>7, <1>9, <2>3 DEF IsStack
  <2>5. PathInv' /\ Calls(stack') = F /\ Searches(stack') = e
    BY <2>2, <2>3, <2>4, SearchGoesOn
  <2> QED
    BY <1>0, <1>2, <1>3, <1>5, <1>9, <2>5 DEF C, D, F, e, f, k
<1> QED
  BY <1>0, <1>8, <1>9

\* UpperBound starts with a call on the first cell and an empty path.
LEMMA UpperBoundSteps ==
    ASSUME PathInv, UpperBound
    PROVE  /\ PathInv'
           /\ Calls(stack') = <<DoAllDescents(1, 0, <<>>)>> /\ Searches(stack') = <<>>
<1> DEFINE f == DoAllDescents(1, 0, <<>>)
           F == <<f>>
           e == <<>>
<1>0. /\ pc # "search" /\ runs < MaxRuns /\ bailout' \in Bailouts
      /\ details' = [max_nomark |-> 0, sum_union |-> 0]
      /\ used' = {} /\ runs' = runs + 1 /\ root' = 1 /\ stack' = F /\ pc' = "search"
      /\ UNCHANGED <<bd, marks>>
  BY DEF UpperBound
<1>1. TypeOK /\ bd \in Board
  BY DEF PathInv, TypeOK
<1>2. 1 \in Cells
  BY CellsFinite
<1>3. IsStack(F, F, e) /\ PathOK(bd, F, e, {}) /\ Len(F) # 0
  BY <1>1, <1>2, StartPath
<1> HIDE DEF f, F, e
<1>4. TypeOK'
  <2>1. /\ runs \in Nat /\ runs' \in 0..MaxRuns
        /\ \A n \in 0..runs : n \in 0..runs'
    BY <1>0, <1>1, CallerAssumption DEF TypeOK
  <2>2. marks' \in [Words -> 0..runs']
    <3>1. \A w \in Words : marks[w] \in 0..runs'
      BY <1>1, <2>1 DEF TypeOK
    <3>2. marks \in [Words -> 0..runs]
      BY <1>1 DEF TypeOK
    <3> QED
      BY <1>0, <3>1, <3>2
  <2>3. stack' \in Seq(Frames)
    BY <1>0, <1>3 DEF IsStack
  <2> QED
    BY <1>0, <1>1, <1>2, <2>1, <2>2, <2>3 DEF TypeOK, Frames
<1>5. IsStack(stack', F, e) /\ PathOK(bd', F, e, used')
  BY <1>0, <1>3
<1>6. PathInv' /\ Calls(stack') = F /\ Searches(stack') = e
  BY <1>0, <1>3, <1>4, <1>5, SearchGoesOn
<1> QED
  BY <1>6 DEF F, f, e

\* Before any run there is no path.
LEMMA InitPath == Init => PathInv
<1> SUFFICES ASSUME Init PROVE PathInv
  OBVIOUS
<1>1. /\ pc = "idle" /\ bd \in Boards /\ used = {} /\ marks = [w \in Words |-> 0]
      /\ runs = 0 /\ details = [max_nomark |-> 0, sum_union |-> 0] /\ bailout = 0
      /\ root = 1 /\ stack = <<>>
  BY DEF Init
<1>2. 1 \in Cells /\ 0 \in 0..MaxRuns /\ 0 \in 0..0
  BY CellsFinite, CallerAssumption
<1>3. stack \in Seq(DescentsFrame \cup DFSFrame)
  BY <1>1, EmptySeq
<1>4. TypeOK
  BY <1>1, <1>2, <1>3, CallerAssumption DEF TypeOK
<1> QED
  BY <1>1, <1>4 DEF PathInv

\* PathInv is inductive by itself.
LEMMA NextPath == PathInv /\ [Next]_vars => PathInv'
<1> SUFFICES ASSUME PathInv, [Next]_vars PROVE PathInv'
  OBVIOUS
<1>1. CASE SetBoard
  <2>1. /\ pc # "search" /\ bd' \in Boards /\ pc' = "idle"
        /\ UNCHANGED <<used, marks, runs, details, bailout, root, stack>>
    BY <1>1 DEF SetBoard
  <2>2. TypeOK'
    BY <2>1, CallerAssumption DEF PathInv, TypeOK
  <2> QED
    BY <2>1, <2>2 DEF PathInv
<1>2. CASE UpperBound
  BY <1>2, UpperBoundSteps
<1>3. CASE TryLetter
  BY <1>3, TrySteps
<1>4. CASE VisitNeighbour
  BY <1>4, VisitSteps
<1>5. CASE EndDFS
  BY <1>5, EndDFSSteps
<1>6. CASE EndDescents
  BY <1>6, EndDescentsSteps
<1>7. CASE EndRoot
  BY <1>7, EndRootSteps
<1>8. CASE UNCHANGED vars
  BY <1>8 DEF vars, PathInv, TypeOK
<1> QED
  BY <1>1, <1>2, <1>3, <1>4, <1>5, <1>6, <1>7, <1>8 DEF Next, Search

\* What n different values count to.
LEMMA CountDistinct ==
    ASSUME NEW n \in Nat, NEW f, \A i, j \in 1..n : f[i] = f[j] => i = j
    PROVE  Cardinality({f[i] : i \in 1..n}) = n
<1> DEFINE S == {f[i] : i \in 1..n}
           g == [i \in 1..n |-> f[i]]
<1>1. g \in Bijection(1..n, S)
  <2>1. g \in [1..n -> S] /\ \A i \in 1..n : g[i] = f[i]
    OBVIOUS
  <2>2. \A t \in S : \E i \in 1..n : f[i] = t
    OBVIOUS
  <2> HIDE DEF g, S
  <2>3. \A t \in S : \E i \in 1..n : g[i] = t
    BY <2>1, <2>2
  <2>4. \A i, j \in 1..n : g[i] = g[j] => i = j
    BY <2>1
  <2>5. g \in Injection(1..n, S)
    BY ONLY <2>1, <2>4 DEF Injection, IsInjective
  <2>6. g \in Surjection(1..n, S)
    BY ONLY <2>1, <2>3 DEF Surjection
  <2> QED
    BY <2>5, <2>6 DEF Bijection
<1>2. ExistsBijection(1..n, S)
  BY <1>1 DEF ExistsBijection
<1> HIDE DEF S
<1>3. Cardinality(S) = n
  BY <1>2, FS_CountingElements
<1> QED
  BY <1>3 DEF S

\* The first calls of DoDFS are every second one of the stack.
LEMMA SearchPlaces ==
    ASSUME NEW st, NEW C, NEW D, IsStack(st, C, D)
    PROVE  /\ Len(D) \in Nat
           /\ {n \in DOMAIN st : st[n].kind = "dfs"} = {2 * m : m \in 1..Len(D)}
           /\ \A m \in 1..Len(D) : st[2 * m] = D[m]
<1> DEFINE c == Len(C)
           d == Len(D)
<1>1. /\ c \in Nat /\ d \in Nat /\ DOMAIN st = 1..Len(st) /\ Len(st) = c + d
      /\ c = d \/ c = d + 1
      /\ \A m \in 1..c : st[2 * m - 1] = C[m] /\ C[m] \in DescentsFrame
      /\ \A m \in 1..d : st[2 * m] = D[m] /\ D[m] \in DFSFrame
  BY LenProperties, ElementOfSeq DEF IsStack
<1> HIDE DEF c, d
<1>2. "descents" # "dfs"
  OBVIOUS
<1>3. ASSUME NEW n \in 1..(c + d), st[n].kind = "dfs" PROVE \E m \in 1..d : n = 2 * m
  <2>1. (\E m \in 1..c : n = 2 * m - 1) \/ (\E m \in 1..d : n = 2 * m)
    BY <1>1, Parity
  <2>2. ASSUME NEW m \in 1..c, n = 2 * m - 1 PROVE FALSE
    <3>1. st[n] = C[m] /\ C[m] \in DescentsFrame
      BY <1>1, <2>2
    <3>2. st[n].kind = "descents"
      BY <3>1 DEF DescentsFrame
    <3> QED
      BY <1>2, <1>3, <3>2
  <2> QED
    BY <2>1, <2>2
<1>4. ASSUME NEW m \in 1..d PROVE 2 * m \in 1..(c + d) /\ st[2 * m].kind = "dfs"
  <2>1. st[2 * m] = D[m] /\ D[m] \in DFSFrame
    BY <1>1
  <2>2. D[m].kind = "dfs"
    BY <2>1 DEF DFSFrame
  <2>3. 2 * m \in 1..(c + d)
    BY <1>1
  <2> QED
    BY <2>1, <2>2, <2>3
<1> QED
  BY <1>1, <1>3, <1>4 DEF d

\* What PathTracked says of the stack as a whole, counting the calls of each
\* cell and reading each node against its path, follows from the frames'
\* relation to their neighbours that PathInv states.
LEMMA PathIsTracked == PathInv => PathTracked
<1> SUFFICES ASSUME PathInv PROVE UsedIsPath /\ NodeIsPath
  BY DEF PathTracked, PathInv
<1>1. CASE pc # "search"
  <2>1. PathCalls = {}
    BY <1>1 DEF PathCalls, PathInv
  <2> QED
    BY <1>1, <2>1, FS_EmptySet DEF PathInv, UsedIsPath, NodeIsPath
<1>2. CASE pc = "search"
  <2> DEFINE C == Calls(stack)
             D == Searches(stack)
             d == Len(D)
  <2>1. /\ IsStack(stack, C, D) /\ PathOK(bd, C, D, used)
    BY <1>2 DEF PathInv
  <2> HIDE DEF C, D
  <2>2. /\ d \in Nat /\ PathCalls = {2 * m : m \in 1..d}
        /\ \A m \in 1..d : stack[2 * m] = D[m]
    BY <2>1, SearchPlaces DEF PathCalls
  <2>3. /\ Len(C) \in Nat /\ d <= Len(C) /\ used = OnPath(D, d)
        /\ \A m \in 1..d : SearchFits(bd, C, D, m)
    <3>1. Len(C) \in Nat /\ (Len(C) = d \/ Len(C) = d + 1)
      BY <2>1, LenProperties DEF IsStack
    <3>2. used = OnPath(D, d) /\ \A m \in 1..d : SearchFits(bd, C, D, m)
      BY <2>1 DEF PathOK
    <3> QED
      BY <2>2, <3>1, <3>2
  <2>4. \A i, n \in 1..d : D[i].cell = D[n].cell => i = n
    BY <2>1, <2>2, <2>3, PathApart
  <2> HIDE DEF d
  <2>5. ASSUME NEW m \in 0..d PROVE Cardinality({2 * i : i \in 1..m}) = m
    <3> DEFINE f == [i \in 1..m |-> 2 * i]
    <3>1. m \in Nat /\ \A i, j \in 1..m : f[i] = f[j] => i = j
      BY <2>2
    <3>2. {f[i] : i \in 1..m} = {2 * i : i \in 1..m}
      OBVIOUS
    <3> HIDE DEF f
    <3>3. Cardinality({f[i] : i \in 1..m}) = m
      BY <3>1, CountDistinct
    <3> QED
      BY <3>2, <3>3
  <2>6. UsedIsPath
    <3>1. {stack[n].cell : n \in PathCalls} = used
      <4>1. ASSUME NEW x \in {stack[n].cell : n \in PathCalls} PROVE x \in used
        <5>1. PICK n \in PathCalls : x = stack[n].cell
          OBVIOUS
        <5>2. PICK m \in 1..d : n = 2 * m
          BY <2>2
        <5>3. x = D[m].cell
          BY <2>2, <5>1, <5>2
        <5> QED
          BY <2>3, <5>3 DEF OnPath
      <4>2. ASSUME NEW x \in used PROVE x \in {stack[n].cell : n \in PathCalls}
        <5>1. PICK m \in 1..d : x = D[m].cell
          BY <2>3 DEF OnPath
        <5>2. 2 * m \in PathCalls /\ x = stack[2 * m].cell
          BY <2>2, <5>1
        <5> QED
          BY <5>2
      <4> QED
        BY <4>1, <4>2
    <3> DEFINE f == [i \in 1..d |-> D[i].cell]
    <3>2. \A i, j \in 1..d : f[i] = f[j] => i = j
      BY <2>4
    <3>3. used = {f[i] : i \in 1..d}
      BY <2>3 DEF OnPath
    <3> HIDE DEF f
    <3>4. Cardinality(used) = d
      BY SMTT(20), <2>2, <3>2, <3>3, CountDistinct
    <3>5. Cardinality(PathCalls) = d
      <4>1. d \in 0..d
        BY <2>2
      <4> QED
        BY <2>2, <2>5, <4>1
    <3> QED
      BY <3>1, <3>4, <3>5 DEF UsedIsPath
  <2>7. ASSUME NEW n \in PathCalls
        PROVE  /\ Len(stack[n].node) = Cardinality({i \in PathCalls : i <= n})
               /\ Last(stack[n].node) \in ToSet(bd[stack[n].cell])
               /\ stack[n].len = WordLen(stack[n].node)
    <3>1. PICK m \in 1..d : n = 2 * m
      BY <2>2
    <3>2. stack[n] = D[m] /\ SearchFits(bd, C, D, m)
      BY <2>2, <2>3, <3>1
    <3>3. m \in 0..d /\ \A i \in 1..d : 2 * i <= 2 * m <=> i \in 1..m
      BY <2>2
    <3>4. \A i \in 1..m : i \in 1..d
      BY <2>2
    <3>5. {i \in PathCalls : i <= n} = {2 * i : i \in 1..m}
      BY <2>2, <3>1, <3>3, <3>4
    <3>6. Cardinality({i \in PathCalls : i <= n}) = m
      BY <2>5, <3>3, <3>5
    <3>7. Len(D[m].node) = m /\ D[m].node[m] \in ToSet(bd[D[m].cell])
          /\ D[m].len = WordLen(D[m].node)
      <4>1. m \in 1..m
        BY <2>2
      <4> QED
        BY <3>2, <4>1 DEF SearchFits
    <3> QED
      BY <3>2, <3>6, <3>7 DEF Last
  <2>8. NodeIsPath
    BY <2>7 DEF NodeIsPath
  <2> QED
    BY <2>6, <2>8
<1> QED
  BY <1>1, <1>2

\* In every state the bits of used_ are the cells of the path, each once, every
\* call of DoDFS is on a node that spells letters of its cells, and the length
\* that indexes kWordScores is that of the node's word, a q counting twice
\* (3x3, 3x4 and 4x4/ibuckets.cc).
THEOREM PathIsInUse == Spec => []PathTracked
<1>1. Init => PathInv
  BY InitPath
<1>2. PathInv /\ [Next]_vars => PathInv'
  BY NextPath
<1>3. PathInv => PathTracked
  BY PathIsTracked
<1> QED
  BY <1>1, <1>2, <1>3, PTL DEF Spec

-----------------------------------------------------------------------------
(* The marks.                                                              *)

\* The words that this run has marked.
Marked == {w \in Words : marks[w] = runs}

UnionInv ==
    pc # "idle" => /\ runs > 0
                   /\ details.sum_union = MapThenSumSet(WordScore, Marked)

\* A run starts without marks.
LEMMA StartMarks ==
    ASSUME PathInv, UpperBound
    PROVE  Marked' = {} /\ UnionInv'
<1>1. /\ TypeOK /\ runs' = runs + 1 /\ marks' = marks
      /\ details' = [max_nomark |-> 0, sum_union |-> 0]
  BY DEF PathInv, UpperBound
<1>2. runs \in Nat /\ \A w \in Words : marks[w] \in 0..runs
  BY <1>1, CallerAssumption DEF TypeOK
<1>3. \A m \in 0..runs : m # runs + 1
  BY <1>2
<1>4. Marked' = {}
  BY <1>1, <1>2, <1>3 DEF Marked
<1>5. runs' > 0 /\ details'.sum_union = 0
  BY <1>1, <1>2
<1> QED
  BY <1>4, <1>5, WordSumAdd DEF UnionInv

\* What DoDFS marks when it returns is its word.
LEMMA EndDFSMarks ==
    ASSUME PathInv, EndDFS
    PROVE  /\ Marked \subseteq Marked'
           /\ IsWord(Top.node) => Top.node \in Marked'
           /\ \A w \in Marked' : w \in Marked \/ (IsWord(Top.node) /\ w = Top.node)
           /\ UnionInv => UnionInv'
           /\ details'.max_nomark = details.max_nomark
<1>0. /\ UNCHANGED <<pc, runs>>
      /\ IF Fresh(Top.node)
         THEN /\ details' = [details EXCEPT !.sum_union = @ + Points]
              /\ marks' = [marks EXCEPT ![Top.node] = runs]
         ELSE UNCHANGED <<details, marks>>
  BY DEF EndDFS, Points
<1>1. /\ TypeOK /\ Points \in Nat
      /\ IsWord(Top.node) => Top.node \in Words /\ Points = WordScore(Top.node)
  BY PointsAre DEF EndDFS, PathInv
<1>2. CASE Fresh(Top.node)
  <2>1. /\ Top.node \in Words /\ marks[Top.node] # runs /\ IsWord(Top.node)
        /\ details' = [details EXCEPT !.sum_union = @ + Points]
        /\ marks' = [marks EXCEPT ![Top.node] = runs]
    BY <1>0, <1>1, <1>2 DEF Fresh
  <2>2. Marked' = Marked \cup {Top.node}
    BY <1>0, <1>1, <2>1 DEF Marked, TypeOK
  <2>3. Top.node \notin Marked /\ Marked \in SUBSET Words
    BY <2>1 DEF Marked
  <2>4. /\ details'.sum_union = details.sum_union + Points
        /\ details'.max_nomark = details.max_nomark
    BY <1>1, <2>1 DEF TypeOK
  <2>5. MapThenSumSet(WordScore, Marked \cup {Top.node})
            = MapThenSumSet(WordScore, Marked) + WordScore(Top.node)
    BY <2>1, <2>3, WordSumAdd
  <2>6. ASSUME UnionInv PROVE UnionInv'
    <3>1. pc = "search" /\ runs' = runs
      BY <1>0 DEF EndDFS, IsTop
    <3>2. runs > 0 /\ details.sum_union = MapThenSumSet(WordScore, Marked)
      BY <2>6, <3>1 DEF UnionInv
    <3>3. details'.sum_union = MapThenSumSet(WordScore, Marked')
      BY <1>1, <2>1, <2>2, <2>4, <2>5, <3>2
    <3> QED
      BY <3>1, <3>2, <3>3 DEF UnionInv
  <2>7. \A w \in Marked' : w \in Marked \/ (IsWord(Top.node) /\ w = Top.node)
    BY <2>1, <2>2
  <2>8. Top.node \in Marked'
    BY <2>2
  <2> QED
    BY <2>2, <2>4, <2>6, <2>7, <2>8
<1>3. CASE ~Fresh(Top.node)
  <2>1. UNCHANGED <<details, marks>>
    BY <1>0, <1>3
  <2>2. Marked' = Marked
    BY <1>0, <2>1 DEF Marked
  <2>3. IsWord(Top.node) => Top.node \in Marked
    BY <1>1, <1>3 DEF Fresh, Marked
  <2>4. ASSUME UnionInv PROVE UnionInv'
    BY <1>0, <2>1, <2>2, <2>4 DEF UnionInv
  <2> QED
    BY <2>1, <2>2, <2>3, <2>4
<1> QED
  BY <1>2, <1>3

\* Given the path, every step keeps sum_union the sum of what is marked.
LEMMA NextUnion == PathInv /\ UnionInv /\ [Next]_vars => UnionInv'
<1> SUFFICES ASSUME PathInv, UnionInv, [Next]_vars PROVE UnionInv'
  OBVIOUS
<1>1. CASE SetBoard
  BY <1>1 DEF SetBoard, UnionInv
<1>2. CASE UpperBound
  BY <1>2, StartMarks
<1>3. CASE EndDFS
  BY <1>3, EndDFSMarks
<1>4. CASE TryLetter \/ VisitNeighbour \/ EndDescents \/ UNCHANGED vars
  <2>1. UNCHANGED <<pc, marks, runs, details>>
    BY <1>4 DEF TryLetter, VisitNeighbour, EndDescents, vars
  <2>2. Marked' = Marked
    BY <2>1 DEF Marked
  <2> QED
    BY <2>1, <2>2 DEF UnionInv
<1>5. CASE EndRoot
  <2>1. /\ pc = "search" /\ UNCHANGED <<marks, runs>> /\ TypeOK
        /\ details' = [details EXCEPT !.max_nomark = @ + Top.max_score]
    BY <1>5 DEF EndRoot, IsTop, PathInv
  <2>2. Marked' = Marked /\ details'.sum_union = details.sum_union
    BY <2>1 DEF Marked, TypeOK
  <2>3. "search" # "idle"
    OBVIOUS
  <2> QED
    BY <2>1, <2>2, <2>3 DEF UnionInv
<1> QED
  BY <1>1, <1>2, <1>3, <1>4, <1>5 DEF Next, Search

\* In every state of a run, and until the next, sum_union is the score of the
\* words marked in it, each counted once, whatever the runs before it left in the
\* marks: runs on other classes, or cut short when the caller bailed out
\* (bucket_solver.cc:107, 3x3/ibuckets.cc:91).
THEOREM UnionIsOfTheMarked == Spec => []UnionCountsMarkedOnce
<1>1. Init => PathInv /\ UnionInv
  <2>1. Init => UnionInv
    BY DEF Init, UnionInv
  <2> QED
    BY <2>1, InitPath
<1>2. PathInv /\ UnionInv /\ [Next]_vars => (PathInv /\ UnionInv)'
  BY NextPath, NextUnion
<1>3. PathInv /\ UnionInv => UnionCountsMarkedOnce
  <2> SUFFICES ASSUME UnionInv, pc # "idle"
               PROVE  details.sum_union =
                          MapThenSumSet(WordScore, {w \in Words : runs > 0 /\ marks[w] = runs})
    BY DEF UnionCountsMarkedOnce
  <2>1. Marked = {w \in Words : runs > 0 /\ marks[w] = runs}
    BY DEF UnionInv, Marked
  <2> QED
    BY <2>1 DEF UnionInv
<1> QED
  BY <1>1, <1>2, <1>3, PTL DEF Spec

-----------------------------------------------------------------------------
(* What has been counted.  A board r of the class fits the first m calls of *)
(* DoDFS if it has their letters; its paths beyond them begin with their    *)
(* cells and go on to one of K.                                             *)

Fits(r, D, m) == \A i \in 1..m : r[D[i].cell] = D[m].node[i]
Beyond(r, D, m, K) ==
    {q \in WPaths(r) : /\ m < Len(q)
                       /\ \A i \in 1..m : q[i] = D[i].cell
                       /\ q[m + 1] \in K}

\* The letters that the m-th call of DoAllDescents is done with, and the cells
\* that the m-th of DoDFS is not.
Tried(b, C, D, m) ==
    {b[C[m].cell][i] : i \in 1..(IF m <= Len(D) THEN C[m].j - 2 ELSE C[m].j - 1)}
Left(C, D, m) ==
    ToSet(D[m].todo) \cup (IF m < Len(C) THEN {C[m + 1].cell} ELSE {})

\* The m-th calls have counted what they are done with, on every board that fits.
CallOK(b, C, D, M, m) ==
    \A r \in Reps(b) :
        Fits(r, D, m - 1) /\ r[C[m].cell] \in Tried(b, C, D, m)
        => Counted(r, Beyond(r, D, m - 1, {C[m].cell}), C[m].max_score, M)
SearchOK(b, C, D, M, m) ==
    \A r \in Reps(b) :
        Fits(r, D, m)
        => Counted(r, Beyond(r, D, m, Cells \ Left(C, D, m)), D[m].score, M)
ValueOK(b, C, D, M) ==
    /\ \A m \in 1..Len(C) : CallOK(b, C, D, M, m)
    /\ \A m \in 1..Len(D) : SearchOK(b, C, D, M, m)

\* What fits the first m calls, and what lies beyond, depends on their cells and
\* letters only.
LEMMA FitsSame ==
    ASSUME NEW D, NEW F, NEW m \in Nat,
           \A i \in 1..m : F[i].cell = D[i].cell /\ F[i].node = D[i].node, NEW r
    PROVE  Fits(r, F, m) <=> Fits(r, D, m)
<1>1. \A i \in 1..m : m \in 1..m
  OBVIOUS
<1> QED
  BY <1>1 DEF Fits

\* What lies beyond a search depends on the cells and nodes of the searches
\* only.
LEMMA BeyondSame ==
    ASSUME NEW D, NEW F, NEW m \in Nat,
           \A i \in 1..m : F[i].cell = D[i].cell /\ F[i].node = D[i].node, NEW r, NEW K
    PROVE  Beyond(r, F, m, K) = Beyond(r, D, m, K)
  BY DEF Beyond

\* A call that has less to count, and reports or marks more, has still counted it.
LEMMA CallStays ==
    ASSUME NEW b, NEW C, NEW D, NEW E, NEW F, NEW M, NEW N, M \subseteq N,
           NEW m \in Nat \ {0},
           \A i \in 1..(m - 1) : F[i].cell = D[i].cell /\ F[i].node = D[i].node,
           E[m].cell = C[m].cell, Tried(b, E, F, m) \subseteq Tried(b, C, D, m),
           C[m].max_score \in Nat, E[m].max_score \in Nat,
           C[m].max_score <= E[m].max_score, CallOK(b, C, D, M, m)
    PROVE  CallOK(b, E, F, N, m)
<1> DEFINE k == C[m].cell
           n == m - 1
<1>1. n \in Nat
  OBVIOUS
<1>2. SUFFICES ASSUME NEW r \in Reps(b), Fits(r, F, n), r[k] \in Tried(b, E, F, m)
               PROVE  Counted(r, Beyond(r, F, n, {k}), E[m].max_score, N)
  BY DEF CallOK
<1>3. Counted(r, Beyond(r, D, n, {k}), C[m].max_score, M)
  <2>1. Fits(r, D, n)
    BY <1>1, <1>2, FitsSame
  <2> QED
    BY <1>2, <2>1 DEF CallOK
<1>4. Beyond(r, F, n, {k}) = Beyond(r, D, n, {k})
  <2>1. \A i \in 1..n : F[i].cell = D[i].cell /\ F[i].node = D[i].node
    OBVIOUS
  <2> DEFINE K == {k}
  <2> HIDE DEF k, n, K
  <2>2. Beyond(r, F, n, K) = Beyond(r, D, n, K)
    BY <1>1, <2>1, BeyondSame
  <2> QED
    BY <2>2 DEF K
<1>5. Beyond(r, D, n, {k}) \in SUBSET WPaths(r)
  BY DEF Beyond
<1> HIDE DEF k, n
<1> QED
  BY <1>3, <1>4, <1>5, CountedLess

\* A search that has more behind it, and reports or marks more, has still
\* counted what it had.
LEMMA SearchStays ==
    ASSUME NEW b, NEW C, NEW D, NEW E, NEW F, NEW M, NEW N, M \subseteq N,
           NEW m \in Nat,
           \A i \in 1..m : F[i].cell = D[i].cell /\ F[i].node = D[i].node,
           Left(C, D, m) \subseteq Left(E, F, m),
           D[m].score \in Nat, F[m].score \in Nat, D[m].score <= F[m].score,
           SearchOK(b, C, D, M, m)
    PROVE  SearchOK(b, E, F, N, m)
<1>1. SUFFICES ASSUME NEW r \in Reps(b), Fits(r, F, m)
               PROVE  Counted(r, Beyond(r, F, m, Cells \ Left(E, F, m)), F[m].score, N)
  BY DEF SearchOK
<1>2. Counted(r, Beyond(r, D, m, Cells \ Left(C, D, m)), D[m].score, M)
  <2>1. Fits(r, D, m)
    BY <1>1, FitsSame
  <2> QED
    BY <2>1 DEF SearchOK
<1>3. /\ Beyond(r, F, m, Cells \ Left(E, F, m)) = Beyond(r, D, m, Cells \ Left(E, F, m))
      /\ Beyond(r, D, m, Cells \ Left(E, F, m)) \subseteq Beyond(r, D, m, Cells \ Left(C, D, m))
      /\ Beyond(r, D, m, Cells \ Left(C, D, m)) \in SUBSET WPaths(r)
  <2>1. Beyond(r, F, m, Cells \ Left(E, F, m)) = Beyond(r, D, m, Cells \ Left(E, F, m))
    BY BeyondSame
  <2>2. \A K, L : /\ Beyond(r, D, m, K) \in SUBSET WPaths(r)
                  /\ K \subseteq L => Beyond(r, D, m, K) \subseteq Beyond(r, D, m, L)
    BY DEF Beyond
  <2> QED
    BY <2>1, <2>2
<1> QED
  BY <1>2, <1>3, CountedLess

\* A word along a path that fits begins with the node's letters.
LEMMA BeyondSpells ==
    ASSUME NEW b, NEW C, NEW D \in Seq(DFSFrame), NEW u, PathOK(b, C, D, u),
           Len(C) \in Nat, Len(C) = Len(D) \/ Len(C) = Len(D) + 1,
           NEW m \in 1..Len(C), NEW r, Fits(r, D, m - 1), NEW K,
           NEW q \in Beyond(r, D, m - 1, K)
    PROVE  /\ q \in WPaths(r) /\ m \in 1..Len(q) /\ q[m] \in K
           /\ \A i \in 1..(m - 1) : q[i] = D[i].cell
           /\ Append(C[m].node, r[q[m]]) \in Nodes
<1>0. Len(D) \in Nat /\ m - 1 \in Nat /\ m - 1 <= Len(D) /\ m - 1 + 1 = m
  BY LenProperties
<1>1. /\ q \in WPaths(r) /\ m - 1 < Len(q) /\ q[m] \in K
      /\ \A i \in 1..(m - 1) : q[i] = D[i].cell
  BY <1>0 DEF Beyond
<1>2. /\ Spell(r, q) \in Words /\ Len(q) \in Nat \ {0} /\ Len(Spell(r, q)) = Len(q)
      /\ \A i \in 1..Len(q) : Spell(r, q)[i] = r[q[i]]
  BY <1>1, SpellIs
<1>3. m \in 1..Len(q) /\ m - 1 \in 0..(Len(q) - 1) /\ \A i \in 1..(m - 1) : i \in 1..Len(q)
  BY <1>0, <1>1, <1>2
<1>4. C[m].node \in Seq(Letters) /\ Len(C[m].node) = m - 1
  BY <1>0, NodeIs
<1>5. CallFits(C, D, m)
  BY DEF PathOK
<1>6. \A i \in 1..(m - 1) : C[m].node[i] = Spell(r, q)[i]
  <2> SUFFICES ASSUME NEW i \in 1..(m - 1) PROVE C[m].node[i] = Spell(r, q)[i]
    OBVIOUS
  <2>1. m > 1
    OBVIOUS
  <2>2. C[m].node = D[m - 1].node
    BY <1>5, <2>1 DEF CallFits
  <2>3. r[D[i].cell] = D[m - 1].node[i]
    BY DEF Fits
  <2> QED
    BY <1>1, <1>2, <1>3, <2>2, <2>3
<1>7. C[m].node = [i \in 1..(m - 1) |-> Spell(r, q)[i]]
  <2> DEFINE t == C[m].node
             n == m - 1
  <2>1. t \in [1..n -> Letters]
    BY <1>4, LenProperties
  <2>2. \A i \in 1..n : t[i] = Spell(r, q)[i]
    BY <1>6
  <2> HIDE DEF t, n
  <2>3. t = [i \in 1..n |-> Spell(r, q)[i]]
    BY <2>1, <2>2
  <2> QED
    BY <2>3 DEF t, n
<1>8. Append(C[m].node, Spell(r, q)[m]) \in Nodes
  <2> DEFINE n == m - 1
             w == Spell(r, q)
  <2>1. w \in Words /\ n \in 0..(Len(w) - 1) /\ C[m].node = [i \in 1..n |-> w[i]] /\ n + 1 = m
    BY <1>0, <1>2, <1>3, <1>7
  <2> HIDE DEF n, w
  <2>2. Append(C[m].node, w[n + 1]) \in Nodes
    BY <2>1, PrefixIsNode
  <2> QED
    BY <2>1, <2>2 DEF w
<1> QED
  BY <1>1, <1>2, <1>3, <1>8

\* The levels of the stack below the top keep what they have counted.
LEMMA LevelsStay ==
    ASSUME NEW b, NEW C \in Seq(DescentsFrame), NEW D \in Seq(DFSFrame), NEW E, NEW F,
           NEW M, NEW N, M \subseteq N, ValueOK(b, C, D, M), NEW n \in Nat,
           \A m \in 1..n : /\ m \in 1..Len(C) /\ m \in 1..Len(D) /\ m < Len(C)
                           /\ m <= Len(F) /\ m < Len(E)
                           /\ E[m] = C[m] /\ F[m] = D[m] /\ E[m + 1].cell = C[m + 1].cell
    PROVE  \A m \in 1..n : CallOK(b, E, F, N, m) /\ SearchOK(b, E, F, N, m)
<1> SUFFICES ASSUME NEW m \in 1..n
             PROVE  CallOK(b, E, F, N, m) /\ SearchOK(b, E, F, N, m)
  OBVIOUS
<1>1. /\ E[m] = C[m] /\ F[m] = D[m] /\ E[m + 1].cell = C[m + 1].cell
      /\ m < Len(E) /\ m < Len(C) /\ m <= Len(F) /\ m <= Len(D)
      /\ CallOK(b, C, D, M, m) /\ SearchOK(b, C, D, M, m) /\ m \in Nat \ {0}
  BY LenProperties DEF ValueOK
<1>2. C[m].max_score \in Nat /\ D[m].score \in Nat
  <2>1. C[m] \in DescentsFrame /\ D[m] \in DFSFrame
    BY ElementOfSeq
  <2> QED
    BY <2>1 DEF DescentsFrame, DFSFrame
<1>3. \A i \in 1..m : F[i].cell = D[i].cell /\ F[i].node = D[i].node
  <2>1. \A i \in 1..m : i \in 1..n
    OBVIOUS
  <2> QED
    BY <2>1
<1>4. Tried(b, E, F, m) = Tried(b, C, D, m) /\ Left(E, F, m) = Left(C, D, m)
  BY <1>1 DEF Tried, Left
<1>5. CallOK(b, E, F, N, m)
  <2>1. \A i \in 1..(m - 1) : F[i].cell = D[i].cell /\ F[i].node = D[i].node
    BY <1>3
  <2>2. C[m].max_score <= C[m].max_score
    BY <1>2
  <2> QED
    BY <1>1, <1>2, <1>4, <2>1, <2>2, CallStays
<1>6. SearchOK(b, E, F, N, m)
  <2>1. D[m].score <= D[m].score /\ m \in Nat
    BY <1>2
  <2> QED
    BY <1>1, <1>2, <1>3, <1>4, <2>1, SearchStays
<1> QED
  BY <1>5, <1>6

\* DoAllDescents has tried a letter: there is no word beyond it, or DoDFS is
\* called and has yet to count all that its cell touches.
LEMMA TryValue ==
    ASSUME NEW b \in Board, NEW C \in Seq(DescentsFrame), NEW D \in Seq(DFSFrame), NEW u,
           PathOK(b, C, D, u), Len(C) = Len(D) + 1,
           NEW f, f = C[Len(C)], f.j \in Nat,
           NEW h \in DescentsFrame, h.cell = f.cell, h.j = f.j + 1,
           h.max_score = f.max_score,
           NEW M, ValueOK(b, C, D, M)
    PROVE  /\ ~StartsWord(f.node, b[f.cell][f.j]) => ValueOK(b, Replaced(C, h), D, M)
           /\ \A g \in DFSFrame :
                 g.cell = f.cell /\ g.todo = Visits[f.cell]
                 => ValueOK(b, Replaced(C, h), Append(D, g), M)
<1> DEFINE c == Len(C)
           d == Len(D)
           E == Replaced(C, h)
           k == f.cell
           x == b[f.cell][f.j]
<1>1. /\ c \in Nat /\ d \in Nat /\ c = d + 1 /\ c - 1 = d /\ c \in 1..c /\ c \in Nat \ {0}
      /\ f \in DescentsFrame
  <2>1. c \in Nat /\ d \in Nat /\ c = d + 1 /\ c \in 1..c
    BY LenProperties
  <2> QED
    BY <2>1, ElementOfSeq
<1>2. Len(E) = c /\ \A m \in 1..c : \/ m # c /\ m \in 1..(c - 1) /\ E[m] = C[m]
                                    \/ m = c /\ E[m] = h
  <2>1. C # <<>> /\ C \in Seq(DescentsFrame) /\ h \in DescentsFrame
    BY <1>1, EmptySeq
  <2> QED
    BY ONLY <2>1, ReplacedIs
<1>3. /\ k \in Cells /\ f.max_score \in Nat /\ f = C[c]
      /\ CallOK(b, C, D, M, c)
  BY <1>1 DEF DescentsFrame, ValueOK
<1> HIDE DEF E, c, d, k, x
<1>4. /\ E[c] = h /\ \A m \in 1..d : E[m] = C[m] /\ E[m + 1].cell = C[m + 1].cell
      /\ \A m \in 1..d : m \in 1..c /\ m < c /\ m <= d
  <2>1. \A m \in 1..d : m \in 1..c /\ m < c /\ m <= d /\ m # c
                        /\ m + 1 \in 1..c
    BY <1>1
  <2>2. \A m \in 1..c : E[m].cell = C[m].cell
    BY <1>2, <1>3 DEF k
  <2> QED
    BY <1>1, <1>2, <2>1, <2>2
<1>5. ASSUME NEW r \in Reps(b), NEW F, Len(F) \in Nat, NEW L, CallOK(b, C, D, M, c),
             \A i \in 1..d : F[i] = D[i], Fits(r, F, d), r[k] \in Tried(b, C, D, c)
      PROVE  Counted(r, Beyond(r, F, d, {k}), h.max_score, M)
  <2> DEFINE K == {k}
  <2>1. Fits(r, D, d)
    BY <1>1, <1>5, FitsSame
  <2>2. Counted(r, Beyond(r, D, d, K), f.max_score, M)
    BY <1>1, <1>3, <1>5, <2>1 DEF CallOK, k
  <2> HIDE DEF K
  <2>3. Beyond(r, F, d, K) = Beyond(r, D, d, K)
    <3>1. \A i \in 1..d : F[i].cell = D[i].cell /\ F[i].node = D[i].node
      BY <1>5
    <3>2. d \in Nat
      BY <1>1
    <3> QED
      BY <3>1 DEF Beyond
  <2> QED
    BY <2>2, <2>3 DEF K
<1>6. ASSUME ~StartsWord(f.node, x)
      PROVE  ValueOK(b, E, D, M)
  <2>1. \A m \in 1..d : CallOK(b, E, D, M, m) /\ SearchOK(b, E, D, M, m)
    BY <1>1, <1>2, <1>4, LevelsStay DEF c, d
  <2>2. CallOK(b, E, D, M, c)
    <3> SUFFICES ASSUME NEW r \in Reps(b), Fits(r, D, d), r[k] \in Tried(b, E, D, c)
                 PROVE  Counted(r, Beyond(r, D, d, {k}), h.max_score, M)
      BY <1>1, <1>3, <1>4 DEF CallOK, k
    <3>1. r[k] \in Tried(b, C, D, c) \/ r[k] = x
      <4>1. PICK i \in 1..(h.j - 1) : r[k] = b[k][i]
        <5>1. ~(c <= Len(D))
          BY <1>1 DEF d
        <5> QED
          BY <1>4, <5>1 DEF Tried, k
      <4>2. i = f.j \/ i \in 1..(f.j - 1)
        OBVIOUS
      <4> QED
        BY <1>1, <1>3, <4>1, <4>2 DEF Tried, k, x, d
    <3>2. CASE r[k] \in Tried(b, C, D, c)
      BY <1>1, <1>3, <1>5, <3>2 DEF d
    <3>3. CASE r[k] = x
      <4> DEFINE K == {k}
      <4>1. ASSUME NEW q \in Beyond(r, D, c - 1, K) PROVE FALSE
        <5> HIDE DEF K
        <5>1. Fits(r, D, c - 1) /\ (Len(C) = Len(D) \/ Len(C) = Len(D) + 1)
              /\ Len(C) \in Nat /\ c \in 1..Len(C)
          BY <1>1 DEF c, d
        <5>2. q[c] \in K /\ Append(C[c].node, r[q[c]]) \in Nodes
          BY <5>1, BeyondSpells
        <5>3. q[c] = k
          BY <5>2 DEF K
        <5> QED
          BY <1>3, <1>6, <3>3, <5>2, <5>3 DEF StartsWord
      <4>2. Beyond(r, D, d, {k}) = {}
        BY <1>1, <4>1
      <4>3. h.max_score \in Nat
        BY <1>3
      <4> QED
        BY <4>2, <4>3, CountedNone
    <3> QED
      BY <3>1, <3>2, <3>3
  <2>3. \A m \in 1..c : m = c \/ m \in 1..d
    BY <1>1
  <2> QED
    BY <1>2, <2>1, <2>2, <2>3 DEF ValueOK, d
<1>7. ASSUME NEW g \in DFSFrame, g.cell = k, g.todo = Visits[k]
      PROVE  ValueOK(b, E, Append(D, g), M)
  <2> DEFINE F == Append(D, g)
  <2>1. /\ Len(F) = d + 1
        /\ \A m \in 1..(d + 1) : \/ m \in 1..d /\ m # d + 1 /\ F[m] = D[m]
                                 \/ m = d + 1 /\ m \notin 1..d /\ F[m] = g
    BY AppendCases DEF d
  <2> HIDE DEF F
  <2>2. /\ Len(F) = c /\ F[c] = g /\ \A m \in 1..d : F[m] = D[m] /\ m <= Len(F)
    BY <1>1, <1>4, <2>1
  <2>3. \A m \in 1..d : CallOK(b, E, F, M, m) /\ SearchOK(b, E, F, M, m)
    <3>1. \A m \in 1..d : /\ m \in 1..Len(C) /\ m \in 1..Len(D) /\ m < Len(C)
                          /\ m <= Len(F) /\ m < Len(E)
                          /\ E[m] = C[m] /\ F[m] = D[m] /\ E[m + 1].cell = C[m + 1].cell
      BY <1>2, <1>4, <2>2 DEF c, d
    <3> QED
      BY <1>1, <3>1, LevelsStay
  <2>4. CallOK(b, E, F, M, c)
    <3> SUFFICES ASSUME NEW r \in Reps(b), Fits(r, F, d), r[k] \in Tried(b, E, F, c)
                 PROVE  Counted(r, Beyond(r, F, d, {k}), h.max_score, M)
      BY <1>1, <1>3, <1>4 DEF CallOK, k
    <3>1. Tried(b, E, F, c) = Tried(b, C, D, c)
      <4>1. c <= Len(F) /\ ~(c <= Len(D)) /\ h.j - 2 = f.j - 1
        BY <1>1, <2>2 DEF d
      <4>2. Tried(b, E, F, c) = {b[k][i] : i \in 1..(h.j - 2)}
        BY SMTT(20), <1>4, <4>1 DEF Tried, k
      <4>3. Tried(b, C, D, c) = {b[k][i] : i \in 1..(f.j - 1)}
        BY <1>3, <4>1 DEF Tried, k
      <4> QED
        BY <4>1, <4>2, <4>3
    <3> QED
      BY <1>1, <1>3, <1>5, <2>2, <3>1
  <2>5. SearchOK(b, E, F, M, c)
    <3> SUFFICES ASSUME NEW r \in Reps(b)
                 PROVE  Counted(r, Beyond(r, F, c, Cells \ Left(E, F, c)), g.score, M)
      BY <2>2 DEF SearchOK
    <3>1. ToSet(Visits[k]) \subseteq Left(E, F, c)
      BY <1>7, <2>2 DEF Left
    <3>2. ASSUME NEW q \in Beyond(r, F, c, Cells \ Left(E, F, c)) PROVE FALSE
      <4>1. /\ q \in WPaths(r) /\ c < Len(q) /\ q[c] = k
            /\ q[c + 1] \in Cells /\ q[c + 1] \notin Left(E, F, c)
        BY <1>1, <1>7, <2>2 DEF Beyond
      <4>2. IsPath(q) /\ Len(q) \in Nat
        BY <4>1, SpellIs
      <4>3. c \in 1..(Len(q) - 1) /\ c \in 1..Len(q) /\ c + 1 \in 1..Len(q) /\ c # c + 1
        BY <1>1, <4>1, <4>2
      <4>4. Adjacent(k, q[c + 1]) /\ q[c + 1] # k
        BY <4>1, <4>2, <4>3 DEF IsPath
      <4> QED
        BY <1>3, <3>1, <4>1, <4>4, VisitsTouch
    <3>3. Beyond(r, F, c, Cells \ Left(E, F, c)) = {} /\ g.score \in Nat
      BY <3>2 DEF DFSFrame
    <3> QED
      BY <3>3, CountedNone
  <2>6. \A m \in 1..c : m = c \/ m \in 1..d
    BY <1>1
  <2> QED
    BY <1>2, <2>2, <2>3, <2>4, <2>5, <2>6 DEF ValueOK, F
<1> QED
  BY <1>6, <1>7 DEF E, k, x

\* DoDFS visits a cell that is on its path already, beyond which there is no path,
\* or calls DoAllDescents for it, which has yet to count.
LEMMA VisitValue ==
    ASSUME NEW b \in Board, NEW C \in Seq(DescentsFrame), NEW D \in Seq(DFSFrame), NEW u,
           PathOK(b, C, D, u), Len(C) = Len(D), D # <<>>,
           NEW g, g = D[Len(D)], NEW n \in Cells,
           NEW h \in DFSFrame, h.cell = g.cell, h.node = g.node, h.score = g.score,
           ToSet(g.todo) = {n} \cup ToSet(h.todo),
           NEW M, ValueOK(b, C, D, M)
    PROVE  /\ n \in u => ValueOK(b, C, Replaced(D, h), M)
           /\ \A f \in DescentsFrame :
                 f.cell = n /\ f.j = 1 => ValueOK(b, Append(C, f), Replaced(D, h), M)
<1> DEFINE c == Len(C)
           d == Len(D)
           F == Replaced(D, h)
           e == d - 1
<1>1. /\ c \in Nat /\ d \in Nat /\ c = d /\ d \in 1..d /\ d \in Nat \ {0} /\ e \in Nat
      /\ \A m \in 1..d : m = d \/ m \in 1..e
      /\ \A m \in 1..e : m \in 1..d /\ m + 1 \in 1..d /\ m < d /\ m <= d /\ m # d
  <2>1. c \in Nat /\ d \in Nat /\ c = d /\ d # 0
    BY LenProperties, EmptySeq
  <2> QED
    BY <2>1
<1>2. Len(F) = d /\ \A m \in 1..d : \/ m # d /\ m \in 1..(d - 1) /\ F[m] = D[m]
                                    \/ m = d /\ F[m] = h
  <2>1. D # <<>> /\ D \in Seq(DFSFrame) /\ h \in DFSFrame
    OBVIOUS
  <2> QED
    BY ONLY <2>1, ReplacedIs
<1>3. /\ C[d] \in DescentsFrame /\ g \in DFSFrame /\ g = D[d]
      /\ CallOK(b, C, D, M, d) /\ SearchOK(b, C, D, M, d) /\ u = OnPath(D, d)
  BY <1>1, ElementOfSeq DEF ValueOK, PathOK
<1>4. C[d].max_score \in Nat /\ g.score \in Nat /\ h.score = g.score
  BY <1>3 DEF DescentsFrame, DFSFrame
<1> HIDE DEF F, c, d, e
<1>5. /\ F[d] = h /\ \A m \in 1..e : F[m] = D[m]
      /\ \A m \in 1..d : F[m].cell = D[m].cell /\ F[m].node = D[m].node
  BY <1>1, <1>2, <1>3
<1>6. ASSUME NEW E, \A m \in 1..d : E[m] = C[m], Len(E) \in Nat, d <= Len(E),
             SearchOK(b, E, F, M, d)
      PROVE  \A m \in 1..d : CallOK(b, E, F, M, m) /\ SearchOK(b, E, F, M, m)
  <2>1. \A m \in 1..e : CallOK(b, E, F, M, m) /\ SearchOK(b, E, F, M, m)
    <3>1. \A m \in 1..e : m < Len(E)
      BY <1>1, <1>6
    <3>2. \A m \in 1..e : /\ m \in 1..Len(C) /\ m \in 1..Len(D) /\ m < Len(C)
                          /\ m <= Len(F) /\ m < Len(E)
                          /\ E[m] = C[m] /\ F[m] = D[m] /\ E[m + 1].cell = C[m + 1].cell
      BY <1>1, <1>2, <1>5, <1>6, <3>1 DEF c, d
    <3> QED
      BY <1>1, <3>2, LevelsStay
  <2>2. CallOK(b, E, F, M, d)
    <3>1. Tried(b, E, F, d) = Tried(b, C, D, d)
      <4>1. d <= Len(F) /\ d <= Len(D) /\ E[d] = C[d]
        BY <1>1, <1>2, <1>6 DEF d
      <4> QED
        BY <4>1 DEF Tried
    <3>2. \A i \in 1..(d - 1) : F[i].cell = D[i].cell /\ F[i].node = D[i].node
      BY <1>5 DEF e
    <3>3. E[d] = C[d] /\ C[d].max_score <= C[d].max_score
      BY <1>1, <1>4, <1>6
    <3> QED
      BY <1>1, <1>3, <1>4, <3>1, <3>2, <3>3, CallStays
  <2> QED
    BY <1>1, <1>6, <2>1, <2>2
<1>7. Left(C, D, d) = ToSet(g.todo)
  <2>1. ~(d < Len(C))
    BY <1>1 DEF c
  <2> QED
    BY <1>3, <2>1 DEF Left
<1>8. ASSUME n \in u PROVE ValueOK(b, C, F, M)
  <2>1. Left(C, F, d) = ToSet(h.todo)
    <3>1. ~(d < Len(C))
      BY <1>1 DEF c
    <3> QED
      BY <1>5, <3>1 DEF Left
  <2>2. SearchOK(b, C, F, M, d)
    <3> SUFFICES ASSUME NEW r \in Reps(b), Fits(r, F, d)
                 PROVE  Counted(r, Beyond(r, F, d, Cells \ ToSet(h.todo)), h.score, M)
      BY <1>5, <2>1 DEF SearchOK
    <3>1. Counted(r, Beyond(r, D, d, Cells \ ToSet(g.todo)), g.score, M)
      <4>1. Fits(r, D, d)
        BY <1>1, <1>5, FitsSame
      <4> QED
        BY <1>3, <1>7, <4>1 DEF SearchOK
    <3>2. Beyond(r, F, d, Cells \ ToSet(h.todo)) \subseteq Beyond(r, D, d, Cells \ ToSet(g.todo))
      <4> SUFFICES ASSUME NEW q \in Beyond(r, F, d, Cells \ ToSet(h.todo))
                   PROVE  q \in Beyond(r, D, d, Cells \ ToSet(g.todo))
        OBVIOUS
      <4>1. /\ q \in WPaths(r) /\ d < Len(q) /\ \A i \in 1..d : q[i] = D[i].cell
            /\ q[d + 1] \in Cells /\ q[d + 1] \notin ToSet(h.todo)
        BY <1>5 DEF Beyond
      <4>2. q[d + 1] # n
        <5> SUFFICES ASSUME q[d + 1] = n PROVE FALSE
          OBVIOUS
        <5>1. PICK i \in 1..d : n = D[i].cell
          BY <1>3, <1>8 DEF OnPath
        <5>2. q[i] = q[d + 1]
          BY <4>1, <5>1
        <5>3. IsPath(q) /\ Len(q) \in Nat
          BY <4>1, SpellIs
        <5>4. i \in 1..Len(q) /\ d + 1 \in 1..Len(q) /\ i # d + 1
          BY <1>1, <4>1, <5>3
        <5> QED
          BY <5>2, <5>3, <5>4 DEF IsPath
      <4> QED
        BY <4>1, <4>2 DEF Beyond
    <3>3. Beyond(r, D, d, Cells \ ToSet(g.todo)) \in SUBSET WPaths(r)
      BY DEF Beyond
    <3>4. g.score <= h.score
      BY <1>4
    <3> QED
      BY <1>4, <3>1, <3>2, <3>3, <3>4, CountedLess
  <2>3. \A m \in 1..d : CallOK(b, C, F, M, m) /\ SearchOK(b, C, F, M, m)
    <3>1. Len(C) \in Nat /\ d <= Len(C)
      BY <1>1 DEF c
    <3> QED
      BY <1>6, <2>2, <3>1
  <2> QED
    BY <1>1, <1>2, <2>3 DEF ValueOK, c
<1>9. ASSUME NEW f \in DescentsFrame, f.cell = n, f.j = 1
      PROVE  ValueOK(b, Append(C, f), F, M)
  <2> DEFINE E == Append(C, f)
  <2>1. /\ Len(E) = c + 1
        /\ \A m \in 1..(c + 1) : \/ m \in 1..c /\ m # c + 1 /\ E[m] = C[m]
                                 \/ m = c + 1 /\ m \notin 1..c /\ E[m] = f
    BY AppendCases DEF c
  <2> HIDE DEF E
  <2>2. /\ Len(E) = d + 1 /\ E[d + 1] = f /\ d < Len(E) /\ d <= Len(E) /\ Len(E) \in Nat
        /\ \A m \in 1..d : E[m] = C[m]
        /\ \A m \in 1..(d + 1) : m \in 1..d \/ m = d + 1
    BY <1>1, <2>1
  <2>3. SearchOK(b, E, F, M, d)
    <3>1. Left(E, F, d) = Left(C, D, d)
      BY <1>5, <1>7, <1>9, <2>2 DEF Left
    <3>2. g.score <= g.score
      BY <1>4
    <3> QED
      BY <1>1, <1>3, <1>4, <1>5, <3>1, <3>2, SearchStays
  <2>4. \A m \in 1..d : CallOK(b, E, F, M, m) /\ SearchOK(b, E, F, M, m)
    BY <1>6, <2>2, <2>3
  <2>5. CallOK(b, E, F, M, d + 1)
    <3> DEFINE m == d + 1
    <3>1. E[m] = f /\ ~(m <= Len(F))
      BY <1>1, <1>2, <2>2
    <3> HIDE DEF m
    <3>2. Tried(b, E, F, m) = {}
      <4>1. 1..(f.j - 1) = {}
        BY <1>9
      <4> QED
        BY <3>1, <4>1 DEF Tried
    <3> QED
      BY <3>2 DEF CallOK, m
  <2> QED
    BY <1>2, <2>2, <2>4, <2>5 DEF ValueOK, E
<1> QED
  BY <1>8, <1>9 DEF F

\* The paths of m cells that a board that fits spells the node's letters along: the
\* path of the calls, if the node is a word's.
LEMMA PathItself ==
    ASSUME NEW b, NEW C, NEW D \in Seq(DFSFrame), NEW u, PathOK(b, C, D, u),
           NEW m \in 1..Len(D), NEW r, Fits(r, D, m), NEW p \in Nat, NEW N,
           D[m].node \in Words => D[m].node \in N /\ p = WordScore(D[m].node)
    PROVE  LET P == {q \in WPaths(r) : Len(q) = m /\ \A i \in 1..m : q[i] = D[i].cell}
           IN  P \in SUBSET WPaths(r) /\ Counted(r, P, p, N)
<1> DEFINE P == {q \in WPaths(r) : Len(q) = m /\ \A i \in 1..m : q[i] = D[i].cell}
           t == D[m].node
<1>1. t \in Seq(Letters) /\ Len(t) = m
  BY DEF PathOK, SearchFits
<1>2. ASSUME NEW q \in P
      PROVE  /\ q \in WPaths(r) /\ q = [i \in 1..m |-> D[i].cell]
             /\ Spell(r, q) = t
  <2>1. /\ q \in WPaths(r) /\ Len(q) = m /\ \A i \in 1..m : q[i] = D[i].cell
    OBVIOUS
  <2>2. q \in [1..m -> AllCells] /\ t \in [1..m -> Letters]
    BY <1>1, <2>1, SpellIs, LenProperties
  <2>3. q = [i \in 1..m |-> D[i].cell]
    BY <2>1, <2>2
  <2>4. \A i \in 1..m : r[q[i]] = t[i]
    BY <2>1 DEF Fits
  <2>5. Spell(r, q) = [i \in 1..m |-> r[q[i]]]
    BY <2>1 DEF Spell
  <2> HIDE DEF t, P
  <2>6. [i \in 1..m |-> r[q[i]]] = t
    BY <2>2, <2>4
  <2> QED
    BY <2>1, <2>3, <2>5, <2>6
<1>3. Counted(r, P, p, N)
  <2>1. CASE P = {}
    BY <2>1, CountedNone
  <2>2. CASE P # {}
    <3>1. PICK q \in P : TRUE
      BY <2>2
    <3> HIDE DEF P, t
    <3>2. P = {q}
      BY <1>2, <3>1
    <3>3. q \in WPaths(r) /\ Spell(r, q) = t /\ Spell(r, q) \in Words
      BY <1>2, <3>1, SpellIs
    <3>4. t \in N /\ p = WordScore(t)
      BY <3>3 DEF t
    <3> QED
      BY <3>2, <3>3, <3>4, CountedOne
  <2> QED
    BY <2>1, <2>2
<1> QED
  BY <1>3

\* DoDFS returns: what lay beyond it, and its own word, now count for the letter
\* that it was called for.
LEMMA EndSearchValue ==
    ASSUME NEW b \in Board, NEW C \in Seq(DescentsFrame), NEW D \in Seq(DFSFrame), NEW u,
           PathOK(b, C, D, u), Len(C) = Len(D), D # <<>>,
           NEW g, g = D[Len(D)], g.todo = <<>>, NEW f, f = C[Len(C)],
           NEW M, ValueOK(b, C, D, M), NEW N, M \subseteq N, NEW p \in Nat,
           g.node \in Words => g.node \in N /\ p = WordScore(g.node),
           NEW h \in DescentsFrame, h.cell = f.cell, h.j = f.j,
           h.max_score = Larger(g.score + p, f.max_score)
    PROVE  ValueOK(b, Replaced(C, h), Front(D), N)
<1> DEFINE c == Len(C)
           d == Len(D)
           E == Replaced(C, h)
           F == Front(D)
           e == d - 1
           k == f.cell
<1>1. /\ c \in Nat /\ d \in Nat /\ c = d /\ d \in 1..d /\ d \in Nat \ {0} /\ e \in Nat
      /\ e + 1 = d
      /\ \A m \in 1..d : m = d \/ m \in 1..e
      /\ \A m \in 1..e : /\ m \in 1..d /\ m + 1 \in 1..d /\ m < d /\ m <= d /\ m # d
                         /\ m <= e
  <2>1. c \in Nat /\ d \in Nat /\ c = d /\ d # 0
    BY LenProperties, EmptySeq
  <2> QED
    BY <2>1
<1>2. Len(E) = c /\ \A m \in 1..c : \/ m # c /\ m \in 1..(c - 1) /\ E[m] = C[m]
                                    \/ m = c /\ E[m] = h
  <2>1. C # <<>> /\ C \in Seq(DescentsFrame) /\ h \in DescentsFrame
    BY <1>1, EmptySeq
  <2> QED
    BY ONLY <2>1, ReplacedIs
<1>3. Len(F) = e /\ \A m \in 1..e : F[m] = D[m]
  <2>1. D # <<>> /\ D \in Seq(DFSFrame)
    OBVIOUS
  <2> QED
    BY ONLY <2>1, AllButLast DEF Front
<1>4. /\ f = C[d] /\ f \in DescentsFrame /\ g \in DFSFrame /\ g = D[d]
      /\ CallOK(b, C, D, M, d) /\ SearchOK(b, C, D, M, d)
      /\ SearchFits(b, C, D, d) /\ CallFits(C, D, d)
  BY <1>1, ElementOfSeq DEF ValueOK, PathOK
<1>5. /\ f.max_score \in Nat /\ g.score \in Nat /\ h.max_score \in Nat
      /\ f.max_score <= h.max_score /\ g.score + p <= h.max_score
      /\ g.score + p \in Nat /\ f.j \in Nat
  <2>1. f.max_score \in Nat /\ g.score \in Nat /\ h.max_score \in Nat /\ f.j \in Nat
    BY <1>4 DEF DescentsFrame, DFSFrame
  <2> QED
    BY <2>1 DEF Larger
<1> HIDE DEF E, F, c, d, e, k
<1>6. /\ E[d] = h /\ \A m \in 1..e : E[m] = C[m] /\ F[m] = D[m]
      /\ \A m \in 1..d : E[m].cell = C[m].cell
  BY <1>1, <1>2, <1>3, <1>4
<1>7. \A m \in 1..e : CallOK(b, E, F, N, m) /\ SearchOK(b, E, F, N, m)
  <2>1. \A m \in 1..e : /\ m \in 1..Len(C) /\ m \in 1..Len(D) /\ m < Len(C)
                        /\ m <= Len(F) /\ m < Len(E)
                        /\ E[m] = C[m] /\ F[m] = D[m] /\ E[m + 1].cell = C[m + 1].cell
    BY <1>1, <1>2, <1>3, <1>6 DEF c, d
  <2> QED
    BY <1>1, <2>1, LevelsStay
<1>8. CallOK(b, E, F, N, d)
  <2> SUFFICES ASSUME NEW r \in Reps(b), Fits(r, F, e), r[k] \in Tried(b, E, F, d)
               PROVE  Counted(r, Beyond(r, F, e, {k}), h.max_score, N)
    BY <1>6 DEF CallOK, k, e
  <2> DEFINE K == {k}
             A == Beyond(r, D, e, K)
  <2>1. Fits(r, D, e)
    BY <1>1, <1>3, FitsSame
  <2>2. Beyond(r, F, e, {k}) = A
    BY <1>3 DEF Beyond
  <2>3. A \in SUBSET WPaths(r)
    BY DEF Beyond
  <2>4. r[k] \in Tried(b, C, D, d) \/ r[k] = b[k][f.j - 1]
    <3>1. d <= Len(D) /\ ~(d <= Len(F))
      BY <1>1, <1>3 DEF d
    <3>2. PICK i \in 1..(f.j - 1) : r[k] = b[k][i]
      BY <1>6, <3>1 DEF Tried, k
    <3>3. i = f.j - 1 \/ i \in 1..(f.j - 2)
      BY <1>5
    <3> QED
      BY <1>4, <3>1, <3>2, <3>3 DEF Tried, k
  <2>5. CASE r[k] \in Tried(b, C, D, d)
    <3>1. Counted(r, A, f.max_score, M)
      BY <1>4, <2>1, <2>5 DEF CallOK, k, e
    <3> HIDE DEF A
    <3> QED
      BY <1>5, <2>2, <2>3, <3>1, CountedLess
  <2>6. CASE r[k] = b[k][f.j - 1]
    <3> DEFINE B == Beyond(r, D, d, Cells \ Left(C, D, d))
               P == {q \in WPaths(r) : Len(q) = d /\ \A i \in 1..d : q[i] = D[i].cell}
    <3>1. /\ g.cell = k /\ f.node \in Seq(Letters) /\ Len(f.node) = e
          /\ g.node = Append(f.node, r[k]) /\ r[k] \in Letters
          /\ e > 0 => f.node = D[e].node
      <4>1. /\ g.cell = k /\ g.node = Append(f.node, b[k][f.j - 1])
            /\ f.j - 1 \in 1..Len(b[k])
        BY <1>4 DEF SearchFits, k
      <4>2. b[k] \in Seq(Letters)
        BY <1>4 DEF Board, DescentsFrame, k
      <4>3. r[k] \in Letters
        BY <2>6, <4>1, <4>2, ElementOfSeq
      <4>4. f.node \in Seq(Letters) /\ Len(f.node) = e
        <5>1. d \in 1..Len(C) /\ d - 1 <= Len(D)
          BY <1>1 DEF c, d
        <5>2. C[d].node \in Seq(Letters) /\ Len(C[d].node) = d - 1
          BY <5>1, NodeIs
        <5> QED
          BY <1>4, <5>2 DEF e
      <4>5. e > 0 => f.node = D[e].node
        BY <1>1, <1>4 DEF CallFits, e
      <4> QED
        BY <2>6, <4>1, <4>3, <4>4, <4>5
    <3>2. Fits(r, D, d)
      <4>1. /\ \A i \in 1..e : g.node[i] = f.node[i]
            /\ g.node[d] = r[k]
        BY <1>1, <3>1, AppendProperties
      <4>2. \A i \in 1..e : e > 0 /\ r[D[i].cell] = f.node[i]
        BY <1>1, <2>1, <3>1 DEF Fits
      <4> QED
        BY <1>1, <1>4, <3>1, <4>1, <4>2 DEF Fits
    <3>3. Counted(r, B, g.score, N) /\ B \in SUBSET WPaths(r)
      <4>1. Counted(r, B, g.score, M)
        BY <1>4, <3>2 DEF SearchOK
      <4>2. B \in SUBSET WPaths(r) /\ g.score <= g.score
        BY <1>5 DEF Beyond
      <4> HIDE DEF B
      <4> QED
        BY <1>5, <4>1, <4>2, CountedLess
    <3>4. Counted(r, P, p, N) /\ P \in SUBSET WPaths(r)
      <4>1. d \in 1..Len(D) /\ (D[d].node \in Words => D[d].node \in N /\ p = WordScore(D[d].node))
        BY <1>1, <1>4 DEF d
      <4> HIDE DEF P
      <4>2. P \in SUBSET WPaths(r) /\ Counted(r, P, p, N)
        BY <3>2, <4>1, PathItself DEF P
      <4> QED
        BY <4>2
    <3>5. A \subseteq B \cup P
      <4> SUFFICES ASSUME NEW q \in A, q \notin P PROVE q \in B
        OBVIOUS
      <4>1. /\ q \in WPaths(r) /\ e < Len(q) /\ q[d] = k
            /\ \A i \in 1..e : q[i] = D[i].cell
        BY <1>1 DEF Beyond
      <4>2. \A i \in 1..d : q[i] = D[i].cell
        BY <1>1, <1>4, <3>1, <4>1
      <4>3. /\ Len(q) \in Nat /\ \A i \in 1..Len(q) : q[i] \in Cells
        BY <4>1, SpellIs, CellsFinite
      <4>4. Len(q) # d
        BY <4>1, <4>2
      <4>5. d < Len(q) /\ d + 1 \in 1..Len(q)
        BY <1>1, <4>1, <4>3, <4>4
      <4>6. Left(C, D, d) = {}
        <5>1. ~(d < Len(C)) /\ ToSet(<<>>) = {}
          BY <1>1 DEF c, ToSet
        <5> QED
          BY <1>4, <5>1 DEF Left
      <4> QED
        BY <4>1, <4>2, <4>3, <4>5, <4>6 DEF Beyond
    <3> HIDE DEF A, B, P
    <3>6. Counted(r, B \cup P, g.score + p, N) /\ B \cup P \in SUBSET WPaths(r)
      BY <1>5, <3>3, <3>4, CountedBoth
    <3> QED
      BY <1>5, <2>2, <3>5, <3>6, CountedLess
  <2> QED
    BY <2>4, <2>5, <2>6
<1> QED
  BY <1>1, <1>2, <1>3, <1>7, <1>8 DEF ValueOK, E, F

\* A call of DoAllDescents that has tried all letters has counted all that lies
\* beyond its cell, on every board that fits; an empty cell has no word beyond it.
LEMMA CallDone ==
    ASSUME NEW b \in Board, NEW C \in Seq(DescentsFrame), NEW D \in Seq(DFSFrame),
           Len(C) = Len(D) + 1, NEW f, f = C[Len(C)], f.j \in Nat,
           f.j > Len(b[f.cell]), f.j - 1 \in 0..Len(b[f.cell]),
           NEW M, ValueOK(b, C, D, M), NEW r \in Reps(b), Fits(r, D, Len(D))
    PROVE  /\ Counted(r, Beyond(r, D, Len(D), {f.cell}), f.max_score, M)
           /\ f.max_score \in Nat /\ f.cell \in Cells
           /\ Beyond(r, D, Len(D), {f.cell}) \in SUBSET WPaths(r)
<1> DEFINE c == Len(C)
           d == Len(D)
           k == f.cell
           K == {k}
<1>1. /\ c \in Nat /\ d \in Nat /\ c = d + 1 /\ c - 1 = d /\ c \in 1..c
      /\ f \in DescentsFrame /\ f = C[c]
  <2>1. c \in Nat /\ d \in Nat /\ c = d + 1 /\ c \in 1..c
    BY LenProperties
  <2> QED
    BY <2>1, ElementOfSeq
<1>2. /\ k \in Cells /\ f.max_score \in Nat /\ b[k] \in Seq(Letters)
      /\ Len(b[k]) \in Nat /\ DOMAIN b[k] = 1..Len(b[k])
  <2>1. k \in Cells /\ f.max_score \in Nat
    BY <1>1 DEF DescentsFrame
  <2>2. b[k] \in Seq(Letters)
    BY <2>1 DEF Board
  <2> QED
    BY <2>1, <2>2, LenProperties
<1>3. f.j - 1 = Len(b[k]) /\ Fits(r, D, d) /\ CallOK(b, C, D, M, c)
  BY <1>1, <1>2 DEF ValueOK
<1>4. r[k] \in LettersOf(b[k])
  BY <1>2 DEF Reps
<1>5. Beyond(r, D, d, K) \in SUBSET WPaths(r)
  BY DEF Beyond
<1> HIDE DEF c, d, k, K
<1>6. CASE b[k] = <<>>
  <2>1. r[k] = Dot
    BY <1>4, <1>6 DEF LettersOf
  <2>2. ASSUME NEW q \in Beyond(r, D, d, K) PROVE FALSE
    <3>1. q \in WPaths(r) /\ d < Len(q) /\ q[c] = k
      BY <1>1 DEF Beyond, K
    <3> DEFINE w == Spell(r, q)
    <3>2. /\ w \in Words /\ Len(q) \in Nat /\ Len(w) = Len(q)
          /\ \A i \in 1..Len(q) : w[i] = r[q[i]]
      BY <3>1, SpellIs
    <3> HIDE DEF w
    <3>3. c \in 1..Len(q) /\ DOMAIN w = 1..Len(w)
      BY <1>1, <3>1, <3>2, FoundIs
    <3>4. Dot \in ToSet(w)
      BY <2>1, <3>1, <3>2, <3>3 DEF ToSet
    <3> QED
      BY <3>2, <3>4, CallerAssumption
  <2>3. Beyond(r, D, d, K) = {}
    BY <2>2
  <2>4. Counted(r, Beyond(r, D, d, K), f.max_score, M)
    BY <1>2, <2>3, CountedNone
  <2> QED
    BY <1>2, <1>5, <2>4 DEF d, k, K
<1>7. CASE b[k] # <<>>
  <2>1. PICK i \in 1..Len(b[k]) : r[k] = b[k][i]
    BY <1>2, <1>4, <1>7 DEF LettersOf, ToSet
  <2>2. r[k] \in Tried(b, C, D, c)
    <3>1. ~(c <= Len(D))
      BY <1>1 DEF d
    <3> QED
      BY <1>1, <1>3, <2>1, <3>1 DEF Tried, k
  <2>3. Counted(r, Beyond(r, D, d, K), f.max_score, M)
    BY <1>1, <1>3, <2>2 DEF CallOK, k, K
  <2> QED
    BY <1>2, <1>5, <2>3 DEF d, k, K
<1> QED
  BY <1>6, <1>7

\* DoAllDescents returns: the cell that it was called for is done with.
LEMMA EndCallValue ==
    ASSUME NEW b \in Board, NEW C \in Seq(DescentsFrame), NEW D \in Seq(DFSFrame),
           Len(C) = Len(D) + 1, D # <<>>, NEW f, f = C[Len(C)], f.j \in Nat,
           f.j > Len(b[f.cell]), f.j - 1 \in 0..Len(b[f.cell]),
           NEW M, ValueOK(b, C, D, M), NEW g, g = D[Len(D)],
           NEW h \in DFSFrame, h.cell = g.cell, h.node = g.node, h.todo = g.todo,
           h.score = g.score + f.max_score
    PROVE  ValueOK(b, Front(C), Replaced(D, h), M)
<1> DEFINE c == Len(C)
           d == Len(D)
           E == Front(C)
           F == Replaced(D, h)
           e == d - 1
           k == f.cell
<1>1. /\ c \in Nat /\ d \in Nat /\ c = d + 1 /\ c - 1 = d /\ d \in 1..d /\ d \in Nat \ {0}
      /\ e \in Nat /\ d \in 1..c /\ d + 1 = c /\ d < c /\ d <= d
      /\ c # 0 /\ c \in 1..c /\ Len(<<>>) = 0
      /\ \A m \in 1..d : m = d \/ m \in 1..e
      /\ \A m \in 1..e : /\ m \in 1..d /\ m \in 1..c /\ m + 1 \in 1..d
                         /\ m < d /\ m < c /\ m <= d /\ m # d
  <2>1. c \in Nat /\ d \in Nat /\ c = d + 1 /\ d # 0
    BY LenProperties, EmptySeq
  <2> QED
    BY <2>1
<1>2. Len(E) = d /\ \A m \in 1..d : E[m] = C[m]
  <2>1. C # <<>> /\ C \in Seq(DescentsFrame)
    BY <1>1
  <2>2. Len(E) = c - 1 /\ \A m \in 1..(c - 1) : E[m] = C[m]
    BY ONLY <2>1, AllButLast DEF Front
  <2> QED
    BY <1>1, <2>2
<1>3. Len(F) = d /\ \A m \in 1..d : \/ m # d /\ m \in 1..(d - 1) /\ F[m] = D[m]
                                    \/ m = d /\ F[m] = h
  <2>1. D # <<>> /\ D \in Seq(DFSFrame) /\ h \in DFSFrame
    OBVIOUS
  <2> QED
    BY ONLY <2>1, ReplacedIs
<1>4. /\ f = C[d + 1] /\ C[d] \in DescentsFrame /\ f \in DescentsFrame
      /\ g \in DFSFrame /\ g = D[d]
      /\ CallOK(b, C, D, M, d) /\ SearchOK(b, C, D, M, d)
  <2>2. C[c] \in DescentsFrame /\ C[d] \in DescentsFrame /\ D[d] \in DFSFrame
    BY <1>1, ElementOfSeq
  <2>3. CallOK(b, C, D, M, d) /\ SearchOK(b, C, D, M, d)
    BY <1>1 DEF ValueOK
  <2> QED
    BY <1>1, <2>2, <2>3
<1>5. /\ C[d].max_score \in Nat /\ g.score \in Nat /\ f.max_score \in Nat
      /\ h.score \in Nat
  BY <1>4 DEF DescentsFrame, DFSFrame
<1> HIDE DEF E, F, c, d, e, k
<1>6. /\ F[d] = h /\ \A m \in 1..e : F[m] = D[m]
      /\ \A m \in 1..d : F[m].cell = D[m].cell /\ F[m].node = D[m].node
  BY <1>1, <1>3, <1>4
<1>7. \A m \in 1..e : CallOK(b, E, F, M, m) /\ SearchOK(b, E, F, M, m)
  <2>1. \A m \in 1..e : /\ m \in 1..Len(C) /\ m \in 1..Len(D) /\ m < Len(C)
                        /\ m <= Len(F) /\ m < Len(E)
                        /\ E[m] = C[m] /\ F[m] = D[m] /\ E[m + 1].cell = C[m + 1].cell
    BY <1>1, <1>2, <1>3, <1>6 DEF c, d
  <2>2. e \in Nat
    BY <1>1
  <2> QED
    BY <2>1, <2>2, LevelsStay
<1>8. CallOK(b, E, F, M, d)
  <2>1. Tried(b, E, F, d) = Tried(b, C, D, d)
    <3>1. d <= Len(F) /\ d <= Len(D)
      BY <1>1, <1>3 DEF d
    <3>2. E[d] = C[d]
      BY <1>1, <1>2
    <3> QED
      BY <3>1, <3>2 DEF Tried
  <2>2. \A i \in 1..(d - 1) : F[i].cell = D[i].cell /\ F[i].node = D[i].node
    BY <1>6 DEF e
  <2>3. E[d] = C[d] /\ C[d].max_score <= C[d].max_score
    BY <1>1, <1>2, <1>5
  <2> QED
    BY <1>1, <1>4, <1>5, <2>1, <2>2, <2>3, CallStays
<1>9. SearchOK(b, E, F, M, d)
  <2>1. /\ Left(E, F, d) = ToSet(g.todo)
        /\ Left(C, D, d) = ToSet(g.todo) \cup {k}
    <3>1. ~(d < Len(E)) /\ d < Len(C)
      BY <1>1, <1>2 DEF c
    <3> QED
      BY <1>4, <1>6, <3>1 DEF Left, k
  <2> SUFFICES ASSUME NEW r \in Reps(b), Fits(r, F, d)
               PROVE  Counted(r, Beyond(r, F, d, Cells \ ToSet(g.todo)), h.score, M)
    BY <1>6, <2>1 DEF SearchOK
  <2> DEFINE B == Beyond(r, D, d, Cells \ Left(C, D, d))
             A == Beyond(r, D, d, {k})
             X == Beyond(r, F, d, Cells \ ToSet(g.todo))
  <2>2. Fits(r, D, d)
    BY <1>1, <1>6, FitsSame
  <2>3. Counted(r, B, g.score, M) /\ B \in SUBSET WPaths(r)
    BY <1>4, <2>2 DEF SearchOK, Beyond
  <2>4. Counted(r, A, f.max_score, M) /\ A \in SUBSET WPaths(r)
    <3>1. Fits(r, D, Len(D))
      BY <2>2 DEF d
    <3> QED
      BY <3>1, CallDone DEF d, k
  <2>5. X \subseteq B \cup A
    BY <1>6, <2>1 DEF Beyond
  <2> HIDE DEF A, B, X
  <2>6. Counted(r, B \cup A, g.score + f.max_score, M) /\ B \cup A \in SUBSET WPaths(r)
    BY <1>5, <2>3, <2>4, CountedBoth
  <2>7. Counted(r, X, h.score, M)
    <3>1. h.score <= h.score
      BY <1>5
    <3> QED
      BY <1>5, <2>5, <2>6, <3>1, CountedLess
  <2> QED
    BY <2>7 DEF X
<1> QED
  BY <1>1, <1>2, <1>3, <1>7, <1>8, <1>9 DEF ValueOK, E, F

\* The calls of a search that begins have nothing to count yet.
LEMMA StartValue ==
    ASSUME NEW b, NEW k, NEW M
    PROVE  /\ ValueOK(b, <<DoAllDescents(k, 0, <<>>)>>, <<>>, M)
           /\ <<DoAllDescents(k, 0, <<>>)>>[1].cell = k
<1> DEFINE f == DoAllDescents(k, 0, <<>>)
           F == <<f>>
           e == <<>>
<1>1. Len(F) = 1 /\ F[1] = f /\ Len(e) = 0 /\ f.j = 1 /\ f.cell = k
  BY DEF DoAllDescents
<1> HIDE DEF f, F, e
<1>2. 1..1 = {1} /\ 1..0 = {} /\ ~(1 <= 0) /\ 1..(1 - 1) = {}
  OBVIOUS
<1>3. Tried(b, F, e, 1) = {}
  BY <1>1, <1>2 DEF Tried
<1>4. CallOK(b, F, e, M, 1)
  BY <1>3 DEF CallOK
<1>5. ValueOK(b, F, e, M)
  BY <1>1, <1>2, <1>4 DEF ValueOK
<1> QED
  BY <1>1, <1>5 DEF F, f, e

-----------------------------------------------------------------------------
(* The words that are marked are on some board of the class.               *)

OnClass(b, w) ==
    \E p \in Seq(AllCells) : /\ Len(p) = Len(w) /\ IsPath(p)
                             /\ \A i \in 1..Len(w) : w[i] \in ToSet(b[p[i]])

\* The calls of DoDFS make a path, along which the class has the node's letters.
LEMMA NodeOnClass ==
    ASSUME NEW b, NEW C \in Seq(DescentsFrame), NEW D \in Seq(DFSFrame), NEW u,
           PathOK(b, C, D, u), Len(C) = Len(D), D # <<>>
    PROVE  OnClass(b, D[Len(D)].node)
<1> DEFINE d == Len(D)
           p == [i \in 1..d |-> D[i].cell]
           w == D[d].node
<1>1. d \in Nat /\ d \in 1..d /\ d = Len(C) /\ Len(C) \in Nat
  <2>1. d \in Nat /\ d # 0
    BY LenProperties, EmptySeq
  <2> QED
    BY <2>1
<1>2. /\ \A m \in 1..d : CallFits(C, D, m) /\ SearchFits(b, C, D, m)
      /\ \A m \in 1..d : D[m].cell \in AllCells
  <2>1. \A m \in 1..d : D[m] \in DFSFrame
    BY ElementOfSeq
  <2> QED
    BY <1>1, <2>1, CellsFinite DEF PathOK, DFSFrame
<1>3. \A i, j \in 1..d : D[i].cell = D[j].cell => i = j
  BY <1>1, PathApart
<1> HIDE DEF d
<1>4. p \in Seq(AllCells) /\ Len(p) = d
  <2>1. p \in [1..d -> AllCells]
    BY <1>2
  <2> HIDE DEF p
  <2> QED
    BY <1>1, <2>1, SeqOfLen
<1>5. \A i \in 1..d : p[i] = D[i].cell
  OBVIOUS
<1>6. \A i \in 1..(d - 1) : Adjacent(p[i], p[i + 1])
  <2> SUFFICES ASSUME NEW i \in 1..(d - 1) PROVE Adjacent(D[i].cell, D[i + 1].cell)
    BY <1>1
  <2> DEFINE m == i + 1
  <2>1. m \in 1..d /\ m > 1 /\ m - 1 = i
    BY <1>1
  <2> HIDE DEF m
  <2>2. Adjacent(D[i].cell, C[m].cell) /\ D[m].cell = C[m].cell
    BY <1>2, <2>1 DEF CallFits, SearchFits
  <2> QED
    BY <2>2 DEF m
<1>7. Len(w) = d /\ \A i \in 1..d : w[i] \in ToSet(b[D[i].cell])
  BY <1>1, <1>2 DEF SearchFits
<1> HIDE DEF p, w
<1>8. IsPath(p)
  BY <1>3, <1>4, <1>5, <1>6 DEF IsPath
<1>9. OnClass(b, w)
  BY <1>4, <1>5, <1>7, <1>8 DEF OnClass
<1> QED
  BY <1>9 DEF w, d

\* On a class of one board they are on that board.
LEMMA OnSingle ==
    ASSUME NEW b \in Board, IsSingle(b), NEW r \in Reps(b), NEW w \in Words, OnClass(b, w)
    PROVE  Found(r, w)
<1>1. PICK p \in Seq(AllCells) : /\ Len(p) = Len(w) /\ IsPath(p)
                                 /\ \A i \in 1..Len(w) : w[i] \in ToSet(b[p[i]])
  BY DEF OnClass
<1>2. ASSUME NEW i \in 1..Len(w) PROVE r[p[i]] = w[i]
  <2> DEFINE k == p[i]
  <2>1. k \in Cells
    BY <1>1, ElementOfSeq, CellsFinite
  <2> HIDE DEF k
  <2>2. /\ b[k] \in Seq(Letters) /\ Len(b[k]) \in Nat /\ DOMAIN b[k] = 1..Len(b[k])
        /\ Len(b[k]) <= 1
    BY <2>1, LenProperties DEF Board, IsSingle
  <2>3. \A i1, i2 \in 1..Len(b[k]) : i1 = i2
    BY <2>2
  <2>4. PICK n \in 1..Len(b[k]) : w[i] = b[k][n]
    BY <1>1, <2>2 DEF ToSet, k
  <2>5. b[k] # <<>>
    <3>1. Len(<<>>) = 0
      OBVIOUS
    <3> QED
      BY <2>2, <2>4, <3>1
  <2>6. PICK x \in 1..Len(b[k]) : r[k] = b[k][x]
    BY <2>1, <2>2, <2>5 DEF Reps, LettersOf, ToSet
  <2>7. x = n
    BY <2>3
  <2> QED
    BY <2>4, <2>6, <2>7 DEF k
<1> QED
  BY <1>1, <1>2, FoundIs

ClassInv == pc # "idle" => \A w \in Marked : OnClass(bd, w)

\* DoDFS marks the word of its node, which the path spells on the class.
LEMMA NextClass == PathInv /\ ClassInv /\ [Next]_vars => ClassInv'
<1> SUFFICES ASSUME PathInv, ClassInv, [Next]_vars PROVE ClassInv'
  OBVIOUS
<1>1. CASE SetBoard
  BY <1>1 DEF SetBoard, ClassInv
<1>2. CASE UpperBound
  BY <1>2, StartMarks DEF ClassInv
<1>3. CASE EndDFS
  <2>1. pc = "search" /\ bd' = bd /\ IsTop("dfs")
    BY <1>3 DEF EndDFS, IsTop
  <2>2. \A w \in Marked' : w \in Marked \/ (IsWord(Top.node) /\ w = Top.node)
    BY <1>3, EndDFSMarks
  <2>3. OnClass(bd, Top.node)
    <3> DEFINE C == Calls(stack)
               D == Searches(stack)
    <3>1. /\ PathOK(bd, C, D, used) /\ C \in Seq(DescentsFrame) /\ D \in Seq(DFSFrame)
          /\ Len(C) = Len(D) /\ D # <<>> /\ Top = D[Len(D)]
      BY <2>1, OnSearch
    <3> HIDE DEF C, D
    <3> QED
      BY <3>1, NodeOnClass
  <2>4. \A w \in Marked : OnClass(bd, w)
    BY <2>1 DEF ClassInv
  <2>5. \A w \in Marked' : OnClass(bd, w)
    BY <2>2, <2>3, <2>4
  <2> QED
    BY <2>1, <2>5 DEF ClassInv
<1>4. CASE TryLetter \/ VisitNeighbour \/ EndDescents \/ EndRoot \/ UNCHANGED vars
  <2>1. UNCHANGED <<marks, runs, bd>> /\ (pc # "idle" \/ pc' = "idle")
    BY <1>4 DEF TryLetter, VisitNeighbour, EndDescents, EndRoot, vars, IsTop
  <2>2. Marked' = Marked
    BY <2>1 DEF Marked
  <2> QED
    BY <2>1, <2>2 DEF ClassInv
<1> QED
  BY <1>1, <1>2, <1>3, <1>4 DEF Next, Search

-----------------------------------------------------------------------------
(* The search counts every path.                                           *)

\* The paths that begin before the cell k.
Before(r, k) == {q \in WPaths(r) : q[1] < k}

CountInv ==
    /\ pc = "search" =>
          /\ ValueOK(bd, Calls(stack), Searches(stack), Marked)
          /\ Calls(stack)[1].cell = root
          /\ \A r \in Reps(bd) :
                Counted(r, Before(r, root), details.max_nomark, Marked)
    /\ pc = "done" =>
          \/ CanBailOut(details)
          \/ \A r \in Reps(bd) : Counted(r, WPaths(r), details.max_nomark, Marked)

\* A step of the search below its root leaves what lies before it counted.
LEMMA StillCounts ==
    ASSUME CountInv, details.max_nomark \in Nat, pc = "search", pc' = "search",
           bd' = bd, root' = root, details'.max_nomark = details.max_nomark,
           Marked \subseteq Marked',
           ValueOK(bd, Calls(stack'), Searches(stack'), Marked'),
           Calls(stack')[1].cell = Calls(stack)[1].cell
    PROVE  CountInv'
<1>1. /\ Calls(stack)[1].cell = root
      /\ \A r \in Reps(bd) : Counted(r, Before(r, root), details.max_nomark, Marked)
  BY DEF CountInv
<1>2. ASSUME NEW r \in Reps(bd)
      PROVE  Counted(r, Before(r, root), details.max_nomark, Marked')
  <2>1. Before(r, root) \in SUBSET WPaths(r) /\ details.max_nomark <= details.max_nomark
    BY DEF Before
  <2> QED
    BY <1>1, <2>1, CountedLess
<1>3. "search" # "done"
  OBVIOUS
<1> QED
  BY <1>1, <1>2, <1>3 DEF CountInv

\* Where the outermost call is does not change when the last is replaced.
LEMMA FirstStays ==
    ASSUME NEW C \in Seq(DescentsFrame), Len(C) \in Nat \ {0}, NEW h \in DescentsFrame,
           h.cell = C[Len(C)].cell
    PROVE  /\ Replaced(C, h)[1].cell = C[1].cell
           /\ Append(C, h)[1] = C[1]
           /\ Len(C) > 1 => Front(C)[1] = C[1]
<1> DEFINE c == Len(C)
<1>1. C # <<>> /\ 1 \in 1..c /\ c \in Nat
  <2>1. Len(<<>>) = 0 /\ 1 \in 1..c
    OBVIOUS
  <2> QED
    BY <2>1
<1>2. \A n \in 1..c : \/ n # c /\ n \in 1..(c - 1) /\ Replaced(C, h)[n] = C[n]
                      \/ n = c /\ Replaced(C, h)[n] = h
  BY <1>1, ReplacedIs
<1>3. Append(C, h)[1] = C[1]
  BY <1>1, AppendProperties
<1>4. c > 1 => Front(C)[1] = C[1]
  <2>1. \A m \in 1..(c - 1) : Front(C)[m] = C[m]
    BY <1>1, AllButLast DEF Front
  <2> QED
    BY <1>1, <2>1
<1> QED
  BY <1>1, <1>2, <1>3, <1>4

\* UpperBound starts with nothing to count before its root.
LEMMA StartCounts == PathInv /\ UpperBound => CountInv'
<1> SUFFICES ASSUME PathInv, UpperBound PROVE CountInv'
  OBVIOUS
<1>1. /\ pc' = "search" /\ root' = 1 /\ bd' = bd
      /\ details' = [max_nomark |-> 0, sum_union |-> 0]
      /\ Calls(stack') = <<DoAllDescents(1, 0, <<>>)>> /\ Searches(stack') = <<>>
  BY UpperBoundSteps DEF UpperBound
<1>2. /\ ValueOK(bd', Calls(stack'), Searches(stack'), Marked')
      /\ Calls(stack')[1].cell = root'
  BY <1>1, StartValue
<1>3. ASSUME NEW r \in Reps(bd') PROVE Counted(r, Before(r, 1), 0, Marked')
  <2>1. ASSUME NEW q \in Before(r, 1) PROVE FALSE
    <3>1. q \in WPaths(r) /\ q[1] < 1
      BY DEF Before
    <3>2. Len(q) \in Nat \ {0} /\ \A i \in 1..Len(q) : q[i] \in AllCells
      BY <3>1, SpellIs
    <3>3. q[1] \in 1..NumCells /\ NumCells \in Nat
      BY <3>2, CellsFinite
    <3> QED
      BY <3>1, <3>3
  <2>2. Before(r, 1) = {}
    BY <2>1
  <2> QED
    BY <2>2, CountedNone
<1>4. "search" # "done"
  OBVIOUS
<1> QED
  BY <1>1, <1>2, <1>3, <1>4 DEF CountInv

\* A turn of the loop of DoAllDescents keeps what the calls and searches have
\* counted.
LEMMA TryCounts == PathInv /\ CountInv /\ TryLetter => CountInv'
<1> SUFFICES ASSUME PathInv, CountInv, TryLetter PROVE CountInv'
  OBVIOUS
<1> DEFINE C == Calls(stack)
           D == Searches(stack)
           h == TriedTop
<1>1. /\ UNCHANGED <<pc, bd, marks, runs, details, bailout, root>>
      /\ IsTop("descents") /\ TypeOK
  BY DEF TryLetter, PathInv
<1>2. /\ pc = "search" /\ PathOK(bd, C, D, used) /\ bd \in Board
      /\ C \in Seq(DescentsFrame) /\ D \in Seq(DFSFrame) /\ Len(C) = Len(D) + 1
      /\ Len(C) \in Nat \ {0} /\ Top = C[Len(C)] /\ Top \in DescentsFrame /\ Top.j \in Nat
  BY <1>1, OnCall
<1>3. /\ Calls(stack') = Replaced(C, h) /\ h \in DescentsFrame
      /\ IF StartsWord(Top.node, Letter)
         THEN Searches(stack') = Append(D, NewSearch) /\ NewSearch \in DFSFrame
         ELSE Searches(stack') = D
  BY TrySteps
<1>4. h.cell = Top.cell /\ h.j = Top.j + 1 /\ h.max_score = Top.max_score
  <2>1. \A t \in DescentsFrame :
           LET x == [t EXCEPT !.j = @ + 1]
           IN  x.cell = t.cell /\ x.j = t.j + 1 /\ x.max_score = t.max_score
    BY DEF DescentsFrame
  <2> QED
    BY <1>2, <2>1 DEF TriedTop
<1>5. NewSearch.cell = Top.cell /\ NewSearch.todo = Visits[Top.cell]
  BY DEF NewSearch, DoDFS
<1>6. Marked' = Marked /\ ValueOK(bd, C, D, Marked) /\ details.max_nomark \in Nat
  BY <1>1, <1>2 DEF Marked, CountInv, TypeOK
<1> HIDE DEF C, D, h
<1>7. ValueOK(bd, Calls(stack'), Searches(stack'), Marked)
  <2>1. CASE StartsWord(Top.node, Letter)
    <3>1. Searches(stack') = Append(D, NewSearch) /\ NewSearch \in DFSFrame
      BY <1>3, <2>1
    <3>2. ValueOK(bd, Replaced(C, h), Append(D, NewSearch), Marked)
      BY <1>2, <1>3, <1>4, <1>5, <1>6, <3>1, TryValue
    <3> QED
      BY <1>3, <3>1, <3>2
  <2>2. CASE ~StartsWord(Top.node, Letter)
    <3>1. ValueOK(bd, Replaced(C, h), D, Marked)
      BY <1>2, <1>3, <1>4, <1>6, <2>2, TryValue DEF Letter
    <3> QED
      BY <1>3, <2>2, <3>1
  <2> QED
    BY <2>1, <2>2
<1>8. Calls(stack')[1].cell = C[1].cell
  BY <1>2, <1>3, <1>4, FirstStays
<1> QED
  BY <1>1, <1>2, <1>6, <1>7, <1>8, StillCounts DEF C

\* A turn of the loop of DoDFS keeps what the calls and searches have counted.
LEMMA VisitCounts == PathInv /\ CountInv /\ VisitNeighbour => CountInv'
<1> SUFFICES ASSUME PathInv, CountInv, VisitNeighbour PROVE CountInv'
  OBVIOUS
<1> DEFINE C == Calls(stack)
           D == Searches(stack)
           h == VisitedTop
           n == Top.todo[1]
<1>1. /\ UNCHANGED <<pc, bd, marks, runs, details, bailout, root>>
      /\ IsTop("dfs") /\ TypeOK
  BY DEF VisitNeighbour, PathInv
<1>2. /\ pc = "search" /\ PathOK(bd, C, D, used) /\ bd \in Board
      /\ C \in Seq(DescentsFrame) /\ D \in Seq(DFSFrame) /\ Len(C) = Len(D)
      /\ Len(C) \in Nat \ {0} /\ Top = D[Len(D)] /\ Top \in DFSFrame /\ D # <<>>
  BY <1>1, OnSearch
<1>3. /\ Searches(stack') = Replaced(D, h) /\ h \in DFSFrame /\ n \in Cells
      /\ ToSet(Top.todo) = {n} \cup ToSet(h.todo)
      /\ h.cell = Top.cell /\ h.node = Top.node /\ h.score = Top.score
      /\ IF n \in used
         THEN Calls(stack') = C
         ELSE Calls(stack') = Append(C, NewCall) /\ NewCall \in DescentsFrame
  BY VisitSteps
<1>4. NewCall.cell = n /\ NewCall.j = 1
  BY DEF NewCall, DoAllDescents
<1>5. Marked' = Marked /\ ValueOK(bd, C, D, Marked) /\ details.max_nomark \in Nat
  BY <1>1, <1>2 DEF Marked, CountInv, TypeOK
<1> HIDE DEF C, D, h, n
<1>6. /\ ValueOK(bd, Calls(stack'), Searches(stack'), Marked)
      /\ Calls(stack')[1].cell = C[1].cell
  <2>1. CASE n \in used
    <3>1. ValueOK(bd, C, Replaced(D, h), Marked)
      BY <1>2, <1>3, <1>5, <2>1, VisitValue
    <3> QED
      BY <1>3, <2>1, <3>1
  <2>2. CASE n \notin used
    <3>1. Calls(stack') = Append(C, NewCall) /\ NewCall \in DescentsFrame
      BY <1>3, <2>2
    <3>2. ValueOK(bd, Append(C, NewCall), Replaced(D, h), Marked)
      BY <1>2, <1>3, <1>4, <1>5, <3>1, VisitValue
    <3>3. Append(C, NewCall)[1] = C[1]
      <4>1. 1 \in 1..Len(C)
        BY <1>2
      <4> QED
        BY <1>2, <3>1, <4>1, AppendProperties
    <3> QED
      BY <1>3, <3>1, <3>2, <3>3
  <2> QED
    BY <2>1, <2>2
<1> QED
  BY <1>1, <1>2, <1>5, <1>6, StillCounts DEF C

\* The end of DoDFS hands what the search has counted to the call below it.
LEMMA EndDFSCounts == PathInv /\ CountInv /\ EndDFS => CountInv'
<1> SUFFICES ASSUME PathInv, CountInv, EndDFS PROVE CountInv'
  OBVIOUS
<1> DEFINE C == Calls(stack)
           D == Searches(stack)
           h == ScoredBelow
<1>1. UNCHANGED <<pc, bd, root>> /\ IsTop("dfs") /\ TypeOK /\ Top.todo = <<>>
  BY DEF EndDFS, PathInv
<1>2. /\ pc = "search" /\ PathOK(bd, C, D, used) /\ bd \in Board
      /\ C \in Seq(DescentsFrame) /\ D \in Seq(DFSFrame) /\ Len(C) = Len(D)
      /\ Len(C) \in Nat \ {0} /\ Top = D[Len(D)] /\ D # <<>>
  BY <1>1, OnSearch
<1>3. /\ Calls(stack') = Replaced(C, h) /\ Searches(stack') = Front(D)
      /\ Below = C[Len(C)] /\ h \in DescentsFrame /\ h.cell = Below.cell
      /\ h.j = Below.j /\ h.max_score = Larger(Top.score + Points, Below.max_score)
  BY EndDFSSteps
<1>4. /\ Points \in Nat /\ Marked \subseteq Marked'
      /\ Top.node \in Words => Top.node \in Marked' /\ Points = WordScore(Top.node)
      /\ details'.max_nomark = details.max_nomark
  BY <1>1, PointsAre, EndDFSMarks DEF IsWord
<1>5. ValueOK(bd, C, D, Marked) /\ details.max_nomark \in Nat
  BY <1>1, <1>2 DEF CountInv, TypeOK
<1> HIDE DEF C, D, h
<1>6. ValueOK(bd, Calls(stack'), Searches(stack'), Marked')
  <2>1. ValueOK(bd, Replaced(C, h), Front(D), Marked')
    BY <1>1, <1>2, <1>3, <1>4, <1>5, EndSearchValue
  <2> QED
    BY <1>3, <2>1
<1>7. Calls(stack')[1].cell = C[1].cell
  BY <1>2, <1>3, FirstStays
<1> QED
  BY <1>1, <1>2, <1>4, <1>5, <1>6, <1>7, StillCounts DEF C

\* The end of DoAllDescents hands what the call has counted, for every board of
\* the class, to the search below it.
LEMMA EndDescentsCounts == PathInv /\ CountInv /\ EndDescents => CountInv'
<1> SUFFICES ASSUME PathInv, CountInv, EndDescents PROVE CountInv'
  OBVIOUS
<1> DEFINE C == Calls(stack)
           D == Searches(stack)
           h == ScoredSearch
<1>1. /\ UNCHANGED <<pc, bd, marks, runs, details, bailout, root>>
      /\ IsTop("descents") /\ TypeOK /\ Top.j > Len(bd[Top.cell])
  BY DEF EndDescents, PathInv
<1>2. /\ pc = "search" /\ bd \in Board
      /\ C \in Seq(DescentsFrame) /\ D \in Seq(DFSFrame) /\ Len(C) = Len(D) + 1
      /\ Len(C) \in Nat \ {0} /\ Top = C[Len(C)] /\ Top \in DescentsFrame
      /\ Top.j \in Nat /\ Top.j - 1 \in 0..Len(bd[Top.cell])
  BY <1>1, OnCall
<1>3. /\ Calls(stack') = Front(C) /\ Searches(stack') = Replaced(D, h) /\ D # <<>>
      /\ Below = D[Len(D)] /\ h \in DFSFrame /\ h.cell = Below.cell
      /\ h.node = Below.node /\ h.todo = Below.todo
      /\ h.score = Below.score + Top.max_score
  BY EndDescentsSteps
<1>4. Marked' = Marked /\ ValueOK(bd, C, D, Marked) /\ details.max_nomark \in Nat
  BY <1>1, <1>2 DEF Marked, CountInv, TypeOK
<1> HIDE DEF C, D, h
<1>5. ValueOK(bd, Calls(stack'), Searches(stack'), Marked)
  <2>1. ValueOK(bd, Front(C), Replaced(D, h), Marked)
    BY <1>1, <1>2, <1>3, <1>4, EndCallValue
  <2> QED
    BY <1>3, <2>1
<1>6. Calls(stack')[1].cell = C[1].cell
  <2>1. Len(C) > 1
    <3>1. Len(D) # 0
      BY <1>2, <1>3, EmptySeq
    <3>2. Len(D) \in Nat
      BY <1>2, LenProperties
    <3> QED
      BY <1>2, <3>1, <3>2
  <2> QED
    BY <1>2, <1>3, <2>1, FirstStays
<1> QED
  BY <1>1, <1>2, <1>4, <1>5, <1>6, StillCounts DEF C

\* The root's call returns: all paths that begin at it are counted, and after the
\* last cell's all paths.
LEMMA EndRootCounts == PathInv /\ CountInv /\ EndRoot => CountInv'
<1> SUFFICES ASSUME PathInv, CountInv, EndRoot PROVE CountInv'
  OBVIOUS
<1> DEFINE C == Calls(stack)
           D == Searches(stack)
           v == details.max_nomark
<1>1. /\ UNCHANGED <<bd, marks, runs, bailout>> /\ IsTop("descents") /\ TypeOK
      /\ Top.j > Len(bd[Top.cell])
      /\ pc' = "done" => root = NumCells \/ CanBailOut(details')
      /\ pc' \in {"done", pc}
  BY DEF EndRoot, PathInv
<1>2. /\ pc = "search" /\ bd \in Board
      /\ C \in Seq(DescentsFrame) /\ D \in Seq(DFSFrame) /\ Len(C) = Len(D) + 1
      /\ Len(C) \in Nat \ {0} /\ Top = C[Len(C)] /\ Top \in DescentsFrame
      /\ Top.j \in Nat /\ Top.j - 1 \in 0..Len(bd[Top.cell])
  BY <1>1, OnCall
<1>3. /\ D = <<>> /\ Len(C) = 1 /\ Top = C[1]
      /\ details' = [details EXCEPT !.max_nomark = @ + Top.max_score]
      /\ pc' = "search" => /\ root < NumCells /\ root' = root + 1
                           /\ Calls(stack') = <<DoAllDescents(root + 1, 0, <<>>)>>
                           /\ Searches(stack') = <<>>
  BY EndRootSteps
<1>4. /\ Marked' = Marked /\ ValueOK(bd, C, D, Marked) /\ v \in Nat
      /\ C[1].cell = root /\ root \in 1..NumCells /\ NumCells \in Nat /\ bailout' = bailout
      /\ \A r \in Reps(bd) : Counted(r, Before(r, root), v, Marked)
  BY <1>1, <1>2, CellsFinite DEF Marked, CountInv, TypeOK, Cells
<1>5. Len(D) = 0
  BY <1>3
<1> HIDE DEF C, D, v
<1>6. Top.max_score \in Nat /\ details'.max_nomark = v + Top.max_score
  <2>1. Top.max_score \in Nat
    BY <1>2 DEF DescentsFrame
  <2> QED
    BY <1>1, <1>3, <2>1 DEF TypeOK, v
<1>7. ASSUME NEW r \in Reps(bd)
      PROVE  Counted(r, Before(r, root + 1), v + Top.max_score, Marked)
  <2> DEFINE A == Beyond(r, D, Len(D), {Top.cell})
             B == Before(r, root)
             X == Before(r, root + 1)
  <2>1. Counted(r, A, Top.max_score, Marked) /\ A \in SUBSET WPaths(r)
    <3>1. Fits(r, D, Len(D))
      BY <1>5 DEF Fits
    <3> QED
      BY <1>1, <1>2, <1>4, <3>1, CallDone
  <2>2. Counted(r, B, v, Marked) /\ B \in SUBSET WPaths(r)
    BY <1>4 DEF Before
  <2>3. X \subseteq B \cup A
    <3> SUFFICES ASSUME NEW q \in X PROVE q \in B \cup A
      OBVIOUS
    <3>1. q \in WPaths(r) /\ q[1] < root + 1
      BY DEF Before
    <3>2. Len(q) \in Nat \ {0} /\ \A i \in 1..Len(q) : q[i] \in AllCells
      BY <3>1, SpellIs
    <3>3. q[1] \in 1..NumCells
      BY <3>2, CellsFinite
    <3>4. q[1] < root \/ q[1] = root
      BY <1>4, <3>1, <3>3
    <3>5. CASE q[1] < root
      BY <3>1, <3>5 DEF Before
    <3>6. CASE q[1] = root
      <4>1. Top.cell = root /\ 0 < Len(q) /\ q[0 + 1] = root
        BY <1>3, <1>4, <3>2, <3>6
      <4> QED
        BY <1>5, <3>1, <4>1 DEF Beyond
    <3> QED
      BY <3>4, <3>5, <3>6
  <2> HIDE DEF A, B, X
  <2>4. Counted(r, B \cup A, v + Top.max_score, Marked) /\ B \cup A \in SUBSET WPaths(r)
    BY <1>4, <1>6, <2>1, <2>2, CountedBoth
  <2>5. /\ v + Top.max_score \in Nat
        /\ v + Top.max_score <= v + Top.max_score
    BY <1>4, <1>6
  <2>6. Counted(r, X, v + Top.max_score, Marked)
    BY <2>3, <2>4, <2>5, CountedLess
  <2> QED
    BY <2>6 DEF X
<1>8. CASE pc' = "search"
  <2>1. /\ ValueOK(bd', Calls(stack'), Searches(stack'), Marked')
        /\ Calls(stack')[1].cell = root'
    BY <1>3, <1>8, StartValue
  <2>2. \A r \in Reps(bd') : Counted(r, Before(r, root'), details'.max_nomark, Marked')
    BY <1>1, <1>3, <1>4, <1>6, <1>7, <1>8
  <2>3. "search" # "done"
    OBVIOUS
  <2> QED
    BY <1>8, <2>1, <2>2, <2>3 DEF CountInv
<1>9. CASE pc' = "done"
  <2>1. ASSUME root = NumCells, NEW r \in Reps(bd)
        PROVE  Counted(r, WPaths(r), details'.max_nomark, Marked)
    <3>1. WPaths(r) \subseteq Before(r, root + 1)
      <4> SUFFICES ASSUME NEW q \in WPaths(r) PROVE q[1] < root + 1
        BY DEF Before
      <4>1. Len(q) \in Nat \ {0} /\ \A i \in 1..Len(q) : q[i] \in AllCells
        BY SpellIs
      <4>2. q[1] \in 1..NumCells
        BY <4>1, CellsFinite
      <4> QED
        BY <1>4, <2>1, <4>2
    <3>2. Before(r, root + 1) = WPaths(r)
      BY <3>1 DEF Before
    <3> QED
      BY <1>6, <1>7, <3>2
  <2>2. CASE root = NumCells
    BY <1>1, <1>4, <1>9, <2>1, <2>2 DEF CountInv
  <2>3. CASE CanBailOut(details')
    <3>1. CanBailOut(details)'
      BY <1>4, <2>3 DEF CanBailOut
    <3> QED
      BY <1>9, <3>1 DEF CountInv
  <2> QED
    BY <1>1, <1>9, <2>2, <2>3
<1> QED
  BY <1>1, <1>2, <1>8, <1>9

\* Whatever happens, what has been searched is counted.
LEMMA NextCounts == PathInv /\ CountInv /\ [Next]_vars => CountInv'
<1> SUFFICES ASSUME PathInv, CountInv, [Next]_vars PROVE CountInv'
  OBVIOUS
<1>1. CASE SetBoard
  BY <1>1 DEF SetBoard, CountInv
<1>2. CASE UpperBound
  BY <1>2, StartCounts
<1>3. CASE TryLetter
  BY <1>3, TryCounts
<1>4. CASE VisitNeighbour
  BY <1>4, VisitCounts
<1>5. CASE EndDFS
  BY <1>5, EndDFSCounts
<1>6. CASE EndDescents
  BY <1>6, EndDescentsCounts
<1>7. CASE EndRoot
  BY <1>7, EndRootCounts
<1>8. CASE UNCHANGED vars
  <2>1. Marked' = Marked
    BY <1>8 DEF vars, Marked
  <2> QED
    BY <1>8, <2>1 DEF vars, CountInv, CanBailOut
<1> QED
  BY <1>1, <1>2, <1>3, <1>4, <1>5, <1>6, <1>7, <1>8 DEF Next, Search

-----------------------------------------------------------------------------
(* The contract.                                                           *)

BoundInv == PathInv /\ UnionInv /\ ClassInv /\ CountInv

\* What is reported when the search is done bounds every board of the class.
LEMMA DoneBounds ==
    ASSUME BoundInv, pc = "done", NEW r \in Reps(bd)
    PROVE  /\ details.max_nomark \in Nat /\ details.sum_union \in Nat /\ bailout \in Nat
           /\ DictionaryScore(r) \in Nat
           /\ \/ CanBailOut(details)
              \/ /\ DictionaryScore(r) <= details.max_nomark
                 /\ DictionaryScore(r) <= details.sum_union
           /\ IsSingle(bd) => details.sum_union <= DictionaryScore(r)
<1>1. /\ TypeOK /\ details.sum_union = MapThenSumSet(WordScore, Marked)
      /\ \A w \in Marked : OnClass(bd, w)
      /\ \/ CanBailOut(details)
         \/ Counted(r, WPaths(r), details.max_nomark, Marked)
  <2>1. "done" # "idle"
    OBVIOUS
  <2> QED
    BY <2>1 DEF BoundInv, PathInv, UnionInv, ClassInv, CountInv
<1>2. /\ details.max_nomark \in Nat /\ details.sum_union \in Nat /\ bailout \in Nat
      /\ bd \in Board
  BY <1>1, CallerAssumption DEF TypeOK
<1>3. Marked \in SUBSET Words
  BY DEF Marked
<1>4. DictionaryScore(r) \in Nat
  <2>1. {w \in Words : Found(r, w)} \in SUBSET Words
    OBVIOUS
  <2> QED
    BY <2>1, WordSumAdd DEF DictionaryScore
<1>5. ASSUME Counted(r, WPaths(r), details.max_nomark, Marked)
      PROVE  /\ DictionaryScore(r) <= details.max_nomark
             /\ DictionaryScore(r) <= details.sum_union
  BY <1>1, <1>2, <1>3, <1>5, CountedAll
<1>6. ASSUME IsSingle(bd) PROVE details.sum_union <= DictionaryScore(r)
  <2> DEFINE V == {w \in Words : Found(r, w)}
  <2>1. V \in SUBSET Words
    OBVIOUS
  <2>2. Marked \subseteq V
    BY <1>1, <1>2, <1>3, <1>6, OnSingle
  <2> HIDE DEF V
  <2>3. MapThenSumSet(WordScore, Marked) <= MapThenSumSet(WordScore, V)
    BY <2>1, <2>2, ScoreMore
  <2> QED
    BY <1>1, <2>3 DEF DictionaryScore, V
<1> QED
  BY <1>1, <1>2, <1>4, <1>5, <1>6

\* BoundInv is inductive.
THEOREM BoundInvariant == Spec => []BoundInv
<1>1. Init => BoundInv
  <2>1. Init => UnionInv /\ ClassInv /\ CountInv
    BY DEF Init, UnionInv, ClassInv, CountInv
  <2> QED
    BY <2>1, InitPath DEF BoundInv
<1>2. BoundInv /\ [Next]_vars => BoundInv'
  BY NextPath, NextUnion, NextClass, NextCounts DEF BoundInv
<1> QED
  BY <1>1, <1>2, PTL DEF Spec

\* UpperBound keeps the promise that Breaker relies on (bucket_solver.h:49): when
\* it returns, both bounds are above what the caller bails out at, or no board of
\* the class scores more than the bound; and on a class of one board sum_union is
\* no more than its score.
THEOREM BoundsEveryBoard == Spec => []KeepsContract
<1>1. BoundInv => KeepsContract
  <2> SUFFICES ASSUME BoundInv, pc = "done" PROVE BoundsClass(bd, details, bailout)
    BY DEF KeepsContract
  <2>1. \A r \in Reps(bd) :
           /\ details.max_nomark \in Nat /\ details.sum_union \in Nat /\ bailout \in Nat
           /\ DictionaryScore(r) \in Nat
           /\ \/ CanBailOut(details)
              \/ /\ DictionaryScore(r) <= details.max_nomark
                 /\ DictionaryScore(r) <= details.sum_union
           /\ IsSingle(bd) => details.sum_union <= DictionaryScore(r)
    BY DoneBounds
  <2>2. CanBailOut(details) => Bound(details) > bailout
    BY DEF CanBailOut, Bound
  <2>3. ~CanBailOut(details) => \A r \in Reps(bd) : DictionaryScore(r) <= Bound(details)
    BY <2>1 DEF Bound
  <2> QED
    BY <2>1, <2>2, <2>3 DEF BoundsClass
<1> QED
  BY <1>1, BoundInvariant, PTL

\* On a class of one board, searched to its end, sum_union is the board's score:
\* Details().sum_union is exact there, although the marks are shared by all the
\* letters of all the cells (3x3/ibuckets.cc:85).
THEOREM ExactOnOneBoard == Spec => []ExactOnBoards
<1>1. BoundInv => ExactOnBoards
  <2> SUFFICES ASSUME BoundInv, pc = "done", IsSingle(bd), ~CanBailOut(details),
                      NEW r \in Reps(bd)
               PROVE  details.sum_union = DictionaryScore(r)
    BY DEF ExactOnBoards
  <2>1. /\ details.sum_union \in Nat /\ DictionaryScore(r) \in Nat
        /\ DictionaryScore(r) <= details.sum_union
        /\ details.sum_union <= DictionaryScore(r)
    BY DoneBounds
  <2> QED
    BY <2>1
<1> QED
  BY <1>1, BoundInvariant, PTL
==============================================================================
