---------------------------- MODULE BogglerProofs ----------------------------
(***************************************************************************)
(* Proofs about the Bogglers, whatever the sizes, the words and the boards *)
(* are.  Boggler: used_, the node, the length and the score follow the     *)
(* calls of DoDFS.  MultiBoggle: its calls go along the trails of cells    *)
(* whose letters begin words, so that what they find, keep and score is    *)
(* what the boards have, with letters in their corners or without.         *)
(***************************************************************************)
EXTENDS Boggler, MultiBoggle, ScoringProofs

-----------------------------------------------------------------------------
\* A board has finitely many cells, and some.
LEMMA CellsFinite == NumCells \in Nat \ {0} /\ IsFiniteSet(Cells)
<1>1. NumCells \in Nat \ {0}
  <2>1. \A w, h \in Nat \ {0} : w * h \in Nat \ {0}
    OBVIOUS
  <2> QED
    BY <2>1, GridAssumption DEF NumCells
<1> QED
  BY <1>1, FS_Interval DEF Cells

(* The boards that are parsed.                                             *)

\* A string that parses is a board of letters.
LEMMA StringIsBoard ==
    ASSUME NEW s \in Strings, Len(s) = NumCells
    PROVE  /\ DOMAIN s = Cells
           /\ ToSet(s) \subseteq Letters => s \in [Cells -> Letters]
<1>1. s \in Seq(ToSet(s))
  BY StringsAssumption
<1>2. DOMAIN s = 1..Len(s) /\ s \in [1..Len(s) -> ToSet(s)]
  BY <1>1, LenProperties
<1> QED
  BY <1>2 DEF Cells

\* One that does not leaves letters on the board all the same (ParseBoard sets
\* the cells one after the other).
LEMMA ParsedIsBoard ==
    ASSUME NEW s \in Strings, bd \in [Cells -> Letters]
    PROVE  Parsed(s) \in [Cells -> Letters]
<1> DEFINE bad == {i \in DOMAIN s : s[i] \notin Letters}
<1>1. CASE Len(s) # NumCells
  BY <1>1 DEF Parsed
<1>2. CASE Len(s) = NumCells
  <2>1. DOMAIN s = Cells /\ Cells \subseteq Nat
    BY <1>2, StringIsBoard DEF Cells
  <2>2. ASSUME NEW k \in Cells, k <= GoodPrefix(s) PROVE s[k] \in Letters
    <3>1. CASE bad = {}
      BY <2>1, <3>1
    <3>2. CASE bad # {}
      <4>1. bad \subseteq Nat
        BY <2>1
      <4>2. \E x \in bad : \A y \in bad : x <= y
        BY <3>2, <4>1, LeastElement
      <4> DEFINE x == Min(bad)
      <4>3. x \in bad /\ \A y \in bad : x <= y
        BY <4>2 DEF Min
      <4>4. GoodPrefix(s) = x - 1
        BY <3>2 DEF GoodPrefix
      <4> HIDE DEF x
      <4>5. \A m, n \in Nat : m <= n - 1 => ~(n <= m)
        OBVIOUS
      <4>6. k \notin bad
        BY <2>1, <2>2, <4>1, <4>3, <4>4, <4>5
      <4> QED
        BY <2>1, <4>6
    <3> QED
      BY <3>1, <3>2
  <2> QED
    BY <1>2, <2>2 DEF Parsed
<1> QED
  BY <1>1, <1>2

-----------------------------------------------------------------------------
(* The calls of DoDFS in progress.                                         *)

\* The calls in st on board b, each in a cell of its own, are on the cells of u,
\* and the node and the length of each are those of the letters so far.
PathOK(b, st, u) ==
    /\ u = {st[n].cell : n \in 1..Len(st)}
    /\ Cardinality(u) = Len(st)
    /\ \A m, n \in 1..Len(st) : m # n => st[m].cell # st[n].cell
    /\ \A n \in 1..Len(st) :
          /\ st[n].node = [m \in 1..n |-> b[st[m].cell]]
          /\ st[n].len = WordLen(st[n].node)

\* The letters of the cells of a stack.
Spelled(b, st) == [m \in 1..Len(st) |-> b[st[m].cell]]

\* A call in another cell carries on the path.
LEMMA PushPath ==
    ASSUME NEW b \in [Cells -> Letters], NEW st \in Seq(Frame), NEW u \in SUBSET Cells,
           PathOK(b, st, u), NEW f \in Frame, f.cell \notin u,
           f.node = Append(Spelled(b, st), b[f.cell]),
           f.len = WordLen(Spelled(b, st)) + LetterLen(b[f.cell])
    PROVE  /\ PathOK(b, Append(st, f), u \cup {f.cell})
           /\ f.len = WordLen(f.node)
<1> DEFINE l == Len(st)
           a == Append(st, f)
           t == Spelled(b, st)
           g == [m \in 1..(l + 1) |-> b[a[m].cell]]
<1>1. /\ l \in Nat /\ Len(a) = l + 1 /\ a \in Seq(Frame)
      /\ \A n \in 1..(l + 1) :
            \/ n \in 1..l /\ n # l + 1 /\ a[n] = st[n]
            \/ n = l + 1 /\ n \notin 1..l /\ a[n] = f
      /\ \A n \in 1..l : n \in 1..(l + 1) /\ n < l + 1
  BY AppendCases
<1>2. \A n \in 1..l : st[n].cell \in Cells
  <2>1. \A n \in 1..Len(st) : st[n] \in Frame
    BY ElementOfSeq
  <2> QED
    BY <2>1 DEF Frame
<1>3. f.cell \in Cells
  BY DEF Frame
<1>4. t \in Seq(Letters) /\ Len(t) = l /\ \A m \in 1..l : t[m] = b[st[m].cell]
  <2>1. t \in [1..l -> Letters]
    BY <1>2 DEF Spelled
  <2>2. t \in Seq(Letters)
    BY ONLY <1>1, <2>1, FunctionIsSeq, Zenon
  <2>3. DOMAIN t = 1..l
    BY <2>1
  <2>4. Len(t) = l
    <3>1. Len(t) \in Nat /\ 1..Len(t) = 1..l
      BY <2>2, <2>3, LenProperties
    <3> HIDE DEF t, l
    <3> QED
      BY <1>1, <3>1, SameInterval
  <2> QED
    BY <2>2, <2>4 DEF Spelled
<1> HIDE DEF a, t, l
<1>5. l + 1 \in 1..(l + 1)
  BY <1>1
<1>6. f.node = g
  <2> DEFINE d == Append(t, b[f.cell])
  <2>1. /\ d \in Seq(Letters) /\ Len(d) = l + 1
        /\ \A m \in 1..l : d[m] = t[m]
        /\ d[l + 1] = b[f.cell]
    BY <1>3, <1>4, AppendProperties
  <2>2. d \in [1..(l + 1) -> Letters]
    BY <2>1, LenProperties
  <2> HIDE DEF d
  <2>3. \A m \in 1..(l + 1) : d[m] = g[m]
    BY <1>1, <1>4, <2>1
  <2>4. d = g
    BY <2>2, <2>3
  <2> QED
    BY <2>4 DEF d, t
<1>7. f.len = WordLen(f.node)
  BY <1>3, <1>4, WordLenAppend DEF t
<1>8. ASSUME NEW n \in 1..l
      PROVE  [m \in 1..n |-> b[a[m].cell]] = [m \in 1..n |-> b[st[m].cell]]
  <2>1. \A m \in 1..n : m \in 1..l
    BY <1>1
  <2> QED
    BY <1>1, <2>1
<1>9. \A n \in 1..(l + 1) : /\ a[n].node = [m \in 1..n |-> b[a[m].cell]]
                            /\ a[n].len = WordLen(a[n].node)
  <2>1. \A n \in 1..l : /\ st[n].node = [m \in 1..n |-> b[st[m].cell]]
                        /\ st[n].len = WordLen(st[n].node)
    BY DEF PathOK, l
  <2> QED
    BY <1>1, <1>6, <1>7, <1>8, <2>1
<1>10. u = {st[n].cell : n \in 1..l} /\ Cardinality(u) = l
  BY DEF PathOK, l
<1>11. u \cup {f.cell} = {a[n].cell : n \in 1..(l + 1)}
  BY <1>1, <1>5, <1>10
<1>12. Cardinality(u \cup {f.cell}) = l + 1
  <2>1. IsFiniteSet(u)
    BY CellsFinite, FS_Subset
  <2> QED
    BY <1>10, <2>1, FS_AddElement
<1>13. \A m, n \in 1..(l + 1) : m # n => a[m].cell # a[n].cell
  <2>1. \A m, n \in 1..l : m # n => st[m].cell # st[n].cell
    BY DEF PathOK, l
  <2>2. \A n \in 1..l : st[n].cell # f.cell
    BY <1>10
  <2> QED
    BY <1>1, <2>1, <2>2
<1> QED
  BY <1>1, <1>7, <1>9, <1>11, <1>12, <1>13 DEF PathOK, a

\* Calls that only differ in what they still have to visit are on one path.
LEMMA SamePath ==
    ASSUME NEW b, NEW st \in Seq(Frame), NEW ot \in Seq(Frame), NEW u, PathOK(b, st, u),
           Len(ot) = Len(st),
           \A n \in 1..Len(st) : /\ ot[n].cell = st[n].cell
                                 /\ ot[n].node = st[n].node
                                 /\ ot[n].len = st[n].len
    PROVE  PathOK(b, ot, u) /\ Spelled(b, ot) = Spelled(b, st)
<1> DEFINE l == Len(st)
<1>1. l \in Nat
  BY LenProperties
<1> HIDE DEF l
<1>2. ASSUME NEW n \in 1..l
      PROVE  [m \in 1..n |-> b[ot[m].cell]] = [m \in 1..n |-> b[st[m].cell]]
  <2>1. \A m \in 1..n : m \in 1..l
    BY <1>1
  <2> QED
    BY <2>1 DEF l
<1>3. {ot[n].cell : n \in 1..l} = {st[n].cell : n \in 1..l}
  BY DEF l
<1>4. ASSUME NEW n \in 1..l
      PROVE  /\ ot[n].node = [m \in 1..n |-> b[ot[m].cell]]
             /\ ot[n].len = WordLen(ot[n].node)
  <2>1. ot[n].node = st[n].node /\ ot[n].len = st[n].len
    BY DEF l
  <2>2. /\ st[n].node = [m \in 1..n |-> b[st[m].cell]]
        /\ st[n].len = WordLen(st[n].node)
    BY DEF l, PathOK
  <2> QED
    BY <1>2, <2>1, <2>2
<1>5. Spelled(b, ot) = Spelled(b, st)
  <2>1. [m \in 1..l |-> b[ot[m].cell]] = [m \in 1..l |-> b[st[m].cell]]
    BY DEF l
  <2> QED
    BY <2>1 DEF Spelled, l
<1>6. \A m, n \in 1..l : m # n => ot[m].cell # ot[n].cell
  <2>1. \A m, n \in 1..l : m # n => st[m].cell # st[n].cell
    BY DEF PathOK, l
  <2>2. \A n \in 1..l : ot[n].cell = st[n].cell
    BY DEF l
  <2> QED
    BY <2>1, <2>2
<1>7. u = {ot[n].cell : n \in 1..l} /\ Cardinality(u) = l /\ Len(ot) = l
  BY <1>3 DEF PathOK, l
<1>8. \A n \in 1..Len(ot) : /\ ot[n].node = [m \in 1..n |-> b[ot[m].cell]]
                            /\ ot[n].len = WordLen(ot[n].node)
  BY <1>4, <1>7
<1>9. PathOK(b, ot, u)
  BY <1>6, <1>7, <1>8 DEF PathOK
<1> QED
  BY <1>5, <1>9

\* When the innermost call returns, its cell is free again and no other.
LEMMA PopPath ==
    ASSUME NEW b, NEW st \in Seq(Frame), st # <<>>, NEW u \in SUBSET Cells, PathOK(b, st, u)
    PROVE  /\ st[Len(st)].cell \in u
           /\ PathOK(b, Front(st), u \ {st[Len(st)].cell})
<1> DEFINE l == Len(st) - 1
           p == Front(st)
           c == st[Len(st)].cell
<1>1. /\ Len(st) = l + 1 /\ l \in Nat
      /\ p \in Seq(Frame) /\ Len(p) = l
      /\ \A n \in 1..l : p[n] = st[n]
      /\ c = st[l + 1].cell
  BY AllButLast DEF Front
<1> HIDE DEF l, p, c
<1>2. /\ l + 1 \in 1..(l + 1) /\ l + 1 \notin 1..l
      /\ \A n \in 1..l : n \in 1..(l + 1)
      /\ \A n \in 1..(l + 1) : n \in 1..l \/ n = l + 1
  BY <1>1
<1>3. /\ u = {st[n].cell : n \in 1..(l + 1)} /\ Cardinality(u) = l + 1
      /\ \A m, n \in 1..(l + 1) : m # n => st[m].cell # st[n].cell
      /\ \A n \in 1..(l + 1) : /\ st[n].node = [m \in 1..n |-> b[st[m].cell]]
                               /\ st[n].len = WordLen(st[n].node)
  BY <1>1 DEF PathOK
<1>4. c \in u
  BY <1>1, <1>2, <1>3
<1>5. u \ {c} = {p[n].cell : n \in 1..l}
  BY <1>1, <1>2, <1>3
<1>6. Cardinality(u \ {c}) = l
  <2>1. IsFiniteSet(u)
    BY CellsFinite, FS_Subset
  <2>2. Cardinality(u \ {c}) = Cardinality(u) - 1
    BY <1>4, <2>1, FS_RemoveElement
  <2> QED
    BY <1>1, <1>3, <2>2
<1>7. ASSUME NEW n \in 1..l
      PROVE  [m \in 1..n |-> b[p[m].cell]] = [m \in 1..n |-> b[st[m].cell]]
  <2>1. \A m \in 1..n : m \in 1..l
    BY <1>1
  <2> QED
    BY <1>1, <2>1
<1>8. ASSUME NEW n \in 1..l
      PROVE  /\ p[n].node = [m \in 1..n |-> b[p[m].cell]]
             /\ p[n].len = WordLen(p[n].node)
  <2>1. p[n] = st[n] /\ n \in 1..(l + 1)
    BY <1>1, <1>2
  <2>2. /\ st[n].node = [m \in 1..n |-> b[st[m].cell]]
        /\ st[n].len = WordLen(st[n].node)
    BY <1>3, <2>1
  <2> QED
    BY <1>7, <2>1, <2>2
<1>9. \A m, n \in 1..l : m # n => p[m].cell # p[n].cell
  BY <1>1, <1>2, <1>3
<1>10. PathOK(b, p, u \ {c})
  BY <1>1, <1>5, <1>6, <1>8, <1>9 DEF PathOK
<1> QED
  BY <1>4, <1>10 DEF p, c

\* No calls, no path.
LEMMA EmptyPath ==
    /\ \A b : PathOK(b, <<>>, {}) /\ Spelled(b, <<>>) = <<>>
    /\ WordLen(<<>>) = 0
    /\ \A b, u : PathOK(b, <<>>, u) => u = {}
<1>1. Len(<<>>) = 0 /\ Cardinality({}) = 0 /\ 1..0 = {}
  BY FS_EmptySet
<1>2. {i \in DOMAIN <<>> : <<>>[i] = Q} = {}
  OBVIOUS
<1>3. WordLen(<<>>) = 0
  BY <1>1, <1>2 DEF WordLen
<1>4. \A b : PathOK(b, <<>>, {})
  BY <1>1 DEF PathOK
<1>5. \A b : Spelled(b, <<>>) = <<>>
  BY <1>1 DEF Spelled
<1>6. \A b, u : PathOK(b, <<>>, u) => u = {}
  BY <1>1 DEF PathOK
<1> QED
  BY <1>3, <1>4, <1>5, <1>6

-----------------------------------------------------------------------------
(* The state.                                                              *)

\* A board that is begun may still be counted.
PathInv ==
    /\ TypeOK
    /\ PathOK(bd, stack, used)
    /\ pc = "search" => num_boards < MaxBoards
    /\ pc # "search" => stack = <<>>

\* The words that this run has marked.
Marked == {w \in Words : marks[w] = runs}

\* What DoDFS does down to its first visit: the cell goes on the path, and the
\* word that ends there, if there is one and it is new, gets its mark and its
\* points.
LEMMA DoDFSSteps ==
    ASSUME TypeOK,
           NEW rest \in Seq(Frame), PathOK(bd, rest, used),
           NEW k \in Cells, k \notin used,
           NEW len, NEW t, t = Spelled(bd, rest), len = WordLen(t),
           StartsWord(t, bd[k]), DoDFS(k, len, t, rest)
    PROVE  /\ stack' \in Seq(Frame)
           /\ used' \subseteq Cells
           /\ PathOK(bd, stack', used')
           /\ marks' \in [Words -> 0..(Run - 1)]
           /\ score' \in Nat
           /\ \/ marks' = marks /\ score' = score
              \/ \E w \in Words \ Marked :
                    /\ marks' = [marks EXCEPT ![w] = runs]
                    /\ score' = score + WordScore(w)
           /\ \E f \in Frame : /\ stack' = Append(rest, f) /\ f.cell = k
                               /\ f.node = Append(t, bd[k]) /\ f.todo = Visits[k]
<1> USE DEF TypeOK
<1> DEFINE node == Append(t, bd[k])
           length == len + LetterLen(bd[k])
           f == [cell |-> k, len |-> length, node |-> node, todo |-> Visits[k]]
<1>1. len \in Nat
  <2>1. \A n \in 1..Len(rest) : rest[n].cell \in Cells
    <3>1. \A n \in 1..Len(rest) : rest[n] \in Frame
      BY ElementOfSeq
    <3> QED
      BY <3>1 DEF Frame
  <2>2. t \in [1..Len(rest) -> Letters]
    BY <2>1 DEF Spelled
  <2>3. Len(rest) \in Nat
    BY LenProperties
  <2>4. t \in Seq(Letters)
    BY ONLY <2>2, <2>3, FunctionIsSeq, Zenon
  <2> QED
    BY <2>4, WordLenAppend
<1>2. f \in Frame
  <2>1. Visits[k] \in Seq(Cells)
    BY VisitsAssumption DEF ListsNeighbours, Cells, NumCells
  <2>2. node \in Nodes
    BY DEF StartsWord
  <2>3. length \in Nat
    BY <1>1 DEF LetterLen
  <2> HIDE DEF node, length
  <2> QED
    BY <2>1, <2>2, <2>3 DEF Frame
<1>3. /\ stack' = Append(rest, f)
      /\ used' = used \cup {k}
      /\ IF Fresh(node)
         THEN /\ marks' = [marks EXCEPT ![node] = runs]
              /\ score' = score + kWordScores[length]
         ELSE UNCHANGED <<marks, score>>
  BY DEF DoDFS, Toggle
<1>4. f.cell = k /\ f.node = node /\ f.len = length /\ f.todo = Visits[k]
  OBVIOUS
<1> HIDE DEF f
<1>10. \E e \in Frame : /\ stack' = Append(rest, e) /\ e.cell = k
                        /\ e.node = node /\ e.todo = Visits[k]
  BY <1>2, <1>3, <1>4
<1>5. PathOK(bd, stack', used') /\ length = WordLen(node)
  BY <1>2, <1>3, <1>4, PushPath
<1>6. stack' \in Seq(Frame)
  BY <1>2, <1>3, AppendProperties
<1>7. ASSUME Fresh(node)
      PROVE  /\ node \in Words \ Marked
             /\ score' = score + WordScore(node)
             /\ score' \in Nat
             /\ marks' = [marks EXCEPT ![node] = runs]
             /\ marks' \in [Words -> 0..(Run - 1)]
  <2>1. node \in Words /\ marks[node] # runs
    BY <1>7 DEF Fresh, IsWord
  <2>2. WordScore(node) \in Nat
    BY <2>1, WordScoreType
  <2>3. /\ marks' = [marks EXCEPT ![node] = runs]
        /\ score' = score + WordScore(node)
    BY <1>3, <1>5, <1>7 DEF WordScore
  <2> HIDE DEF node
  <2> QED
    BY <2>1, <2>2, <2>3 DEF Marked
<1> HIDE DEF node, length
<1>8. CASE Fresh(node)
  BY <1>3, <1>5, <1>6, <1>7, <1>8, <1>10 DEF node
<1>9. CASE ~Fresh(node)
  BY <1>3, <1>5, <1>6, <1>9, <1>10 DEF node
<1> QED
  BY <1>8, <1>9

\* What a run starts from.
LEMMA StartRunSteps ==
    ASSUME TypeOK, StartRun, num_boards < MaxBoards
    PROVE  /\ pc' = "search" /\ used' = {} /\ stack' = <<>>
           /\ score' = 0 /\ root' \in 1..(NumCells + 1)
           /\ runs' \in 0..(Run - 1)
<1>1. runs' = (runs + 1) % Run /\ runs \in Nat /\ Run \in Nat \ {0}
  BY RunAssumption DEF StartRun, NextRun, TypeOK
<1>2. \A n \in Nat, m \in Nat \ {0} : (n + 1) % m \in 0..(m - 1)
  OBVIOUS
<1>3. runs' \in 0..(Run - 1)
  BY <1>1, <1>2
<1>4. 1 \in 1..(NumCells + 1)
  BY CellsFinite
<1> QED
  BY <1>3, <1>4 DEF StartRun

\* The neighbour whose turn it is, and the calls when it has had it.
Neighbour == Head(Top.todo)
NextStack == Append(Rest, [Top EXCEPT !.todo = Tail(@)])

\* They are on the same path as before.
LEMMA NextStackIs ==
    ASSUME PathInv, VisitNeighbour
    PROVE  /\ pc = "search" /\ UNCHANGED <<pc, bd, runs, num_boards, returned, root>>
           /\ IF Neighbour \notin used /\ StartsWord(Top.node, bd[Neighbour])
              THEN DoDFS(Neighbour, Top.len, Top.node, NextStack)
              ELSE stack' = NextStack /\ UNCHANGED <<used, marks, score>>
           /\ Neighbour \in Cells
           /\ Len(stack) \in Nat \ {0}
           /\ NextStack \in Seq(Frame) /\ Len(NextStack) = Len(stack)
           /\ PathOK(bd, NextStack, used)
           /\ Top.node = Spelled(bd, NextStack) /\ Top.len = WordLen(Top.node)
           /\ \A m \in 1..Len(stack) :
                 /\ NextStack[m].cell = stack[m].cell
                 /\ m # Len(stack) => NextStack[m].todo = stack[m].todo
                 /\ m = Len(stack) => /\ stack[m].todo \in Seq(Cells)
                                      /\ stack[m].todo # <<>>
                                      /\ Neighbour = Head(stack[m].todo)
                                      /\ NextStack[m].todo = Tail(stack[m].todo)
<1> USE DEF PathInv, TypeOK
<1> DEFINE n == Neighbour
           f == [Top EXCEPT !.todo = Tail(@)]
           next == NextStack
<1>1. /\ pc = "search" /\ stack # <<>> /\ Top.todo # <<>>
      /\ UNCHANGED <<pc, bd, runs, num_boards, returned, root>>
      /\ IF n \notin used /\ StartsWord(Top.node, bd[n])
         THEN DoDFS(n, Top.len, Top.node, next)
         ELSE stack' = next /\ UNCHANGED <<used, marks, score>>
  BY DEF VisitNeighbour, Neighbour, NextStack
<1>2. /\ Len(stack) \in Nat \ {0} /\ Top = stack[Len(stack)] /\ Top \in Frame
      /\ Rest \in Seq(Frame) /\ Len(Rest) = Len(stack) - 1
      /\ \A m \in 1..(Len(stack) - 1) : Rest[m] = stack[m]
  BY <1>1, AllButLast DEF Top, Rest, Last, Front
<1>3. n \in Cells /\ Tail(Top.todo) \in Seq(Cells) /\ Top.todo \in Seq(Cells)
  <2>1. Top.todo \in Seq(Cells)
    BY <1>2 DEF Frame
  <2> QED
    BY <1>1, <2>1, HeadTailProperties DEF Neighbour
<1>4. /\ f \in Frame /\ f.cell = Top.cell /\ f.node = Top.node /\ f.len = Top.len
      /\ f.todo = Tail(Top.todo)
  BY <1>2, <1>3 DEF Frame
<1> HIDE DEF f, n
<1>5. /\ next \in Seq(Frame) /\ Len(next) = Len(stack)
      /\ \A m \in 1..Len(stack) : \/ m # Len(stack) /\ next[m] = stack[m]
                                  \/ m = Len(stack) /\ stack[m] = Top /\ next[m] = f
  <2> DEFINE l == Len(stack) - 1
  <2>1. l \in Nat /\ Len(stack) = l + 1
    BY <1>2
  <2>2. /\ next \in Seq(Frame) /\ Len(next) = l + 1
        /\ \A m \in 1..(l + 1) : \/ m \in 1..l /\ m # l + 1 /\ next[m] = Rest[m]
                                 \/ m = l + 1 /\ next[m] = f
    BY <1>2, <1>4, AppendCases DEF NextStack, f
  <2> HIDE DEF l, next
  <2>3. /\ \A m \in 1..l : Rest[m] = stack[m]
        /\ Top = stack[l + 1]
    BY <1>2, <2>1 DEF l
  <2> QED
    BY <1>4, <2>1, <2>2, <2>3
<1> HIDE DEF next
<1>6. \A m \in 1..Len(stack) : /\ next[m].cell = stack[m].cell
                               /\ next[m].node = stack[m].node
                               /\ next[m].len = stack[m].len
  BY <1>4, <1>5
<1>7. PathOK(bd, next, used) /\ Spelled(bd, next) = Spelled(bd, stack)
  BY <1>5, <1>6, SamePath
<1>8. Top.node = Spelled(bd, stack) /\ Top.len = WordLen(Top.node)
  <2>1. Len(stack) \in 1..Len(stack)
    BY <1>2
  <2> QED
    BY <1>2, <2>1 DEF PathOK, Spelled
<1>9. Neighbour = Head(Top.todo)
  BY DEF Neighbour
<1> QED
  BY <1>1, <1>2, <1>3, <1>4, <1>5, <1>6, <1>7, <1>8, <1>9 DEF n, next

\* One visit: the call goes on to the next neighbour, or into it.
LEMMA VisitSteps ==
    ASSUME PathInv, VisitNeighbour
    PROVE  /\ pc = "search" /\ UNCHANGED <<pc, bd, runs, num_boards, returned, root>>
           /\ stack' \in Seq(Frame)
           /\ used' \subseteq Cells
           /\ PathOK(bd, stack', used')
           /\ marks' \in [Words -> 0..(Run - 1)]
           /\ score' \in Nat
           /\ \/ marks' = marks /\ score' = score
              \/ \E w \in Words \ Marked :
                    /\ marks' = [marks EXCEPT ![w] = runs]
                    /\ score' = score + WordScore(w)
<1> USE DEF PathInv, TypeOK
<1>1. /\ pc = "search" /\ UNCHANGED <<pc, bd, runs, num_boards, returned, root>>
      /\ IF Neighbour \notin used /\ StartsWord(Top.node, bd[Neighbour])
         THEN DoDFS(Neighbour, Top.len, Top.node, NextStack)
         ELSE stack' = NextStack /\ UNCHANGED <<used, marks, score>>
      /\ Neighbour \in Cells /\ NextStack \in Seq(Frame)
      /\ PathOK(bd, NextStack, used)
      /\ Top.node = Spelled(bd, NextStack) /\ Top.len = WordLen(Top.node)
  BY NextStackIs
<1>2. CASE stack' = NextStack /\ UNCHANGED <<used, marks, score>>
  BY <1>1, <1>2
<1>3. CASE Neighbour \notin used /\ StartsWord(Top.node, bd[Neighbour])
           /\ DoDFS(Neighbour, Top.len, Top.node, NextStack)
  <2>1. /\ stack' \in Seq(Frame) /\ used' \subseteq Cells
        /\ PathOK(bd, stack', used')
        /\ marks' \in [Words -> 0..(Run - 1)] /\ score' \in Nat
        /\ \/ marks' = marks /\ score' = score
           \/ \E w \in Words \ Marked :
                 /\ marks' = [marks EXCEPT ![w] = runs]
                 /\ score' = score + WordScore(w)
    BY <1>1, <1>3, DoDFSSteps
  <2> QED
    BY <1>1, <2>1
<1> QED
  BY <1>1, <1>2, <1>3

\* The solver starts without a call in progress.
LEMMA InitPath == Init => PathInv
<1> SUFFICES ASSUME Init PROVE PathInv
  OBVIOUS
<1>1. bd \in [Cells -> Letters]
  BY StringIsBoard DEF Init
<1>2. marks \in [Words -> 0..(Run - 1)] /\ runs \in 0..(Run - 1) /\ num_boards \in 0..MaxBoards
  <2>1. 0 \in 0..(Run - 1) /\ 0 \in 0..MaxBoards
    BY RunAssumption
  <2> QED
    BY <2>1 DEF Init
<1>3. root \in 1..(NumCells + 1)
  BY CellsFinite DEF Init
<1>4. stack \in Seq(Frame) /\ PathOK(bd, stack, used)
  BY EmptySeq, EmptyPath DEF Init
<1> QED
  BY <1>1, <1>2, <1>3, <1>4 DEF Init, PathInv, TypeOK

\* Every step keeps used_, the nodes and the lengths those of the calls.
LEMMA NextPath == PathInv /\ [Next]_vars => PathInv'
<1> SUFFICES ASSUME PathInv, [Next]_vars PROVE PathInv'
  OBVIOUS
<1> USE DEF PathInv, TypeOK
<1>0. <<>> \in Seq(Frame) /\ \A b : PathOK(b, <<>>, {})
  BY EmptySeq, EmptyPath
<1>1. CASE ParseBoard
  <2>1. bd' \in [Cells -> Letters]
    BY <1>1, ParsedIsBoard DEF ParseBoard
  <2>2. stack = <<>> /\ used = {}
    BY <1>1, EmptyPath DEF ParseBoard
  <2> QED
    BY <1>0, <1>1, <2>1, <2>2 DEF ParseBoard
<1>2. CASE Score
  <2>1. StartRun /\ num_boards < MaxBoards /\ UNCHANGED <<bd, marks, num_boards, returned>>
    BY <1>2 DEF Score
  <2>2. /\ pc' = "search" /\ used' = {} /\ stack' = <<>>
        /\ score' = 0 /\ root' \in 1..(NumCells + 1)
        /\ runs' \in 0..(Run - 1)
    BY <2>1, StartRunSteps
  <2> QED
    BY <1>0, <2>1, <2>2
<1>3. CASE ScoreString
  <2>1. PICK s \in Strings :
            /\ bd' = Parsed(s)
            /\ IF Parses(s)
               THEN StartRun /\ UNCHANGED returned
               ELSE /\ returned' = -1
                    /\ pc' = "idle"
                    /\ UNCHANGED <<runs, used, score, root, stack>>
    BY <1>3 DEF ScoreString
  <2>2. bd' \in [Cells -> Letters]
    BY <2>1, ParsedIsBoard
  <2>3. /\ stack = <<>> /\ used = {} /\ num_boards < MaxBoards
        /\ UNCHANGED <<marks, num_boards>>
    BY <1>3, EmptyPath DEF ScoreString
  <2>4. CASE StartRun /\ UNCHANGED returned
    <3>1. /\ pc' = "search" /\ used' = {} /\ stack' = <<>>
          /\ score' = 0 /\ root' \in 1..(NumCells + 1)
          /\ runs' \in 0..(Run - 1)
      BY <2>3, <2>4, StartRunSteps
    <3> QED
      BY <1>0, <2>2, <2>3, <2>4, <3>1
  <2>5. CASE /\ returned' = -1
             /\ pc' = "idle"
             /\ UNCHANGED <<runs, used, score, root, stack>>
    BY <1>0, <2>2, <2>3, <2>5
  <2> QED
    BY <2>1, <2>4, <2>5
<1>4. CASE StartRoot
  <2>1. /\ pc = "search" /\ stack = <<>> /\ root <= NumCells /\ root' = root + 1
        /\ UNCHANGED <<pc, bd, runs, num_boards, returned>>
    BY <1>4 DEF StartRoot
  <2>2. root \in Cells /\ root' \in 1..(NumCells + 1)
    BY <2>1, CellsFinite DEF Cells
  <2>3. used = {} /\ WordLen(<<>>) = 0 /\ Spelled(bd, <<>>) = <<>>
    BY <2>1, EmptyPath
  <2>4. CASE UNCHANGED <<used, marks, score, stack>>
    BY <2>1, <2>2, <2>4
  <2>5. CASE StartsWord(<<>>, bd[root]) /\ DoDFS(root, 0, <<>>, <<>>)
    <3>1. /\ stack' \in Seq(Frame) /\ used' \subseteq Cells
          /\ PathOK(bd, stack', used')
          /\ marks' \in [Words -> 0..(Run - 1)] /\ score' \in Nat
      BY <1>0, <2>2, <2>3, <2>5, DoDFSSteps
    <3> QED
      BY <2>1, <2>2, <3>1
  <2> QED
    BY <1>4, <2>4, <2>5 DEF StartRoot
<1>5. CASE EndScore
  <2>1. num_boards + 1 \in 0..MaxBoards
    BY <1>5, RunAssumption DEF EndScore
  <2> QED
    BY <1>5, <2>1 DEF EndScore
<1>6. CASE VisitNeighbour
  BY <1>6, VisitSteps
<1>7. CASE EndDFS
  <2>1. /\ pc = "search" /\ stack # <<>>
        /\ used' = Toggle(used, Top.cell) /\ stack' = Rest
        /\ UNCHANGED <<pc, bd, marks, runs, score, num_boards, returned, root>>
    BY <1>7 DEF EndDFS
  <2>2. Top = stack[Len(stack)] /\ Rest = Front(stack) /\ Rest \in Seq(Frame)
    BY <2>1, AllButLast DEF Top, Rest, Last, Front
  <2>3. Top.cell \in used /\ PathOK(bd, Rest, used \ {Top.cell})
    BY <2>1, <2>2, PopPath
  <2>4. used' = used \ {Top.cell}
    BY <2>1, <2>3 DEF Toggle
  <2> QED
    BY <2>1, <2>2, <2>3, <2>4
<1>8. CASE UNCHANGED vars
  BY <1>8 DEF vars
<1> QED
  BY <1>1, <1>2, <1>3, <1>4, <1>5, <1>6, <1>7, <1>8 DEF Next, Search

\* used_ is at all times the cells of the calls of DoDFS in progress, each once,
\* and each call is at the node its cells spell (4x4/boggler.cc, DoDFS).
THEOREM PathIsInUse == Spec => [](TypeOK /\ PathInUse)
<1>1. Init => PathInv
  BY InitPath
<1>2. PathInv /\ [Next]_vars => PathInv'
  BY NextPath
<1>3. PathInv => TypeOK /\ PathInUse
  <2> SUFFICES ASSUME PathInv PROVE TypeOK /\ PathInUse
    OBVIOUS
  <2>1. TypeOK /\ PathOK(bd, stack, used)
    BY DEF PathInv
  <2>2. DOMAIN stack = 1..Len(stack)
    BY <2>1, LenProperties DEF TypeOK
  <2>3. PathInUse
    BY <2>1, <2>2 DEF PathOK, PathInUse
  <2> QED
    BY <2>1, <2>3
<1> QED
  BY <1>1, <1>2, <1>3, PTL DEF Spec

-----------------------------------------------------------------------------
(* The marks.                                                              *)

\* The number of this run is that of no earlier one.
MarkInv ==
    /\ runs = num_boards + (IF pc = "search" THEN 1 ELSE 0)
    /\ \A w \in Words : marks[w] <= runs
    /\ ScoreIsMarked

\* A new run has not marked a word yet.
LEMMA StartRunMarks ==
    ASSUME RunsDoNotWrap, TypeOK, MarkInv, pc # "search", StartRun,
           num_boards < MaxBoards, UNCHANGED <<marks, num_boards>>
    PROVE  MarkInv'
<1>1. /\ runs = num_boards /\ runs \in Nat /\ runs < MaxBoards
      /\ MaxBoards \in Nat /\ Run \in Nat /\ MaxBoards < Run
  BY RunAssumption DEF MarkInv, TypeOK, RunsDoNotWrap
<1>2. runs' = runs + 1
  <2>1. \A n, b, m \in Nat : n < b /\ b < m => (n + 1) % m = n + 1
    OBVIOUS
  <2> QED
    BY <1>1, <2>1 DEF StartRun, NextRun
<1>3. \A w \in Words : marks'[w] <= runs' /\ marks'[w] # runs'
  <2>1. \A w \in Words : marks[w] \in Nat /\ marks[w] <= runs
    BY DEF MarkInv, TypeOK
  <2>2. \A m, n \in Nat : m <= n => m <= n + 1 /\ m # n + 1
    OBVIOUS
  <2> QED
    BY <1>1, <1>2, <2>1, <2>2
<1>4. ScoreIsMarked'
  <2>1. {w \in Words : marks'[w] = runs'} = {}
    BY <1>3
  <2>2. score' = 0
    BY DEF StartRun
  <2> QED
    BY <2>1, <2>2, WordSumAdd DEF ScoreIsMarked
<1>5. runs' = num_boards' + 1 /\ pc' = "search"
  BY <1>1, <1>2 DEF StartRun
<1> QED
  BY <1>3, <1>4, <1>5 DEF MarkInv

\* A word that is marked gets its points.
LEMMA MarkScores ==
    ASSUME TypeOK, ScoreIsMarked, pc = "search", runs' = runs,
           \/ marks' = marks /\ score' = score
           \/ \E w \in Words \ Marked : /\ marks' = [marks EXCEPT ![w] = runs]
                                        /\ score' = score + WordScore(w)
    PROVE  ScoreIsMarked' /\ \A w \in Words : marks'[w] <= runs \/ marks'[w] = marks[w]
<1> DEFINE M == {w \in Words : marks'[w] = runs}
<1>1. score = MapThenSumSet(WordScore, Marked)
  BY DEF ScoreIsMarked, Marked
<1>2. CASE marks' = marks /\ score' = score
  BY <1>1, <1>2 DEF ScoreIsMarked, Marked
<1>3. ASSUME NEW w \in Words \ Marked, marks' = [marks EXCEPT ![w] = runs],
             score' = score + WordScore(w)
      PROVE  ScoreIsMarked' /\ \A v \in Words : marks'[v] <= runs \/ marks'[v] = marks[v]
  <2>1. marks'[w] = runs /\ \A v \in Words \ {w} : marks'[v] = marks[v]
    BY <1>3 DEF TypeOK
  <2>2. M = Marked \cup {w}
    BY <2>1 DEF Marked
  <2>3. Marked \in SUBSET Words /\ w \in Words /\ w \notin Marked
    BY DEF Marked
  <2>4. MapThenSumSet(WordScore, Marked \cup {w}) =
            MapThenSumSet(WordScore, Marked) + WordScore(w)
    BY <2>3, WordSumAdd
  <2>5. score' = MapThenSumSet(WordScore, M)
    BY <1>1, <1>3, <2>2, <2>4
  <2>6. \A v \in Words : marks'[v] <= runs \/ marks'[v] = marks[v]
    BY <2>1 DEF TypeOK
  <2> QED
    BY <2>5, <2>6 DEF ScoreIsMarked
<1> QED
  BY <1>2, <1>3

\* Every step keeps the score that of the words this run has marked.
LEMMA NextMark ==
    ASSUME RunsDoNotWrap
    PROVE  PathInv /\ MarkInv /\ [Next]_vars => MarkInv'
<1> SUFFICES ASSUME PathInv, MarkInv, [Next]_vars PROVE MarkInv'
  OBVIOUS
<1>0. TypeOK
  BY DEF PathInv
<1>1. CASE ParseBoard
  <2>1. UNCHANGED <<marks, runs, score, num_boards>> /\ pc' = "idle" /\ pc # "search"
    BY <1>1 DEF ParseBoard
  <2> QED
    BY <2>1 DEF MarkInv, ScoreIsMarked
<1>2. CASE Score
  BY <1>0, <1>2, StartRunMarks DEF Score
<1>3. CASE ScoreString
  <2>1. pc # "search" /\ num_boards < MaxBoards /\ UNCHANGED <<marks, num_boards>>
    BY <1>3 DEF ScoreString
  <2>2. CASE StartRun
    BY <1>0, <2>1, <2>2, StartRunMarks
  <2>3. CASE pc' = "idle" /\ runs' = runs
    BY <2>1, <2>3 DEF MarkInv, ScoreIsMarked
  <2>4. StartRun \/ (pc' = "idle" /\ runs' = runs)
    <3>1. PICK s \in Strings :
              IF Parses(s)
              THEN StartRun /\ UNCHANGED returned
              ELSE /\ returned' = -1
                   /\ pc' = "idle"
                   /\ UNCHANGED <<runs, used, score, root, stack>>
      BY <1>3 DEF ScoreString
    <3> QED
      BY <3>1
  <2> QED
    BY <2>2, <2>3, <2>4
<1>4. ASSUME pc = "search", UNCHANGED <<pc, runs, num_boards>>,
             \/ marks' = marks /\ score' = score
             \/ \E w \in Words \ Marked : /\ marks' = [marks EXCEPT ![w] = runs]
                                          /\ score' = score + WordScore(w)
      PROVE  MarkInv'
  <2>1. ScoreIsMarked' /\ \A w \in Words : marks'[w] <= runs \/ marks'[w] = marks[w]
    BY <1>0, <1>4, MarkScores DEF MarkInv
  <2>2. \A w \in Words : marks'[w] <= runs
    BY <2>1 DEF MarkInv
  <2> QED
    BY <1>4, <2>1, <2>2 DEF MarkInv
<1>5. CASE StartRoot
  <2>1. /\ pc = "search" /\ stack = <<>> /\ root <= NumCells
        /\ UNCHANGED <<pc, bd, runs, num_boards, returned>>
        /\ IF StartsWord(<<>>, bd[root]) THEN DoDFS(root, 0, <<>>, <<>>)
           ELSE UNCHANGED <<used, marks, score, stack>>
    BY <1>5 DEF StartRoot
  <2>2. CASE StartsWord(<<>>, bd[root]) /\ DoDFS(root, 0, <<>>, <<>>)
    <3>1. root \in Cells
      BY <1>0, <2>1, CellsFinite DEF Cells, TypeOK
    <3>2. /\ <<>> \in Seq(Frame) /\ PathOK(bd, <<>>, used) /\ used = {}
          /\ WordLen(<<>>) = 0 /\ Spelled(bd, <<>>) = <<>>
      BY <2>1, EmptySeq, EmptyPath DEF PathInv
    <3>3. \/ marks' = marks /\ score' = score
          \/ \E w \in Words \ Marked : /\ marks' = [marks EXCEPT ![w] = runs]
                                       /\ score' = score + WordScore(w)
      BY <1>0, <2>2, <3>1, <3>2, DoDFSSteps
    <3> QED
      BY <1>4, <2>1, <3>3
  <2> QED
    BY <1>4, <2>1, <2>2
<1>6. CASE VisitNeighbour
  <2>1. /\ pc = "search" /\ UNCHANGED <<pc, runs, num_boards>>
        /\ \/ marks' = marks /\ score' = score
           \/ \E w \in Words \ Marked : /\ marks' = [marks EXCEPT ![w] = runs]
                                        /\ score' = score + WordScore(w)
    BY <1>6, VisitSteps
  <2> QED
    BY <1>4, <2>1
<1>7. CASE EndScore
  <2>1. /\ pc = "search" /\ pc' = "done" /\ num_boards' = num_boards + 1
        /\ UNCHANGED <<marks, runs, score>>
    BY <1>7 DEF EndScore
  <2>2. runs = num_boards + 1
    BY <2>1 DEF MarkInv
  <2>3. num_boards + 1 + 0 = num_boards + 1
    BY <1>0 DEF TypeOK
  <2> QED
    BY <2>1, <2>2, <2>3 DEF MarkInv, ScoreIsMarked
<1>8. CASE EndDFS
  <2>1. pc = "search" /\ UNCHANGED <<pc, runs, num_boards, marks, score>>
    BY <1>8 DEF EndDFS
  <2> QED
    BY <1>4, <2>1
<1>9. CASE UNCHANGED vars
  BY <1>9 DEF vars, MarkInv, ScoreIsMarked
<1> QED
  BY <1>1, <1>2, <1>3, <1>5, <1>6, <1>7, <1>8, <1>9 DEF Next, Search

\* used_, the node, the length and the score agree with the calls in progress at
\* every step, whatever marks the earlier runs left (3x3, 3x4 and 4x4/boggler.cc,
\* InternalScore and DoDFS), as long as runs_ has not wrapped.
THEOREM PathIsTracked == ASSUME RunsDoNotWrap PROVE Spec => []PathTracked
<1>1. Init => MarkInv
  <2> SUFFICES ASSUME Init PROVE MarkInv
    OBVIOUS
  <2> QED
    BY DEF Init, MarkInv, ScoreIsMarked
<1>2. PathInv /\ MarkInv /\ [Next]_vars => MarkInv'
  BY NextMark
<1>3. Init => PathInv
  BY InitPath
<1>4. PathInv /\ [Next]_vars => PathInv'
  BY NextPath
<1>5. Spec => [](TypeOK /\ PathInUse)
  BY PathIsInUse
<1>6. TypeOK /\ PathInUse /\ MarkInv => PathTracked
  BY DEF MarkInv, PathTracked
<1> QED
  BY <1>1, <1>2, <1>3, <1>4, <1>5, <1>6, PTL DEF Spec

-----------------------------------------------------------------------------
(* The words that are found.                                               *)

\* The calls of st are on p up to one that has yet to try p's next cell.
Ahead(p, st) ==
    \E n \in 1..Len(st) : /\ n < Len(p)
                          /\ \A m \in 1..n : p[m] = st[m].cell
                          /\ p[n + 1] \in ToSet(st[n].todo)

\* Each call is on a neighbour of the one before, and has neighbours to visit.
TouchOK(st) ==
    /\ \A n \in 1..Len(st) : ToSet(st[n].todo) \subseteq ToSet(Visits[st[n].cell])
    /\ \A n \in 1..(Len(st) - 1) : Adjacent(st[n].cell, st[n + 1].cell)

\* A path that spells a word is as long as the word.
LEMMA WPathIs ==
    ASSUME NEW b, NEW p \in WPaths(b)
    PROVE  /\ p \in Seq(AllCells) /\ IsPath(p) /\ Spell(b, p) \in Words
           /\ Len(p) \in Nat \ {0} /\ Len(Spell(b, p)) = Len(p)
           /\ \A i \in 1..Len(p) : p[i] \in Cells /\ Spell(b, p)[i] = b[p[i]]
  BY SpellIs DEF AllCells, Cells, NumCells

\* Of two cells that follow each other on a path the code visits the second from
\* the first, and what it visits is a neighbour.
LEMMA VisitsTouch ==
    ASSUME NEW k \in Cells, NEW n \in Cells
    PROVE  /\ Adjacent(k, n) /\ n # k => n \in ToSet(Visits[k])
           /\ n \in ToSet(Visits[k]) => Adjacent(k, n)
<1>1. ToSet(Visits[k]) \cup {k} = {m \in Cells : Adjacent(k, m)}
  BY VisitsAssumption DEF ListsNeighbours, Cells, NumCells
<1> QED
  BY <1>1

\* A cell that the code passes over is on no path of a word that is on the calls
\* so far: it is in use, or no word goes on with its letter.
LEMMA NextIsEntered ==
    ASSUME NEW b, NEW st \in Seq(Frame), NEW u, PathOK(b, st, u),
           NEW p \in WPaths(b), Len(st) < Len(p),
           \A m \in 1..Len(st) : p[m] = st[m].cell
    PROVE  /\ p[Len(st) + 1] \in Cells \ u
           /\ StartsWord(Spelled(b, st), b[p[Len(st) + 1]])
<1> DEFINE l == Len(st)
           w == Spell(b, p)
           t == Spelled(b, st)
<1>1. l \in Nat
  BY LenProperties
<1>2. /\ IsPath(p) /\ w \in Words /\ Len(p) \in Nat \ {0} /\ Len(w) = Len(p)
      /\ \A i \in 1..Len(p) : p[i] \in Cells /\ w[i] = b[p[i]]
  BY WPathIs
<1> HIDE DEF w
<1>3. /\ l + 1 \in 1..Len(p) /\ l \in 0..(Len(p) - 1)
      /\ \A m \in 1..l : m \in 1..Len(p) /\ m # l + 1
  BY <1>1, <1>2
<1>4. p[l + 1] \notin u
  <2>1. SUFFICES ASSUME p[l + 1] \in u PROVE FALSE
    OBVIOUS
  <2>2. PICK m \in 1..l : p[l + 1] = st[m].cell
    BY <2>1 DEF PathOK
  <2>3. p[m] = p[l + 1]
    BY <2>2
  <2> HIDE DEF l
  <2> QED
    BY <1>2, <1>3, <2>3 DEF IsPath
<1>5. t = [i \in 1..l |-> w[i]]
  BY <1>2, <1>3 DEF Spelled
<1> HIDE DEF t, l
<1>6. Append(t, w[l + 1]) \in Nodes
  BY <1>2, <1>3, <1>5, PrefixIsNode
<1>7. w[l + 1] = b[p[l + 1]] /\ p[l + 1] \in Cells
  BY <1>2, <1>3
<1> QED
  BY <1>4, <1>6, <1>7 DEF StartsWord, t, l

\* The cells of the calls are a path: a word that its letters spell is found.
LEMMA CallsAreFound ==
    ASSUME NEW b, NEW st \in Seq(Frame), NEW u, PathOK(b, st, u), TouchOK(st),
           Spelled(b, st) \in Words
    PROVE  Found(b, Spelled(b, st))
<1> DEFINE l == Len(st)
           w == Spelled(b, st)
           p == [m \in 1..l |-> st[m].cell]
<1>1. l \in Nat /\ \A m \in 1..l : st[m].cell \in AllCells
  <2>1. \A n \in 1..Len(st) : st[n] \in Frame
    BY ElementOfSeq
  <2> QED
    BY <2>1, LenProperties DEF Frame, AllCells, Cells, NumCells
<1>2. DOMAIN w = 1..l /\ \A i \in 1..l : w[i] = b[st[i].cell]
  BY DEF Spelled
<1>3. \A m, n \in 1..l : m # n => st[m].cell # st[n].cell
  BY DEF PathOK
<1>4. \A n \in 1..(l - 1) : Adjacent(st[n].cell, st[n + 1].cell)
  BY DEF TouchOK
<1> HIDE DEF l, w
<1>5. w \in Words
  BY DEF w
<1>6. Len(w) = l
  BY <1>1, <1>2, <1>5, FoundIs, SameInterval
<1>7. p \in Seq(AllCells) /\ Len(p) = l
  BY <1>1, SeqOfLen
<1>8. \A i \in 1..l : p[i] = st[i].cell
  OBVIOUS
<1>9. \A n \in 1..(l - 1) : n \in 1..l /\ n + 1 \in 1..l
  BY <1>1
<1> HIDE DEF p
<1>10. IsPath(p)
  <2>1. \A i, j \in 1..l : p[i] = p[j] => i = j
    BY <1>3, <1>8
  <2>2. \A n \in 1..(l - 1) : Adjacent(p[n], p[n + 1])
    BY <1>4, <1>8, <1>9
  <2> QED
    BY <1>7, <2>1, <2>2 DEF IsPath
<1>11. \A i \in 1..Len(w) : b[p[i]] = w[i]
  BY <1>2, <1>6, <1>8
<1> QED
  BY <1>5, <1>6, <1>7, <1>10, <1>11, FoundIs DEF w

\* A call of DoDFS marks the word it ends on, which is found, and takes the paths
\* that go on through its cell one cell further.
LEMMA DoDFSMarks ==
    ASSUME TypeOK,
           NEW rest \in Seq(Frame), PathOK(bd, rest, used), TouchOK(rest),
           NEW k \in Cells, k \notin used,
           Len(rest) > 0 => k \in ToSet(Visits[rest[Len(rest)].cell]),
           NEW len, NEW t, t = Spelled(bd, rest), len = WordLen(t),
           StartsWord(t, bd[k]), DoDFS(k, len, t, rest),
           bd' = bd, runs' = runs
    PROVE  /\ TouchOK(stack')
           /\ Marked \subseteq Marked'
           /\ \A w \in Marked' : w \in Marked \/ Found(bd, w)
           /\ \A p \in WPaths(bd) :
                 /\ Ahead(p, rest) => Ahead(p, stack')
                 /\ /\ Len(rest) < Len(p)
                    /\ \A m \in 1..Len(rest) : p[m] = rest[m].cell
                    /\ p[Len(rest) + 1] = k
                    => Ahead(p, stack') \/ Spell(bd, p) \in Marked'
<1> DEFINE l == Len(rest)
           node == Append(t, bd[k])
<1>1. stack' \in Seq(Frame) /\ PathOK(bd, stack', used')
  BY DoDFSSteps
<1>2. PICK f \in Frame : /\ stack' = Append(rest, f) /\ f.cell = k
                         /\ f.node = node /\ f.todo = Visits[k]
  BY DoDFSSteps
<1>3. /\ l \in Nat /\ Len(stack') = l + 1
      /\ \A n \in 1..(l + 1) : \/ n \in 1..l /\ n # l + 1 /\ stack'[n] = rest[n]
                               \/ n = l + 1 /\ n \notin 1..l /\ stack'[n] = f
      /\ \A n \in 1..l : n \in 1..(l + 1) /\ n < l + 1
  BY <1>2, AppendCases
<1>4. l + 1 \in 1..(l + 1) /\ stack'[l + 1] = f /\ \A n \in 1..l : stack'[n] = rest[n]
  BY <1>3
<1>5. IF Fresh(node) THEN marks' = [marks EXCEPT ![node] = runs] ELSE marks' = marks
  BY DEF DoDFS
<1>6. node = Spelled(bd, stack')
  <2>1. stack'[l + 1].node = [m \in 1..(l + 1) |-> bd[stack'[m].cell]]
    BY <1>1, <1>3, <1>4 DEF PathOK
  <2> QED
    BY <1>2, <1>3, <1>4, <2>1 DEF Spelled
<1> HIDE DEF node, l
<1>7. \A w \in Words : marks'[w] = runs <=> marks[w] = runs \/ w = node
  <2>1. CASE Fresh(node)
    BY <1>5, <2>1 DEF TypeOK, Fresh, IsWord
  <2>2. CASE ~Fresh(node)
    BY <1>5, <2>2 DEF Fresh, IsWord
  <2> QED
    BY <2>1, <2>2
<1>8. Marked \subseteq Marked' /\ \A w \in Marked' : w \in Marked \/ (w = node /\ w \in Words)
  BY <1>7 DEF Marked
<1>9. TouchOK(stack')
  <2>1. ASSUME NEW n \in 1..(l + 1)
        PROVE  ToSet(stack'[n].todo) \subseteq ToSet(Visits[stack'[n].cell])
    <3>1. CASE n \in 1..l
      BY <1>4, <3>1 DEF TouchOK, l
    <3>2. CASE n = l + 1
      BY <1>2, <1>4, <3>2
    <3> QED
      BY <1>3, <3>1, <3>2
  <2>2. ASSUME NEW n \in 1..l PROVE Adjacent(stack'[n].cell, stack'[n + 1].cell)
    <3>1. CASE n = l
      <4>1. rest[l].cell \in Cells
        <5>1. rest[l] \in Frame
          BY <3>1, ElementOfSeq DEF l
        <5> QED
          BY <5>1 DEF Frame
      <4>2. k \in ToSet(Visits[rest[l].cell])
        <5>1. l > 0
          BY <1>3, <3>1
        <5> QED
          BY <5>1 DEF l
      <4>3. stack'[n] = rest[l] /\ stack'[n + 1] = f
        BY <1>4, <3>1
      <4> QED
        BY <1>2, <4>1, <4>2, <4>3, VisitsTouch
    <3>2. CASE n # l
      <4>1. n \in 1..(l - 1) /\ n + 1 \in 1..l
        BY <1>3, <3>2
      <4>2. Adjacent(rest[n].cell, rest[n + 1].cell)
        BY <4>1 DEF TouchOK, l
      <4> QED
        BY <1>4, <4>1, <4>2
    <3> QED
      BY <3>1, <3>2
  <2>3. 1..Len(stack') = 1..(l + 1) /\ 1..(Len(stack') - 1) = 1..l
    BY <1>3
  <2>4. \A n \in 1..Len(stack') :
            ToSet(stack'[n].todo) \subseteq ToSet(Visits[stack'[n].cell])
    BY ONLY <2>1, <2>3
  <2>5. \A n \in 1..(Len(stack') - 1) : Adjacent(stack'[n].cell, stack'[n + 1].cell)
    BY ONLY <2>2, <2>3
  <2> QED
    BY <2>4, <2>5 DEF TouchOK
<1>10. node \in Words => Found(bd, node)
  BY <1>1, <1>6, <1>9, CallsAreFound
<1>11. ASSUME NEW p \in WPaths(bd), Ahead(p, rest) PROVE Ahead(p, stack')
  <2>1. PICK n \in 1..l : /\ n < Len(p)
                          /\ \A m \in 1..n : p[m] = rest[m].cell
                          /\ p[n + 1] \in ToSet(rest[n].todo)
    BY <1>11 DEF Ahead, l
  <2>2. \A m \in 1..n : m \in 1..l
    BY <1>3
  <2>3. \A m \in 1..n : p[m] = stack'[m].cell
    BY <1>4, <2>1, <2>2
  <2>4. p[n + 1] \in ToSet(stack'[n].todo) /\ n \in 1..(l + 1)
    BY <1>3, <1>4, <2>1
  <2> QED
    BY <1>3, <2>1, <2>3, <2>4 DEF Ahead
<1>12. ASSUME NEW p \in WPaths(bd), l < Len(p),
              \A m \in 1..l : p[m] = rest[m].cell, p[l + 1] = k
       PROVE  Ahead(p, stack') \/ Spell(bd, p) \in Marked'
  <2>1. /\ IsPath(p) /\ Spell(bd, p) \in Words /\ Len(p) \in Nat
        /\ \A i \in 1..Len(p) : p[i] \in Cells
    BY WPathIs
  <2>2. \A m \in 1..(l + 1) : p[m] = stack'[m].cell
    BY <1>2, <1>3, <1>12
  <2>3. CASE Len(p) = l + 1
    <3>1. Spell(bd, p) = node
      BY <1>3, <1>6, <2>2, <2>3 DEF Spell, Spelled
    <3>2. marks'[node] = runs
      BY <1>7, <2>1, <3>1
    <3> QED
      BY <2>1, <3>1, <3>2 DEF Marked
  <2>4. CASE Len(p) # l + 1
    <3>1. /\ l + 1 < Len(p) /\ l + 1 + 1 \in 1..Len(p) /\ l + 1 \in 1..Len(p)
          /\ l + 1 \in 1..(Len(p) - 1) /\ l + 1 + 1 # l + 1
      BY <1>3, <1>12, <2>1, <2>4
    <3>2. Adjacent(k, p[l + 1 + 1]) /\ p[l + 1 + 1] # k /\ p[l + 1 + 1] \in Cells
      BY <1>12, <2>1, <3>1 DEF IsPath
    <3>3. p[l + 1 + 1] \in ToSet(Visits[k])
      BY <3>2, VisitsTouch
    <3>4. p[l + 1 + 1] \in ToSet(stack'[l + 1].todo)
      BY <1>2, <1>4, <3>3
    <3> QED
      BY <1>3, <1>4, <2>2, <3>1, <3>4 DEF Ahead
  <2> QED
    BY <2>3, <2>4
<1> QED
  BY <1>8, <1>9, <1>10, <1>11, <1>12 DEF l

\* What the search has marked and what it has still to try: no word that is not on
\* the board is marked, and each path that spells a word is ahead of the calls in
\* progress, starts at a cell that is to come, or spells a word that is marked.
FoundInv ==
    /\ pc # "idle" => \A w \in Marked : Found(bd, w)
    /\ pc = "search" =>
          /\ TouchOK(stack)
          /\ \A p \in WPaths(bd) :
                root <= p[1] \/ Ahead(p, stack) \/ Spell(bd, p) \in Marked
    /\ pc = "done" => /\ returned = score
                      /\ \A p \in WPaths(bd) : Spell(bd, p) \in Marked

\* No calls are ahead of nothing.
LEMMA NoCalls == TouchOK(<<>>) /\ \A p : ~Ahead(p, <<>>)
<1>1. Len(<<>>) = 0 /\ 1..0 = {} /\ 1..(0 - 1) = {}
  OBVIOUS
<1> QED
  BY <1>1 DEF TouchOK, Ahead

\* A new run has everything to come.
LEMMA StartRunFinds ==
    ASSUME RunsDoNotWrap, TypeOK, MarkInv, pc # "search", StartRun,
           num_boards < MaxBoards, UNCHANGED <<marks, num_boards>>
    PROVE  FoundInv'
<1>1. pc' = "search" /\ stack' = <<>> /\ root' = 1
  BY DEF StartRun
<1>2. Marked' = {}
  <2>1. /\ runs = num_boards /\ runs \in Nat /\ runs < MaxBoards
        /\ MaxBoards \in Nat /\ Run \in Nat /\ MaxBoards < Run
    BY RunAssumption DEF MarkInv, TypeOK, RunsDoNotWrap
  <2>2. \A n, b, m \in Nat : n < b /\ b < m => (n + 1) % m = n + 1
    OBVIOUS
  <2>3. runs' = runs + 1
    BY <2>1, <2>2 DEF StartRun, NextRun
  <2>4. \A w \in Words : marks[w] \in Nat /\ marks[w] <= runs
    BY DEF MarkInv, TypeOK
  <2>5. \A m, n \in Nat : m <= n => m # n + 1
    OBVIOUS
  <2> QED
    BY <2>1, <2>3, <2>4, <2>5 DEF Marked
<1>3. \A b : \A p \in WPaths(b) : 1 <= p[1]
  <2>1. ASSUME NEW b, NEW p \in WPaths(b) PROVE 1 <= p[1]
    <3>1. 1 \in 1..Len(p)
      BY WPathIs
    <3>2. p[1] \in Cells
      BY <3>1, WPathIs
    <3> QED
      BY <3>2, CellsFinite DEF Cells
  <2> QED
    BY <2>1
<1> QED
  BY <1>1, <1>2, <1>3, NoCalls DEF FoundInv

\* Marks only get more in a run, and the paths that are not ahead any more have
\* been found; that is what each step of a search has to show.
LEMMA SearchFinds ==
    ASSUME FoundInv, pc = "search", pc' = "search", bd' = bd, TouchOK(stack'),
           Marked \subseteq Marked', \A w \in Marked' : w \in Marked \/ Found(bd, w),
           \A p \in WPaths(bd) :
              root <= p[1] \/ Ahead(p, stack)
              => root' <= p[1] \/ Ahead(p, stack') \/ Spell(bd, p) \in Marked'
    PROVE  FoundInv'
  BY DEF FoundInv

\* A round of InternalScore's loop leaves no path behind that starts at its cell.
LEMMA RootFinds ==
    ASSUME PathInv, FoundInv, StartRoot
    PROVE  FoundInv'
<1>1. /\ pc = "search" /\ stack = <<>> /\ root <= NumCells /\ root' = root + 1
      /\ UNCHANGED <<pc, bd, runs, num_boards, returned>>
      /\ IF StartsWord(<<>>, bd[root]) THEN DoDFS(root, 0, <<>>, <<>>)
         ELSE UNCHANGED <<used, marks, score, stack>>
  BY DEF StartRoot
<1>2. TypeOK /\ root \in Cells
  BY <1>1, CellsFinite DEF Cells, TypeOK, PathInv
<1>3. /\ <<>> \in Seq(Frame) /\ PathOK(bd, <<>>, used) /\ used = {} /\ Len(<<>>) = 0
      /\ WordLen(<<>>) = 0 /\ Spelled(bd, <<>>) = <<>>
  BY <1>1, EmptySeq, EmptyPath DEF PathInv
<1>4. ASSUME NEW p \in WPaths(bd), root <= p[1]
      PROVE  \/ root + 1 <= p[1]
             \/ p[1] = root /\ 0 < Len(p) /\ StartsWord(<<>>, bd[root])
  <2>1. 0 < Len(p) /\ p[1] \in Cells
    <3>1. Len(p) \in Nat \ {0} /\ 1 \in 1..Len(p)
      BY WPathIs
    <3> QED
      BY <3>1, WPathIs
  <2>2. \A m, n \in Nat : m <= n => m + 1 <= n \/ n = m
    OBVIOUS
  <2>3. root + 1 <= p[1] \/ p[1] = root
    BY <1>2, <1>4, <2>1, <2>2 DEF Cells
  <2>4. StartsWord(<<>>, bd[p[1]])
    <3>1. \A m \in 1..Len(<<>>) : p[m] = <<>>[m].cell
      BY <1>3
    <3>2. StartsWord(Spelled(bd, <<>>), bd[p[Len(<<>>) + 1]])
      BY <1>3, <2>1, <3>1, NextIsEntered
    <3>3. Len(<<>>) + 1 = 1
      BY <1>3
    <3> QED
      BY <1>3, <3>2, <3>3
  <2> QED
    BY <2>1, <2>3, <2>4
<1>5. CASE ~StartsWord(<<>>, bd[root])
  <2>1. UNCHANGED <<marks, stack, runs>>
    BY <1>1, <1>5
  <2>2. Marked' = Marked
    BY <2>1 DEF Marked
  <2>3. \A p \in WPaths(bd) : root <= p[1] => root + 1 <= p[1]
    BY <1>4, <1>5
  <2> QED
    BY <1>1, <2>1, <2>2, <2>3, NoCalls, SearchFinds
<1>6. CASE StartsWord(<<>>, bd[root])
  <2> DEFINE e == <<>>
  <2>1. /\ e \in Seq(Frame) /\ PathOK(bd, e, used) /\ TouchOK(e)
        /\ root \notin used /\ Len(e) = 0 /\ ~(Len(e) > 0)
        /\ e = Spelled(bd, e) /\ 0 = WordLen(e)
        /\ StartsWord(e, bd[root]) /\ DoDFS(root, 0, e, e)
        /\ bd' = bd /\ runs' = runs /\ \A p : \A m \in 1..Len(e) : p[m] = e[m].cell
    BY <1>1, <1>3, <1>6, NoCalls
  <2> HIDE DEF e
  <2>2. /\ TouchOK(stack')
        /\ Marked \subseteq Marked'
        /\ \A w \in Marked' : w \in Marked \/ Found(bd, w)
        /\ \A p \in WPaths(bd) :
              Len(e) < Len(p) /\ (\A m \in 1..Len(e) : p[m] = e[m].cell)
                  /\ p[Len(e) + 1] = root
              => Ahead(p, stack') \/ Spell(bd, p) \in Marked'
    BY <1>2, <2>1, DoDFSMarks
  <2>3. \A p \in WPaths(bd) : 0 < Len(p) /\ p[1] = root
                              => Ahead(p, stack') \/ Spell(bd, p) \in Marked'
    BY <2>1, <2>2
  <2>4. \A p \in WPaths(bd) : root <= p[1] =>
            root + 1 <= p[1] \/ Ahead(p, stack') \/ Spell(bd, p) \in Marked'
    BY <1>4, <2>3
  <2> QED
    BY <1>1, <2>2, <2>4, NoCalls, SearchFinds
<1> QED
  BY <1>5, <1>6

\* A visit leaves no path behind that goes on to the neighbour.
LEMMA VisitFinds ==
    ASSUME PathInv, FoundInv, VisitNeighbour
    PROVE  FoundInv'
<1> DEFINE l == Len(stack)
<1>1. /\ pc = "search" /\ UNCHANGED <<pc, bd, runs, root>>
      /\ IF Neighbour \notin used /\ StartsWord(Top.node, bd[Neighbour])
         THEN DoDFS(Neighbour, Top.len, Top.node, NextStack)
         ELSE stack' = NextStack /\ UNCHANGED <<used, marks, score>>
      /\ Neighbour \in Cells
      /\ l \in Nat \ {0}
      /\ NextStack \in Seq(Frame) /\ Len(NextStack) = l
      /\ PathOK(bd, NextStack, used)
      /\ Top.node = Spelled(bd, NextStack) /\ Top.len = WordLen(Top.node)
  BY NextStackIs
<1>2. \A m \in 1..l : /\ NextStack[m].cell = stack[m].cell
                      /\ m # l => NextStack[m].todo = stack[m].todo
                      /\ m = l => /\ stack[m].todo \in Seq(Cells)
                                  /\ stack[m].todo # <<>>
                                  /\ Neighbour = Head(stack[m].todo)
                                  /\ NextStack[m].todo = Tail(stack[m].todo)
  BY NextStackIs
<1>3. ToSet(stack[l].todo) = {Neighbour} \cup ToSet(NextStack[l].todo)
  <2>1. l \in 1..l
    BY <1>1
  <2>2. \A S : \A s \in Seq(S) : s # <<>> => ToSet(s) = {Head(s)} \cup ToSet(Tail(s))
    BY HeadAndTail
  <2> QED
    BY <1>2, <2>1, <2>2
<1>4. TouchOK(stack) /\ TypeOK
  BY <1>1 DEF FoundInv, PathInv
<1>5. TouchOK(NextStack)
  <2>1. \A n \in 1..l : /\ ToSet(NextStack[n].todo) \subseteq ToSet(stack[n].todo)
                        /\ NextStack[n].cell = stack[n].cell
    BY <1>2, <1>3
  <2>2. \A n \in 1..(l - 1) : n \in 1..l /\ n + 1 \in 1..l
    BY <1>1
  <2> HIDE DEF l
  <2>3. \A n \in 1..l : ToSet(stack[n].todo) \subseteq ToSet(Visits[stack[n].cell])
    BY <1>4 DEF TouchOK, l
  <2>4. \A n \in 1..(l - 1) : Adjacent(stack[n].cell, stack[n + 1].cell)
    BY <1>4 DEF TouchOK, l
  <2>5. \A n \in 1..l : ToSet(NextStack[n].todo) \subseteq ToSet(Visits[NextStack[n].cell])
    BY <2>1, <2>3
  <2>6. \A n \in 1..(l - 1) : Adjacent(NextStack[n].cell, NextStack[n + 1].cell)
    BY <2>1, <2>2, <2>4
  <2> QED
    BY <1>1, <2>5, <2>6 DEF TouchOK
<1> DEFINE Goes(p) == /\ Len(NextStack) < Len(p)
                      /\ \A m \in 1..Len(NextStack) : p[m] = NextStack[m].cell
                      /\ p[Len(NextStack) + 1] = Neighbour
<1>6. ASSUME NEW p \in WPaths(bd), Ahead(p, stack) PROVE Ahead(p, NextStack) \/ Goes(p)
  <2>1. PICK n \in 1..l : /\ n < Len(p)
                          /\ \A m \in 1..n : p[m] = stack[m].cell
                          /\ p[n + 1] \in ToSet(stack[n].todo)
    BY <1>6 DEF Ahead
  <2>2. \A m \in 1..n : m \in 1..l
    BY <1>1
  <2>3. \A m \in 1..n : p[m] = NextStack[m].cell
    BY <1>2, <2>1, <2>2
  <2>4. p[n + 1] \in ToSet(NextStack[n].todo) \/ (n = l /\ p[n + 1] = Neighbour)
    BY <1>2, <1>3, <2>1
  <2> HIDE DEF l
  <2> QED
    BY <1>1, <2>1, <2>3, <2>4 DEF Ahead
<1>7. ASSUME NEW p \in WPaths(bd), Goes(p)
      PROVE  Neighbour \notin used /\ StartsWord(Top.node, bd[Neighbour])
  BY <1>1, <1>7, NextIsEntered
<1> HIDE DEF l
<1>8. CASE Neighbour \notin used /\ StartsWord(Top.node, bd[Neighbour])
  <2>1. DoDFS(Neighbour, Top.len, Top.node, NextStack) /\ bd' = bd /\ runs' = runs
    BY <1>1, <1>8
  <2>2. Neighbour \in ToSet(Visits[NextStack[Len(NextStack)].cell])
    <3>1. l \in 1..l
      BY <1>1
    <3>2. Neighbour \in ToSet(stack[l].todo) /\ NextStack[l].cell = stack[l].cell
      BY <1>2, <1>3, <3>1
    <3>3. ToSet(stack[l].todo) \subseteq ToSet(Visits[stack[l].cell])
      BY <1>4, <3>1 DEF TouchOK, l
    <3> QED
      BY <1>1, <3>2, <3>3
  <2>3. /\ TouchOK(stack')
        /\ Marked \subseteq Marked'
        /\ \A w \in Marked' : w \in Marked \/ Found(bd, w)
        /\ \A p \in WPaths(bd) :
              /\ Ahead(p, NextStack) => Ahead(p, stack')
              /\ Goes(p) => Ahead(p, stack') \/ Spell(bd, p) \in Marked'
    BY <1>1, <1>4, <1>5, <1>8, <2>1, <2>2, DoDFSMarks
  <2> HIDE DEF Goes
  <2>4. \A p \in WPaths(bd) : root <= p[1] \/ Ahead(p, stack)
            => root' <= p[1] \/ Ahead(p, stack') \/ Spell(bd, p) \in Marked'
    BY <1>1, <1>6, <2>3
  <2> QED
    BY <1>1, <2>3, <2>4, SearchFinds
<1>9. CASE ~(Neighbour \notin used /\ StartsWord(Top.node, bd[Neighbour]))
  <2>1. stack' = NextStack /\ UNCHANGED <<marks, runs>>
    BY <1>1, <1>9
  <2>2. Marked' = Marked
    BY <2>1 DEF Marked
  <2> HIDE DEF Goes
  <2>3. \A p \in WPaths(bd) : Ahead(p, stack) => Ahead(p, stack')
    BY <1>6, <1>7, <1>9, <2>1
  <2> QED
    BY <1>1, <1>5, <2>1, <2>2, <2>3, SearchFinds
<1> QED
  BY <1>8, <1>9

\* A call that has tried all neighbours has no path ahead of it.
LEMMA EndFinds ==
    ASSUME PathInv, FoundInv, EndDFS
    PROVE  FoundInv'
<1> DEFINE l == Len(stack) - 1
<1>1. /\ pc = "search" /\ stack # <<>> /\ Top.todo = <<>> /\ stack' = Rest
      /\ UNCHANGED <<pc, bd, marks, runs, root>>
  BY DEF EndDFS
<1>2. /\ l \in Nat /\ Len(stack) = l + 1 /\ Top = stack[l + 1]
      /\ Len(Rest) = l /\ \A n \in 1..l : Rest[n] = stack[n]
  BY <1>1, AllButLast DEF Top, Rest, Last, Front, PathInv, TypeOK
<1> HIDE DEF l
<1>3. TouchOK(stack)
  BY <1>1 DEF FoundInv
<1>4. TouchOK(Rest)
  <2>1. /\ \A n \in 1..l : n \in 1..(l + 1)
        /\ \A n \in 1..(l - 1) : n \in 1..(l + 1 - 1) /\ n \in 1..l /\ n + 1 \in 1..l
    BY <1>2
  <2>2. \A n \in 1..(l + 1) : ToSet(stack[n].todo) \subseteq ToSet(Visits[stack[n].cell])
    BY <1>2, <1>3 DEF TouchOK
  <2>3. \A n \in 1..(l + 1 - 1) : Adjacent(stack[n].cell, stack[n + 1].cell)
    BY <1>2, <1>3 DEF TouchOK
  <2>4. \A n \in 1..l : ToSet(Rest[n].todo) \subseteq ToSet(Visits[Rest[n].cell])
    BY <1>2, <2>1, <2>2
  <2>5. \A n \in 1..(l - 1) : Adjacent(Rest[n].cell, Rest[n + 1].cell)
    BY <1>2, <2>1, <2>3
  <2> QED
    BY <1>2, <2>4, <2>5 DEF TouchOK
<1>5. ASSUME NEW p \in WPaths(bd), Ahead(p, stack) PROVE Ahead(p, Rest)
  <2>1. PICK n \in 1..(l + 1) : /\ n < Len(p)
                                /\ \A m \in 1..n : p[m] = stack[m].cell
                                /\ p[n + 1] \in ToSet(stack[n].todo)
    BY <1>2, <1>5 DEF Ahead
  <2>2. n # l + 1
    <3>1. ToSet(<<>>) = {}
      BY DEF ToSet
    <3> QED
      BY <1>1, <1>2, <2>1, <3>1
  <2>3. n \in 1..l /\ \A m \in 1..n : m \in 1..l
    BY <1>2, <2>2
  <2>4. \A m \in 1..n : p[m] = Rest[m].cell
    BY <1>2, <2>1, <2>3
  <2> QED
    BY <1>2, <2>1, <2>3, <2>4 DEF Ahead
<1>6. Marked' = Marked
  BY <1>1 DEF Marked
<1> QED
  BY <1>1, <1>4, <1>5, <1>6, SearchFinds

\* Every step keeps track of what is marked and what is still to be tried.
LEMMA NextFound ==
    ASSUME RunsDoNotWrap
    PROVE  PathInv /\ MarkInv /\ FoundInv /\ [Next]_vars => FoundInv'
<1> SUFFICES ASSUME PathInv, MarkInv, FoundInv, [Next]_vars PROVE FoundInv'
  OBVIOUS
<1>0. TypeOK
  BY DEF PathInv
<1>1. CASE ParseBoard
  BY <1>1 DEF ParseBoard, FoundInv
<1>2. CASE Score
  BY <1>0, <1>2, StartRunFinds DEF Score
<1>3. CASE ScoreString
  <2>1. pc # "search" /\ num_boards < MaxBoards /\ UNCHANGED <<marks, num_boards>>
    BY <1>3 DEF ScoreString
  <2>2. StartRun \/ pc' = "idle"
    <3>1. PICK s \in Strings :
              IF Parses(s)
              THEN StartRun /\ UNCHANGED returned
              ELSE /\ returned' = -1
                   /\ pc' = "idle"
                   /\ UNCHANGED <<runs, used, score, root, stack>>
      BY <1>3 DEF ScoreString
    <3> QED
      BY <3>1
  <2>3. CASE StartRun
    BY <1>0, <2>1, <2>3, StartRunFinds
  <2>4. CASE pc' = "idle"
    BY <2>4 DEF FoundInv
  <2> QED
    BY <2>2, <2>3, <2>4
<1>4. CASE StartRoot
  BY <1>4, RootFinds
<1>5. CASE EndScore
  <2>1. /\ pc = "search" /\ stack = <<>> /\ root > NumCells /\ pc' = "done"
        /\ returned' = score /\ UNCHANGED <<bd, marks, runs, score>>
    BY <1>5 DEF EndScore
  <2>2. Marked' = Marked
    BY <2>1 DEF Marked
  <2>3. ASSUME NEW p \in WPaths(bd) PROVE Spell(bd, p) \in Marked
    <3>1. p[1] \in 1..NumCells
      <4>1. 1 \in 1..Len(p)
        BY WPathIs
      <4> QED
        BY <4>1, WPathIs DEF Cells
    <3>2. ~(root <= p[1])
      BY <1>0, <2>1, <3>1, CellsFinite DEF TypeOK
    <3> QED
      BY <2>1, <3>2, NoCalls DEF FoundInv
  <2> QED
    BY <2>1, <2>2, <2>3 DEF FoundInv
<1>6. CASE VisitNeighbour
  BY <1>6, VisitFinds
<1>7. CASE EndDFS
  BY <1>7, EndFinds
<1>8. CASE UNCHANGED vars
  <2>1. Marked' = Marked
    BY <1>8 DEF vars, Marked
  <2> QED
    BY <1>8, <2>1 DEF vars, FoundInv
<1> QED
  BY <1>1, <1>2, <1>3, <1>4, <1>5, <1>6, <1>7, <1>8 DEF Next, Search

\* What a finished search has marked is what the board has.
LEMMA DoneIsExact == MarkInv /\ FoundInv => ScoreExact
<1> SUFFICES ASSUME MarkInv, FoundInv, pc = "done" PROVE returned = DictionaryScore(bd)
  BY DEF ScoreExact
<1>1. ASSUME NEW w \in Words, Found(bd, w) PROVE w \in Marked
  <2>1. PICK p \in WPaths(bd) : Spell(bd, p) = w
    BY <1>1, SpellsFound
  <2> QED
    BY <2>1 DEF FoundInv
<1>2. Marked = {w \in Words : Found(bd, w)}
  <2>1. \A w \in Marked : w \in Words /\ Found(bd, w)
    BY DEF FoundInv, Marked
  <2> QED
    BY <1>1, <2>1
<1>3. score = MapThenSumSet(WordScore, Marked)
  BY DEF MarkInv, ScoreIsMarked, Marked
<1> QED
  BY <1>2, <1>3 DEF DictionaryScore, FoundInv

\* Score returns the score of the board that is on the solver when it is called:
\* every word that lies on the board counts, once, and no other, whatever the
\* size of the board, the words, and the marks that earlier runs left
\* (boggle_solver.h:26, 3x3, 3x4 and 4x4/boggler.cc).
THEOREM ScoreIsExact == ASSUME RunsDoNotWrap PROVE Spec => []ScoreExact
<1>1. Init => PathInv
  BY InitPath
<1>2. Init => MarkInv
  BY DEF Init, MarkInv, ScoreIsMarked
<1>3. Init => FoundInv
  BY DEF Init, FoundInv
<1>4. PathInv /\ [Next]_vars => PathInv'
  BY NextPath
<1>5. PathInv /\ MarkInv /\ [Next]_vars => MarkInv'
  BY NextMark
<1>6. PathInv /\ MarkInv /\ FoundInv /\ [Next]_vars => FoundInv'
  BY NextFound
<1>7. MarkInv /\ FoundInv => ScoreExact
  BY DoneIsExact
<1> QED
  BY <1>1, <1>2, <1>3, <1>4, <1>5, <1>6, <1>7, PTL DEF Spec

-----------------------------------------------------------------------------
(* MultiBoggle: its calls of DoDFS, and the trails of cells that they are on. *)

\* A board as the calls find it, perhaps with empty corners.
IsBoard(b) == b \in [Cells -> Letters \cup {kCellEmpty}]

\* The letters of the first n cells of s, and the cells before the n-th.
Along(b, s, n) == [i \in 1..n |-> b[s[i]]]
Before(s, n) == {s[i] : i \in 1..(n - 1)}

\* The calls of DoDFS go along these: paths that may end in an empty cell, and
\* whose letters begin a word.
Trails(b) ==
    {s \in Seq(AllCells) :
        /\ s # <<>> /\ IsPath(s)
        /\ \A i \in 1..(Len(s) - 1) : b[s[i]] # kCellEmpty
        /\ \A n \in 1..Len(s) : b[s[n]] # kCellEmpty => Along(b, s, n) \in Nodes}

\* The call on the n-th cell of s.
CallAt(b, s, n) ==
    [cell |-> s[n], len |-> WordLen(Along(b, s, n - 1)),
     node |-> IF b[s[n]] = kCellEmpty THEN Along(b, s, n - 1) ELSE Along(b, s, n),
     used |-> Before(s, n)]
CallsOn(b, S) == {CallAt(b, s, Len(s)) : s \in S}

\* The corners are two cells of the board.
LEMMA CornersAre ==
    /\ NumCells \in Nat /\ NumCells \in 2..16 /\ Cells = AllCells
    /\ TL \in Cells /\ BR \in Cells /\ TL # BR
    /\ Opposite(TL) = BR /\ Opposite(BR) = TL
<1>1. NumCells \in Nat /\ NumCells >= 2 /\ NumCells \in 2..16
  BY CornersAssumption
<1>2. Cells = AllCells
  BY DEF Cells, AllCells, NumCells
<1>3. 1 \in 1..NumCells /\ NumCells \in 1..NumCells /\ 1 # NumCells
      /\ 1 + NumCells - 1 = NumCells /\ 1 + NumCells - NumCells = 1
  BY <1>1
<1> QED
  BY <1>1, <1>2, <1>3 DEF TL, BR, Opposite, Cells

\* One letter more along a trail.
LEMMA AlongIs ==
    ASSUME NEW b, NEW s, NEW n, IsBoard(b), s \in Seq(AllCells), n \in 1..Len(s),
           \A i \in 1..n : b[s[i]] # kCellEmpty
    PROVE  /\ Along(b, s, n - 1) \in Seq(Letters) /\ Along(b, s, n) \in Seq(Letters)
           /\ Along(b, s, n) = Append(Along(b, s, n - 1), b[s[n]])
           /\ WordLen(Along(b, s, n - 1)) \in Nat
           /\ WordLen(Along(b, s, n)) =
                  WordLen(Along(b, s, n - 1)) + LetterLen(b[s[n]])
<1> DEFINE m == n - 1
           t == Along(b, s, m)
           a == Append(t, b[s[n]])
           u == Along(b, s, n)
<1>1. /\ Len(s) \in Nat /\ n \in Nat /\ m \in Nat /\ n = m + 1
      /\ \A i \in 1..n : i \in 1..Len(s)
      /\ \A i \in 1..m : i \in 1..n
      /\ n \in 1..n
  BY LenProperties
<1>2. \A i \in 1..n : b[s[i]] \in Letters
  <2>1. \A i \in 1..n : s[i] \in Cells
    BY <1>1, ElementOfSeq, CornersAre
  <2> QED
    BY <2>1 DEF IsBoard
<1> HIDE DEF m
<1>3. t \in [1..m -> Letters] /\ u \in [1..n -> Letters]
      /\ (\A i \in 1..m : t[i] = b[s[i]]) /\ \A i \in 1..n : u[i] = b[s[i]]
  BY <1>1, <1>2 DEF Along
<1> HIDE DEF t, u
<1>4. t \in Seq(Letters) /\ Len(t) = m /\ u \in Seq(Letters)
  BY <1>1, <1>3, SeqOfLen
<1>5. b[s[n]] \in Letters
  BY <1>1, <1>2
<1>6. /\ a \in Seq(Letters) /\ Len(a) = m + 1
      /\ \A i \in 1..(m + 1) : \/ i \in 1..m /\ a[i] = t[i]
                               \/ i = m + 1 /\ a[i] = b[s[n]]
  BY <1>4, <1>5, <1>1, AppendCases
<1>7. WordLen(t) \in Nat /\ WordLen(a) = WordLen(t) + LetterLen(b[s[n]])
  BY <1>4, <1>5, WordLenAppend
<1> HIDE DEF a
<1>8. a = u
  <2>1. a \in [1..n -> Letters]
    BY <1>1, <1>6, SeqOfLen
  <2>2. \A i \in 1..n : a[i] = u[i]
    BY <1>1, <1>3, <1>6
  <2> QED
    BY <1>3, <2>1, <2>2
<1> QED
  BY <1>4, <1>7, <1>8 DEF a, t, u, m

\* What DoDFS is called with on the n-th cell, if it is.
LEMMA CallOnIs ==
    ASSUME NEW b, NEW s, NEW n, IsBoard(b), s \in Seq(AllCells), n \in 1..Len(s),
           \A i \in 1..(n - 1) : b[s[i]] # kCellEmpty
    PROVE  CallOn(b, s[n], WordLen(Along(b, s, n - 1)), Along(b, s, n - 1), Before(s, n)) =
               IF b[s[n]] = kCellEmpty \/ Along(b, s, n) \in Nodes
               THEN {CallAt(b, s, n)} ELSE {}
<1>1. CASE b[s[n]] = kCellEmpty
  BY <1>1 DEF CallOn, CallAt
<1>2. CASE b[s[n]] # kCellEmpty
  <2>1. \A i \in 1..n : b[s[i]] # kCellEmpty
    <3>1. Len(s) \in Nat /\ \A i \in 1..n : i = n \/ i \in 1..(n - 1)
      BY LenProperties
    <3> QED
      BY <1>2, <3>1
  <2>2. Along(b, s, n) = Append(Along(b, s, n - 1), b[s[n]])
    BY <2>1, AlongIs
  <2> QED
    BY <1>2, <2>2 DEF CallOn, CallAt, StartsWord
<1> QED
  BY <1>1, <1>2

\* The cells before the next, and where DoDFS goes on from the n-th.
LEMMA GoesOnIs ==
    ASSUME NEW b, NEW s, NEW n, IsBoard(b), s \in Seq(AllCells), n \in 1..Len(s),
           IsPath(s), \A i \in 1..n : b[s[i]] # kCellEmpty
    PROVE  /\ Toggle(Before(s, n), s[n]) = Before(s, n + 1)
           /\ GoesOn(b, CallAt(b, s, n)) =
                  UNION {CallOn(b, k, WordLen(Along(b, s, n)), Along(b, s, n),
                                Before(s, n + 1)) :
                            k \in ToSet(Visits[s[n]]) \ Before(s, n + 1)}
<1>1. /\ Len(s) \in Nat /\ n \in Nat /\ n + 1 - 1 = n /\ n \in 1..n
      /\ \A i \in 1..(n - 1) : i \in 1..Len(s) /\ i # n
      /\ \A i \in 1..n : i = n \/ i \in 1..(n - 1)
      /\ \A i \in 1..(n - 1) : i \in 1..n
  BY LenProperties
<1>2. s[n] \notin Before(s, n)
  BY <1>1 DEF Before, IsPath
<1>3. Before(s, n + 1) = Before(s, n) \cup {s[n]}
  BY <1>1 DEF Before
<1>4. Toggle(Before(s, n), s[n]) = Before(s, n + 1)
  BY <1>2, <1>3 DEF Toggle
<1> DEFINE e == CallAt(b, s, n)
<1>5. e.cell = s[n] /\ e.len = WordLen(Along(b, s, n - 1))
      /\ e.node = Along(b, s, n) /\ e.used = Before(s, n)
  BY <1>1 DEF CallAt
<1> HIDE DEF e
<1>6. LengthAfter(b, e) = WordLen(Along(b, s, n))
  BY <1>5, AlongIs DEF LengthAfter
<1>7. b[e.cell] # kCellEmpty
  BY <1>1, <1>5
<1> QED
  BY <1>4, <1>5, <1>6, <1>7 DEF GoesOn, e

\* What a call of DoDFS is told.
Call == [cell : Cells, len : Nat, node : Nodes, used : SUBSET Cells]

\* ... and the calls that it makes.
LEMMA CallsAreCalls ==
    /\ \A b, k, len, t, seen : k \in Cells /\ len \in Nat /\ t \in Nodes /\ seen \in SUBSET Cells
          => CallOn(b, k, len, t, seen) \subseteq Call
    /\ \A b, e : e \in Call => GoesOn(b, e) \subseteq Call
<1>1. \A b, k, len, t, seen : k \in Cells /\ len \in Nat /\ t \in Nodes /\ seen \in SUBSET Cells
          => CallOn(b, k, len, t, seen) \subseteq Call
  <2>1. ASSUME NEW b, NEW k, NEW len, NEW t, NEW seen,
               k \in Cells, len \in Nat, t \in Nodes, seen \in SUBSET Cells
        PROVE  CallOn(b, k, len, t, seen) \subseteq Call
    <3>1. \A u \in Nodes : [cell |-> k, len |-> len, node |-> u, used |-> seen] \in Call
      BY <2>1 DEF Call
    <3> QED
      BY <2>1, <3>1 DEF CallOn, StartsWord
  <2> QED
    BY <2>1
<1>2. ASSUME NEW b, NEW e, e \in Call PROVE GoesOn(b, e) \subseteq Call
  <2>1. /\ e.cell \in Cells /\ e.len \in Nat /\ e.node \in Nodes /\ e.used \in SUBSET Cells
    BY <1>2 DEF Call
  <2>2. LengthAfter(b, e) \in Nat
    BY <2>1 DEF LengthAfter, LetterLen
  <2>3. Toggle(e.used, e.cell) \in SUBSET Cells
    BY <2>1 DEF Toggle
  <2>4. ToSet(Visits[e.cell]) \subseteq Cells
    BY <2>1, VisitsAssumption DEF ListsNeighbours, Cells, NumCells
  <2> DEFINE marked == Toggle(e.used, e.cell)
             len == LengthAfter(b, e)
  <2>5. \A n \in ToSet(Visits[e.cell]) \ marked : CallOn(b, n, len, e.node, marked) \subseteq Call
    <3> HIDE DEF marked, len
    <3>1. marked \in SUBSET Cells /\ len \in Nat
      BY <2>2, <2>3 DEF marked, len
    <3> QED
      BY <1>1, <2>1, <2>4, <3>1
  <2> HIDE DEF marked, len
  <2>6. UNION {CallOn(b, n, len, e.node, marked) : n \in ToSet(Visits[e.cell]) \ marked}
            \subseteq Call
    BY <2>5
  <2> QED
    BY <2>6 DEF GoesOn, marked, len
<1> QED
  BY <1>1, <1>2

\* The calls are those that some number of calls after the first makes.
Deepens(b, first, deep) ==
    /\ deep[0] = first
    /\ \A n \in 1..NumCells : deep[n] = UNION {GoesOn(b, e) : e \in deep[n - 1]}

\* DoDFSs gathers the calls by their depth.
LEMMA DoDFSsIs ==
    ASSUME NEW b, NEW first, first \subseteq Call
    PROVE  \E deep : /\ Deepens(b, first, deep)
                     /\ DoDFSs(b, first) = UNION {deep[n] : n \in 0..NumCells}
<1> DEFINE Step(f, n) == IF n = 0 THEN first ELSE UNION {GoesOn(b, e) : e \in f[n - 1]}
           Eq(f) == f = [n \in 0..NumCells |-> Step(f, n)]
           D == CHOOSE f : Eq(f)
           V == SUBSET Call
           on == [v \in V |-> UNION {GoesOn(b, e) : e \in v}]
           step == [n \in 1..NumCells |-> on]
           N == NumCells
<1>1. DoDFSs(b, first) = UNION {D[n] : n \in 0..NumCells}
  BY DEF DoDFSs
<1>2. N \in Nat /\ 0 \in 0..N /\ \A n \in 1..N : n \in 0..N /\ n # 0 /\ n - 1 \in 0..N
  BY CornersAre
<1>3. \A v \in V : on[v] \in V /\ on[v] = UNION {GoesOn(b, e) : e \in v}
  BY CallsAreCalls
<1>4. \A n \in 1..N : step[n] = on
  OBVIOUS
<1> HIDE DEF on, step, N
<1>5. first \in V
  OBVIOUS
<1>6. PICK f : Iterates(f, N, V, first, step)
  <2> HIDE DEF V
  <2> QED
    BY ONLY <1>2, <1>3, <1>4, <1>5, IteratesExist
<1>7. Eq(f)
  <2>1. \A n \in 0..N : f[n] = Step(f, n)
    <3>1. \A n \in 0..N : n = 0 \/ n \in 1..N
      BY <1>2
    <3>2. \A n \in 1..N : f[n] = on[f[n - 1]] /\ f[n - 1] \in V
      BY <1>2, <1>4, <1>6 DEF Iterates
    <3> HIDE DEF V
    <3>3. f[0] = first
      BY <1>6 DEF Iterates
    <3> QED
      BY <1>2, <1>3, <3>1, <3>2, <3>3
  <2>2. f = [n \in 0..N |-> f[n]]
    BY <1>6 DEF Iterates
  <2> HIDE DEF Step
  <2> QED
    BY <2>1, <2>2 DEF N
<1> HIDE DEF Eq
<1>8. Eq(D)
  BY <1>7
<1> HIDE DEF D
<1>9. \A n \in 0..N : D[n] = Step(D, n)
  BY <1>8 DEF Eq, N
<1>10. Deepens(b, first, D)
  BY <1>2, <1>9 DEF Deepens, N
<1> QED
  BY <1>1, <1>10

\* A call that a call makes is on a trail of one cell more.
LEMMA GoesOnSound ==
    ASSUME NEW b, NEW s, NEW f, IsBoard(b), s \in Trails(b), f \in GoesOn(b, CallAt(b, s, Len(s)))
    PROVE  \E k \in AllCells : /\ Append(s, k) \in Trails(b)
                               /\ f = CallAt(b, Append(s, k), Len(s) + 1)
<1> DEFINE l == Len(s)
<1>1. /\ s \in Seq(AllCells) /\ s # <<>> /\ IsPath(s)
      /\ \A i \in 1..(l - 1) : b[s[i]] # kCellEmpty
      /\ \A n \in 1..l : b[s[n]] # kCellEmpty => Along(b, s, n) \in Nodes
  BY DEF Trails
<1>2. /\ l \in Nat \ {0} /\ l \in 1..l /\ l > 0 /\ l + 1 - 1 = l /\ l + 1 \in 1..(l + 1)
      /\ \A i \in 1..l : i = l \/ i \in 1..(l - 1)
      /\ s[l] \in AllCells
  BY <1>1, AllButLast
<1> HIDE DEF l
<1>3. b[s[l]] # kCellEmpty
  <2>1. SUFFICES ASSUME b[s[l]] = kCellEmpty PROVE FALSE
    OBVIOUS
  <2>2. CallAt(b, s, l).cell = s[l]
    BY DEF CallAt
  <2>3. GoesOn(b, CallAt(b, s, l)) = {}
    BY <2>1, <2>2 DEF GoesOn
  <2> QED
    BY <2>3 DEF l
<1>4. \A i \in 1..l : b[s[i]] # kCellEmpty
  BY <1>1, <1>2, <1>3
<1>5. GoesOn(b, CallAt(b, s, l)) =
          UNION {CallOn(b, k, WordLen(Along(b, s, l)), Along(b, s, l), Before(s, l + 1)) :
                    k \in ToSet(Visits[s[l]]) \ Before(s, l + 1)}
  BY <1>1, <1>2, <1>4, GoesOnIs DEF l
<1>6. PICK k \in ToSet(Visits[s[l]]) \ Before(s, l + 1) :
          f \in CallOn(b, k, WordLen(Along(b, s, l)), Along(b, s, l), Before(s, l + 1))
  BY <1>5 DEF l
<1>7. k \in AllCells /\ Adjacent(s[l], k)
  <2>1. k \in Cells
    BY <1>2, VisitsAssumption DEF ListsNeighbours, Cells, NumCells, AllCells
  <2> QED
    BY <1>2, <2>1, VisitsTouch, CornersAre
<1>8. \A i \in 1..l : s[i] # k
  BY <1>2, <1>6 DEF Before
<1> DEFINE a == Append(s, k)
           n == l + 1
<1>9. /\ a \in Seq(AllCells) /\ Len(a) = n /\ IsPath(a)
  <2>1. l \in Nat /\ s \in Seq(AllCells) /\ Len(s) = l
    BY <1>1, <1>2 DEF l
  <2> QED
    BY ONLY <1>1, <1>7, <1>8, <2>1, ExtendPath DEF n
<1>10. a[n] = k /\ \A i \in 1..l : a[i] = s[i]
  BY <1>1, <1>7, AppendProperties DEF l
<1>11. n \in 1..n /\ n - 1 = l /\ \A i \in 1..n : i = n \/ i \in 1..l
  BY <1>2
<1> HIDE DEF a, n
<1>12. Along(b, a, l) = Along(b, s, l) /\ Before(a, n) = Before(s, n)
  BY <1>10, <1>11 DEF Along, Before
<1>13. CallOn(b, a[n], WordLen(Along(b, a, n - 1)), Along(b, a, n - 1), Before(a, n)) =
               IF b[a[n]] = kCellEmpty \/ Along(b, a, n) \in Nodes
               THEN {CallAt(b, a, n)} ELSE {}
  <2>1. \A i \in 1..(n - 1) : b[a[i]] # kCellEmpty
    BY <1>4, <1>10, <1>11
  <2> QED
    BY <1>9, <1>11, <2>1, CallOnIs
<1>14. f \in CallOn(b, a[n], WordLen(Along(b, a, n - 1)), Along(b, a, n - 1), Before(a, n))
  BY <1>6, <1>10, <1>11, <1>12 DEF n
<1>15. f = CallAt(b, a, n) /\ (b[a[n]] # kCellEmpty => Along(b, a, n) \in Nodes)
  BY <1>13, <1>14
<1>16. a \in Trails(b)
  <2>1. a # <<>>
    BY <1>2, <1>9, EmptySeq DEF n
  <2>2. \A i \in 1..(n - 1) : b[a[i]] # kCellEmpty
    BY <1>4, <1>10, <1>11
  <2>3. ASSUME NEW m \in 1..n, b[a[m]] # kCellEmpty PROVE Along(b, a, m) \in Nodes
    <3>1. CASE m = n
      BY <1>15, <2>3, <3>1
    <3>2. CASE m \in 1..l
      <4>1. \A i \in 1..m : i \in 1..l
        BY <1>2, <3>2
      <4>2. Along(b, a, m) = Along(b, s, m)
        BY <1>10, <4>1 DEF Along
      <4>3. b[s[m]] # kCellEmpty
        BY <1>4, <3>2
      <4> QED
        BY <1>1, <3>2, <4>2, <4>3
    <3> QED
      BY <1>11, <3>1, <3>2
  <2> QED
    BY <1>9, <2>1, <2>2, <2>3 DEF Trails
<1> QED
  BY <1>7, <1>15, <1>16 DEF a, n, l

\* A call on a trail makes the call on its next cell.
LEMMA GoesOnComplete ==
    ASSUME NEW b, NEW s, NEW n, IsBoard(b), s \in Trails(b), n \in 1..(Len(s) - 1)
    PROVE  CallAt(b, s, n + 1) \in GoesOn(b, CallAt(b, s, n))
<1>1. /\ s \in Seq(AllCells) /\ IsPath(s)
      /\ \A i \in 1..(Len(s) - 1) : b[s[i]] # kCellEmpty
      /\ \A m \in 1..Len(s) : b[s[m]] # kCellEmpty => Along(b, s, m) \in Nodes
  BY DEF Trails
<1> DEFINE m == n + 1
<1>2. Len(s) \in Nat /\ n \in 1..Len(s) /\ m \in 1..Len(s) /\ m # n /\ m - 1 = n
      /\ \A i \in 1..n : i \in 1..(Len(s) - 1) /\ i \in 1..Len(s) /\ i # m
  BY <1>1, LenProperties
<1>3. \A i \in 1..n : b[s[i]] # kCellEmpty
  BY <1>1, <1>2
<1>4. Adjacent(s[n], s[m]) /\ s[m] # s[n]
  BY <1>1, <1>2 DEF IsPath
<1>5. s[n] \in Cells /\ s[m] \in Cells
  BY <1>1, <1>2, ElementOfSeq, CornersAre
<1>6. s[m] \in ToSet(Visits[s[n]])
  BY <1>4, <1>5, VisitsTouch
<1> HIDE DEF m
<1>7. s[m] \notin Before(s, m)
  BY <1>1, <1>2 DEF Before, IsPath
<1>8. GoesOn(b, CallAt(b, s, n)) =
          UNION {CallOn(b, k, WordLen(Along(b, s, n)), Along(b, s, n), Before(s, m)) :
                    k \in ToSet(Visits[s[n]]) \ Before(s, m)}
  BY <1>1, <1>2, <1>3, GoesOnIs DEF m
<1>9. CallOn(b, s[m], WordLen(Along(b, s, m - 1)), Along(b, s, m - 1), Before(s, m)) =
               IF b[s[m]] = kCellEmpty \/ Along(b, s, m) \in Nodes
               THEN {CallAt(b, s, m)} ELSE {}
  BY <1>1, <1>2, <1>3, CallOnIs
<1>10. CallAt(b, s, m) \in CallOn(b, s[m], WordLen(Along(b, s, n)), Along(b, s, n), Before(s, m))
  BY <1>1, <1>2, <1>9
<1>11. CallAt(b, s, m) \in GoesOn(b, CallAt(b, s, n))
  BY <1>6, <1>7, <1>8, <1>10
<1> QED
  BY <1>11 DEF m

\* All calls are on trails that are as the first ones are.
LEMMA DoDFSsSound ==
    ASSUME NEW b, NEW first, NEW S, IsBoard(b), first \subseteq Call,
           S \subseteq Trails(b), first \subseteq CallsOn(b, S),
           \A s \in S, k \in AllCells : Append(s, k) \in Trails(b) => Append(s, k) \in S
    PROVE  DoDFSs(b, first) \subseteq CallsOn(b, S)
<1>1. PICK deep : /\ Deepens(b, first, deep)
                  /\ DoDFSs(b, first) = UNION {deep[n] : n \in 0..NumCells}
  BY DoDFSsIs
<1> DEFINE T == {n \in 0..NumCells : deep[n] \subseteq CallsOn(b, S)}
<1>2. NumCells \in Nat /\ 0 \in 0..NumCells
  BY CornersAre
<1>3. 0 \in T
  BY <1>1, <1>2 DEF Deepens
<1>4. ASSUME NEW n \in 1..NumCells, n - 1 \in T PROVE n \in T
  <2>1. n \in 0..NumCells
    BY <1>2
  <2>2. ASSUME NEW f \in deep[n] PROVE f \in CallsOn(b, S)
    <3>1. PICK e \in deep[n - 1] : f \in GoesOn(b, e)
      BY <1>1, <2>2 DEF Deepens
    <3>2. PICK s \in S : e = CallAt(b, s, Len(s))
      BY <1>4, <3>1 DEF CallsOn
    <3>3. s \in Trails(b)
      OBVIOUS
    <3>4. PICK k \in AllCells : /\ Append(s, k) \in Trails(b)
                                /\ f = CallAt(b, Append(s, k), Len(s) + 1)
      BY <3>1, <3>2, <3>3, GoesOnSound
    <3>5. Append(s, k) \in S
      BY <3>4
    <3>6. Len(Append(s, k)) = Len(s) + 1
      BY <3>3, AppendProperties DEF Trails
    <3> QED
      BY <3>4, <3>5, <3>6 DEF CallsOn
  <2> QED
    BY <2>1, <2>2
<1> HIDE DEF T
<1>5. \A n \in 0..NumCells : n \in T
  BY ONLY <1>2, <1>3, <1>4, StepsUp
<1> QED
  BY <1>1, <1>5 DEF T

\* A trail is no longer than the board.
LEMMA TrailIsShort ==
    ASSUME NEW s, s \in Seq(AllCells), IsPath(s)
    PROVE  Len(s) \in 0..NumCells
<1>1. Len(s) \in Nat /\ DOMAIN s = 1..Len(s) /\ \A i \in 1..Len(s) : s[i] \in AllCells
  BY LenProperties, ElementOfSeq
<1>2. IsInjective(s)
  BY <1>1 DEF IsPath, IsInjective
<1>3. Cardinality(ToSet(s)) = Len(s)
  BY <1>2, LenIsCard
<1>4. ToSet(s) \subseteq Cells
  BY <1>1, CornersAre DEF ToSet
<1>5. IsFiniteSet(Cells) /\ Cardinality(Cells) = NumCells
  <2> DEFINE n == NumCells
  <2>1. n \in Nat /\ 1 \in Int /\ n \in Int /\ (IF 1 > n THEN 0 ELSE n - 1 + 1) = n
    BY CornersAre
  <2> HIDE DEF n
  <2>2. IsFiniteSet(1..n) /\ Cardinality(1..n) = n
    BY <2>1, FS_Interval
  <2> QED
    BY <2>2 DEF Cells, n
<1>6. Cardinality(ToSet(s)) <= Cardinality(Cells)
  BY <1>4, <1>5, FS_Subset
<1> QED
  BY <1>1, <1>3, <1>5, <1>6, CornersAre

\* A trail on which one of the first calls is ends in a call.
LEMMA DoDFSsComplete ==
    ASSUME NEW b, NEW first, NEW s, NEW m, IsBoard(b), first \subseteq Call,
           s \in Trails(b), m \in 1..Len(s), CallAt(b, s, m) \in first
    PROVE  CallAt(b, s, Len(s)) \in DoDFSs(b, first)
<1>1. PICK deep : /\ Deepens(b, first, deep)
                  /\ DoDFSs(b, first) = UNION {deep[n] : n \in 0..NumCells}
  BY DoDFSsIs
<1> DEFINE N == Len(s) - m
           T == {j \in 0..N : CallAt(b, s, m + j) \in deep[j]}
<1>2. /\ NumCells \in Nat /\ Len(s) \in 0..NumCells
      /\ N \in Nat /\ N \in 0..N /\ N \in 0..NumCells /\ 0 \in 0..N /\ m + N = Len(s)
      /\ m + 0 = m
      /\ \A j \in 1..N : /\ j \in 1..NumCells /\ j \in 0..N /\ m + j = (m + (j - 1)) + 1
                         /\ m + (j - 1) \in 1..(Len(s) - 1)
  <2>1. NumCells \in Nat /\ Len(s) \in 0..NumCells
    BY TrailIsShort, CornersAre DEF Trails
  <2> QED
    BY <2>1
<1>3. 0 \in T
  BY <1>1, <1>2 DEF Deepens
<1>4. ASSUME NEW j \in 1..N, j - 1 \in T PROVE j \in T
  <2> DEFINE n == m + (j - 1)
  <2>1. n \in 1..(Len(s) - 1) /\ m + j = n + 1
    BY <1>2
  <2>2. CallAt(b, s, n) \in deep[j - 1]
    BY <1>4
  <2> HIDE DEF n
  <2>3. CallAt(b, s, n + 1) \in GoesOn(b, CallAt(b, s, n))
    BY <2>1, GoesOnComplete
  <2>4. deep[j] = UNION {GoesOn(b, e) : e \in deep[j - 1]}
    BY <1>1, <1>2 DEF Deepens
  <2>5. CallAt(b, s, n + 1) \in deep[j]
    BY <2>2, <2>3, <2>4
  <2> QED
    BY <1>2, <2>1, <2>5
<1>5. N \in T
  <2>1. N \in Nat /\ N \in 0..N
    BY <1>2
  <2> HIDE DEF T, N
  <2> QED
    BY ONLY <1>3, <1>4, <2>1, StepsUp
<1>6. CallAt(b, s, Len(s)) \in deep[N]
  BY <1>2, <1>5
<1> HIDE DEF N
<1> QED
  BY <1>1, <1>2, <1>6

\* The words have letters.
LEMMA SomeLetter == \E c \in Letters : TRUE
<1>1. PICK w \in Words : Len(w) = 4
  BY DictionaryAssumption
<1>2. w \in Seq(Letters) /\ 1 \in 1..4
  BY DictionaryAssumption
<1>3. w[1] \in Letters
  BY <1>1, <1>2, ElementOfSeq
<1> QED
  BY <1>3

\* What is known of a trail.
LEMMA TrailIs ==
    ASSUME NEW b, NEW s, IsBoard(b), s \in Trails(b)
    PROVE  /\ s \in Seq(AllCells) /\ IsPath(s) /\ s # <<>>
           /\ Len(s) \in Nat \ {0} /\ Len(s) \in 1..Len(s) /\ s[Len(s)] \in Cells
           /\ \A i \in 1..Len(s) : s[i] \in Cells
           /\ \A i \in 1..(Len(s) - 1) : i \in 1..Len(s) /\ b[s[i]] # kCellEmpty
           /\ \A n \in 1..Len(s) : b[s[n]] # kCellEmpty => Along(b, s, n) \in Nodes
           /\ WordLen(Along(b, s, Len(s) - 1)) \in Nat
           /\ Along(b, s, Len(s) - 1) \in Nodes
           /\ Before(s, Len(s)) \subseteq Cells
<1>1. /\ s \in Seq(AllCells) /\ s # <<>> /\ IsPath(s)
      /\ \A i \in 1..(Len(s) - 1) : b[s[i]] # kCellEmpty
      /\ \A n \in 1..Len(s) : b[s[n]] # kCellEmpty => Along(b, s, n) \in Nodes
  BY DEF Trails
<1> DEFINE l == Len(s)
           m == l - 1
           t == Along(b, s, m)
<1>2. /\ l \in Nat \ {0} /\ l \in 1..l /\ m \in Nat
      /\ \A i \in 1..m : i \in 1..l
      /\ m = 0 \/ (m \in 1..m /\ m \in 1..l)
  <2>1. l \in Nat \ {0}
    BY <1>1, AllButLast
  <2> QED
    BY <2>1
<1>3. \A i \in 1..l : s[i] \in Cells
  BY <1>1, ElementOfSeq, CornersAre DEF l
<1>4. Before(s, l) \subseteq Cells
  BY <1>2, <1>3 DEF Before
<1>5. \A i \in 1..m : b[s[i]] # kCellEmpty /\ b[s[i]] \in Letters
  BY <1>1, <1>2, <1>3 DEF IsBoard
<1>6. t \in [1..m -> Letters]
  BY <1>5 DEF Along
<1>7. t \in Nodes
  <2>1. CASE m = 0
    <3>1. Len(t) = 0 /\ t \in Seq(Letters)
      <4> HIDE DEF t, m
      <4> QED
        BY <1>2, <1>6, <2>1, SeqOfLen
    <3>2. t = <<>>
      <4> HIDE DEF t, m
      <4> QED
        BY <3>1, EmptySeq
    <3> QED
      BY <3>2 DEF Nodes
  <2>2. CASE m # 0
    BY <1>1, <1>2, <1>5, <2>2
  <2> QED
    BY <2>1, <2>2
<1>8. WordLen(t) \in Nat
  <2>1. t \in Seq(Letters)
    <3> HIDE DEF t, m
    <3> QED
      BY <1>2, <1>6, SeqOfLen
  <2>2. PICK c \in Letters : TRUE
    BY SomeLetter
  <2> HIDE DEF t
  <2> QED
    BY <2>1, WordLenAppend
<1> QED
  BY <1>1, <1>2, <1>3, <1>4, <1>5, <1>7, <1>8

\* A trail cut off after n cells.
LEMMA CutTrail ==
    ASSUME NEW s, NEW n, s \in Seq(AllCells), IsPath(s), n \in 1..Len(s)
    PROVE  \E r \in Seq(AllCells) :
              /\ Len(r) = n /\ r # <<>> /\ IsPath(r)
              /\ \A i \in 1..n : r[i] = s[i]
              /\ Before(r, n) = Before(s, n)
              /\ \A b : /\ \A m \in 0..n : Along(b, r, m) = Along(b, s, m)
                        /\ CallAt(b, r, n) = CallAt(b, s, n)
<1> DEFINE r == [i \in 1..n |-> s[i]]
<1>1. /\ Len(s) \in Nat /\ n \in Nat /\ n # 0 /\ n \in 1..n /\ n \in 0..n /\ n - 1 \in 0..n
      /\ \A i \in 1..n : i \in 1..Len(s) /\ s[i] \in AllCells
      /\ \A i \in 1..(n - 1) : i \in 1..n /\ i + 1 \in 1..n /\ i \in 1..(Len(s) - 1)
      /\ \A m \in 0..n : \A i \in 1..m : i \in 1..n
  <2>1. Len(s) \in Nat
    BY LenProperties
  <2>2. n \in Nat /\ n <= Len(s)
    BY <2>1
  <2>3. \A i \in 1..n : i \in 1..Len(s)
    BY <2>1, <2>2
  <2> QED
    BY <2>1, <2>2, <2>3, ElementOfSeq
<1>2. r \in Seq(AllCells) /\ Len(r) = n
  BY <1>1, SeqOfLen
<1>3. \A i \in 1..n : r[i] = s[i]
  OBVIOUS
<1> HIDE DEF r
<1>4. r # <<>>
  BY <1>1, <1>2, EmptySeq
<1>5. IsPath(r)
  BY <1>1, <1>2, <1>3 DEF IsPath
<1>6. Before(r, n) = Before(s, n)
  BY <1>1, <1>3 DEF Before
<1>7. \A b : \A m \in 0..n : Along(b, r, m) = Along(b, s, m)
  BY <1>1, <1>3 DEF Along
<1>8. \A b : CallAt(b, r, n) = CallAt(b, s, n)
  BY <1>1, <1>3, <1>6, <1>7 DEF CallAt
<1> QED
  BY <1>2, <1>3, <1>4, <1>5, <1>6, <1>7, <1>8

\* The first call on a trail is the one SolveTwoHole makes, and all of these are.
LEMMA FirstCalls ==
    ASSUME NEW b, NEW s, IsBoard(b), s \in Seq(AllCells), s # <<>>
    PROVE  CallOn(b, s[1], 0, <<>>, {}) =
               IF b[s[1]] = kCellEmpty \/ Along(b, s, 1) \in Nodes
               THEN {CallAt(b, s, 1)} ELSE {}
<1> DEFINE n == 1
           t == Along(b, s, n - 1)
<1>1. Len(s) \in Nat \ {0} /\ n \in 1..Len(s) /\ n - 1 = 0 /\ 1..0 = {} /\ 0 \in Nat
  <2>1. Len(s) \in Nat \ {0}
    BY AllButLast
  <2> QED
    BY <2>1
<1>2. t = <<>> /\ Before(s, n) = {}
  <2>1. t \in [1..0 -> Letters]
    BY <1>1 DEF Along
  <2> HIDE DEF t
  <2>2. t \in Seq(Letters) /\ Len(t) = 0
    BY <1>1, <2>1, SeqOfLen
  <2> HIDE DEF n
  <2> QED
    BY <1>1, <2>2, EmptySeq DEF Before
<1>3. WordLen(<<>>) = 0
  <2>1. {i \in DOMAIN <<>> : <<>>[i] = Q} = {} /\ Len(<<>>) = 0
    OBVIOUS
  <2> QED
    BY <2>1, FS_EmptySet DEF WordLen
<1>4. \A i \in 1..(n - 1) : b[s[i]] # kCellEmpty
  BY <1>1
<1> HIDE DEF n, t
<1>5. CallOn(b, s[n], WordLen(Along(b, s, n - 1)), Along(b, s, n - 1), Before(s, n)) =
               IF b[s[n]] = kCellEmpty \/ Along(b, s, n) \in Nodes
               THEN {CallAt(b, s, n)} ELSE {}
  BY <1>1, <1>4, CallOnIs
<1> QED
  BY <1>2, <1>3, <1>5 DEF n, t

\* SolveTwoHole calls DoDFS on all trails.
LEMMA FromEachCellIs ==
    ASSUME NEW b, IsBoard(b)
    PROVE  FromEachCell(b) = CallsOn(b, Trails(b))
<1> DEFINE first == UNION {CallOn(b, k, 0, <<>>, {}) : k \in Cells}
<1>1. FromEachCell(b) = DoDFSs(b, first)
  BY DEF FromEachCell
<1>2. first \subseteq Call
  <2>1. 0 \in Nat /\ <<>> \in Nodes /\ {} \in SUBSET Cells
    BY DEF Nodes
  <2>2. \A k \in Cells : CallOn(b, k, 0, <<>>, {}) \subseteq Call
    BY <2>1, CallsAreCalls
  <2> QED
    BY <2>2
<1>3. first \subseteq CallsOn(b, Trails(b))
  <2>1. ASSUME NEW k \in Cells, NEW f \in CallOn(b, k, 0, <<>>, {})
        PROVE  f \in CallsOn(b, Trails(b))
    <3> DEFINE s == Append(<<>>, k)
               n == 1
               e == <<>>
               z == 0
    <3>1. k \in AllCells /\ e \in Seq(AllCells) /\ Len(e) = z /\ z + 1 = n /\ n \in Nat /\ z \in Nat
      BY CornersAre, EmptySeq
    <3>2. 1..z = {} /\ 1..(z - 1) = {} /\ ~(z > 0) /\ 1..n = {n} /\ 1..(n - 1) = {} /\ n # z
      OBVIOUS
    <3>3. IsPath(e)
      BY <3>1, <3>2 DEF IsPath
    <3> HIDE DEF e, z
    <3>4. Append(e, k) \in Seq(AllCells) /\ Len(Append(e, k)) = z + 1 /\ IsPath(Append(e, k))
      BY ONLY <3>1, <3>2, <3>3, ExtendPath
    <3>5. Append(e, k)[z + 1] = k
      BY <3>1, AppendProperties
    <3> HIDE DEF n
    <3>6. s \in Seq(AllCells) /\ Len(s) = n /\ IsPath(s) /\ s[n] = k
      BY <3>1, <3>4, <3>5 DEF e
    <3> HIDE DEF s
    <3>7. s # <<>>
      BY <3>1, <3>2, <3>6, EmptySeq DEF z
    <3>8. f = CallAt(b, s, n) /\ (b[s[n]] = kCellEmpty \/ Along(b, s, n) \in Nodes)
      <4>1. CallOn(b, s[n], 0, <<>>, {}) =
                IF b[s[n]] = kCellEmpty \/ Along(b, s, n) \in Nodes
                THEN {CallAt(b, s, n)} ELSE {}
        BY <3>6, <3>7, FirstCalls DEF n
      <4> QED
        BY <2>1, <3>6, <4>1
    <3>9. s \in Trails(b)
      BY <3>2, <3>6, <3>7, <3>8 DEF Trails
    <3> QED
      BY <3>6, <3>8, <3>9 DEF CallsOn
  <2> QED
    BY <2>1
<1>4. ASSUME NEW s \in Trails(b) PROVE CallAt(b, s, 1) \in first
  <2>1. 1 \in 1..Len(s) /\ s[1] \in Cells
    BY TrailIs
  <2>2. b[s[1]] = kCellEmpty \/ Along(b, s, 1) \in Nodes
    BY <2>1, TrailIs
  <2>3. CallAt(b, s, 1) \in CallOn(b, s[1], 0, <<>>, {})
    BY <2>2, FirstCalls, TrailIs
  <2> QED
    BY <2>1, <2>3
<1> HIDE DEF first
<1>5. DoDFSs(b, first) \subseteq CallsOn(b, Trails(b))
  <2> DEFINE S == Trails(b)
  <2>1. S \subseteq Trails(b) /\ first \subseteq CallsOn(b, S)
        /\ \A s \in S, k \in AllCells : Append(s, k) \in Trails(b) => Append(s, k) \in S
    BY <1>3
  <2> HIDE DEF S
  <2>2. DoDFSs(b, first) \subseteq CallsOn(b, S)
    BY <1>2, <2>1, DoDFSsSound
  <2> QED
    BY <2>2 DEF S
<1>6. ASSUME NEW s \in Trails(b) PROVE CallAt(b, s, Len(s)) \in DoDFSs(b, first)
  <2> DEFINE m == 1
  <2>1. m \in 1..Len(s) /\ CallAt(b, s, m) \in first
    BY <1>4, TrailIs
  <2> HIDE DEF m
  <2> QED
    BY <1>2, <2>1, DoDFSsComplete
<1>7. CallsOn(b, Trails(b)) \subseteq DoDFSs(b, first)
  BY <1>6 DEF CallsOn
<1> QED
  BY <1>1, <1>5, <1>7

\* The board b is the board a with a letter in k instead of nothing.
FillsIn(a, b, k) ==
    /\ IsBoard(a) /\ IsBoard(b) /\ k \in Cells
    /\ a[k] = kCellEmpty /\ b[k] # kCellEmpty
    /\ \A n \in Cells : n # k => b[n] = a[n]

\* What a call on an empty cell tells its callback, on trails that end in k after
\* the cells of J; and the trails through k after these.
HolePath(b, s) ==
    [len |-> WordLen(Along(b, s, Len(s) - 1)), node |-> Along(b, s, Len(s) - 1),
     used |-> Before(s, Len(s))]
EndIn(b, J, k) == {s \in Trails(b) : s[Len(s)] = k /\ J \subseteq Before(s, Len(s))}
PathsInto(b, J, k) == {HolePath(b, s) : s \in EndIn(b, J, k)}
Via(b, J, k) == {s \in Trails(b) : \E n \in 1..Len(s) : s[n] = k /\ J \subseteq Before(s, n)}

\* Up to k the two boards have the same letters.
LEMMA SameUpTo ==
    ASSUME NEW a, NEW b, NEW k, FillsIn(a, b, k),
           NEW s, NEW n, s \in Seq(AllCells), IsPath(s), n \in 1..Len(s), s[n] = k
    PROVE  /\ \A i \in 1..(n - 1) : b[s[i]] = a[s[i]]
           /\ \A m \in 0..(n - 1) : Along(b, s, m) = Along(a, s, m)
<1>1. Len(s) \in Nat /\ \A i \in 1..(n - 1) : i \in 1..Len(s) /\ i # n
  BY LenProperties
<1>2. \A i \in 1..(n - 1) : s[i] \in Cells /\ s[i] # k
  BY <1>1, ElementOfSeq, CornersAre DEF IsPath
<1>3. \A i \in 1..(n - 1) : b[s[i]] = a[s[i]]
  BY <1>2 DEF FillsIn
<1>4. \A m \in 0..(n - 1) : \A i \in 1..m : i \in 1..(n - 1)
  BY <1>1
<1> QED
  BY <1>3, <1>4 DEF Along

\* Where the calls of FillHole and MergeBoards start.
LEMMA FirstFromPath ==
    ASSUME NEW a, NEW b, NEW k, NEW J, FillsIn(a, b, k), NEW s, s \in EndIn(a, J, k)
    PROVE  LET p == HolePath(a, s)
           IN  /\ CallOn(b, k, p.len, p.node, p.used) \subseteq Call
               /\ CallOn(b, k, p.len, p.node, p.used) =
                      IF Along(b, s, Len(s)) \in Nodes THEN {CallAt(b, s, Len(s))} ELSE {}
               /\ Along(b, s, Len(s)) \in Nodes => s \in Via(b, J, k)
<1> DEFINE l == Len(s)
           p == HolePath(a, s)
<1>1. IsBoard(a) /\ IsBoard(b) /\ k \in Cells /\ a[k] = kCellEmpty /\ b[k] # kCellEmpty
  BY DEF FillsIn
<1>2. s \in Trails(a) /\ s[l] = k /\ J \subseteq Before(s, l)
  BY DEF EndIn
<1>3. /\ s \in Seq(AllCells) /\ IsPath(s) /\ s # <<>> /\ l \in Nat \ {0} /\ l \in 1..l
      /\ \A i \in 1..(l - 1) : i \in 1..l /\ a[s[i]] # kCellEmpty
      /\ \A n \in 1..l : a[s[n]] # kCellEmpty => Along(a, s, n) \in Nodes
      /\ WordLen(Along(a, s, l - 1)) \in Nat
      /\ Along(a, s, l - 1) \in Nodes
      /\ Before(s, l) \subseteq Cells
  BY <1>1, <1>2, TrailIs
<1>4. /\ \A i \in 1..(l - 1) : b[s[i]] = a[s[i]]
      /\ \A m \in 0..(l - 1) : Along(b, s, m) = Along(a, s, m)
  BY <1>2, <1>3, SameUpTo
<1>5. p.len = WordLen(Along(a, s, l - 1)) /\ p.node = Along(a, s, l - 1) /\ p.used = Before(s, l)
  BY DEF HolePath
<1>6. l - 1 \in 0..(l - 1) /\ (\A m \in 1..l : m = l \/ m \in 1..(l - 1))
      /\ \A m \in 1..(l - 1) : m \in 0..(l - 1)
  BY <1>3
<1> HIDE DEF p, l
<1>7. CallOn(b, k, p.len, p.node, p.used) \subseteq Call
  BY <1>1, <1>3, <1>5, CallsAreCalls
<1>8. CallOn(b, s[l], WordLen(Along(b, s, l - 1)), Along(b, s, l - 1), Before(s, l)) =
               IF b[s[l]] = kCellEmpty \/ Along(b, s, l) \in Nodes
               THEN {CallAt(b, s, l)} ELSE {}
  <2>1. \A i \in 1..(l - 1) : b[s[i]] # kCellEmpty
    BY <1>3, <1>4
  <2> QED
    BY <1>1, <1>3, <2>1, CallOnIs DEF l
<1>9. CallOn(b, k, p.len, p.node, p.used) =
          IF Along(b, s, l) \in Nodes THEN {CallAt(b, s, l)} ELSE {}
  BY <1>1, <1>2, <1>4, <1>5, <1>6, <1>8
<1>10. ASSUME Along(b, s, l) \in Nodes PROVE s \in Via(b, J, k)
  <2>1. \A i \in 1..(l - 1) : b[s[i]] # kCellEmpty
    BY <1>3, <1>4
  <2>2. ASSUME NEW m \in 1..l, b[s[m]] # kCellEmpty PROVE Along(b, s, m) \in Nodes
    <3>1. CASE m = l
      BY <1>10, <3>1
    <3>2. CASE m \in 1..(l - 1)
      BY <1>3, <1>4, <1>6, <3>2
    <3> QED
      BY <1>6, <3>1, <3>2
  <2>3. s \in Trails(b)
    BY <1>3, <2>1, <2>2 DEF Trails, l
  <2> QED
    BY <1>2, <1>3, <2>3 DEF Via, l
<1> QED
  BY <1>7, <1>9, <1>10 DEF p, l

\* A trail through k starts with one that ends in it while k is empty.
LEMMA ViaStarts ==
    ASSUME NEW a, NEW b, NEW k, NEW J, FillsIn(a, b, k), NEW s, s \in Via(b, J, k)
    PROVE  \E n \in 1..Len(s), r \in EndIn(a, J, k) :
              /\ Len(r) = n /\ CallAt(b, r, n) = CallAt(b, s, n)
              /\ Along(b, r, n) \in Nodes
<1>1. IsBoard(a) /\ IsBoard(b) /\ k \in Cells /\ a[k] = kCellEmpty /\ b[k] # kCellEmpty
  BY DEF FillsIn
<1>2. s \in Trails(b) /\ \E n \in 1..Len(s) : s[n] = k /\ J \subseteq Before(s, n)
  BY DEF Via
<1>3. PICK n \in 1..Len(s) : s[n] = k /\ J \subseteq Before(s, n)
  BY <1>2
<1>4. /\ s \in Seq(AllCells) /\ IsPath(s) /\ Len(s) \in Nat \ {0}
      /\ \A i \in 1..(Len(s) - 1) : b[s[i]] # kCellEmpty
      /\ \A m \in 1..Len(s) : b[s[m]] # kCellEmpty => Along(b, s, m) \in Nodes
  BY <1>1, <1>2, TrailIs
<1>5. PICK r \in Seq(AllCells) :
              /\ Len(r) = n /\ r # <<>> /\ IsPath(r)
              /\ \A i \in 1..n : r[i] = s[i]
              /\ Before(r, n) = Before(s, n)
              /\ \A c : /\ \A m \in 0..n : Along(c, r, m) = Along(c, s, m)
                        /\ CallAt(c, r, n) = CallAt(c, s, n)
  BY <1>4, CutTrail
<1>6. /\ n \in Nat /\ n \in 1..n /\ n \in 0..n
      /\ \A i \in 1..(n - 1) : i \in 1..(Len(s) - 1) /\ i \in 1..n /\ i \in 0..n /\ i \in 0..(n - 1)
      /\ \A i \in 1..n : i \in 1..Len(s) /\ (i = n \/ i \in 1..(n - 1))
  BY <1>4
<1>7. /\ \A i \in 1..(n - 1) : b[r[i]] = a[r[i]]
      /\ \A m \in 0..(n - 1) : Along(b, r, m) = Along(a, r, m)
  BY <1>3, <1>5, <1>6, SameUpTo
<1>8. \A i \in 1..(n - 1) : a[r[i]] # kCellEmpty
  BY <1>4, <1>5, <1>6, <1>7
<1>9. ASSUME NEW m \in 1..n, a[r[m]] # kCellEmpty PROVE Along(a, r, m) \in Nodes
  <2>1. m \in 1..(n - 1)
    BY <1>1, <1>3, <1>5, <1>6, <1>9
  <2>2. b[s[m]] # kCellEmpty /\ m \in 1..Len(s)
    BY <1>4, <1>6, <2>1
  <2>3. Along(b, s, m) \in Nodes
    BY <1>4, <2>2
  <2> QED
    BY <1>5, <1>6, <1>7, <2>1, <2>3
<1>10. r \in Trails(a)
  BY <1>5, <1>8, <1>9 DEF Trails
<1>11. r \in EndIn(a, J, k)
  BY <1>3, <1>5, <1>6, <1>10 DEF EndIn
<1>12. Along(b, s, n) \in Nodes
  BY <1>1, <1>3, <1>4
<1> QED
  BY <1>5, <1>6, <1>11, <1>12

\* FillHole and MergeBoards call DoDFS on all trails through the corner.
LEMMA FromPathsIs ==
    ASSUME NEW a, NEW b, NEW k, NEW J, FillsIn(a, b, k)
    PROVE  FromPaths(b, k, PathsInto(a, J, k)) = CallsOn(b, Via(b, J, k))
<1> DEFINE P == PathsInto(a, J, k)
           first == UNION {CallOn(b, k, p.len, p.node, p.used) : p \in P}
           S == Via(b, J, k)
<1>1. FromPaths(b, k, P) = DoDFSs(b, first)
  BY DEF FromPaths
<1>2. IsBoard(b)
  BY DEF FillsIn
<1>3. ASSUME NEW f \in first
      PROVE  f \in Call /\ f \in CallsOn(b, S)
  <2>1. PICK p \in P : f \in CallOn(b, k, p.len, p.node, p.used)
    OBVIOUS
  <2>2. PICK s \in EndIn(a, J, k) : p = HolePath(a, s)
    BY DEF PathsInto
  <2>3. /\ CallOn(b, k, p.len, p.node, p.used) \subseteq Call
        /\ CallOn(b, k, p.len, p.node, p.used) =
               IF Along(b, s, Len(s)) \in Nodes THEN {CallAt(b, s, Len(s))} ELSE {}
        /\ Along(b, s, Len(s)) \in Nodes => s \in S
    BY <2>2, FirstFromPath
  <2> QED
    BY <2>1, <2>3 DEF CallsOn
<1>4. ASSUME NEW s \in S PROVE s \in Trails(b) /\ \E n \in 1..Len(s) : CallAt(b, s, n) \in first
  <2>1. PICK n \in 1..Len(s), r \in EndIn(a, J, k) :
              /\ Len(r) = n /\ CallAt(b, r, n) = CallAt(b, s, n)
              /\ Along(b, r, n) \in Nodes
    BY ViaStarts
  <2> DEFINE p == HolePath(a, r)
  <2>2. p \in P
    BY DEF PathsInto
  <2>3. CallOn(b, k, p.len, p.node, p.used) = {CallAt(b, r, n)}
    BY <2>1, FirstFromPath
  <2> HIDE DEF p
  <2>4. CallAt(b, s, n) \in first
    BY <2>1, <2>2, <2>3
  <2> QED
    BY <2>4 DEF Via
<1>5. ASSUME NEW s \in S, NEW x \in AllCells, Append(s, x) \in Trails(b)
      PROVE  Append(s, x) \in S
  <2> DEFINE e == Append(s, x)
  <2>1. PICK n \in 1..Len(s) : s[n] = k /\ J \subseteq Before(s, n)
    BY DEF Via
  <2>2. s \in Seq(AllCells)
    BY DEF Via, Trails
  <2>3. Len(e) = Len(s) + 1 /\ Len(s) \in Nat /\ \A i \in 1..Len(s) : e[i] = s[i]
    BY <2>2, AppendProperties, LenProperties
  <2> HIDE DEF e
  <2>4. n \in 1..Len(e) /\ \A i \in 1..(n - 1) : i \in 1..Len(s)
    BY <2>3
  <2>5. e[n] = k /\ Before(e, n) = Before(s, n)
    BY <2>1, <2>3, <2>4 DEF Before
  <2>6. e \in Trails(b)
    BY <1>5 DEF e
  <2> QED
    BY <2>1, <2>4, <2>5, <2>6 DEF Via, e
<1> HIDE DEF first, P
<1>6. S \subseteq Trails(b) /\ first \subseteq Call /\ first \subseteq CallsOn(b, S)
      /\ \A s \in S, x \in AllCells : Append(s, x) \in Trails(b) => Append(s, x) \in S
  BY <1>3, <1>4, <1>5
<1> HIDE DEF S
<1>7. DoDFSs(b, first) \subseteq CallsOn(b, S)
  BY <1>2, <1>6, DoDFSsSound
<1>8. ASSUME NEW s \in S PROVE CallAt(b, s, Len(s)) \in DoDFSs(b, first)
  BY <1>2, <1>4, <1>6, DoDFSsComplete
<1>9. CallsOn(b, S) \subseteq DoDFSs(b, first)
  BY <1>8 DEF CallsOn
<1> QED
  BY <1>1, <1>7, <1>9 DEF P, S

-----------------------------------------------------------------------------
(* What the calls tell their callback.                                     *)

\* The paths that come to an empty cell.
LEMMA EmptyCellIs ==
    ASSUME NEW b, NEW k, NEW S, b[k] = kCellEmpty, S \subseteq Trails(b)
    PROVE  EmptyCell(b, k, CallsOn(b, S)) = {HolePath(b, s) : s \in {s \in S : s[Len(s)] = k}}
<1>1. ASSUME NEW s \in S, s[Len(s)] = k
      PROVE  LET e == CallAt(b, s, Len(s))
             IN  [len |-> e.len, node |-> e.node, used |-> e.used] = HolePath(b, s)
  BY <1>1 DEF CallAt, HolePath
<1>2. \A s \in S : CallAt(b, s, Len(s)).cell = s[Len(s)]
  BY DEF CallAt
<1>3. ASSUME NEW x \in EmptyCell(b, k, CallsOn(b, S))
      PROVE  \E s \in S : s[Len(s)] = k /\ x = HolePath(b, s)
  <2>1. PICK e \in CallsOn(b, S) :
            e.cell = k /\ x = [len |-> e.len, node |-> e.node, used |-> e.used]
    BY DEF EmptyCell
  <2>2. PICK s \in S : e = CallAt(b, s, Len(s))
    BY DEF CallsOn
  <2> QED
    BY <1>1, <1>2, <2>1, <2>2
<1>4. ASSUME NEW s \in S, s[Len(s)] = k PROVE HolePath(b, s) \in EmptyCell(b, k, CallsOn(b, S))
  <2> DEFINE e == CallAt(b, s, Len(s))
  <2>1. e \in CallsOn(b, S) /\ e.cell = k
    BY <1>2, <1>4 DEF CallsOn
  <2>2. [len |-> e.len, node |-> e.node, used |-> e.used] = HolePath(b, s)
    BY <1>1, <1>4
  <2> HIDE DEF e
  <2>3. [len |-> e.len, node |-> e.node, used |-> e.used] \in EmptyCell(b, k, CallsOn(b, S))
    BY <2>1 DEF EmptyCell
  <2> QED
    BY <2>2, <2>3
<1> QED
  BY <1>3, <1>4

\* The words that trails of S spell, and these and their lengths are what is found.
WordsAlong(b, S) ==
    {w \in Words : \E s \in S : b[s[Len(s)]] # kCellEmpty /\ Along(b, s, Len(s)) = w}

\* The callback is told the words along the trails, with their lengths.
LEMMA FoundWordIs ==
    ASSUME NEW b, NEW S, IsBoard(b), S \subseteq Trails(b)
    PROVE  /\ WordsOf(FoundWord(b, CallsOn(b, S))) = WordsAlong(b, S)
           /\ \A f \in FoundWord(b, CallsOn(b, S)) : f.len = WordLen(f.node)
<1> DEFINE F == FoundWord(b, CallsOn(b, S))
<1>1. ASSUME NEW s \in S, b[s[Len(s)]] # kCellEmpty
      PROVE  LET e == CallAt(b, s, Len(s))
             IN  /\ e.cell = s[Len(s)] /\ e.node = Along(b, s, Len(s))
                 /\ LengthAfter(b, e) = WordLen(Along(b, s, Len(s)))
  <2> DEFINE n == Len(s)
             e == CallAt(b, s, n)
  <2>1. /\ s \in Seq(AllCells) /\ n \in 1..Len(s)
        /\ \A i \in 1..(n - 1) : b[s[i]] # kCellEmpty
        /\ n \in Nat
    BY TrailIs
  <2>2. \A i \in 1..n : i = n \/ i \in 1..(n - 1)
    BY <2>1
  <2>3. \A i \in 1..n : b[s[i]] # kCellEmpty
    BY <1>1, <2>1, <2>2
  <2>4. e.cell = s[n] /\ e.node = Along(b, s, n) /\ e.len = WordLen(Along(b, s, n - 1))
    BY <1>1 DEF CallAt
  <2> HIDE DEF n, e
  <2>5. WordLen(Along(b, s, n)) = WordLen(Along(b, s, n - 1)) + LetterLen(b[s[n]])
    BY <2>1, <2>3, AlongIs
  <2> QED
    BY <2>4, <2>5 DEF LengthAfter, n, e
<1>2. ASSUME NEW f \in F
      PROVE  f.node \in WordsAlong(b, S) /\ f.len = WordLen(f.node)
  <2>1. PICK e \in CallsOn(b, S) : /\ b[e.cell] # kCellEmpty /\ IsWord(e.node)
                                   /\ f = [len |-> LengthAfter(b, e), node |-> e.node]
    BY DEF FoundWord
  <2>2. PICK s \in S : e = CallAt(b, s, Len(s))
    BY DEF CallsOn
  <2>3. e.cell = s[Len(s)]
    BY <2>2 DEF CallAt
  <2>4. e.node = Along(b, s, Len(s)) /\ LengthAfter(b, e) = WordLen(Along(b, s, Len(s)))
    BY <1>1, <2>1, <2>2, <2>3
  <2>5. f.node = e.node /\ f.len = LengthAfter(b, e)
    BY <2>1
  <2> QED
    BY <2>1, <2>3, <2>4, <2>5 DEF WordsAlong, IsWord
<1>3. ASSUME NEW w \in WordsAlong(b, S) PROVE w \in WordsOf(F)
  <2>1. PICK s \in S : b[s[Len(s)]] # kCellEmpty /\ Along(b, s, Len(s)) = w
    BY DEF WordsAlong
  <2> DEFINE e == CallAt(b, s, Len(s))
             f == [len |-> LengthAfter(b, e), node |-> e.node]
  <2>2. e.cell = s[Len(s)] /\ e.node = w /\ w \in Words /\ e \in CallsOn(b, S)
    BY <1>1, <2>1 DEF CallsOn, WordsAlong
  <2> HIDE DEF e
  <2>3. f \in F /\ f.node = w
    BY <2>1, <2>2 DEF FoundWord, IsWord
  <2> HIDE DEF F, f
  <2> QED
    BY <2>3 DEF WordsOf
<1> HIDE DEF F
<1>4. \A w \in WordsOf(F) : w \in WordsAlong(b, S)
  BY <1>2 DEF WordsOf
<1> QED
  BY <1>2, <1>3, <1>4 DEF F

-----------------------------------------------------------------------------
(* The words of a board and of the same board with empty corners.          *)

FoundIn(b) == {w \in Words : Found(b, w)}

\* The letters of a word are none of them empty.
LEMMA LettersOfWord ==
    \A w \in Words : /\ Len(w) \in Nat \ {0} /\ w \in [1..Len(w) -> Letters]
                     /\ \A i \in 1..Len(w) : w[i] # kCellEmpty
<1>1. ASSUME NEW w \in Words
      PROVE  /\ Len(w) \in Nat \ {0} /\ w \in [1..Len(w) -> Letters]
             /\ \A i \in 1..Len(w) : w[i] # kCellEmpty
  <2>1. w \in Seq(Letters)
    BY DictionaryAssumption
  <2>2. w \in [1..Len(w) -> Letters]
    BY <2>1, LenProperties
  <2> QED
    BY <2>2, FoundIs, BoardsAssumption
<1> QED
  BY <1>1

\* A path with the letters of a word is a trail, which spells the word.
LEMMA WordTrail ==
    ASSUME NEW b, NEW w, NEW s, w \in Words, s \in Seq(AllCells), Len(s) = Len(w),
           IsPath(s), \A i \in 1..Len(w) : b[s[i]] = w[i]
    PROVE  s \in Trails(b) /\ b[s[Len(s)]] # kCellEmpty /\ Along(b, s, Len(s)) = w
<1> DEFINE l == Len(w)
<1>1. /\ l \in Nat \ {0} /\ w \in [1..l -> Letters] /\ \A i \in 1..l : w[i] # kCellEmpty
  BY LettersOfWord
<1> HIDE DEF l
<1>2. l \in 1..l /\ (\A i \in 1..(l - 1) : i \in 1..l) /\ \A i \in 1..l : b[s[i]] = w[i]
  BY <1>1 DEF l
<1>3. s # <<>>
  BY <1>1, EmptySeq DEF l
<1>4. Along(b, s, l) = w
  BY <1>1, <1>2 DEF Along
<1>5. ASSUME NEW n \in 1..l PROVE Along(b, s, n) \in Nodes
  <2> DEFINE m == n - 1
             t == [i \in 1..m |-> w[i]]
             u == Along(b, s, m)
  <2>1. m \in 0..(l - 1) /\ m + 1 = n /\ (\A i \in 1..m : i \in 1..l) /\ \A i \in 1..n : i \in 1..l
    BY <1>1
  <2> HIDE DEF m
  <2>2. u = t
    BY <1>2, <2>1 DEF Along
  <2>3. Append(t, w[m + 1]) \in Nodes
    <3> HIDE DEF t
    <3>1. t = [i \in 1..m |-> w[i]]
      BY DEF t
    <3> QED
      BY <2>1, <3>1, PrefixIsNode DEF l
  <2>4. Along(b, s, n) = Append(u, b[s[n]])
    <3> DEFINE c == [k \in Cells |-> IF b[k] \in Letters THEN b[k] ELSE kCellEmpty]
    <3>1. IsBoard(c)
      BY DEF IsBoard
    <3>2. \A i \in 1..n : c[s[i]] = b[s[i]] /\ c[s[i]] # kCellEmpty
      <4>1. \A i \in 1..n : s[i] \in Cells
        BY <2>1, ElementOfSeq, CornersAre DEF l
      <4>2. \A i \in 1..n : b[s[i]] \in Letters /\ b[s[i]] # kCellEmpty
        BY <1>1, <1>2, <2>1
      <4> QED
        BY <4>1, <4>2
    <3> HIDE DEF c
    <3>3. n \in 1..Len(s) /\ n - 1 = m
      BY <2>1 DEF l
    <3>4. Along(c, s, n) = Append(Along(c, s, n - 1), c[s[n]])
      BY SMTT(20), <3>1, <3>2, <3>3, AlongIs
    <3>5. Along(c, s, n) = Along(b, s, n) /\ Along(c, s, m) = u /\ c[s[n]] = b[s[n]]
      <4>1. n \in 1..n /\ \A i \in 1..m : i \in 1..n
        BY <1>1, <2>1
      <4> QED
        BY <3>2, <4>1 DEF Along
    <3> QED
      BY <3>3, <3>4, <3>5
  <2>5. b[s[n]] = w[m + 1]
    BY <1>2, <2>1
  <2> HIDE DEF t, u
  <2> QED
    BY <2>2, <2>3, <2>4, <2>5
<1>6. s \in Trails(b)
  BY <1>1, <1>2, <1>3, <1>5 DEF Trails, l
<1> QED
  BY <1>1, <1>2, <1>4, <1>6 DEF l

\* A word that is found is spelled by a trail ...
LEMMA FoundTrail ==
    ASSUME NEW b, NEW w, w \in FoundIn(b)
    PROVE  \E s \in Trails(b) :
              /\ b[s[Len(s)]] # kCellEmpty /\ Along(b, s, Len(s)) = w
              /\ Len(s) = Len(w) /\ \A i \in 1..Len(w) : b[s[i]] = w[i]
<1>1. w \in Words /\ Found(b, w)
  BY DEF FoundIn
<1>2. PICK s \in Seq(AllCells) : /\ Len(s) = Len(w) /\ IsPath(s)
                                 /\ \A i \in 1..Len(w) : b[s[i]] = w[i]
  BY <1>1, FoundIs
<1>3. s \in Trails(b) /\ b[s[Len(s)]] # kCellEmpty /\ Along(b, s, Len(s)) = w
  BY <1>1, <1>2, WordTrail
<1> QED
  BY <1>2, <1>3

\* ... and what trails spell is found.
LEMMA WordsAlongFound ==
    ASSUME NEW b, NEW S, IsBoard(b), S \subseteq Trails(b)
    PROVE  WordsAlong(b, S) \subseteq FoundIn(b)
<1>1. ASSUME NEW w \in Words, NEW s \in S, Along(b, s, Len(s)) = w
      PROVE  Found(b, w)
  <2>1. s \in Seq(AllCells) /\ IsPath(s) /\ Len(s) \in Nat
    BY TrailIs
  <2>2. DOMAIN w = 1..Len(s) /\ \A i \in 1..Len(s) : w[i] = b[s[i]]
    BY <1>1 DEF Along
  <2>3. Len(w) \in Nat /\ DOMAIN w = 1..Len(w)
    BY FoundIs
  <2>4. Len(s) = Len(w)
    BY <2>1, <2>2, <2>3, SameInterval
  <2> QED
    BY <2>1, <2>2, <2>4, FoundIs
<1> QED
  BY <1>1 DEF WordsAlong, FoundIn

\* All trails spell all words.
LEMMA AllWordsAlong ==
    ASSUME NEW b, IsBoard(b)
    PROVE  WordsAlong(b, Trails(b)) = FoundIn(b)
<1>1. WordsAlong(b, Trails(b)) \subseteq FoundIn(b)
  BY WordsAlongFound
<1>2. ASSUME NEW w \in FoundIn(b) PROVE w \in WordsAlong(b, Trails(b))
  BY FoundTrail DEF WordsAlong, FoundIn
<1> QED
  BY <1>1, <1>2

\* A word that is not along a trail through k is there without k.
LEMMA FoundWithout ==
    ASSUME NEW a, NEW b, NEW k, FillsIn(a, b, k)
    PROVE  /\ FoundIn(a) \subseteq FoundIn(b)
           /\ \A w \in FoundIn(b), s \in Trails(b) :
                 /\ Len(s) = Len(w) /\ \A i \in 1..Len(w) : b[s[i]] = w[i] /\ s[i] # k
                 => w \in FoundIn(a)
<1>1. IsBoard(a) /\ IsBoard(b) /\ a[k] = kCellEmpty /\ \A n \in Cells : n # k => b[n] = a[n]
  BY DEF FillsIn
<1>2. ASSUME NEW w \in FoundIn(a) PROVE w \in FoundIn(b)
  <2>1. PICK s \in Trails(a) : /\ Len(s) = Len(w) /\ \A i \in 1..Len(w) : a[s[i]] = w[i]
    BY FoundTrail
  <2>2. w \in Words /\ \A i \in 1..Len(w) : w[i] # kCellEmpty
    BY LettersOfWord DEF FoundIn
  <2>3. s \in Seq(AllCells) /\ IsPath(s) /\ \A i \in 1..Len(s) : s[i] \in Cells
    BY <1>1, TrailIs
  <2>4. \A i \in 1..Len(w) : s[i] # k
    BY <1>1, <2>1, <2>2
  <2>5. \A i \in 1..Len(w) : b[s[i]] = w[i]
    BY <1>1, <2>1, <2>3, <2>4
  <2> QED
    BY <2>1, <2>2, <2>3, <2>5, FoundIs DEF FoundIn
<1>3. ASSUME NEW w \in FoundIn(b), NEW s \in Trails(b), Len(s) = Len(w),
             \A i \in 1..Len(w) : b[s[i]] = w[i] /\ s[i] # k
      PROVE  w \in FoundIn(a)
  <2>1. s \in Seq(AllCells) /\ IsPath(s) /\ \A i \in 1..Len(s) : s[i] \in Cells
    BY <1>1, TrailIs
  <2>2. \A i \in 1..Len(w) : a[s[i]] = w[i]
    BY <1>1, <1>3, <2>1
  <2>3. w \in Words
    BY DEF FoundIn
  <2> QED
    BY <1>3, <2>1, <2>2, <2>3, FoundIs DEF FoundIn
<1> QED
  BY <1>2, <1>3

\* A word with a letter in k is one without it, or is along a trail through it.
LEMMA FilledWords ==
    ASSUME NEW a, NEW b, NEW k, FillsIn(a, b, k)
    PROVE  FoundIn(b) = FoundIn(a) \cup WordsAlong(b, Via(b, {}, k))
<1>1. IsBoard(b)
  BY DEF FillsIn
<1>2. FoundIn(a) \subseteq FoundIn(b)
  BY FoundWithout
<1>3. WordsAlong(b, Via(b, {}, k)) \subseteq FoundIn(b)
  <2>1. Via(b, {}, k) \subseteq Trails(b)
    BY DEF Via
  <2> QED
    BY <1>1, <2>1, WordsAlongFound
<1>4. ASSUME NEW w \in FoundIn(b), w \notin FoundIn(a)
      PROVE  w \in WordsAlong(b, Via(b, {}, k))
  <2>1. PICK s \in Trails(b) : /\ b[s[Len(s)]] # kCellEmpty /\ Along(b, s, Len(s)) = w
                               /\ Len(s) = Len(w) /\ \A i \in 1..Len(w) : b[s[i]] = w[i]
    BY FoundTrail
  <2>2. \E n \in 1..Len(s) : s[n] = k
    BY <1>4, <2>1, FoundWithout
  <2>3. s \in Via(b, {}, k)
    BY <2>2 DEF Via
  <2> QED
    BY <2>1, <2>3 DEF WordsAlong, FoundIn
<1> QED
  BY <1>2, <1>3, <1>4

\* A word with letters in two cells is one without the first, or one without the
\* second, or is along a trail through both.
LEMMA TwiceFilledWords ==
    ASSUME NEW a1, NEW a2, NEW b, NEW k1, NEW k2, FillsIn(a1, b, k1), FillsIn(a2, b, k2),
           k1 # k2
    PROVE  FoundIn(b) = (FoundIn(a1) \cup FoundIn(a2))
               \cup (WordsAlong(b, Via(b, {k1}, k2)) \cup WordsAlong(b, Via(b, {k2}, k1)))
<1>1. IsBoard(b)
  BY DEF FillsIn
<1>2. FoundIn(a1) \subseteq FoundIn(b) /\ FoundIn(a2) \subseteq FoundIn(b)
  BY FoundWithout
<1>3. /\ WordsAlong(b, Via(b, {k1}, k2)) \subseteq FoundIn(b)
      /\ WordsAlong(b, Via(b, {k2}, k1)) \subseteq FoundIn(b)
  <2>1. Via(b, {k1}, k2) \subseteq Trails(b) /\ Via(b, {k2}, k1) \subseteq Trails(b)
    BY DEF Via
  <2> QED
    BY <1>1, <2>1, WordsAlongFound
<1>4. ASSUME NEW w \in FoundIn(b), w \notin FoundIn(a1), w \notin FoundIn(a2)
      PROVE  w \in WordsAlong(b, Via(b, {k1}, k2)) \cup WordsAlong(b, Via(b, {k2}, k1))
  <2>1. PICK s \in Trails(b) : /\ b[s[Len(s)]] # kCellEmpty /\ Along(b, s, Len(s)) = w
                               /\ Len(s) = Len(w) /\ \A i \in 1..Len(w) : b[s[i]] = w[i]
    BY FoundTrail
  <2>2. \E n \in 1..Len(s) : s[n] = k1
    BY <1>4, <2>1, FoundWithout
  <2>3. \E n \in 1..Len(s) : s[n] = k2
    BY <1>4, <2>1, FoundWithout
  <2>4. PICK m \in 1..Len(s) : s[m] = k1
    BY <2>2
  <2>5. PICK n \in 1..Len(s) : s[n] = k2
    BY <2>3
  <2>6. Len(s) \in Nat
    BY <1>1, TrailIs
  <2>7. m # n
    BY <2>4, <2>5
  <2>8. m \in 1..(n - 1) \/ n \in 1..(m - 1)
    BY <2>6, <2>7
  <2>9. s \in Via(b, {k1}, k2) \/ s \in Via(b, {k2}, k1)
    BY <2>4, <2>5, <2>8 DEF Via, Before
  <2> QED
    BY <2>1, <2>9 DEF WordsAlong, FoundIn
<1> QED
  BY <1>2, <1>3, <1>4

-----------------------------------------------------------------------------
(* The scores of words.                                                    *)

\* Words score as they are scored, by lengths that score the same; by others it
\* is a number of points still.
LEMMA PointsAre ==
    ASSUME NEW W, W \subseteq Words, NEW len, DOMAIN len = W
    PROVE  /\ (\A w \in W : kWordScores[len[w]] \in Nat) => Points(len) \in Nat
           /\ (\A w \in W : kWordScores[len[w]] = WordScore(w)) => Points(len) = ScoreOf(W)
<1> DEFINE g == [w \in Words |-> kWordScores[len[w]]]
           h == [w \in Words |-> WordScore(w)]
           Eq(f) == f = [s \in SUBSET W |->
                            IF s = {} THEN 0
                            ELSE LET x == CHOOSE x \in s : TRUE
                                 IN  kWordScores[len[x]] + f[s \ {x}]]
           F == CHOOSE f : Eq(f)
<1>1. IsFiniteSet(W)
  BY WordsAssumption, FS_Subset
<1>2. ASSUME NEW f, NEW s \in SUBSET W
      PROVE  SumStep(f, g, s) = IF s = {} THEN 0
                                ELSE LET x == CHOOSE x \in s : TRUE
                                     IN  kWordScores[len[x]] + f[s \ {x}]
  <2>1. CASE s = {}
    BY <2>1 DEF SumStep
  <2>2. CASE s # {}
    <3> DEFINE x == CHOOSE x \in s : TRUE
    <3>1. x \in Words
      BY <2>2
    <3>2. g[x] = kWordScores[len[x]]
      BY <3>1
    <3> HIDE DEF g
    <3> QED
      BY <2>2, <3>2 DEF SumStep
  <2> QED
    BY <2>1, <2>2
<1>3. \A w \in W : g[w] = kWordScores[len[w]] /\ h[w] = WordScore(w)
  OBVIOUS
<1> HIDE DEF g
<1>4. ASSUME NEW f PROVE IsSum(f, g, W) <=> Eq(f)
  <2> DEFINE Step(s) == IF s = {} THEN 0
                        ELSE LET x == CHOOSE x \in s : TRUE
                             IN  kWordScores[len[x]] + f[s \ {x}]
  <2>1. Eq(f) <=> f = [s \in SUBSET W |-> Step(s)]
    OBVIOUS
  <2>2. \A s \in SUBSET W : SumStep(f, g, s) = Step(s)
    BY <1>2
  <2> HIDE DEF Step, Eq
  <2> QED
    BY <2>1, <2>2 DEF IsSum
<1>5. Points(len) = F[W]
  BY DEF Points, MapThenSumSet, MapThenFoldSet
<1> HIDE DEF Eq
<1>6. Eq(F)
  <2>1. \E f : IsSum(f, g, W)
    BY <1>1, SumExists
  <2>2. \E f : Eq(f)
    BY <1>4, <2>1
  <2> QED
    BY <2>2
<1> HIDE DEF F
<1>7. IsSum(F, g, W)
  BY <1>4, <1>6
<1>8. Points(len) = SumOf(g, W)
  BY <1>1, <1>5, <1>7, SumOfSubset
<1>9. ScoreOf(W) = SumOf(h, W)
  BY WordSum DEF ScoreOf
<1> HIDE DEF h
<1>10. (\A w \in W : kWordScores[len[w]] = WordScore(w)) => SumOf(g, W) = SumOf(h, W)
  <2>1. (\A w \in W : kWordScores[len[w]] = WordScore(w)) => \A w \in W : g[w] = h[w]
    BY <1>3
  <2> QED
    BY <1>1, <2>1, SumSame
<1>11. (\A w \in W : kWordScores[len[w]] \in Nat) => SumOf(g, W) \in Nat
  <2>1. (\A w \in W : kWordScores[len[w]] \in Nat) => \A w \in W : g[w] \in Nat
    BY <1>3
  <2> QED
    BY <1>1, <2>1, SumNat
<1> QED
  BY <1>8, <1>9, <1>10, <1>11

\* What was found on trails scores as its words.
LEMMA ScoreFoundIs ==
    ASSUME NEW b, NEW S, IsBoard(b), S \subseteq Trails(b),
           NEW W, W \subseteq WordsAlong(b, S)
    PROVE  ScoreFound(FoundWord(b, CallsOn(b, S)), W) = ScoreOf(W)
<1> DEFINE F == FoundWord(b, CallsOn(b, S))
           len == [w \in W |-> (CHOOSE f \in F : f.node = w).len]
<1>1. WordsOf(F) = WordsAlong(b, S) /\ \A f \in F : f.len = WordLen(f.node)
  BY FoundWordIs
<1> HIDE DEF F
<1>2. W \subseteq Words
  BY DEF WordsAlong
<1>3. \A w \in W : \E f \in F : f.node = w
  BY <1>1 DEF WordsOf
<1>4. \A w \in W : len[w] = WordLen(w)
  BY <1>1, <1>3
<1>5. DOMAIN len = W
  OBVIOUS
<1>6. ScoreFound(F, W) = Points(len)
  BY DEF ScoreFound
<1> HIDE DEF len
<1>7. \A w \in W : kWordScores[len[w]] = WordScore(w)
  BY <1>4 DEF WordScore
<1>8. Points(len) = ScoreOf(W)
  BY <1>2, <1>5, <1>7, PointsAre
<1> QED
  BY <1>6, <1>8 DEF F

\* Words that are not the same score together what they score apart.
LEMMA ScoreApart ==
    ASSUME NEW V, NEW W, V \subseteq Words, W \subseteq Words, V \cap W = {}
    PROVE  /\ ScoreOf(V) \in Nat /\ ScoreOf(W) \in Nat /\ ScoreOf(V \cup W) \in Nat
           /\ ScoreOf(V \cup W) = ScoreOf(V) + ScoreOf(W)
<1> DEFINE g == [w \in Words |-> WordScore(w)]
<1>1. \A w \in Words : g[w] \in Nat
  BY WordScoreType
<1>2. IsFiniteSet(V) /\ IsFiniteSet(W) /\ V \cup W \subseteq Words
  BY WordsAssumption, FS_Subset
<1>3. ScoreOf(V) = SumOf(g, V) /\ ScoreOf(W) = SumOf(g, W) /\ ScoreOf(V \cup W) = SumOf(g, V \cup W)
  BY <1>2, WordSum DEF ScoreOf
<1> HIDE DEF g
<1>4. SumOf(g, V \cup W) = SumOf(g, V) + SumOf(g, W)
  BY <1>1, <1>2, SumApart
<1>5. ScoreOf(V) \in Nat /\ ScoreOf(W) \in Nat /\ ScoreOf(V \cup W) \in Nat
  BY <1>2, WordSumAdd DEF ScoreOf
<1> QED
  BY <1>3, <1>4, <1>5

\* ReconstructLength goes wrong on no word without a q.
LEMMA ReconstructedScore ==
    ASSUME NEW w, w \in Words, Q \notin ToSet(w), Len(w) <= 16
    PROVE  kWordScores[ReconstructLength(w)] = WordScore(w)
<1> DEFINE l == Len(w)
           A == {n \in 5..16 : NotAfter(w, n)}
<1>1. l \in Nat /\ WordLen(w) = l
  <2>1. w \in Seq(Letters) /\ DOMAIN w = 1..Len(w) /\ Len(w) \in Nat
    BY DictionaryAssumption, LenProperties
  <2>2. {i \in DOMAIN w : w[i] = Q} = {}
    BY DEF ToSet
  <2>3. WordLen(w) = l + 0
    BY <2>2, FS_EmptySet DEF WordLen
  <2> QED
    BY <2>1, <2>3
<1>2. l >= 3
  BY <1>1, DictionaryAssumption
<1>3. \A n \in Nat : /\ l > n => ~NotAfter(w, n)
                     /\ l = n => NotAfter(w, n)
  BY <1>1 DEF NotAfter
<1>4. l <= 4 => NotAfter(w, 4)
  <2>1. \E v \in Words : Len(v) = 4
    BY DictionaryAssumption
  <2> QED
    BY <1>1, <2>1 DEF NotAfter
<1>5. WordScore(w) = kWordScores[l]
  BY <1>1 DEF WordScore
<1>6. CASE l = 3
  <2>1. ReconstructLength(w) = 3
    BY <1>3, <1>4, <1>6 DEF ReconstructLength
  <2> QED
    BY <1>5, <1>6, <2>1
<1>7. CASE l = 4
  <2>1. ReconstructLength(w) = 4
    BY <1>3, <1>4, <1>7 DEF ReconstructLength
  <2> QED
    BY <1>5, <1>7, <2>1
<1>8. CASE l > 4
  <2>1. l \in A /\ \A n \in A : l <= n
    <3>1. l \in 5..16
      <4>1. l <= 16
        OBVIOUS
      <4> HIDE DEF l
      <4> QED
        BY <1>1, <1>8, <4>1
    <3>2. \A n \in A : n \in Nat /\ NotAfter(w, n)
      OBVIOUS
    <3>3. NotAfter(w, l)
      BY <1>1, <1>3
    <3>4. \A n \in A : ~(l > n)
      BY <1>3, <3>2
    <3>5. l \in A
      BY <3>1, <3>3
    <3> HIDE DEF l, A
    <3> QED
      BY <1>1, <3>2, <3>4, <3>5
  <2>2. ~NotAfter(w, 4)
    BY <1>3, <1>8
  <2>3. ReconstructLength(w) = Min(A)
    BY <2>2 DEF ReconstructLength
  <2>4. Min(A) = l
    <3>1. \A n \in A : n \in Nat
      OBVIOUS
    <3> HIDE DEF A
    <3>2. Min(A) = CHOOSE x \in A : \A y \in A : x <= y
      BY DEF Min
    <3>3. \A x \in A : (\A y \in A : x <= y) => x = l
      BY <1>1, <2>1, <3>1
    <3> QED
      BY <2>1, <3>2, <3>3
  <2> QED
    BY <1>5, <2>3, <2>4
<1>9. l = 3 \/ l = 4 \/ l > 4
  BY <1>1, <1>2
<1> QED
  BY <1>6, <1>7, <1>8, <1>9

\* With a q it goes wrong, but not beyond the table.
LEMMA ReconstructedType ==
    ASSUME NEW w, w \in Words, Len(w) <= 16
    PROVE  kWordScores[ReconstructLength(w)] \in Nat
<1> DEFINE l == Len(w)
           A == {n \in 5..16 : NotAfter(w, n)}
<1>1. \A n \in 3..16 : kWordScores[n] \in Nat
  BY SMTT(20) DEF kWordScores
<1>2. l \in Nat /\ \E v \in Words : Len(v) = 4
  BY LettersOfWord, DictionaryAssumption
<1>3. CASE NotAfter(w, 4)
  <2>1. ReconstructLength(w) = 3 \/ ReconstructLength(w) = 4
    BY <1>3 DEF ReconstructLength
  <2>2. kWordScores[3] \in Nat /\ kWordScores[4] \in Nat
    BY DEF kWordScores
  <2> QED
    BY <2>1, <2>2
<1>4. CASE ~NotAfter(w, 4)
  <2>1. ~(l <= 4)
    BY <1>2, <1>4 DEF NotAfter
  <2>2. l <= 16
    OBVIOUS
  <2>3. NotAfter(w, l)
    BY <1>2 DEF NotAfter
  <2> HIDE DEF l
  <2>4. l \in 5..16
    BY <1>2, <2>1, <2>2
  <2>5. l \in A
    BY <2>3, <2>4
  <2>6. A \subseteq Nat
    OBVIOUS
  <2>7. ReconstructLength(w) = Min(A)
    BY <1>4 DEF ReconstructLength
  <2> HIDE DEF A
  <2>8. \E x \in A : \A y \in A : x <= y
    BY <2>5, <2>6, LeastElement
  <2>9. Min(A) \in A
    BY <2>8 DEF Min
  <2>10. Min(A) \in 3..16
    BY <2>9 DEF A
  <2> QED
    BY <1>1, <2>7, <2>10
<1> QED
  BY <1>3, <1>4

-----------------------------------------------------------------------------
(* The invariant of MultiBoggle: what was solved is of the board that is      *)
(* there outside the corners, whatever is in them now.                        *)

Emptied(b) == WithCorners(b, kCellEmpty, kCellEmpty)
HoleAt(b, k, c) ==
    IF k = TL THEN WithCorners(b, c, kCellEmpty) ELSE WithCorners(b, kCellEmpty, c)
ExtraWords(b, k, c) == FoundIn(HoleAt(b, k, c)) \ FoundIn(Emptied(b))

TwoIs(b, t, run, ms) ==
    /\ t.trie_mark = run
    /\ t.score = ScoreOf(FoundIn(Emptied(b)))
    /\ \A k \in Corners : t.paths[k] = PathsInto(Emptied(b), {}, k)
    /\ \A w \in Words : ms[w] = Low(run) <=> w \in FoundIn(Emptied(b))

OneIs(b, k, c, o) ==
    /\ o.extra_words = ExtraWords(b, k, c)
    /\ o.extra_score = ScoreOf(ExtraWords(b, k, c))
    /\ o.paths = PathsInto(HoleAt(b, k, c), {k}, Opposite(k))

MergedIs(b, m) ==
    /\ m.score \in Int /\ m.c1 \in Fillings /\ m.c2 \in Fillings
    /\ \/ m.score = ScoreOf(FoundIn(WithCorners(b, m.c1, m.c2)))
       \/ \E w \in ExtraWords(b, TL, m.c1) \cap ExtraWords(b, BR, m.c2) : Q \in ToSet(w)

MarksOK(ms, run) == ms \in [Words -> [run : 0..run, high : {FALSE}]]

MultiInv ==
    /\ IsBoard(bd_)
    /\ runs_ \in 0..MaxRuns
    /\ MarksOK(word_marks, runs_)
    /\ one = [k \in Corners |-> [c \in Fillings |-> one[k][c]]]
    /\ two # None => TwoIs(bd_, two, runs_, word_marks)
    /\ \A k \in Corners, c \in Fillings :
          one[k][c] # None => two # None /\ OneIs(bd_, k, c, one[k][c])
    /\ merged # None => /\ two # None /\ MergedIs(bd_, merged)
                        /\ one[TL][merged.c1] # None /\ one[BR][merged.c2] # None

\* Letters in the corners.
LEMMA WithCornersIs ==
    ASSUME NEW b, IsBoard(b)
    PROVE  /\ \A c1, c2 \in Letters \cup {kCellEmpty} :
                 LET a == WithCorners(b, c1, c2)
                 IN  /\ IsBoard(a) /\ a[TL] = c1 /\ a[BR] = c2
                     /\ \A k \in Cells : k # TL /\ k # BR => a[k] = b[k]
           /\ \A x, y, c1, c2 \in Letters \cup {kCellEmpty} :
                 WithCorners(WithCorners(b, x, y), c1, c2) = WithCorners(b, c1, c2)
<1>1. TL \in Cells /\ BR \in Cells /\ TL # BR
  BY CornersAre
<1> DEFINE L == Letters \cup {kCellEmpty}
           Is(a, e, c1, c2) == /\ IsBoard(e) /\ e[TL] = c1 /\ e[BR] = c2
                               /\ \A k \in Cells : k # TL /\ k # BR => e[k] = a[k]
<1>2. \A a : IsBoard(a) => \A c1, c2 \in L : Is(a, WithCorners(a, c1, c2), c1, c2)
  BY <1>1 DEF WithCorners, IsBoard
<1>3. \A a, d, e, f, x, y, c1, c2 :
          Is(a, d, x, y) /\ Is(d, e, c1, c2) /\ Is(a, f, c1, c2) => e = f
  <2>1. ASSUME NEW a, NEW d, NEW e, NEW f, NEW x, NEW y, NEW c1, NEW c2,
               Is(a, d, x, y), Is(d, e, c1, c2), Is(a, f, c1, c2)
        PROVE  e = f
    <3>1. \A k \in Cells : e[k] = f[k]
      BY <2>1
    <3> QED
      BY <2>1, <3>1 DEF IsBoard
  <2> HIDE DEF Is
  <2> QED
    BY <2>1
<1>4. \A d, x, y : Is(b, d, x, y) => IsBoard(d)
  OBVIOUS
<1> HIDE DEF L, Is
<1>5. ASSUME NEW x \in L, NEW y \in L, NEW c1 \in L, NEW c2 \in L
      PROVE  WithCorners(WithCorners(b, x, y), c1, c2) = WithCorners(b, c1, c2)
  <2> DEFINE d == WithCorners(b, x, y)
  <2>1. Is(b, d, x, y)
    BY <1>2
  <2> HIDE DEF d
  <2>2. Is(d, WithCorners(d, c1, c2), c1, c2) /\ Is(b, WithCorners(b, c1, c2), c1, c2)
    BY <1>2, <1>4, <2>1
  <2>3. WithCorners(d, c1, c2) = WithCorners(b, c1, c2)
    BY <1>3, <2>1, <2>2
  <2> QED
    BY <2>3 DEF d
<1>6. \A c1, c2 \in L : Is(b, WithCorners(b, c1, c2), c1, c2)
  BY <1>2
<1> QED
  BY <1>5, <1>6 DEF Is, L

\* How the boards of the calls come from each other.
LEMMA CornersFilled ==
    ASSUME NEW b, IsBoard(b)
    PROVE  /\ IsBoard(Emptied(b)) /\ Emptied(b)[TL] = kCellEmpty /\ Emptied(b)[BR] = kCellEmpty
           /\ \A k \in Corners, c \in Fillings :
                 /\ FillsIn(Emptied(b), HoleAt(b, k, c), k)
                 /\ HoleAt(b, k, c)[Opposite(k)] = kCellEmpty
                 /\ Opposite(k) # k /\ Opposite(k) \in Corners /\ Corners = {k, Opposite(k)}
           /\ \A c1, c2 \in Fillings :
                 /\ FillsIn(HoleAt(b, TL, c1), WithCorners(b, c1, c2), BR)
                 /\ FillsIn(HoleAt(b, BR, c2), WithCorners(b, c1, c2), TL)
<1> DEFINE L == Letters \cup {kCellEmpty}
           Is(a, c1, c2) == /\ IsBoard(a) /\ a[TL] = c1 /\ a[BR] = c2
                            /\ \A k \in Cells : k # TL /\ k # BR => a[k] = b[k]
<1>1. /\ TL \in Cells /\ BR \in Cells /\ TL # BR /\ Opposite(TL) = BR /\ Opposite(BR) = TL
      /\ Corners = {TL, BR}
  BY CornersAre DEF Corners
<1>2. \A c1, c2 \in L : Is(WithCorners(b, c1, c2), c1, c2)
  BY WithCornersIs
<1>3. kCellEmpty \in L /\ \A c \in Fillings : c \in L /\ c # kCellEmpty
  BY BoardsAssumption
<1> HIDE DEF L, Is
<1>4. \A c1, c2 \in Fillings : /\ Is(WithCorners(b, kCellEmpty, kCellEmpty), kCellEmpty, kCellEmpty)
                               /\ Is(WithCorners(b, c1, kCellEmpty), c1, kCellEmpty)
                               /\ Is(WithCorners(b, kCellEmpty, c2), kCellEmpty, c2)
                               /\ Is(WithCorners(b, c1, c2), c1, c2)
  BY <1>2, <1>3
<1>5. Is(Emptied(b), kCellEmpty, kCellEmpty)
  BY <1>2, <1>3 DEF Emptied
<1>6. \A c \in Fillings : HoleAt(b, TL, c) = WithCorners(b, c, kCellEmpty)
                          /\ HoleAt(b, BR, c) = WithCorners(b, kCellEmpty, c)
  BY <1>1 DEF HoleAt
<1>7. \A c \in Fillings : /\ FillsIn(Emptied(b), HoleAt(b, TL, c), TL)
                          /\ FillsIn(Emptied(b), HoleAt(b, BR, c), BR)
                          /\ HoleAt(b, TL, c)[BR] = kCellEmpty
                          /\ HoleAt(b, BR, c)[TL] = kCellEmpty
  BY <1>1, <1>3, <1>4, <1>5, <1>6 DEF FillsIn, Is
<1>8. ASSUME NEW c1 \in Fillings, NEW c2 \in Fillings
      PROVE  /\ FillsIn(HoleAt(b, TL, c1), WithCorners(b, c1, c2), BR)
             /\ FillsIn(HoleAt(b, BR, c2), WithCorners(b, c1, c2), TL)
  BY <1>1, <1>3, <1>4, <1>6 DEF FillsIn, Is
<1> QED
  BY <1>1, <1>5, <1>7, <1>8 DEF Is

\* ... and that they are the same whatever is in the corners.
LEMMA SameOffCorners ==
    ASSUME NEW b, IsBoard(b), NEW x, x \in Letters \cup {kCellEmpty},
           NEW y, y \in Letters \cup {kCellEmpty}
    PROVE  LET a == WithCorners(b, x, y)
           IN  /\ IsBoard(a)
               /\ \A c1, c2 \in Letters \cup {kCellEmpty} :
                     WithCorners(a, c1, c2) = WithCorners(b, c1, c2)
               /\ Emptied(a) = Emptied(b)
               /\ \A k \in Corners, c \in Fillings :
                     /\ HoleAt(a, k, c) = HoleAt(b, k, c)
                     /\ ExtraWords(a, k, c) = ExtraWords(b, k, c)
<1> DEFINE a == WithCorners(b, x, y)
           L == Letters \cup {kCellEmpty}
<1>1. \A c1, c2 \in L : WithCorners(a, c1, c2) = WithCorners(b, c1, c2)
  BY SMTT(20), WithCornersIs
<1>2. IsBoard(a) /\ \A k \in Cells : k # TL /\ k # BR => a[k] = b[k]
  BY WithCornersIs
<1> HIDE DEF a
<1>4. kCellEmpty \in L /\ \A c \in Fillings : c \in L
  BY BoardsAssumption
<1> HIDE DEF L
<1>5. Emptied(a) = Emptied(b)
  BY <1>1, <1>4 DEF Emptied
<1>6. \A k \in Corners, c \in Fillings : HoleAt(a, k, c) = HoleAt(b, k, c)
  BY <1>1, <1>4 DEF HoleAt
<1>7. \A k \in Corners, c \in Fillings : ExtraWords(a, k, c) = ExtraWords(b, k, c)
  BY <1>5, <1>6 DEF ExtraWords
<1> QED
  BY <1>1, <1>2, <1>5, <1>6, <1>7 DEF a, L

\* Marks that were set high and cleared again are what they were.
LEMMA MarksCleared ==
    ASSUME NEW ms, NEW run, MarksOK(ms, run), NEW V, NEW W
    PROVE  /\ ClearHigh(MarkHigh(ms, V), V) = ms
           /\ ClearHigh(MarkHigh(MarkHigh(ms, V), W), V \cup W) = ms
           /\ \A w \in Words : /\ ~ms[w].high /\ ms[w].run \in 0..run
                               /\ MarkHigh(ms, V)[w].high <=> w \in V
                               /\ w \notin V => MarkHigh(ms, V)[w] = ms[w]
<1>1. /\ DOMAIN ms = Words /\ ms = [w \in Words |-> ms[w]]
      /\ \A w \in Words : /\ ms[w] \in [run : 0..run, high : {FALSE}]
                          /\ ms[w].high = FALSE /\ ms[w].run \in 0..run
                          /\ ms[w] = Low(ms[w].run)
  BY DEF MarksOK, Low
<1> DEFINE On(w) == High(ms[w].run)
<1>2. \A w \in Words : On(w).run = ms[w].run /\ On(w).high = TRUE
  BY DEF High
<1> HIDE DEF On
<1>3. \A U : \A w \in Words : MarkHigh(ms, U)[w] = IF w \in U THEN On(w) ELSE ms[w]
  BY DEF MarkHigh, On
<1>4. \A w \in Words : MarkHigh(MarkHigh(ms, V), W)[w] = IF w \in V \cup W THEN On(w) ELSE ms[w]
  BY <1>2, <1>3 DEF MarkHigh, On
<1>5. ASSUME NEW m, NEW U, NEW w \in Words, m[w] = IF w \in U THEN On(w) ELSE ms[w]
      PROVE  ClearHigh(m, U)[w] = ms[w]
  <2>1. ClearHigh(m, U)[w] = IF w \in U THEN Low(m[w].run) ELSE m[w]
    BY DEF ClearHigh
  <2>2. CASE w \in U
    <3>1. m[w] = On(w)
      BY <1>5, <2>2
    <3>2. m[w].run = ms[w].run
      BY <1>2, <3>1
    <3> QED
      BY <1>1, <2>1, <2>2, <3>2
  <2>3. CASE w \notin U
    BY <1>5, <2>1, <2>3
  <2> QED
    BY <2>2, <2>3
<1>6. /\ \A w \in Words : ClearHigh(MarkHigh(ms, V), V)[w] = ms[w]
      /\ \A w \in Words : ClearHigh(MarkHigh(MarkHigh(ms, V), W), V \cup W)[w] = ms[w]
  BY <1>3, <1>4, <1>5
<1>7. \A m, U : (\A w \in Words : ClearHigh(m, U)[w] = ms[w]) => ClearHigh(m, U) = ms
  <2>1. ASSUME NEW m, NEW U, \A w \in Words : ClearHigh(m, U)[w] = ms[w]
        PROVE  ClearHigh(m, U) = ms
    <3> DEFINE e == ClearHigh(m, U)
    <3>1. e = [w \in Words |-> e[w]]
      BY DEF ClearHigh
    <3> HIDE DEF e
    <3>2. \A w \in Words : e[w] = ms[w]
      BY <2>1 DEF e
    <3> QED
      BY <1>1, <3>1, <3>2 DEF e
  <2> QED
    BY <2>1
<1>8. ClearHigh(MarkHigh(ms, V), V) = ms
  BY <1>6, <1>7
<1>9. ClearHigh(MarkHigh(MarkHigh(ms, V), W), V \cup W) = ms
  BY <1>6, <1>7
<1>10. ASSUME NEW w \in Words PROVE MarkHigh(ms, V)[w].high <=> w \in V
  <2>1. CASE w \in V
    <3>1. MarkHigh(ms, V)[w] = On(w) /\ On(w).high = TRUE
      BY <1>2, <1>3, <2>1
    <3>2. MarkHigh(ms, V)[w].high = TRUE
      BY ONLY <3>1
    <3> QED
      BY ONLY <2>1, <3>2
  <2>2. CASE w \notin V
    <3>1. MarkHigh(ms, V)[w] = ms[w]
      BY <1>3, <2>2
    <3>2. ms[w].high = FALSE
      BY <1>1
    <3>3. MarkHigh(ms, V)[w].high = FALSE
      BY ONLY <3>1, <3>2
    <3> QED
      BY ONLY <2>2, <3>3
  <2> QED
    BY <2>1, <2>2
<1>11. \A w \in Words : w \notin V => MarkHigh(ms, V)[w] = ms[w]
  BY <1>3
<1>12. \A w \in Words : ~ms[w].high /\ ms[w].run \in 0..run
  BY <1>1
<1> QED
  BY <1>8, <1>9, <1>10, <1>11, <1>12

\* A word on the board is no longer than the board.
LEMMA FoundIsShort ==
    ASSUME NEW b, NEW w, w \in FoundIn(b)
    PROVE  Len(w) <= 16
<1>1. PICK s \in Trails(b) : Len(s) = Len(w)
  BY FoundTrail
<1>2. s \in Seq(AllCells) /\ IsPath(s)
  BY DEF Trails
<1>3. Len(s) \in 0..NumCells /\ NumCells \in 2..16
  BY <1>2, TrailIsShort, CornersAre
<1> DEFINE l == Len(s)
<1> HIDE DEF l
<1>4. l \in 0..NumCells => l <= 16
  BY <1>3
<1> QED
  BY <1>1, <1>3, <1>4 DEF l

\* No call has been made yet.
LEMMA NoHolesIs ==
    \A k \in Corners, c \in Fillings : NoHoles[k][c] = None
<1> QED
  BY DEF NoHoles

\* SetAllMarks(dict, 0) leaves marks of no run.
LEMMA FreshMarks ==
    ASSUME NEW run, run \in Nat
    PROVE  MarksOK([w \in Words |-> Low(0)], run)
<1>1. 0 \in 0..run /\ Low(0) \in [run : 0..run, high : {FALSE}]
  BY DEF Low
<1> QED
  BY <1>1 DEF MarksOK

\* A board that was parsed has no empty cell.
LEMMA BoardsAreBoards == \A b \in Boards : IsBoard(b)
<1>1. \A b \in Boards : b \in [Cells -> Letters]
  BY BoardsAssumption
<1> QED
  BY <1>1 DEF IsBoard

\* Nothing has been solved on a new board.
LEMMA NothingSolved ==
    /\ MultiInit => MultiInv
    /\ MultiInv /\ (ParseBoards \/ NewMultiBoggle) => MultiInv'
<1>1. NoHoles = [k \in Corners |-> [c \in Fillings |-> NoHoles[k][c]]]
  BY DEF NoHoles
<1>2. MaxRuns \in Nat /\ 0 \in 0..MaxRuns /\ 0 \in Nat
  BY BoardsAssumption
<1>3. ASSUME MultiInit PROVE MultiInv
  <2>1. /\ bd_ \in Boards /\ word_marks = [w \in Words |-> Low(0)] /\ runs_ = 0
        /\ two = None /\ one = NoHoles /\ merged = None
    BY <1>3 DEF MultiInit
  <2>2. IsBoard(bd_)
    BY <2>1, BoardsAreBoards
  <2>3. MarksOK(word_marks, runs_)
    BY <1>2, <2>1, FreshMarks
  <2>4. one = [k \in Corners |-> [c \in Fillings |-> one[k][c]]]
    BY <1>1, <2>1
  <2>5. \A k \in Corners, c \in Fillings : one[k][c] = None
    BY <2>1, NoHolesIs
  <2> QED
    BY <1>2, <2>1, <2>2, <2>3, <2>4, <2>5 DEF MultiInv
<1>4. ASSUME MultiInv, ParseBoards \/ NewMultiBoggle PROVE MultiInv'
  <2>1. /\ bd_' \in Boards /\ two' = None /\ one' = NoHoles /\ merged' = None
    BY <1>4 DEF ParseBoards, NewMultiBoggle
  <2>2. IsBoard(bd_')
    BY <2>1, BoardsAreBoards
  <2>3. runs_' \in 0..MaxRuns /\ MarksOK(word_marks', runs_')
    <3>1. CASE ParseBoards
      BY <1>4, <3>1 DEF ParseBoards, MultiInv
    <3>2. CASE NewMultiBoggle
      BY <1>2, <3>2, FreshMarks DEF NewMultiBoggle
    <3> QED
      BY <1>4, <3>1, <3>2
  <2>4. one' = [k \in Corners |-> [c \in Fillings |-> one'[k][c]]]
    BY <1>1, <2>1
  <2>5. \A k \in Corners, c \in Fillings : one'[k][c] = None
    BY <2>1, NoHolesIs
  <2>6. (IsBoard(bd_))' /\ (MarksOK(word_marks, runs_))'
    BY <2>2, <2>3 DEF IsBoard, MarksOK
  <2> QED
    BY <2>1, <2>3, <2>4, <2>5, <2>6 DEF MultiInv
<1> QED
  BY <1>3, <1>4

\* The paths that SolveTwoHole and the other calls have to keep.
LEMMA PathsKept ==
    ASSUME NEW b, NEW k, b[k] = kCellEmpty, k \in Cells
    PROVE  /\ EmptyCell(b, k, CallsOn(b, Trails(b))) = PathsInto(b, {}, k)
           /\ \A j : j # k =>
                  EmptyCell(b, k, CallsOn(b, Via(b, {}, j))) = PathsInto(b, {j}, k)
<1>1. {s \in Trails(b) : s[Len(s)] = k} = EndIn(b, {}, k)
  BY DEF EndIn
<1>2. EmptyCell(b, k, CallsOn(b, Trails(b))) = PathsInto(b, {}, k)
  BY <1>1, EmptyCellIs DEF PathsInto
<1>3. ASSUME NEW j, j # k
      PROVE  EmptyCell(b, k, CallsOn(b, Via(b, {}, j))) = PathsInto(b, {j}, k)
  <2>1. Via(b, {}, j) \subseteq Trails(b)
    BY DEF Via
  <2>2. ASSUME NEW s \in Trails(b), s[Len(s)] = k
        PROVE  (\E n \in 1..Len(s) : s[n] = j) <=> {j} \subseteq Before(s, Len(s))
    <3>1. Len(s) \in Nat \ {0}
      BY <2>2, AllButLast DEF Trails
    <3> DEFINE l == Len(s)
    <3> HIDE DEF l
    <3>2. \A n : n \in 1..l /\ n # l <=> n \in 1..(l - 1)
      BY <3>1 DEF l
    <3>3. \A n : n \in 1..l /\ s[n] = j => n # l
      BY <1>3, <2>2 DEF l
    <3> QED
      BY <3>2, <3>3 DEF l, Before
  <2>3. {s \in Via(b, {}, j) : s[Len(s)] = k} = EndIn(b, {j}, k)
    BY <2>2 DEF Via, EndIn
  <2> QED
    BY <2>1, <2>3, EmptyCellIs DEF PathsInto
<1> QED
  BY <1>2, <1>3

\* SolveTwoHole: the marks of earlier boards are all lower than this one's.
LEMMA SolveTwoHoleIs ==
    ASSUME MultiInv, SolveTwoHole
    PROVE  MultiInv'
<1> DEFINE E == Emptied(bd_)
           run == runs_ + 1
           calls == FromEachCell(E)
           found == FoundWord(E, calls)
           new == TwoHoleFinder(word_marks, run, found)
           F == FoundIn(E)
<1>1. /\ IsBoard(bd_) /\ runs_ \in 0..MaxRuns /\ MarksOK(word_marks, runs_)
  BY DEF MultiInv
<1>2. /\ run \in 0..MaxRuns /\ \A n \in 0..runs_ : n # run /\ n \in 0..run
      /\ run \in 0..run
  BY <1>1, BoardsAssumption DEF SolveTwoHole
<1>3. /\ runs_' = run /\ bd_' = E /\ one' = NoHoles /\ merged' = None
      /\ two' = [score |-> ScoreFound(found, new), trie_mark |-> run,
                 paths |-> [k \in Corners |-> EmptyCell(E, k, calls)]]
      /\ word_marks' = [w \in Words |-> IF w \in new THEN Low(run) ELSE word_marks[w]]
  BY DEF SolveTwoHole, SolvedTwoHole, Emptied
<1>4. /\ IsBoard(E) /\ Emptied(E) = E
  BY <1>1, SameOffCorners DEF Emptied
<1>5. E[TL] = kCellEmpty /\ E[BR] = kCellEmpty /\ TL \in Cells /\ BR \in Cells
  BY <1>1, CornersFilled, CornersAre
<1> HIDE DEF run, E
<1>6. calls = CallsOn(E, Trails(E))
  BY <1>4, FromEachCellIs
<1> HIDE DEF calls
<1>7. WordsOf(found) = F
  <2>1. Trails(E) \subseteq Trails(E)
    OBVIOUS
  <2>2. WordsOf(FoundWord(E, CallsOn(E, Trails(E)))) = WordsAlong(E, Trails(E))
    BY ONLY <1>4, <2>1, FoundWordIs
  <2> QED
    BY <1>4, <1>6, <2>2, AllWordsAlong
<1>8. F \subseteq Words
  BY DEF FoundIn
<1>9. \A w \in Words : /\ word_marks[w] # Low(run)
                       /\ word_marks[w] \in [run : 0..run, high : {FALSE}]
  <2>1. ASSUME NEW w \in Words
        PROVE  word_marks[w] # Low(run) /\ word_marks[w] \in [run : 0..run, high : {FALSE}]
    <3>1. word_marks[w] \in [run : 0..runs_, high : {FALSE}]
      BY <1>1 DEF MarksOK
    <3>2. word_marks[w].run \in 0..runs_ /\ Low(run).run = run
      BY <3>1 DEF Low
    <3>3. [run : 0..runs_, high : {FALSE}] \subseteq [run : 0..run, high : {FALSE}]
      BY <1>2
    <3> QED
      BY <1>2, <3>1, <3>2, <3>3
  <2> QED
    BY <2>1
<1>10. new = F
  BY <1>7, <1>8, <1>9 DEF TwoHoleFinder
<1>11. ScoreFound(found, new) = ScoreOf(F)
  <2>1. F \subseteq WordsAlong(E, Trails(E)) /\ Trails(E) \subseteq Trails(E)
    BY <1>4, AllWordsAlong
  <2> HIDE DEF F
  <2>2. ScoreFound(FoundWord(E, CallsOn(E, Trails(E))), F) = ScoreOf(F)
    BY ONLY <1>4, <2>1, ScoreFoundIs
  <2> QED
    BY <1>6, <1>10, <2>2
<1>12. \A k \in Corners : EmptyCell(E, k, calls) = PathsInto(E, {}, k)
  BY <1>5, <1>6, PathsKept DEF Corners
<1> HIDE DEF found, new, F
<1>13. /\ two'.score = ScoreOf(F) /\ two'.trie_mark = run
       /\ \A k \in Corners : two'.paths[k] = PathsInto(E, {}, k)
  BY <1>3, <1>11, <1>12
<1>14. \A w \in Words : word_marks'[w] = IF w \in F THEN Low(run) ELSE word_marks[w]
  BY <1>3, <1>10
<1>15. \A w \in Words : word_marks'[w] = Low(run) <=> w \in F
  BY <1>9, <1>14
<1>16. MarksOK(word_marks', run)
  <2>1. Low(run) \in [run : 0..run, high : {FALSE}]
    BY <1>2 DEF Low
  <2>2. \A w \in Words : word_marks'[w] \in [run : 0..run, high : {FALSE}]
    BY <1>9, <1>14, <2>1
  <2> QED
    BY <1>3, <2>2 DEF MarksOK
<1>17. TwoIs(bd_', two', runs_', word_marks')
  BY <1>3, <1>4, <1>13, <1>15 DEF TwoIs, F
<1>18. /\ (IsBoard(bd_))' /\ (MarksOK(word_marks, runs_))'
       /\ (TwoIs(bd_, two, runs_, word_marks))'
  BY <1>3, <1>4, <1>16, <1>17 DEF IsBoard, MarksOK, TwoIs, ScoreOf, FoundIn, Emptied,
     WithCorners, PathsInto, EndIn, Trails, HolePath, Before, Along
<1>19. one' = [k \in Corners |-> [c \in Fillings |-> one'[k][c]]]
  BY <1>3 DEF NoHoles
<1>20. \A k \in Corners, c \in Fillings : one'[k][c] = None
  BY <1>3, NoHolesIs
<1> QED
  BY <1>2, <1>3, <1>18, <1>19, <1>20 DEF MultiInv

\* What the invariant says of what was solved holds on for a board that only
\* differs in its corners.
LEMMA SolvedStays ==
    ASSUME MultiInv, NEW x, NEW y,
           x \in Letters \cup {kCellEmpty}, y \in Letters \cup {kCellEmpty}
    PROVE  LET a == WithCorners(bd_, x, y)
           IN  /\ IsBoard(a)
               /\ two # None => TwoIs(a, two, runs_, word_marks)
               /\ \A k \in Corners, c \in Fillings :
                     one[k][c] # None => OneIs(a, k, c, one[k][c])
               /\ \A m : MergedIs(bd_, m) => MergedIs(a, m)
<1> DEFINE a == WithCorners(bd_, x, y)
<1>1. IsBoard(bd_)
  BY DEF MultiInv
<1>2. /\ IsBoard(a)
      /\ \A c1, c2 \in Letters \cup {kCellEmpty} :
            WithCorners(a, c1, c2) = WithCorners(bd_, c1, c2)
      /\ Emptied(a) = Emptied(bd_)
      /\ \A k \in Corners, c \in Fillings : /\ HoleAt(a, k, c) = HoleAt(bd_, k, c)
                                            /\ ExtraWords(a, k, c) = ExtraWords(bd_, k, c)
  BY <1>1, SameOffCorners
<1> HIDE DEF a
<1>3. two # None => TwoIs(a, two, runs_, word_marks)
  BY <1>2 DEF MultiInv, TwoIs
<1>4. \A k \in Corners, c \in Fillings : one[k][c] # None => OneIs(a, k, c, one[k][c])
  BY <1>2 DEF MultiInv, OneIs
<1>5. ASSUME NEW m, MergedIs(bd_, m) PROVE MergedIs(a, m)
  <2>1. /\ m.score \in Int /\ m.c1 \in Fillings /\ m.c2 \in Fillings
        /\ \/ m.score = ScoreOf(FoundIn(WithCorners(bd_, m.c1, m.c2)))
           \/ \E w \in ExtraWords(bd_, TL, m.c1) \cap ExtraWords(bd_, BR, m.c2) : Q \in ToSet(w)
    BY <1>5 DEF MergedIs
  <2>2. TL \in Corners /\ BR \in Corners /\ Fillings \subseteq Letters
    BY BoardsAssumption DEF Corners
  <2>3. /\ WithCorners(a, m.c1, m.c2) = WithCorners(bd_, m.c1, m.c2)
        /\ ExtraWords(a, TL, m.c1) = ExtraWords(bd_, TL, m.c1)
        /\ ExtraWords(a, BR, m.c2) = ExtraWords(bd_, BR, m.c2)
    BY <1>2, <2>1, <2>2
  <2> QED
    BY <2>1, <2>3 DEF MergedIs
<1> QED
  BY <1>2, <1>3, <1>4, <1>5 DEF a

\* FillHole: what is new is on a trail through the corner, and not on the board
\* without its letter.
LEMMA FilledHoleIs ==
    ASSUME MultiInv, two # None, NEW k, NEW c, k \in Corners, c \in Fillings
    PROVE  LET b == HoleAt(bd_, k, c)
           IN  /\ OneIs(bd_, k, c, FilledHole(b, k).one)
               /\ FilledHole(b, k).marks = word_marks
<1> DEFINE b == HoleAt(bd_, k, c)
           a == Emptied(bd_)
           calls == FromPaths(b, k, two.paths[k])
           found == FoundWord(b, calls)
           new == HoleFinder(word_marks, two.trie_mark, found)
           S == Via(b, {}, k)
           X == ExtraWords(bd_, k, c)
           opp == Opposite(k)
<1>1. /\ IsBoard(bd_) /\ MarksOK(word_marks, runs_) /\ TwoIs(bd_, two, runs_, word_marks)
  BY DEF MultiInv
<1>2. /\ FillsIn(a, b, k) /\ b[opp] = kCellEmpty /\ opp # k /\ opp \in Corners
  BY <1>1, CornersFilled
<1>3. FilledHole(b, k) = [one |-> [extra_score |-> ScoreFound(found, new), extra_words |-> new,
                                   paths |-> EmptyCell(b, opp, calls)],
                          marks |-> ClearHigh(MarkHigh(word_marks, new), new)]
  BY DEF FilledHole
<1> HIDE DEF b, a, opp
<1>4. IsBoard(b) /\ opp \in Cells /\ S \subseteq Trails(b)
  BY <1>2, CornersAre DEF FillsIn, Via, Corners
<1> HIDE DEF S
<1>5. calls = CallsOn(b, S)
  <2> DEFINE J == {}
  <2>1. two.paths[k] = PathsInto(a, J, k)
    BY <1>1 DEF TwoIs, a
  <2> HIDE DEF J
  <2>2. FromPaths(b, k, PathsInto(a, J, k)) = CallsOn(b, Via(b, J, k))
    BY ONLY <1>2, FromPathsIs
  <2> QED
    BY <2>1, <2>2 DEF S, J
<1> HIDE DEF calls
<1>6. WordsOf(found) = WordsAlong(b, S)
  <2>1. WordsOf(FoundWord(b, CallsOn(b, S))) = WordsAlong(b, S)
    BY ONLY <1>4, FoundWordIs
  <2> QED
    BY <1>5, <2>1
<1>7. X = WordsAlong(b, S) \ FoundIn(a)
  <2>1. FoundIn(b) = FoundIn(a) \cup WordsAlong(b, S)
    BY <1>2, FilledWords DEF S
  <2> QED
    BY <2>1 DEF ExtraWords, a, b
<1>8. \A w \in Words : /\ ~word_marks[w].high
                       /\ word_marks[w] = Low(two.trie_mark) <=> w \in FoundIn(a)
  BY <1>1, MarksCleared DEF TwoIs, a
<1>9. new = X
  <2>1. WordsAlong(b, S) \subseteq Words
    BY DEF WordsAlong
  <2> QED
    BY <1>6, <1>7, <1>8, <2>1 DEF HoleFinder
<1>10. ScoreFound(found, new) = ScoreOf(X)
  <2>1. X \subseteq WordsAlong(b, S)
    BY <1>7
  <2> HIDE DEF X
  <2>2. ScoreFound(FoundWord(b, CallsOn(b, S)), X) = ScoreOf(X)
    BY ONLY <1>4, <2>1, ScoreFoundIs
  <2> QED
    BY <1>5, <1>9, <2>2
<1>11. EmptyCell(b, opp, calls) = PathsInto(b, {k}, opp)
  BY <1>2, <1>4, <1>5, PathsKept DEF S
<1>12. ClearHigh(MarkHigh(word_marks, new), new) = word_marks
  BY ZenonT(40), <1>1, MarksCleared
<1> HIDE DEF found, new, X
<1>13. OneIs(bd_, k, c, FilledHole(b, k).one)
  BY <1>3, <1>9, <1>10, <1>11 DEF OneIs, X, b, opp
<1> QED
  BY <1>3, <1>12, <1>13 DEF b

\* FillHole keeps the invariant.
LEMMA FillHoleIs ==
    ASSUME MultiInv, FillHole
    PROVE  MultiInv'
<1>1. PICK k \in Corners, c \in Fillings :
          /\ bd_' = IF k = TL THEN WithCorners(bd_, c, kCellEmpty)
                    ELSE WithCorners(bd_, kCellEmpty, c)
          /\ LET filled == FilledHole(bd_', k)
             IN  /\ one' = [one EXCEPT ![k][c] = filled.one]
                 /\ word_marks' = filled.marks
          /\ one[k][c] = None
  BY DEF FillHole
<1>2. two # None /\ runs_' = runs_ /\ two' = two /\ merged' = merged
  BY DEF FillHole
<1>3. bd_' = HoleAt(bd_, k, c)
  BY <1>1 DEF HoleAt
<1> DEFINE o == FilledHole(HoleAt(bd_, k, c), k).one
<1>4. OneIs(bd_, k, c, o) /\ word_marks' = word_marks
  BY <1>1, <1>2, <1>3, FilledHoleIs
<1>5. one' = [one EXCEPT ![k][c] = o]
  BY <1>1, <1>3
<1> HIDE DEF o
<1>6. PICK x, y \in Letters \cup {kCellEmpty} : bd_' = WithCorners(bd_, x, y)
  <2>1. c \in Letters \cup {kCellEmpty} /\ kCellEmpty \in Letters \cup {kCellEmpty}
    BY BoardsAssumption
  <2> QED
    BY <1>1, <2>1
<1>7. /\ IsBoard(bd_')
      /\ TwoIs(bd_', two, runs_, word_marks)
      /\ \A j \in Corners, d \in Fillings :
            one[j][d] # None => OneIs(bd_', j, d, one[j][d])
      /\ \A m : MergedIs(bd_, m) => MergedIs(bd_', m)
  BY <1>2, <1>6, SolvedStays
<1>8. OneIs(bd_', k, c, o)
  <2>1. IsBoard(bd_)
    BY DEF MultiInv
  <2>2. HoleAt(bd_', k, c) = HoleAt(bd_, k, c) /\ ExtraWords(bd_', k, c) = ExtraWords(bd_, k, c)
    BY <1>6, <2>1, SameOffCorners
  <2> QED
    BY <1>4, <2>2 DEF OneIs
<1>9. one = [j \in Corners |-> [d \in Fillings |-> one[j][d]]]
  BY DEF MultiInv
<1>10. /\ one' = [j \in Corners |-> [d \in Fillings |-> one'[j][d]]]
       /\ \A j \in Corners, d \in Fillings :
             one'[j][d] = IF j = k /\ d = c THEN o ELSE one[j][d]
  <2> DEFINE e == [j \in Corners |-> [d \in Fillings |-> one[j][d]]]
  <2>1. [e EXCEPT ![k][c] = o] =
            [j \in Corners |-> [d \in Fillings |-> IF j = k /\ d = c THEN o ELSE one[j][d]]]
    OBVIOUS
  <2>2. one' = [j \in Corners |-> [d \in Fillings |-> IF j = k /\ d = c THEN o ELSE one[j][d]]]
    BY <1>5, <1>9, <2>1
  <2> QED
    BY <2>2
<1>11. \A j \in Corners, d \in Fillings :
          one'[j][d] # None => two' # None /\ OneIs(bd_', j, d, one'[j][d])
  BY <1>2, <1>7, <1>8, <1>10
<1>12. merged' # None => /\ two' # None /\ MergedIs(bd_', merged')
                         /\ one'[TL][merged'.c1] # None /\ one'[BR][merged'.c2] # None
  <2>1. ASSUME merged # None
        PROVE  /\ MergedIs(bd_', merged')
               /\ one'[TL][merged'.c1] # None /\ one'[BR][merged'.c2] # None
    <3>1. /\ MergedIs(bd_, merged)
          /\ one[TL][merged.c1] # None /\ one[BR][merged.c2] # None
      BY <2>1 DEF MultiInv
    <3>2. merged.c1 \in Fillings /\ merged.c2 \in Fillings /\ TL \in Corners /\ BR \in Corners
      BY <3>1 DEF MergedIs, Corners
    <3>3. one'[TL][merged.c1] = one[TL][merged.c1] /\ one'[BR][merged.c2] = one[BR][merged.c2]
      BY <1>1, <1>10, <3>1, <3>2
    <3> QED
      BY <1>2, <1>7, <3>1, <3>3
  <2> QED
    BY <1>2, <2>1
<1>13. /\ (IsBoard(bd_))' /\ (MarksOK(word_marks, runs_))'
       /\ (TwoIs(bd_, two, runs_, word_marks))'
       /\ runs_' \in 0..MaxRuns
  BY <1>2, <1>4, <1>7 DEF MultiInv
<1> QED
  BY <1>10, <1>11, <1>12, <1>13 DEF MultiInv

\* MergeBoards: what is new is on a trail through both corners, and not on the
\* board without one of their letters.
LEMMA MergedBoardsAre ==
    ASSUME MultiInv, two # None, NEW c1, NEW c2, c1 \in Fillings, c2 \in Fillings,
           one[TL][c1] # None, one[BR][c2] # None
    PROVE  LET b == WithCorners(bd_, c1, c2)
               both == Merged(b, one[TL][c1], one[BR][c2])
           IN  /\ MergedIs(bd_, [c1 |-> c1, c2 |-> c2, score |-> both.score])
               /\ both.marks = word_marks
<1> DEFINE b == WithCorners(bd_, c1, c2)
           o1 == one[TL][c1]
           o2 == one[BR][c2]
           both == Merged(b, o1, o2)
           a1 == HoleAt(bd_, TL, c1)
           a2 == HoleAt(bd_, BR, c2)
           S1 == Via(b, {TL}, BR)
           S2 == Via(b, {BR}, TL)
           S == S1 \cup S2
           F0 == FoundIn(Emptied(bd_))
           X1 == ExtraWords(bd_, TL, c1)
           X2 == ExtraWords(bd_, BR, c2)
           ms == MarkHigh(word_marks, o1.extra_words \cup o2.extra_words)
           calls == FromPaths(b, BR, o1.paths) \cup FromPaths(b, TL, o2.paths)
           found == FoundWord(b, calls)
           new == HoleFinder(ms, two.trie_mark, found)
           twice == CountedTwice(o1, o2)
           len == [w \in twice |-> ReconstructLength(w)]
<1>1. /\ IsBoard(bd_) /\ MarksOK(word_marks, runs_) /\ TwoIs(bd_, two, runs_, word_marks)
      /\ OneIs(bd_, TL, c1, o1) /\ OneIs(bd_, BR, c2, o2)
  BY DEF MultiInv, Corners
<1>2. /\ FillsIn(a1, b, BR) /\ FillsIn(a2, b, TL)
      /\ FillsIn(Emptied(bd_), a1, TL) /\ FillsIn(Emptied(bd_), a2, BR)
      /\ Opposite(TL) = BR /\ Opposite(BR) = TL /\ TL # BR
  BY <1>1, CornersFilled, CornersAre DEF Corners
<1>3. /\ both.score = two.score + o1.extra_score + o2.extra_score - Points(len)
                      + ScoreFound(found, new)
      /\ both.marks = ClearHigh(MarkHigh(ms, new), MarkedHigh(o1, o2, new))
  BY DEF Merged
<1> HIDE DEF b, both, a1, a2
<1>4. /\ IsBoard(b) /\ S1 \subseteq Trails(b) /\ S2 \subseteq Trails(b) /\ S \subseteq Trails(b)
  BY <1>2 DEF FillsIn, Via
<1> HIDE DEF S
<1>5. calls = CallsOn(b, S)
  <2> DEFINE J1 == {TL}
             J2 == {BR}
             k1 == BR
             k2 == TL
  <2>1. o1.paths = PathsInto(a1, J1, k1) /\ o2.paths = PathsInto(a2, J2, k2)
    BY <1>1, <1>2 DEF OneIs, a1, a2
  <2>2. FillsIn(a1, b, k1) /\ FillsIn(a2, b, k2)
    BY <1>2
  <2> HIDE DEF J1, J2, k1, k2
  <2>3. FromPaths(b, k1, PathsInto(a1, J1, k1)) = CallsOn(b, Via(b, J1, k1))
    BY ONLY <2>2, FromPathsIs
  <2>4. FromPaths(b, k2, PathsInto(a2, J2, k2)) = CallsOn(b, Via(b, J2, k2))
    BY ONLY <2>2, FromPathsIs
  <2>5. CallsOn(b, Via(b, J1, k1) \cup Via(b, J2, k2)) =
            CallsOn(b, Via(b, J1, k1)) \cup CallsOn(b, Via(b, J2, k2))
    BY DEF CallsOn
  <2> QED
    BY <2>1, <2>3, <2>4, <2>5 DEF S, J1, J2, k1, k2
<1> HIDE DEF calls
<1>6. WordsOf(found) = WordsAlong(b, S)
  <2>1. WordsOf(FoundWord(b, CallsOn(b, S))) = WordsAlong(b, S)
    BY ONLY <1>4, FoundWordIs
  <2> QED
    BY <1>5, <2>1
<1>7. /\ F0 \subseteq Words /\ X1 \subseteq Words /\ X2 \subseteq Words
      /\ FoundIn(a1) = F0 \cup X1 /\ FoundIn(a2) = F0 \cup X2
      /\ F0 \cap X1 = {} /\ F0 \cap X2 = {}
  <2>1. F0 \subseteq FoundIn(a1) /\ F0 \subseteq FoundIn(a2)
    BY <1>2, FoundWithout
  <2>2. X1 = FoundIn(a1) \ F0 /\ X2 = FoundIn(a2) \ F0
    BY DEF ExtraWords, a1, a2
  <2>3. F0 \subseteq Words /\ FoundIn(a1) \subseteq Words /\ FoundIn(a2) \subseteq Words
    BY DEF FoundIn
  <2> HIDE DEF F0, X1, X2
  <2> QED
    BY <2>1, <2>2, <2>3
<1>8. o1.extra_words = X1 /\ o2.extra_words = X2
      /\ o1.extra_score = ScoreOf(X1) /\ o2.extra_score = ScoreOf(X2)
      /\ two.score = ScoreOf(F0)
  BY <1>1 DEF OneIs, TwoIs
<1> HIDE DEF o1, o2
<1>9. new = WordsAlong(b, S) \ (F0 \cup (X1 \cup X2))
  <2>1. \A w \in Words : /\ ms[w].high <=> w \in X1 \cup X2
                         /\ w \notin X1 \cup X2 => ms[w] = word_marks[w]
                         /\ word_marks[w] = Low(two.trie_mark) <=> w \in F0
    <3> DEFINE V == X1 \cup X2
    <3>1. ms = MarkHigh(word_marks, V)
      BY <1>8
    <3>2. \A w \in Words : word_marks[w] = Low(two.trie_mark) <=> w \in F0
      BY <1>1 DEF TwoIs
    <3> HIDE DEF V, ms
    <3>3. \A w \in Words : /\ MarkHigh(word_marks, V)[w].high <=> w \in V
                           /\ w \notin V => MarkHigh(word_marks, V)[w] = word_marks[w]
      BY <1>1, MarksCleared
    <3> QED
      BY <3>1, <3>2, <3>3 DEF V
  <2>2. \A w \in Words : w \in F0 => w \notin X1 \cup X2
    BY <1>7
  <2>3. WordsAlong(b, S) \subseteq Words
    BY DEF WordsAlong
  <2> HIDE DEF ms, found, F0, X1, X2
  <2>4. \A w \in Words : ms[w] # Low(two.trie_mark) /\ ~ms[w].high
                             <=> w \notin F0 \cup (X1 \cup X2)
    BY <2>1, <2>2
  <2> QED
    BY <1>6, <2>3, <2>4 DEF HoleFinder
<1>10. both.marks = word_marks
  <2> DEFINE V == X1 \cup X2
             W == new
  <2>1. both.marks = ClearHigh(MarkHigh(MarkHigh(word_marks, V), W), V \cup W)
    BY <1>3, <1>8 DEF MarkedHigh
  <2> HIDE DEF V, W
  <2> QED
    BY <1>1, <2>1, MarksCleared
<1>11. ScoreFound(found, new) = ScoreOf(new)
  <2>1. new \subseteq WordsAlong(b, S)
    BY <1>9
  <2> HIDE DEF new
  <2>2. ScoreFound(FoundWord(b, CallsOn(b, S)), new) = ScoreOf(new)
    BY ONLY <1>4, <2>1, ScoreFoundIs
  <2> QED
    BY <1>5, <2>2
<1>12. FoundIn(b) = (F0 \cup (X1 \cup X2)) \cup new
  <2>1. FoundIn(b) = (FoundIn(a1) \cup FoundIn(a2)) \cup (WordsAlong(b, S1) \cup WordsAlong(b, S2))
    <3> DEFINE k1 == BR
               k2 == TL
    <3>1. FillsIn(a1, b, k1) /\ FillsIn(a2, b, k2) /\ k1 # k2
      BY <1>2
    <3> HIDE DEF k1, k2
    <3>2. FoundIn(b) = (FoundIn(a1) \cup FoundIn(a2))
              \cup (WordsAlong(b, Via(b, {k1}, k2)) \cup WordsAlong(b, Via(b, {k2}, k1)))
      BY ONLY <3>1, TwiceFilledWords
    <3> QED
      BY <3>2 DEF k1, k2
  <2>2. WordsAlong(b, S) = WordsAlong(b, S1) \cup WordsAlong(b, S2)
    BY DEF WordsAlong, S
  <2> HIDE DEF new, F0, X1, X2, S1, S2
  <2> QED
    BY <1>7, <1>9, <2>1, <2>2
<1>13. \A w \in X1 : Len(w) <= 16
  <2>1. X1 \subseteq FoundIn(a1)
    BY <1>7
  <2> QED
    BY <2>1, FoundIsShort
<1>14. /\ twice = X1 \cap X2 /\ twice \subseteq Words /\ DOMAIN len = twice
       /\ \A w \in twice : len[w] = ReconstructLength(w)
  BY <1>7, <1>8 DEF CountedTwice
<1> HIDE DEF twice, len, new, found, F0, X1, X2
<1>15. Points(len) \in Nat
  <2>1. \A w \in twice : kWordScores[len[w]] \in Nat
    BY <1>13, <1>14, ReconstructedType
  <2> QED
    BY <1>14, <2>1, PointsAre
<1>16. (\A w \in twice : Q \notin ToSet(w)) => Points(len) = ScoreOf(twice)
  <2>1. ASSUME \A w \in twice : Q \notin ToSet(w)
        PROVE  \A w \in twice : kWordScores[len[w]] = WordScore(w)
    BY <1>13, <1>14, <2>1, ReconstructedScore
  <2> QED
    BY <1>14, <2>1, PointsAre
<1>17. /\ ScoreOf(F0) \in Nat /\ ScoreOf(X1) \in Nat /\ ScoreOf(X2) \in Nat
       /\ ScoreOf(new) \in Nat
       /\ ScoreOf(FoundIn(b)) =
              ScoreOf(F0) + ScoreOf(X1) + ScoreOf(X2) - ScoreOf(twice) + ScoreOf(new)
  <2> DEFINE R == X2 \ X1
             U == X1 \cup X2
             V == F0 \cup U
  <2>1. /\ F0 \subseteq Words /\ X1 \subseteq Words /\ X2 \subseteq Words /\ new \subseteq Words
        /\ twice \subseteq Words /\ F0 \cap U = {} /\ V \cap new = {}
    BY <1>7, <1>9, <1>14 DEF WordsAlong
  <2>2. /\ R \subseteq Words /\ U \subseteq Words /\ V \subseteq Words
        /\ X1 \cap R = {} /\ X1 \cup R = U /\ twice \cap R = {} /\ twice \cup R = X2
        /\ F0 \cup U = V /\ V \cup new = FoundIn(b)
    BY <1>12, <1>14, <2>1
  <2> HIDE DEF R, U, V
  <2>3. /\ ScoreOf(X1) \in Nat /\ ScoreOf(R) \in Nat /\ ScoreOf(U) \in Nat
        /\ ScoreOf(U) = ScoreOf(X1) + ScoreOf(R)
    BY <2>1, <2>2, ScoreApart
  <2>4. /\ ScoreOf(twice) \in Nat /\ ScoreOf(X2) \in Nat
        /\ ScoreOf(X2) = ScoreOf(twice) + ScoreOf(R)
    BY <2>1, <2>2, ScoreApart
  <2>5. ScoreOf(F0) \in Nat /\ ScoreOf(V) \in Nat /\ ScoreOf(V) = ScoreOf(F0) + ScoreOf(U)
    BY <2>1, <2>2, ScoreApart
  <2>6. /\ ScoreOf(new) \in Nat /\ ScoreOf(FoundIn(b)) \in Nat
        /\ ScoreOf(FoundIn(b)) = ScoreOf(V) + ScoreOf(new)
    BY <2>1, <2>2, ScoreApart
  <2>7. \A f, x1, x2, x3, t, r, u, v, a \in Nat :
            u = x1 + r /\ x2 = t + r /\ v = f + u /\ a = v + x3 => a = f + x1 + x2 - t + x3
    OBVIOUS
  <2> QED
    BY <2>3, <2>4, <2>5, <2>6, <2>7
<1>18. both.score = ScoreOf(F0) + ScoreOf(X1) + ScoreOf(X2) - Points(len) + ScoreOf(new)
  BY <1>3, <1>8, <1>11
<1>19. both.score \in Int
  BY <1>15, <1>17, <1>18
<1>20. \/ both.score = ScoreOf(FoundIn(b))
       \/ \E w \in X1 \cap X2 : Q \in ToSet(w)
  BY <1>14, <1>16, <1>17, <1>18
<1> DEFINE m == [c1 |-> c1, c2 |-> c2, score |-> both.score]
<1>21. MergedIs(bd_, m)
  <2>1. m.c1 = c1 /\ m.c2 = c2 /\ m.score = both.score
    OBVIOUS
  <2> HIDE DEF m
  <2> QED
    BY <1>19, <1>20, <2>1 DEF MergedIs, b, X1, X2
<1> QED
  BY <1>10, <1>21 DEF both, b, o1, o2

\* MergeBoards keeps the invariant.
LEMMA MergeBoardsIs ==
    ASSUME MultiInv, MergeBoards
    PROVE  MultiInv'
<1>1. PICK c1 \in Fillings, c2 \in Fillings :
          /\ one[TL][c1] # None /\ one[BR][c2] # None
          /\ bd_' = WithCorners(bd_, c1, c2)
          /\ LET both == Merged(bd_', one[TL][c1], one[BR][c2])
             IN  /\ merged' = [c1 |-> c1, c2 |-> c2, score |-> both.score]
                 /\ word_marks' = both.marks
  BY DEF MergeBoards
<1>2. two # None /\ runs_' = runs_ /\ two' = two /\ one' = one
  BY DEF MergeBoards
<1>3. MergedIs(bd_, merged') /\ word_marks' = word_marks
  <2>1. LET both == Merged(WithCorners(bd_, c1, c2), one[TL][c1], one[BR][c2])
        IN  /\ merged' = [c1 |-> c1, c2 |-> c2, score |-> both.score]
            /\ word_marks' = both.marks
    BY <1>1
  <2> QED
    BY <1>1, <1>2, <2>1, MergedBoardsAre
<1>4. c1 \in Letters \cup {kCellEmpty} /\ c2 \in Letters \cup {kCellEmpty}
  BY BoardsAssumption
<1>5. /\ IsBoard(bd_')
      /\ TwoIs(bd_', two, runs_, word_marks)
      /\ \A j \in Corners, d \in Fillings :
            one[j][d] # None => OneIs(bd_', j, d, one[j][d])
      /\ MergedIs(bd_', merged')
  BY <1>1, <1>2, <1>3, <1>4, SolvedStays
<1>6. one'[TL][merged'.c1] # None /\ one'[BR][merged'.c2] # None
  BY <1>1, <1>2
<1>7. /\ one' = [j \in Corners |-> [d \in Fillings |-> one'[j][d]]]
      /\ \A j \in Corners, d \in Fillings :
            one'[j][d] # None => two' # None /\ OneIs(bd_', j, d, one'[j][d])
  BY <1>2, <1>5 DEF MultiInv
<1>8. /\ (IsBoard(bd_))' /\ (MarksOK(word_marks, runs_))'
      /\ (TwoIs(bd_, two, runs_, word_marks))' /\ (MergedIs(bd_, merged))'
      /\ runs_' \in 0..MaxRuns
  BY <1>2, <1>3, <1>5 DEF MultiInv
<1> QED
  BY <1>2, <1>6, <1>7, <1>8 DEF MultiInv

\* Every step keeps the invariant.
LEMMA MultiNextInv == MultiInv /\ [MultiNext]_multi => MultiInv'
<1>1. ASSUME MultiInv, UNCHANGED multi PROVE MultiInv'
  <2>1. /\ bd_' = bd_ /\ word_marks' = word_marks /\ runs_' = runs_ /\ two' = two
        /\ one' = one /\ merged' = merged
    BY <1>1 DEF multi
  <2>2. /\ (IsBoard(bd_))' = IsBoard(bd_)
        /\ (MarksOK(word_marks, runs_))' = MarksOK(word_marks, runs_)
        /\ (TwoIs(bd_, two, runs_, word_marks))' = TwoIs(bd_, two, runs_, word_marks)
        /\ (MergedIs(bd_, merged))' = MergedIs(bd_, merged)
    BY <2>1
  <2>3. \A k \in Corners, c \in Fillings :
            OneIs(bd_', k, c, one'[k][c]) = OneIs(bd_, k, c, one[k][c])
    BY <2>1
  <2> QED
    BY <1>1, <2>1, <2>2, <2>3 DEF MultiInv
<1> QED
  BY <1>1, NothingSolved, SolveTwoHoleIs, FillHoleIs, MergeBoardsIs DEF MultiNext

\* A path that was kept is of letters, up to an empty corner.
LEMMA KeptIsHolePath ==
    ASSUME NEW b, NEW J, NEW k, NEW p, IsBoard(b), p \in PathsInto(b, J, k)
    PROVE  /\ IsHolePath(p) /\ J \subseteq p.used
           /\ \A n \in p.used : b[n] # kCellEmpty
<1>1. PICK s \in EndIn(b, J, k) : p = HolePath(b, s)
  BY DEF PathsInto
<1>2. s \in Trails(b) /\ J \subseteq Before(s, Len(s))
  BY DEF EndIn
<1>3. /\ Along(b, s, Len(s) - 1) \in Nodes /\ Before(s, Len(s)) \subseteq Cells
      /\ \A i \in 1..(Len(s) - 1) : b[s[i]] # kCellEmpty
  BY <1>2, TrailIs
<1>4. /\ p.node = Along(b, s, Len(s) - 1) /\ p.len = WordLen(Along(b, s, Len(s) - 1))
      /\ p.used = Before(s, Len(s))
  BY <1>1 DEF HolePath
<1>5. \A n \in Before(s, Len(s)) : b[n] # kCellEmpty
  BY <1>3 DEF Before
<1> QED
  BY <1>2, <1>3, <1>4, <1>5 DEF IsHolePath

\* What a board has scores a number of points.
LEMMA ScoreOfType == \A b : ScoreOf(FoundIn(b)) \in Nat
<1> QED
  BY WordSumAdd DEF ScoreOf, FoundIn

\* Without a letter in a corner nothing is lost but what its letter gives.
LEMMA ExtraScore ==
    ASSUME NEW b, IsBoard(b), NEW k, NEW c, k \in Corners, c \in Fillings
    PROVE  /\ ExtraWords(b, k, c) \subseteq Words /\ ScoreOf(ExtraWords(b, k, c)) \in Nat
           /\ ScoreOf(FoundIn(Emptied(b))) + ScoreOf(ExtraWords(b, k, c)) =
                  ScoreOf(FoundIn(HoleAt(b, k, c)))
<1> DEFINE V == FoundIn(Emptied(b))
           F == FoundIn(HoleAt(b, k, c))
           W == ExtraWords(b, k, c)
<1>1. V \subseteq F
  BY CornersFilled, FoundWithout
<1>2. W = F \ V /\ V \subseteq Words /\ F \subseteq Words
  BY DEF ExtraWords, FoundIn
<1> HIDE DEF V, F, W
<1>3. V \cap W = {} /\ V \cup W = F /\ W \subseteq Words
  BY <1>1, <1>2
<1>4. ScoreOf(W) \in Nat /\ ScoreOf(V \cup W) = ScoreOf(V) + ScoreOf(W)
  BY <1>2, <1>3, ScoreApart
<1> QED
  BY <1>3, <1>4 DEF V, F, W

\* The types of all variables follow from the invariant,
LEMMA MultiTypes == MultiInv => MultiTypeOK
<1> SUFFICES ASSUME MultiInv PROVE MultiTypeOK
  OBVIOUS
<1>1. IsBoard(bd_) /\ runs_ \in 0..MaxRuns /\ MarksOK(word_marks, runs_)
  BY DEF MultiInv
<1>2. word_marks \in [Words -> [run : 0..runs_, high : BOOLEAN]]
  <2>1. [run : 0..runs_, high : {FALSE}] \subseteq [run : 0..runs_, high : BOOLEAN]
    OBVIOUS
  <2>2. word_marks \in [Words -> [run : 0..runs_, high : {FALSE}]]
    BY <1>1 DEF MarksOK
  <2> QED
    BY <2>1, <2>2
<1>3. ASSUME two # None
      PROVE  /\ two.score \in Nat /\ two.trie_mark = runs_
             /\ \A k \in Corners : \A p \in two.paths[k] :
                   IsHolePath(p) /\ p.used \cap Corners = {}
  <2>1. TwoIs(bd_, two, runs_, word_marks)
    BY <1>3 DEF MultiInv
  <2>2. /\ IsBoard(Emptied(bd_)) /\ Emptied(bd_)[TL] = kCellEmpty
        /\ Emptied(bd_)[BR] = kCellEmpty
    BY <1>1, CornersFilled
  <2>3. ASSUME NEW k \in Corners, NEW p \in two.paths[k]
        PROVE  IsHolePath(p) /\ p.used \cap Corners = {}
    <3> DEFINE J == {}
    <3>1. p \in PathsInto(Emptied(bd_), J, k)
      BY <2>1 DEF TwoIs
    <3> HIDE DEF J
    <3>2. IsHolePath(p) /\ \A n \in p.used : Emptied(bd_)[n] # kCellEmpty
      BY <2>2, <3>1, KeptIsHolePath
    <3> QED
      BY <2>2, <3>2 DEF Corners
  <2> QED
    BY <2>1, <2>3, ScoreOfType DEF TwoIs
<1>4. ASSUME NEW k \in Corners, NEW c \in Fillings, one[k][c] # None
      PROVE  /\ one[k][c].extra_score \in Nat /\ one[k][c].extra_words \subseteq Words
             /\ \A p \in one[k][c].paths : IsHolePath(p) /\ p.used \cap Corners = {k}
  <2> DEFINE b == HoleAt(bd_, k, c)
  <2>1. OneIs(bd_, k, c, one[k][c])
    BY <1>4 DEF MultiInv
  <2>2. /\ IsBoard(b) /\ b[Opposite(k)] = kCellEmpty /\ Corners = {k, Opposite(k)}
    BY <1>1, CornersFilled DEF FillsIn
  <2>3. ASSUME NEW p \in one[k][c].paths
        PROVE  IsHolePath(p) /\ p.used \cap Corners = {k}
    <3> DEFINE J == {k}
               opp == Opposite(k)
    <3>1. p \in PathsInto(b, J, opp)
      BY <2>1 DEF OneIs
    <3> HIDE DEF J, opp, b
    <3>2. IsHolePath(p) /\ J \subseteq p.used /\ \A n \in p.used : b[n] # kCellEmpty
      BY <2>2, <3>1, KeptIsHolePath
    <3>3. k \in p.used /\ Opposite(k) \notin p.used
      BY <2>2, <3>2 DEF J
    <3> QED
      BY <2>2, <3>2, <3>3
  <2>4. one[k][c].extra_score \in Nat /\ one[k][c].extra_words \subseteq Words
    BY <1>1, <2>1, ExtraScore DEF OneIs
  <2> QED
    BY <2>3, <2>4
<1>5. merged # None => merged.score \in Int
  BY DEF MultiInv, MergedIs
<1>6. bd_ \in [Cells -> Letters \cup {kCellEmpty}]
  BY <1>1 DEF IsBoard
<1> QED
  BY <1>1, <1>2, <1>3, <1>4, <1>5, <1>6 DEF MultiTypeOK

\* ... and so do the three properties.
LEMMA MultiInvSays ==
    MultiInv => MarksAreTheBoards /\ PartialScoresExact /\ MergedScoreExact
<1> SUFFICES ASSUME MultiInv PROVE MarksAreTheBoards /\ PartialScoresExact /\ MergedScoreExact
  OBVIOUS
<1>1. /\ IsBoard(bd_) /\ MarksOK(word_marks, runs_)
      /\ two # None => TwoIs(bd_, two, runs_, word_marks)
      /\ \A k \in Corners, c \in Fillings :
            one[k][c] # None => two # None /\ OneIs(bd_, k, c, one[k][c])
  BY DEF MultiInv
<1>2. TL \in Corners /\ BR \in Corners /\ TL # BR
  BY CornersAre DEF Corners
<1>3. OnBoard(kCellEmpty, kCellEmpty) = FoundIn(Emptied(bd_))
  BY DEF OnBoard, FoundIn, Emptied
<1>4. \A c \in Fillings : /\ OnBoard(c, kCellEmpty) = FoundIn(HoleAt(bd_, TL, c))
                          /\ OnBoard(kCellEmpty, c) = FoundIn(HoleAt(bd_, BR, c))
  BY <1>2 DEF OnBoard, FoundIn, HoleAt
<1>5. MarksAreTheBoards
  <2>1. ASSUME two # None
        PROVE  {w \in Words : word_marks[w] = Low(two.trie_mark)} =
                   OnBoard(kCellEmpty, kCellEmpty)
    <3>1. \A w \in Words : word_marks[w] = Low(two.trie_mark) <=> w \in FoundIn(Emptied(bd_))
      BY <1>1, <2>1 DEF TwoIs
    <3>2. FoundIn(Emptied(bd_)) \subseteq Words
      BY DEF FoundIn
    <3> QED
      BY <1>3, <3>1, <3>2
  <2>2. \A w \in Words : ~word_marks[w].high
    BY <1>1, MarksCleared
  <2> QED
    BY <2>1, <2>2, MultiTypes DEF MarksAreTheBoards
<1>6. PartialScoresExact
  <2>1. ASSUME two # None
        PROVE  /\ two.score = ScoreOf(OnBoard(kCellEmpty, kCellEmpty))
               /\ \A c \in Fillings :
                     /\ one[TL][c] # None =>
                          two.score + one[TL][c].extra_score = ScoreOf(OnBoard(c, kCellEmpty))
                     /\ one[BR][c] # None =>
                          two.score + one[BR][c].extra_score = ScoreOf(OnBoard(kCellEmpty, c))
    <3>1. two.score = ScoreOf(FoundIn(Emptied(bd_)))
      BY <1>1, <2>1 DEF TwoIs
    <3>2. \A k \in Corners, c \in Fillings : one[k][c] # None =>
              two.score + one[k][c].extra_score = ScoreOf(FoundIn(HoleAt(bd_, k, c)))
      BY <1>1, <3>1, ExtraScore DEF OneIs
    <3> QED
      BY <1>2, <1>3, <1>4, <3>1, <3>2
  <2> QED
    BY <2>1 DEF PartialScoresExact
<1>7. MergedScoreExact
  <2>1. ASSUME merged # None
        PROVE  LET twice == one[TL][merged.c1].extra_words \cap one[BR][merged.c2].extra_words
               IN  \/ merged.score = ScoreOf(OnBoard(merged.c1, merged.c2))
                   \/ \E w \in twice : Q \in ToSet(w)
    <3> DEFINE c1 == merged.c1
               c2 == merged.c2
    <3>1. MergedIs(bd_, merged) /\ one[TL][c1] # None /\ one[BR][c2] # None
      BY <2>1 DEF MultiInv
    <3>2. c1 \in Fillings /\ c2 \in Fillings
      BY <3>1 DEF MergedIs
    <3>3. OnBoard(c1, c2) = FoundIn(WithCorners(bd_, c1, c2))
      BY DEF OnBoard, FoundIn
    <3>4. /\ one[TL][c1].extra_words = ExtraWords(bd_, TL, c1)
          /\ one[BR][c2].extra_words = ExtraWords(bd_, BR, c2)
      BY <1>1, <1>2, <3>1, <3>2 DEF OneIs
    <3> QED
      BY <3>1, <3>3, <3>4 DEF MergedIs
  <2> QED
    BY <2>1 DEF MergedScoreExact
<1> QED
  BY <1>5, <1>6, <1>7

\* Whatever the caller does with it, the marks of the trie tell the words of the
\* board without its corners, and none is left high.
THEOREM MarksAreExact == MultiSpec => []MarksAreTheBoards
<1> QED
  BY NothingSolved, MultiNextInv, MultiInvSays, PTL DEF MultiSpec

\* The scores on the way are those of boards with empty corners, in whatever
\* order they are filled.
THEOREM PartialsAreExact == MultiSpec => []PartialScoresExact
<1> QED
  BY NothingSolved, MultiNextInv, MultiInvSays, PTL DEF MultiSpec

\* What MergeBoards returns is the score of the full board, if both corners find
\* no word with a q.
THEOREM MergedIsExact == MultiSpec => []MergedScoreExact
<1> QED
  BY NothingSolved, MultiNextInv, MultiInvSays, PTL DEF MultiSpec
==============================================================================
