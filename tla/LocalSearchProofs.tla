------------------------- MODULE LocalSearchProofs -------------------------
(***************************************************************************)
(* Proofs about the two programs that search among boards next to each     *)
(* other: Annealer, for every size of board, alphabet, score function,     *)
(* stall limit, cooling schedule and number of runs, and Neighbors, for    *)
(* every list of boards, alphabet and depth.                               *)
(***************************************************************************)
EXTENDS Annealer, Neighbors, DataTheorems

-----------------------------------------------------------------------------
(* The inductive invariant. *)

\* Before the first run nothing is known of the score.  A run starts from the
\* score 0 over a board that was not scored; from the first judgement on the
\* score is that of the board.
BestIsOfLast ==
    /\ run = 0 => pc = "start" /\ n = 0
    /\ run > 0 /\ n = 0 => best_score_ = 0 /\ pc # "done" /\ pc # "start"
    /\ n > 0 => best_score_ = Score(last_)

\* A generation is judged within max_stall of the last one accepted, and one
\* that was accepted when cold has paid for it with a better score.
StallIsPaid ==
    run > 0 =>
        /\ n <= last_accept + max_stall
        /\ pc \in {"mutate", "judge"} => n < last_accept + max_stall
        /\ last_accept <= ColdAt + max_stall * best_score_

IInv == TypeOK /\ BestIsOfLast /\ StallIsPaid

\* A score that is over another pays for one more stall.
LEMMA BetterPays ==
    ASSUME NEW m \in Nat, NEW a \in Nat, NEW b \in Nat, a < b
    PROVE  m * a \in Nat /\ m * a + m <= m * b
<1>1. \A x, y \in Nat : x * y \in Nat
  OBVIOUS
<1>2. PICK k \in Nat : b = a + 1 + k
  <2>1. b - a - 1 \in Nat /\ b = a + 1 + (b - a - 1)
    OBVIOUS
  <2> QED
    BY <2>1
<1>3. m * b = m * a + m + m * k
  BY <1>2
<1> QED
  BY <1>1, <1>3

\* The score is a natural number once a run has begun.
LEMMA BestIsNat == ASSUME IInv, run > 0 PROVE best_score_ \in Nat /\ n \in Nat
<1>1. n \in Nat /\ last_ \in Boards
  BY DEF IInv, TypeOK
<1>2. CASE n = 0
  BY <1>1, <1>2 DEF IInv, BestIsOfLast
<1>3. CASE n > 0
  BY <1>1, <1>3, ScoreAssumption DEF IInv, BestIsOfLast
<1> QED
  BY <1>1, <1>2, <1>3

\* An object that was just made satisfies the invariant.
LEMMA InitIInv == Init => IInv
<1> SUFFICES ASSUME Init PROVE IInv
  OBVIOUS
<1>1. 0 \in 0..Runs /\ 0 \in 0..MaxMutations
  BY BoundsAssumption
<1> QED
  BY <1>1, LeftoverAssumption DEF Init, IInv, TypeOK, BestIsOfLast, StallIsPaid

\* What Judge does when it accepts the board, and when it does not.
LEMMA JudgeCases ==
    ASSUME IInv, Judge
    PROVE  /\ run > 0 /\ n \in Nat /\ best_score_ \in Nat
           /\ Score(bd_) \in Nat
           /\ \/ /\ last_accept' = n /\ best_score_' = Score(bd_) /\ last_' = bd_
                 /\ \/ Score(bd_) > best_score_
                    \/ Score(bd_) = best_score_ /\ n < ColdAt
                    \/ n < FrozenAt
              \/ /\ UNCHANGED <<last_accept, best_score_, last_>>
                 /\ n > 0
<1>1. n \in Nat /\ run \in Nat /\ bd_ \in Boards
  BY BoundsAssumption DEF IInv, TypeOK
<1>2. run > 0
  BY <1>1 DEF IInv, BestIsOfLast, Judge
<1>3. best_score_ \in Nat /\ Score(bd_) \in Nat
  BY <1>1, <1>2, BestIsNat, ScoreAssumption
<1>4. PICK accept \in Transitions(best_score_, Score(bd_)) :
          IF accept
          THEN last_accept' = n /\ best_score_' = Score(bd_) /\ last_' = bd_
          ELSE UNCHANGED <<last_accept, best_score_, last_>>
  BY DEF Judge
<1>5. CASE /\ Score(bd_) > best_score_ \/ (Score(bd_) = best_score_ /\ n < ColdAt)
  <2>1. accept = TRUE
    BY <1>4, <1>5 DEF Transitions
  <2> QED
    BY <1>1, <1>2, <1>3, <1>4, <1>5, <2>1
<1>6. CASE ~(Score(bd_) > best_score_ \/ (Score(bd_) = best_score_ /\ n < ColdAt))
  <2>1. n > 0
    <3>1. CASE n = 0
      <4>1. best_score_ = 0 /\ 0 < ColdAt
        BY <1>2, <3>1, ScheduleAssumption DEF IInv, BestIsOfLast
      <4> QED
        BY <1>3, <1>6, <3>1, <4>1
    <3> QED
      BY <1>1, <3>1
  <2>2. CASE Score(bd_) < best_score_ /\ n < FrozenAt
    <3>1. accept \in BOOLEAN
      BY <1>4, <1>6, <2>2 DEF Transitions
    <3> QED
      BY <1>1, <1>2, <1>3, <1>4, <2>1, <2>2, <3>1
  <2>3. CASE ~(Score(bd_) < best_score_ /\ n < FrozenAt)
    <3>1. accept = FALSE
      BY <1>4, <1>6, <2>3 DEF Transitions
    <3> QED
      BY <1>1, <1>2, <1>3, <1>4, <2>1, <3>1
  <2> QED
    BY <2>2, <2>3
<1> QED
  BY <1>5, <1>6

\* Every step of a run, and from one run to the next, keeps the invariant.
LEMMA NextIInv == IInv /\ [Next]_vars => IInv'
<1> SUFFICES ASSUME IInv, [Next]_vars PROVE IInv'
  OBVIOUS
<1> USE DEF IInv
<1>0. /\ max_stall \in Nat \ {0} /\ ColdAt \in Nat \ {0} /\ FrozenAt \in Nat
      /\ FrozenAt <= ColdAt
  BY ScheduleAssumption
<1>1. CASE StartRun
  <2>1. TypeOK'
    BY <1>1, BoundsAssumption DEF StartRun, TypeOK
  <2>2. run \in Nat /\ run' > 0
    BY <1>1, BoundsAssumption DEF StartRun, TypeOK
  <2>3. BestIsOfLast'
    BY <1>1, <2>2 DEF StartRun, BestIsOfLast
  <2>4. max_stall * 0 = 0
    BY <1>0
  <2>5. StallIsPaid'
    BY <1>0, <1>1, <2>4 DEF StartRun, StallIsPaid
  <2> QED
    BY <2>1, <2>3, <2>5
<1>2. CASE Generation
  <2>1. TypeOK'
    BY <1>2, BoundsAssumption DEF Generation, TypeOK
  <2> QED
    BY <1>2, <2>1 DEF Generation, BestIsOfLast, StallIsPaid
<1>3. CASE Swap \/ SwapForEver \/ Change
  <2>1. /\ pc = "mutate" /\ pc' \in {"mutate", "judge", "spin"}
        /\ UNCHANGED <<run, n, last_accept, last_, best_score_>>
    BY <1>3 DEF Swap, SwapForEver, Change, Mutated
  <2>2. made' \in 0..MaxMutations
    BY <1>3, BoundsAssumption
    DEF Swap, SwapForEver, Change, Mutated, TypeOK
  <2>3. bd_' \in Boards
    <3>1. CASE Swap
      BY <3>1 DEF Swap, TypeOK, Boards
    <3>2. CASE SwapForEver
      BY <3>2 DEF SwapForEver, TypeOK
    <3>3. CASE Change
      BY <3>3 DEF Change, TypeOK, Boards
    <3> QED
      BY <1>3, <3>1, <3>2, <3>3
  <2>4. TypeOK'
    BY <2>1, <2>2, <2>3 DEF TypeOK
  <2> QED
    BY <2>1, <2>4 DEF BestIsOfLast, StallIsPaid
<1>4. CASE EndMutate
  BY <1>4 DEF EndMutate, TypeOK, BestIsOfLast, StallIsPaid
<1>5. CASE Judge
  <2>1. /\ run > 0 /\ n \in Nat /\ best_score_ \in Nat /\ Score(bd_) \in Nat
        /\ pc = "judge" /\ pc' = "loop" /\ n' = n + 1 /\ n' > 0
        /\ UNCHANGED <<run, bd_, made>>
    BY <1>5, JudgeCases DEF Judge
  <2>2. /\ last_accept \in Nat /\ n < last_accept + max_stall
        /\ last_accept <= ColdAt + max_stall * best_score_
    BY <2>1 DEF TypeOK, StallIsPaid
  <2>3. CASE /\ last_accept' = n /\ best_score_' = Score(bd_) /\ last_' = bd_
             /\ \/ Score(bd_) > best_score_
                \/ Score(bd_) = best_score_ /\ n < ColdAt
                \/ n < FrozenAt
    <3>1. TypeOK'
      BY <2>1, <2>3 DEF TypeOK
    <3>2. BestIsOfLast'
      BY <2>1, <2>3 DEF BestIsOfLast, TypeOK
    <3>3. n <= ColdAt + max_stall * Score(bd_)
      <4>1. max_stall * Score(bd_) \in Nat /\ max_stall * best_score_ \in Nat
        BY <1>0, <2>1
      <4>2. CASE n < ColdAt
        BY <1>0, <2>1, <4>1, <4>2
      <4>3. CASE Score(bd_) > best_score_
        <5>1. max_stall * best_score_ + max_stall <= max_stall * Score(bd_)
          BY <1>0, <2>1, <4>3, BetterPays
        <5>2. \A a, b, p, d, e \in Nat :
                 e < a + b /\ a <= p + d => e <= p + (d + b)
          OBVIOUS
        <5>3. n <= ColdAt + (max_stall * best_score_ + max_stall)
          BY <1>0, <2>1, <2>2, <4>1, <5>2
        <5>4. \A a, b, p, d \in Nat : a <= b + p /\ p <= d => a <= b + d
          OBVIOUS
        <5>5. max_stall * best_score_ + max_stall \in Nat
          BY <1>0, <4>1
        <5> QED
          BY <1>0, <2>1, <4>1, <5>1, <5>3, <5>4, <5>5
      <4> QED
        BY <1>0, <2>1, <2>3, <4>2, <4>3
    <3>4. n + 1 <= n + max_stall
      BY <1>0, <2>1
    <3>5. StallIsPaid'
      BY <2>1, <2>3, <3>3, <3>4 DEF StallIsPaid
    <3> QED
      BY <3>1, <3>2, <3>5
  <2>4. CASE UNCHANGED <<last_accept, best_score_, last_>> /\ n > 0
    <3>1. TypeOK'
      BY <2>1, <2>4 DEF TypeOK
    <3>2. BestIsOfLast'
      BY <2>1, <2>4 DEF BestIsOfLast, TypeOK
    <3>3. n + 1 <= last_accept + max_stall
      BY <1>0, <2>1, <2>2
    <3>4. StallIsPaid'
      BY <2>1, <2>2, <2>4, <3>3 DEF StallIsPaid
    <3> QED
      BY <3>1, <3>2, <3>4
  <2> QED
    BY <1>5, <2>3, <2>4, JudgeCases
<1>6. CASE EndRun
  <2>1. n > 0 /\ run > 0
    BY <1>0, <1>6, BoundsAssumption DEF EndRun, TypeOK, BestIsOfLast
  <2> QED
    BY <1>6, <2>1 DEF EndRun, TypeOK, BestIsOfLast, StallIsPaid
<1>7. CASE Report
  BY <1>7 DEF Report, TypeOK, BestIsOfLast, StallIsPaid
<1>8. CASE UNCHANGED vars
  BY <1>8 DEF vars, TypeOK, BestIsOfLast, StallIsPaid
<1> QED
  BY <1>1, <1>2, <1>3, <1>4, <1>5, <1>6, <1>7, <1>8 DEF Next

\* In every run the best score is that of the board it was found on, and the
\* generations are paid for: the first accepted whatever it scores, the cold
\* ones by a better score each.
THEOREM AnnealerInvariant == Spec => []IInv
<1> QED
  BY InitIInv, NextIInv, PTL DEF Spec

-----------------------------------------------------------------------------
(* The properties. *)

\* The score main prints is the score of the board it prints, in every run,
\* and every variable keeps its type (Annealer::Run, FinalBoard, FinalScore).
THEOREM ScoreIsOfTheBoard == Spec => []FinalMatches
<1>1. IInv => FinalMatches
  <2> SUFFICES ASSUME IInv PROVE FinalMatches
    OBVIOUS
  <2>1. pc = "done" => n > 0
    <3>1. n \in Nat /\ run \in Nat
      BY BoundsAssumption DEF IInv, TypeOK
    <3> QED
      BY <3>1 DEF IInv, BestIsOfLast
  <2> QED
    BY <2>1 DEF IInv, BestIsOfLast, FinalMatches
<1> QED
  BY <1>1, AnnealerInvariant, PTL

\* However the random numbers fall, a run has no more generations than its
\* cold point and the score it has got to allow (AcceptTransition).
THEOREM RunsAreBounded == Spec => []RunIsBounded
<1>1. IInv => RunIsBounded
  <2> SUFFICES ASSUME IInv, run > 0
               PROVE  n <= ColdAt + max_stall * (best_score_ + 1)
    BY DEF RunIsBounded
  <2>1. /\ best_score_ \in Nat /\ n \in Nat /\ last_accept \in Nat
        /\ n <= last_accept + max_stall
        /\ last_accept <= ColdAt + max_stall * best_score_
    BY BestIsNat DEF IInv, TypeOK, StallIsPaid
  <2>2. max_stall \in Nat /\ ColdAt \in Nat
    BY ScheduleAssumption
  <2>3. best_score_ < best_score_ + 1 /\ best_score_ + 1 \in Nat
    BY <2>1
  <2>4. /\ max_stall * best_score_ \in Nat
        /\ max_stall * best_score_ + max_stall <= max_stall * (best_score_ + 1)
    BY <2>1, <2>2, <2>3, BetterPays
  <2>5. max_stall * (best_score_ + 1) \in Nat
    BY <2>2, <2>3
  <2>6. \A a, b, p, d, e, f \in Nat :
            e <= a + b /\ a <= p + d /\ d + b <= f => e <= p + f
    OBVIOUS
  <2> QED
    BY <2>1, <2>2, <2>4, <2>5, <2>6
<1> QED
  BY <1>1, AnnealerInvariant, PTL

\* Once no loss passes, no step of the run replaces its board by a worse one,
\* and at T = 0 none replaces it by another of the same score.
THEOREM FrozenNeverLoses == Spec => NoLossWhenFrozen
<1> DEFINE A == (run' = run /\ n > 0 /\ n >= FrozenAt)
                    => \/ Score(last_') > Score(last_)
                       \/ Score(last_') = Score(last_) /\ (n >= ColdAt => last_' = last_)
<1>1. IInv /\ [Next]_vars => [A]_vars
  <2> SUFFICES ASSUME IInv, Next, run' = run, n > 0, n >= FrozenAt
               PROVE  \/ Score(last_') > Score(last_)
                      \/ Score(last_') = Score(last_) /\ (n >= ColdAt => last_' = last_)
    OBVIOUS
  <2>1. CASE Judge
    <3>1. best_score_ = Score(last_)
      BY DEF IInv, BestIsOfLast
    <3>2. ~(n < FrozenAt) /\ (n < ColdAt => ~(n >= ColdAt))
      BY ScheduleAssumption DEF IInv, TypeOK
    <3> QED
      BY <2>1, <3>1, <3>2, JudgeCases
  <2>2. CASE StartRun
    BY <2>2, BoundsAssumption DEF StartRun, IInv, TypeOK
  <2>3. CASE ~Judge /\ ~StartRun
    BY <2>3 DEF Next, Generation, Swap, SwapForEver, Change, Mutated, EndMutate,
                EndRun, Report
  <2> QED
    BY <2>1, <2>2, <2>3
<1> QED
  BY <1>1, AnnealerInvariant, PTL DEF Spec, NoLossWhenFrozen

-----------------------------------------------------------------------------
(* The buffer of EditDistance. *)

Buffers == [1..Len(seed) -> Alphabet]
Frame == [d : Nat, entry : Buffers, loop : {"edits", "swaps"}, x : 1..Len(seed),
          y : Nat \ {0}, orig : Alphabet, orig2 : Alphabet, undo : BOOLEAN]

\* The letter that the loop of the edits put last, before letter y.
LastTried(y, o) == IF y = 1 \/ (y = 2 /\ o = 1) THEN o
                   ELSE IF o = y - 1 THEN y - 2 ELSE y - 1

\* A level in its loops, and what it sees in the buffer.
InLoops(f) ==
    /\ f.orig = f.entry[f.x]
    /\ f.loop = "edits" => ~f.undo
    /\ f.loop = "swaps" => f.x < f.y
    /\ f.undo => f.y \in 1..Len(seed) /\ f.orig2 = f.entry[f.y]
Sees(f, b) ==
    /\ f.loop = "edits" => b = [f.entry EXCEPT ![f.x] = LastTried(f.y, f.orig)]
    /\ f.loop = "swaps" /\ f.undo =>
           b = [f.entry EXCEPT ![f.x] = f.entry[f.y], ![f.y] = f.orig]
    /\ f.loop = "swaps" /\ ~f.undo =>
           \A k \in 1..Len(seed) : k # f.x => b[k] = f.entry[k]
Called(f) == f.loop = "edits" \/ f.undo

\* All levels but the innermost have made an edit or a swap and called.
StackInv ==
    /\ seed \in Seeds /\ depth \in Depths /\ c \in Buffers /\ printed \in Seq(Buffers)
    /\ stack \in Seq(Frame) /\ Len(stack) <= depth
    /\ \A i \in 1..Len(stack) : stack[i].d = depth - i + 1 /\ InLoops(stack[i])
    /\ \A i \in 1..Len(stack) : i < Len(stack) =>
           Called(stack[i]) /\ Sees(stack[i], stack[i + 1].entry)
    /\ stack # <<>> => Sees(stack[Len(stack)], c) /\ stack[1].entry = seed
    /\ stack = <<>> => c = seed

\* The innermost level of EditDistance.
Tip == stack[Len(stack)]

\* The arguments of the program.
LEMMA SeedIs ==
    ASSUME seed \in Seeds, depth \in Depths
    PROVE  /\ seed \in Buffers /\ Len(seed) \in Nat \ {0} /\ 1 \in 1..Len(seed)
           /\ DOMAIN seed = 1..Len(seed) /\ depth \in Nat \ {0} /\ NumLetters \in Nat
<1>1. /\ seed \in Seq(1..NumLetters) /\ seed # <<>> /\ depth \in Nat \ {0}
      /\ NumLetters \in Nat
  BY SeedsAssumption DEF Alphabet
<1>2. /\ Len(seed) \in Nat /\ DOMAIN seed = 1..Len(seed)
      /\ seed \in [1..Len(seed) -> 1..NumLetters] /\ Len(seed) # 0
  BY <1>1, LenProperties, EmptySeq
<1> QED
  BY <1>1, <1>2 DEF Buffers, Alphabet

\* All but the last element of a sequence.
LEMMA FrontIs ==
    ASSUME NEW S, NEW s \in Seq(S), s # <<>>
    PROVE  /\ Front(s) \in Seq(S) /\ Len(s) \in Nat \ {0} /\ s[Len(s)] \in S
           /\ Len(Front(s)) = Len(s) - 1
           /\ \A i \in 1..(Len(s) - 1) : Front(s)[i] = s[i]
           /\ Last(s) = s[Len(s)]
<1>1. Len(s) \in Nat /\ Len(s) # 0 /\ s \in [1..Len(s) -> S]
  BY LenProperties, EmptySeq
<1>2. 1 \in Int /\ Len(s) - 1 \in Int /\ \A i \in 1..(Len(s) - 1) : s[i] \in S
  BY <1>1
<1> QED
  BY <1>1, <1>2, SubSeqProperties DEF Front, Last

\* The invariant after a step that leaves the arguments alone.
StackOK(s, b) ==
    /\ s \in Seq(Frame) /\ Len(s) <= depth
    /\ \A i \in 1..Len(s) : s[i].d = depth - i + 1 /\ InLoops(s[i])
    /\ \A i \in 1..Len(s) : i < Len(s) => Called(s[i]) /\ Sees(s[i], s[i + 1].entry)
    /\ s # <<>> => Sees(s[Len(s)], b) /\ s[1].entry = seed
    /\ s = <<>> => b = seed

\* A step keeps the invariant if the stack and the buffer it leaves satisfy it.
LEMMA NextInv ==
    ASSUME StackInv, seed' = seed, depth' = depth, c' \in Buffers,
           printed' \in Seq(Buffers), StackOK(stack', c')
    PROVE  StackInv'
BY DEF StackInv, StackOK, Buffers, Frame, InLoops, Sees, Called

\* The innermost level goes on.
LEMMA Replaced ==
    ASSUME StackInv, stack # <<>>, NEW b \in Buffers,
           NEW f \in Frame, f.d = Tip.d, f.entry = Tip.entry, InLoops(f), Sees(f, b)
    PROVE  StackOK(Append(Front(stack), f), b)
<1> DEFINE e == Front(stack)
           s == Append(e, f)
           q == Len(stack)
<1>1. /\ e \in Seq(Frame) /\ q \in Nat \ {0} /\ Len(e) = q - 1
      /\ \A i \in 1..(q - 1) : e[i] = stack[i]
  BY FrontIs DEF StackInv
<1> HIDE DEF e
<1>2. /\ s \in Seq(Frame) /\ Len(s) = Len(e) + 1
      /\ \A i \in 1..Len(e) : s[i] = e[i]
      /\ s[Len(e) + 1] = f
  BY <1>1, AppendProperties
<1>3. /\ Len(s) = q /\ s[q] = f /\ s # <<>>
      /\ \A i \in 1..(q - 1) : s[i] = stack[i]
  BY <1>1, <1>2
<1> HIDE DEF s
<1>4. q <= depth
  BY DEF StackInv
<1>5. ASSUME NEW i \in 1..q PROVE s[i].d = depth - i + 1 /\ InLoops(s[i])
  <2>1. stack[i].d = depth - i + 1 /\ InLoops(stack[i])
    BY DEF StackInv
  <2>2. CASE i = q
    BY <1>3, <2>1, <2>2 DEF Tip
  <2>3. CASE i # q
    BY <1>1, <1>3, <2>1, <2>3
  <2> QED
    BY <2>2, <2>3
<1>6. ASSUME NEW i \in 1..q, i < q PROVE Called(s[i]) /\ Sees(s[i], s[i + 1].entry)
  <2>1. Called(stack[i]) /\ Sees(stack[i], stack[i + 1].entry)
    BY <1>6 DEF StackInv
  <2>2. s[i] = stack[i]
    BY <1>1, <1>3, <1>6
  <2>3. s[i + 1].entry = stack[i + 1].entry
    <3>1. CASE i + 1 = q
      BY <1>3, <3>1 DEF Tip
    <3>2. CASE i + 1 # q
      BY <1>1, <1>3, <1>6, <3>2
    <3> QED
      BY <3>1, <3>2
  <2> QED
    BY <2>1, <2>2, <2>3
<1>7. s[1].entry = seed
  <2>1. stack[1].entry = seed
    BY DEF StackInv
  <2>2. CASE q = 1
    BY <1>3, <2>1, <2>2 DEF Tip
  <2>3. CASE q # 1
    BY <1>1, <1>3, <2>1, <2>3
  <2> QED
    BY <2>2, <2>3
<1>8. StackOK(s, b)
  BY <1>2, <1>3, <1>4, <1>5, <1>6, <1>7 DEF StackOK
<1> QED
  BY <1>8 DEF s, e

\* A level at the head of its loops.
LEMMA CallIs ==
    ASSUME StackInv, NEW b \in Buffers, NEW d \in Nat
    PROVE  LET f == Call(b, d)
           IN  /\ f \in Frame /\ f.d = d /\ f.entry = b /\ InLoops(f) /\ Sees(f, b)
               /\ f.loop = "edits" /\ f.x = 1 /\ f.y = 1
<1> DEFINE f == Call(b, d)
<1>1. 1 \in 1..Len(seed) /\ b[1] \in Alphabet
  BY SeedIs DEF StackInv, Buffers
<1>2. f = [d |-> d, entry |-> b, loop |-> "edits", x |-> 1, y |-> 1,
           orig |-> b[1], orig2 |-> b[1], undo |-> FALSE]
  BY DEF Call, EditsFrom
<1>3. f \in Frame
  BY <1>1, <1>2 DEF Frame
<1>4. b = [b EXCEPT ![1] = b[1]]
  BY <1>1 DEF Buffers
<1> HIDE DEF f
<1>5. InLoops(f)
  BY <1>2 DEF InLoops
<1>6. Sees(f, b)
  BY <1>2, <1>4 DEF Sees, LastTried
<1> QED
  BY <1>2, <1>3, <1>5, <1>6 DEF f

\* The innermost level calls the next.
LEMMA Pushed ==
    ASSUME StackInv, stack # <<>>, NEW b \in Buffers, Tip.d # 1,
           NEW f \in Frame, f.d = Tip.d, f.entry = Tip.entry, InLoops(f), Sees(f, b),
           Called(f)
    PROVE  StackOK(Append(Append(Front(stack), f), Call(b, Tip.d - 1)), b)
<1> DEFINE e == Append(Front(stack), f)
           g == Call(b, Tip.d - 1)
           s == Append(e, g)
           q == Len(stack)
           m == q + 1
<1>1. /\ q \in Nat \ {0} /\ Front(stack) \in Seq(Frame) /\ Len(Front(stack)) = q - 1
      /\ depth \in Nat /\ q <= depth /\ Tip.d = depth - q + 1
  BY FrontIs, SeedIs DEF StackInv, Tip
<1>2. StackOK(e, b)
  BY Replaced
<1>3. Len(e) = q /\ e[q] = f
  BY <1>1, AppendProperties
<1>4. q < depth /\ Tip.d - 1 \in Nat /\ Tip.d - 1 = depth - m + 1
  BY <1>1
<1>5. /\ g \in Frame /\ g.d = Tip.d - 1 /\ g.entry = b /\ InLoops(g) /\ Sees(g, b)
  BY <1>4, CallIs
<1> HIDE DEF e, g
<1>6. e \in Seq(Frame)
  BY <1>2 DEF StackOK
<1>7. /\ s \in Seq(Frame) /\ Len(s) = m /\ s[m] = g
      /\ \A i \in 1..q : s[i] = e[i]
  BY <1>3, <1>5, <1>6, AppendProperties
<1>8. s # <<>> /\ m \in Nat /\ m <= depth
  BY <1>1, <1>4, <1>7
<1> HIDE DEF s
<1>9. ASSUME NEW i \in 1..m PROVE s[i].d = depth - i + 1 /\ InLoops(s[i])
  <2>1. CASE i = m
    BY <1>4, <1>5, <1>7, <2>1
  <2>2. CASE i # m
    <3>1. i \in 1..q
      BY <1>1, <2>2
    <3> QED
      BY <1>2, <1>3, <1>7, <3>1 DEF StackOK
  <2> QED
    BY <2>1, <2>2
<1>10. ASSUME NEW i \in 1..m, i < m PROVE Called(s[i]) /\ Sees(s[i], s[i + 1].entry)
  <2>1. i \in 1..q
    BY <1>1, <1>10
  <2>2. CASE i = q
    BY <1>3, <1>5, <1>7, <2>1, <2>2
  <2>3. CASE i # q
    <3>1. i < q /\ i + 1 \in 1..q
      BY <1>1, <2>1, <2>3
    <3> QED
      BY <1>2, <1>3, <1>7, <2>1, <3>1 DEF StackOK
  <2> QED
    BY <2>2, <2>3
<1>11. s[1].entry = seed
  <2>1. 1 \in 1..q /\ e # <<>>
    BY <1>1, <1>3
  <2> QED
    BY <1>2, <1>7, <2>1 DEF StackOK
<1>12. StackOK(s, b)
  BY <1>5, <1>7, <1>8, <1>9, <1>10, <1>11 DEF StackOK
<1> QED
  BY <1>12 DEF s, e, g

\* A level that has put its own board back returns.
LEMMA Popped ==
    ASSUME StackInv, stack # <<>>
    PROVE  StackOK(Front(stack), Tip.entry)
<1> DEFINE s == Front(stack)
           q == Len(stack)
           m == q - 1
<1>1. /\ s \in Seq(Frame) /\ q \in Nat \ {0} /\ Len(s) = m
      /\ \A i \in 1..m : s[i] = stack[i]
  BY FrontIs DEF StackInv
<1> HIDE DEF s
<1>2. q <= depth /\ Len(s) <= depth
  <2>1. q <= depth /\ depth \in Int
    BY SeedIs DEF StackInv
  <2> QED
    BY <1>1, <2>1
<1>3. ASSUME NEW i \in 1..m
      PROVE  /\ s[i].d = depth - i + 1 /\ InLoops(s[i])
             /\ Called(s[i]) /\ Sees(s[i], stack[i + 1].entry)
  <2>1. i \in 1..q /\ i < q
    BY <1>1
  <2> QED
    BY <1>1, <2>1 DEF StackInv
<1>4. ASSUME NEW i \in 1..m, i < m PROVE Sees(s[i], s[i + 1].entry)
  <2>1. i + 1 \in 1..m
    BY <1>1, <1>4
  <2> QED
    BY <1>1, <1>3, <2>1
<1>5. s # <<>> => m \in 1..m /\ m + 1 = q /\ 1 \in 1..m
  <2>1. s # <<>> => m # 0
    BY <1>1, EmptySeq
  <2> QED
    BY <1>1, <2>1
<1>6. s # <<>> => Sees(s[Len(s)], Tip.entry) /\ s[1].entry = seed
  BY <1>1, <1>3, <1>5 DEF Tip, StackInv
<1>7. s = <<>> => Tip.entry = seed
  <2>1. s = <<>> => q = 1
    BY <1>1
  <2> QED
    BY <2>1 DEF Tip, StackInv
<1>8. StackOK(s, Tip.entry)
  BY <1>1, <1>2, <1>3, <1>4, <1>6, <1>7 DEF StackOK
<1> QED
  BY <1>8 DEF s

\* A step of the innermost level: f is the level after it, and b the buffer.
Goes(f, b) ==
    /\ f \in Frame /\ f.d = Tip.d /\ f.entry = Tip.entry /\ InLoops(f) /\ Sees(f, b)
    /\ b \in Buffers
Stays(f, b) == stack' = Append(Front(stack), f) /\ printed' = printed
PutsOrCallsFor(f, b) ==
    IF Tip.d = 1
    THEN printed' = Append(printed, b) /\ stack' = Append(Front(stack), f)
    ELSE /\ printed' = printed
         /\ stack' = Append(Append(Front(stack), f), Call(b, Tip.d - 1))

\* What the innermost level is and sees.
LEMMA TopIs ==
    ASSUME StackInv, stack # <<>>
    PROVE  /\ Top = Tip /\ Tip \in Frame /\ Tip.d \in Nat \ {0}
           /\ Tip.d = depth - Len(stack) + 1
           /\ InLoops(Tip) /\ Sees(Tip, c)
<1>1. /\ Len(stack) \in Nat \ {0} /\ Last(stack) = Tip /\ Tip \in Frame
      /\ depth \in Nat /\ Len(stack) <= depth
  BY FrontIs, SeedIs DEF StackInv, Tip
<1>2. Len(stack) \in 1..Len(stack)
  BY <1>1
<1> QED
  BY <1>1, <1>2 DEF StackInv, Tip, Top

\* A step that only moves the innermost level on keeps the invariant,
LEMMA StaysInv ==
    ASSUME StackInv, stack # <<>>, NEW f, Goes(f, c'), Stays(f, c'),
           seed' = seed, depth' = depth
    PROVE  StackInv'
<1>1. StackOK(stack', c')
  BY Replaced DEF Goes, Stays
<1> QED
  BY <1>1, NextInv DEF Goes, Stays, StackInv

\* and so does one that prints the board or calls the next level for it.
LEMMA PutsOrCallsInv ==
    ASSUME StackInv, stack # <<>>, NEW f, Goes(f, c'), Called(f),
           PutsOrCallsFor(f, c'), seed' = seed, depth' = depth
    PROVE  StackInv'
<1>1. StackOK(stack', c')
  BY Replaced, Pushed DEF Goes, PutsOrCallsFor
<1>2. printed' \in Seq(Buffers)
  <2>1. printed \in Seq(Buffers) /\ c' \in Buffers
    BY DEF Goes, StackInv
  <2>2. Append(printed, c') \in Seq(Buffers)
    BY <2>1, AppendProperties
  <2> QED
    BY <2>1, <2>2 DEF PutsOrCallsFor
<1> QED
  BY <1>1, <1>2, NextInv DEF Goes

\* One letter is put in a cell: the level has made an edit.
LEMMA EditIs ==
    ASSUME StackInv, Edit
    PROVE  LET f == [Tip EXCEPT !.y = Tip.y + 1]
           IN  /\ stack # <<>> /\ Tip.loop = "edits" /\ ~Tip.undo
               /\ Tip.y \in Alphabet /\ Tip.y # Tip.orig
               /\ c' = [Tip.entry EXCEPT ![Tip.x] = Tip.y]
               /\ Goes(f, c') /\ Called(f) /\ PutsOrCallsFor(f, c')
               /\ seed' = seed /\ depth' = depth
<1> DEFINE f == [Tip EXCEPT !.y = Tip.y + 1]
<1>1. stack # <<>>
  BY DEF Edit, Running
<1>2. /\ Top = Tip /\ Tip \in Frame /\ InLoops(Tip) /\ Sees(Tip, c)
  BY <1>1, TopIs
<1>3. /\ Tip.loop = "edits" /\ ~Tip.undo
      /\ Tip.y \in Alphabet /\ Tip.y # Tip.orig
      /\ c' = [c EXCEPT ![Tip.x] = Tip.y]
      /\ seed' = seed /\ depth' = depth
  BY <1>2 DEF Edit, Running, Alphabet, Alphabet
<1>4. PutsOrCalls(c', [Top EXCEPT !.y = @ + 1])
  BY DEF Edit
<1>5. PutsOrCallsFor(f, c')
  BY <1>2, <1>4 DEF PutsOrCalls, PutsOrCallsFor, ReplaceTop
<1>6. /\ Tip.x \in 1..Len(seed) /\ Tip.y \in Nat \ {0} /\ Tip.entry \in Buffers
      /\ c = [Tip.entry EXCEPT ![Tip.x] = LastTried(Tip.y, Tip.orig)]
      /\ NumLetters \in Nat
  BY <1>2, <1>3, SeedIs DEF Frame, Sees, StackInv
<1>7. c' = [Tip.entry EXCEPT ![Tip.x] = Tip.y] /\ c' \in Buffers
  BY <1>3, <1>6 DEF Buffers
<1>8. /\ f \in Frame /\ f.d = Tip.d /\ f.entry = Tip.entry /\ f.loop = "edits"
      /\ f.x = Tip.x /\ f.y = Tip.y + 1 /\ f.orig = Tip.orig /\ f.orig2 = Tip.orig2
      /\ f.undo = Tip.undo
  BY <1>2, <1>3, <1>6 DEF Frame
<1> HIDE DEF f
<1>9. InLoops(f)
  BY <1>2, <1>3, <1>8 DEF InLoops
<1>10. LastTried(f.y, f.orig) = Tip.y
  <2>1. \A y, o \in Nat \ {0} : y # o => LastTried(y + 1, o) = y
    BY DEF LastTried
  <2>2. Tip.orig \in Nat \ {0}
    BY <1>2, <1>6 DEF Frame, Alphabet
  <2> QED
    BY <1>3, <1>6, <1>8, <2>1, <2>2
<1>11. Sees(f, c')
  BY <1>3, <1>7, <1>8, <1>10 DEF Sees
<1>12. Goes(f, c') /\ Called(f)
  BY <1>7, <1>8, <1>9, <1>11 DEF Goes, Called
<1> QED
  BY <1>1, <1>3, <1>5, <1>7, <1>12 DEF f

\* A letter that is there already is passed over.
LEMMA SkipLetterIs ==
    ASSUME StackInv, SkipLetter
    PROVE  LET f == [Tip EXCEPT !.y = Tip.y + 1]
           IN  /\ stack # <<>> /\ Tip.loop = "edits" /\ ~Tip.undo
               /\ Tip.y \in Alphabet /\ Tip.y = Tip.orig
               /\ Goes(f, c') /\ Stays(f, c') /\ c' = c
               /\ seed' = seed /\ depth' = depth
<1> DEFINE f == [Tip EXCEPT !.y = Tip.y + 1]
<1>1. stack # <<>>
  BY DEF SkipLetter, Running
<1>2. /\ Top = Tip /\ Tip \in Frame /\ InLoops(Tip) /\ Sees(Tip, c)
  BY <1>1, TopIs
<1>3. /\ Tip.loop = "edits" /\ ~Tip.undo
      /\ Tip.y \in Alphabet /\ Tip.y = Tip.orig
      /\ c' = c /\ printed' = printed
      /\ seed' = seed /\ depth' = depth
  BY <1>2 DEF SkipLetter, Running, Alphabet, Alphabet
<1>4. stack' = ReplaceTop([Top EXCEPT !.y = @ + 1])
  BY DEF SkipLetter
<1>5. Stays(f, c')
  BY <1>2, <1>3, <1>4 DEF Stays, ReplaceTop
<1>6. /\ Tip.x \in 1..Len(seed) /\ Tip.y \in Nat \ {0}
      /\ c = [Tip.entry EXCEPT ![Tip.x] = LastTried(Tip.y, Tip.orig)]
      /\ c \in Buffers
  BY <1>2, <1>3 DEF Frame, Sees, StackInv
<1>8. /\ f \in Frame /\ f.d = Tip.d /\ f.entry = Tip.entry /\ f.loop = "edits"
      /\ f.x = Tip.x /\ f.y = Tip.y + 1 /\ f.orig = Tip.orig /\ f.orig2 = Tip.orig2
      /\ f.undo = Tip.undo
  BY <1>2, <1>3, <1>6 DEF Frame
<1> HIDE DEF f
<1>9. InLoops(f)
  BY <1>2, <1>3, <1>8 DEF InLoops
<1>10. LastTried(f.y, f.orig) = LastTried(Tip.y, Tip.orig)
  <2>1. \A y \in Nat \ {0} : LastTried(y + 1, y) = LastTried(y, y)
    BY DEF LastTried
  <2> QED
    BY <1>3, <1>6, <1>8, <2>1
<1>11. Sees(f, c')
  BY <1>3, <1>6, <1>8, <1>10 DEF Sees
<1>12. Goes(f, c')
  BY <1>3, <1>6, <1>8, <1>9, <1>11 DEF Goes
<1> QED
  BY <1>1, <1>3, <1>5, <1>12 DEF f

\* A level at the head of one of its inner loops.
LEMMA HeadIs ==
    ASSUME StackInv, stack # <<>>, NEW x \in 1..Len(seed)
    PROVE  LET b == Tip.entry
               e == EditsFrom(b, Tip.d, b, x)
               s == SwapsFrom(b, Tip.d, b, x)
           IN  /\ Goes(e, b) /\ e.loop = "edits" /\ ~e.undo /\ e.x = x /\ e.y = 1
               /\ Goes(s, b) /\ s.loop = "swaps" /\ ~s.undo /\ s.x = x /\ s.y = x + 1
<1> DEFINE b == Tip.entry
           e == EditsFrom(b, Tip.d, b, x)
           s == SwapsFrom(b, Tip.d, b, x)
<1>1. /\ b \in Buffers /\ Tip.d \in Nat /\ Len(seed) \in Nat
  BY TopIs, SeedIs DEF Frame, StackInv
<1>2. /\ b[x] \in Alphabet /\ b = [b EXCEPT ![x] = b[x]] /\ x \in Nat /\ x + 1 \in Nat \ {0}
      /\ x < x + 1
  BY <1>1 DEF Buffers
<1>3. /\ e = [d |-> Tip.d, entry |-> b, loop |-> "edits", x |-> x, y |-> 1,
              orig |-> b[x], orig2 |-> b[x], undo |-> FALSE]
      /\ s = [d |-> Tip.d, entry |-> b, loop |-> "swaps", x |-> x, y |-> x + 1,
              orig |-> b[x], orig2 |-> b[x], undo |-> FALSE]
  BY DEF EditsFrom, SwapsFrom
<1> HIDE DEF e, s
<1>4. e \in Frame /\ s \in Frame
  BY <1>1, <1>2, <1>3 DEF Frame
<1>5. /\ e.d = Tip.d /\ e.entry = b /\ e.loop = "edits" /\ e.x = x /\ e.y = 1
      /\ e.orig = b[x] /\ e.undo = FALSE
      /\ s.d = Tip.d /\ s.entry = b /\ s.loop = "swaps" /\ s.x = x /\ s.y = x + 1
      /\ s.orig = b[x] /\ s.undo = FALSE
  BY <1>3
<1>6. InLoops(e) /\ InLoops(s)
  BY <1>2, <1>5 DEF InLoops
<1>7. Sees(e, b) /\ Sees(s, b)
  BY <1>2, <1>5 DEF Sees, LastTried
<1> QED
  BY <1>1, <1>4, <1>5, <1>6, <1>7 DEF Goes, e, s

\* After the last letter the cell is put back, and the level goes on.
LEMMA EndCellIs ==
    ASSUME StackInv, EndCell
    PROVE  /\ stack # <<>> /\ Tip.loop = "edits" /\ Tip.y > NumLetters
           /\ c' = Tip.entry /\ seed' = seed /\ depth' = depth
           /\ \E f : /\ Goes(f, c') /\ Stays(f, c')
                     /\ IF Tip.x < Len(seed)
                        THEN f.loop = "edits" /\ f.x = Tip.x + 1 /\ f.y = 1
                        ELSE f.loop = "swaps" /\ f.x = 1 /\ f.y = 2 /\ ~f.undo
<1>1. stack # <<>>
  BY DEF EndCell, Running
<1>2. /\ Top = Tip /\ Tip \in Frame /\ InLoops(Tip) /\ Sees(Tip, c)
  BY <1>1, TopIs
<1>3. /\ Tip.loop = "edits" /\ Tip.y > NumLetters
      /\ c' = [c EXCEPT ![Tip.x] = Tip.orig]
      /\ seed' = seed /\ depth' = depth /\ printed' = printed
  BY <1>2 DEF EndCell, Running
<1>4. stack' = ReplaceTop(IF Tip.x < Len(seed)
                            THEN EditsFrom(Tip.entry, Tip.d, c', Tip.x + 1)
                            ELSE SwapsFrom(Tip.entry, Tip.d, c', 1))
  BY <1>2 DEF EndCell, NumCells
<1>5. /\ Tip.x \in 1..Len(seed) /\ Tip.entry \in Buffers /\ Tip.orig = Tip.entry[Tip.x]
      /\ c = [Tip.entry EXCEPT ![Tip.x] = LastTried(Tip.y, Tip.orig)]
  BY <1>2, <1>3 DEF Frame, Sees, InLoops
<1>6. c' = Tip.entry
  BY <1>3, <1>5 DEF Buffers
<1>7. CASE Tip.x < Len(seed)
  <2>1. Tip.x + 1 \in 1..Len(seed)
    BY <1>5, <1>7
  <2> DEFINE x == Tip.x + 1
             f == EditsFrom(Tip.entry, Tip.d, Tip.entry, x)
  <2>2. Stays(f, c')
    BY <1>3, <1>4, <1>6, <1>7 DEF Stays, ReplaceTop
  <2> HIDE DEF x
  <2>3. Goes(f, c') /\ f.loop = "edits" /\ f.x = x /\ f.y = 1
    BY <1>1, <1>6, <2>1, HeadIs DEF x
  <2> HIDE DEF f
  <2> QED
    BY <1>1, <1>3, <1>6, <1>7, <2>2, <2>3 DEF x
<1>8. CASE ~(Tip.x < Len(seed))
  <2> DEFINE x == 1
             f == SwapsFrom(Tip.entry, Tip.d, Tip.entry, x)
  <2>1. x \in 1..Len(seed)
    BY SeedIs DEF StackInv
  <2>2. Stays(f, c')
    BY <1>3, <1>4, <1>6, <1>8 DEF Stays, ReplaceTop
  <2> HIDE DEF x
  <2>3. Goes(f, c') /\ f.loop = "swaps" /\ f.x = x /\ f.y = x + 1 /\ ~f.undo
    BY <1>1, <1>6, <2>1, HeadIs
  <2> HIDE DEF f
  <2>4. x = 1 /\ x + 1 = 2
    BY DEF x
  <2> QED
    BY <1>1, <1>3, <1>6, <1>8, <2>2, <2>3, <2>4
<1> QED
  BY <1>7, <1>8

\* Two different letters change places, and the level waits to undo it.
LEMMA SwapIs ==
    ASSUME StackInv, SwapCells
    PROVE  LET f == [Tip EXCEPT !.orig2 = c[Tip.y], !.undo = TRUE]
           IN  /\ stack # <<>> /\ Tip.loop = "swaps" /\ ~Tip.undo
               /\ Tip.y \in 1..Len(seed) /\ Tip.x < Tip.y
               /\ Tip.entry[Tip.x] # Tip.entry[Tip.y]
               /\ c' = [Tip.entry EXCEPT ![Tip.x] = Tip.entry[Tip.y],
                                         ![Tip.y] = Tip.entry[Tip.x]]
               /\ Goes(f, c') /\ Called(f) /\ PutsOrCallsFor(f, c')
               /\ seed' = seed /\ depth' = depth
<1> DEFINE f == [Tip EXCEPT !.orig2 = c[Tip.y], !.undo = TRUE]
<1>1. stack # <<>>
  BY DEF SwapCells, Running
<1>2. /\ Top = Tip /\ Tip \in Frame /\ InLoops(Tip) /\ Sees(Tip, c)
  BY <1>1, TopIs
<1>3. DOMAIN seed = 1..Len(seed) /\ Len(seed) \in Nat
  BY SeedIs DEF StackInv
<1>4. /\ Tip.loop = "swaps" /\ ~Tip.undo
      /\ Tip.x \in 1..Len(seed) /\ Tip.y \in 1..Len(seed) /\ c[Tip.y] # Tip.orig
      /\ c' = [c EXCEPT ![Tip.y] = Tip.orig, ![Tip.x] = c[Tip.y]]
      /\ seed' = seed /\ depth' = depth
  BY <1>2, <1>3 DEF SwapCells, Running, Cells
<1>5. PutsOrCalls(c', [Top EXCEPT !.orig2 = c[Top.y], !.undo = TRUE])
  BY DEF SwapCells
<1>6. PutsOrCallsFor(f, c')
  BY <1>2, <1>5 DEF PutsOrCalls, PutsOrCallsFor, ReplaceTop
<1>7. /\ Tip.entry \in Buffers /\ Tip.orig = Tip.entry[Tip.x] /\ Tip.x < Tip.y
      /\ c \in Buffers
      /\ \A k \in 1..Len(seed) : k # Tip.x => c[k] = Tip.entry[k]
  BY <1>2, <1>4 DEF Frame, Sees, InLoops, StackInv
<1>8. Tip.x # Tip.y /\ c[Tip.y] = Tip.entry[Tip.y] /\ c[Tip.y] \in Alphabet
  BY <1>4, <1>7 DEF Buffers
<1>9. /\ c' \in Buffers
      /\ c' = [Tip.entry EXCEPT ![Tip.x] = Tip.entry[Tip.y], ![Tip.y] = Tip.entry[Tip.x]]
  <2> DEFINE g == [Tip.entry EXCEPT ![Tip.x] = Tip.entry[Tip.y],
                                    ![Tip.y] = Tip.entry[Tip.x]]
  <2>1. c' \in Buffers /\ g \in Buffers
    BY <1>4, <1>7, <1>8 DEF Buffers
  <2>2. \A k \in 1..Len(seed) : c'[k] = g[k]
    BY <1>4, <1>7, <1>8 DEF Buffers
  <2> QED
    BY <2>1, <2>2 DEF Buffers
<1>10. /\ f \in Frame /\ f.d = Tip.d /\ f.entry = Tip.entry /\ f.loop = "swaps"
       /\ f.x = Tip.x /\ f.y = Tip.y /\ f.orig = Tip.orig /\ f.orig2 = c[Tip.y]
       /\ f.undo = TRUE
  BY <1>2, <1>4, <1>8 DEF Frame
<1> HIDE DEF f
<1>11. InLoops(f)
  BY <1>4, <1>7, <1>8, <1>10 DEF InLoops
<1>12. Sees(f, c')
  BY <1>7, <1>9, <1>10 DEF Sees
<1>13. Goes(f, c') /\ Called(f)
  BY <1>9, <1>10, <1>11, <1>12 DEF Goes, Called
<1> QED
  BY <1>1, <1>4, <1>6, <1>7, <1>8, <1>9, <1>13 DEF f

\* Equal letters are passed over.
LEMMA SkipEqualIs ==
    ASSUME StackInv, SkipEqual
    PROVE  LET f == [Tip EXCEPT !.y = Tip.y + 1]
           IN  /\ stack # <<>> /\ Tip.loop = "swaps" /\ ~Tip.undo
               /\ Tip.y \in 1..Len(seed) /\ Tip.x < Tip.y
               /\ Tip.entry[Tip.x] = Tip.entry[Tip.y]
               /\ Goes(f, c') /\ Stays(f, c')
               /\ seed' = seed /\ depth' = depth
<1> DEFINE f == [Tip EXCEPT !.y = Tip.y + 1]
<1>1. stack # <<>>
  BY DEF SkipEqual, Running
<1>2. /\ Top = Tip /\ Tip \in Frame /\ InLoops(Tip) /\ Sees(Tip, c)
  BY <1>1, TopIs
<1>3. DOMAIN seed = 1..Len(seed) /\ Len(seed) \in Nat
  BY SeedIs DEF StackInv
<1>4. /\ Tip.loop = "swaps" /\ ~Tip.undo
      /\ Tip.x \in 1..Len(seed) /\ Tip.y \in 1..Len(seed) /\ c[Tip.y] = Tip.orig
      /\ c' = c /\ printed' = printed /\ seed' = seed /\ depth' = depth
  BY <1>2, <1>3 DEF SkipEqual, Running, Cells
<1>5. stack' = ReplaceTop([Top EXCEPT !.y = @ + 1])
  BY DEF SkipEqual
<1>6. Stays(f, c')
  BY <1>2, <1>4, <1>5 DEF Stays, ReplaceTop
<1>7. /\ Tip.orig = Tip.entry[Tip.x] /\ Tip.x < Tip.y /\ c \in Buffers
      /\ \A k \in 1..Len(seed) : k # Tip.x => c[k] = Tip.entry[k]
  BY <1>2, <1>4 DEF Sees, InLoops, StackInv
<1>8. Tip.entry[Tip.x] = Tip.entry[Tip.y]
  BY <1>4, <1>7
<1>9. /\ f \in Frame /\ f.d = Tip.d /\ f.entry = Tip.entry /\ f.loop = "swaps"
      /\ f.x = Tip.x /\ f.y = Tip.y + 1 /\ f.orig = Tip.orig /\ f.undo = FALSE
  BY <1>2, <1>4 DEF Frame
<1> HIDE DEF f
<1>10. InLoops(f)
  BY <1>4, <1>7, <1>9 DEF InLoops
<1>11. Sees(f, c')
  BY <1>4, <1>7, <1>9 DEF Sees
<1>12. Goes(f, c')
  BY <1>4, <1>7, <1>9, <1>10, <1>11 DEF Goes
<1> QED
  BY <1>1, <1>4, <1>6, <1>7, <1>8, <1>12 DEF f

\* The second cell of a swap is put back when the call has returned.
LEMMA UndoSwapIs ==
    ASSUME StackInv, UndoSwap
    PROVE  LET f == [Tip EXCEPT !.y = Tip.y + 1, !.undo = FALSE]
           IN  /\ stack # <<>> /\ Tip.loop = "swaps" /\ Tip.undo
               /\ Tip.y \in 1..Len(seed) /\ Tip.x < Tip.y
               /\ Goes(f, c') /\ Stays(f, c')
               /\ seed' = seed /\ depth' = depth
<1> DEFINE f == [Tip EXCEPT !.y = Tip.y + 1, !.undo = FALSE]
<1>1. stack # <<>>
  BY DEF UndoSwap
<1>2. /\ Top = Tip /\ Tip \in Frame /\ InLoops(Tip) /\ Sees(Tip, c)
  BY <1>1, TopIs
<1>3. /\ Tip.undo /\ c' = [c EXCEPT ![Tip.y] = Tip.orig2] /\ printed' = printed
      /\ seed' = seed /\ depth' = depth
  BY <1>2 DEF UndoSwap
<1>4. stack' = ReplaceTop([Top EXCEPT !.y = @ + 1, !.undo = FALSE])
  BY DEF UndoSwap
<1>5. Stays(f, c')
  BY <1>2, <1>3, <1>4 DEF Stays, ReplaceTop
<1>6. Tip.loop = "swaps"
  BY <1>2, <1>3 DEF Frame, InLoops
<1>7. /\ Tip.orig = Tip.entry[Tip.x] /\ Tip.x < Tip.y /\ c \in Buffers
      /\ Tip.y \in 1..Len(seed) /\ Tip.orig2 = Tip.entry[Tip.y]
      /\ Tip.x \in 1..Len(seed) /\ Tip.entry \in Buffers /\ Tip.orig2 \in Alphabet
      /\ c = [Tip.entry EXCEPT ![Tip.x] = Tip.entry[Tip.y], ![Tip.y] = Tip.orig]
  BY <1>2, <1>3, <1>6 DEF Sees, InLoops, StackInv, Frame
<1>8. c' \in Buffers /\ \A k \in 1..Len(seed) : k # Tip.x => c'[k] = Tip.entry[k]
  BY <1>3, <1>7 DEF Buffers
<1>9. /\ f \in Frame /\ f.d = Tip.d /\ f.entry = Tip.entry /\ f.loop = "swaps"
      /\ f.x = Tip.x /\ f.y = Tip.y + 1 /\ f.orig = Tip.orig /\ f.undo = FALSE
  <2>1. Tip.y + 1 \in Nat \ {0}
    BY <1>7
  <2> DEFINE g == [Tip EXCEPT !.y = Tip.y + 1]
  <2>2. /\ g \in Frame /\ g.d = Tip.d /\ g.entry = Tip.entry /\ g.loop = "swaps"
        /\ g.x = Tip.x /\ g.y = Tip.y + 1 /\ g.orig = Tip.orig
    BY <1>2, <1>6, <2>1 DEF Frame
  <2>3. f = [g EXCEPT !.undo = FALSE]
    BY <1>2 DEF Frame
  <2> HIDE DEF f, g
  <2> QED
    BY <2>2, <2>3 DEF Frame
<1> HIDE DEF f
<1>10. InLoops(f)
  BY <1>7, <1>9 DEF InLoops
<1>11. Sees(f, c')
  BY <1>8, <1>9 DEF Sees
<1>12. Goes(f, c')
  BY <1>8, <1>9, <1>10, <1>11 DEF Goes
<1> QED
  BY <1>1, <1>3, <1>5, <1>6, <1>7, <1>12 DEF f

\* After the last swap of a cell it is put back; after the last cell the level
\* returns, and the buffer is the one that it was called with.
LEMMA EndRowIs ==
    ASSUME StackInv, EndRow
    PROVE  /\ stack # <<>> /\ Tip.loop = "swaps" /\ ~Tip.undo /\ Tip.y > Len(seed)
           /\ c' = Tip.entry /\ seed' = seed /\ depth' = depth /\ printed' = printed
           /\ IF Tip.x < Len(seed)
              THEN \E f : /\ Goes(f, c') /\ Stays(f, c')
                          /\ f.loop = "swaps" /\ f.x = Tip.x + 1 /\ f.y = Tip.x + 2
                          /\ ~f.undo
              ELSE stack' = Front(stack)
<1>1. stack # <<>>
  BY DEF EndRow, Running
<1>2. /\ Top = Tip /\ Tip \in Frame /\ InLoops(Tip) /\ Sees(Tip, c)
  BY <1>1, TopIs
<1>3. /\ Tip.loop = "swaps" /\ ~Tip.undo /\ Tip.y > Len(seed)
      /\ c' = [c EXCEPT ![Tip.x] = Tip.orig]
      /\ seed' = seed /\ depth' = depth /\ printed' = printed
  BY <1>2 DEF EndRow, Running, NumCells
<1>4. stack' = IF Tip.x < Len(seed)
               THEN ReplaceTop(SwapsFrom(Tip.entry, Tip.d, c', Tip.x + 1))
               ELSE Front(stack)
  BY <1>2 DEF EndRow, NumCells
<1>5. /\ Tip.x \in 1..Len(seed) /\ Tip.entry \in Buffers /\ Tip.orig = Tip.entry[Tip.x]
      /\ c \in Buffers
      /\ \A k \in 1..Len(seed) : k # Tip.x => c[k] = Tip.entry[k]
  BY <1>2, <1>3 DEF Frame, Sees, InLoops, StackInv
<1>6. c' = Tip.entry
  <2>1. c' \in Buffers
    BY <1>3, <1>5 DEF Buffers
  <2>2. \A k \in 1..Len(seed) : c'[k] = Tip.entry[k]
    BY <1>3, <1>5 DEF Buffers
  <2> QED
    BY <1>5, <2>1, <2>2 DEF Buffers
<1>7. CASE Tip.x < Len(seed)
  <2>1. Tip.x + 1 \in 1..Len(seed) /\ (Tip.x + 1) + 1 = Tip.x + 2
    BY <1>5, <1>7
  <2> DEFINE x == Tip.x + 1
             f == SwapsFrom(Tip.entry, Tip.d, Tip.entry, x)
  <2>2. Stays(f, c')
    BY <1>3, <1>4, <1>6, <1>7 DEF Stays, ReplaceTop
  <2> HIDE DEF x
  <2>3. Goes(f, c') /\ f.loop = "swaps" /\ f.x = x /\ f.y = x + 1 /\ ~f.undo
    BY <1>1, <1>6, <2>1, HeadIs DEF x
  <2> HIDE DEF f
  <2>4. x = Tip.x + 1 /\ x + 1 = Tip.x + 2
    BY <2>1 DEF x
  <2> QED
    BY <1>1, <1>3, <1>6, <1>7, <2>2, <2>3, <2>4
<1>8. CASE ~(Tip.x < Len(seed))
  BY <1>1, <1>3, <1>4, <1>6, <1>8
<1> QED
  BY <1>7, <1>8

\* main's first call.
LEMMA InitStack == ASSUME BufferInit PROVE StackInv
<1>1. /\ seed \in Seeds /\ depth \in Depths /\ c = seed /\ stack = <<Call(seed, depth)>>
      /\ printed = <<>>
  BY DEF BufferInit
<1>2. /\ seed \in Buffers /\ 1 \in 1..Len(seed) /\ depth \in Nat \ {0}
  BY <1>1, SeedIs
<1> DEFINE f == Call(seed, depth)
<1>3. f = [d |-> depth, entry |-> seed, loop |-> "edits", x |-> 1, y |-> 1,
           orig |-> seed[1], orig2 |-> seed[1], undo |-> FALSE]
  BY DEF Call, EditsFrom
<1> HIDE DEF f
<1>4. seed[1] \in Alphabet /\ seed = [seed EXCEPT ![1] = seed[1]]
  BY <1>2 DEF Buffers
<1>5. f \in Frame
  BY <1>2, <1>3, <1>4 DEF Frame
<1>6. InLoops(f)
  BY <1>3 DEF InLoops
<1>7. Sees(f, seed)
  BY <1>3, <1>4 DEF Sees, LastTried
<1>8. /\ stack \in Seq(Frame) /\ Len(stack) = 1 /\ stack[1] = f /\ stack # <<>>
      /\ 1..1 = {1} /\ depth - 1 + 1 = depth
  BY <1>1, <1>2, <1>5 DEF f
<1>9. f.d = depth /\ f.entry = seed
  BY <1>3
<1>10. printed \in Seq(Buffers)
  BY <1>1
<1> QED
  BY <1>1, <1>2, <1>6, <1>7, <1>8, <1>9, <1>10 DEF StackInv

\* Every step of the loops keeps the invariant.
LEMMA StackStep == ASSUME StackInv, [BufferNext]_bufferVars PROVE StackInv'
<1>1. CASE Edit
  <2> DEFINE f == [Tip EXCEPT !.y = Tip.y + 1]
  <2>1. /\ stack # <<>> /\ Goes(f, c') /\ Called(f) /\ PutsOrCallsFor(f, c')
        /\ seed' = seed /\ depth' = depth
    BY <1>1, EditIs
  <2> HIDE DEF f
  <2> QED
    BY <2>1, PutsOrCallsInv
<1>2. CASE SkipLetter
  <2> DEFINE f == [Tip EXCEPT !.y = Tip.y + 1]
  <2>1. /\ stack # <<>> /\ Goes(f, c') /\ Stays(f, c') /\ seed' = seed /\ depth' = depth
    BY <1>2, SkipLetterIs
  <2> HIDE DEF f
  <2> QED
    BY <2>1, StaysInv
<1>3. CASE EndCell
  BY <1>3, EndCellIs, StaysInv
<1>4. CASE SwapCells
  <2> DEFINE f == [Tip EXCEPT !.orig2 = c[Tip.y], !.undo = TRUE]
  <2>1. /\ stack # <<>> /\ Goes(f, c') /\ Called(f) /\ PutsOrCallsFor(f, c')
        /\ seed' = seed /\ depth' = depth
    BY <1>4, SwapIs
  <2> HIDE DEF f
  <2> QED
    BY <2>1, PutsOrCallsInv
<1>5. CASE SkipEqual
  <2> DEFINE f == [Tip EXCEPT !.y = Tip.y + 1]
  <2>1. /\ stack # <<>> /\ Goes(f, c') /\ Stays(f, c') /\ seed' = seed /\ depth' = depth
    BY <1>5, SkipEqualIs
  <2> HIDE DEF f
  <2> QED
    BY <2>1, StaysInv
<1>6. CASE UndoSwap
  <2> DEFINE f == [Tip EXCEPT !.y = Tip.y + 1, !.undo = FALSE]
  <2>1. /\ stack # <<>> /\ Goes(f, c') /\ Stays(f, c') /\ seed' = seed /\ depth' = depth
    BY <1>6, UndoSwapIs
  <2> HIDE DEF f
  <2> QED
    BY <2>1, StaysInv
<1>7. CASE EndRow
  <2>1. /\ stack # <<>> /\ c' = Tip.entry /\ seed' = seed /\ depth' = depth
        /\ printed' = printed
    BY <1>7, EndRowIs
  <2>2. CASE Tip.x < Len(seed)
    <3>1. PICK f : Goes(f, c') /\ Stays(f, c')
      BY <1>7, <2>2, EndRowIs
    <3> QED
      BY <2>1, <3>1, StaysInv
  <2>3. CASE ~(Tip.x < Len(seed))
    <3>1. stack' = Front(stack)
      BY <1>7, <2>3, EndRowIs
    <3>2. StackOK(stack', c')
      BY <2>1, <3>1, Popped
    <3>3. c' \in Buffers /\ printed' \in Seq(Buffers)
      BY <2>1, TopIs DEF Frame, StackInv
    <3> QED
      BY <2>1, <3>2, <3>3, NextInv
  <2> QED
    BY <2>2, <2>3
<1>8. CASE UNCHANGED bufferVars
  <2>1. /\ seed' = seed /\ depth' = depth /\ c' = c /\ stack' = stack
        /\ printed' = printed
    BY <1>8 DEF bufferVars
  <2>2. StackOK(stack, c) /\ c \in Buffers /\ printed \in Seq(Buffers)
    BY DEF StackInv, StackOK
  <2> QED
    BY <2>1, <2>2, NextInv
<1> QED
  BY <1>1, <1>2, <1>3, <1>4, <1>5, <1>6, <1>7, <1>8 DEF BufferNext

\* The greatest of the letters before letter y, but for o.
LEMMA LastIs ==
    ASSUME NEW f \in Frame
    PROVE  LastLetter(f) = LastTried(f.y, f.orig)
<1> DEFINE y == f.y
           o == f.orig
           S == (1..(y - 1)) \ {o}
           m == LastTried(y, o)
<1>1. y \in Nat \ {0} /\ o \in Nat \ {0}
  BY DEF Frame, Alphabet
<1>2. LastLetter(f) = IF S = {} THEN o ELSE Max(S)
  BY DEF LastLetter
<1> HIDE DEF y, o
<1>3. CASE y = 1 \/ (y = 2 /\ o = 1)
  <2>1. S = {}
    BY <1>1, <1>3
  <2>2. m = o
    BY <1>3 DEF LastTried
  <2> HIDE DEF S, m
  <2> QED
    BY <1>2, <2>1, <2>2 DEF m, y, o
<1>4. CASE ~(y = 1 \/ (y = 2 /\ o = 1))
  <2>1. m \in S /\ \A k \in S : m >= k /\ (k >= m => k = m)
    BY <1>1, <1>4 DEF LastTried
  <2>2. Max(S) = m
    <3> HIDE DEF S, m
    <3>1. Max(S) = CHOOSE x \in S : \A z \in S : x >= z
      BY DEF Max
    <3> DEFINE x == CHOOSE x \in S : \A z \in S : x >= z
    <3>2. x \in S /\ \A z \in S : x >= z
      BY <2>1
    <3> QED
      BY <2>1, <3>1, <3>2
  <2> HIDE DEF S, m
  <2> QED
    BY <1>2, <2>1, <2>2 DEF m, y, o
<1> QED
  BY <1>3, <1>4

\* Between all levels and the buffer nothing is out of place.
LEMMA StackMeans == ASSUME StackInv PROVE RestoresBoard
<1>1. /\ seed \in Buffers /\ Len(seed) \in Nat \ {0} /\ DOMAIN seed = 1..Len(seed)
      /\ depth \in Nat /\ TheBoards = Buffers /\ Cells = 1..Len(seed)
  BY SeedIs DEF StackInv, TheBoards, Cells, Alphabet, Buffers, Alphabet
<1>2. /\ DOMAIN stack = 1..Len(stack) /\ Len(stack) \in Nat
      /\ \A i \in 1..Len(stack) : stack[i] \in Frame
  <2>1. stack \in Seq(Frame)
    BY DEF StackInv
  <2> QED
    BY <2>1, LenProperties
<1>3. BufferTypeOK
  <2>1. ASSUME NEW i \in DOMAIN stack
        PROVE  /\ stack[i].d = depth - i + 1
               /\ stack[i].entry \in Buffers
               /\ stack[i].loop \in {"edits", "swaps"} /\ stack[i].undo \in BOOLEAN
               /\ stack[i].x \in 1..Len(seed) /\ stack[i].y \in Nat
               /\ stack[i].orig \in Alphabet /\ stack[i].orig2 \in Alphabet
    BY <1>2 DEF StackInv, Frame
  <2> QED
    BY <1>1, <2>1 DEF StackInv, BufferTypeOK, Alphabet, Alphabet
<1>4. ASSUME NEW i \in DOMAIN stack
      PROVE  IF stack[i].loop = "edits" \/ stack[i].undo
             THEN Below(i) = MadeOf(stack[i])
             ELSE \A k \in Cells \ {stack[i].x} : Below(i)[k] = stack[i].entry[k]
  <2> DEFINE f == stack[i]
             b == Below(i)
  <2>1. f \in Frame /\ InLoops(f) /\ i \in 1..Len(stack)
    BY <1>2 DEF StackInv
  <2>2. Sees(f, b)
    <3>1. CASE i < Len(stack)
      BY <2>1, <3>1 DEF Below, StackInv
    <3>2. CASE ~(i < Len(stack))
      <4>1. i = Len(stack) /\ stack # <<>>
        BY <1>2, <2>1, <3>2
      <4> QED
        BY <3>2, <4>1 DEF Below, StackInv
    <3> QED
      BY <3>1, <3>2
  <2> HIDE DEF f, b
  <2>3. CASE f.loop = "edits"
    <3>1. MadeOf(f) = [f.entry EXCEPT ![f.x] = LastTried(f.y, f.orig)]
      BY <2>1, <2>3, LastIs DEF MadeOf
    <3> QED
      BY <2>2, <2>3, <3>1 DEF Sees, f, b
  <2>4. CASE f.loop = "swaps" /\ f.undo
    <3>1. MadeOf(f) = [f.entry EXCEPT ![f.x] = f.entry[f.y], ![f.y] = f.orig]
      BY <2>4 DEF MadeOf
    <3> QED
      BY <2>2, <2>4, <3>1 DEF Sees, f, b
  <2>5. CASE f.loop = "swaps" /\ ~f.undo
    <3>1. \A k \in Cells \ {f.x} : b[k] = f.entry[k]
      BY <1>1, <2>2, <2>5 DEF Sees
    <3> QED
      BY <2>5, <3>1 DEF f, b
  <2> QED
    BY <2>1, <2>3, <2>4, <2>5 DEF Frame
<1>5. stack = <<>> => c = seed
  BY DEF StackInv
<1> QED
  BY <1>3, <1>4, <1>5 DEF RestoresBoard

\* The invariant holds from main's call to the end.
LEMMA StackAlways == BufferSpec => []StackInv
<1>1. BufferInit => StackInv
  BY InitStack
<1>2. StackInv /\ [BufferNext]_bufferVars => StackInv'
  BY StackStep
<1> QED
  BY <1>1, <1>2, PTL DEF BufferSpec

\* EditDistance "leaves the board unaltered upon returning" (neighbors.cc:24), at
\* every level, for every board, alphabet and depth.
THEOREM BufferIsRestored == BufferSpec => []RestoresBoard
<1>1. StackInv => RestoresBoard
  BY StackMeans
<1>2. BufferSpec => []StackInv
  BY StackAlways
<1> QED
  BY <1>1, <1>2, PTL

-----------------------------------------------------------------------------
(* What is printed. *)

\* Board m is board a with another letter in cell k, or with the different
\* letters of cells k and j changed about.
EditOf(a, m, k) ==
    /\ k \in 1..Len(seed) /\ m[k] # a[k]
    /\ \A i \in 1..Len(seed) : i # k => m[i] = a[i]
SwapOf(a, m, k, j) ==
    /\ k \in 1..Len(seed) /\ j \in 1..Len(seed) /\ k < j
    /\ a[k] # a[j] /\ m[k] = a[j] /\ m[j] = a[k]
    /\ \A i \in 1..Len(seed) : i # k /\ i # j => m[i] = a[i]
Near(a, m) == (\E k \in 1..Len(seed) : EditOf(a, m, k))
              \/ \E k, j \in 1..Len(seed) : SwapOf(a, m, k, j)

\* q such changes, one after the other, make z of a.
IsWalk(w, q, a, z) ==
    /\ w \in [0..q -> Buffers] /\ w[0] = a /\ w[q] = z
    /\ \A i \in 1..q : Near(w[i - 1], w[i])
Walk(q, a, z) == \E w : IsWalk(w, q, a, z)

\* What a level has still to make of its board.
Ahead(f, m) ==
    \/ /\ f.loop = "edits"
       /\ \E k \in 1..Len(seed) :
             EditOf(f.entry, m, k) /\ (k > f.x \/ (k = f.x /\ m[k] >= f.y))
    \/ \E k, j \in 1..Len(seed) :
          /\ SwapOf(f.entry, m, k, j)
          /\ f.loop = "swaps" => \/ k > f.x
                                 \/ k = f.x /\ j > f.y
                                 \/ k = f.x /\ j = f.y /\ ~f.undo

\* The boards that the levels of s will still print, the lower ones by calls.
ToCome(s, z) ==
    \E i \in 1..Len(s) : \E m \in Buffers : Ahead(s[i], m) /\ Walk(depth - i, m, z)

\* Printed or still to come are the boards that depth changes make of the seed.
ReachOK(s, p) ==
    \A z \in Buffers : z \in ToSet(p) \/ ToCome(s, z) <=> Walk(depth, seed, z)
ReachInv == ReachOK(stack, printed)

\* A step keeps the boards if the stack and the boards printed after it do.
LEMMA NextReach ==
    ASSUME seed' = seed, depth' = depth, ReachOK(stack', printed')
    PROVE  ReachInv'
<1>1. Buffers' = Buffers
  BY DEF Buffers
<1>2. ASSUME NEW a, NEW m, NEW k, NEW j
      PROVE  (EditOf(a, m, k)' <=> EditOf(a, m, k))
             /\ (SwapOf(a, m, k, j)' <=> SwapOf(a, m, k, j))
  BY DEF EditOf, SwapOf
<1>3. ASSUME NEW a, NEW m PROVE Near(a, m)' <=> Near(a, m)
  BY <1>2 DEF Near
<1>4. ASSUME NEW w, NEW q, NEW a, NEW z PROVE IsWalk(w, q, a, z)' <=> IsWalk(w, q, a, z)
  BY <1>1, <1>3 DEF IsWalk
<1>5. ASSUME NEW q, NEW a, NEW z PROVE Walk(q, a, z)' <=> Walk(q, a, z)
  BY <1>4 DEF Walk
<1>6. ASSUME NEW f, NEW m PROVE Ahead(f, m)' <=> Ahead(f, m)
  BY <1>2 DEF Ahead
<1> DEFINE s == stack'
           p == printed'
<1>7. ASSUME NEW z \in Buffers PROVE ToCome(stack, z)' <=> ToCome(s, z)
  BY <1>1, <1>5, <1>6 DEF ToCome
<1>8. ASSUME NEW z \in Buffers
      PROVE  (z \in ToSet(printed) \/ ToCome(stack, z) <=> Walk(depth, seed, z))'
  <2>1. z \in ToSet(p) \/ ToCome(s, z) <=> Walk(depth, seed, z)
    BY DEF ReachOK
  <2>2. Walk(depth, seed, z)' <=> Walk(depth, seed, z)
    BY <1>5
  <2> QED
    BY <1>7, <2>1, <2>2
<1> QED
  BY <1>1, <1>8 DEF ReachInv, ReachOK

\* No change at all, and one.
LEMMA NoWalk == ASSUME NEW a \in Buffers, NEW z \in Buffers PROVE Walk(0, a, z) <=> a = z
<1>1. ASSUME a = z PROVE Walk(0, a, z)
  <2> DEFINE w == [i \in 0..0 |-> a]
  <2>1. IsWalk(w, 0, a, z)
    BY <1>1 DEF IsWalk
  <2> QED
    BY <2>1 DEF Walk
<1>2. ASSUME Walk(0, a, z) PROVE a = z
  BY <1>2 DEF Walk, IsWalk
<1> QED
  BY <1>1, <1>2

\* One more change at the end.
LEMMA WalkLast ==
    ASSUME NEW q \in Nat, NEW a \in Buffers, NEW z \in Buffers
    PROVE  Walk(q + 1, a, z) <=> \E m \in Buffers : Walk(q, a, m) /\ Near(m, z)
<1> DEFINE k == q + 1
<1>1. /\ k \in Nat /\ k \in 1..k /\ k - 1 = q /\ q \in 0..k /\ 0 \in 0..q /\ q \in 0..q
      /\ \A i \in 0..k : i \in 0..q \/ i = k
      /\ \A i \in 1..q : i \in 1..k /\ i - 1 \in 0..q /\ i \in 0..q /\ i # k /\ i - 1 # k
      /\ \A i \in 0..q : i \in 0..k /\ i # k
      /\ \A i \in 1..k : i \in 1..q \/ i = k
  OBVIOUS
<1> HIDE DEF k
<1>2. ASSUME Walk(k, a, z) PROVE \E m \in Buffers : Walk(q, a, m) /\ Near(m, z)
  <2>1. PICK w : IsWalk(w, k, a, z)
    BY <1>2 DEF Walk
  <2> DEFINE v == [i \in 0..q |-> w[i]]
  <2>2. /\ w \in [0..k -> Buffers] /\ w[0] = a /\ w[k] = z
        /\ \A i \in 1..k : Near(w[i - 1], w[i])
    BY <2>1 DEF IsWalk
  <2>3. v \in [0..q -> Buffers] /\ v[0] = a /\ v[q] = w[q]
    BY <1>1, <2>2
  <2>4. ASSUME NEW i \in 1..q PROVE Near(v[i - 1], v[i])
    BY <1>1, <2>2
  <2>5. IsWalk(v, q, a, w[q])
    BY <2>3, <2>4 DEF IsWalk
  <2>6. w[q] \in Buffers /\ Near(w[q], z)
    BY <1>1, <2>2
  <2> HIDE DEF v
  <2> QED
    BY <2>5, <2>6 DEF Walk
<1>3. ASSUME NEW m \in Buffers, Walk(q, a, m), Near(m, z) PROVE Walk(k, a, z)
  <2>1. PICK v : IsWalk(v, q, a, m)
    BY <1>3 DEF Walk
  <2> DEFINE w == [i \in 0..k |-> IF i = k THEN z ELSE v[i]]
  <2>2. /\ v \in [0..q -> Buffers] /\ v[0] = a /\ v[q] = m
        /\ \A i \in 1..q : Near(v[i - 1], v[i])
    BY <2>1 DEF IsWalk
  <2>3. w \in [0..k -> Buffers] /\ w[0] = a /\ w[k] = z
    BY <1>1, <2>2
  <2>4. ASSUME NEW i \in 1..k PROVE Near(w[i - 1], w[i])
    <3>1. CASE i \in 1..q
      <4>1. w[i - 1] = v[i - 1] /\ w[i] = v[i]
        BY <1>1, <3>1
      <4> QED
        BY <2>2, <3>1, <4>1
    <3>2. CASE i = k
      <4>1. w[i - 1] = m /\ w[i] = z
        BY <1>1, <2>2, <3>2
      <4> QED
        BY <1>3, <4>1
    <3> QED
      BY <1>1, <3>1, <3>2
  <2>5. IsWalk(w, k, a, z)
    BY <2>3, <2>4 DEF IsWalk
  <2> HIDE DEF w
  <2> QED
    BY <2>5 DEF Walk
<1>4. Walk(k, a, z) <=> \E m \in Buffers : Walk(q, a, m) /\ Near(m, z)
  BY <1>2, <1>3
<1> QED
  BY <1>4 DEF k

\* One more change at the beginning.
LEMMA WalkFirst ==
    ASSUME NEW q \in Nat, NEW a \in Buffers, NEW z \in Buffers
    PROVE  Walk(q + 1, a, z) <=> \E m \in Buffers : Near(a, m) /\ Walk(q, m, z)
<1> DEFINE k == q + 1
<1>1. /\ k \in Nat /\ 1 \in 1..k /\ 1 - 1 = 0 /\ 1 \in 0..k /\ 0 \in 0..k /\ 0 \in 0..q
      /\ q \in 0..q /\ k \in 0..k /\ k # 0 /\ k - 1 = q
      /\ \A i \in 0..q : i + 1 \in 0..k /\ i + 1 # 0 /\ (i + 1) - 1 = i
      /\ \A i \in 1..q : i + 1 \in 1..k /\ i - 1 \in 0..q /\ i \in 0..q
                         /\ (i + 1) - 1 = (i - 1) + 1
      /\ \A i \in 0..k : i = 0 \/ i - 1 \in 0..q
      /\ \A i \in 1..k : i # 0 /\ i \in 0..k /\ i - 1 \in 0..k
                         /\ (i = 1 \/ (i - 1 \in 1..q /\ i - 1 # 0))
  OBVIOUS
<1> HIDE DEF k
<1>2. ASSUME Walk(k, a, z) PROVE \E m \in Buffers : Near(a, m) /\ Walk(q, m, z)
  <2>1. PICK w : IsWalk(w, k, a, z)
    BY <1>2 DEF Walk
  <2> DEFINE v == [i \in 0..q |-> w[i + 1]]
             m == w[1]
  <2>2. /\ w \in [0..k -> Buffers] /\ w[0] = a /\ w[k] = z
        /\ \A i \in 1..k : Near(w[i - 1], w[i])
    BY <2>1 DEF IsWalk
  <2>3. v \in [0..q -> Buffers] /\ v[0] = m /\ v[q] = z
    <3>1. q + 1 = k /\ 0 + 1 = 1
      BY DEF k
    <3> QED
      BY <1>1, <2>2, <3>1
  <2>4. ASSUME NEW i \in 1..q PROVE Near(v[i - 1], v[i])
    <3>1. v[i - 1] = w[(i - 1) + 1] /\ v[i] = w[i + 1]
      BY <1>1
    <3>2. Near(w[(i + 1) - 1], w[i + 1])
      BY <1>1, <2>2
    <3>3. (i + 1) - 1 = (i - 1) + 1
      OBVIOUS
    <3> QED
      BY <3>1, <3>2, <3>3
  <2>5. IsWalk(v, q, m, z)
    BY <2>3, <2>4 DEF IsWalk
  <2>6. m \in Buffers /\ Near(a, m)
    BY <1>1, <2>2
  <2> HIDE DEF v, m
  <2> QED
    BY <2>5, <2>6 DEF Walk
<1>3. ASSUME NEW m \in Buffers, Near(a, m), Walk(q, m, z) PROVE Walk(k, a, z)
  <2>1. PICK v : IsWalk(v, q, m, z)
    BY <1>3 DEF Walk
  <2> DEFINE w == [i \in 0..k |-> IF i = 0 THEN a ELSE v[i - 1]]
  <2>2. /\ v \in [0..q -> Buffers] /\ v[0] = m /\ v[q] = z
        /\ \A i \in 1..q : Near(v[i - 1], v[i])
    BY <2>1 DEF IsWalk
  <2>3. w \in [0..k -> Buffers] /\ w[0] = a /\ w[k] = z
    BY <1>1, <2>2
  <2>4. ASSUME NEW i \in 1..k PROVE Near(w[i - 1], w[i])
    <3>1. CASE i = 1
      <4>1. w[i - 1] = a /\ w[i] = m
        BY <1>1, <2>2, <3>1
      <4> QED
        BY <1>3, <4>1
    <3>2. CASE i # 1
      <4>1. i - 1 \in 1..q /\ w[i] = v[i - 1] /\ w[i - 1] = v[(i - 1) - 1]
        BY <1>1, <3>2
      <4> QED
        BY <2>2, <4>1
    <3> QED
      BY <3>1, <3>2
  <2>5. IsWalk(w, k, a, z)
    BY <2>3, <2>4 DEF IsWalk
  <2> HIDE DEF w
  <2> QED
    BY <2>5 DEF Walk
<1>4. Walk(k, a, z) <=> \E m \in Buffers : Near(a, m) /\ Walk(q, m, z)
  BY <1>2, <1>3
<1> QED
  BY <1>4 DEF k

-----------------------------------------------------------------------------
\* One level more: its boards are added.
LEMMA ToComeMore ==
    ASSUME StackInv, NEW s \in Seq(Frame), NEW f \in Frame,
           NEW q \in Nat, q = Len(s) + 1, NEW z \in Buffers
    PROVE  ToCome(Append(s, f), z) <=>
               \/ ToCome(s, z)
               \/ \E m \in Buffers : Ahead(f, m) /\ Walk(depth - q, m, z)
<1> DEFINE a == Append(s, f)
<1>1. /\ Len(s) \in Nat /\ Len(a) = q
      /\ \A i \in 1..Len(s) : a[i] = s[i]
      /\ a[q] = f
  BY AppendProperties, LenProperties
<1>2. 1..q = 1..Len(s) \cup {q}
  BY <1>1
<1> HIDE DEF a
<1>3. ToCome(a, z) <=> \E i \in 1..Len(s) \cup {q} : \E m \in Buffers :
                          Ahead(a[i], m) /\ Walk(depth - i, m, z)
  BY <1>1, <1>2 DEF ToCome
<1>4. ToCome(s, z) <=> \E i \in 1..Len(s) : \E m \in Buffers :
                          Ahead(a[i], m) /\ Walk(depth - i, m, z)
  BY <1>1 DEF ToCome
<1>5. ToCome(a, z) <=> \/ ToCome(s, z)
                       \/ \E m \in Buffers : Ahead(f, m) /\ Walk(depth - q, m, z)
  BY <1>1, <1>3, <1>4
<1> QED
  BY <1>5 DEF a

\* The stack is its lower levels and the innermost.
LEMMA ToComeTop ==
    ASSUME StackInv, stack # <<>>, NEW z \in Buffers
    PROVE  /\ Front(stack) \in Seq(Frame) /\ Len(stack) \in Nat \ {0}
           /\ Len(stack) = Len(Front(stack)) + 1
           /\ depth - Len(stack) \in Nat /\ Tip.d = depth - Len(stack) + 1
           /\ ToCome(stack, z) <=>
                 \/ ToCome(Front(stack), z)
                 \/ \E m \in Buffers : Ahead(Tip, m) /\ Walk(depth - Len(stack), m, z)
<1> DEFINE e == Front(stack)
           q == Len(stack)
<1>1. /\ e \in Seq(Frame) /\ q \in Nat \ {0} /\ Len(e) = q - 1
      /\ \A i \in 1..(q - 1) : e[i] = stack[i]
      /\ stack \in Seq(Frame)
  BY FrontIs DEF StackInv
<1>2. Tip \in Frame /\ Tip.d = depth - q + 1 /\ depth \in Nat /\ q <= depth
  BY TopIs, SeedIs DEF StackInv
<1>3. q = Len(e) + 1 /\ Len(e) \in Nat /\ depth - q \in Nat
  BY <1>1, <1>2
<1> HIDE DEF e
<1> DEFINE a == Append(e, Tip)
<1>4. a = stack
  <2>1. /\ a \in Seq(Frame) /\ Len(a) = q
        /\ \A i \in 1..(q - 1) : a[i] = e[i]
        /\ a[q] = Tip
    BY <1>1, <1>2, <1>3, AppendProperties
  <2> HIDE DEF a
  <2>2. \A i \in 1..q : a[i] = stack[i]
    BY <1>1, <2>1 DEF Tip
  <2> QED
    BY <1>1, <2>1, <2>2, SeqEqual
<1>5. ToCome(a, z) <=> \/ ToCome(e, z)
                       \/ \E m \in Buffers : Ahead(Tip, m) /\ Walk(depth - q, m, z)
  BY <1>1, <1>2, <1>3, ToComeMore
<1> QED
  BY <1>1, <1>2, <1>3, <1>4, <1>5 DEF e

\* A step that prints nothing and leaves as much to be made.
LEMMA StaysReach ==
    ASSUME StackInv, ReachInv, stack # <<>>, NEW f, NEW b,
           Goes(f, b), Stays(f, b), seed' = seed, depth' = depth,
           \A m \in Buffers : Ahead(f, m) <=> Ahead(Tip, m)
    PROVE  ReachInv'
<1>1. ASSUME NEW z \in Buffers PROVE ToCome(stack', z) <=> ToCome(stack, z)
  <2> DEFINE e == Front(stack)
             q == Len(stack)
  <2>1. /\ e \in Seq(Frame) /\ q \in Nat /\ q = Len(e) + 1
        /\ ToCome(stack, z) <=>
              \/ ToCome(e, z)
              \/ \E m \in Buffers : Ahead(Tip, m) /\ Walk(depth - q, m, z)
    BY ToComeTop
  <2>2. f \in Frame /\ stack' = Append(e, f)
    BY DEF Goes, Stays
  <2> HIDE DEF e, q
  <2>3. ToCome(Append(e, f), z) <=>
              \/ ToCome(e, z)
              \/ \E m \in Buffers : Ahead(f, m) /\ Walk(depth - q, m, z)
    BY <2>1, <2>2, ToComeMore
  <2> QED
    BY <2>1, <2>2, <2>3
<1>2. ReachOK(stack', printed')
  BY <1>1 DEF ReachInv, ReachOK, Stays
<1> QED
  BY <1>2, NextReach

\* A level that is called has all there is still to make.
LEMMA AheadOfCall ==
    ASSUME StackInv, NEW b \in Buffers, NEW d \in Nat,
           NEW m \in Buffers
    PROVE  Ahead(Call(b, d), m) <=> Near(b, m)
<1> DEFINE f == Call(b, d)
<1>1. f.entry = b /\ f.loop = "edits" /\ f.x = 1 /\ f.y = 1
  BY CallIs
<1>2. \A k \in 1..Len(seed) : m[k] >= 1 /\ (k > 1 \/ k = 1)
  <2>1. Len(seed) \in Nat /\ NumLetters \in Nat
    BY SeedIs DEF StackInv
  <2>2. \A k \in 1..Len(seed) : m[k] \in 1..NumLetters
    BY DEF Buffers, Alphabet
  <2> QED
    BY <2>1, <2>2
<1> HIDE DEF f
<1>3. Ahead(f, m) <=> Near(b, m)
  BY <1>1, <1>2 DEF Ahead, Near
<1> QED
  BY <1>3 DEF f

\* A step that makes board b, which is printed or handed to the next level.
LEMMA PutsReach ==
    ASSUME StackInv, ReachInv, stack # <<>>, NEW f, NEW b,
           Goes(f, b), PutsOrCallsFor(f, b), seed' = seed, depth' = depth,
           \A m \in Buffers : Ahead(Tip, m) <=> Ahead(f, m) \/ m = b
    PROVE  ReachInv'
<1> DEFINE e == Front(stack)
           q == Len(stack)
           s == Append(e, f)
<1>1. f \in Frame /\ b \in Buffers
  BY DEF Goes
<1>2. ASSUME NEW z \in Buffers
      PROVE  /\ e \in Seq(Frame) /\ q \in Nat \ {0} /\ q = Len(e) + 1
             /\ Tip.d = depth - q + 1
             /\ depth - q \in Nat
             /\ ToCome(stack, z) <=> ToCome(s, z) \/ Walk(depth - q, b, z)
  <2>1. /\ e \in Seq(Frame) /\ q \in Nat \ {0} /\ q = Len(e) + 1
        /\ depth - q \in Nat /\ Tip.d = depth - q + 1
        /\ ToCome(stack, z) <=>
              \/ ToCome(e, z)
              \/ \E m \in Buffers : Ahead(Tip, m) /\ Walk(depth - q, m, z)
    BY ToComeTop
  <2> HIDE DEF e, q
  <2>2. ToCome(s, z) <=> \/ ToCome(e, z)
                         \/ \E m \in Buffers : Ahead(f, m) /\ Walk(depth - q, m, z)
    BY <1>1, <2>1, ToComeMore
  <2> HIDE DEF s
  <2> QED
    BY <1>1, <2>1, <2>2
<1>3. PICK z0 \in Buffers : z0 = b
  BY <1>1
<1>4. /\ e \in Seq(Frame) /\ q \in Nat \ {0} /\ q = Len(e) + 1 /\ Tip.d = depth - q + 1
      /\ depth - q \in Nat
  BY <1>2, <1>3
<1>5. CASE Tip.d = 1
  <2>1. printed' = Append(printed, b) /\ stack' = s /\ depth - q = 0
    BY <1>4, <1>5 DEF PutsOrCallsFor
  <2>2. ToSet(printed') = ToSet(printed) \cup {b}
    BY <1>1, <2>1, ToSetAppend DEF StackInv
  <2>3. ASSUME NEW z \in Buffers
        PROVE  z \in ToSet(printed') \/ ToCome(stack', z) <=> Walk(depth, seed, z)
    <3>1. Walk(depth - q, b, z) <=> z = b
      BY <1>1, <2>1, NoWalk
    <3>2. z \in ToSet(printed) \/ ToCome(stack, z) <=> Walk(depth, seed, z)
      BY DEF ReachInv, ReachOK
    <3>3. ToCome(stack, z) <=> ToCome(s, z) \/ Walk(depth - q, b, z)
      BY <1>2
    <3> HIDE DEF s, q
    <3> QED
      BY <2>1, <2>2, <3>1, <3>2, <3>3
  <2>4. ReachOK(stack', printed')
    BY <2>3 DEF ReachOK
  <2> QED
    BY <2>4, NextReach
<1>6. CASE Tip.d # 1
  <2> DEFINE g == Call(b, Tip.d - 1)
             m1 == q + 1
  <2>1. /\ printed' = printed /\ stack' = Append(s, g) /\ depth - q # 0
        /\ Tip.d - 1 \in Nat
    BY <1>4, <1>6 DEF PutsOrCallsFor
  <2>2. s \in Seq(Frame) /\ Len(s) = q
    <3> HIDE DEF e
    <3> QED
      BY <1>1, <1>4, AppendProperties
  <2>3. g \in Frame
    BY <1>1, <2>1, CallIs
  <2>4. /\ m1 \in Nat /\ m1 = Len(s) + 1 /\ depth - m1 \in Nat
        /\ depth - q = (depth - m1) + 1
    <3>1. depth \in Nat
      BY SeedIs DEF StackInv
    <3> HIDE DEF s
    <3> QED
      BY <1>4, <2>1, <2>2, <3>1
  <2>5. ASSUME NEW z \in Buffers
        PROVE  z \in ToSet(printed') \/ ToCome(stack', z) <=> Walk(depth, seed, z)
    <3>1. ToCome(stack, z) <=> ToCome(s, z) \/ Walk(depth - q, b, z)
      BY <1>2
    <3>2. z \in ToSet(printed) \/ ToCome(stack, z) <=> Walk(depth, seed, z)
      BY DEF ReachInv, ReachOK
    <3>3. \A m \in Buffers : Ahead(g, m) <=> Near(b, m)
      BY <1>1, <2>1, AheadOfCall
    <3> DEFINE r == depth - m1
    <3>4. r \in Nat /\ depth - q = r + 1
      BY <2>4
    <3> HIDE DEF s, g, m1, r
    <3>5. ToCome(Append(s, g), z) <=>
              \/ ToCome(s, z)
              \/ \E m \in Buffers : Ahead(g, m) /\ Walk(depth - m1, m, z)
      BY <2>2, <2>3, <2>4, ToComeMore
    <3>6. Walk(r + 1, b, z) <=> \E m \in Buffers : Near(b, m) /\ Walk(r, m, z)
      BY <1>1, <3>4, WalkFirst
    <3>7. ToCome(Append(s, g), z) <=> ToCome(s, z) \/ Walk(depth - q, b, z)
      BY <3>3, <3>4, <3>5, <3>6 DEF r
    <3> QED
      BY <2>1, <3>1, <3>2, <3>7
  <2>6. ReachOK(stack', printed')
    BY <2>5 DEF ReachOK
  <2> QED
    BY <2>6, NextReach
<1> QED
  BY <1>5, <1>6

\* A level that has nothing more to make returns.
LEMMA PopReach ==
    ASSUME StackInv, ReachInv, stack # <<>>,
           stack' = Front(stack), printed' = printed, seed' = seed, depth' = depth,
           \A m \in Buffers : ~Ahead(Tip, m)
    PROVE  ReachInv'
<1>1. ASSUME NEW z \in Buffers PROVE ToCome(stack', z) <=> ToCome(stack, z)
  BY ToComeTop
<1>2. ReachOK(stack', printed')
  BY <1>1 DEF ReachInv, ReachOK
<1> QED
  BY <1>2, NextReach

-----------------------------------------------------------------------------
\* Main's first call has everything to make.
LEMMA InitReach == ASSUME BufferInit PROVE ReachInv
<1>1. /\ stack = <<Call(seed, depth)>> /\ printed = <<>> /\ StackInv
  BY InitStack DEF BufferInit
<1>2. seed \in Buffers /\ depth \in Nat \ {0}
  BY <1>1, SeedIs DEF StackInv
<1> DEFINE f == Call(seed, depth)
<1>3. \A m \in Buffers : Ahead(f, m) <=> Near(seed, m)
  BY <1>1, <1>2, AheadOfCall
<1>4. Len(stack) = 1 /\ stack[1] = f /\ 1..1 = {1}
  BY <1>1
<1> HIDE DEF f
<1>5. ASSUME NEW z \in Buffers PROVE ToCome(stack, z) <=> Walk(depth, seed, z)
  <2> DEFINE r == depth - 1
  <2>1. r \in Nat /\ r + 1 = depth
    BY <1>2
  <2> HIDE DEF r
  <2>2. Walk(r + 1, seed, z) <=> \E m \in Buffers : Near(seed, m) /\ Walk(r, m, z)
    BY <1>2, <2>1, WalkFirst
  <2>3. ToCome(stack, z) <=> \E m \in Buffers : Ahead(f, m) /\ Walk(r, m, z)
    BY <1>4 DEF ToCome, r
  <2> QED
    BY <1>3, <2>1, <2>2, <2>3
<1>6. ToSet(printed) = {}
  BY <1>1 DEF ToSet
<1> QED
  BY <1>5, <1>6 DEF ReachInv, ReachOK

\* Each step moves boards from what is to come to what is printed, or neither.
LEMMA EditReach == ASSUME StackInv, ReachInv, Edit PROVE ReachInv'
<1> DEFINE f == [Tip EXCEPT !.y = Tip.y + 1]
           b == c'
<1>1. /\ stack # <<>> /\ Tip.loop = "edits" /\ Tip.y \in Alphabet /\ Tip.y # Tip.orig
      /\ b = [Tip.entry EXCEPT ![Tip.x] = Tip.y]
      /\ Goes(f, b) /\ PutsOrCallsFor(f, b) /\ seed' = seed /\ depth' = depth
  BY EditIs
<1>2. /\ Tip \in Frame /\ Tip.entry \in Buffers /\ Tip.x \in 1..Len(seed)
      /\ Tip.orig = Tip.entry[Tip.x] /\ b \in Buffers
  BY <1>1, TopIs DEF Frame, InLoops, Goes
<1>3. /\ f.entry = Tip.entry /\ f.loop = "edits" /\ f.x = Tip.x /\ f.y = Tip.y + 1
  BY <1>1, <1>2 DEF Frame
<1> HIDE DEF f, b
<1>4. ASSUME NEW m \in Buffers PROVE Ahead(Tip, m) <=> Ahead(f, m) \/ m = b
  <2>1. ASSUME NEW k \in 1..Len(seed), EditOf(Tip.entry, m, k)
        PROVE  (k > Tip.x \/ (k = Tip.x /\ m[k] >= Tip.y)) <=>
                   \/ (k > Tip.x \/ (k = Tip.x /\ m[k] >= Tip.y + 1))
                   \/ m = b
    <3>1. m[k] \in Nat /\ Tip.y \in Nat /\ k \in Nat /\ Tip.x \in Nat
      <4>1. Len(seed) \in Nat /\ NumLetters \in Nat
        BY SeedIs DEF StackInv
      <4> QED
        BY <1>1, <1>2, <4>1 DEF Buffers, Alphabet
    <3>2. k = Tip.x /\ m[k] = Tip.y => m = b
      <4>1. ASSUME k = Tip.x, m[k] = Tip.y, NEW i \in 1..Len(seed) PROVE m[i] = b[i]
        BY <1>1, <1>2, <2>1, <4>1 DEF EditOf, Buffers
      <4> QED
        BY <1>2, <4>1 DEF Buffers
    <3>3. m = b => k = Tip.x /\ m[k] = Tip.y
      <4>1. m[k] # Tip.entry[k]
        BY <2>1 DEF EditOf
      <4>2. /\ k # Tip.x => b[k] = Tip.entry[k]
            /\ k = Tip.x => b[k] = Tip.y
        BY <1>1, <1>2 DEF Buffers
      <4> QED
        BY <4>1, <4>2
    <3> QED
      BY <3>1, <3>2, <3>3
  <2>2. m = b => EditOf(Tip.entry, m, Tip.x)
    BY <1>1, <1>2 DEF EditOf, Buffers
  <2> QED
    BY <1>1, <1>2, <1>3, <2>1, <2>2 DEF Ahead
<1> QED
  BY <1>1, <1>4, PutsReach

\* The letter that is skipped would have made no change.
LEMMA SkipLetterReach ==
    ASSUME StackInv, ReachInv, SkipLetter PROVE ReachInv'
<1> DEFINE f == [Tip EXCEPT !.y = Tip.y + 1]
           b == c'
<1>1. /\ stack # <<>> /\ Tip.loop = "edits" /\ Tip.y \in Alphabet /\ Tip.y = Tip.orig
      /\ Goes(f, b) /\ Stays(f, b) /\ seed' = seed /\ depth' = depth
  BY SkipLetterIs
<1>2. /\ Tip \in Frame /\ Tip.entry \in Buffers /\ Tip.x \in 1..Len(seed)
      /\ Tip.orig = Tip.entry[Tip.x]
  BY <1>1, TopIs DEF Frame, InLoops
<1>3. /\ f.entry = Tip.entry /\ f.loop = "edits" /\ f.x = Tip.x /\ f.y = Tip.y + 1
  BY <1>1, <1>2 DEF Frame
<1> HIDE DEF f, b
<1>4. ASSUME NEW m \in Buffers PROVE Ahead(f, m) <=> Ahead(Tip, m)
  <2>1. ASSUME NEW k \in 1..Len(seed), EditOf(Tip.entry, m, k)
        PROVE  (k > Tip.x \/ (k = Tip.x /\ m[k] >= Tip.y)) <=>
                   (k > Tip.x \/ (k = Tip.x /\ m[k] >= Tip.y + 1))
    <3>1. m[k] \in Nat /\ Tip.y \in Nat
      BY <1>1, <1>2 DEF Buffers, Alphabet
    <3>2. k = Tip.x => m[k] # Tip.y
      BY <1>1, <1>2, <2>1 DEF EditOf
    <3> QED
      BY <3>1, <3>2
  <2> QED
    BY <1>1, <1>3, <2>1 DEF Ahead
<1> QED
  BY <1>1, <1>4, StaysReach

\* After a cell come the edits of the next one, or after the last the swaps.
LEMMA EndCellReach ==
    ASSUME StackInv, ReachInv, EndCell PROVE ReachInv'
<1> DEFINE b == c'
<1>1. /\ stack # <<>> /\ Tip.loop = "edits" /\ Tip.y > NumLetters
      /\ seed' = seed /\ depth' = depth
  BY EndCellIs
<1>2. PICK f : /\ Goes(f, b) /\ Stays(f, b)
               /\ IF Tip.x < Len(seed)
                  THEN f.loop = "edits" /\ f.x = Tip.x + 1 /\ f.y = 1
                  ELSE f.loop = "swaps" /\ f.x = 1 /\ f.y = 2 /\ ~f.undo
  BY EndCellIs
<1>3. /\ Tip.x \in 1..Len(seed) /\ f.entry = Tip.entry /\ Tip.y \in Nat
      /\ Len(seed) \in Nat /\ NumLetters \in Nat
  BY <1>1, <1>2, TopIs, SeedIs DEF Frame, Goes, StackInv
<1> HIDE DEF b
<1>4. ASSUME NEW m \in Buffers PROVE Ahead(f, m) <=> Ahead(Tip, m)
  <2>1. \A k \in 1..Len(seed) : m[k] \in 1..NumLetters
    BY DEF Buffers, Alphabet
  <2>2. \A k \in 1..Len(seed) : ~(m[k] >= Tip.y)
    BY <1>1, <1>3, <2>1
  <2>3. CASE Tip.x < Len(seed)
    <3>1. \A k \in 1..Len(seed) :
             (k > Tip.x \/ (k = Tip.x /\ m[k] >= Tip.y)) <=>
                 (k > Tip.x + 1 \/ (k = Tip.x + 1 /\ m[k] >= 1))
      BY <1>3, <2>1, <2>2
    <3> QED
      BY <1>1, <1>2, <1>3, <2>3, <3>1 DEF Ahead
  <2>4. CASE ~(Tip.x < Len(seed))
    <3>1. \A k \in 1..Len(seed) : ~(k > Tip.x \/ (k = Tip.x /\ m[k] >= Tip.y))
      BY <1>3, <2>2, <2>4
    <3>2. \A k, j \in 1..Len(seed) : k < j =>
             k > 1 \/ (k = 1 /\ j > 2) \/ (k = 1 /\ j = 2)
      BY <1>3
    <3>3. Ahead(Tip, m) <=> \E k, j \in 1..Len(seed) : SwapOf(Tip.entry, m, k, j)
      BY <1>1, <3>1 DEF Ahead
    <3>4. Ahead(f, m) <=> \E k, j \in 1..Len(seed) : SwapOf(Tip.entry, m, k, j)
      BY <1>2, <1>3, <2>4, <3>2 DEF Ahead, SwapOf
    <3> QED
      BY <3>3, <3>4
  <2> QED
    BY <2>3, <2>4
<1> QED
  BY <1>1, <1>2, <1>4, StaysReach

\* A swap makes one board of those ahead.
LEMMA SwapReach == ASSUME StackInv, ReachInv, SwapCells PROVE ReachInv'
<1> DEFINE f == [Tip EXCEPT !.orig2 = c[Tip.y], !.undo = TRUE]
           b == c'
<1>1. /\ stack # <<>> /\ Tip.loop = "swaps" /\ ~Tip.undo
      /\ Tip.y \in 1..Len(seed) /\ Tip.x < Tip.y
      /\ Tip.entry[Tip.x] # Tip.entry[Tip.y]
      /\ b = [Tip.entry EXCEPT ![Tip.x] = Tip.entry[Tip.y], ![Tip.y] = Tip.entry[Tip.x]]
      /\ Goes(f, b) /\ PutsOrCallsFor(f, b) /\ seed' = seed /\ depth' = depth
  BY SwapIs
<1>2. /\ Tip \in Frame /\ Tip.entry \in Buffers /\ Tip.x \in 1..Len(seed) /\ b \in Buffers
  BY <1>1, TopIs DEF Frame, Goes
<1>3. /\ f.entry = Tip.entry /\ f.loop = "swaps" /\ f.x = Tip.x /\ f.y = Tip.y
      /\ f.undo = TRUE
  BY <1>1, <1>2 DEF Frame
<1> HIDE DEF f, b
<1>4. ASSUME NEW m \in Buffers PROVE Ahead(Tip, m) <=> Ahead(f, m) \/ m = b
  <2>1. m = b <=> SwapOf(Tip.entry, m, Tip.x, Tip.y)
    <3>1. m = b => SwapOf(Tip.entry, m, Tip.x, Tip.y)
      BY <1>1, <1>2 DEF SwapOf, Buffers
    <3>2. ASSUME SwapOf(Tip.entry, m, Tip.x, Tip.y) PROVE m = b
      <4>1. ASSUME NEW i \in 1..Len(seed) PROVE m[i] = b[i]
        BY <1>1, <1>2, <3>2 DEF SwapOf, Buffers
      <4> QED
        BY <1>2, <4>1 DEF Buffers
    <3> QED
      BY <3>1, <3>2
  <2>2. Ahead(Tip, m) <=> \E k, j \in 1..Len(seed) :
                             /\ SwapOf(Tip.entry, m, k, j)
                             /\ \/ k > Tip.x
                                \/ k = Tip.x /\ j > Tip.y
                                \/ k = Tip.x /\ j = Tip.y
    BY <1>1 DEF Ahead
  <2>3. Ahead(f, m) <=> \E k, j \in 1..Len(seed) :
                             /\ SwapOf(Tip.entry, m, k, j)
                             /\ \/ k > Tip.x
                                \/ k = Tip.x /\ j > Tip.y
    BY <1>3 DEF Ahead
  <2> QED
    BY <1>1, <1>2, <2>1, <2>2, <2>3
<1> QED
  BY <1>1, <1>4, PutsReach

\* Two equal letters that are skipped would have made no change.
LEMMA SkipEqualReach ==
    ASSUME StackInv, ReachInv, SkipEqual PROVE ReachInv'
<1> DEFINE f == [Tip EXCEPT !.y = Tip.y + 1]
           b == c'
<1>1. /\ stack # <<>> /\ Tip.loop = "swaps" /\ ~Tip.undo
      /\ Tip.y \in 1..Len(seed) /\ Tip.entry[Tip.x] = Tip.entry[Tip.y]
      /\ Goes(f, b) /\ Stays(f, b) /\ seed' = seed /\ depth' = depth
  BY SkipEqualIs
<1>2. Tip \in Frame
  BY <1>1, TopIs
<1>3. /\ f.entry = Tip.entry /\ f.loop = "swaps" /\ f.x = Tip.x /\ f.y = Tip.y + 1
      /\ ~f.undo
  BY <1>1, <1>2 DEF Frame
<1> HIDE DEF f, b
<1>4. ASSUME NEW m \in Buffers PROVE Ahead(f, m) <=> Ahead(Tip, m)
  <2>1. ASSUME NEW k \in 1..Len(seed), NEW j \in 1..Len(seed), SwapOf(Tip.entry, m, k, j)
        PROVE  (\/ k > Tip.x
                \/ k = Tip.x /\ j > Tip.y
                \/ k = Tip.x /\ j = Tip.y) <=>
               (\/ k > Tip.x
                \/ k = Tip.x /\ j > Tip.y + 1
                \/ k = Tip.x /\ j = Tip.y + 1)
    <3>1. ~(k = Tip.x /\ j = Tip.y)
      BY <1>1, <2>1 DEF SwapOf
    <3>2. j \in Nat /\ Tip.y \in Nat
      BY <1>1
    <3>3. j > Tip.y <=> (j > Tip.y + 1 \/ j = Tip.y + 1)
      BY <3>2
    <3> QED
      BY <3>1, <3>3
  <2> QED
    BY <1>1, <1>3, <2>1 DEF Ahead
<1> QED
  BY <1>1, <1>4, StaysReach

\* Once a swap is undone it is not ahead any more,
LEMMA UndoSwapReach ==
    ASSUME StackInv, ReachInv, UndoSwap PROVE ReachInv'
<1> DEFINE f == [Tip EXCEPT !.y = Tip.y + 1, !.undo = FALSE]
           b == c'
<1>1. /\ stack # <<>> /\ Tip.loop = "swaps" /\ Tip.undo /\ Tip.y \in 1..Len(seed)
      /\ Goes(f, b) /\ Stays(f, b) /\ seed' = seed /\ depth' = depth
  BY UndoSwapIs
<1>2. Tip \in Frame
  BY <1>1, TopIs
<1>3. /\ f.entry = Tip.entry /\ f.loop = "swaps" /\ f.x = Tip.x /\ f.y = Tip.y + 1
      /\ ~f.undo
  BY <1>1, <1>2 DEF Frame
<1> HIDE DEF f, b
<1>4. ASSUME NEW m \in Buffers PROVE Ahead(f, m) <=> Ahead(Tip, m)
  <2>1. \A j \in 1..Len(seed) : j > Tip.y <=> (j > Tip.y + 1 \/ j = Tip.y + 1)
    BY <1>1
  <2> QED
    BY <1>1, <1>3, <2>1 DEF Ahead
<1> QED
  BY <1>1, <1>4, StaysReach

\* and past the last cell2 the swaps of the next cell1 are, or none.
LEMMA EndRowReach ==
    ASSUME StackInv, ReachInv, EndRow PROVE ReachInv'
<1> DEFINE b == c'
<1>1. /\ stack # <<>> /\ Tip.loop = "swaps" /\ ~Tip.undo /\ Tip.y > Len(seed)
      /\ seed' = seed /\ depth' = depth /\ printed' = printed
  BY EndRowIs
<1>2. /\ Tip.x \in 1..Len(seed) /\ Len(seed) \in Nat /\ Tip.y \in Nat
  BY <1>1, TopIs, SeedIs DEF Frame, StackInv
<1>3. \A k, j \in 1..Len(seed) :
         (\/ k > Tip.x
          \/ k = Tip.x /\ j > Tip.y
          \/ k = Tip.x /\ j = Tip.y) <=> k > Tip.x
  BY <1>1, <1>2
<1>4. ASSUME NEW m \in Buffers
      PROVE  Ahead(Tip, m) <=> \E k, j \in 1..Len(seed) :
                                  SwapOf(Tip.entry, m, k, j) /\ k > Tip.x
  BY <1>1, <1>3 DEF Ahead
<1>5. CASE Tip.x < Len(seed)
  <2>1. PICK f : /\ Goes(f, b) /\ Stays(f, b)
                 /\ f.loop = "swaps" /\ f.x = Tip.x + 1 /\ f.y = Tip.x + 2 /\ ~f.undo
    BY <1>5, EndRowIs
  <2>2. f.entry = Tip.entry
    BY <2>1 DEF Goes
  <2> HIDE DEF b
  <2>3. ASSUME NEW m \in Buffers PROVE Ahead(f, m) <=> Ahead(Tip, m)
    <3>1. \A k, j \in 1..Len(seed) : k < j =>
             ((\/ k > Tip.x + 1
               \/ k = Tip.x + 1 /\ j > Tip.x + 2
               \/ k = Tip.x + 1 /\ j = Tip.x + 2) <=> k > Tip.x)
      BY <1>2
    <3>2. Ahead(f, m) <=> \E k, j \in 1..Len(seed) :
                             SwapOf(Tip.entry, m, k, j) /\ k > Tip.x
      BY <2>1, <2>2, <3>1 DEF Ahead, SwapOf
    <3> QED
      BY <1>4, <3>2
  <2> QED
    BY <1>1, <2>1, <2>3, StaysReach
<1>6. CASE ~(Tip.x < Len(seed))
  <2>1. stack' = Front(stack)
    BY <1>6, EndRowIs
  <2>2. \A k \in 1..Len(seed) : ~(k > Tip.x)
    BY <1>2, <1>6
  <2> QED
    BY <1>1, <1>4, <2>1, <2>2, PopReach
<1> QED
  BY <1>5, <1>6

\* No board is lost on the way, and none comes from elsewhere.
LEMMA ReachStep ==
    ASSUME StackInv, ReachInv, [BufferNext]_bufferVars PROVE ReachInv'
<1>1. CASE UNCHANGED bufferVars
  <2>1. seed' = seed /\ depth' = depth /\ stack' = stack /\ printed' = printed
    BY <1>1 DEF bufferVars
  <2> QED
    BY <2>1, NextReach DEF ReachInv
<1> QED
  BY <1>1, EditReach, SkipLetterReach, EndCellReach, SwapReach, SkipEqualReach,
     UndoSwapReach, EndRowReach DEF BufferNext

-----------------------------------------------------------------------------
(* The distance. *)

\* A change is what NextTo says: one letter, or two that change places.
LEMMA NearIs ==
    ASSUME StackInv, NEW a \in Buffers, NEW b \in Buffers
    PROVE  NextTo(a, b) <=> Near(a, b)
<1> DEFINE I == 1..Len(seed)
           D == {k \in I : a[k] # b[k]}
<1>1. Cells = I /\ Len(seed) \in Nat
  BY SeedIs DEF StackInv, Cells
<1>2. NextTo(a, b) <=> \/ Cardinality(D) = 1
                         \/ \E k, m \in D : /\ k # m /\ D = {k, m}
                                            /\ a[k] = b[m] /\ a[m] = b[k]
  BY <1>1 DEF NextTo
<1>3. IsFiniteSet(D)
  <2>1. IsFiniteSet(1..Len(seed))
    BY <1>1, FS_Interval
  <2>2. D \subseteq 1..Len(seed)
    OBVIOUS
  <2> HIDE DEF D
  <2> QED
    BY <2>1, <2>2, FS_Subset
<1>4. Cardinality(D) = 1 <=> \E k : D = {k}
  <2> HIDE DEF D
  <2> QED
    BY <1>3, FS_Singleton
<1>5. (\E k : D = {k}) <=> \E k \in I : EditOf(a, b, k)
  <2>1. ASSUME NEW k, D = {k} PROVE k \in I /\ EditOf(a, b, k)
    <3>1. k \in D
      BY <2>1
    <3>2. \A i \in I : i # k => i \notin D
      BY <2>1
    <3> QED
      BY <3>1, <3>2 DEF EditOf
  <2>2. ASSUME NEW k \in I, EditOf(a, b, k) PROVE D = {k}
    BY <2>2 DEF EditOf
  <2> QED
    BY <2>1, <2>2
<1>6. (\E k, m \in D : k # m /\ D = {k, m} /\ a[k] = b[m] /\ a[m] = b[k])
        <=> \E k, j \in I : SwapOf(a, b, k, j)
  <2>1. ASSUME NEW k \in D, NEW m \in D, k # m, D = {k, m}, a[k] = b[m], a[m] = b[k]
        PROVE  \E i, j \in I : SwapOf(a, b, i, j)
    <3>1. k \in I /\ m \in I /\ a[k] # a[m] /\ (k < m \/ m < k)
      BY <1>1, <2>1
    <3>2. \A i \in I : i # k /\ i # m => b[i] = a[i]
      BY <2>1
    <3>3. k < m => SwapOf(a, b, k, m)
      BY <2>1, <3>1, <3>2 DEF SwapOf
    <3>4. m < k => SwapOf(a, b, m, k)
      BY <2>1, <3>1, <3>2 DEF SwapOf
    <3> HIDE DEF D
    <3> QED
      BY <3>1, <3>3, <3>4
  <2>2. ASSUME NEW k \in I, NEW j \in I, SwapOf(a, b, k, j)
        PROVE  k \in D /\ j \in D /\ k # j /\ D = {k, j} /\ a[k] = b[j] /\ a[j] = b[k]
    BY <1>1, <2>2 DEF SwapOf
  <2> HIDE DEF D
  <2> QED
    BY <2>1, <2>2
<1> HIDE DEF D, I
<1> QED
  BY <1>2, <1>4, <1>5, <1>6 DEF Near, I

\* With three letters each change can be made of two.
LEMMA Between ==
    ASSUME StackInv, NumLetters >= 3,
           NEW a \in Buffers, NEW b \in Buffers, Near(a, b)
    PROVE  \E p \in Buffers : Near(a, p) /\ Near(p, b)
<1> DEFINE I == 1..Len(seed)
<1>1. NumLetters \in Nat /\ Len(seed) \in Nat
  BY SeedIs DEF StackInv
<1>2. ASSUME NEW k \in I, EditOf(a, b, k)
      PROVE  \E p \in Buffers : Near(a, p) /\ Near(p, b)
  <2>1. PICK e \in Alphabet : e # a[k] /\ e # b[k]
    <3>1. 1 \in Alphabet /\ 2 \in Alphabet /\ 3 \in Alphabet
      BY <1>1 DEF Alphabet
    <3> QED
      BY <3>1
  <2> DEFINE p == [a EXCEPT ![k] = e]
  <2>2. p \in Buffers /\ p[k] = e /\ \A i \in I : i # k => p[i] = a[i]
    BY DEF Buffers
  <2> HIDE DEF p
  <2>3. EditOf(a, p, k) /\ EditOf(p, b, k)
    BY <1>2, <2>1, <2>2 DEF EditOf
  <2> QED
    BY <2>2, <2>3 DEF Near
<1>3. ASSUME NEW k \in I, NEW j \in I, SwapOf(a, b, k, j)
      PROVE  \E p \in Buffers : Near(a, p) /\ Near(p, b)
  <2> DEFINE p == [a EXCEPT ![k] = a[j]]
  <2>1. k # j
    BY <1>1, <1>3 DEF SwapOf
  <2>2. p \in Buffers /\ p[k] = a[j] /\ \A i \in I : i # k => p[i] = a[i]
    BY DEF Buffers
  <2> HIDE DEF p
  <2>3. EditOf(a, p, k) /\ EditOf(p, b, j)
    BY <1>3, <2>1, <2>2 DEF EditOf, SwapOf
  <2> QED
    BY <2>2, <2>3 DEF Near
<1> QED
  BY <1>2, <1>3 DEF Near

\* What q changes make, one more makes too.
LEMMA OneMore ==
    ASSUME StackInv, NumLetters >= 3,
           NEW q \in Nat \ {0}, NEW a \in Buffers, NEW z \in Buffers, Walk(q, a, z)
    PROVE  Walk(q + 1, a, z)
<1> DEFINE k == q - 1
<1>1. k \in Nat /\ k + 1 = q
  OBVIOUS
<1> HIDE DEF k
<1>2. PICK m \in Buffers : Walk(k, a, m) /\ Near(m, z)
  BY <1>1, WalkLast
<1>3. PICK p \in Buffers : Near(m, p) /\ Near(p, z)
  BY <1>2, Between
<1>4. Walk(q, a, p)
  BY <1>1, <1>2, <1>3, WalkLast
<1> QED
  BY <1>3, <1>4, WalkLast

\* One change is a walk.
LEMMA NearWalk ==
    ASSUME NEW a \in Buffers, NEW z \in Buffers PROVE Walk(1, a, z) <=> Near(a, z)
<1> DEFINE q == 0
<1>1. Walk(q + 1, a, z) <=> \E m \in Buffers : Walk(q, a, m) /\ Near(m, z)
  <2> HIDE DEF q
  <2>1. q \in Nat
    BY DEF q
  <2> QED
    BY <2>1, WalkLast
<1>2. q + 1 = 1 /\ \A m \in Buffers : Walk(q, a, m) <=> a = m
  BY NoWalk
<1> HIDE DEF q
<1> QED
  BY <1>1, <1>2

\* What some changes make, any greater number makes.
LEMMA MoreWalks ==
    ASSUME StackInv, NumLetters >= 3, NEW q \in Nat \ {0},
           NEW m \in Nat, q <= m, NEW a \in Buffers, NEW z \in Buffers, Walk(q, a, z)
    PROVE  Walk(m, a, z)
<1> DEFINE N0 == m - q
           T == {i \in 0..N0 : Walk(q + i, a, z)}
<1>1. N0 \in Nat /\ q + N0 = m /\ q + 0 = q /\ 0 \in 0..N0 /\ N0 \in 0..N0
  OBVIOUS
<1>2. 0 \in T
  BY <1>1
<1>3. ASSUME NEW j \in 1..N0, j - 1 \in T PROVE j \in T
  <2> DEFINE k == q + (j - 1)
  <2>1. k \in Nat \ {0} /\ k + 1 = q + j /\ j \in 0..N0 /\ Walk(k, a, z)
    BY <1>3
  <2> HIDE DEF k
  <2>2. Walk(k + 1, a, z)
    BY <2>1, OneMore
  <2> QED
    BY <2>1, <2>2
<1> HIDE DEF T
<1>4. \A j \in 0..N0 : j \in T
  BY <1>1, <1>2, <1>3, StepsUp
<1>5. N0 \in T
  BY <1>1, <1>4
<1> QED
  BY <1>1, <1>5 DEF T

\* The seed itself is made again by two changes.
LEMMA ThereAndBack ==
    ASSUME StackInv, NumLetters >= 3
    PROVE  Walk(2, seed, seed) /\ ~Near(seed, seed)
<1>1. seed \in Buffers /\ 1 \in 1..Len(seed) /\ NumLetters \in Nat
  BY SeedIs DEF StackInv
<1>2. ~Near(seed, seed)
  BY DEF Near, EditOf, SwapOf
<1>3. PICK e \in Alphabet : e # seed[1]
  <2>1. 1 \in Alphabet /\ 2 \in Alphabet
    BY <1>1 DEF Alphabet
  <2> QED
    BY <2>1
<1> DEFINE p == [seed EXCEPT ![1] = e]
<1>4. p \in Buffers /\ p[1] = e /\ \A i \in 1..Len(seed) : i # 1 => p[i] = seed[i]
  BY <1>1 DEF Buffers
<1> HIDE DEF p
<1>5. EditOf(seed, p, 1) /\ EditOf(p, seed, 1)
  BY <1>1, <1>3, <1>4 DEF EditOf
<1>6. Near(seed, p) /\ Near(p, seed)
  BY <1>1, <1>5 DEF Near
<1> DEFINE q == 1
<1>7. q + 1 = 2 /\ q \in Nat /\ Walk(q, seed, p)
  BY <1>1, <1>4, <1>6, NearWalk
<1> HIDE DEF q
<1>8. Walk(q + 1, seed, seed)
  BY <1>1, <1>4, <1>6, <1>7, WalkLast
<1> QED
  BY <1>2, <1>7, <1>8

\* The boards within q changes: the seed, and what exactly q of them make.
InReach(q) == {seed} \cup {z \in Buffers : Walk(q, seed, z)}
OneFurther(S) == S \cup {b \in Buffers : \E a \in S : NextTo(a, b)}

\* What is in reach by one more change is in reach already or next to it.
LEMMA FurtherIs ==
    ASSUME StackInv, NumLetters >= 3, NEW q \in Nat
    PROVE  InReach(q + 1) = OneFurther(InReach(q))
<1> DEFINE k == q + 1
<1>1. seed \in Buffers /\ k \in Nat /\ 1 <= k /\ k = q + 1
  BY SeedIs DEF StackInv
<1> HIDE DEF k
<1>2. ASSUME NEW z \in Buffers
      PROVE  Walk(k, seed, z) <=> \E m \in Buffers : Walk(q, seed, m) /\ Near(m, z)
  BY <1>1, WalkLast
<1>3. ASSUME NEW z \in Buffers, Near(seed, z) PROVE Walk(k, seed, z)
  <2> DEFINE o == 1
  <2>1. Walk(o, seed, z) /\ o \in Nat \ {0} /\ o <= k
    BY <1>1, <1>3, NearWalk
  <2> HIDE DEF o
  <2> QED
    BY <1>1, <2>1, MoreWalks
<1>4. ASSUME NEW z \in Buffers, Walk(q, seed, z) PROVE z = seed \/ Walk(k, seed, z)
  <2>1. CASE q = 0
    BY <1>1, <1>4, <2>1, NoWalk
  <2>2. CASE q # 0
    BY <1>1, <1>4, <2>2, OneMore
  <2> QED
    BY <2>1, <2>2
<1>5. ASSUME NEW z \in Buffers
      PROVE  z \in OneFurther(InReach(q)) <=>
                 \/ z = seed \/ Walk(q, seed, z) \/ Near(seed, z)
                 \/ \E m \in Buffers : Walk(q, seed, m) /\ Near(m, z)
  <2>1. \A a \in Buffers : NextTo(a, z) <=> Near(a, z)
    BY NearIs
  <2> QED
    BY <1>1, <2>1 DEF OneFurther, InReach
<1>6. ASSUME NEW z \in Buffers PROVE z \in OneFurther(InReach(q)) <=> z \in InReach(k)
  BY <1>1, <1>2, <1>3, <1>4, <1>5 DEF InReach
<1>7. OneFurther(InReach(q)) \subseteq Buffers /\ InReach(k) \subseteq Buffers
  BY <1>1 DEF OneFurther, InReach
<1> QED
  BY <1>1, <1>6, <1>7

\* Within is that set.
LEMMA WithinIs ==
    ASSUME StackInv, NumLetters >= 3, NEW N0 \in Nat
    PROVE  Within[N0] = InReach(N0)
<1> DEFINE Step(f, d) == IF d = 0 THEN {seed} ELSE OneFurther(f[d - 1])
           Eq(f) == f = [d \in Nat |-> Step(f, d)]
           g == [d \in Nat |-> InReach(d)]
<1>0. seed \in Buffers /\ TheBoards = Buffers
  BY SeedIs DEF StackInv, TheBoards, Cells, Alphabet, Buffers, Alphabet
<1>1. InReach(0) = {seed}
  BY <1>0, NoWalk DEF InReach
<1>2. ASSUME NEW d \in Nat PROVE g[d] = Step(g, d)
  <2>1. CASE d = 0
    BY <1>1, <2>1
  <2>2. CASE d # 0
    <3> DEFINE e == d - 1
    <3>1. e \in Nat /\ e + 1 = d
      BY <2>2
    <3> HIDE DEF e
    <3>2. InReach(e + 1) = OneFurther(InReach(e))
      BY <3>1, FurtherIs
    <3>3. g[d] = InReach(d) /\ g[e] = InReach(e)
      BY <3>1
    <3> HIDE DEF g
    <3> QED
      BY <2>2, <3>1, <3>2, <3>3 DEF e
  <2> QED
    BY <2>1, <2>2
<1>3. Eq(g)
  <2>1. \A d \in Nat : g[d] = Step(g, d)
    BY <1>2
  <2> DEFINE h == [d \in Nat |-> Step(g, d)]
  <2>2. \A d \in Nat : h[d] = Step(g, d)
    OBVIOUS
  <2>3. DOMAIN h = Nat /\ h = [d \in Nat |-> h[d]] /\ g = [d \in Nat |-> g[d]]
    OBVIOUS
  <2> HIDE DEF Step, h, g
  <2>4. g = h
    BY <2>1, <2>2, <2>3
  <2> QED
    BY <2>4 DEF h
<1>4. Within = CHOOSE f : Eq(f)
  BY <1>0 DEF Within, OneFurther
<1>5. Eq(Within)
  BY <1>3, <1>4
<1> DEFINE W == Within
<1>6. \A d \in Nat : W[d] = Step(W, d)
  BY <1>5
<1> HIDE DEF W
<1> DEFINE T == {d \in 0..N0 : W[d] = InReach(d)}
<1>7. 0 \in T
  <2>1. 0 \in 0..N0 /\ 0 \in Nat
    OBVIOUS
  <2> QED
    BY <1>1, <1>6, <2>1
<1>8. ASSUME NEW j \in 1..N0, j - 1 \in T PROVE j \in T
  <2> DEFINE e == j - 1
  <2>1. /\ e \in Nat /\ e + 1 = j /\ j \in 0..N0 /\ j \in Nat /\ j # 0
        /\ W[e] = InReach(e)
    BY <1>8
  <2>2. W[j] = OneFurther(W[e])
    BY <1>6, <2>1
  <2> HIDE DEF e
  <2>3. InReach(e + 1) = OneFurther(InReach(e))
    BY <2>1, FurtherIs
  <2> QED
    BY <2>1, <2>2, <2>3
<1> HIDE DEF T
<1>9. \A j \in 0..N0 : j \in T
  BY <1>7, <1>8, StepsUp
<1>10. N0 \in 0..N0
  OBVIOUS
<1>11. W[N0] = InReach(N0)
  BY <1>9, <1>10 DEF T
<1> QED
  BY <1>11 DEF W

\* At the end nothing is to come.
LEMMA ReachMeans ==
    ASSUME StackInv, ReachInv, NumLetters >= 3
    PROVE  EveryBoardInReach
<1> SUFFICES ASSUME stack = <<>>
             PROVE  /\ ToSet(printed) \cup {seed} = Within[depth]
                    /\ seed \in ToSet(printed) <=> depth > 1
  BY DEF EveryBoardInReach
<1>1. seed \in Buffers /\ depth \in Nat \ {0} /\ printed \in Seq(Buffers)
  BY SeedIs DEF StackInv
<1>2. ToSet(printed) \subseteq Buffers
  BY <1>1 DEF ToSet
<1>3. ASSUME NEW z \in Buffers PROVE z \in ToSet(printed) <=> Walk(depth, seed, z)
  <2>1. Len(stack) = 0 /\ 1..0 = {}
    OBVIOUS
  <2>2. ~ToCome(stack, z)
    BY <2>1 DEF ToCome
  <2> QED
    BY <2>2 DEF ReachInv, ReachOK
<1>4. Within[depth] = InReach(depth)
  BY <1>1, WithinIs
<1>5. ToSet(printed) \cup {seed} = InReach(depth)
  BY <1>1, <1>2, <1>3 DEF InReach
<1>6. ASSUME depth = 1 PROVE seed \notin ToSet(printed)
  <2>1. Walk(depth, seed, seed) <=> Near(seed, seed)
    BY <1>1, <1>6, NearWalk
  <2>2. ~Near(seed, seed)
    BY <1>1 DEF Near, EditOf, SwapOf
  <2> QED
    BY <1>1, <1>3, <2>1, <2>2
<1>7. ASSUME depth # 1 PROVE depth > 1 /\ seed \in ToSet(printed)
  <2> DEFINE t == 2
  <2>1. t \in Nat \ {0} /\ t <= depth /\ Walk(t, seed, seed) /\ depth > 1
    BY <1>1, <1>7, ThereAndBack
  <2> HIDE DEF t
  <2>2. Walk(depth, seed, seed)
    BY <1>1, <2>1, MoreWalks
  <2> QED
    BY <1>1, <1>3, <2>1, <2>2
<1>8. seed \in ToSet(printed) <=> depth > 1
  BY <1>6, <1>7
<1> QED
  BY <1>2, <1>4, <1>5, <1>8

\* EditDistance prints "all boards an edit distance of <= d from c"
\* (neighbors.cc:23) and no others, with the seed itself from d = 2 on, for every
\* board and depth; with two letters and one cell it would miss some.
THEOREM AllBoardsPrinted ==
    NumLetters >= 3 => (BufferSpec => []EveryBoardInReach)
<1>1. ASSUME NumLetters >= 3 PROVE BufferSpec => []EveryBoardInReach
  <2>1. BufferInit => StackInv /\ ReachInv
    BY <1>1, InitStack, InitReach
  <2>2. StackInv /\ ReachInv /\ [BufferNext]_bufferVars => (StackInv /\ ReachInv)'
    BY <1>1, StackStep, ReachStep
  <2>3. StackInv /\ ReachInv => EveryBoardInReach
    BY <1>1, ReachMeans
  <2> QED
    BY <2>1, <2>2, <2>3, PTL DEF BufferSpec
<1> QED
  BY <1>1

=============================================================================
