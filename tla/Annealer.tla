------------------------------ MODULE Annealer ------------------------------
(***************************************************************************)
(* Annealer::Run (optimizer.cc) as anneal.cc calls it, --num_runs times on *)
(* one object.  Each generation copies the last accepted board, mutates    *)
(* the copy a random number of times and accepts or drops it; the run ends *)
(* when none was accepted for max_stall generations.                       *)
(*                                                                         *)
(* The random numbers are choices here.  Those that only pick again until  *)
(* two letters differ are one choice among the picks that do, which such a *)
(* loop makes in the end if there is one.                                  *)
(***************************************************************************)
EXTENDS Integers, FiniteSets

CONSTANTS
    num_squares_,
    Letters,           \* 'a' to 'z'
    Score(_),          \* solver_->Score
    max_stall,         \* opts_.max_stall
    FrozenAt,          \* from here on exp(-1 / T) is 0, and no loss accepted,
    ColdAt,            \* and from here on T is, and no equal score either
    Leftover,          \* what the memory of best_score_ held
    MaxMutations,      \* bound on the mutations in one generation
    Runs               \* --num_runs

Squares == 0..(num_squares_ - 1)
Boards == [Squares -> Letters]

ASSUME SquaresAssumption == num_squares_ \in Nat \ {0}

ASSUME AlphabetAssumption == \E x, y \in Letters : x # y

\* Each solver's ParseBoard takes a board of letters, so Score is never -1.
ASSUME ScoreAssumption == \A b \in Boards : Score(b) \in Nat

\* --cool_t0 and --cool_k are over 0: T starts over 0 and reaches it in the end
\* (after 15000 generations or so, by default), as doubles have a smallest.
ASSUME ScheduleAssumption ==
    /\ FrozenAt \in Nat /\ ColdAt \in Nat \ {0}
    /\ FrozenAt <= ColdAt
    /\ max_stall \in Nat \ {0}

ASSUME BoundsAssumption == MaxMutations \in Nat \ {0} /\ Runs \in Nat

ASSUME LeftoverAssumption == Leftover \in Int

VARIABLES
    pc,                \* "start", "loop", "mutate", "judge", "done" or "spin"
    run,               \* runs begun
    n, last_accept,
    bd_, last_,
    best_score_,
    made               \* mutations of this generation

vars == <<pc, run, n, last_accept, bd_, last_, best_score_, made>>

-----------------------------------------------------------------------------
\* The constructor sets neither the boards nor the score.
Init ==
    /\ pc = "start"
    /\ run = 0
    /\ n = 0
    /\ last_accept = 0
    /\ bd_ \in Boards
    /\ last_ = bd_
    /\ best_score_ = Leftover
    /\ made = 0

\* Run: a random board, and what is set before the loop.
StartRunKeepingBest ==                                         \* a mutant
    /\ pc = "start"
    /\ run < Runs
    /\ run' = run + 1
    /\ pc' = "loop"
    /\ last_' \in Boards
    /\ n' = 0
    /\ last_accept' = 0
    /\ best_score_' = IF run = 0 THEN 0 ELSE best_score_
    /\ UNCHANGED <<bd_, made>>
StartRun ==
    /\ pc = "start"
    /\ run < Runs
    /\ run' = run + 1
    /\ pc' = "loop"
    /\ last_' \in Boards
    /\ n' = 0
    /\ last_accept' = 0
    /\ best_score_' = 0
    /\ UNCHANGED <<bd_, made>>

\* A generation begins with a copy, and Mutate makes at least one mutation.
Generation ==
    /\ pc = "loop"
    /\ n < last_accept + max_stall
    /\ pc' = "mutate"
    /\ bd_' = last_
    /\ made' = 0
    /\ UNCHANGED <<run, n, last_accept, last_, best_score_>>

Mutated ==
    /\ made' = made + 1
    /\ UNCHANGED <<run, n, last_accept, last_, best_score_>>

Swap ==
    /\ pc = "mutate"
    /\ made < MaxMutations
    /\ \E a, b \in Squares :
        /\ bd_[a] # bd_[b]
        /\ bd_' = [bd_ EXCEPT ![a] = bd_[b], ![b] = bd_[a]]
    /\ pc' \in {"mutate", "judge"}
    /\ Mutated

\* A board of one letter has no two to swap: the loop that looks for them
\* (optimizer.cc:105) never ends.
SwapPickedOnce ==                                              \* a mutant
    /\ pc = "mutate"
    /\ made < MaxMutations
    /\ \E a, b \in Squares : bd_[a] = bd_[b]
    /\ pc' = "spin"
    /\ bd_' = bd_
    /\ Mutated
SwapForEver ==
    /\ pc = "mutate"
    /\ made < MaxMutations
    /\ \A a, b \in Squares : bd_[a] = bd_[b]
    /\ pc' = "spin"
    /\ bd_' = bd_
    /\ Mutated

Change ==
    /\ pc = "mutate"
    /\ made < MaxMutations
    /\ \E cell \in Squares, letter \in Letters :
        /\ bd_[cell] # letter
        /\ bd_' = [bd_ EXCEPT ![cell] = letter]
    /\ pc' \in {"mutate", "judge"}
    /\ Mutated

\* Whether it is judged at once is a random number's to say; the bound stands
\* for its not saying no for ever.
EndMutate ==
    /\ pc = "mutate"
    /\ made = MaxMutations
    /\ pc' = "judge"
    /\ UNCHANGED <<run, n, last_accept, bd_, last_, best_score_, made>>

\* AcceptTransition(cur, new, T): the random number is below exp((new - cur) / T)
\* always, never, or it may be.  At T = 0 an equal score is 0 / 0, and no number
\* is below that.
TransitionsDownhill(cur, new) ==                               \* a mutant
    IF new > cur \/ (new = cur /\ n < ColdAt) THEN {TRUE} ELSE BOOLEAN
TransitionsOfComment(cur, new) ==                              \* a mutant
    IF new >= cur THEN {TRUE} ELSE IF n < FrozenAt THEN BOOLEAN ELSE {FALSE}
Transitions(cur, new) ==
    IF new > cur \/ (new = cur /\ n < ColdAt) THEN {TRUE}
    ELSE IF new < cur /\ n < FrozenAt THEN BOOLEAN
    ELSE {FALSE}

Judge ==
    /\ pc = "judge"
    /\ pc' = "loop"
    /\ n' = n + 1
    /\ LET score == Score(bd_)
       IN  \E accept \in Transitions(best_score_, score) :
            IF accept
            THEN /\ last_accept' = n
                 /\ best_score_' = score
                 /\ last_' = bd_
            ELSE UNCHANGED <<last_accept, best_score_, last_>>
    /\ UNCHANGED <<run, bd_, made>>

EndRun ==
    /\ pc = "loop"
    /\ n >= last_accept + max_stall
    /\ pc' = "done"
    /\ UNCHANGED <<run, n, last_accept, bd_, last_, best_score_, made>>

\* main prints the score and the board, and begins the next run.
Report ==
    /\ pc = "done"
    /\ pc' = "start"
    /\ UNCHANGED <<run, n, last_accept, bd_, last_, best_score_, made>>

Next ==
    \/ StartRun \/ Generation \/ Swap \/ SwapForEver \/ Change \/ EndMutate
    \/ Judge \/ EndRun \/ Report

\* The program does nothing else; the random numbers promise no more than is
\* said at each of them.
Spec == Init /\ [][Next]_vars /\ WF_vars(Next)

-----------------------------------------------------------------------------
TypeOK ==
    /\ pc \in {"start", "loop", "mutate", "judge", "done", "spin"}
    /\ run \in 0..Runs
    /\ n \in Nat /\ last_accept \in Nat
    /\ bd_ \in Boards /\ last_ \in Boards
    /\ best_score_ \in Int
    /\ made \in 0..MaxMutations

\* The score that main prints is that of the board it prints (anneal.cc:88), in
\* every run: the initial board, which is not scored, never survives, for the
\* first mutation is accepted whatever it scores.  With the types of all variables.
FinalMatches ==
    /\ TypeOK
    /\ (n > 0 \/ pc = "done") => best_score_ = Score(last_)

\* A run is bounded: at T = 0 each accepted board is better, so that the score
\* pays for the generations.  Were an equal score accepted then, as the comment
\* in anneal.cc (line 19) has it, a run could go on for ever.
RunIsBounded == run > 0 => n <= ColdAt + max_stall * (best_score_ + 1)

\* From the generation on whose T lets no loss pass, the board that the run
\* would end with never scores less, and at T = 0 changes only for a better one.
NoLossWhenFrozen ==
    [][ (run' = run /\ n > 0 /\ n >= FrozenAt)
            => \/ Score(last_') > Score(last_)
               \/ Score(last_') = Score(last_) /\ (n >= ColdAt => last_' = last_)
      ]_vars

\* A run ends, unless it meets a board of one letter and tries to swap.
OneLetter(board) == \A a, b \in Squares : board[a] = board[b]
RunEnds == (pc = "loop") ~> (pc = "done" \/ (pc = "spin" /\ OneLetter(bd_)))
=============================================================================
