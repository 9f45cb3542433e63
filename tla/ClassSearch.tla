---------------------------- MODULE ClassSearch ----------------------------
(***************************************************************************)
(* What Breaker::Break (ibucket_breaker.cc) promises, with no trace of how *)
(* it does it: the boards of a class are examined a set at a time until    *)
(* none is left, and every board whose score exceeds the best known score  *)
(* is reported.  How a set is examined (one bound for all of it, or one    *)
(* score for one board) and in which order is left open.                   *)
(***************************************************************************)
EXTENDS Naturals

CONSTANTS
    Boards,      \* the single boards
    Score(_),    \* the Boggle score of a single board
    BestScore    \* best_score_: the score to beat

VARIABLES
    phase,       \* "idle", "searching", "done", or "exit" (the process ended)
    class,       \* the class searched: the set of its boards
    pending,     \* its boards not examined yet
    found        \* the boards reported

vars == <<phase, class, pending, found>>

Hot(S) == {b \in S : Score(b) > BestScore}

TypeOK ==
    /\ phase \in {"idle", "searching", "done", "exit"}
    /\ class \subseteq Boards
    /\ pending \subseteq Boards
    /\ found \subseteq Boards

-----------------------------------------------------------------------------
Init ==
    /\ phase = "idle"
    /\ class \in SUBSET Boards
    /\ pending = {}
    /\ found = {}

\* A search starts over, whatever an earlier one reported.
Start ==
    /\ phase \in {"idle", "done"}
    /\ phase' = "searching"
    /\ class' \in SUBSET Boards
    /\ pending' = class'
    /\ found' = {}

\* Some pending boards are examined; each hot one that stops being pending
\* has been reported, and nothing else than a hot pending board is.
Examine ==
    /\ phase = "searching"
    /\ pending' \in SUBSET pending
    /\ found' \in {found \cup X : X \in SUBSET Hot(pending)}
    /\ Hot(pending \ pending') \subseteq found'
    /\ UNCHANGED <<phase, class>>

Finish ==
    /\ phase = "searching"
    /\ pending = {}
    /\ phase' = "done"
    /\ UNCHANGED <<class, pending, found>>

\* The process may end between two searches.
Exit ==
    /\ phase \in {"idle", "done"}
    /\ phase' = "exit"
    /\ UNCHANGED <<class, pending, found>>

Next == Start \/ Examine \/ Finish \/ Exit

Spec == Init /\ [][Next]_vars

-----------------------------------------------------------------------------
\* While a search runs, every hot board of the class is reported or pending
\* and nothing else is reported (the inductive form of Exact).
Partial ==
    phase = "searching" =>
        /\ pending \subseteq class
        /\ found \subseteq Hot(class)
        /\ Hot(class) \subseteq found \cup pending

\* Breaker::Break: when the search is over, the reported boards are exactly
\* the boards of the class that beat the best score.
Exact == phase = "done" => found = Hot(class)

==============================================================================
