------------------------------- MODULE Scoring -------------------------------
(***************************************************************************)
(* The Boggle score of a board, as the rules have it: the reference that   *)
(* the searches of BucketSolver and of the Bogglers are checked against.   *)
(* The words are as BogglifyWord leaves them, q for "qu".                  *)
(***************************************************************************)
EXTENDS Grid

CONSTANTS
    Q,                 \* the letter q, worth two in the length of a word
    Words              \* the dictionary

kWordScores == <<0, 0, 1, 1, 2, 3, 5, 11, 11, 11, 11, 11, 11, 11, 11, 11, 11>>
WordLen(w) == Len(w) + Cardinality({i \in DOMAIN w : w[i] = Q})
WordScore(w) == kWordScores[WordLen(w)]

\* IsBoggleWord lets no word pass that is longer than the table.
ASSUME WordsAssumption ==
    /\ IsFiniteSet(Words)
    /\ \A w \in Words : w \in Seq(ToSet(w)) /\ WordLen(w) \in DOMAIN kWordScores

\* The trie: a node is the sequence of letters that leads to it.
Nodes == {<<>>} \cup UNION {{SubSeq(w, 1, n) : n \in 1..Len(w)} : w \in Words}
StartsWord(t, c) == Append(t, c) \in Nodes
IsWord(t) == t \in Words

LetterLenOfOne(c) == 1                                         \* a mutant
LetterLen(c) == IF c = Q THEN 2 ELSE 1

\* used_ ^= (1 << i), on the bit set as a set of cells.
ToggleOn(S, k) == S \cup {k}                                   \* a mutant
Toggle(S, k) == IF k \in S THEN S \ {k} ELSE S \cup {k}

\* The paths of n cells that touch, none used twice.
Extend(p) ==
    {Append(p, k) : k \in {k \in 1..(Width * Height) :
                              /\ \A i \in DOMAIN p : p[i] # k
                              /\ p # <<>> => Adjacent(Last(p), k)}}
Paths[n \in Nat] ==
    IF n = 0 THEN {<<>>} ELSE UNION {Extend(p) : p \in Paths[n - 1]}
WordPaths == [n \in {Len(w) : w \in Words} |-> Paths[n]]

\* The score of a single board: its words, each once, found along a path.
Found(b, w) ==
    \E p \in WordPaths[Len(w)] : \A i \in DOMAIN w : b[p[i]] = w[i]
DictionaryScore(b) == MapThenSumSet(WordScore, {w \in Words : Found(b, w)})
==============================================================================
