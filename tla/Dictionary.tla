----------------------------- MODULE Dictionary -----------------------------
(***************************************************************************)
(* How a file of words becomes a trie: Boggler::DictionaryFromFile         *)
(* (4x4/boggler.cc), which keeps the words that can be spelled and writes  *)
(* q for "qu" in place, and Trie::CreateFromFile (trie.cc and paper's),    *)
(* which takes every word.  Both loop on feof and fscanf with one buffer.  *)
(*                                                                         *)
(* Characters are numbers, the letters from 0 as idx makes them.  A        *)
(* SimpleTrie is the set of its nodes, each the letters that lead to it,   *)
(* and the set of those that are words.                                    *)
(***************************************************************************)
EXTENDS Integers, Sequences, FiniteSets, SequencesExt

CONSTANTS
    kNumLetters,       \* 26
    kQ, kU,            \* the letters q and u
    MaxWordLen,        \* 17, the longest word IsBoggleWord allows
    Files,             \* files: their words, and if a newline ends the last
    Leftovers          \* what the buffer may hold before it is written

Letters == 0..(kNumLetters - 1)

ASSUME LettersAssumption ==
    kNumLetters \in Nat /\ kQ \in Letters /\ kU \in Letters /\ kQ # kU /\ MaxWordLen \in Nat

\* A character of a file is a letter or some other, all as numbers.
Word == Seq(Nat)
ASSUME FilesAssumption ==
    /\ \A f \in Files : f.words \in Seq(Word) /\ f.newline \in BOOLEAN
    /\ Leftovers \subseteq Word

VARIABLES
    pc,                \* "load", then what is made of the trie
    filtered,          \* whether DictionaryFromFile reads the file
    file,
    read,              \* how many words fscanf has consumed
    eof,               \* feof
    line,              \* the buffer
    nodes, words       \* the SimpleTrie

loadVars == <<pc, filtered, file, read, eof, line, nodes, words>>

-----------------------------------------------------------------------------
IsBoggleWord(w) ==
    /\ Len(w) \in 3..MaxWordLen
    /\ \A i \in DOMAIN w : w[i] \in Letters
    /\ \A i \in DOMAIN w : w[i] = kQ => (i < Len(w) /\ w[i + 1] = kU)

\* BogglifyWord copies the word onto itself and skips what follows a q.
BogglifyWord(w) ==
    FlattenSeq([i \in DOMAIN w |->
        IF i > 1 /\ w[i - 1] = kQ THEN <<>> ELSE <<w[i]>>])

AddWord(w) ==
    /\ nodes' = nodes \cup Prefixes(w)
    /\ words' = words \cup {w}

\* CreateFromFile takes what AddWord's array has a place for: it is called on
\* files of letters only (and what an empty one leaves in the buffer, if letters).
LoadInit ==
    /\ pc = "load"
    /\ filtered \in BOOLEAN
    /\ file \in Files
    /\ line \in Leftovers
    /\ ~filtered => \A w \in ToSet(file.words) \cup {line} : ToSet(w) \subseteq Letters
    /\ read = 0
    /\ eof = FALSE
    /\ nodes = {<<>>}
    /\ words = {}

\* fscanf: the next word, and the end of the file if it stops there; or EOF,
\* which is not zero, with the buffer as it was.
Scanned == IF read < Len(file.words) THEN file.words[read + 1] ELSE line
AtEnd(n) == n > Len(file.words) \/ (n = Len(file.words) /\ ~file.newline)

\* One round of the loop, feof, fscanf and what is done with the line.
ReadLineLastDropped ==                                         \* a mutant
    /\ pc = "load"
    /\ ~eof
    /\ read' = read + 1
    /\ eof' = AtEnd(read')
    /\ IF eof' \/ (filtered /\ ~IsBoggleWord(Scanned))
       THEN line' = Scanned /\ UNCHANGED <<nodes, words>>
       ELSE /\ line' = IF filtered THEN BogglifyWord(Scanned) ELSE Scanned
            /\ AddWord(line')
    /\ UNCHANGED <<pc, filtered, file>>
ReadLine ==
    /\ pc = "load"
    /\ ~eof
    /\ read' = read + 1
    /\ eof' = AtEnd(read')
    /\ IF filtered /\ ~IsBoggleWord(Scanned)
       THEN line' = Scanned /\ UNCHANGED <<nodes, words>>
       ELSE /\ line' = IF filtered THEN BogglifyWord(Scanned) ELSE Scanned
            /\ AddWord(line')
    /\ UNCHANGED <<pc, filtered, file>>

EndLoad ==
    /\ pc = "load"
    /\ eof
    /\ pc' = "loaded"
    /\ UNCHANGED <<filtered, file, read, eof, line, nodes, words>>

-----------------------------------------------------------------------------
LoadTypeOK ==
    /\ filtered \in BOOLEAN /\ eof \in BOOLEAN
    /\ read \in 0..(Len(file.words) + 1)
    /\ line \in Word
    /\ words \subseteq nodes
    /\ \A n \in nodes : n = <<>> \/ Front(n) \in nodes

\* The word that a word of the trie spells, "qu" for each q.
Spelled(w) ==
    IF filtered
    THEN FlattenSeq([i \in DOMAIN w |-> IF w[i] = kQ THEN <<kQ, kU>> ELSE <<w[i]>>])
    ELSE w

\* Every word of the file that Boggle allows can be found, also the last one of
\* a file without a newline at its end.
EveryWordLoaded ==
    eof => \A w \in ToSet(file.words) :
        \/ \E s \in words : Spelled(s) = w
        \/ /\ filtered
           /\ \/ Len(w) < 3 \/ Len(w) > MaxWordLen
              \/ \E i \in DOMAIN w : w[i] \notin Letters
              \/ \E i \in DOMAIN w :
                    w[i] = kQ /\ ~\E j \in DOMAIN w : j = i + 1 /\ w[j] = kU

\* No other word can, but for one: at a newline that ends the file the buffer
\* is handled a second time (4x4/boggler.cc:96).  That adds nothing unless the
\* last word was written with "quu", or there was none and the buffer is what
\* the memory held.
ReadTwice(s) ==
    \/ file.words = <<>>
    \/ file.newline /\ Spelled(Spelled(s)) = Last(file.words)
OnlyWordsLoaded ==
    \A s \in words : Spelled(s) \in ToSet(file.words) \/ ReadTwice(s)

\* The trie holds the words of the file that Boggle allows, however the file
\* ends, and no others but for one (boggle_solver.cc:34, trie.cc:139).
WordsLoaded == EveryWordLoaded /\ OnlyWordsLoaded
=============================================================================
