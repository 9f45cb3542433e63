--------------------------- MODULE TrieCompaction ---------------------------
(***************************************************************************)
(* Trie::CreateFromFile (trie.cc): the file is read into a SimpleTrie,     *)
(* CompactTrie copies that into one block of memory in breadth-first       *)
(* order, and the copy is then searched and marked (trie.h).               *)
(*                                                                         *)
(* A node of the Trie is a word of memory for bits_ and then data_, which  *)
(* has no length of its own: a mark if the node is a word, and a pointer   *)
(* for each letter in bits_.  Memory is counted in words of a pointer;     *)
(* the root has a block of its own before raw_bytes, and the word after    *)
(* raw_bytes is there to show what is written past its end.                *)
(***************************************************************************)
EXTENDS Dictionary

CONSTANTS
    RootSize,          \* size of root_mem
    Alloced,           \* size of raw_bytes
    MaxMark            \* bound on the marks

\* root_mem has room for a node with a mark and all letters.
ASSUME MemoryAssumption ==
    /\ RootSize \in Nat /\ Alloced \in Nat /\ MaxMark \in Nat
    /\ RootSize >= 2 + kNumLetters

VARIABLES
    bits_, data_,      \* the memory, by address
    bytes_used,        \* of raw_bytes
    todo,              \* the queue of WorkItems
    placed,            \* where each node copied so far is
    marked             \* the mark each word should have

memoryVars == <<bits_, data_, bytes_used, todo, placed, marked>>
vars == <<loadVars, memoryVars>>

-----------------------------------------------------------------------------
Null == -1
Root == 0
PastEnd == RootSize + Alloced
Addresses == 0..PastEnd
WordBit == kNumLetters

\* The SimpleTrie's side.
Children(t) == {c \in Letters : Append(t, c) \in nodes}
IsWordNode(t) == t \in words

\* AllocatePT: sizeof(Trie), a mark for a word, and the children.
SizeWithoutMark(t) == 1 + Cardinality(Children(t))             \* a mutant
Size(t) == 1 + (IF IsWordNode(t) THEN 1 ELSE 0) + Cardinality(Children(t))

\* The Trie's side: bits_ tells a letter's place in data_.
IsWord(p) == WordBit \in bits_[p]
StartsWord(p, c) == c \in bits_[p]
SlotOfLetter(p, c) == c                                        \* a mutant
Slot(p, c) ==
    (IF IsWord(p) THEN 1 ELSE 0) + Cardinality({d \in bits_[p] : d < c})
Descend(p, c) == data_[p + 1 + Slot(p, c)]

\* TrieUtils::FindWord and Trie::IsWord(const char*).
FindWord(w) ==
    LET at[i \in 0..Len(w)] ==
            IF i = 0 THEN Root
            ELSE IF at[i - 1] # Null /\ StartsWord(at[i - 1], w[i])
            THEN Descend(at[i - 1], w[i]) ELSE Null
    IN  at[Len(w)]
IsWordText(w) ==
    (\A i \in DOMAIN w : w[i] \in Letters) /\ FindWord(w) # Null /\ IsWord(FindWord(w))

\* TrieUtils goes over everything below the root by trying all letters: the
\* nodes so many letters down, with these letters.
Walk ==
    LET walk[d \in Addresses] ==
            IF d = 0 THEN {[t |-> <<>>, pt |-> Root]}
            ELSE UNION {{[t |-> Append(n.t, c), pt |-> Descend(n.pt, c)] :
                             c \in bits_[n.pt] \ {WordBit}} : n \in walk[d - 1]}
    IN  walk
ReverseLookups == UNION {Walk[d] : d \in Addresses}
ReachedNodes == {n.pt : n \in ReverseLookups}
Reached == {p \in ReachedNodes : IsWord(p)}

-----------------------------------------------------------------------------
Init ==
    /\ LoadInit
    /\ bits_ = [p \in Addresses |-> {}]
    /\ data_ = [p \in Addresses |-> 0]
    /\ bytes_used = 0
    /\ todo = <<>>
    /\ placed = <<>>
    /\ marked = <<>>

Load == (ReadLine \/ EndLoad) /\ UNCHANGED memoryVars

\* CompactTrie: the root gets its own block, and bytes_used starts over.
StartCompaction ==
    /\ pc = "loaded"
    /\ pc' = "compact"
    /\ todo' = <<[t |-> <<>>, pt |-> Root]>>
    /\ placed' = [t \in {<<>>} |-> Root]
    /\ UNCHANGED <<filtered, file, read, eof, line, nodes, words,
                   bits_, data_, bytes_used, marked>>

QueuedFirst(rest, items) == items \o rest                      \* a mutant
Queued(rest, items) == rest \o items

\* The children of a node in the order of their letters: bytes_used after so
\* many of them; how many are allocated, as the loop returns after the first that
\* is too much; where each is, and the work that each will be.
InOrder(S) == [n \in 1..Cardinality(S) |->
                  CHOOSE c \in S : Cardinality({d \in S : d < c}) = n - 1]
Used(t) ==
    LET used[n \in 0..Cardinality(Children(t))] ==
            IF n = 0 THEN bytes_used
            ELSE used[n - 1] + Size(Append(t, InOrder(Children(t))[n]))
    IN  used
AllChildren(t) == Cardinality(Children(t))                     \* a mutant
Allocated(t) ==
    Cardinality({n \in 1..Cardinality(Children(t)) : Used(t)[n - 1] <= Alloced})
Where(t) == [n \in 1..Allocated(t) |-> RootSize + Used(t)[n - 1]]
Items(t) == [n \in 1..Allocated(t) |->
                [t |-> Append(t, InOrder(Children(t))[n]), pt |-> Where(t)[n]]]

\* One WorkItem: write its word bit and its mark, then for one letter after the
\* other the bit, the child with no bits yet, and the pointer to it.  Whether
\* there was room for the child is looked at last.
Compact ==
    /\ pc = "compact"
    /\ todo # <<>>
    /\ LET cur == Head(todo)
           off == IF IsWordNode(cur.t) THEN 1 ELSE 0
           where == Where(cur.t)
           items == ToSet(Items(cur.t))
       IN  /\ bits_' = [p \in Addresses |->
                  IF p = cur.pt
                  THEN {InOrder(Children(cur.t))[n] : n \in DOMAIN where} \cup
                       (IF off = 1 THEN {WordBit} ELSE {})
                  ELSE IF p \in ToSet(where) THEN {}
                  ELSE bits_[p]]
           /\ data_' = [p \in Addresses |->
                  IF off = 1 /\ p = cur.pt + 1 THEN 0
                  ELSE IF p - cur.pt - off \in DOMAIN where
                  THEN where[p - cur.pt - off]
                  ELSE data_[p]]
           /\ bytes_used' = Used(cur.t)[Len(where)]
           /\ todo' = Queued(Tail(todo), Items(cur.t))
           /\ placed' = [t \in DOMAIN placed \cup {i.t : i \in items} |->
                  IF t \in DOMAIN placed THEN placed[t]
                  ELSE (CHOOSE i \in items : i.t = t).pt]
    /\ pc' = IF bytes_used' > Alloced THEN "null" ELSE "compact"
    /\ UNCHANGED <<filtered, file, read, eof, line, nodes, words, marked>>

EndCompaction ==
    /\ pc = "compact"
    /\ todo = <<>>
    /\ pc' = "ready"
    /\ marked' = [w \in words |-> 0]
    /\ UNCHANGED <<filtered, file, read, eof, line, nodes, words,
                   bits_, data_, bytes_used, todo, placed>>

\* Mark, on a node that is a word (trie.h:41), as FindWord finds it.
Mark ==
    /\ pc = "ready"
    /\ \E w \in words, m \in 1..MaxMark :
        /\ data_' = [data_ EXCEPT ![FindWord(w) + 1] = m]
        /\ marked' = [marked EXCEPT ![w] = m]
    /\ UNCHANGED <<loadVars, bits_, bytes_used, todo, placed>>

ToMarkAll == ReachedNodes                                      \* a mutant
ToMark == Reached
SetAllMarks ==
    /\ pc = "ready"
    /\ \E m \in 1..MaxMark :
        /\ data_' = [p \in Addresses |-> IF p - 1 \in ToMark THEN m ELSE data_[p]]
        /\ marked' = [w \in words |-> m]
    /\ UNCHANGED <<loadVars, bits_, bytes_used, todo, placed>>

Create == Load \/ StartCompaction \/ Compact \/ EndCompaction
Next == Create \/ Mark \/ SetAllMarks

Spec == Init /\ [][Next]_vars

-----------------------------------------------------------------------------
TypeOK ==
    /\ LoadTypeOK
    /\ pc \in {"load", "loaded", "compact", "ready", "null"}
    /\ bits_ \in [Addresses -> SUBSET (Letters \cup {WordBit})]
    /\ data_ \in [Addresses -> Nat]
    /\ bytes_used \in Nat
    /\ \A i \in DOMAIN todo : todo[i].t \in nodes /\ todo[i].pt \in Addresses

\* The nodes share no memory, and none uses any past the end of its block: the
\* size that AllocatePT adds up (trie.cc:26) is the one that Descend and Mark go
\* by, so that writing one node leaves all others alone.  When CompactTrie gives
\* up, which it finds out after the fact (trie.cc:71), at most the bits_ of the
\* last node are past the end.  With the types of all variables.
InUse(p) ==
    {p} \cup {p + 1 : x \in bits_[p] \cap {WordBit}}
        \cup {p + 1 + Slot(p, c) : c \in bits_[p] \cap Letters}
BlocksDisjoint ==
    /\ TypeOK
    /\ pc = "null" <=> bytes_used > Alloced
    /\ \A t \in DOMAIN placed :
          /\ InUse(placed[t]) \subseteq Addresses
          /\ PastEnd \in InUse(placed[t]) => pc = "null" /\ InUse(placed[t]) = {PastEnd}
          /\ t = <<>> <=> InUse(placed[t]) \subseteq 0..(RootSize - 1)
          /\ \A u \in DOMAIN placed \ {t} : InUse(placed[t]) \cap InUse(placed[u]) = {}

\* Longer words are at higher addresses, below the root, which has its own
\* block: MultiBoggle takes the length of a word from its address and leaves it
\* to be verified that the trie is laid out so (multiboggle.cc:336).
BreadthFirst ==
    \A t, u \in DOMAIN placed \ {<<>>} : Len(t) < Len(u) => placed[t] < placed[u]

\* The compact trie has the words of the SimpleTrie and no others, after any
\* marks, and finds a node for each beginning of one (trie_test.cc:34).  Size,
\* NumNodes and ReverseLookup agree: each node has one way to it.
Texts == nodes \cup {Append(t, c) : t \in nodes, c \in Letters}
SameWords ==
    pc = "ready" =>
        /\ \A w \in Texts : /\ IsWordText(w) <=> w \in words
                            /\ FindWord(w) # Null <=> w \in nodes
        /\ Cardinality(Reached) = Cardinality(words)
        /\ Cardinality(ReachedNodes) = Cardinality(nodes)
        /\ ReverseLookups = {[t |-> t, pt |-> FindWord(t)] : t \in nodes}

\* Each word keeps the mark that was last put on it, or on all.
MarksKept ==
    pc = "ready" => \A w \in words : data_[FindWord(w) + 1] = marked[w]
=============================================================================
