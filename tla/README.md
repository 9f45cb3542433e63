# Verification of performance-boggle

TLA+ models of the Boggle breaker in `src/`, the TLC runs that check them and
the theorems that TLAPS proves about them.

The program looks for the best Boggle boards. Scoring every board is hopeless,
so it takes *classes* of boards (each cell holds several letters), computes an
upper bound on the score of every board of a class at once, and if the bound is
no more than a score already known eliminates them all. Otherwise it splits the
letters of one cell and tries each part. Around this stand tools that score
single boards, build and prune a tree for a bound, look for good boards by
annealing, or print the neighbours of boards. Everything is single-threaded C++
with no locks and no stored state. What is hard here is state that is shared by the
levels of a recursion, or that outlives a call (marks on the trie, the set of
cells in use, the solver's board, the caller's details), the agreement of two
bounds, the arithmetic of products that wrap, and loops that must cover
everything.

## 1. Inventory

| Component (source) | State it keeps | Operations | Correct when |
|---|---|---|---|
| **Breaker** (`ibucket_breaker.cc`) | `order_`, `details_`, `elim_`, `orig_reps_`, the solver's board, the recursion | `Breaker`, `SetPickOrder`, `ParseBoard`, `Break` → `AttackBoard` ↔ `SplitBucket` → `PickABucket` | the failures are exactly the boards of the class over `best_score_`; it ends; its counts add up |
| **BucketSolver** (`bucket_solver.cc`, `3x3/`, `3x4/`, `4x4/ibuckets.cc`) | `bd_`, `indices_`, `used_`, `runs_`, `details_`, marks on the trie | `ParseBoard`, `MutableCell`, `UpperBound` (`DoAllDescents` ↔ `DoDFS`), `NumReps`, `as_string` | neither bound is below the score of a board of the class unless both are over the bail-out |
| **BoggleSolver** (`boggle_solver.cc`, `3x3/`, `3x4/`, `4x4/boggler.cc`) | `bd_`, `used_`, `runs_`, `score_`, `num_boards_`, marks | `ParseBoard`, `SetCell`, `Score` | `Score` is the score by the rules |
| **BoardUtils** (`board-utils.cc`) | `classes_` | `UsePartition`, `BoardId`, `BoardFromId`, flips and `Rotate90CW`, `IsCanonical`, `GenerateAnalogues`, `Canonicalize`, `ExpandPartitions` | numbers and boards are inverse; one image of each board is canonical |
| **ibucket_breaker** (`ibucket_breaker_main.cc`) | `idx`, `good_boards`, one `BreakDetails` | `--break_all`, `--random_boards`, `--run_on_index`, `PrintDetails` | each board over the score is reported, up to symmetry |
| **Dictionary loading** (`4x4/boggler.cc:DictionaryFromFile`, `boggle_solver.cc`, `trie.cc`) | the trie, a line buffer | read, `IsBoggleWord`, `BogglifyWord`, `AddWord` | the trie holds the words of the file that can be spelled, and no others |
| **Trie** (`trie.h`, `trie.cc`, `paper/trie.*`) | children, word bits, marks, one block of memory | `AddWord`, `StartsWord`, `Descend`, `IsWord`, `Mark`, `CompactTrie`, `TrieUtils` | the compact trie has the same words, and no two nodes share memory |
| **BreakingTree** (`breaking_tree.cc`, `tree_tool.cc`, `ibucket_boggle.cc`) | a tree of choice and sum nodes | `RecomputeScore`, `Prune`, `NodeCount`, `AttachPossibilities`, `ScoreWithForce` | the score with a letter forced is the bound of the narrower class |
| **Annealer** (`optimizer.cc`, `anneal.cc`) | two boards, the score of the last accepted one, statistics | `Run`, `Mutate`, `AcceptTransition` | the board it ends with has the score it reports; a run ends |
| **Neighbors** (`neighbors.cc`) | one buffer | `EditDistance` | every board in reach is printed, the buffer restored |
| **MultiBoggle** (`multi/`) | `bd_`, `runs_`, `used_`, marks; the caller's partial solutions | `SolveTwoHole`, `FillHoleTL`, `FillHoleBR`, `MergeBoards` | each partial and merged score is that of the board; no mark is left behind |
| **Paper version** (`paper/`) | as Breaker and BucketSolver | the same, for 3x3 | as above |
| **Hard buckets** (abandoned), drivers, Go and Java ports, vendored libraries | | | |

How they interact. `main` numbers the classes with `BoardUtils`, expands the
number to letters, parses them into the `BucketSolver` through the `Breaker` and
calls `Break`. The `Breaker` owns no board: it calls `MutableCell` and
`ParseBoard` on the solver's, at every level of its recursion, and asks
`UpperBound` for a bound with its own best score as the bail-out. The solver
walks the trie and leaves marks on it; the trie is shared with every later run
and, in other drivers, with a `BoggleSolver`. `tree_tool` and `ibucket_boggle`
parse a class, have the 3x4 solver build a tree as it computes the bound, and then
narrow and restore cells of the solver's board while they ask the tree. The
annealer and the multiboggle only need a trie. There are no messages; the one
callback, of `MultiBoggle::DoDFS`, is called in its caller's own search. Every call is synchronous and runs to its end.

What is hard to test, in the order of how much depends on it (each one with its
line under "hazards" in `PROJECT.json`):

1. the solver's board is overwritten at all levels of `SplitBucket`, restored
   from each level's copy;
2. the split of a cell must be a partition of its letters, computed by a
   comparison of doubles for lengths from 9 to 25 and taken from a table at 26;
3. the early exit of `UpperBound` and the two bounds it compares;
4. the marks and `used_`, which outlive the runs, and the wrap of `runs_`;
5. the neighbours written out by hand in two unrolled switches;
6. classes skipped as mirror images: the images must be symmetries of the grid
   the solver scores and one in each orbit must not be skipped;
7. `BreakDetails` that the caller uses again;
8. parsers that fail with the board half written;
9. `NumReps`, a product in 64 bits, and sums of it;
10. a tree that outlives the board it was built for and loses children to `Prune`;
11. nodes of the compact trie, laid out one after the other without a length;
12. the loop on `feof`, which handles the last word twice, in a buffer that was
    rewritten in place;
13. one buffer that all levels of `EditDistance` edit;
14. the annealer's temperature, which underflows to 0 in the end, and random loops
    that may find nothing to pick;
15. partial solutions of `MultiBoggle`, made at different times and merged later.

## 2. Modules

| Module | Models | Used by |
|---|---|---|
| `ClassSearch` | what `Break` promises: sets of boards are examined until none is left, each hot one reported | refined by `Breaker` |
| `LetterCells` | a class of boards: letters for each cell | `BoardClass`, `BucketBoard` |
| `BoardClass` | `NumReps`, the boards of a class, the contract of `UpperBound` | `Breaker`, `BucketBound`, `BreakAll` |
| `Breaker` | all of `ibucket_breaker.cc` | |
| `DataTheorems`, `ScoringProofs` | lemmas about data and scores | the proofs |
| `BreakerProofs`, `BucketBoundProofs`, `BogglerProofs`, `BreakAllProofs`, `TrieProofs`, `LocalSearchProofs` | theorems; `BreakerProofs` has also those of `BucketBoard` and `TreeTool`, `BogglerProofs` those of `MultiBoggle`, `LocalSearchProofs` those of `Annealer` and `Neighbors` | |
| `Grid`, `Scoring` | neighbours as each search lists them; the trie as a set of prefixes; the score of a board by the rules | `BucketBound`, `BoggleBoard`, `BreakAll`, `BreakingTree` |
| `BucketBound` | `UpperBound` step by step: each letter tried, each neighbour visited, each return | |
| `BucketBoard` | `BucketSolver::ParseBoard` by characters, `MutableCell`, `as_string`, `indices_`, and its callers | `TreeTool` |
| `BreakingTree` | the tree of `3x4/ibuckets.cc` and its operations | `TreeTool` |
| `TreeTool` | `tree_tool.cc` and `ibucket_boggle.cc`: one solver's board and tree together | |
| `BoggleBoard` | a board of letters and the cells a search goes on to | `Boggler`, `MultiBoggle` |
| `Boggler` | `BoggleSolver` step by step | |
| `BreakAll` | `BoardUtils` and the `--break_all` loop, and the paper's numbering and loop | |
| `Dictionary` | the two loops that read a file of words | `TrieCompaction` |
| `TrieCompaction` | `CompactTrie` and the `Trie` it makes, word by word of its memory | |
| `Annealer` | `Annealer::Run` as `anneal.cc` calls it | |
| `Neighbors` | `EditDistance` | |
| `MultiBoggle` | `multi/multiboggle.cc` | |
| `MC...` | instances for TLC | |

The levels fit together by contracts. `BucketBound` shows (`KeepsContract`) that
what a search leaves in the details satisfies `BoundsClass`. `Breaker` takes any
details that satisfy `BoundsClass` for the answer of `UpperBound` and shows
`FailuresExact`. `BreakAll` takes exactly these failures for the effect of `Break`,
one class in a step. `Breaker` takes the board's `MutableCell` and `ParseBoard` as
assignments; `BucketBoard` shows that parsing `as_string` back is one
(`RestoresCopy`). `Scoring` has the trie as the set of prefixes of
its words; `TrieCompaction` shows that the compact trie answers as that set does
(`SameWords`) and keeps marks (`MarksKept`). `MultiBoggle` takes the length of a
word from the dictionary where the code takes it from an address;
`TrieCompaction` shows that the layout allows that (`BreadthFirst`).

### Breaker

The recursion of `AttackBoard` and `SplitBucket` is a stack with one frame for
each `SplitBucket` in progress: `orig_bd`, the cell, its splits and the loop's
`i`. `bd` is the solver's one board.

| Action | Code |
|---|---|
| `ParseBoard`, `SetPickOrder`, `Break` | the caller's calls; `Break` resets what the code resets of the details |
| `Eliminate` | `AttackBoard` when the bound is at most `best_score_` |
| `Fail` | `SplitBucket` when there is no cell to split: report |
| `Split` | `SplitBucket` up to its loop: copy the board, pick the cell |
| `TakeSplit` | one round of the loop: parse `orig_bd` back, put the next part in the cell, attack |
| `EndSplits`, `EndBreak` | the returns |

`SetPickOrder` that fails its `CHECK_EQ` sets `pc` to `"exit"`. A class of 26
letters is split into the four fixed groups, of 9 or more into quarters (letter
`i` of `n` goes to group `4*i \div n`, which is what the comparison of doubles
computes for the lengths below 26), otherwise into single letters. `FullLen`,
`FullSplits` and `ChunkLen` are constants so that TLC can use smaller ones; one
run uses the code's. `Word` is the size of `uint64_t`: `NumReps` and `elim_`
wrap there.

With `order_` that covers the cells `PickABucket` finds nothing only when the
board is single. It then goes on to read `Cell(-1)`; what it reads is not used,
and the model returns at once.

### BucketBound and Boggler

Each call in progress is a frame, with the neighbours it has still to visit and
the score it has gathered. A node of the trie is the sequence of letters that
leads to it; `marks` gives each word the number of the run that last counted
it. `used` is toggled, as in the code (`used_ ^= 1 << i`), not assigned. The
dictionary (`Words`) is a constant set. `Grid` holds the lists of neighbours: the loops over `dx` and `dy`,
and the unrolled switches of `3x3/ibuckets.cc` and `4x4/boggler.cc`,
case by case. `VisitsAssumption` says that the list in use names each neighbour
of each cell once; TLC evaluates it for each instance.

`DictionaryScore` is the reference: the words with a path of adjacent, different
cells, by enumeration of all paths.

### BreakAll

`BoardFromId`, the flips, the rotation, `IsCanonical`,
`GenerateAnalogues` (the set of what its vector has, in no order) and `Canonicalize`
are functions on encoded boards. `good_boards`, to which the loop appends and which it prints at
the end, is a bag: nothing depends on the order. `Id`, `X`,
`Y` are those of `BoardUtils`: cell x, y is number `y * Width + x`. The solver's
`Column` and `Row` of `Grid` have x, y at `x * Height + y`. The symmetries in the
properties (`SameBoards`) are those of the solver's grid. The variable `version`
says which program runs: the present one with the letters' digits of
`BoardFromId`, or the paper's, which compares numbers along its own list of images.

### BucketBoard, BreakingTree and TreeTool

`bd_` is rows of bytes with a NUL, and what is behind the NUL stays
(`StrCpy`). `Progress` is what `ParseBoard` has written after each of the characters, and
`Parse` what it leaves: when it fails, the state it had reached. `caller` says what the
caller is at. `LoadChecked` and `LoadUnchecked` are the callers
that look at the result and those that do not. `Narrow` and `Restore` are what
`SplitBucket` and `tree_tool` do to a cell. The reference for all of it is written without
the parser: a text is cut into `Pieces` at its spaces, it is `Legal` when there is one for
each cell, of letters and '.', none too long, and `ClassNamed` is the class.

A tree is a record with its children in a sequence, `Null` for a letter that leads
nowhere. A path takes each cell once, so that no tree has more than `Levels` levels: two for each
cell and the root. `Trees[h]` are those of at most `h`, and what calls itself in the code
(`DoAllDescents` and `DoDFS`, `RecomputeScore`, `Prune`, `AttachPossibilities`, `ScoreWithForce`) is
defined for each number of levels, or of cells not on the path, from the number before. `TreeTool` extends `BucketBoard` and has `BreakingTree` as an instance: one solver has a board and a tree, `BuildTree`,
`PruneTree` and `AttachToTree` may come in any order and go on after the board was
narrowed, restored or replaced. `used_`, which is an argument in `BreakingTree`, is
what `BucketBound` shows it to be.

### Dictionary and TrieCompaction

A round of the loop is one step; `eof` is what `feof` says, `line` the one buffer.
In `TrieCompaction` an address is one word of memory; the last one, `PastEnd`, is the
word after `raw_bytes`. `Compact` takes one `WorkItem`, writes its mark and bits and, one letter
after the other, places a child and the pointer to it. Only then does the code look whether there
was room (`trie.cc:71`), so a node that is given up has the letters and children up to and
including the one that was too much (`Allocated`); `pc` is then `"null"` and memory stays as it
is. The queue, a local variable, is kept to say which nodes were not written. `Descend`
and `Mark` work on the memory alone. Both callers are in it: `DictionaryFromFile`, which filters and
rewrites words, and `CreateFromFile`, which does not.

### Annealer, Neighbors

Each random number of the annealer is a choice. The temperature falls with the
generations and matters to `AcceptTransition` in three ranges only: a loss may pass;
none can, as `exp` of -1 / T and less has underflowed to 0 (`FrozenAt`); T itself is 0
(`ColdAt`), and an equal score is a NaN. A frame of `Neighbors` is a level of
`EditDistance` with its place in the loops; `entry`, the board it was called with, is
kept for the properties. Its state and actions are named for the buffer (`BufferInit`,
`BufferNext`), as one module of proofs has both.

### MultiBoggle

A call is one step. The `TwoHole` and the `OneHole`s belong to the caller, who may
fill holes and merge in any order, and parse the next board on the same trie with
all its marks. `one` has no second filling of a `OneHole` that was not cleared, as
in the tests. A new object on a trie needs `SetAllMarks` first
(`NewMultiBoggle`): its `runs_` begins again. A call of `DoDFS` is what the code hands it
(cell, length, node, `used_`), `GoesOn` are the calls it makes itself, and `DoDFSs`
gathers all of them by depth, no deeper than the board has cells. The action of
`ParseBoard` and `SetCell` is `ParseBoards`, and the definitions that `Boggler` has too have
`Multi` before their names, as one module of proofs has both.

## 3. Runs

| Run | Instance | Question |
|---|---|---|
| `breaker_small` | 1x3 board, 6 letters, full cell 6, quarters from 5, `MaxBound` 3, `Word` 8, five classes, three orders | everything about `Break` |
| `breaker_code` | 2x1 board, 26 letters, the code's 26 / 9 and groups, `Word` 32, `record_progress`, one `Break` | exactness and depth with the code's thresholds; no class is considered twice |
| `bucket_bound` | 3x3, the unrolled switch, 6 words, 4 classes, 4 bail-outs, 2 runs | the contract of `UpperBound` |
| `tree_tool` | 3x2, the loops, 3 letters, 4 words, cells of 4 bytes, 7 texts, 2 of them parsed one over the other | parsing, restoring, and the tree against the bounds of narrower classes |
| `boggler` | 4x4, the unrolled switch, 6 words, 5 strings, 3 scores | `Score` is the score by the rules |
| `break_all` | 3x3, two letter classes, best score 1, both versions | nothing is missed on a square board |
| `dictionary` | 4 letters with q and u, words to 5 letters, 7 files with and without the last newline, 24 words of memory | loading, and the trie in memory |
| `annealer` | 2 squares, 3 letters, 2 runs, `max_stall` 2, `FrozenAt` 1, `ColdAt` 3 | the result of a run, and its end |
| `neighbors` | 3 letters, boards of 1 to 3 cells, depth 1 to 3 | what is printed, and the buffer |
| `multiboggle` | 4x4, the switch, 7 words, 3 boards, 2 letters for the corners, 2 runs | partial and merged scores, marks |
| `breaker_repeat`, `break_all_wide` | 2x1; 3x4 | the findings below |

**What `breaker_small` checks.** `NothingLost`: at every moment a board over the
best score is reported, under attack, or in a split that a frame has still to
take. `FailuresExact`: at the end the failures are those boards and no other.
`NoDuplicateFailures`: even when the details were used before. `RepsAccounted`:
`elim_`, the failures and the classes still to come make `orig_reps_`, modulo
`Word`. `FramesNest`: the shared board is at each attack the split last taken of
the innermost frame and a refinement of all the outer ones. `ImplementsSearch`: each step
is one of `ClassSearch` or stutters, with what the frames have still to take as
`pending`. `Terminates`. `breaker_code` asks `FailuresExact` and `DepthBound` with the
code's thresholds (the stack is no deeper than the splits the cells allow), and
`ConsideredOnce`: no class of the record is there twice.

The solver's answer is any pair of bounds that the contract allows, so the run
covers loose bounds, exact ones, and either bound being the smaller, at every
attack. One constraint is not obvious: on a single board `sum_union` is at most
its score. Without it a board whose bound is loose would be reported though its
score is low. The code relies on it silently, and `ExactOnBoards` and
`KeepsContract` check it.

**`bucket_bound`.** `PathTracked` ties `used_` (`UsedIsPath`), the node and the
length (`NodeIsPath`) to the path of calls. `UnionCountsMarkedOnce` ties `sum_union` to the
marks of this run alone. `KeepsContract` and `ExactOnBoards` compare the result
with the enumeration of the boards of the class. The classes have a letter twice
in a cell and in two cells, an empty cell, and a q; bail-out 0, 1, 3
stop early at different roots and 100 never.

**`boggler`.** `PathTracked` (of `PathInUse` and `ScoreIsMarked`) and `ScoreExact` are
the same for a single board. Two of the strings do not parse, one after it has set some cells.
The neighbours that no search of these runs goes by, the loops of
`3x4/boggler.cc` and of `4x4/ibuckets.cc`, are checked against adjacency by
assumptions in `MCTreeTool` and `MCBoggler`.

**`tree_tool`.** `ParseExact`: the parser accepts the texts that name a class that
fits, as defined from the header alone, and leaves that class whatever stood in the
rows. `WorksOnItsClass`: a caller that looks at the result never goes on with a
mixture; the others do so only for a text that fails. `RestoresCopy`: the text that
`SplitBucket` keeps is read back, to the same class, and its `exit(1)` is not reached.
`IndicesOnePlaceLate`: `Possibility` numbers each letter of the class once, and
`indices_` has these numbers, one place late, under the conditions it states.
`RecomputedIsBound`, `ForcedIsNarrowed`: the tree's score, with no letter forced or one, is the bound of
the class with this letter, in whatever order `Prune` and `AttachPossibilities` were
applied. The score of a class is computed along another code path, without the tree's
operations.

**`break_all`.** `NothingMissed` at each step: every board over the best score of
the class just passed is among the reported, turned or mirrored.
`ReportedOnce`; `OneCanonical` (of the images of a class exactly
one is broken, and it is what `Canonicalize` gives for each of them).

**`dictionary`.** `WordsLoaded` compares the trie with the file: every word that
Boggle allows is there (`EveryWordLoaded`), and no other but for the exceptions of the
last round (`OnlyWordsLoaded`). `BlocksDisjoint`: no word of
memory is used by two nodes, and none past the block as long as `CompactTrie` does not give up;
when it does, at most the first word of one node, its `bits_`, is past the end. `BreadthFirst`: longer words have
higher addresses. `SameWords`, `MarksKept`: what `FindWord`, `Size`,
`NumNodes`, `ReverseLookup`, `Mark` and `SetAllMarks` make of that memory.
The memory is enough for some files and not for others; one fills it exactly, so that the next
node is placed at its very end, with a letter of its parent left to write.

**`annealer`.** `FinalMatches`: the score printed is that of the board printed, also in
the second run and although the first board of a run is never scored. `RunIsBounded`
and `RunEnds`: only a board of one letter keeps a run from its end. `NoLossWhenFrozen`: what
is accepted at low temperatures.

**`neighbors`.** `RestoresBoard`: at every moment each level sees its own board with the
one change it has got to. `EveryBoardInReach`: what is printed, against the distance.

**`multiboggle`.** `MarksAreTheBoards`: between calls the marks are the words of the
board without its corners, and no high bit is set. `PartialScoresExact`,
`MergedScoreExact`: every score is that by the rules, for the holes filled so far.
The last leaves out merges in which both corners find a word with a q, whose length
`ReconstructLength` gets wrong, as its comment says.

**Bounds, and why they are enough.** `MaxBound` is over `BestScore` by at least
one and as large as the best score of a board, so that every comparison has both
outcomes and an exact bound exists. `MaxConsidered` only cuts the record of
classes, which `breaker_code` has alone. `Word` is small enough for
products to wrap in `breaker_small` (a class there has 12 boards, `Word` is 8).
Without a record the number of calls of `Break` is not bounded at all, and the
caller may parse and set orders in between. `MaxRuns` 2 and `MaxBoards` 3 let a run
meet the marks of a whole one and of one that was cut short. `Run` 8 is more than the
scores made, so marks do not wrap in `boggler`. The dictionaries share prefixes, use a
q, and have words that are found in more than one place. `MaxLoads` 2 lets each text be
parsed over the remains of each other; `CellSize` 4 is short enough for a cell to be
too wide. 24 words of memory hold the smaller files and not the two larger, whose last
node begins within them and ends past them (one file, unfiltered), or begins at `PastEnd`, and
`RootSize` is the largest root. `MaxMutations` 2 lets a generation come back to the
board it began with; `FrozenAt` and `ColdAt` come within a run, so that each range of
temperature is met. Depth 3 in `neighbors` has a level that is neither the first nor the
last. The boards of `multiboggle` have a word away from the corners, words through
one corner, through either and through both only.

**Deadlock.** `CHECK_DEADLOCK FALSE` stands in the configurations of `Breaker`,
where the process may end in `"exit"`, or `Break` no more be called when the
record is full, of `TreeTool`, whose callers exit on a text that does not parse or are
done, and of `BreakAll`, `TrieCompaction`, `Annealer` and `Neighbors`, which end.
`bucket_bound`, `boggler` and `multiboggle` check it: the caller can always parse again.

**Fairness.** Stated where a liveness property uses it. `Breaker` has weak fairness
on the actions of the running search and on no other: one thread runs
the call to its end, with no lock and no input. The caller's actions have none: it
need never call again. `Next` as a whole is fair in `Annealer`, a program that goes on
until it ends. Its random numbers have no fairness: `RunEnds` holds for any numbers,
except that a loop which picks until two letters differ is one choice among the picks
that do, and that a generation makes at most `MaxMutations` mutations.

**Types.** Each module has its `TypeOK`. It is a property of its own in
`breaker_small`, where a theorem states it, and elsewhere the first conjunct of one
of the properties: `PathTracked`, `RecomputedIsBound`, `NothingMissed`,
`BlocksDisjoint`, `FinalMatches`, `RestoresBoard`, `MarksAreTheBoards`.

**Mutants.** Each property is run against a plausible bug in the code, written
beside the definition it replaces and marked `a mutant`.

## 4. Proofs

All in TLAPS, with no step left open: for every size of board, alphabet, dictionary,
score function, partition threshold, word size and number of runs.

| Theorem | Says |
|---|---|
| `BreakerProofs!SearchCorrect` | the abstract search `ClassSearch` reports exactly the hot boards |
| `BreakerProofs!TypesHold`, `TypeInvariant` | `TypeOK` and the inductive `IInv` |
| `BreakerProofs!Refinement` | `Spec => ImplementsSearch`: initial states and every step map |
| `BreakerProofs!NothingIsLost`, `FailuresAreExact` | `NothingLost`, `FailuresExact`, from the two above |
| `BreakerProofs!LettersStayRemoved` | `FramesNest` |
| `BreakerProofs!NothingIsReportedTwice` | `NoDuplicateFailures`, if no cell has a letter twice |
| `BreakerProofs!DepthIsBounded` | `DepthBound` |
| `BreakerProofs!BoardsAddUp` | `RepsAccounted`, if no cell has a letter twice |
| `BreakerProofs!NothingIsConsideredTwice` | `ConsideredOnce`, likewise, for one Break |
| `BreakerProofs!EveryClassReadsBack` | what `as_string` writes of a class that fits, `ParseBoard` reads as that class |
| `BreakerProofs!BoardInvariant` | the inductive `BoardInv` of `BucketBoard` |
| `BreakerProofs!ParsesTheClasses`, `CheckedWorkIsOfTheClass` | `ParseExact`, `WorksOnItsClass` |
| `BreakerProofs!CopyIsRestored`, `NumbersAreOnePlaceLate` | `RestoresCopy`, `IndicesOnePlaceLate` |
| `BreakerProofs!RecomputedScoreIsBound` | `RecomputedIsBound` of `TreeTool` |
| `BreakerProofs!ForcedScoreIsNarrowed` | `ForcedIsNarrowed` of `TreeTool` |
| `BucketBoundProofs!PathIsInUse` | `PathTracked` of `BucketBound` |
| `BucketBoundProofs!UnionIsOfTheMarked` | `UnionCountsMarkedOnce` |
| `BucketBoundProofs!BoundInvariant` | the inductive `BoundInv` |
| `BucketBoundProofs!BoundsEveryBoard`, `ExactOnOneBoard` | `KeepsContract`, `ExactOnBoards` |
| `BogglerProofs!PathIsInUse`, `PathIsTracked` | `PathTracked` of `Boggler`; its part about `used_` also when `runs_` wraps |
| `BogglerProofs!ScoreIsExact` | `ScoreExact`, while `runs_` has not wrapped |
| `BogglerProofs!MarksAreExact` | `MarksAreTheBoards` of `MultiBoggle` |
| `BogglerProofs!PartialsAreExact`, `MergedIsExact` | `PartialScoresExact`, `MergedScoreExact` |
| `BreakAllProofs!SquareNothingMissed`, `SquareEveryBoardFound` | `NothingMissed` and `EveryBoardFound`, on a square board |
| `BreakAllProofs!PartitionReportedOnce` | `ReportedOnce`, if no letter is in two classes |
| `BreakAllProofs!OneOfEachFamily` | `OneCanonical`, on a board of any width and height |
| `TrieProofs!EveryWordIsLoaded` | `WordsLoaded`, for files of any length |
| `TrieProofs!NodesApart`, `LongerIsHigher` | `BlocksDisjoint`, `BreadthFirst`, at every moment of `CompactTrie` |
| `TrieProofs!CompactHasTheWords`, `MarksStay` | `SameWords`, `MarksKept` |
| `LocalSearchProofs!AnnealerInvariant` | the inductive `IInv` of `Annealer` |
| `LocalSearchProofs!ScoreIsOfTheBoard`, `RunsAreBounded`, `FrozenNeverLoses` | `FinalMatches`, `RunIsBounded`, `NoLossWhenFrozen` |
| `LocalSearchProofs!BufferIsRestored` | `RestoresBoard` of `Neighbors` |
| `LocalSearchProofs!AllBoardsPrinted` | `EveryBoardInReach`, with three letters or more |

`DataTheorems` has lemmas about sequences, arithmetic in machine words, folds and sums
over sets, `ScoringProofs` about words, paths and scores; `BreakerProofs` begins with
those about classes and `NumReps`.

Together they close the chain from the trie's search to the break: `Breaker`'s
theorems hold for any bound that satisfies `BoundsClass`, and `BoundsEveryBoard` says
that what `UpperBound` returns does. The step from one to the other is by the same
definition (`BoardClass!BoundsClass`), with `DictionaryScore` for `Score`.

**Breaker.** `TypeOK` is not inductive: `PickABucket` could return a
cell that is not there, and a split could be empty or wider than the cell. `IInv`
adds that every cell of the board and of every frame's copy is `CellOK` (no longer
than `FullLen`, and with exactly the letters of the fixed groups if it is that
long), that the splits of a frame cover the letters of its cell and no others, and
that `order_` covers the cells; of the default order `DefaultOrderCovers` proves it
(`BeforeIsTotal`: the sort has no ties). The lemmas about the code's split are
`FullSplitsCover`, `QuartersCover` (which needs `QuarterBounds`, the arithmetic of
the rounding) and `SingletonsCover`; `SplitReps` lifts them from letters to
boards: the boards of the splits together are the boards of the class.
`PickedCellCorrect`: with nothing to split the board is single.
`EliminatedHasNoHotBoard` and `FailureIsHot` use the contract of the bound. With
these, `NextRefines` shows that `Split` and `TakeSplit` leave the pending boards
as they are, `Eliminate` and `Fail` examine some of them, and the caller's actions
map to themselves. `NothingIsLost` and `FailuresAreExact` then follow from the
abstract invariant by refinement.

The others each need an invariant of their own, on top of `IInv`. `NestInv`:
what a frame puts in its cell are letters of that cell, so that a board put back and
narrowed again stays within all the frames below. `ApartInv`: the splits of a frame are
apart, and so are what is reported, what is under attack and what each frame has
still to take; without the parts about pending boards a board could be reported now
and again later. `DepthInv`: a split allows one split less than its class
(`BoardDepth`, by the length of the cells), at each open frame and not only at the top.
`RepsInv`: the counts add up, and no class on the way has an empty cell if the first had
none. A step moves boards from one count to another; for `Split` this is `SplitsCount`:
`NumReps` is linear in the length of each cell (`NumRepsOfCell`, though the loop cuts
its product to a word each time), and the lengths of the splits add up to that of the
cell (`LengthsAddUp`), which takes that no letter is lost and none is there twice.
`OnceInv`: each class still to come is `Behind` each that was considered, apart from it
or of less depth, so it is another one (`BehindIsOther`).

**BucketBoard.** The parser and the reference go through the text together. `ParseFollows` is by
induction over the characters, one lemma per kind of character (`FollowsNext`, `GoodNext`,
`NumberedNext`): `ParseBoard` has not failed exactly while the pieces so far are `Good`, the
start of a class; then its rows hold those pieces (`Follows`), the last of them open at the place that
`PlaceAfter` gives (a '.' sets it back to 1 without a look at what stands before), and,
as long as no '.' hid a letter, the numbers in `indices_` count its letters (`Numbered`). With the end of
the text (`EndOfTextIs`, `LegalIs`) this is `ParseIs`: what is accepted, and the class, for any
rows that were there before. `AsStringIs` cuts what `as_string` writes into the cells
again (`PiecesWord`, `AsStringPieces`), and the two together are `EveryClassReadsBack`. `BoardInv` then has the
copy as the text of a class, so that `Restore` undoes every `Narrow`; that the text
that was loaded had room for its cells (`ClassRoom`) is why its copy always parses. After
an unchecked load of a text that fails, the copy may be one that does not parse, as a row that was never
ended runs on to `CellSize` letters: that is the case in which the `exit(1)` of
`SplitBucket` is reached, and the theorem says it is the only one.

**TreeTool.** `TreeInv` adds to `BoardInv` what the tree is, whatever was done to it: its root is a
`RootNode`, its class one that was parsed, and `IsTreeOf` holds. That has three parts. Every node is
`LocallyGood`: its bound is what its children's bounds make, and the children of a choice are letters of its
own cell. The root's bound is `max_nomark` of the class. And `ForcedScores`: for every cell and letter, the
score that goes to the bottom of the tree, taking this letter wherever the cell is met, is the `max_nomark` of
the class with only this letter there. It is stated of scores without the short cut, since it must hold before
`AttachPossibilities` was called and not be disturbed by it; when it was called, `Covers` holds of
every node as well: its possibilities have its own cell and those of its children.

`TreeForced` shows `ForcedScores` of a tree just built, by going down the two trees side by side:
both choices at the forced cell have one letter to take, and elsewhere they differ by nothing but the place of a
letter. `PruneKeepsScore` and `AttachKeepsScore` show that the two operations do not change
it: what `Prune` takes away has bound 0 and scores 0 with any letter forced (`GoodZero`), and as it is found by its number, a
letter is found wherever it now stands. `ForceMayStop` shows that under `Covers` the
short cut is harmless: below a node that does not have the cell among its possibilities nothing is
forced (`NotThereScore`), and its bound is its score. `GoodBound` gives the recomputed score. All of these go by
induction over the levels. `TreeInv` quantifies over all score functions and so cannot be an
invariant of a run; the run checks the two properties.

**BucketBound.** The two functions call each other, so that the stack has their frames
in turn; the proofs speak of `Calls` (of `DoAllDescents`) and `Searches` (of
`DoDFS`). `PathInv` is `PathTracked` in inductive form: each call stands on a neighbour
of the search below it, each search on the node one letter further, on cells that
are all different and make up `used_`. `UnionInv` has the marks no higher than `runs_`
and the sum over those equal to it; a run that was cut short leaves marks of its own
number only. `ClassInv`: a marked word is one that some board of the class might spell, which
on a class of one board is that board.

`CountInv` is the value of an unfinished computation. Fix a board `r` of the class. The
searches in progress that `r` fits (`Fits`: it has their letters) cut `r`'s paths in those
that are done and those that are ahead: `Beyond` the first `m` cells, with a
next cell that is no longer `Left` to visit. `SearchOK` says of a search that its `score` is no
less than what `r`'s paths beyond it, done so far, score, a word as often as it is
spelled, and that all of these words are marked; `CallOK` says it of a call's `max_score`, for each letter `Tried`; and
`max_nomark` has the paths that begin at a cell `Before` the present root. The
maximum over letters and the sum over neighbours are both right because the paths of
`r` take one letter per cell and are apart by their next cell (`CountedBoth`,
`CountedOne`). `Counted` states the two bounds, by points and by marks, of one set of
paths. At the end `Before` is all paths, and both bounds are over the board's score
(`CountedAll`). A word found along two paths counts once in the board's score and twice in
`max_nomark`, which is never exact; that `sum_union` is, on one board, takes `ClassInv`.

**Boggler.** The same, simpler: one letter per cell. `FoundInv` says that every path of the
board is before the root, in a part of the search that a frame has still ahead (`Ahead`), or has its
word marked. `MarkInv` needs that `runs_` has not wrapped; `PathInv` does not.

**MultiBoggle.** A call of `DoDFS` goes along a trail (`Trails`): a path whose letters begin a
word, and that may end in an empty cell but not pass one. `FromEachCellIs`: the calls that
`SolveTwoHole` makes are those at the ends of all trails (`DoDFSsSound`, `DoDFSsComplete`, by
induction over the depth). `FromPathsIs`: carried on from the paths that were kept for a corner,
the calls are those at the ends of the trails through that corner, though trail and node were
handed over as a length, a node and a set of cells (`ViaStarts`, `FirstFromPath`). So the words found are
those of the board that has a path through the corner (`FilledWords`), and through both
(`TwiceFilledWords`); a word with no path through a corner is there without its letter. None of the three
properties is inductive: `MultiInv` adds what paths are kept, which `MarksAreTheBoards` and the scores do
not say, and ties the partial solutions, their extra words and what was merged to the
board outside the corners, whatever is in them by now (`SolvedStays`). A score is a fold over
a set of words by the lengths they were found with (`ScoreFoundIs`), and `ReconstructedScore`
shows that the length by address gives no other score to a word without a q.

**Annealer.** `FinalMatches` and `RunIsBounded` are not inductive. `IInv` adds the score's
relation to the last board in every state, and `StallIsPaid`: a generation accepted when
cold is paid for by a score that rose by one at least, and `max_stall` more are allowed for
each.

**Neighbors.** `StackInv` says that every level but the innermost is in the middle of an edit or a swap
(`Called`), and that what it sees, the board of the level above it or the buffer, is its own
board with that change (`Sees`); a level that returns leaves the buffer as the one below it
expects. `ReachInv` says that the boards printed, and those that some level of the stack has still
ahead (`Ahead`) followed by as many changes as there are levels to come (`Walk`), are together
exactly those that `depth` changes make of the seed; one lemma per action shows that it moves a
board from the second set to the first, to another level, or none. That the boards in reach of exactly `d` changes are all those
within `d`, but for the seed when `d` is 1, is `OneMore` and `Between`: with three letters, a change can be
made by two.

**BreakAll.** `OneOfEachFamily` has three parts. A board and its number determine each other
(`PowerIs`, `FromIdOnce`: the loop of divisions and Horner's rule; the loops are recursive
functions, whose equations are proved by writing the induction out). The images that the code
walks through are closed under its own flips, and on a square board under the rotation
(`FamilyClosed`, `FlipTwice`). And `LessThan`, which goes by the first cell that differs, is a
total order on boards, so that a family has one least member (`LessThanTotal`, `LeastBoard`,
`LeastIsCanonical`); for the paper version, which compares numbers, `LeastNumberIsCanonical`.
For `SquareNothingMissed` the invariant is `FoundSoFar`: of every class before `idx`, broken or
skipped, each board over the best score has an image among `good_boards`. A class that is skipped has
an image with a lower number (`SkippedIsBefore`, `NumberedBefore`), which by induction is
accounted for; its boards are the images of the boards of the skipped class, and score the same
(`FailureTurned`, from `SquareImages` and `SameBoardsIs`, where `Width = Height` is needed: only
then are the images that `BoardUtils` makes symmetries of the grid that is scored).
`PartitionReportedOnce` needs `ReportedIsPassed`: what is reported belongs to a class before
`idx`, and a board belongs to one class (`OneClass`).

**Dictionary and TrieCompaction.** `LoadInv` says what is loaded after each round of the loop:
the words of the lines read, and of the last round what the buffer held. That a word
which is rewritten is found again is `BogglifySpells`: spelled out, with a u after each q,
it is the word of the file (`FlattenAppend` takes it letter by letter; the condition that each q
has its u is what `IsBoggleWord` tests). `ReadInv` ties the position in the file to `eof`.

`MemInv` is about a `CompactTrie` in progress. A node's block has its word of bits, its mark and
one word for each child, and the code goes to a child's word by the rank of its letter among
the bits that are set. `InOrderIs` says that the letters taken in the order of their numbers are
those ranks; `NodeIs` that the words of a node, once written, are what `Descend` reads there. `BlocksInv`:
the blocks of two nodes that have a place are apart, also those that were allocated but
not yet written, whose bits are still 0, as the size that `AllocatePT` adds up comes from the tree and
not from memory. All of a written node, and the first word of one that
waits, is at most at `PastEnd`: as the code looks after each child, the child before was not too
much (`AllocatedIs`, `GivenIs`), and its own place is where that one ended. `WrittenInv`: a node that waits has
no bits, a written one only those of its letters; that is all that is left of a node that was
given up, and `InUseIs` needs no more. `ContentsInv`, which is kept up until then: a written node is complete and
what was written is still there. `LevelInv`: the queue of
`WorkItem`s is in order of length and of address, with at most two lengths in it, so that the next address goes
to a node no shorter than any before (`QueueStep`, `MemoryStep`). `ClosedInv` and `PlacedInv`:
what has a place is done or queued, a child only if its parent is done; when the
queue is empty all nodes are done (`AllPlaced`). Then `FindWordIs` and `WalkIs` follow the
letters of a word, or all letters, through memory, and meet exactly the nodes; and `MarkSlot`: the word that holds a
node's mark is no other node's, nor a pointer.

**Paths without recursion.** `Paths[n]` of `Scoring` is a recursive function. `PathsAre`
proves it equal to the set of sequences of `n` different adjacent cells, by induction
over the length with the property written out; sums over words are folds, whose
equations are in `DataTheorems`.

**Assumptions.** Named, beside the constants, evaluated by TLC in every run:
`SizeAssumption`, `LettersAssumption`, `WordAssumption`, `ScoreAssumption`,
`GridAssumption`; `CornersAssumption`, `BoardsAssumption` and `DictionaryAssumption` of
`MultiBoggle` (the board has two corners and at most 16 cells; boards are of letters, which the
mark of an empty cell is none of; words are of letters, of three letters at least and one of
four, see the findings); `SplitAssumption` (each fixed group is shorter than a full cell and
not empty, quarters start at 4 letters or more, so splits shrink, and a quarter is too
short to be split into quarters again); `ClassesAssumption` (the classes are boards
whose cells are `CellOK`); `VisitsAssumption` (the list of neighbours);
`WordsAssumption` (a finite dictionary, no word longer than the table of
scores, which `IsBoggleWord` sees to); `CallerAssumption` of `BucketBound` and
`StringsAssumption` of `Boggler` (boards and words are of letters, bail-outs are
numbers); `PartitionAssumption` of `BreakAll`; `FilesAssumption` of `Dictionary` (what the
lines of a file and an uninitialised buffer are made of) and `MemoryAssumption` of
`TrieCompaction`; those of `Annealer`; `SeedsAssumption` of `Neighbors`; those of
`BucketBoard`: the space, the '.' and the NUL are no letters and not each other, a row has
room for a '.' and `indices_` for each letter of it (27 bytes and 32 entries in the code),
and a text is any sequence; `TreeAssumption` and `TreeWordsAssumption` of `TreeTool` (the list of neighbours,
that `Null` is no node, and as for `WordsAssumption`). `ClassesAssumption`
is not enforced by the code: `ParseBoard` accepts 26 letters with one twice, and
`PickABucket` would then examine a letter the cell does not have.

**Hypotheses.** What the code neither checks nor ensures is a hypothesis of the theorem
that needs it and not an assumption of the model; the MC modules assert each of
their instances. `OrdersCoverCells` (the theorems about `Breaker`): each order that
the caller passes and `SetPickOrder` accepts names every cell in its first
`cells_` entries. `SetPickOrder` does not check that (see the findings), and
`breaker_repeat` shows what happens without. `NoLetterTwice`
(`NothingIsReportedTwice`, `BoardsAddUp`, `NothingIsConsideredTwice`): a cell with a
letter twice is split into two equal parts, which are considered twice, and what is over
the best score in them is reported twice. `MaxConsidered <= 1`
(`NothingIsConsideredTwice`): `Break` does not clear `boards_considered`, so that a
second Break on the same details may consider the same class again.
`RunsDoNotWrap` (`PathIsTracked`, `ScoreIsExact`): see the hazards. `Width = Height`
(`SquareNothingMissed`, `SquareEveryBoardFound`): on other boards it is false, as `break_all_wide`
shows. `ClassesDisjoint` (`PartitionReportedOnce`): `UsePartition` does not check it
("TODO(danvk): check that letters is actually a partition.", `board-utils.cc:14`).
`NumLetters >= 3` (`AllBoardsPrinted`), which the code's 26 satisfy: with two letters and one cell two changes
lead back to the seed, and the other board is not printed for an even depth.

**Only model-checked.** Liveness (`Terminates` of `Breaker`, `RunEnds` of `Annealer`),
which is out of reach of the prover. All invariants that a passing run checks are stated by a theorem.
What recursive functions and folds compute for every input is proved where the induction can be
written out, over a number (`StepsUp` in `DataTheorems`).

## 5. Findings

With a run that shows them:

1. `SetPickOrder` accepts an order in which a cell is named twice, if it is longer
   than the board; cells past the first `cells_` entries are never split and a whole
   class is reported as one board (`breaker_repeat`). The repository's scripts pass no
   such order.
2. On 3x4, `BoardUtils` and the solver number the cells differently. `IsCanonical`
   flips a grid that is not the one scored, and `--break_all` skips boards over the
   best score for good (`break_all_wide`). `--break_all --size 34` does this.

Met while modelling, and stated in the models as the code has them:

- `NumReps` is 0 for a class with a `.` cell (`bucket_solver.cc:91`), which has boards
  ("Number of individual boards included", `bucket_solver.h`). `RepsAccounted` leaves
  such classes out.
- When `runs_` wraps to 0, words not marked yet look counted
  (`boggle_solver.cc:87`; the comment there suspects it).
- `--filter_canonical` is never read; the loop always filters
  (`ibucket_breaker_main.cc:173`; the flag's text and that of `--break_all`, lines 27
  to 33, say otherwise).
- `neighbors` prints a board more than once from depth 2 on, does not normalise it,
  and prints the board it began with, where the head of `neighbors.cc` has the output
  normalised and uniqued; at a depth below 1 the recursion does not end.
- `indices_` is written one place late (`bucket_solver.cc:69`), so that
  `PossibilityIndex` needs the letter's place plus one.
- A dictionary that ends in a newline has its last word handled twice. After
  `BogglifyWord` has rewritten a last word with "quu", a second word enters the trie;
  with an empty file, what the uninitialised buffer holds.
- The statistics of the annealer are never initialised (`optimizer.cc:98`; only
  `transitions` is reset, `num_iterations` set), so that `anneal --print_stats` prints what the memory
  held plus the counts of all runs so far. They are left out of the model. And
  the comment at `anneal.cc:19` has an equal score accepted always: at T = 0 it is not,
  which is what bounds a run (`RunIsBounded`).
- `CompactTrie` looks whether it has used too much memory after it has placed a node
  (`trie.cc:71`), not before. If the nodes so far fill `raw_bytes` exactly, the next one's
  `bits_` are written just past its end before `CompactTrie` returns `NULL`; otherwise the node
  begins within it, and only what it would have used is outside. `BlocksDisjoint` says
  that it is never more than this one word, and the run `dictionary` meets both cases. The block is
  of 10 MB and the comment at `trie.cc:44` leaves its size open.
- `MultiBoggle` gives words with a q a wrong length when it subtracts them (its comment
  says so), and all words of three letters if the dictionary has none of four
  (`DictionaryAssumption`).

## 6. Not modelled

Most of the lines under `src/` are not this program's: `gflags`, `glog` and `mtrandom`
are vendored, and the Go and Java directories are ports of the `Boggler` and the
`Trie`. What is left is some 4500 lines, of which progress output and times, option
parsing, printing, tests, performance tests, and the drivers that read a line, call one operation and
print (`solve.cc`, `random_boards.cc`, `normalize.cc`) are not modelled. The hard
buckets are abandoned and written against classes that are no longer there. Of the
paper version the numbering and the loop are in `BreakAll`; its `Break` and its bound
are near-copies for 3x3 of those in `Breaker` and `BucketBound`, with a fixed order of
cells, and not modelled again. Writes past the end of an array (`board_rep_`,
`max_len_addr`) have no defined effect and are not followed; nor are a wrap of
`runs_` there and its high bit after 2^31 boards, which `MultiBoggle` keeps apart.
