-------------------------- MODULE MCTrieCompaction --------------------------
EXTENDS TrieCompaction

\* The letters a, b, q, u; 9 is a capital.  Of the last two files there is more
\* than fits: a node of the first ends past the end of the memory, or begins
\* there if the words are filtered; the second fills the memory exactly, so that
\* the next node begins past the end, with a letter of its parent left to write.
SmallFiles == [words : {
    <<>>,
    << <<0, 1, 0>>, <<0, 1>>, <<1, 0, 1, 0>>, <<0, 1, 0, 1>> >>,
    << <<2, 3, 0>>, <<0, 1, 1>>, <<0, 1, 1>> >>,
    << <<1, 1, 0>>, <<2, 3, 3, 0>> >>,
    << <<0, 2, 0>>, <<9, 0, 0>>, <<0, 1, 2>>, <<0, 0, 0, 0, 0, 0>>,
       <<2, 3, 2, 3, 1>> >>,
    << <<1, 0, 1>>, <<0, 0, 1>>, <<3, 0, 1, 1>>, <<1, 0, 3, 0>>, <<1, 1, 3>>,
       <<3, 1>> >>,
    << <<0, 0, 0, 1>>, <<1, 0, 3>>, <<3, 3, 3>>, <<0, 1, 0>>, <<0, 0, 0, 3>> >> },
    newline : BOOLEAN]

SmallLeftovers == { <<>>, <<0, 1, 3>> }
=============================================================================
