----------------------------- MODULE MCM11Engine -----------------------------
(* Constants of the runs of M11Engine: six tokens, two query heads.         *)
EXTENDS M11Engine

MCVocabulary == 1 .. 6

\* Even keys, so that the mean key of a block of two tokens is an integer.
MCKey == <<-4, -2, 0, 2, 4, 8>>

MCQuery == <<<<1, -1>>, <<1, 2>>, <<-1, 1>>, <<2, 1>>, <<-1, 2>>, <<1, 1>>>>

MCPrompts == {<<1>>, <<6, 5, 5, 6, 5>>,
              <<4, 2, 1, 3, 6, 4, 5, 5, 3, 1, 2>>,
              <<4, 2, 1, 3, 6, 4, 5, 5, 3, 1, 2, 6, 3>>}
=============================================================================
