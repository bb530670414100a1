---------------------------- MODULE MCScheduler ----------------------------
(* Model-checking instances of the scheduler: what the configurations share. *)
EXTENDS Scheduler

CONSTANTS b1, b2, b3, b4, x, y

\* One complete block plus a token, and two complete blocks plus a token that
\* begin alike.
MCPrompts == {<<x, x, y>>, <<x, x, y, x, x>>}

\* The longest of these cannot fit three blocks.
MCOversizedPrompts == {<<x, x, y>>, <<x, x, y, x, x>>, <<x, x, y, x, x, x, x>>}

BlockSymmetry == Permutations(Blocks)
=============================================================================
