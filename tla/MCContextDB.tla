----------------------------- MODULE MCContextDB -----------------------------
(* Model-checking instances of the context database.                        *)
EXTENDS ContextDB, TLC

CONSTANTS c1, c2, alice, bob, A, B

\* Contexts that share their first block, and one that does not.
MCContexts == {<<A>>, <<A, B>>, <<B>>, <<B, B>>}

MCKV(prefix) == prefix
MCPayload == MCContexts

\* A hash without collisions, and one that maps all first blocks to one value.
MCHash(block, prefix) == Append(prefix, block)
MCCollidingHash(block, prefix) ==
  IF prefix = NoPrefix THEN <<A>> ELSE Append(prefix, block)

Symmetry == Permutations(Slots) \cup Permutations(Clients)
=============================================================================
