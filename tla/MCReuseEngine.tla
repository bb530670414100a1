---------------------------- MODULE MCReuseEngine ----------------------------
(* Model-checking instance of the engine with its CPU tier.                 *)
EXTENDS ReuseEngine

CONSTANTS b1, b2, b3, c1, c2, x, y

\* A prompt without a complete block; one complete block plus a token; and two
\* others plus a token, which have to be prefilled in two chunks: three blocks
\* for a store of two.
MCPrompts == {<<x>>, <<x, x, y>>, <<y, x, x, x, x>>}

Symmetry == Permutations(Blocks) \cup Permutations(Slots)

\* MaxTokens = 1: the sampled token ends its request whichever it is and is
\* never fed to the model, so states that differ in nothing else are explored
\* once.
PromptTokens ==
  [s \in Seqs |->
     [i \in DOMAIN tokens[s] |-> IF i <= numPrompt[s] THEN tokens[s][i] ELSE EOS]]
View == <<PromptTokens, Tail(bmVars), seqVars, queueVars, stepVars, kv, restored,
          dbVars, persisting>>
=============================================================================
