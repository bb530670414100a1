---------------------------- MODULE NgramProposer ----------------------------
(***************************************************************************)
(* The prompt-lookup drafter (NgramProposer, sparse/proposers.py): it      *)
(* remembers the context and, for every window of N tokens, the tokens     *)
(* that followed it; a proposal copies the commonest follower.             *)
(***************************************************************************)
EXTENDS Integers, Sequences, FiniteSets

CONSTANTS
  Tokens,
  N,        \* n
  NgramMaxK \* max_k

ASSUME NgramAssumption == N \in Nat \ {0} /\ NgramMaxK \in Nat

VARIABLES
  tokens,   \* self.tokens
  ngrams    \* self.index; a window that is not a key has no follower

ngramVars == <<tokens, ngrams>>

Windows == [1 .. N -> Tokens]

\* The tokens that follow the window key in s, in order, from position start.
Followers(s, start, key) ==
  LET last == IF Len(s) > N THEN Len(s) - N ELSE 0
      found[i \in 0 .. last] ==
        IF i = 0 THEN <<>>
        ELSE IF i > start /\ SubSeq(s, i, i + N - 1) = key
             THEN Append(found[i - 1], s[i + N])
             ELSE found[i - 1]
  IN  found[last]

\* _index_from.
IndexFrom(ix, s, start) ==
  [key \in Windows |-> ix[key] \o Followers(s, start, key)]

Unindexed == [key \in Windows |-> <<>>]

LastWindow(s) == SubSeq(s, Len(s) - N + 1, Len(s))

Count(s, t) == Cardinality({i \in 1 .. Len(s) : s[i] = t})

\* Counter(opts).most_common(1): the first one wins a tie.
MostCommon(s) ==
  s[CHOOSE i \in 1 .. Len(s) : \A j \in 1 .. Len(s) :
      \/ Count(s, s[i]) > Count(s, s[j])
      \/ Count(s, s[i]) = Count(s, s[j]) /\ i <= j]

\* The loop of propose, which ends early at a window nothing followed.
Copied(s, ix, k) ==
  LET props[j \in 0 .. k] ==
        IF j = 0 THEN <<>>
        ELSE LET p == props[j - 1]
                 opts == ix[LastWindow(s \o p)]
             IN IF Len(p) < j - 1 \/ opts = <<>> THEN p
                ELSE Append(p, MostCommon(opts))
  IN  props[k]

-----------------------------------------------------------------------------
NgramInit == tokens = <<>> /\ ngrams = Unindexed

\* reset() and then prefill(input_ids).
NgramPrefill(ids) ==
  /\ tokens' = ids
  /\ ngrams' = IndexFrom(Unindexed, ids, 0)

\* Mutated form: the last window is indexed a second time.
NoteFromAgain(s) == IF Len(s) > N THEN Len(s) - N - 1 ELSE 0

\* Where note_accepted resumes: the last window got no follower yet.
NoteFrom(s) == IF Len(s) > N THEN Len(s) - N ELSE 0

NoteAccepted(new) ==
  /\ tokens' = tokens \o new
  /\ ngrams' = IndexFrom(ngrams, tokens', NoteFrom(tokens))

\* Mutated form: a context of one window counts as too short.
MisalignedLonger(last) == Len(tokens) > N /\ tokens[Len(tokens)] # last

\* The cases in which propose notes the token it is given.
Misaligned(last) == Len(tokens) >= N /\ tokens[Len(tokens)] # last

\* propose, up to the loop that Copied stands for.
NgramAlign(last) ==
  \/ Misaligned(last) /\ NoteAccepted(<<last>>)
  \/ ~Misaligned(last) /\ UNCHANGED ngramVars

\* What propose returns from the context s and its index ix.
NgramProposals(s, ix, k) ==
  IF Len(s) < N THEN <<>>
  ELSE Copied(s, ix, IF k < NgramMaxK THEN k ELSE NgramMaxK)

-----------------------------------------------------------------------------
\* The index is exact however the context grew: the followers of a window are
\* those of all its occurrences in the context, once each and in order (the
\* order decides ties between equally common followers).
IndexExact == \A key \in Windows : ngrams[key] = Followers(tokens, 0, key)
=============================================================================
