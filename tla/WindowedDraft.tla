---------------------------- MODULE WindowedDraft ----------------------------
(***************************************************************************)
(* The draft model with a trimmed cache (WindowedDraftRunner, sparse/      *)
(* draft_runner.py).  A row of the cache is the key and value of one       *)
(* token at one position; the model's own arithmetic is left out.          *)
(***************************************************************************)
EXTENDS Integers, Sequences

CONSTANTS
  Window,  \* window
  Margin   \* the margin of _trim (256)

ASSUME WindowAssumption == Window \in Nat \ {0} /\ Margin \in Nat

VARIABLES
  cache,   \* the rows of the DynamicCache, oldest first
  nSeen,   \* n_seen
  lastK    \* _last_k

windowedVars == <<cache, nSeen, lastK>>

Row(p, t) == [pos |-> p, token |-> t]

\* Mutated form: the oldest rows are kept.
TrimmedBack(c) ==
  IF Len(c) <= Window + Margin THEN c ELSE SubSeq(c, 1, Window)

\* _trim.
Trimmed(c) ==
  IF Len(c) <= Window + Margin THEN c
  ELSE SubSeq(c, Len(c) - Window + 1, Len(c))

WindowedInit == cache = <<>> /\ nSeen = 0 /\ lastK = 0

\* The last window tokens of a prompt at their own positions.
PromptRows(ids) ==
  LET start == IF Len(ids) > Window THEN Len(ids) - Window ELSE 0
  IN  [i \in 1 .. Len(ids) - start |-> Row(start + i - 1, ids[start + i])]

\* reset() and then prefill(input_ids).
WindowedPrefill(ids) ==
  /\ cache' = Trimmed(PromptRows(ids))
  /\ nSeen' = Len(ids)
  /\ lastK' = 0

\* What the model attends to when it is fed token t.
WindowedAttends(t) == Append(cache, Row(nSeen, t))

\* _step_tensor, inside a propose that will have produced k proposals.
WindowedStep(t, k) ==
  /\ cache' = Trimmed(WindowedAttends(t))
  /\ nSeen' = nSeen + 1
  /\ lastK' = k

\* Mutated form: one proposal too many survives.
DroppedFewer(n) == IF lastK - n > 0 THEN lastK - n - 1 ELSE 0

\* drop, the proposals that commit takes back.
Dropped(n) == IF lastK - n > 0 THEN lastK - n ELSE 0

\* commit(n): crop keeps the rows up to keep_abs.
WindowedCommit(n) ==
  /\ cache' = SubSeq(cache, 1, Len(cache) - Dropped(n))
  /\ nSeen' = nSeen - Dropped(n)
  /\ lastK' = 0
=============================================================================
