----------------------------- MODULE StaticDraft -----------------------------
(***************************************************************************)
(* The draft model with a static ring cache (StaticDraft and               *)
(* StaticDraftRunner, sparse/static_draft.py).  Position p is written to   *)
(* slot p % Ring, nothing is ever rolled back, and a step attends to the   *)
(* slots whose position lies in the window that ends at its own position.  *)
(***************************************************************************)
EXTENDS Integers, Sequences

CONSTANTS
  Ring,        \* window
  PrefillRows, \* C of prefill: the rows it writes at once
  MaxPosition  \* max_position: the last row of the RoPE table

\* The rows of one index_copy_ have slots of their own: with two for the same
\* slot it is open which one stays.
ASSUME RingAssumption ==
  Ring \in Nat \ {0} /\ PrefillRows \in 1 .. Ring /\ MaxPosition \in Nat

VARIABLES
  slots,      \* slot_pos with the rows of kcache and vcache
  input,      \* in_id and in_pos
  captured    \* _captured: the step was recorded as a CUDA graph

staticVars == <<slots, input, captured>>

\* A zeroed row: slot_pos is -1.
EmptySlot == [pos |-> -1, token |-> 0]

Slots == 0 .. Ring - 1

StaticInit ==
  /\ slots = [s \in Slots |-> EmptySlot]
  /\ input = [pos |-> 0, token |-> 0]
  /\ captured = FALSE

\* index_copy_ of one row.
Written(ring, row) == [ring EXCEPT ![row.pos % Ring] = row]

\* Mutated form: whatever is not empty is visible.
VisibleAll(ring, p) ==
  {ring[s] : s \in {s \in Slots : ring[s].pos >= 0}}

\* valid: the rows a step at position p attends to.
Visible(ring, p) ==
  {ring[s] : s \in {s \in Slots : /\ ring[s].pos >= 0
                                  /\ ring[s].pos <= p
                                  /\ ring[s].pos > p - Ring}}

\* The ring after the chunks of a prompt, one after the other: the last row to
\* use a slot stays.
PromptRing(ids) ==
  [s \in Slots |->
     LET at == {p \in 0 .. Len(ids) - 1 : p % Ring = s}
     IN  IF at = {} THEN EmptySlot
         ELSE LET p == CHOOSE p \in at : \A q \in at : q <= p
              IN  [pos |-> p, token |-> ids[p + 1]]]

\* The inputs that prefill leaves for the capture.
PromptInput(ids) == [pos |-> Len(ids) - 1, token |-> ids[Len(ids)]]

FitsTable(ids) == Len(ids) <= MaxPosition + 1

\* StaticDraftRunner.prefill: the capture of the first one runs the step on
\* the inputs that are in place.
StaticPrefill(ids) ==
  /\ FitsTable(ids)
  /\ input' = PromptInput(ids)
  /\ slots' = (IF captured THEN PromptRing(ids)
               ELSE Written(PromptRing(ids), PromptInput(ids)))
  /\ captured' = TRUE

OnTable(p) == p \in 0 .. MaxPosition

\* step: the slot is marked before the mask is computed.
StaticStep(t, p) ==
  /\ OnTable(p)
  /\ input' = [pos |-> p, token |-> t]
  /\ slots' = Written(slots, input')
  /\ UNCHANGED captured

\* What that step attends to.
StaticAttends(t, p) == Visible(Written(slots, [pos |-> p, token |-> t]), p)
=============================================================================
