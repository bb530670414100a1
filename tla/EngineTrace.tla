----------------------------- MODULE EngineTrace -----------------------------
(***************************************************************************)
(* The one-shot attention tracer (utils/trace.py) next to the engine: it   *)
(* is armed between two steps and copies the keys, values and the last     *)
(* query of one layer from the next forward pass that looks like a cold    *)
(* prefill of one sequence.  Which layer, the optional query samples and   *)
(* the tensors are left out; a trace is the tokens whose KV it holds.      *)
(***************************************************************************)
EXTENDS Engine

VARIABLES
  armed, \* _armed
  trace  \* _trace, <<>> for None

traceVars == <<armed, trace>>

TraceInit == EngineInit /\ armed = FALSE /\ trace = <<>>

\* arm forgets the last trace.
ArmTrace ==
  /\ pc = "idle"
  /\ armed' = TRUE /\ trace' = <<>>
  /\ UNCHANGED engineVars

ClearTrace ==
  /\ pc = "idle"
  /\ armed' = FALSE /\ trace' = <<>>
  /\ UNCHANGED engineVars

\* Mutated form: a prefill with a block table is taken for a cold one.
TraceableWarm == prefillStep /\ Len(batch) = 1

\* maybe_capture's conditions: a prefill of one packed sequence without a block
\* table, which prepare_prefill builds as soon as anything is cached.
Traceable ==
  /\ prefillStep /\ Len(batch) = 1
  /\ numCached[Head(batch)] = 0

\* What the forward pass computes of a sequence.
Computing(s) ==
  SubSeq(tokens[s], numCached[s] + 1, numCached[s] + scheduled[s])

\* maybe_capture.
Capture ==
  IF armed /\ Traceable
  THEN armed' = FALSE /\ trace' = Computing(Head(batch))
  ELSE UNCHANGED <<armed, trace>>

\* The tracer is called by attention, in a forward pass, and nowhere else.
TraceNext ==
  \/ OwnersCalls /\ UNCHANGED traceVars
  \/ /\ (StepControl /\ UNCHANGED <<kv, restored>>) \/ RestoreStep
     /\ UNCHANGED traceVars
  \/ Run /\ StoreKV /\ Capture /\ UNCHANGED restored
  \/ ArmTrace \/ ClearTrace

tracedVars == <<engineVars, traceVars>>

TraceSpec == TraceInit /\ [][TraceNext]_tracedVars

-----------------------------------------------------------------------------
\* A trace is the KV of one request from its first token on, however requests
\* are batched, chunked, preempted and recomputed: all of a prompt that nothing
\* was cached of, with the tokens generated before a preemption, or as much as
\* the token budget lets into the first chunk.  Until it is taken the tracer
\* holds nothing of an earlier one.
TraceRight ==
  /\ armed => trace = <<>>
  /\ trace # <<>> =>
       \E s \in Seqs :
         /\ IsPrefix(trace, tokens[s])
         /\ Len(trace) >= numPrompt[s] \/ Len(trace) = MaxNumBatchedTokens
=============================================================================
