----------------------------- MODULE Generation -----------------------------
(***************************************************************************)
(* What the engine promises a client, without queues, blocks or caches:    *)
(* a request is submitted once, its completion grows token by token, and   *)
(* it is done at the first EOS or at max_tokens, whichever comes first.    *)
(***************************************************************************)
EXTENDS Integers, Sequences

CONSTANTS Requests, Token, Prompts, MaxTokens, EOS

VARIABLES
  prompt, \* the request's prompt, <<>> before it is submitted
  output, \* the completion so far
  done    \* the completion is final

genVars == <<prompt, output, done>>

GenInit ==
  /\ prompt = [r \in Requests |-> <<>>]
  /\ output = [r \in Requests |-> <<>>]
  /\ done = [r \in Requests |-> FALSE]

Submit(r, p) ==
  /\ prompt[r] = <<>>
  /\ prompt' = [prompt EXCEPT ![r] = p]
  /\ UNCHANGED <<output, done>>

Emit(r, t) ==
  /\ prompt[r] # <<>> /\ ~done[r]
  /\ output' = [output EXCEPT ![r] = Append(@, t)]
  /\ done' = [done EXCEPT ![r] = t = EOS \/ Len(output[r]) + 1 = MaxTokens]
  /\ UNCHANGED prompt

GenNext ==
  \/ \E r \in Requests : \E p \in Prompts : Submit(r, p)
  \/ \E r \in Requests : \E t \in Token : Emit(r, t)

GenSpec == GenInit /\ [][GenNext]_genVars
=============================================================================
