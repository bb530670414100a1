----------------------------- MODULE Speculation -----------------------------
(***************************************************************************)
(* Speculative decoding with one of the three drafters.  The loop itself   *)
(* is not in the repository: it is the one docs/lineB_speculative_decoding *)
(* _plan.md describes.  In a round the drafter is given the last token and *)
(* proposes up to k more, the target verifies them, the longest prefix it  *)
(* agrees with is accepted together with one token of its own.  Which      *)
(* tokens the draft model and the target choose is left open.              *)
(***************************************************************************)
EXTENDS NgramProposer, WindowedDraft, StaticDraft

CONSTANTS
  Drafters,   \* among "ngram", "windowed" and "static"
  Prompts,    \* the prompts a request may have
  MaxK,       \* proposals of a round
  MaxContext, \* the longest context a round may reach
  MaxRequests \* requests, one after the other

ASSUME SpeculationAssumption ==
  /\ Drafters \subseteq {"ngram", "windowed", "static"}
  /\ Prompts \subseteq Seq(Tokens) \ {<<>>}
  /\ MaxK \in Nat \ {0} /\ MaxK < Window /\ MaxK < Ring

VARIABLES
  drafter,
  context,    \* the prompt and the tokens accepted since
  promptLen,
  props,      \* the proposals of the round
  wanted,     \* k
  seen,       \* the rows the last step of the draft model attended to
  stage,      \* "idle", "round", "draft", "verify" or "failed"
  requests    \* the requests so far

loopVars == <<drafter, context, promptLen, props, wanted, seen, stage, requests>>
specVars == <<loopVars, ngramVars, windowedVars, staticVars>>

LastToken == context[Len(context)]

\* The position of the last token of the context.
LastPos == Len(context) - 1

\* What the drafter has been fed: the context and its own proposals.
Fed == context \o props

-----------------------------------------------------------------------------
SpeculationInit ==
  /\ drafter \in Drafters
  /\ context = <<>> /\ promptLen = 0 /\ props = <<>> /\ wanted = 0
  /\ seen = {} /\ stage = "idle" /\ requests = 0
  /\ NgramInit /\ WindowedInit /\ StaticInit

\* prefill of the chosen drafter with prompt p; the target answers with y.
NewPrompt(p, y) ==
  /\ stage \in {"idle", "failed"} /\ requests < MaxRequests
  /\ requests' = requests + 1
  /\ context' = Append(p, y) /\ promptLen' = Len(p)
  /\ props' = <<>> /\ wanted' = 0 /\ seen' = {}
  /\ \/ /\ drafter = "ngram" /\ NgramPrefill(p)
        /\ UNCHANGED <<windowedVars, staticVars>>
     \/ /\ drafter = "windowed" /\ WindowedPrefill(p)
        /\ UNCHANGED <<ngramVars, staticVars>>
     \/ /\ drafter = "static" /\ StaticPrefill(p)
        /\ UNCHANGED <<ngramVars, windowedVars>>
  /\ stage' = "round"
  /\ UNCHANGED drafter

Starts(k) ==
  /\ stage = "round"
  /\ Len(context) + k + 1 <= MaxContext
  /\ wanted' = k

\* propose of the prompt lookup.
ProposeCopies(k) ==
  /\ drafter = "ngram" /\ Starts(k)
  /\ NgramAlign(LastToken)
  /\ props' = NgramProposals(tokens', ngrams', k)
  /\ stage' = "verify"
  /\ UNCHANGED <<drafter, context, promptLen, seen, requests,
                 windowedVars, staticVars>>

\* One step of the draft model on token t at position p.
ModelStep(t, p, k) ==
  \/ /\ drafter = "windowed" /\ WindowedStep(t, k)
     /\ seen' = {WindowedAttends(t)[i] : i \in 1 .. Len(cache) + 1}
     /\ UNCHANGED <<ngramVars, staticVars>>
  \/ /\ drafter = "static" /\ StaticStep(t, p)
     /\ seen' = StaticAttends(t, p)
     /\ UNCHANGED <<ngramVars, windowedVars>>

\* propose of a draft model, up to its first step.
ProposeFirst(k) ==
  /\ Starts(k)
  /\ ModelStep(LastToken, LastPos, k)
  /\ stage' = "draft"
  /\ UNCHANGED <<drafter, context, promptLen, props, requests>>

\* One more proposal t, the choice of the model, which is fed to it at once.
ProposeNext(t) ==
  /\ stage = "draft" /\ Len(props) < wanted
  /\ ModelStep(t, LastPos + 1 + Len(props), wanted)
  /\ props' = Append(props, t)
  /\ stage' = (IF Len(props) + 1 = wanted THEN "verify" ELSE "draft")
  /\ UNCHANGED <<drafter, context, promptLen, wanted, requests>>

\* step refuses a position the RoPE table does not have.
StepRaises ==
  /\ drafter = "static"
  /\ \/ stage = "round" /\ ~OnTable(LastPos)
     \/ stage = "draft" /\ ~OnTable(LastPos + 1 + Len(props))
  /\ stage' = "failed" /\ props' = <<>> /\ wanted' = 0
  /\ UNCHANGED <<drafter, context, promptLen, seen, requests,
                 ngramVars, windowedVars, staticVars>>

\* The target agrees with n proposals and adds the token b, which differs
\* from the proposal it replaces.
Verify(n, b) ==
  /\ stage = "verify"
  /\ n <= Len(props)
  /\ n < Len(props) => b # props[n + 1]
  /\ LET accepted == Append(SubSeq(props, 1, n), b)
     IN /\ context' = context \o accepted
        /\ \/ drafter = "ngram" /\ NoteAccepted(accepted)
           \/ drafter # "ngram" /\ UNCHANGED ngramVars
  /\ \/ drafter = "windowed" /\ WindowedCommit(n)
     \/ drafter # "windowed" /\ UNCHANGED windowedVars
  /\ props' = <<>> /\ wanted' = 0
  /\ stage' = "round"
  /\ UNCHANGED <<drafter, promptLen, seen, requests, staticVars>>

Finish ==
  /\ stage = "round"
  /\ stage' = "idle"
  /\ UNCHANGED <<drafter, context, promptLen, props, wanted, seen, requests,
                 ngramVars, windowedVars, staticVars>>

SpeculationNext ==
  \/ \E p \in Prompts, y \in Tokens : NewPrompt(p, y)
  \/ \E k \in 1 .. MaxK : ProposeCopies(k) \/ ProposeFirst(k)
  \/ \E t \in Tokens : ProposeNext(t)
  \/ \E n \in 0 .. MaxK, b \in Tokens : Verify(n, b)
  \/ StepRaises \/ Finish

SpeculationSpec == SpeculationInit /\ [][SpeculationNext]_specVars

-----------------------------------------------------------------------------
\* The first token the target chose is not noted by anyone: propose notes it
\* unless it repeats the last token of the prompt or the prompt is short.
FirstTokenLost ==
  \/ promptLen < N
  \/ context[promptLen] = context[promptLen + 1]

\* The prompt lookup copies from the context that was accepted: after its
\* first proposal it knows every token of it, in order, but for a first token
\* that propose could not tell from the one before it or that met a prompt
\* shorter than a window.
ContextKnown ==
  drafter = "ngram" /\ stage = "verify" =>
    tokens = (IF FirstTokenLost
              THEN SubSeq(context, 1, promptLen)
                   \o SubSeq(context, promptLen + 2, Len(context))
              ELSE context)

\* The prompt lookup proposes from the accepted context and nothing else.
ProposesFromContext == ContextKnown /\ IndexExact

\* A draft model never attends to a token that was rejected, to one of an
\* earlier request or to one at the wrong position, whatever was proposed
\* and taken back before: what it attends to is the end of what it was fed.
DraftSeesContext ==
  stage \in {"draft", "verify"} /\ drafter # "ngram" =>
    \E low \in 0 .. Len(Fed) - 1 :
      seen = {Row(p, Fed[p + 1]) : p \in low .. Len(Fed) - 1}

\* The rows the chosen draft model can hold.
Size == IF drafter = "static" THEN Ring ELSE Window

\* What a draft model attends to is not cut short either: rejected proposals
\* may have taken the place of the oldest rows of its window, but of fewer
\* rows than a round has proposals.
DraftSeesRecent ==
  stage \in {"draft", "verify"} /\ drafter # "ngram" =>
    \A p \in 0 .. Len(Fed) - 1 :
      Len(Fed) - p <= Size - MaxK + 1 => Row(p, Fed[p + 1]) \in seen

\* The trimmed cache counts right after every commit: it holds the rows that
\* end just before the last token, at most a margin more than its window.
CommitExact ==
  drafter = "windowed" /\ stage = "round" =>
    /\ nSeen = LastPos
    /\ Len(cache) <= Window + Margin
    /\ \A i \in 1 .. Len(cache) : cache[i].pos = nSeen - Len(cache) + i - 1

\* The window of a draft model is complete, in a round and after its commit.
DraftWindowExact == DraftSeesRecent /\ CommitExact
=============================================================================
