---------------------------- MODULE SparseEngine ----------------------------
(***************************************************************************)
(* The engine in sparse mode with the M12 runtime: the virtual scheduling  *)
(* path, which holds no physical block and serves one sequence at a time   *)
(* (engine/scheduler.py), the step that resets the runtime for a new prompt*)
(* and runs the model (engine/llm_engine.py, engine/model_runner.py,       *)
(* layers/attention.py), and a speculative caller that verifies several    *)
(* tokens at once.                                                         *)
(*                                                                         *)
(* A request raises when its step does, and the caller may step again.     *)
(***************************************************************************)
EXTENDS M12Runtime, Sequences

CONSTANTS
  Requests,   \* 1 .. n, in the order in which they may be added
  PromptLens, \* lengths of prompts
  Chunk,      \* sparse_prefill_chunk_size; 0 prefills in one step
  MaxTokens,  \* sampling_params.max_tokens
  MaxQueries, \* tokens of a verification pass, at most
  MaxPasses   \* verification passes, at most

ASSUME SparseAssumption ==
  /\ Requests = 1 .. Cardinality(Requests)
  /\ PromptLens \subseteq Nat \ {0}
  \* Every prompt fits max_model_len, with the padding of its chunks.
  /\ \A length \in PromptLens :
       IF Chunk = 0 THEN BlocksFor(length) <= MaxBlocks
       ELSE ((length + Chunk - 1) \div Chunk) * BlocksFor(Chunk) <= MaxBlocks
  /\ Chunk \in Nat /\ MaxPasses \in Nat
  /\ MaxTokens \in Nat \ {0} /\ MaxQueries \in Nat \ {0}
  \* What the documentation of lossless verification asks for.
  /\ UnionBlocks > 0 => UnionBlocks >= MaxQueries * TopK

VARIABLES
  waiting, running, \* the queues
  prompt,    \* num_prompt_tokens, 0 before the request is added
  cached,    \* num_cached_tokens
  scheduled, \* num_scheduled_tokens of the running sequence
  tokens,    \* num_tokens
  finished,  \* the finished requests
  pc,        \* "idle" between steps, "run" when schedule() has returned
  failure,   \* what the last step raised: "none", "conflict" or "store"
  passes     \* verification passes so far

queueVars == <<waiting, running, prompt, cached, scheduled, tokens, finished>>
sparseVars == <<runtimeVars, queueVars, pc, failure, passes>>

SparseInit ==
  /\ RuntimeInit
  /\ waiting = <<>> /\ running = <<>> /\ finished = {}
  /\ prompt = [r \in Requests |-> 0]
  /\ cached = [r \in Requests |-> 0]
  /\ tokens = [r \in Requests |-> 0]
  /\ scheduled = 0 /\ pc = "idle" /\ failure = "none" /\ passes = 0

Running == running[1]

\* t rows of request r from position `from' on.
Rows(r, from, t) == [i \in 0 .. t - 1 |-> <<r, from + i>>]

-----------------------------------------------------------------------------
(* Requests and schedule() *)

AddRequest(r, length) ==
  /\ pc = "idle" /\ pending = NoRows
  /\ prompt[r] = 0 /\ \A s \in 1 .. r - 1 : prompt[s] > 0
  /\ waiting' = Append(waiting, r)
  /\ prompt' = [prompt EXCEPT ![r] = length]
  /\ tokens' = [tokens EXCEPT ![r] = length]
  /\ UNCHANGED <<runtimeVars, running, cached, scheduled, finished, pc, failure,
                 passes>>

\* Two prompts wait, or one waits while a sequence is running.
Conflict == waiting # <<>> /\ (running # <<>> \/ Len(waiting) > 1)

\* schedule() raises and leaves the queues as they are.
StepRejected ==
  /\ pc = "idle" /\ pending = NoRows /\ Conflict
  /\ failure' = "conflict"
  /\ UNCHANGED <<runtimeVars, queueVars, pc, passes>>

\* Mutated form: the prompt is complete when all tokens are cached.
PrefillingTokens(r) == cached[r] < tokens[r]

Prefilling(r) == cached[r] < prompt[r]

NextChunk(r) ==
  LET remaining == prompt[r] - cached[r]
  IN  IF Chunk = 0 THEN remaining ELSE Smaller(remaining, Chunk)

\* Mutated form: the runtime keeps the history of the request before.
ResetsNever(r) == FALSE

\* m12_reset is called before the first chunk of a prompt.
Resets(r) == Prefilling(r) /\ cached[r] = 0

\* _sparse_schedule, and step() up to the call of the model.
Schedule ==
  /\ pc = "idle" /\ pending = NoRows
  /\ ~Conflict
  /\ \/ /\ waiting # <<>>
        /\ running' = Append(running, Head(waiting))
        /\ waiting' = Tail(waiting)
     \/ /\ waiting = <<>> /\ Len(running) = 1
        /\ UNCHANGED <<running, waiting>>
  /\ LET r == running'[1]
     IN  /\ scheduled' = IF Prefilling(r) THEN NextChunk(r) ELSE 1
         /\ IF Resets(r) THEN Emptied ELSE UNCHANGED runtimeVars
  /\ pc' = "run"
  /\ UNCHANGED <<prompt, cached, tokens, finished, failure, passes>>

-----------------------------------------------------------------------------
(* run() and postprocess() *)

\* A token is sampled; the request ends with EOS or with its last token.
Sampled(r) ==
  /\ tokens' = [tokens EXCEPT ![r] = tokens[r] + 1]
  /\ \E eos \in BOOLEAN :
       IF eos \/ tokens[r] + 1 - prompt[r] = MaxTokens
       THEN running' = <<>> /\ finished' = finished \cup {r}
       ELSE UNCHANGED <<running, finished>>

\* One chunk of the prompt.  Only the last one samples a token.
PrefillStep ==
  /\ pc = "run" /\ Prefilling(Running)
  /\ LET k == Rows(Running, cached[Running], scheduled)
         seen == cached[Running] + scheduled
     IN  /\ PrefillFirst(k, scheduled) \/ PrefillChunk(k, scheduled)
         /\ cached' = [cached EXCEPT ![Running] = seen]
         /\ IF seen < tokens[Running]
            THEN UNCHANGED <<running, tokens, finished>>
            ELSE Sampled(Running)
  /\ scheduled' = 0 /\ pc' = "idle"
  /\ UNCHANGED <<waiting, prompt, failure, passes>>

\* The chunk cannot be stored: step() raises, and the sequence stays running.
PrefillRaises ==
  /\ pc = "run" /\ Prefilling(Running) /\ ~Storable(scheduled)
  /\ failure' = "store" /\ pc' = "idle"
  /\ UNCHANGED <<runtimeVars, queueVars, passes>>

\* The last token is fed and the next one sampled.
DecodeStep ==
  /\ pc = "run" /\ ~Prefilling(Running)
  /\ Decode(<<Running, tokens[Running] - 1>>)
  /\ cached' = [cached EXCEPT ![Running] = cached[Running] + 1]
  /\ Sampled(Running)
  /\ scheduled' = 0 /\ pc' = "idle"
  /\ UNCHANGED <<waiting, prompt, failure, passes>>

-----------------------------------------------------------------------------
(* The speculative caller, between steps *)

\* run_verify: the last token and drafts of the ones after it.
Verify(n, lossless) ==
  /\ pc = "idle" /\ pending = NoRows /\ passes < MaxPasses
  /\ running # <<>> /\ waiting = <<>> /\ ~Prefilling(Running)
  /\ tokens[Running] + n - prompt[Running] < MaxTokens
  /\ lossless => UnionBlocks > 0
  /\ VerifyTokens(Rows(Running, tokens[Running] - 1, n), n, lossless)
  /\ passes' = passes + 1
  /\ UNCHANGED <<queueVars, pc, failure>>

\* The first n fed tokens are accepted, the n-th with a token after it.
Accept(n) ==
  /\ pending # NoRows /\ n - 1 \in DOMAIN pending
  /\ CommitVerified(n)
  /\ cached' = [cached EXCEPT ![Running] = cached[Running] + n]
  /\ tokens' = [tokens EXCEPT ![Running] = tokens[Running] + n]
  /\ UNCHANGED <<waiting, running, prompt, scheduled, finished, pc, failure, passes>>

Discard ==
  /\ pending # NoRows
  /\ RollbackVerified \/ CommitVerified(0)
  /\ UNCHANGED <<queueVars, pc, failure, passes>>

SparseNext ==
  \/ \E r \in Requests, length \in PromptLens : AddRequest(r, length)
  \/ StepRejected
  \/ Schedule
  \/ PrefillStep
  \/ PrefillRaises
  \/ DecodeStep
  \/ \E n \in 1 .. MaxQueries : Accept(n) \/ \E lossless \in BOOLEAN : Verify(n, lossless)
  \/ Discard

SparseSpec == SparseInit /\ [][SparseNext]_sparseVars

Settle == Discard \/ \E n \in 1 .. MaxQueries : Accept(n)

\* generate() calls step() until every request is finished or a step raises,
\* and a speculative caller settles each pass.
SparseFairSpec ==
  /\ SparseSpec
  /\ WF_sparseVars(Schedule)
  /\ WF_sparseVars(StepRejected)
  /\ WF_sparseVars(PrefillStep \/ PrefillRaises \/ DecodeStep)
  /\ WF_sparseVars(Settle)

-----------------------------------------------------------------------------
(* What a prompt must be like for the windows to represent it *)

FirstChunk(r) == IF Chunk = 0 THEN prompt[r] ELSE Smaller(prompt[r], Chunk)

\* The prompt fills the recent window and its first chunk fills the sink.
FillsWindows(r) == prompt[r] >= Recent /\ FirstChunk(r) >= Sink

\* Chunks other than the last end at the end of a block.
ChunksAligned == Chunk % BlockSize = 0

\* No chunk has only one token.
Servable(length) ==
  IF Chunk = 0 THEN length # 1 ELSE Chunk # 1 /\ length % Chunk # 1

-----------------------------------------------------------------------------
(* Properties *)

\* Scheduler, sequence and runtime agree on how much of the request is in the
\* runtime: the cached tokens while the prompt is prefilled, and afterwards
\* all tokens but the last, which the next step feeds at its right position.
LengthsAgree ==
  running # <<>> /\ (pc = "run" \/ cached[Running] > 0) =>
    validLen = IF Prefilling(Running) THEN cached[Running] ELSE tokens[Running] - 1

\* The windows hold the first and the last tokens of the running request,
\* through every chunk, and then however decoding and speculative passes with
\* their commits and rollbacks are mixed.  A prompt that does not fill the
\* windows has them right until its first decoded token.
WindowsRight ==
  LET kept == Smaller(Recent, validLen)
  IN  /\ running # <<>>
      /\ pc = "run" \/ cached[Running] > 0
      /\ validLen <= prompt[Running] \/ FillsWindows(Running)
      =>
      /\ \A n \in 0 .. kept - 1 : recent[n] = <<Running, (validLen - kept) + n>>
      /\ FirstChunk(Running) >= Smaller(Sink, prompt[Running]) =>
           \A n \in 0 .. Smaller(Sink, validLen) - 1 : sink[n] = <<Running, n>>

Attends == attended' # attended /\ attended'.kind # "none"

\* A selection takes no block that sink and recent stand for if there is any
\* other block; and it fits the staging and packing buffers under every rule,
\* also the relative one and the union of a lossless verification pass.
SelectionSound ==
  [][Attends =>
       /\ attended'.kind # "first" /\ Available > 0 =>
            attended'.ids \subseteq (0 .. nblocks - 1) \ protected
       /\ Cardinality(attended'.ids) <= SelBudget]_sparseVars

\* The last block, which may be padded, is one that the recent window stands for.
PaddingProtected == Recent >= BlockSize

\* An attention step reads the running request only, no padding, and all of
\* its last tokens.
AttendsOwnTokens ==
  [][Attends /\ FillsWindows(Running) /\ ChunksAligned
       /\ (attended'.kind \in {"first", "chunk"} \/ (PaddingProtected /\ Available > 0)) =>
       LET rows == {c.row : c \in attended'.cells}
       IN  /\ \A row \in rows : row[1] = Running
           /\ {<<Running, p>> : p \in Larger(0, validLen - Recent + 1) .. validLen}
                \subseteq rows]_sparseVars

\* A later chunk sees each earlier token exactly once, or not at all if its
\* block could have been selected and was not: protection hides no token.
ChunkCoversHistory ==
  [][Attends /\ attended'.kind = "chunk" /\ ChunksAligned /\ Available > 0
       /\ Sink = BlockSize /\ Recent % BlockSize = 0 /\ Chunk >= Sink =>
       LET seen == {c.row : c \in attended'.cells}
           unselected == (0 .. nblocks - 1) \ (protected \cup attended'.ids)
       IN  /\ Cardinality(seen) = Cardinality(attended'.cells)
           /\ \A p \in 0 .. validLen - 1 :
                <<Running, p>> \in seen \/ p \div BlockSize \in unselected]_sparseVars

\* Every prompt without a chunk of one token is served to the end, however it
\* is chunked and whatever was verified in between, unless two prompts met or
\* another prompt could not be stored.
RequestsServed ==
  \A r \in Requests :
    prompt[r] > 0 ~>
      \/ r \in finished
      \/ failure = "conflict"
      \/ \E q \in Requests : prompt[q] > 0 /\ ~Servable(prompt[q])

\* reset() says that every read is bounded by the logical lengths it clears, and
\* step() that a prompt does not inherit the recent window of the one before:
\* so an attention step never mixes the rows of two requests.
ReadsOneRequest ==
  \A c, d \in attended.cells :
    c.row # Blank /\ d.row # Blank => c.row[1] = d.row[1]

=============================================================================
