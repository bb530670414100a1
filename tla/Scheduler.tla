------------------------------ MODULE Scheduler ------------------------------
(***************************************************************************)
(* Continuous batching (engine/scheduler.py) driven by the engine's step   *)
(* loop (engine/llm_engine.py), over the block allocator.  The engine is   *)
(* one thread: `pc' says where in step() it is, and requests arrive        *)
(* between steps.  Every round of a loop of schedule() and of postprocess()*)
(* is an action.                                                           *)
(*                                                                         *)
(* The model's forward pass yields any token.  The CPU tier is what it     *)
(* looks like from here: a number of matched blocks when the request is    *)
(* added, and a restore that may succeed or fail.                          *)
(***************************************************************************)
EXTENDS BlockManager, SequencesExt

CONSTANTS
  MaxNumSeqs,          \* max_num_seqs
  MaxNumBatchedTokens, \* max_num_batched_tokens
  MaxTokens,           \* sampling_params.max_tokens
  EOS,                 \* the end-of-sequence token
  CpuCache             \* enable_cpu_cache

\* config.py: the CPU cache needs max_num_seqs = 1.  Sequence ids are drawn
\* from a counter.  MaxLen leaves room for every completion.
ASSUME SchedulerAssumption ==
  /\ Seqs = 1 .. Cardinality(Seqs)
  /\ MaxNumSeqs \in Nat \ {0}
  /\ MaxNumBatchedTokens \in Nat \ {0}
  /\ MaxTokens \in Nat \ {0}
  /\ MaxLen \in Nat /\ \A p \in Prompts : Len(p) + MaxTokens <= MaxLen
  /\ EOS \in Token
  /\ CpuCache \in BOOLEAN
  /\ CpuCache => MaxNumSeqs = 1

VARIABLES
  status,      \* seq.status, "NEW" before the request exists
  numPrompt,   \* seq.num_prompt_tokens
  scheduled,   \* seq.num_scheduled_tokens
  isPrefill,   \* seq.is_prefill
  cpuHandles,  \* len(seq.cpu_cache_handles)
  waiting, running,
  batch,       \* scheduled_seqs; later what is left of it to postprocess
  budget,      \* max_num_batched_tokens - num_batched_tokens
  prefillStep, \* the is_prefill that schedule() returns
  pc           \* where step() is

queueVars == <<waiting, running>>
seqVars   == <<status, numPrompt, scheduled, isPrefill, cpuHandles>>
stepVars  == <<batch, budget, prefillStep, pc>>
vars == <<bmVars, seqVars, queueVars, stepVars>>

PCs == {"idle", "prefill", "decode", "dispatch", "post", "append", "finish",
        "failed"}

Init ==
  /\ BMInit
  /\ status = [s \in Seqs |-> "NEW"]
  /\ numPrompt = [s \in Seqs |-> 0]
  /\ scheduled = [s \in Seqs |-> 0]
  /\ isPrefill = [s \in Seqs |-> TRUE]
  /\ cpuHandles = [s \in Seqs |-> 0]
  /\ waiting = <<>> /\ running = <<>>
  /\ batch = <<>> /\ budget = 0 /\ prefillStep = TRUE /\ pc = "idle"

-----------------------------------------------------------------------------
(* Between steps *)

\* What lookup_cpu_context may find for a prompt, capped so that at least
\* one prompt token is left to compute.
CpuMatches(p) == IF CpuCache THEN 0 .. (Len(p) - 1) \div BlockSize ELSE {0}

\* LLMEngine.add_request.
AddRequest(s, p, h) ==
  /\ pc = "idle"
  /\ status[s] = "NEW" /\ \A r \in Seqs : r < s => status[r] # "NEW"
  /\ NewSequence(s, p)
  /\ status' = [status EXCEPT ![s] = "WAITING"]
  /\ numPrompt' = [numPrompt EXCEPT ![s] = Len(p)]
  /\ cpuHandles' = [cpuHandles EXCEPT ![s] = h]
  /\ waiting' = Append(waiting, s)
  /\ UNCHANGED <<scheduled, isPrefill, running, stepVars>>

\* LLMEngine.clear_gpu_prefix_cache, refused unless is_finished().
ClearGpuPrefixCache ==
  /\ pc = "idle" /\ waiting = <<>> /\ running = <<>>
  /\ EvictFreeCachedBlocks
  /\ UNCHANGED <<seqVars, queueVars, stepVars>>

\* generate() calls step() while not is_finished().
StartStep ==
  /\ pc = "idle" /\ waiting \o running # <<>>
  /\ pc' = "prefill" /\ batch' = <<>> /\ budget' = MaxNumBatchedTokens
  /\ UNCHANGED <<bmVars, seqVars, queueVars, prefillStep>>

-----------------------------------------------------------------------------
(* schedule(): the prefill loop *)

\* The value of can_allocate.
GpuCached(s) ==
  LET k == CHOOSE i \in 0 .. NumBlocks(s) - 1 : LongestHit(s, i)
  IN  IF CanAllocate(s, k) THEN k ELSE -1

\* The CPU tier wins when it reaches deeper and a whole fresh table fits.
UseCpu(s) ==
  /\ cpuHandles[s] > GpuCached(s) /\ cpuHandles[s] > 0
  /\ CanAllocateFresh(s)

HitBlocksOf(s) == IF UseCpu(s) THEN cpuHandles[s] ELSE GpuCached(s)

\* num_tokens: what is left to compute of a sequence at admission.
TokensLeft(s) ==
  Len(tokens[s]) -
    (IF blockTable[s] = <<>> THEN HitBlocksOf(s) * BlockSize ELSE numCached[s])

\* Only the first sequence of a batch may be chunked.
FitsBudget(s) == budget >= TokensLeft(s) \/ batch = <<>>

\* The loop goes on with the head of the waiting queue.
CanAdmit ==
  /\ waiting # <<>> /\ Len(batch) < MaxNumSeqs /\ budget > 0
  /\ LET s == Head(waiting)
     IN  /\ blockTable[s] = <<>> => HitBlocksOf(s) # -1
         /\ FitsBudget(s)

ChunkSize(s) == IF TokensLeft(s) <= budget THEN TokensLeft(s) ELSE budget

\* The tail of the loop body: schedule what fits, and promote the sequence
\* if that completes it.
ScheduleChunk(s) ==
  LET n == ChunkSize(s)
  IN  /\ scheduled' = [scheduled EXCEPT ![s] = n]
      /\ budget' = budget - n
      /\ batch' = Append(batch, s)
      /\ IF n = TokensLeft(s)
         THEN /\ status' = [status EXCEPT ![s] = "RUNNING"]
              /\ waiting' = Tail(waiting)
              /\ running' = Append(running, s)
         ELSE UNCHANGED <<status, queueVars>>
      /\ UNCHANGED <<numPrompt, isPrefill, cpuHandles, prefillStep, pc>>

AdmitFromGpu(s) ==
  /\ blockTable[s] = <<>> /\ ~UseCpu(s)
  /\ Allocate(s, GpuCached(s))
  /\ ScheduleChunk(s)

AdmitFromCpu(s) ==
  /\ blockTable[s] = <<>> /\ UseCpu(s)
  /\ AllocateForCpuRestore(s, cpuHandles[s])
  /\ ScheduleChunk(s)

ContinueChunk(s) ==
  /\ blockTable[s] # <<>>
  /\ UNCHANGED bmVars
  /\ ScheduleChunk(s)

Admit ==
  /\ pc = "prefill" /\ CanAdmit
  /\ \/ AdmitFromGpu(Head(waiting))
     \/ AdmitFromCpu(Head(waiting))
     \/ ContinueChunk(Head(waiting))

EndPrefill ==
  /\ pc = "prefill" /\ ~CanAdmit
  /\ pc' = IF batch = <<>> THEN "decode" ELSE "dispatch"
  /\ prefillStep' = (batch # <<>>)
  /\ UNCHANGED <<bmVars, seqVars, queueVars, batch, budget>>

-----------------------------------------------------------------------------
(* schedule(): the decode loop.  The code pops the head before it looks for *)
(* room; here the head stays in `running' until it is scheduled.           *)

CanDecode == pc = "decode" /\ running # <<>> /\ Len(batch) < MaxNumSeqs

\* Mutated form: may_append is not called.
GrowTableSkipped(s) == UNCHANGED bmVars

GrowTable(s) ==
  IF Len(tokens[s]) % BlockSize = 1 THEN MayAppend(s) ELSE UNCHANGED bmVars

ScheduleDecode ==
  LET s == Head(running)
  IN  /\ CanDecode /\ CanAppend(s)
      /\ scheduled' = [scheduled EXCEPT ![s] = 1]
      /\ isPrefill' = [isPrefill EXCEPT ![s] = FALSE]
      /\ GrowTable(s)
      /\ running' = Tail(running) /\ batch' = Append(batch, s)
      /\ UNCHANGED <<status, numPrompt, cpuHandles, waiting, budget,
                     prefillStep, pc>>

\* Mutated form: the victim keeps the flag of its last decode.
PrefillAfterPreemptKept(s) == isPrefill

PrefillAfterPreempt(s) == [isPrefill EXCEPT ![s] = TRUE]

\* Mutated form: the victim queues up behind the requests that came later.
WaitingAfterPreemptLast(s) == Append(waiting, s)

WaitingAfterPreempt(s) == <<s>> \o waiting

\* Mutated form: the victim is not deallocated.
PreemptKeepsBlocks(s) ==
  /\ status' = [status EXCEPT ![s] = "WAITING"]
  /\ waiting' = WaitingAfterPreempt(s)
  /\ UNCHANGED <<bmVars, numPrompt, scheduled, isPrefill, cpuHandles, stepVars>>

Preempt(s) ==
  /\ status' = [status EXCEPT ![s] = "WAITING"]
  /\ isPrefill' = PrefillAfterPreempt(s)
  /\ Release(s)
  /\ waiting' = WaitingAfterPreempt(s)
  /\ UNCHANGED <<numPrompt, scheduled, cpuHandles, stepVars>>

\* Mutated form: the head itself gives way.
VictimHead == Head(running)

\* running.pop() after the head was popped.
Victim == Last(running)

\* No room for the head: the youngest running sequence makes it.
PreemptOther ==
  /\ CanDecode /\ ~CanAppend(Head(running)) /\ Len(running) > 1
  /\ Preempt(Victim)
  /\ running' = RemoveFirst(running, Victim)

\* No room and nobody else left.
PreemptSelf ==
  /\ CanDecode /\ ~CanAppend(Head(running)) /\ Len(running) = 1
  /\ Preempt(Head(running))
  /\ running' = <<>>

\* Mutated form: the scheduled sequences are not put back.
RequeuedDropped == running

\* extendleft(reversed(...)).
Requeued == batch \o running

EndDecode ==
  /\ pc = "decode" /\ ~CanDecode /\ batch # <<>>
  /\ running' = Requeued
  /\ pc' = "dispatch"
  /\ UNCHANGED <<bmVars, seqVars, waiting, batch, budget, prefillStep>>

\* assert scheduled_seqs.
NothingScheduled ==
  /\ pc = "decode" /\ ~CanDecode /\ batch = <<>>
  /\ pc' = "failed"
  /\ UNCHANGED <<bmVars, seqVars, queueVars, batch, budget, prefillStep>>

-----------------------------------------------------------------------------
(* step(): restore what is pending, then run the batch *)

Pending == {s \in Range(batch) : restorePending[s]}

ConfirmCpuRestore ==
  /\ pc = "dispatch"
  /\ \E s \in Pending : ConfirmRestore(s)
  /\ UNCHANGED <<seqVars, queueVars, stepVars>>

\* Mutated form: the rolled back sequence stays scheduled to run.
RunningAfterRollbackKept(s) == running

RunningAfterRollback(s) == RemoveFirst(running, s)

\* Mutated form: the rolled back sequence is not put back.
WaitingAfterRollbackWithout(s) == waiting

\* A chunked sequence is still in the waiting queue.
WaitingAfterRollback(s) ==
  IF s \in Range(waiting) THEN waiting ELSE <<s>> \o waiting

\* The next admission does not try the CPU tier again.
HandlesAfterRollback(s) == [cpuHandles EXCEPT ![s] = 0]

\* rollback_cpu_restore, and the step() by which step() starts over.
RollbackCpuRestore ==
  /\ pc = "dispatch"
  /\ \E s \in Pending :
       /\ RollbackRestore(s)
       /\ status' = [status EXCEPT ![s] = "WAITING"]
       /\ isPrefill' = [isPrefill EXCEPT ![s] = TRUE]
       /\ scheduled' = [scheduled EXCEPT ![s] = 0]
       /\ cpuHandles' = HandlesAfterRollback(s)
       /\ running' = RunningAfterRollback(s)
       /\ waiting' = WaitingAfterRollback(s)
  /\ pc' = "prefill" /\ batch' = <<>> /\ budget' = MaxNumBatchedTokens
  /\ UNCHANGED <<numPrompt, prefillStep>>

\* model_runner.run: the tokens it computes concern the KV cache only.
Run ==
  /\ pc = "dispatch" /\ Pending = {}
  /\ pc' = "post"
  /\ UNCHANGED <<bmVars, seqVars, queueVars, batch, budget, prefillStep>>

-----------------------------------------------------------------------------
(* postprocess(), one sequence after the other *)

\* hash_blocks and the advance of the cached count; a prompt that is not
\* complete gets no token.
Hash ==
  LET s == Head(batch)
  IN  /\ pc = "post" /\ batch # <<>>
      /\ HashBlocks(s, scheduled[s])
      /\ scheduled' = [scheduled EXCEPT ![s] = 0]
      /\ IF prefillStep /\ numCached'[s] < Len(tokens[s])
         THEN batch' = Tail(batch) /\ pc' = "post"
         ELSE pc' = "append" /\ UNCHANGED batch
      /\ UNCHANGED <<status, numPrompt, isPrefill, cpuHandles, queueVars,
                     budget, prefillStep>>

\* Mutated form: the length is compared before the token is counted.
IsLastLate(s, t) ==
  t = EOS \/ Len(tokens[s]) - numPrompt[s] = MaxTokens

\* The new token t ends the completion of s.
IsLast(s, t) ==
  t = EOS \/ Len(tokens[s]) + 1 - numPrompt[s] = MaxTokens

Sample ==
  LET s == Head(batch)
  IN  /\ pc = "append"
      /\ \E t \in Token :
           /\ AppendToken(s, t)
           /\ IF IsLast(s, t)
              THEN /\ status' = [status EXCEPT ![s] = "FINISHED"]
                   /\ pc' = "finish" /\ UNCHANGED batch
              ELSE /\ pc' = "post" /\ batch' = Tail(batch)
                   /\ UNCHANGED status
      /\ UNCHANGED <<numPrompt, scheduled, isPrefill, cpuHandles, queueVars,
                     budget, prefillStep>>

Finish ==
  LET s == Head(batch)
  IN  /\ pc = "finish"
      /\ Release(s)
      /\ running' = RemoveFirst(running, s)
      /\ batch' = Tail(batch) /\ pc' = "post"
      /\ UNCHANGED <<seqVars, waiting, budget, prefillStep>>

EndStep ==
  /\ pc = "post" /\ batch = <<>>
  /\ pc' = "idle"
  /\ UNCHANGED <<bmVars, seqVars, queueVars, batch, budget, prefillStep>>

-----------------------------------------------------------------------------
(* step() without the model's forward pass and the outcome of a restore *)
StepControl ==
  \/ StartStep \/ Admit \/ EndPrefill
  \/ ScheduleDecode \/ PreemptOther \/ PreemptSelf
  \/ EndDecode \/ NothingScheduled
  \/ Hash \/ Sample \/ Finish \/ EndStep

Arrivals ==
  \E s \in Seqs : \E p \in Prompts : \E h \in CpuMatches(p) : AddRequest(s, p, h)

Next ==
  \/ Arrivals \/ ClearGpuPrefixCache
  \/ StepControl
  \/ ConfirmCpuRestore \/ RollbackCpuRestore \/ Run

Spec == Init /\ [][Next]_vars

-----------------------------------------------------------------------------
(* Properties *)

\* All unfinished requests, the running ones first.
Queue == (IF pc = "decode" THEN batch ELSE <<>>) \o running \o waiting

\* First come, first served: however requests are admitted, preempted,
\* chunked, rolled back and put back after a decode, the running ones and
\* then the waiting ones stay in order of arrival, each exactly once.
ArrivalOrder == \A i, j \in 1 .. Len(Queue) : i < j => Queue[i] < Queue[j]

\* No request is dropped and none is served after its end: the queues hold
\* exactly the unfinished requests, and status says in which.
QueuesMatchStatus ==
  /\ pc # "finish" =>
       Range(Queue) = {s \in Seqs : status[s] \in {"WAITING", "RUNNING"}}
  /\ \A s \in Range(waiting) : status[s] = "WAITING"
  /\ pc # "finish" => \A s \in Range(running) : status[s] = "RUNNING"

\* A request gives its blocks back when it is preempted, rolled back or done:
\* apart from the running ones only the head of the waiting queue, in the
\* middle of a chunked prefill, holds blocks, and while it does no decode can
\* start (so no preemption could put another request before it).
OnlyHeadHoldsBlocks ==
  \A s \in Seqs : blockTable[s] # <<>> =>
    \/ status[s] = "RUNNING"
    \/ status[s] = "FINISHED" /\ pc = "finish"
    \/ status[s] = "WAITING" /\ waiting # <<>> /\ s = Head(waiting) /\ pc # "decode"

\* What a client may rely on: order of service, nobody forgotten, and memory
\* held by those who are served.
QueueDiscipline == ArrivalOrder /\ QueuesMatchStatus /\ OnlyHeadHoldsBlocks

\* `assert scheduled_seqs': schedule() finds work whenever there is a request.
AlwaysSchedulable == pc # "failed"

\* However many requests compete for the cache, the assertion can only fail
\* for a request that would not fit the whole cache alone.
FailsOnlyOnOversized ==
  pc = "failed" => /\ running = <<>>
                   /\ NumBlocks(Head(waiting)) > Cardinality(Blocks)

\* Wherever step() is, it can go on: the scheduler calls the allocator only
\* when the allocator's contract is met (a free block to pop, a table that
\* covers what is hashed, no table under a new allocation).
CallsWithinContract ==
  pc \notin {"idle", "failed"} =>
    ENABLED (StepControl \/ ConfirmCpuRestore \/ RollbackCpuRestore \/ Run)

\* The tensor-parallel workers get the whole token list exactly for the
\* batches that prefill (__getstate__ sends only the last token otherwise).
PayloadMatchesBatch ==
  pc = "dispatch" => \A s \in Range(batch) : isPrefill[s] = prefillStep

\* What a client sees of the scheduler: preemption, recomputation, chunking
\* and restores neither lose, repeat nor reorder a token of a completion, and
\* it ends exactly at its first EOS or at max_tokens.
Client == INSTANCE Generation WITH
  Requests <- Seqs,
  prompt <- [s \in Seqs |-> SubSeq(tokens[s], 1, numPrompt[s])],
  output <- [s \in Seqs |-> SubSeq(tokens[s], numPrompt[s] + 1, Len(tokens[s]))],
  done <- [s \in Seqs |-> status[s] = "FINISHED"]

ImplementsGeneration == Client!GenSpec

\* The one who loses its blocks unfinished is the youngest of those that run:
\* the oldest request is never set back for a later one.
PreemptsYoungest ==
  [][\A s \in Seqs :
       blockTable[s] # <<>> /\ blockTable'[s] = <<>> /\ status'[s] = "WAITING"
         => \A r \in Seqs : status[r] = "RUNNING" => r <= s]_vars

\* Every request that is added is finished, whatever is preempted, chunked or
\* rolled back on the way; unless the assertion of schedule() fails, for which
\* see FailsOnlyOnOversized.
RequestsFinish ==
  \A s \in Seqs :
    (status[s] = "WAITING") ~> (status[s] = "FINISHED" \/ pc = "failed")

=============================================================================
