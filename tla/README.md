# Verification of the nano-vLLM KV engine

TLA+ models of the engine in `src/nanovllm`, TLC configurations that check
them on small instances, and TLAPS proofs of what matters most for every size.
The program is a single-host LLM inference engine: it batches requests
continuously, keeps their attention state (KV) in blocks of a paged GPU cache,
shares the blocks of common prefixes, and persists the KV of prompts in a CPU
store from which later requests restore it. The arithmetic of the models is not
the subject; who owns which block, what a block holds and in which order
requests are served is.

Contents: [inventory](#inventory), [plan](#plan), [modules](#modules),
[runs](#runs), [proofs](#proofs), [findings](#findings),
[abstractions](#abstractions), [not modelled](#not-modelled).

## Inventory

One Python thread drives everything (`LLMEngine.generate` calls `step` while
requests are unfinished). Concurrency exists only between rank 0 and the
tensor-parallel workers. What makes the code hard is not threads but the order
in which a single thread meets competing requests: preemption, chunking,
sharing, eviction and failures half way through an operation.

| Component | State | Operations | What makes it correct |
|---|---|---|---|
| Block allocator, `engine/block_manager.py` | free deque, used set, reference counts, block hashes and tokens, hash index | `can_allocate`, `allocate`, `allocate_for_cpu_restore`, `register_restored_blocks`, `deallocate`, `can_append`, `may_append`, `hash_blocks`, `evict_free_cached_blocks` | counts are exact; a shared block is never written; the index names only blocks that carry the hash; an admitted sequence gets its blocks |
| Sequence, `engine/sequence.py` | tokens, prompt length, cached and scheduled counts, block table, flags, CPU handles | `append_token`, pickling for the workers | the payload sent to workers fits the kind of batch |
| Scheduler, `engine/scheduler.py` | `waiting`, `running` | `add`, `schedule` (prefill, chunked prefill, decode), `preempt`, `confirm_cpu_restore`, `rollback_cpu_restore`, `postprocess` | first come first served; no request lost or repeated; memory returned; every request finishes |
| Engine loop, `engine/llm_engine.py` | scheduler, runner | `add_request`, `step`, `generate`, `clear_gpu_prefix_cache` | a failed restore leaves no trace but the recomputation |
| Model runner, `engine/model_runner.py`, `layers/attention.py` | GPU KV rows, command channel | `prepare_prefill`, `prepare_decode`, `run`, `restore_cpu_blocks`, `persist_cpu_contexts`, `call`/`loop` | every row attention reads is the KV of the sequence's own prefix |
| CPU block store, `kvdb/store/cpu.py` | slots with generation and tensor, free deque, LRU order | `store_block`, `read_block`, `load_into`, `touch`, `delete` | an old handle never reads new data; slots do not leak; eviction is LRU |
| Context DB, `kvdb/prefix_index.py`, `kvdb/coordinator.py` | index of entries by chained hash, sessions | `create_session`, `store_session`, invalidation callback | a session yields only the KV of its own context; index and store agree |
| GPU block store, `kvdb/store/gpu.py` | views of the KV tensor | `block_view`, `read_block`, `write_block` | an adapter: shape and type checks |
| Metrics, `kvdb/metrics.py` | counters, timers | `record_*`, `reset` | counters agree with what happened, also after a preemption or a rollback |
| Sparse scheduling, `engine/scheduler.py` | the same queues, no blocks | `_sparse_schedule`, two rejections | one sequence at a time, and the runtime is emptied for each new prompt |
| M12 sparse runtime, `sparse/m12_runtime.py` | per layer: history blocks on the CPU, sink and recent windows, protected blocks, pending tokens, captured selector | `reset`, `prefill_first`, `prefill_chunk`, `decode`, `verify_tokens`, `commit_verified`, `rollback_verified` | the windows hold the first and last tokens of the running request; protection hides no token; no step reads another request's tokens |
| M11 sparse runtime, `sparse/engine_runtime.py`, `block_sparse.py`, `representatives.py` | per layer: CPU history, valid length, frozen keys with representatives and graph, selector | `prefill`, `decode`, `reset`, `set_all_selectors` | a step attends only to the running request's rows; exact selection misses nothing critical; the graph belongs to the prompt at hand |
| DIPRS graph, `sparse/graph_diprs.py` | adjacency; the locals of a search | `build_knn`, `build_query_guided`, `search` | stays within its budget, ends, and reports when it may have missed something |
| Drafting, `sparse/proposers.py`, `draft_runner.py`, `static_draft.py` | n-gram index; trimmed draft cache; ring cache | `prefill`, `propose`, `note_accepted`, `commit`, `reset` | a proposal is made from the accepted context, whatever was rejected before |
| Tracer, `utils/trace.py` | armed flag, captured tensors | `arm`, `maybe_capture`, `retrieve`, `clear` | one-shot; a trace is one request's, from its first token |
| Quantisation, kernels, models, layers, loader | tensors | arithmetic | numeric |

Interactions: the engine looks a prompt up in the context DB when the request is
added and keeps the handles in the sequence; the scheduler weighs them against
the GPU prefix hit at admission and asks the allocator for blocks; `step`
restores the CPU blocks before `run`, confirms or rolls back, runs the batch,
persists the prompts whose prefill ended, and lets `postprocess` hash the new
full blocks. The CPU store calls the index back when it evicts.

The hazards of this code, each at its line with the properties that cover it,
are listed in `PROJECT.json`.

## Plan

Done, in this order: `BlockManager` (the ground everything stands on), its
proofs, `Scheduler` over it with the abstract `Generation`, `Engine` with the KV
rows, both with proofs, `CPUBlockStore` and `ContextDB` over it with proofs,
`ReuseEngine` composing `Engine` and `ContextDB`, with proofs, `TPChannel` with its proofs,
`M12Runtime` and, over it, `SparseEngine` with proofs, `EngineMetrics` and
`EngineTrace` over `Engine`, `GraphDIPRS`, `BlockGraph` and over both `M11Engine`
with proofs, and the three drafters `NgramProposer`, `WindowedDraft` and
`StaticDraft` under `Speculation` with proofs.

What is left has no operation that changes state; see
[not modelled](#not-modelled).

The proofs cover every safety property that the runs check but those named under
[only model-checked](#only-model-checked).

## Modules

`Generation` is the abstract specification of what a client is promised.

`BlockManager` models the allocator. A label (`blockHash`) is the token prefix
whose chained hash the code stores, the index `hashToBlock` maps labels to
blocks. Each method is an action with the precondition under which the scheduler
calls it; an allocator may be called in any order the preconditions allow, which
is more than the scheduler does. The sequence fields the allocator reads and
writes (`tokens`, `numCached`, `blockTable`, `restorePending`) are here too.

`Scheduler` extends it by the queues, the batch under construction and `pc`,
where `step` is: `idle`, the `prefill` and `decode` loops of `schedule`,
`dispatch`, then `post`, `append` and `finish` for the sequences in
`postprocess`, or `failed` after `assert scheduled_seqs`. Every round of a loop
is an action. Invariants that are false inside an operation say at which `pc`
they hold.

The runs check the scheduler's properties in `Engine`, which only adds variables
to it.

`Engine` extends it by `kv`, the rows of the GPU cache. The KV of a token
depends on all tokens before it, so a row is the prefix it was computed for, and
a row computed over a context that is wrong is `NoRow`. `Writes` computes slots
as `prepare_prefill` and `prepare_decode` do, `StoreKV` is the kernel. A restore
copies one block per action and may fail at each, before or in the middle of the
copy.

`CPUBlockStore` models the store of KV blocks in CPU memory: handles are pairs
of slot and generation, `lru` the order of the dictionary. `store_block` has one
action per outcome: success; a copy that fails (the slot returns to the free
list, its content is torn); an allocation of memory or a synchronization that
fails before the copy, outside the `try` (the slot is lost, as in the code, with
or without memory). `issued`, `lost` and `usedAfter` are history variables of
the properties.

`ContextDB` extends it by the prefix index and sessions. `store_session` is
modelled block by block, since each block may evict and each may fail. `Hash`
and `KV` are parameters: the hash may have collisions.

`ReuseEngine` composes `Engine` and an instance of `ContextDB` as
`enable_cpu_cache` does: `add_request` creates a session, the restore resolves
its handles one by one when the request is admitted, and after a prefill that
ends the prompt, the GPU blocks are stored. Blocks are evicted while requests
wait, so restores fail because of what really happened and not by a free choice.

`TPChannel` models rank 0 and the workers of tensor parallelism. Every write and
read of the shared buffer and every use of an event is a step, since the
processes run at any speed. A command is a number and a method, `run` or `exit`.
`Joined` is what makes the channel safe: rank 0 returns from `run` with the
sampled tokens, which need the part of every worker, and a worker takes part
only after it has read the command and cleared its event. A method without a
collective operation has no such protection. The engine has some (the attention
trace), which the plan of that feature restricts to one rank
(`EXECUTION_PROMPT_M9_REAL_KV_OFFLOAD.md`), though `config.py` does not.

`M12Runtime` models one layer of the sparse runtime; all layers receive the same
calls. A row of a buffer is the token it was computed for, a pair of request and
position, or `Blank`. `StoreKV`, `PrefillFirst`, `PrefillChunk`, `Decode`,
`VerifyTokens`, `CommitVerified`, `RollbackVerified` and `Emptied` are the
methods. Scores are not modelled: a selection takes any blocks that the number
of blocks to take and the mask allow (`Best`), and the rules (fixed, dynamic,
relative, union) say how many (`Counts`). Selectors differ in where the mask
comes from: `eager` computes it, `static` caches it, `graph` replays what was
captured. `attended` records what the last attention read, row by row with
its place, which the properties speak about.

`SparseEngine` extends it by the scheduler's sparse path, the part of `step`
that empties the runtime, and `postprocess`. `Schedule` is `schedule` and
`m12_reset`, then `PrefillStep`, `DecodeStep` or `PrefillRaises` the rest of the
step. `Verify` is `run_verify`; what calls it and settles the pass (`Accept`,
`Discard`) is not in the repository, so any prefix may be accepted.

`EngineMetrics` extends `Engine` by the counters of `CacheMetrics` and records at
the places where scheduler, runner and `generate` do: the first lookup of a
request, a fallback, the tokens of every batch, the reset when `generate` finds
the engine empty. `EngineTrace` extends it by the tracer, which may be armed and
cleared between any two steps; a trace is the tokens whose KV it holds.

`GraphDIPRS` is one search over a block graph, an iteration of its loops per
step, with any graph and any scores as its input. `BlockGraph` has the pure
functions around it: block scores, representatives, the two graph builders, the
selections and the expansion of blocks to tokens. Keys and queries are integers
whose product stands for the inner product. `M11Engine` composes them: `Prefill`
and `BuildIndex` are `prefill`, `Decode` appends, `Select` or one search per
query head choose, `Attend` assembles and gathers. A row of the history records
request, position and token. Where torch leaves the choice among equal scores
open (`topk`, `argsort`), the model takes any; where the code sorts by id, so
does the model. An exception ends the engine's life (`pc = "raised"`).

`NgramProposer`, `WindowedDraft` and `StaticDraft` are the drafters, one action
per method; `Speculation` gives them a caller. That loop is not in the
repository, so it is modelled from `docs/lineB_speculative_decoding_plan.md`: the
drafter proposes, the target agrees with any prefix and adds a token of its own,
`note_accepted` or `commit` follow. Which tokens models choose is open.

`MC*` modules hold the constants of the instances. `*Proofs` modules hold the
theorems. Operators marked "Mutated form" are plausible errors of the
definition that follows them; no specification uses them, and for each property
one of them was seen to violate it (listed in `PROJECT.json`).

`PROJECT.json` maps every definition to its source lines.

## Runs

| Run | Instance | Shows |
|---|---|---|
| `scheduler_oversized` | 3 requests, 3 blocks, a prompt that never fits | `assert scheduled_seqs` fails (finding) |
| `engine` | 3 requests, 4 blocks, batches of 2, budget 3, 3 new tokens, tracer armed at any time | order, memory, contracts and payload of the scheduler; it implements `Generation`; every cached position holds the KV of its own prefix; a trace is one request's |
| `engine_cpu` | 2 requests of 2 and 5 tokens that share a block, 3 blocks, batches of 1, 3 new tokens, so that they outgrow the cache together and the longer one alone | the same with preemption and with restores block by block that succeed or fail; the allocator's invariants hold under the scheduler; every request finishes, unless one exceeds the cache and stops the engine; the counters are those of the requests, but for some fallbacks |
| `metrics_fallback` | the same | those fallbacks take back what was never credited (finding) |
| `context_db` | 2 slots, 2 clients, contexts A, AB, B, BB | handles, slots and LRU of the store; sessions yield their own KV, index and store agree, a stored context is found |
| `context_db_collision` | the same, a colliding hash | a session yields the KV of another context (finding) |
| `reuse_engine` | 3 requests of one new token each, one shorter than a block, 3 GPU blocks, 2 CPU slots for 3 distinct blocks | the composition implements `Engine` and uses `ContextDB` as specified |
| `tp_channel` | 3 workers, 3 passes and an exit | every worker executes every command once and in order; every call returns |
| `sparse_engine` | 2 requests, prompts of 3, 11, 13, 14 tokens, chunks of 4, blocks of 2, sink 2, recent 6, 5 selector settings, one verification pass of 2 | windows, selection, packing, staging and service of the sparse engine |
| `sparse_short` | the same, one selector setting | a short prompt attends over the rows of the request before it (finding) |
| `m11` | 2 requests, prompts of 1, 5, 11, 13 tokens, blocks of 2, all 7 selectors, one change of selector within a request, budget of 6 blocks, recent window 0 or 2 | M11 prefill, selection, gathering and graph searches |
| `speculation` | 2 requests, each drafter, prompts of 1 to 6 tokens over an alphabet of two, up to 3 proposals, contexts up to 12 | the drafters under rounds that accept any prefix |

Bounds and why the interesting cases happen within them. Blocks have 2 tokens,
so that full and partial blocks, and completions on and off a boundary, occur.
Prompts share their first block (prefix hits) and the longer one exceeds the
token budget of 3 (chunked prefill). Three requests need up to nine blocks
where three or four exist, so admission waits, decodes preempt others and
themselves, and freed blocks are revived or reused. `MaxLen` is the longest
sequence the other bounds allow and only limits the allocator on its own;
`MaxTokens` is the code's parameter. `MaxGeneration` bounds how often a CPU slot
is taken: twice gives a stale handle, a reused slot, a torn one and lost ones.
Distinct contexts exceed the CPU slots, so that storing evicts. `reuse_engine` has a
`VIEW` without the sampled tokens: with one new token per request it ends the
request whichever it is and is never fed to the model. In `M11Engine` the second request may be shorter or longer than the first, so that
rows and graphs of the first are still there; 13 tokens give seven blocks, more
than the budget of six, degree 2 gives graphs with cycles and unreachable
blocks, the last block is full or partial when decoding starts, and a capacity of
14 is exceeded by the longest prompt. In `Speculation` a context grows beyond the
window (4), the ring (5), the margin of a trim and the RoPE table (11 rows), and
prompts are shorter and longer than an n-gram. In
`SparseEngine` the prompts end within a block (3, 11, 13), at one (14), within the
first chunk (3), with a chunk of one token (13) and after several; histories
have blocks that are not protected from the second chunk on; a second request
finds the buffers of the first. A verification pass may come between any two
decodes, and one pass is enough because committing leaves the state a decode
would find. Symmetry is
declared for blocks, slots and clients, never in runs with liveness, and not for
the scheduler's requests, which are ordered.

Deadlock is not an error where the instance ends: all requests are done, or a
bound is reached. That the engine never gets stuck inside a step is
`CallsWithinContract`.

Fairness: weak fairness of the steps of the engine loop, because `generate`
calls `step` in a loop while requests are unfinished and every loop in a step
is finite, and because a restore ends with success or an exception. In `TPChannel` every
process is weakly fair, and so is the barrier once all have come. Nothing is
assumed about the arrival of requests, about which drafts are accepted, about sampled tokens, or about a restore
ever succeeding.

In `M11Engine` the searches of a decode step are weakly fair, since they are
loops of one method; nothing is assumed about the next request or step.

A caller of `run_verify` settles each pass (weak fairness of `Settle`); without
that nothing of the code would run again.

The properties of the sparse engine say where they hold. Prompts that do not
fill the windows (`FillsWindows`) are served wrongly after their first decoded
token (see findings). `ChunkCoversHistory` is about chunks that end at a block
(`ChunksAligned`) with the default relation of sink and block, since a chunk
that does not is padded with zero rows that attention reads. It and
`AttendsOwnTokens` need a block that is not protected (`Available > 0`):
otherwise `max(1, avail)` makes the selector take a protected one, whose tokens
are then attended twice. `AttendsOwnTokens` moreover needs a recent window of at
least a block (`PaddingProtected`): a smaller one, which `config.py` allows, leaves
the padded last block of a prompt selectable, and its zero rows are attended. The
proof found this; no run has such sizes. `RequestsServed` excludes prompts of which some chunk
has one token (`Servable`): `_store_kv` asserts at least two, the step raises,
and the sequence stays in `running`, so that all later prompts are rejected. Two
prompts at a time are rejected likewise without being removed. The model found
each of these by dropping the condition.

`MetricsHonest` has two parts. `MetricsBalance`: hits and misses add up to the
requests, blocks to tokens reused, and tokens reused and recomputed to the
prompts. `HitsAccounted`: the hits and the blocks of either tier are those of the
requests that did not fall back, but for what stray fallbacks took
(`StrayFallbacks`). These are the fallbacks of requests whose recorded lookup
was a GPU hit: the request was preempted, and a second lookup, which is not
recorded, chose the CPU tier. (The recorded one cannot have been a miss: a
request that is admitted without a GPU hit has room for fresh blocks, and then
takes the CPU tier if it has handles.) Each
takes one hit and at least one CPU block that was not credited. So the
counters are wrong there and nowhere else; that they are wrong at all is the
finding of `metrics_fallback`.

`IndexMirrorsStore` says that the index names the resident blocks and no others.
It does not say that each can be reached: a lookup goes from the first block of a
context to its last, so storing a context that does not fit, or evicting its
beginning later, leaves a tail that is indexed, resident and not found until its
beginning is stored again. `RecentBlocksKept` says when that does not happen.

`SelectionSound` is about the number of blocks and the mask of each rule. A
captured graph or a cached mask that is stale is not a question the model can
ask: the key of a capture holds all that the capture reads, so `GraphFor` and
`MaskFor` always yield the current one (see the note of that hazard in
`PROJECT.json`).

`TraceRight` admits what the tracer does with a prompt beyond the token budget:
its first chunk has no block table and is captured as if it were the prompt.

`ProposesFromContext` has an exception, `FirstTokenLost`: `propose` notices the
first sampled token by comparing it with the last token it knows, so one that
repeats the last prompt token is never noted, nor is the first token after a
prompt shorter than an n-gram. Proposals then come from a context without it;
only their quality suffers, since the target verifies them.
`DraftWindowExact` says what the draft models see: the docstring of
`draft_runner.py` speaks of at most `window` tokens, the code trims only beyond
`window + 256` (`Margin`); in the ring, rejected proposals have overwritten the
oldest rows of the window, fewer than a round has proposals.
`WindowedDraftRunner.prefill` does not empty its cache, so `WindowedPrefill` is
`reset` and `prefill`. `StaticDraft.prefill` writes chunks of 256 rows before it
attends; the model has the ring after it. This is right for a ring of at least
one chunk (`RingAssumption`; the default window has 8192 rows). In a shorter one
a chunk writes the same slot twice by index, and which row remains is open.

The M11 selector `full` takes the blocks of the prefill: generated tokens that
are neither in them nor in the recent window are not attended, although
`EXECUTION_PROMPT_M11_ENGINE_INTEGRATION_FINAL_DEMO.md:265` and
`tests/test_m11_engine_integration.py:90` describe it as the full history.
`RaisesOnlyAvoidably` lists what makes a decode step raise: a change to a graph
selector after a prefill that built no graph, or whose stale graph has more
blocks than the prompt (`error` in `{"no graph", "mask"}`), no recent window, or
a request beyond the capacity. The row of the token is appended before the
selection, so a caller that retries such a step would append it twice.

A request that does not fit the cache alone stops the engine (see findings).
`RequestsFinish` allows for that, and `FailsOnlyOnOversized` says that nothing
else does it.
`RequestsFinish` is checked with batches of one, which the CPU tier requires; with
no handles a request there is one without CPU tier. Batches of two are in the
run `engine`, which has no liveness property.

## Proofs

`BlockManagerProofs` proves for any finite set of blocks and sequences, any
block size and any prompts that the specification of the allocator implies
`AllocatorSound` (`AllocatorCorrect`) and, by name, `BMTypeOK`, `RefCountsExact`,
`TablesInjective`, `IndexSound`, `TablesCover`, `CachedBlocksLabelled`,
`WritableBlocksExclusive` and `AdmissionSound`. Assumptions: `BlockSizeAssumption`
(a block has at least two tokens; the code asserts multiples of 256) and
`FinitenessAssumption` (finitely many blocks and sequences).

The inductive invariant `IInv` is the conjunction of the first seven. None is
inductive alone: a popped block has no owner only because the counts are exact;
relabelling keeps the index sound only because the blocks that are labelled have
no label yet; and this holds because sharing stops at labelled blocks, which is
what `WritableBlocksExclusive` and `CachedBlocksLabelled` say of each other's
complement. The proof has a lemma for each operation and shares those about
placing a block in a table (`PlaceStep`), labelling (`LabelStep`), releasing a
table (`DeallocateStep`), appending tokens (`TokensStep`) and clearing labels
(`EvictStep`). `AdmissionSound` follows from `IInv` in the state. The run
`engine_cpu` checks `AllocatorSound`, which is `IInv` but for the types, with
`AdmissionSound` (`TablesSound` is `TablesInjective` and `TablesCover`).

The first part of `EngineProofs` carries these theorems over to the scheduler and
adds its own, for any requests, cache and limits. Every step of the scheduler is a
step of the allocator or leaves it alone, by the way the scheduler is written
(the lemma `AllocatorSteps`); what has content is that the preconditions are met
when it calls, which `SInv` shows and `CallsWithinContract` checks. So
`AllocatorSound` holds under it (`AllocatorSoundUnderScheduler`). The scheduler is first come,
first served, and loses and repeats no request (`QueueDisciplineHolds`); it
implements `Generation` (`GenerationRefined`); `PreemptionOrder` as an action
property; `PayloadCorrect`, `FailureExplained` and `SchedulerTypeCorrect` are
the other invariants. Assumptions: those of the allocator and
`SchedulerAssumption`.

The inductive invariant `SInv` is `IInv` with one named part per question:
`QueuesOrdered` (the queues in order of arrival, also with the batch and what a
loop has set aside), `StatusInv` (who is in which queue owns which blocks),
`BatchInv` and `ProgressInv` (what the batch under construction may hold at each
`pc`, and how far `postprocess` is), `HoldersInv` (only running requests hold
blocks), `RestoreInv` (a restore is pending only between admission and its
confirmation), `PayloadInv`, `FailInv` and `PromptInv` (a request keeps its prompt
and its completion within the limits). They depend on each other: the allocator's
preconditions need to know who holds blocks and that a decode's block was
reserved; that needs the batch; and that the queues stay ordered when a request is
preempted needs that the batch is made of the oldest ones.

`EngineProofs` proves `CacheHonest` of the engine with its KV rows, with and
without CPU tier, and that `Engine` implements `Scheduler`
(`EngineImplementsScheduler`). `EInv` is `SInv` with the types of the rows, with
`RowsInv` (`CachedContextRight`, `LabelsHonest`: what is counted as cached or
findable by its label holds the KV of its own prefix; `RestoresWholeBlocks`),
`ChunkRight` and `RestoredInv`. The argument is the one the design rests on: the
rows a batch or a restore writes lie in blocks that one sequence owns and no label
names (`WritableBlocksExclusive`), and two sequences of a batch write different
slots, so nothing that is counted or findable is overwritten.

It then proves what is observed next to the engine, for any sizes and with and
without CPU tier. `TraceRight` (`TracesAreRight`): the invariant adds `FirstChunk`,
that the first sequence of a batch met the whole budget, so that what is captured
of a sequence with nothing cached is all its tokens or as many as the budget has;
afterwards the trace stays a prefix, since a token list only grows at its end
(`TokensGrow`) and keeps its prompt length. `MetricsHonest` (`MetricsAreHonest`):
`MInv` says of each request what its record stands for (`LookupRight`: it is
recorded before it gets blocks, and then until the window is reset; a recorded CPU hit
is that of the handles while they are there; only a request with handles waits for
a restore), and has the counters as sums over the window (`Balanced`,
`HitsCounted`). A fallback of a request recorded as a CPU hit moves it to the
fallen ones and takes back what it was credited; any other makes the number of
stray fallbacks one higher, and takes one hit and at least one block, since a restore has
at least one. The folds of the properties are sums whose value
does not depend on the order in which a set is taken apart (`SumsTake`), shown by
the least size at which the claim fails.

`ContextDBProofs` is about the store and the database over it, for any number of
slots, clients and contexts. Of the store: `HandlesNeverAliased`
(`HandlesCorrect`), `SlotsAccounted` (`SlotsAccountedFor`) and
`EvictsLeastRecent` (`LeastRecentEvicted`). `SlotsAccounted` says that each slot is
free, resident or lost, where the lost ones are those of `StoreLosesSlot`; all
other failures give the slot back. `StoreInv` adds that no handle is
ahead of its slot's generation (`GenerationsCover`), so that the slot that is taken
gets a generation above all those issued for it, and that the order of `_lru`
agrees with the history of uses (`LruRight`). Of the database: index and store
mirror each other whatever the hash (`IndexExactlyResident`), by `IndexInv`, in
which every entry is of a block that was stored for it and a handle has one entry
(`EntriesRight`); the entry of an evicted block goes also when the store that
evicted it fails or loses the slot. `HandlesHonest` is proved under `NoCollisions`
(`SessionsHonest`): contexts whose chained hashes agree at a block that has the
same tokens agree in the blocks before it. That is the least the code needs, since
it compares the tokens of the block itself; the run `context_db_collision` shows
what happens without it.

`ContextKept` is `RecentBlocksKept` of the database. That a context which fits the
store is found completely after `store_session`, if nothing came between its lookup
and its end, rests on the order of `_lru`: `SteadyRight` says that the blocks the
session has lie in a set of slots, no more than blocks, of which each was used after
all resident slots outside it. When a slot must be evicted although it is in this
set, the set would be all resident slots, and then the context would not fit
(`TakesAnother`). A lookup establishes this by touching its handles one after the other
(`LookupUses`); the folds that do so have their values by `FoldExists`, and what holds
after every touch is shown by the least place at which it fails. Assumptions:
`StoreAssumption`, `ContextAssumption`.

`ReuseProofs` proves both refinements of the engine with its CPU tier, for any
prompts, block sizes, numbers of GPU blocks and of CPU slots: `ReuseSpec` implements
`EngineSpec` (`EngineRefined`) and the specification of the context database
(`ContextDBRefined`). Each part closes what the other leaves open. In `Engine` a
restore writes the KV of the request's own prefix; here it copies what the handle
reads, and the two are equal since the database never aliases a handle
(`HandlesNeverAliased`) and a session holds the handles of its own context
(`SessionsRight`). `ContextDB` is promised payloads that are the KV of the
prefixes they are stored for; here they are read from the GPU blocks of the
request, whose cached rows (`CachedContextRight`) and computed chunk (`ChunkRight`)
are right. Neither the invariant of the engine nor that of the database is
enough; `ReuseInv` is both, `LookupsInv` (a request's session looked up the
request's own prompt, the request uses no more handles than it found, and a
pending restore counts exactly those as cached) and `PersistInv` (prompts are stored
only between `run` and `postprocess`, when they are completely computed).
`LookupsInv` also shows that `restore_cpu_blocks` never raises "CPU restore plan
does not match" (`RestorePlanHolds`). The database's assumptions are shown to hold
in the composition, `NoCollisions` among them, since `Engine` has no colliding
hashes. Consequently the KV cache is honest with the CPU tier (`ReuseIsHonest`).
Assumptions: those of the engine and `ReuseAssumption` (a finite store, and names of
the clients and of empty payloads that differ from everything else).

`TPChannelProofs` proves `CommandsFollowed` for any set of workers and any number
of calls: each worker has executed all that was issued, or all but the last
command, which has not been overwritten and whose event, once set, is only
cleared after the command was read (`Done`, `Behind`).

`SparseEngineProofs` proves every safety property that the runs check of the sparse
engine. `LengthsAgree` and `WindowsRight`: for any sizes of the blocks, the windows
and the chunks, any prompts and any alternation of decodes, verification passes,
commits, rollbacks and failed steps, the sink and the recent window hold the first
and the last tokens of the running request. Assumptions: `M12Assumption` and
`SparseAssumption`, which say that the sizes are positive, that the block buffers
are large enough for the prompts and the selection buffers for lossless passes.

Its inductive invariant has two parts. `Counters` relates the queues (a prompt
that waits has nothing cached, and nothing arrives while a step or a pass is
under way) and the counters of scheduler, sequence and runtime; without it the
rows a step stores would not continue those of the steps before. `Contents` says
what the buffers hold in terms of these counters: `SinkRight`, `RecentRight`, and
`PendingRight`, that the rows of a verification pass are the ones after the cached
tokens. `RecentRight` needs that a window that is not yet full becomes one that
is (`StoredSuffix`), and that a commit shifts by less than a window or replaces
it (`CommittedSuffix`).

What is selected and attended needs a third part, `Stored`: which rows the history
holds and how many of its blocks are filled (`HistoryRight`, `BlocksRight`).
`SelectionCorrect` counts: the best blocks of a score avoid the protected ones as
long as others are available (`BestAvoids`), and the union over the positions of a
lossless pass has at most their number times `TopK` blocks (`UnionBound`).
`AttentionCorrect` and `ChunksCorrect` (of `AttendsOwnTokens` and
`ChunkCoversHistory`) rest on where a row of the history lies: aligned chunks fill
their blocks, only the last block can be padded, and that one is protected. Since
the position of a row determines which part it is read from, the window, a
selected block or the chunk, none is read twice.

`M11EngineProofs` proves, first, `SearchTypeOK`, `SearchSound` and
`SearchComplete` for every block graph, all representative and exact scores, and every `beta`, `l0`
and budget. Assumption: `SearchAssumption` (`Beta` a natural number, `L0` and
`MaxScored` positive). The inductive invariant `SearchInv` says what the walk
still owes (`Owed`): an entry block is scored or queued, a scored block that is
not expanded is queued or was pruned, i.e. lies more than `beta` below the best
score, and a neighbour of an expanded block is scored or queued unless it is
still to be looked at or the budget is gone. Pruning is decided against the best
score so far; it stays justified because the best score is the maximum of what
is scored (`BestIsMaximum`) and only grows. At the end nothing is queued or the
search is truncated, so the candidates are expanded. That a search ends is
liveness and model-checked.

It proves, second, the safety properties of the M11 engine for any prompts, keys, queries, windows, capacity and selectors, and any changes of the selector:
`GathersOwnRows` (`AttendsToOwnRows`), `CriticalCovered` (`ExactSelectorCovers`),
`IndexOfThisRequest` (`SearchesOwnGraph`), `RaisesOnlyAvoidably`
(`FailsOnlyAvoidably`), and that `SearchComplete` and `SearchSound` hold of the
searches the engine starts. Assumptions: `M11Assumption`, `BlockGraphAssumption`
and `SearchAssumption`, which give the constants their types. The invariant
`M11Inv` is `SearchInv` with what the steps of a request need of each other:
`HistoryOwn` (the first `validLen` rows are the request's own, whatever longer
request was there before), `LengthsRight`, `FrozenRight` (what was frozen is the
prompt, with a representative for every block), `GraphRight` (a graph that exists
is over frozen keys, and over this prompt's while the selector is not changed),
`SearchRight`, `UnionRight` (the exact selector found the block of every critical
token) and `ErrorRight`. The mask of a step has the blocks of this prefill; that
the blocks a search returns are among them needs `GraphRight` and the types of
`SearchInv`. That a search is given a graph and scores `GraphDIPRS` knows needs
the shape of what prefill computes: rank orders, sums, the chain of
representatives, neighbour lists. These are shown by taking the least place at
which the claim fails, since induction over data is not available. Exact recall
is arithmetic: the score of a block is no less than that of its tokens, and the
best score of a block is the score of some token (`ExactScoresFacts`,
`ExactCovers`).

`SpeculationProofs` proves the three properties of the drafters, for any
alphabet, window, margin, ring, number of proposals and prompts, over any number
of rounds and requests: `DraftSeesContext` (`SeesContext`), `DraftWindowExact`
(`WindowExact`) and `ProposesFromContext` (`ProposesFromIt`). Assumptions:
`NgramAssumption`, `WindowAssumption`, `RingAssumption` and
`SpeculationAssumption` (a round has fewer proposals than the window and the
ring have rows, prompts are not empty). The properties speak of one step and of
the moment after a commit; the invariant `SpeculationInv` says what is kept
between them. `WindowedRight`: the trimmed cache is the end of what was fed, and
of a window's length but for the proposals of the round that have been fed, since
`commit` may drop those and `_trim` may have cut before. `StaticRight`: the ring
holds the last positions up to one that lies at most `MaxK` beyond the settled
ones, in their slots, and what it holds before the next position is what was fed;
what lies beyond was rejected and is masked until it is overwritten (`FeedRing`).
`KnownRight`: before the first proposal the prompt lookup has the prompt, then
all that was accepted, ending with the last token, so that no later proposal
notes it twice. `FollowersSplit` shows that indexing may resume where it stopped:
the followers in a longer context are those in the shorter one, then those from
`NoteFrom` on. That the recursive `Followers` and `Copied` have a value, and
`FollowersSplit`, are shown by the least place at which the claim fails.

### Only model-checked

Liveness (`RequestsFinish`, `RequestsServed`, `SearchesEnd`,
`CallsReturn`) and `CallsWithinContract`, which is about `ENABLED`, are out of
the prover's reach in principle. Every other property of a passing run is stated by
a theorem.

## Findings

* `scheduler_oversized`: `scheduler.py:144` asserts that something was
  scheduled. A request that needs more blocks than the cache has is accepted by
  `add_request`, is never admitted, and the assertion fails as soon as nothing
  else runs; the requests behind it are never served. A request whose prompt
  fits but whose completion outgrows the cache ends in the same way, after it
  has preempted itself.
* `sparse_short`: after a prompt shorter than the recent window, `decode` reads
  the window from its right end, while prefill has filled it from the left. It
  reads zeros or, after another request, that request's KV, and misses the last
  tokens of the prompt. The docstring of `reset` says that the logical lengths
  bound every read.
* `context_db_collision`: `docs/context_db.md` claims that every hit compares
  the complete token tuple, the README that collisions cannot corrupt KV.
  `PrefixIndex.lookup` compares the tokens of each block with those of the
  entry, not those of the blocks before it, which only the chained hash stands
  for. If two different first blocks collide, so do the chains of equal second
  blocks, and a context is handed KV that was computed over another prefix. It
  takes a collision of 64-bit hashes. The allocator's `can_allocate` compares in
  the same way.
* `metrics_fallback`: `docs/end_to_end_reuse.md` says of a failed restore that the
  metrics change from a CPU hit to a miss. In the run, request 2 finds its first
  block on the GPU, shared with request 1, where it could restore two from the
  CPU; the latter would need three free blocks. This hit is recorded. Request 1
  grows and preempts request 2, whose second block is overwritten. When request
  1 has finished, the second lookup of request 2, which is not recorded, chooses
  the CPU tier, and the restore fails. `record_cpu_restore_fallback` subtracts
  two CPU blocks that were never credited: `cpu_hit_blocks` and `reused_tokens`
  are -2. In the trace the second block is overwritten at once, since the model hands out
  any free block; the code's deque hands out the victim's last block first, so
  that it takes one more growth of request 1.

## Abstractions

* A forward pass yields any token. `ignore_eos` is left out: EOS always ends a
  request; its maximal length is `MaxTokens`.
* The free deques of the allocator and of the CPU store are sets: any free block
  may be taken. The code takes the one that has been free for longest.
* In `BlockManager` the chained hash of a block is the prefix itself (no
  collisions); `ContextDB` has the hash as a parameter.
* In `Scheduler` and `Engine` the CPU tier is a number of matched blocks, chosen
  when the request is added, and a restore that may fail; `ReuseEngine` replaces
  both by the database.
* `MaxNumSeqs` limits a batch, not the running set, as in the code.
* The loop of `create_session` that drops stale handles is a lookup among the
  live ones; `IndexMirrorsStore` shows that there are none to drop.
* `remove_handle` removes the first entry of the handle; a handle has only one,
  as `ContextDBProofs` shows.
* One cache fingerprint per engine, hence `CacheKey` is the hash; `slot.key` is
  left out, since the callback ignores it.
* In `M12Runtime` the history has its final size at once (the code grows it), all
  layers are one, and quantisation and staging copy rows as they are. The mask of
  lossless verification is left out: `attended` is what is gathered for all
  queries.
* In `M11Engine` one layer stands for all, keys and queries are integers with one
  KV head, block means are exact for the keys in use, and the frozen keys are a
  copy (`.float()` of a bf16 buffer). It runs one request with one prefill call,
  as M11 does: with chunks (`chunk_size` without the M12 runtime) each chunk's
  `prefill` would overwrite the one before.
* Payload validation, store statistics, timers and log output are left out, and
  so are `TTFT` and byte counters of the metrics, which are sums.

## Not modelled

`sparse/cpu_offload.py` replays one recorded layer for benchmarks; the engine
does not use it. Quantisation, fused kernels, models, layers, sampling and weight
loading are floating-point arithmetic, out of TLC's reach; cache sizing, CUDA
graphs and warm-up depend on the device. Benchmarks and scripts hold no state of
the engine.
