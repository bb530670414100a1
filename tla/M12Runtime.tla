----------------------------- MODULE M12Runtime -----------------------------
(***************************************************************************)
(* The sparse runtime of one attention layer (sparse/m12_runtime.py): the  *)
(* KV history of the active request in blocks on the CPU, its first (sink) *)
(* and last (recent) tokens on the GPU, and the attention of every later   *)
(* step over [selected blocks | sink | recent | the step's own tokens].    *)
(* All layers receive the same calls, so one of them is modelled.          *)
(*                                                                         *)
(* A row of a buffer is the token whose KV it holds, <<request, position>>,*)
(* or Blank: zeros, as allocated or as padding.  Which blocks score best   *)
(* is open; masking and counting are not.  Quantization, staging and the   *)
(* profiling of a call move the same rows and are left out.                *)
(***************************************************************************)
EXTENDS Integers, FiniteSets, FiniteSetsExt

CONSTANTS
  BlockSize,
  Sink, Recent,     \* sink_tokens, recent_tokens
  TopK,             \* top_k_blocks
  PrefillTopK,      \* prefill_top_k_blocks
  DecodeTopK,       \* decode_top_k_blocks
  RelativeMax,      \* decode_relative_max_blocks
  UnionBlocks,      \* verify_union_blocks
  MaxBlocks,        \* max_model_len in blocks
  Configs           \* settings of the selector: see cfg

ASSUME M12Assumption ==
  /\ {BlockSize, Sink, Recent, TopK, PrefillTopK, DecodeTopK, RelativeMax,
      MaxBlocks} \subseteq Nat \ {0}
  /\ UnionBlocks \in Nat
  /\ PrefillTopK <= TopK /\ DecodeTopK <= TopK
  /\ \A c \in Configs :
       /\ c.selector \in {"eager", "graph", "static"}
       /\ c.rule \in {"fixed", "dynamic", "relative", "union"}
       \* Together these two raise ValueError.
       /\ ~(c.selector = "graph" /\ c.rule \in {"relative", "union"})

VARIABLES
  cfg,          \* the configuration; never changes
  history,      \* k_cpu, v_cpu: rows, by block
  nblocks,      \* nblocks_filled
  sink, recent, \* sink_k, recent_k: rows
  validLen, prefillLen,
  protected,    \* protected_blocks
  pending,      \* _pending_k, rows
  graph,        \* _selector_graph with its key, or NoGraph
  mask,         \* _selector_static_mask: the blocks it masks, {} if None
  attended      \* the last attention: its kind, block ids and packed rows

windows == <<history, nblocks, sink, recent, validLen, prefillLen, protected>>
runtimeVars == <<cfg, windows, pending, graph, mask, attended>>

Blank == <<0, 0>>
NoGraph == [nblocks |-> 0, k |-> 0, masked |-> {}]
NoRows == <<>>
NoAttention == [kind |-> "none", ids |-> {}, cells |-> {}]

\* A packed row and where it was read.
Cell(part, i, row) == [part |-> part, at |-> i, row |-> row]
Part(part, rows, from, len) ==
  {Cell(part, i, rows[i]) : i \in from .. from + len - 1}

Smaller(m, n) == IF m <= n THEN m ELSE n
Larger(m, n) == IF m <= n THEN n ELSE m
BlocksFor(t) == (t + BlockSize - 1) \div BlockSize

RuntimeInit ==
  /\ cfg \in Configs
  /\ history = [b \in 0 .. MaxBlocks - 1 |-> [i \in 0 .. BlockSize - 1 |-> Blank]]
  /\ sink = [i \in 0 .. Sink - 1 |-> Blank]
  /\ recent = [i \in 0 .. Recent - 1 |-> Blank]
  /\ nblocks = 0 /\ validLen = 0 /\ prefillLen = 0
  /\ protected = {} /\ pending = NoRows
  /\ graph = NoGraph /\ mask = {} /\ attended = NoAttention

-----------------------------------------------------------------------------
(* The selector *)

\* Protected blocks of the filled history.
InRange == protected \cap (0 .. nblocks - 1)

\* Mutated form: protected blocks are counted as if they could be taken.
AvailableAll == nblocks

Available == nblocks - Cardinality(InRange)

\* How many blocks are taken when `requested' are asked for.
Quota(requested) == Smaller(requested, Larger(1, Available))

\* The k best of n blocks: masked ones score -inf, so they are taken last.
Best(n, k, masked) ==
  {ids \in kSubset(k, 0 .. n - 1) :
     ids \cap masked = {} \/ (0 .. n - 1) \ masked \subseteq ids}

\* Prefill and verification use the eager selector with the fixed rule.
Select(requested) == Best(nblocks, Quota(requested), InRange)

\* _gpu_select_per_query: the union of what each of n queries takes.
SelectPerQuery(n) ==
  {UNION {choice[i] : i \in 1 .. n} : choice \in [1 .. n -> Select(TopK)]}

\* dynamic_top_k_from_scores: half, three quarters or all of a full quota.
DynamicCounts(k) ==
  IF k < DecodeTopK THEN {k}
  ELSE {Larger(1, (k + 1) \div 2), Larger(1, (3 * k + 3) \div 4), k}

\* The graph a decode step replays: the captured one if its key fits, else
\* one captured now.
GraphFor(k) ==
  LET key == [nblocks |-> nblocks, k |-> k, masked |-> InRange]
  IN  IF graph = key THEN graph ELSE key

\* _get_selector_static_mask.
MaskFor == IF mask = InRange THEN mask ELSE InRange

\* How many blocks the rule may take, of a quota of k.  The relative rule
\* keeps the best ones that are close to the best, up to its own cap.
Counts(k) ==
  LET cap == Smaller(RelativeMax, Larger(1, Available))
  IN  CASE cfg.rule = "fixed"    -> {k}
        [] cfg.rule = "dynamic"  -> DynamicCounts(k)
        [] cfg.rule = "relative" -> 1 .. cap
        [] cfg.rule = "union"    -> Smaller(k, cap) .. cap

\* What a decode step may select, with the mask its selector uses.
DecodeChoices ==
  LET k == Quota(DecodeTopK)
      g == GraphFor(k)
      best(n, of, masked) == UNION {Best(n, c, masked) : c \in Counts(of)}
  IN  CASE cfg.selector = "graph"  -> best(g.nblocks, g.k, g.masked)
        [] cfg.selector = "static" -> best(nblocks, k, MaskFor)
        [] cfg.selector = "eager"  -> best(nblocks, k, InRange)

\* Mutated form: there is no room for the union of a lossless pass.
SelBudgetShared ==
  IF cfg.rule \in {"relative", "union"} THEN Larger(TopK, RelativeMax) ELSE TopK

\* Blocks the staging and packing buffers have room for.
SelBudget ==
  Max({TopK, UnionBlocks}
        \cup (IF cfg.rule \in {"relative", "union"} THEN {RelativeMax} ELSE {}))

-----------------------------------------------------------------------------
(* Packing *)

SelectedRows(ids) ==
  {Cell("history", b * BlockSize + i, history[b][i]) :
     b \in ids, i \in 0 .. BlockSize - 1}

SinkRows == Part("sink", sink, 0, Smaller(Sink, validLen))

\* prefill_recent_slice: the recent tokens that are not sink tokens.
RecentSlice ==
  LET start == validLen - Smaller(Recent, validLen)
      first == Larger(Smaller(Sink, validLen), start)
  IN  Part("recent", recent, first - start, validLen - first)

ChunkRows(k, t) == Part("chunk", k, 0, t)

Packed(ids, k, t) == SelectedRows(ids) \cup SinkRows \cup RecentSlice \cup ChunkRows(k, t)

-----------------------------------------------------------------------------
(* Calls.  k holds the rows of t new tokens, numbered from 0. *)

\* Mutated form: the window is carried as if it had always been full.
RecentAfterStoreFull(k, t) ==
  LET kept == Smaller(Recent, validLen + t)
      carry == kept - t
  IN  [i \in 0 .. Recent - 1 |->
         CASE i >= kept -> recent[i]
           [] i < kept /\ t >= kept -> k[t - kept + i]
           [] i < kept /\ t < kept /\ i < carry -> recent[Recent - carry + i]
           [] OTHER -> k[i - carry]]

\* The recent window after the prefill tokens k.
RecentAfterStore(k, t) ==
  LET kept == Smaller(Recent, validLen + t)
      carry == kept - t
      old == Smaller(Recent, validLen)
  IN  [i \in 0 .. Recent - 1 |->
         CASE i >= kept -> recent[i]
           [] i < kept /\ t >= kept -> k[t - kept + i]
           [] i < kept /\ t < kept /\ i < carry -> recent[old - carry + i]
           [] OTHER -> k[i - carry]]

\* Mutated form: the tail that is protected does not reach the recent window.
ProtectedTailShort(need) ==
  {0} \cup (Larger(1, need - (Recent \div BlockSize) + 1) .. need - 1)

\* The blocks that sink and recent stand for.
ProtectedTail(need) ==
  {0} \cup (Larger(1, need - (Recent \div BlockSize)) .. need - 1)

\* The assertion of _store_kv.  What it raises on is not stored.
Storable(t) == t >= 2

\* _store_kv: a chunk begins a new block, and the last one is padded.
StoreKV(k, t) ==
  LET need == nblocks + BlocksFor(t)
      row(j) == IF j < t THEN k[j] ELSE Blank
  IN  /\ Storable(t)
      /\ history' = [b \in DOMAIN history |->
                       IF b \in nblocks .. need - 1
                       THEN [i \in 0 .. BlockSize - 1 |-> row((b - nblocks) * BlockSize + i)]
                       ELSE history[b]]
      /\ sink' = [i \in DOMAIN sink |->
                    IF prefillLen = 0 /\ i < t THEN k[i] ELSE sink[i]]
      /\ recent' = RecentAfterStore(k, t)
      /\ validLen' = validLen + t
      /\ prefillLen' = prefillLen + t
      /\ nblocks' = need
      /\ protected' = ProtectedTail(need)
      /\ graph' = NoGraph
      /\ UNCHANGED mask

\* The first chunk attends to itself.
PrefillFirst(k, t) ==
  /\ prefillLen = 0
  /\ attended' = [kind |-> "first", ids |-> {}, cells |-> ChunkRows(k, t)]
  /\ StoreKV(k, t)
  /\ UNCHANGED <<cfg, pending>>

\* A later chunk attends to what the window held before it.
PrefillChunk(k, t) ==
  /\ prefillLen > 0
  /\ \E ids \in Select(PrefillTopK) :
       attended' = [kind |-> "chunk", ids |-> ids, cells |-> Packed(ids, k, t)]
  /\ StoreKV(k, t)
  /\ UNCHANGED <<cfg, pending>>

\* verify_tokens: with one selection for all queries, or one for each.
VerifyTokens(k, t, lossless) ==
  /\ prefillLen > 0
  /\ \E ids \in IF lossless THEN SelectPerQuery(t) ELSE Select(TopK) :
       attended' = [kind |-> "verify", ids |-> ids, cells |-> Packed(ids, k, t)]
  /\ pending' = [i \in 0 .. t - 1 |-> k[i]]
  /\ UNCHANGED <<cfg, windows, graph, mask>>

\* Mutated form: the carried tokens are taken from the front of the window.
RecentAfterCommitFront(n) ==
  LET carry == Smaller(Recent, validLen + n) - n
  IN  IF n >= Recent
      THEN [i \in 0 .. Recent - 1 |-> pending[n - Recent + i]]
      ELSE [i \in 0 .. Recent - 1 |->
              CASE i < carry -> recent[i]
                [] i >= carry /\ i < carry + n -> pending[i - carry]
                [] OTHER -> recent[i]]

\* The recent window after the first n pending tokens.
RecentAfterCommit(n) ==
  LET carry == Smaller(Recent, validLen + n) - n
      old == Smaller(Recent, validLen)
  IN  IF n >= Recent
      THEN [i \in 0 .. Recent - 1 |-> pending[n - Recent + i]]
      ELSE [i \in 0 .. Recent - 1 |->
              CASE i < carry -> recent[old - carry + i]
                [] i >= carry /\ i < carry + n -> pending[i - carry]
                [] OTHER -> recent[i]]

CommitVerified(n) ==
  /\ recent' = IF n > 0 THEN RecentAfterCommit(n) ELSE recent
  /\ validLen' = validLen + n
  /\ pending' = NoRows
  /\ UNCHANGED <<cfg, history, nblocks, sink, prefillLen, protected, graph, mask,
                 attended>>

RollbackVerified ==
  /\ pending' = NoRows
  /\ UNCHANGED <<cfg, windows, graph, mask, attended>>

\* decode: the token enters the window on the right, and the window is read
\* from the right.
Decode(row) ==
  LET shifted == [i \in 0 .. Recent - 1 |->
                    IF i < Recent - 1 THEN recent[i + 1] ELSE row]
      len == Smaller(Recent, validLen + 1)
  IN  /\ recent' = shifted
      /\ \E ids \in DecodeChoices :
           attended' = [kind |-> "decode", ids |-> ids,
                        cells |-> SelectedRows(ids) \cup SinkRows
                                    \cup Part("recent", shifted, Recent - len, len)]
      /\ graph' = IF cfg.selector = "graph" THEN GraphFor(Quota(DecodeTopK)) ELSE graph
      /\ mask' = IF cfg.selector = "static" THEN MaskFor ELSE mask
      /\ validLen' = validLen + 1
      /\ UNCHANGED <<cfg, history, nblocks, sink, prefillLen, protected, pending>>

\* What reset() sets; the rows of the buffers stay.
Emptied ==
  /\ nblocks' = 0 /\ validLen' = 0 /\ prefillLen' = 0
  /\ protected' = {} /\ pending' = NoRows
  /\ graph' = NoGraph /\ mask' = {}
  /\ UNCHANGED <<cfg, history, sink, recent, attended>>

=============================================================================
