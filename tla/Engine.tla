------------------------------- MODULE Engine -------------------------------
(***************************************************************************)
(* The scheduler together with what it schedules for: the rows of the GPU  *)
(* KV cache (engine/model_runner.py, layers/attention.py).                 *)
(*                                                                         *)
(* The KV of a token depends on the tokens before it, so a row is modelled *)
(* by the token prefix it was computed for, <<>> if it is the KV of no     *)
(* prefix at all.  A row computed over a wrong context is wrong.           *)
(***************************************************************************)
EXTENDS Scheduler

VARIABLES
  kv,       \* kv[b][o]: row o of block b of k_cache and v_cache
  restored  \* how many blocks the restore under way has copied

NoRow == <<>>

EngineInit ==
  /\ Init
  /\ kv = [b \in Blocks |-> [o \in 1 .. BlockSize |-> NoRow]]
  /\ restored = 0

-----------------------------------------------------------------------------
(* prepare_prefill, prepare_decode: where the rows of a batch go *)

\* Mutated form: a chunk starts at the first row of a block.
SlotUnaligned(s, p) ==
  <<blockTable[s][(p - 1) \div BlockSize + 1],
    ((p - 1 - numCached[s]) % BlockSize) + 1>>

\* prepare_prefill: the slot of position p of s, through its block table.
Slot(s, p) ==
  <<blockTable[s][(p - 1) \div BlockSize + 1], ((p - 1) % BlockSize) + 1>>

\* prepare_decode: the one slot of a decode, in the last block of the table.
DecodeSlot(s) ==
  <<Last(blockTable[s]), Len(tokens[s]) - (NumBlocks(s) - 1) * BlockSize>>

Chunk(s) == numCached[s] + 1 .. numCached[s] + scheduled[s]

Row(s, p) ==
  LET block == blockTable[s][(p - 1) \div BlockSize + 1]
  IN  kv[block][((p - 1) % BlockSize) + 1]

Prefix(s, p) == SubSeq(tokens[s], 1, p)

\* Attention reads the cached positions through the block table.
ContextRight(s) == \A p \in 1 .. numCached[s] : Row(s, p) = Prefix(s, p)

\* What the forward pass of the batch stores, and where.
Writes ==
  UNION {{<<IF prefillStep THEN Slot(s, p) ELSE DecodeSlot(s),
            IF ContextRight(s) THEN Prefix(s, p) ELSE NoRow>> : p \in Chunk(s)} :
         s \in Range(batch)}

\* store_kvcache.  A slot written with two different rows holds neither.
StoreKV ==
  kv' = [b \in Blocks |-> [o \in 1 .. BlockSize |->
           LET rows == {w[2] : w \in {v \in Writes : v[1] = <<b, o>>}}
           IN  IF rows = {} THEN kv[b][o]
               ELSE IF Cardinality(rows) = 1 THEN CHOOSE r \in rows : TRUE
               ELSE NoRow]]

-----------------------------------------------------------------------------
(* restore_cpu_blocks copies block after block; it may fail at any of them *)

\* The KV of block i of s.
BlockRows(s, i) ==
  [o \in 1 .. BlockSize |-> Prefix(s, (i - 1) * BlockSize + o)]

RestoreBlock ==
  /\ pc = "dispatch"
  /\ \E s \in Pending :
       /\ restored < Computed(s)
       /\ kv' = [kv EXCEPT ![blockTable[s][restored + 1]] = BlockRows(s, restored + 1)]
  /\ restored' = restored + 1
  /\ UNCHANGED vars

\* Mutated form: the last matched block is forgotten.
RestoreCompleteEarly(s) == restored + 1 >= Computed(s)

RestoreComplete(s) == restored = Computed(s)

RestoreDone ==
  /\ \E s \in Pending : RestoreComplete(s)
  /\ ConfirmCpuRestore
  /\ restored' = 0
  /\ UNCHANGED kv

\* A copy that is cut short leaves no usable row.
HalfWritten(b) == [kv EXCEPT ![b] = [o \in 1 .. BlockSize |-> NoRow]]

\* A stale handle raises before the copy, a failing copy in the middle of it.
RestoreFails ==
  /\ \E s \in Pending :
       /\ ~RestoreComplete(s)
       /\ kv' \in {kv, HalfWritten(blockTable[s][restored + 1])}
  /\ RollbackCpuRestore
  /\ restored' = 0

-----------------------------------------------------------------------------
\* What generate() drives: scheduling and running, and restores if there is
\* a CPU tier.
DenseStep ==
  \/ StepControl /\ UNCHANGED <<kv, restored>>
  \/ Run /\ StoreKV /\ UNCHANGED restored

RestoreStep == RestoreBlock \/ RestoreDone \/ RestoreFails

\* The calls of its owner between two steps.
OwnersCalls == (Arrivals \/ ClearGpuPrefixCache) /\ UNCHANGED <<kv, restored>>

EngineNext == OwnersCalls \/ DenseStep \/ RestoreStep

engineVars == <<vars, kv, restored>>

EngineSpec == EngineInit /\ [][EngineNext]_engineVars

-----------------------------------------------------------------------------
(* Properties *)

\* A sequence never attends over another's tokens, over rows not yet copied
\* or over what an earlier owner left: every position it counts as cached
\* holds the KV of its own prefix, whoever computed it.
CachedContextRight ==
  \A s \in Seqs : ~restorePending[s] => ContextRight(s)

\* A block can be found by its hash only while it holds what the hash
\* promises, also when it lies in the free list: every row of a labelled
\* block is the KV of the prefix the label stands for.
LabelsHonest ==
  \A b \in Blocks : blockHash[b] # NoHash =>
    LET h == blockHash[b]
    IN  \A o \in 1 .. BlockSize :
          kv[b][o] = SubSeq(h, 1, Len(h) - BlockSize + o)

\* The KV cache never lies: what a sequence counts as cached and what a lookup
\* can find is the KV of the tokens it is taken for.
CacheHonest == CachedContextRight /\ LabelsHonest

=============================================================================
