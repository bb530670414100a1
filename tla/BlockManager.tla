---------------------------- MODULE BlockManager ----------------------------
(***************************************************************************)
(* The paged KV-cache allocator of the engine (engine/block_manager.py).   *)
(* Every sequence owns a table of GPU blocks; complete blocks are labelled *)
(* with the chained hash of the token prefix they end, and an index from   *)
(* hash to block lets later sequences share them.  A block whose last      *)
(* owner leaves goes back to the free list WITH its label, so it can be    *)
(* revived until it is handed out again.                                   *)
(*                                                                         *)
(* Two abstractions.  The chained 64-bit hash of blocks 0..i is the token  *)
(* prefix itself (no collisions here); -1, the hash of no block, is <<>>.  *)
(* The free deque is a set: what is popped is ANY free block, so all that  *)
(* holds here holds for every eviction order, the code's FIFO included.    *)
(* Table positions count from 1: position i is block_table[i-1].           *)
(***************************************************************************)
EXTENDS Integers, Sequences, FiniteSets, Functions

CONSTANTS
  Seqs,        \* sequence ids
  Blocks,      \* GPU block ids
  Token,       \* token ids
  BlockSize,   \* Sequence.block_size
  Prompts,     \* prompts a request may carry
  MaxLen       \* bound: a sequence never outgrows this many tokens

\* config.py requires a block size that is a positive multiple of 256.
ASSUME BlockSizeAssumption == BlockSize \in Nat /\ BlockSize >= 2

\* There are finitely many sequences and blocks; a prompt is never empty
\* (Sequence.__init__ reads token_ids[-1]).
ASSUME FinitenessAssumption ==
  /\ IsFiniteSet(Seqs)
  /\ IsFiniteSet(Blocks)
  /\ Prompts \subseteq Seq(Token) \ {<<>>}

VARIABLES
  tokens,         \* seq.token_ids; <<>> until the request is added
  numCached,      \* seq.num_cached_tokens
  blockTable,     \* seq.block_table
  restorePending, \* seq.cpu_restore_pending
  free,           \* free_block_ids
  used,           \* used_block_ids
  refCount,       \* blocks[b].ref_count
  blockHash,      \* blocks[b].hash (and token_ids, its last BlockSize tokens)
  hashToBlock     \* hash_to_block_id

bmVars == <<tokens, numCached, blockTable, restorePending,
            free, used, refCount, blockHash, hashToBlock>>

NoHash == <<>>

-----------------------------------------------------------------------------
(* Derived quantities *)

NumBlocks(s) == (Len(tokens[s]) + BlockSize - 1) \div BlockSize

\* compute_hash chained over the first i blocks of s.
PrefixHash(s, i) == SubSeq(tokens[s], 1, i * BlockSize)

Owners(b) == {s \in Seqs : b \in Range(blockTable[s])}

\* The number of complete blocks of s whose KV the sequence counts as cached.
Computed(s) == numCached[s] \div BlockSize

\* blocks[b].token_ids of a block labelled h.
BlockTokens(h) ==
  IF h = NoHash THEN <<>> ELSE SubSeq(h, Len(h) - BlockSize + 1, Len(h))

-----------------------------------------------------------------------------
(* can_allocate and its relatives *)

\* One round of the lookup loop: the index knows h and the block it names
\* still carries the tokens of h.
Hit(h) ==
  /\ h \in DOMAIN hashToBlock
  /\ BlockTokens(blockHash[hashToBlock[h]]) = BlockTokens(h)

\* The loop stops at the first miss and never looks at the last block.
LongestHit(s, k) ==
  /\ k \in 0 .. NumBlocks(s) - 1
  /\ \A i \in 1 .. k : Hit(PrefixHash(s, i))
  /\ k < NumBlocks(s) - 1 => ~Hit(PrefixHash(s, k + 1))

HitBlock(s, i) == hashToBlock[PrefixHash(s, i)]

HitBlocks(s, k) == {HitBlock(s, i) : i \in 1 .. k}

\* Mutated form: every hit is taken to be free of charge.
NewBlocksNeededAllHits(s, k) == NumBlocks(s) - k

\* num_new_blocks: a hit on a block nobody uses still costs a free block.
NewBlocksNeeded(s, k) ==
  NumBlocks(s) - Cardinality({i \in 1 .. k : HitBlock(s, i) \in used})

CanAllocate(s, k) ==
  /\ LongestHit(s, k)
  /\ Cardinality(free) >= NewBlocksNeeded(s, k)

CanAllocateFresh(s) == Cardinality(free) >= NumBlocks(s)

\* A token that opens a block needs one.
CanAppend(s) ==
  Cardinality(free) >= (IF Len(tokens[s]) % BlockSize = 1 THEN 1 ELSE 0)

-----------------------------------------------------------------------------
(* The shared steps of the operations *)

\* Mutated form: a block handed out again keeps its entry in the index.
IndexWithoutKept(S) == hashToBlock

\* The index once the blocks of S lose their labels: the entry of a label
\* goes only if it still names that block (a duplicate may have taken it).
IndexWithout(S) ==
  Restrict(hashToBlock,
           {h \in DOMAIN hashToBlock :
              ~(hashToBlock[h] \in S /\ blockHash[hashToBlock[h]] = h)})

\* Mutated form: a shared hit is treated like a revived one.
RefOfHitReset(b) == 1

\* allocate: one more owner of a used block, the first of a revived one.
RefOfHit(b) == IF b \in used THEN refCount[b] + 1 ELSE 1

\* Mutated form: reset() forgets the hash.
CleanLabelsNoReset(S) == blockHash

\* reset(): the blocks of S carry no label.
CleanLabels(S) == [b \in Blocks |-> IF b \in S THEN NoHash ELSE blockHash[b]]

\* The table of s grows by the hits `shared', then by the popped `fresh'.
Place(s, shared, fresh) ==
  LET S == Range(shared)
      F == Range(fresh)
  IN  /\ blockTable' = [blockTable EXCEPT ![s] = @ \o shared \o fresh]
      /\ free' = free \ (S \cup F)
      /\ used' = used \cup S \cup F
      /\ refCount' = [b \in Blocks |-> IF b \in F THEN 1
                                       ELSE IF b \in S THEN RefOfHit(b)
                                       ELSE refCount[b]]
      /\ blockHash' = CleanLabels(F)
      /\ hashToBlock' = IndexWithout(F)

\* Mutated form: the chain restarts at every call.
ChainRootFlat(s) == NoHash

\* hash_blocks: where the chain of s continues from.
ChainRoot(s) ==
  IF Computed(s) > 0 THEN blockHash[blockTable[s][Computed(s)]] ELSE NoHash

\* update() of positions from+1 .. to of s, the chain starting at root.
Label(s, root, from, to) ==
  LET chain(i) == root \o SubSeq(tokens[s], from * BlockSize + 1, i * BlockSize)
      pos == from + 1 .. to
  IN  /\ blockHash' =
           [b \in Blocks |->
              IF \E i \in pos : blockTable[s][i] = b
              THEN chain(CHOOSE i \in pos : blockTable[s][i] = b)
              ELSE blockHash[b]]
      /\ hashToBlock' =
           [h \in DOMAIN hashToBlock \cup {chain(i) : i \in pos} |->
              IF \E i \in pos : chain(i) = h
              THEN blockTable[s][CHOOSE i \in pos : chain(i) = h]
              ELSE hashToBlock[h]]

\* Mutated form: every block of the table is freed, shared or not.
ReleasedAll(s) == Range(blockTable[s])

\* Mutated form: no block ever returns to the free list.
ReleasedNone(s) == {}

\* deallocate: the blocks whose count drops to zero.
Released(s) == {b \in Range(blockTable[s]) : refCount[b] = 1}

-----------------------------------------------------------------------------
(* Operations.  The first conjuncts of each are what its callers guarantee  *)
(* (scheduler.py) or what the code asserts.                                *)

BMInit ==
  /\ tokens = [s \in Seqs |-> <<>>]
  /\ numCached = [s \in Seqs |-> 0]
  /\ blockTable = [s \in Seqs |-> <<>>]
  /\ restorePending = [s \in Seqs |-> FALSE]
  /\ free = Blocks
  /\ used = {}
  /\ refCount = [b \in Blocks |-> 0]
  /\ blockHash = [b \in Blocks |-> NoHash]
  /\ hashToBlock = [h \in {} |-> NoHash]

allocVars == <<blockTable, free, used, refCount, blockHash, hashToBlock>>

\* Sequence.__init__ of a request with this prompt.
NewSequence(s, prompt) ==
  /\ tokens[s] = <<>>
  /\ tokens' = [tokens EXCEPT ![s] = prompt]
  /\ UNCHANGED <<numCached, restorePending, allocVars>>

Allocate(s, k) ==
  /\ tokens[s] # <<>> /\ blockTable[s] = <<>>
  /\ CanAllocate(s, k)
  /\ \E fresh \in Injection(1 .. NumBlocks(s) - k, free \ HitBlocks(s, k)) :
       Place(s, [i \in 1 .. k |-> HitBlock(s, i)], fresh)
  /\ numCached' = [numCached EXCEPT ![s] = k * BlockSize]
  /\ UNCHANGED <<tokens, restorePending>>

\* k blocks will be copied back from the CPU store: none of them is shared.
AllocateForCpuRestore(s, k) ==
  /\ tokens[s] # <<>> /\ blockTable[s] = <<>>
  /\ k \in 1 .. NumBlocks(s) - 1
  /\ CanAllocateFresh(s)
  /\ \E fresh \in Injection(1 .. NumBlocks(s), free) : Place(s, <<>>, fresh)
  /\ numCached' = [numCached EXCEPT ![s] = k * BlockSize]
  /\ restorePending' = [restorePending EXCEPT ![s] = TRUE]
  /\ UNCHANGED tokens

\* register_restored_blocks, called by confirm_cpu_restore, which also
\* clears the pending mark.
ConfirmRestore(s) ==
  /\ restorePending[s]
  /\ Label(s, NoHash, 0, Computed(s))
  /\ restorePending' = [restorePending EXCEPT ![s] = FALSE]
  /\ UNCHANGED <<tokens, numCached, blockTable, free, used, refCount>>

\* Mutated form: the cached count survives the table.
CachedAfterReleaseKept(s) == numCached

CachedAfterRelease(s) == [numCached EXCEPT ![s] = 0]

Deallocate(s) ==
  /\ refCount' = [b \in Blocks |-> IF b \in Range(blockTable[s])
                                   THEN refCount[b] - 1 ELSE refCount[b]]
  /\ used' = used \ Released(s)
  /\ free' = free \cup Released(s)
  /\ numCached' = CachedAfterRelease(s)
  /\ blockTable' = [blockTable EXCEPT ![s] = <<>>]
  /\ UNCHANGED <<tokens, blockHash, hashToBlock>>

\* preempt and the end of a request.
Release(s) ==
  /\ ~restorePending[s]
  /\ Deallocate(s)
  /\ UNCHANGED restorePending

\* rollback_cpu_restore.
RollbackRestore(s) ==
  /\ restorePending[s]
  /\ Deallocate(s)
  /\ restorePending' = [restorePending EXCEPT ![s] = FALSE]

\* may_append, called for the newest token once everything before it is
\* cached.
MayAppend(s) ==
  /\ ~restorePending[s]
  /\ blockTable[s] # <<>> /\ numCached[s] = Len(tokens[s]) - 1
  /\ Len(blockTable[s]) < NumBlocks(s)
  /\ Len(tokens[s]) % BlockSize = 1
  /\ \E b \in free : Place(s, <<>>, <<b>>)
  /\ UNCHANGED <<tokens, numCached, restorePending>>

\* hash_blocks after n tokens were computed, and the advance of
\* num_cached_tokens by which postprocess follows it.
HashBlocks(s, n) ==
  /\ ~restorePending[s]
  /\ Len(blockTable[s]) = NumBlocks(s)
  /\ n >= 1 /\ numCached[s] + n <= Len(tokens[s])
  /\ Label(s, ChainRoot(s), Computed(s), (numCached[s] + n) \div BlockSize)
  /\ numCached' = [numCached EXCEPT ![s] = @ + n]
  /\ UNCHANGED <<tokens, blockTable, restorePending, free, used, refCount>>

\* append_token, once all tokens so far are cached.
AppendToken(s, t) ==
  /\ ~restorePending[s]
  /\ blockTable[s] # <<>> /\ numCached[s] = Len(tokens[s])
  /\ Len(tokens[s]) < MaxLen
  /\ tokens' = [tokens EXCEPT ![s] = Append(@, t)]
  /\ UNCHANGED <<numCached, restorePending, allocVars>>

EvictFreeCachedBlocks ==
  /\ blockHash' = CleanLabels(free)
  /\ hashToBlock' = IndexWithout(free)
  /\ UNCHANGED <<tokens, numCached, blockTable, restorePending,
                 free, used, refCount>>

BMNext ==
  \/ \E s \in Seqs : \E p \in Prompts : NewSequence(s, p)
  \/ \E s \in Seqs : \E k \in 0 .. NumBlocks(s) - 1 : Allocate(s, k)
  \/ \E s \in Seqs : \E k \in 1 .. NumBlocks(s) - 1 : AllocateForCpuRestore(s, k)
  \/ \E s \in Seqs : ConfirmRestore(s)
  \/ \E s \in Seqs : RollbackRestore(s)
  \/ \E s \in Seqs : Release(s)
  \/ \E s \in Seqs : MayAppend(s)
  \/ \E s \in Seqs : \E n \in 1 .. Len(tokens[s]) : HashBlocks(s, n)
  \/ \E s \in Seqs : \E t \in Token : AppendToken(s, t)
  \/ EvictFreeCachedBlocks

BMSpec == BMInit /\ [][BMNext]_bmVars

-----------------------------------------------------------------------------
(* Properties *)

\* Types, with counters that cannot go negative.
BMTypeOK ==
  /\ tokens \in [Seqs -> Seq(Token)]
  /\ numCached \in [Seqs -> Nat]
  /\ blockTable \in [Seqs -> Seq(Blocks)]
  /\ restorePending \in [Seqs -> BOOLEAN]
  /\ free \subseteq Blocks
  /\ used \subseteq Blocks
  /\ refCount \in [Blocks -> Nat]
  /\ blockHash \in [Blocks -> Seq(Token)]
  /\ DOMAIN hashToBlock \subseteq Seq(Token)
  /\ hashToBlock \in [DOMAIN hashToBlock -> Blocks]

\* No block is lost, freed under an owner or kept after its last one: a block
\* is either free or used, it is used exactly while some table holds it, and
\* its count is the number of those tables.
RefCountsExact ==
  /\ free \cap used = {} /\ free \cup used = Blocks
  /\ \A b \in Blocks : /\ refCount[b] = Cardinality(Owners(b))
                       /\ b \in used <=> Owners(b) # {}

\* No table names a block twice (its KV rows would overwrite each other).
TablesInjective == \A s \in Seqs : IsInjective(blockTable[s])

\* The index never names a block that was relabelled or handed out since:
\* its entry for h is a block that carries h.
IndexSound ==
  /\ NoHash \notin DOMAIN hashToBlock
  /\ \A h \in DOMAIN hashToBlock : blockHash[hashToBlock[h]] = h

\* A table covers what its sequence counts as cached and no more than the
\* sequence has tokens; a pending restore has blocks to fill.
TablesCover ==
  \A s \in Seqs :
    /\ Len(blockTable[s]) <= NumBlocks(s)
    /\ numCached[s] <= Len(tokens[s])
    /\ numCached[s] <= Len(blockTable[s]) * BlockSize
    /\ restorePending[s] => numCached[s] >= BlockSize

\* Tables stay usable in any order of allocation, growth and release.
TablesSound == TablesInjective /\ TablesCover

\* Every block that a sequence counts as cached, its own or shared with
\* others, stands for exactly this sequence's prefix: another owner can never
\* relabel it, and chunked hashing continues the right chain.
CachedBlocksLabelled ==
  \A s \in Seqs : ~restorePending[s] =>
    \A i \in 1 .. Computed(s) : blockHash[blockTable[s][i]] = PrefixHash(s, i)

\* Copy-on-write is never needed: a block that its sequence may still write
\* (not yet hashed, or waiting for a restore) has one owner and no label, so
\* no lookup can share it.
WritableBlocksExclusive ==
  \A s \in Seqs : \A i \in 1 .. Len(blockTable[s]) :
    i > Computed(s) \/ restorePending[s] =>
      /\ Owners(blockTable[s][i]) = {s}
      /\ blockHash[blockTable[s][i]] = NoHash

\* can_allocate never admits a sequence for which allocate would run out of
\* free blocks after taking the hits.
AdmissionSound ==
  \A s \in Seqs : tokens[s] # <<>> /\ blockTable[s] = <<>> =>
    \A k \in 0 .. NumBlocks(s) - 1 :
      CanAllocate(s, k) =>
        Cardinality(free \ HitBlocks(s, k)) >= NumBlocks(s) - k

\* The allocator's promise: blocks are counted exactly, tables stay usable, and
\* whatever is shared or found is what it is taken for.
AllocatorSound ==
  /\ RefCountsExact /\ TablesSound /\ IndexSound
  /\ CachedBlocksLabelled /\ WritableBlocksExclusive /\ AdmissionSound

=============================================================================
