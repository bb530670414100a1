----------------------------- MODULE ReuseEngine -----------------------------
(***************************************************************************)
(* The engine with its CPU tier (enable_cpu_cache): requests look the      *)
(* context database up when they are added, restore what they found when   *)
(* they are admitted, and persist their prompt after its prefill           *)
(* (engine/llm_engine.py, engine/model_runner.py).  Engine leaves open what*)
(* the CPU tier finds and whether a restore succeeds; here both come from  *)
(* ContextDB, whose blocks earlier requests put there.                     *)
(*                                                                         *)
(* With the CPU cache a batch is one sequence (config.py).                 *)
(***************************************************************************)
EXTENDS Engine

CONSTANTS
  Slots, None, Torn, MaxGeneration, \* of the CPU store
  Nobody,                           \* no client of the context database
  Persister                         \* the session of persist_cpu_contexts

VARIABLES
  generation, occupied, tensor, freeSlots, lru, issued, lost, usedAfter,
  entries,
  sessions,   \* sessions[s]: the lookup of add_request, seq.cpu_cache_handles
  storing, next, steady,
  persisting  \* where persist_cpu_contexts is: "no", "lookup", "start", "store"

\* Complete blocks of a token list.
BlocksOf(t) ==
  [i \in 1 .. Len(t) \div BlockSize |->
     SubSeq(t, (i - 1) * BlockSize + 1, i * BlockSize)]

\* The rows of the last block of a prefix.
RowsOf(prefix) ==
  LET t == FlattenSeq(prefix)
  IN  [o \in 1 .. BlockSize |-> SubSeq(t, 1, Len(t) - BlockSize + o)]

ChainedHash(block, prefix) == Append(prefix, block)

PromptContexts == {BlocksOf(p) : p \in Prompts}
PromptRows ==
  UNION {{RowsOf(SubSeq(c, 1, i)) : i \in 1 .. Len(c)} : c \in PromptContexts}

ASSUME ReuseAssumption ==
  /\ CpuCache
  /\ IsFiniteSet(Slots) /\ MaxGeneration \in Nat
  /\ None # Torn /\ {None, Torn} \cap PromptRows = {}
  /\ Persister \notin Seqs /\ Nobody \notin Seqs \cup {Persister}

DB == INSTANCE ContextDB WITH
  Clients <- Seqs \cup {Persister},
  Contexts <- PromptContexts,
  Payload <- PromptRows,
  Hash <- ChainedHash,
  KV <- RowsOf

dbVars == <<generation, occupied, tensor, freeSlots, lru, issued, lost,
            usedAfter, entries, sessions, storing, next, steady>>
reuseVars == <<engineVars, dbVars, persisting>>

ReuseInit == EngineInit /\ DB!DBInit /\ persisting = "no"

-----------------------------------------------------------------------------
(* add_request *)

\* max_reusable_blocks: at least one prompt token is computed.
Reusable(p) == (Len(p) - 1) \div BlockSize

AddRequestReuse(s, p) ==
  LET found == Len(sessions'[s].handles)
  IN  /\ persisting = "no"
      /\ DB!CreateSession(s, BlocksOf(p))
      /\ AddRequest(s, p, IF found < Reusable(p) THEN found ELSE Reusable(p))
      /\ UNCHANGED <<kv, restored, persisting>>

-----------------------------------------------------------------------------
(* step(): restore_cpu_blocks *)

NextHandle(s) == sessions[s].handles[restored + 1]

Load(h) == DB!Use(h) /\ steady' = Nobody /\ UNCHANGED <<entries, sessions, storing, next>>

LoadBlock ==
  /\ pc = "dispatch" /\ persisting = "no"
  /\ \E s \in Pending :
       /\ restored < cpuHandles[s]
       /\ Load(NextHandle(s))
       /\ kv' = [kv EXCEPT ![blockTable[s][restored + 1]] = tensor[NextHandle(s)[1]]]
  /\ restored' = restored + 1
  /\ UNCHANGED <<vars, persisting>>

RestoreSucceeds ==
  /\ persisting = "no" /\ RestoreDone
  /\ UNCHANGED <<dbVars, persisting>>

\* The block was evicted since the lookup.
HandleIsStale ==
  /\ persisting = "no" /\ RestoreFails
  /\ \E s \in Pending : restored < cpuHandles[s] /\ ~DB!Resolves(NextHandle(s))
  /\ UNCHANGED <<kv, dbVars, persisting>>

\* copy_ raises in load_into.
LoadFails ==
  /\ persisting = "no" /\ RestoreFails
  /\ \E s \in Pending : restored < cpuHandles[s] /\ Load(NextHandle(s))
  /\ UNCHANGED persisting

-----------------------------------------------------------------------------
(* step(): run, then persist_cpu_contexts after a prefill *)

RunReuse ==
  /\ persisting = "no"
  /\ Run /\ StoreKV
  /\ persisting' = IF prefillStep THEN "lookup" ELSE "no"
  /\ UNCHANGED <<restored, dbVars>>

PromptOf(s) == SubSeq(tokens[s], 1, numPrompt[s])

\* Mutated form: the chunk that ends the prompt is not waited for.
PromptComputedAlways(s) == TRUE

\* end >= seq.num_prompt_tokens
PromptComputed(s) == numCached[s] + scheduled[s] >= numPrompt[s]

PersistNothing ==
  /\ persisting = "lookup" /\ ~PromptComputed(Head(batch))
  /\ persisting' = "no"
  /\ UNCHANGED <<engineVars, dbVars>>

\* A prompt without a complete block has nothing to store.
PersistLookup ==
  /\ persisting = "lookup" /\ PromptComputed(Head(batch))
  /\ DB!CreateSession(Persister, BlocksOf(PromptOf(Head(batch))))
  /\ persisting' = IF sessions'[Persister].tokens = <<>> THEN "no" ELSE "start"
  /\ UNCHANGED engineVars

PersistStart ==
  /\ persisting = "start"
  /\ DB!StartStore(Persister)
  /\ persisting' = "store"
  /\ UNCHANGED engineVars

\* Mutated form: the payloads start at the first block.
PersistedBlockFromStart(s) == blockTable[s][next - Len(sessions[Persister].handles)]

\* The GPU block that holds the next block of the context.
PersistedBlock(s) == blockTable[s][next]

PersistBlock ==
  /\ persisting = "store" /\ next <= Len(sessions[Persister].tokens)
  /\ DB!StoreNextBlock(kv[PersistedBlock(Head(batch))])
  /\ UNCHANGED <<engineVars, persisting>>

\* An exception of the store is noted and otherwise ignored.
PersistFails ==
  /\ persisting = "store"
  /\ DB!StoreSessionFails
  /\ persisting' = "no"
  /\ UNCHANGED engineVars

PersistEnd ==
  /\ persisting = "store"
  /\ DB!EndStore
  /\ persisting' = "no"
  /\ UNCHANGED engineVars

-----------------------------------------------------------------------------
ReuseNext ==
  \/ \E s \in Seqs : \E p \in Prompts : AddRequestReuse(s, p)
  \/ /\ persisting = "no" /\ (ClearGpuPrefixCache \/ StepControl)
     /\ UNCHANGED <<kv, restored, dbVars, persisting>>
  \/ LoadBlock \/ RestoreSucceeds \/ HandleIsStale \/ LoadFails
  \/ RunReuse
  \/ PersistNothing \/ PersistLookup \/ PersistStart
  \/ PersistBlock \/ PersistFails \/ PersistEnd

ReuseSpec == ReuseInit /\ [][ReuseNext]_reuseVars

-----------------------------------------------------------------------------
(* Properties *)

\* The engine with the real CPU tier does nothing that Engine does not allow:
\* a block loaded through a handle is the KV of the request's own prefix,
\* however the store evicted, reused and lost blocks since the lookup, and
\* persisting disturbs no request.
ImplementsEngine == EngineSpec

\* The engine uses the context database as its protocol demands, and what it
\* stores for a prefix is the KV of that prefix.
ImplementsContextDB == DB!DBSpec

=============================================================================
