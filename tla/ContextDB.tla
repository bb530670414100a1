------------------------------ MODULE ContextDB ------------------------------
(***************************************************************************)
(* The context database (kvdb/coordinator.py): an index from token prefixes*)
(* to handles of the CPU block store (kvdb/prefix_index.py), and sessions  *)
(* that look a context up, use its blocks and store those that were        *)
(* missing.                                                                *)
(*                                                                         *)
(* A context is the sequence of its complete blocks; the tail is never     *)
(* indexed.  The engine has one fingerprint, so a CacheKey is the chained  *)
(* hash.  Calls do not overlap, but store_session is modelled block by     *)
(* block, since it may fail at each of them and evicts as it goes.         *)
(***************************************************************************)
EXTENDS CPUBlockStore

CONSTANTS
  Clients,    \* who holds a session
  Nobody,     \* none of them
  Contexts,   \* the contexts, sequences of complete token blocks
  Hash(_, _), \* hash_fn: a block and the hash of the blocks before it
  KV(_)       \* the KV of the last block of a prefix

ASSUME ContextAssumption ==
  /\ Nobody \notin Clients
  /\ \A c \in Contexts :
       /\ c \in Seq(Range(c))
       /\ \A i \in 1 .. Len(c) : KV(SubSeq(c, 1, i)) \in Payload

VARIABLES
  entries,  \* the index: all PrefixEntry, with their keys, oldest first
  sessions, \* ContextSession: its tokens and lookup.cpu_handles
  storing,  \* the client inside store_session, or Nobody
  next,     \* block_index of its loop, counted from 1
  steady    \* history: whose session is the newest and was not disturbed

indexVars == <<entries, sessions, storing, next, steady>>
dbVars == <<storeVars, indexVars>>

NoSession == [tokens |-> <<>>, handles |-> <<>>]

-----------------------------------------------------------------------------
(* PrefixIndex *)

\* The hash of no block, -1.
NoPrefix == <<>>

\* Mutated form: every block is hashed by itself.
ChainHashFlat(c) == [i \in 0 .. Len(c) |-> IF i = 0 THEN NoPrefix ELSE Hash(c[i], NoPrefix)]

\* The chained hashes of the blocks of c.
ChainHash(c) ==
  LET f[i \in 0 .. Len(c)] == IF i = 0 THEN NoPrefix ELSE Hash(c[i], f[i - 1])
  IN  f

\* The entries whose key and block tokens are those of block i of c.
Matches(es, c, i) ==
  {n \in 1 .. Len(es) : es[n].key = ChainHash(c)[i] /\ es[n].block = c[i]}

MatchedBlocks(es, c) ==
  CHOOSE k \in 0 .. Len(c) :
    /\ \A i \in 1 .. k : Matches(es, c, i) # {}
    /\ k < Len(c) => Matches(es, c, k + 1) = {}

\* lookup: the oldest match of each block, up to the first miss.
Lookup(es, c) ==
  [i \in 1 .. MatchedBlocks(es, c) |->
     es[CHOOSE n \in Matches(es, c, i) : \A m \in Matches(es, c, i) : n <= m].handle]

\* Mutated form: an invalidated handle stays in the index.
WithoutNone(es, dead) == es

\* remove_handle of the handle in `dead', if there is one; it has one entry at
\* most, since a handle is registered once.
Without(es, dead) == RemoveFirstMatch(es, LAMBDA e : e.handle \in dead)

\* register, which ignores an entry it has.
Register(es, e) == IF e \in ToSet(es) THEN es ELSE Append(es, e)

-----------------------------------------------------------------------------
DBInit ==
  /\ StoreInit
  /\ entries = <<>>
  /\ sessions = [c \in Clients |-> NoSession]
  /\ storing = Nobody /\ next = 0 /\ steady = Nobody

\* Mutated form: the matched blocks do not become recently used.
TouchedByLookupNot(order, hs) == order

TouchedByLookup(order, hs) ==
  FoldLeft(LAMBDA o, h : Touched(o, h[1]), order, hs)

\* The index after the loop of create_session, which drops the stale handles
\* that it meets and looks again, so that it finds what is live.
LiveEntries(context) ==
  IF \A h \in ToSet(Lookup(entries, context)) : Resolves(h) THEN entries
  ELSE SelectSeq(entries, LAMBDA e : Resolves(e.handle))

CreateSession(c, context) ==
  LET live == LiveEntries(context)
      hs == Lookup(live, context)
  IN  /\ storing = Nobody
      /\ entries' = live
      /\ sessions' = [sessions EXCEPT ![c] = [tokens |-> context, handles |-> hs]]
      /\ lru' = TouchedByLookup(lru, hs)
      /\ usedAfter' = FoldLeft(LAMBDA after, h : UsedNow(after, h[1]), usedAfter, hs)
      /\ steady' = c
      /\ UNCHANGED <<generation, occupied, tensor, freeSlots, issued, lost,
                     storing, next>>

\* The holder of a session reads one of its blocks.
UseSession(c) ==
  /\ storing = Nobody
  /\ \E h \in ToSet(sessions[c].handles) : Use(h)
  /\ steady' = Nobody
  /\ UNCHANGED <<entries, sessions, storing, next>>

\* store_session is called with the payloads the session does not have.
StartStore(c) ==
  /\ storing = Nobody
  /\ sessions[c].tokens # <<>>
  /\ storing' = c
  /\ next' = Len(sessions[c].handles) + 1
  /\ steady' = IF steady = c THEN c ELSE Nobody
  /\ UNCHANGED <<storeVars, entries, sessions>>

StoringTokens == sessions[storing].tokens

\* One round of the loop of store_session.
StoreNextBlock(payload) ==
  /\ storing # Nobody /\ next <= Len(StoringTokens)
  /\ \E s \in Slots :
       /\ StoreBlock(s, payload)
       /\ entries' = Register(Without(entries, Invalidated(s)),
                              [key |-> ChainHash(StoringTokens)[next],
                               block |-> StoringTokens[next],
                               handle |-> <<s, generation'[s]>>])
  /\ next' = next + 1
  /\ UNCHANGED <<sessions, storing, steady>>

\* store_block raises: the call ends, what it stored so far stays.
StoreSessionFails ==
  /\ storing # Nobody /\ next <= Len(StoringTokens)
  /\ \/ \E s \in Slots :
          /\ StoreFails(s)
          /\ entries' = Without(entries, Invalidated(s))
     \/ /\ \A s \in Slots : ~Takes(s)
        /\ UNCHANGED <<storeVars, entries>>
  /\ storing' = Nobody /\ steady' = Nobody
  /\ UNCHANGED <<sessions, next>>

\* The lookup is repeated, since the later blocks may have evicted earlier ones.
HandlesAfterStore == Lookup(entries, StoringTokens)

EndStore ==
  /\ storing # Nobody /\ next > Len(StoringTokens)
  /\ sessions' = [sessions EXCEPT ![storing].handles = HandlesAfterStore]
  /\ storing' = Nobody
  /\ UNCHANGED <<storeVars, entries, next, steady>>

\* store.delete of a block, through the invalidation callback.
DeleteBlock(h) ==
  /\ storing = Nobody
  /\ Delete(h)
  /\ entries' = Without(entries, {h})
  /\ steady' = Nobody
  /\ UNCHANGED <<sessions, storing, next>>

DBNext ==
  \/ \E c \in Clients : \E context \in Contexts : CreateSession(c, context)
  \/ \E c \in Clients : UseSession(c) \/ StartStore(c)
  \/ StoreNextBlock(KV(SubSeq(StoringTokens, 1, next)))
  \/ StoreSessionFails
  \/ EndStore
  \/ \E h \in DOMAIN issued : DeleteBlock(h)

DBSpec == DBInit /\ [][DBNext]_dbVars

-----------------------------------------------------------------------------
(* Properties *)

\* A session never yields the KV of another context: whatever was evicted,
\* stored twice, deleted or torn since its lookup, a handle of it is stale or
\* reads the block of its own prefix.
HandlesHonest ==
  \A c \in Clients : \A i \in 1 .. Len(sessions[c].handles) :
    LET h == sessions[c].handles[i]
    IN  Resolves(h) => tensor[h[1]] = KV(SubSeq(sessions[c].tokens, 1, i))

\* Index and store live and die together: the index names exactly the resident
\* blocks, so it hands out no stale handle (the loop of create_session never
\* repeats) and forgets no block that occupies memory.  A block whose
\* predecessor was evicted keeps its entry, though no lookup gets that far
\* until the predecessor is stored again.
IndexMirrorsStore ==
  {e.handle : e \in ToSet(entries)} = {<<s, generation[s]>> : s \in occupied}

\* A context that fits the store and is looked up and stored in one go is
\* found completely afterwards: the blocks it adds never evict its own.
StoredContextFound ==
  [][storing # Nobody /\ storing' = Nobody
       /\ steady = storing /\ steady' = storing
       /\ Len(StoringTokens) <= Cardinality(freeSlots \cup occupied)
     => Len(sessions'[storing].handles) = Len(StoringTokens)]_dbVars

\* Eviction is least recently used, and so never at the cost of the context
\* that is being stored.
RecentBlocksKept == EvictsLeastRecent /\ StoredContextFound

=============================================================================
