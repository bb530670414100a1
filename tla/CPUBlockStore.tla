---------------------------- MODULE CPUBlockStore ----------------------------
(***************************************************************************)
(* The capacity-bounded store of KV blocks in CPU memory                   *)
(* (kvdb/store/cpu.py): slots that are reused in least-recently-used order *)
(* and handles <<slot, generation>> that outlive what they were issued for.*)
(*                                                                         *)
(* Every method runs to completion, so each is one action per outcome.     *)
(* The free deque is a set (any free slot may be taken); the order of the  *)
(* LRU dictionary is kept.  Byte counts and timings are left out.          *)
(***************************************************************************)
EXTENDS Integers, Sequences, FiniteSets, SequencesExt

CONSTANTS
  Slots,         \* slot ids, capacity_blocks of them
  Payload,       \* what a KV block may hold
  None,          \* slot.tensor of a slot never used
  Torn,          \* slot.tensor after a copy that failed, or as it was allocated
  MaxGeneration  \* bound: no slot is taken more often than this

ASSUME StoreAssumption ==
  /\ IsFiniteSet(Slots) /\ MaxGeneration \in Nat
  /\ None # Torn /\ {None, Torn} \cap Payload = {}

VARIABLES
  generation, \* slot.generation
  occupied,   \* the slots whose `occupied' is set
  tensor,     \* slot.tensor
  freeSlots,  \* _free_slot_ids
  lru,        \* _lru, the least recently used first
  issued,     \* history: the handles returned by store_block and what for
  lost,       \* history: the slots that a failing store_block never gave back
  usedAfter   \* history: <<r, s>> if s was used after the last use of r

storeVars == <<generation, occupied, tensor, freeSlots, lru, issued, lost,
               usedAfter>>

Handle == Slots \X (Nat \ {0})

StoreInit ==
  /\ generation = [s \in Slots |-> 0]
  /\ occupied = {}
  /\ tensor = [s \in Slots |-> None]
  /\ freeSlots = Slots
  /\ lru = <<>>
  /\ issued = [h \in {} |-> None]
  /\ lost = {}
  /\ usedAfter = {}

-----------------------------------------------------------------------------
\* Mutated form: the generation is not compared.
ResolvesAnyGeneration(h) == h[1] \in occupied

\* _resolve: the handle names an occupied slot in its current generation.
Resolves(h) == h[1] \in occupied /\ generation[h[1]] = h[2]

\* Mutated form: a read does not count as a use.
TouchedNot(order, s) == order

\* move_to_end.
Touched(order, s) == Append(RemoveFirst(order, s), s)

\* s is used now: after every other slot, and nothing after it yet.
UsedNow(after, s) ==
  {p \in after : p[1] # s} \cup {<<r, s>> : r \in Slots \ {s}}

\* load_into and read_block, and touch: a stale handle raises and changes
\* nothing.
Use(h) ==
  /\ Resolves(h)
  /\ lru' = Touched(lru, h[1])
  /\ usedAfter' = UsedNow(usedAfter, h[1])
  /\ UNCHANGED <<generation, occupied, tensor, freeSlots, issued, lost>>

\* store_block's choice of a slot: a free one, or the least recently used.
Takes(s) ==
  IF freeSlots # {} THEN s \in freeSlots ELSE lru # <<>> /\ s = Head(lru)

\* The handles whose invalidation is announced when slot s is taken.
Invalidated(s) == IF s \in occupied THEN {<<s, generation[s]>>} ELSE {}

NextGeneration(s) == [generation EXCEPT ![s] = @ + 1]

\* What store_block has done to slot s before it copies.
TakeSlot(s) ==
  /\ Takes(s)
  /\ generation[s] < MaxGeneration
  /\ generation' = NextGeneration(s)

StoreBlock(s, payload) ==
  /\ TakeSlot(s)
  /\ tensor' = [tensor EXCEPT ![s] = payload]
  /\ freeSlots' = freeSlots \ {s}
  /\ lru' = Append(RemoveFirst(lru, s), s)
  /\ occupied' = occupied \cup {s}
  /\ issued' = [h \in DOMAIN issued \cup {<<s, generation'[s]>>} |->
                  IF h = <<s, generation'[s]>> THEN payload ELSE issued[h]]
  /\ usedAfter' = UsedNow(usedAfter, s)
  /\ UNCHANGED lost

\* Mutated form: the failed copy leaves the evicted block resident.
OccupiedAfterFailureKept(s) == occupied

OccupiedAfterFailure(s) == occupied \ {s}

\* copy_ raises: the slot goes back to the free list, what it held is gone.
StoreCopyFails(s) ==
  /\ TakeSlot(s)
  /\ tensor' = [tensor EXCEPT ![s] = Torn]
  /\ freeSlots' = freeSlots \cup {s}
  /\ lru' = RemoveFirst(lru, s)
  /\ occupied' = OccupiedAfterFailure(s)
  /\ UNCHANGED <<issued, lost, usedAfter>>

\* torch.empty raises on the first use of a slot, or the synchronization before
\* the copy does.  Neither is inside the `try' that gives the slot back, so the
\* slot is lost, with the block that was evicted from it.
StoreLosesSlot(s) ==
  /\ TakeSlot(s)
  /\ tensor' \in {tensor, [tensor EXCEPT ![s] = IF @ = None THEN Torn ELSE @]}
  /\ freeSlots' = freeSlots \ {s}
  /\ lru' = RemoveFirst(lru, s)
  /\ occupied' = occupied \ {s}
  /\ lost' = lost \cup {s}
  /\ UNCHANGED <<issued, usedAfter>>

\* store_block raises.
StoreFails(s) == StoreCopyFails(s) \/ StoreLosesSlot(s)

Delete(h) ==
  /\ Resolves(h)
  /\ lru' = RemoveFirst(lru, h[1])
  /\ occupied' = occupied \ {h[1]}
  /\ freeSlots' = freeSlots \cup {h[1]}
  /\ UNCHANGED <<generation, tensor, issued, lost, usedAfter>>

StoreNext ==
  \/ \E s \in Slots : \E p \in Payload : StoreBlock(s, p)
  \/ \E s \in Slots : StoreFails(s)
  \/ \E h \in DOMAIN issued : Use(h) \/ Delete(h)

StoreSpec == StoreInit /\ [][StoreNext]_storeVars

-----------------------------------------------------------------------------
(* Properties *)

\* A handle never reads another block: however its slot was evicted, deleted,
\* reused or torn by a failed copy since, it is stale or it reads what it was
\* issued for.
HandlesNeverAliased ==
  \A h \in DOMAIN issued : Resolves(h) => tensor[h[1]] = issued[h]

\* The LRU order lists the resident slots, each once.
LruListsResident == IsInjective(lru) /\ ToSet(lru) = occupied

\* Every slot is free or resident, but for those that a failing store_block had
\* taken when it raised outside its `try'; no slot is two of these.
SlotsNotLost ==
  /\ freeSlots \cup occupied \cup lost = Slots
  /\ freeSlots \cap occupied = {} /\ lost \cap (freeSlots \cup occupied) = {}

\* However stores, evictions, deletions and failures follow each other, no slot
\* is handed out twice and none leaks, but for a store that fails between
\* taking a slot and copying.
SlotsAccounted == LruListsResident /\ SlotsNotLost

\* Eviction takes the block whose last use lies furthest back, and only when
\* no slot is free.
EvictsLeastRecent ==
  [][\A s \in occupied :
       generation'[s] # generation[s] =>
         /\ freeSlots = {}
         /\ \A r \in occupied \ {s} : <<s, r>> \in usedAfter]_storeVars

=============================================================================
