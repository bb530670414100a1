------------------------- MODULE BlockManagerProofs -------------------------
(***************************************************************************)
(* Proofs about the KV-cache allocator.  The structural invariants are not *)
(* inductive one by one: that a block popped from the free list has no     *)
(* owner needs exact counts, that relabelling keeps the index sound needs  *)
(* the written blocks to be unlabelled, and that needs sharing to stop at  *)
(* labelled blocks.  IInv takes them together.  Each operation is a lemma; *)
(* those that place blocks in a table, or label blocks, share one lemma.   *)
(***************************************************************************)
EXTENDS BlockManager, TLAPS, FiniteSetTheorems, SequenceTheorems

-----------------------------------------------------------------------------
(* Arithmetic of block boundaries *)

\* Block boundaries are natural numbers.
LEMMA MulType == ASSUME NEW i \in Nat PROVE i * BlockSize \in Nat
BY BlockSizeAssumption

\* The next boundary is one block further.
LEMMA MulStep == ASSUME NEW i \in Nat PROVE (i + 1) * BlockSize = i * BlockSize + BlockSize
BY BlockSizeAssumption

\* A later block starts after an earlier one ends.
LEMMA MulMono ==
  ASSUME NEW i \in Nat, NEW j \in Nat, i < j
  PROVE  i * BlockSize + BlockSize <= j * BlockSize
BY BlockSizeAssumption

\* The boundary at or below token n.
LEMMA DivBounds ==
  ASSUME NEW n \in Nat
  PROVE  /\ n \div BlockSize \in Nat
         /\ (n \div BlockSize) * BlockSize <= n
         /\ n < (n \div BlockSize) * BlockSize + BlockSize
BY BlockSizeAssumption

\* A boundary is its own boundary.
LEMMA DivMul ==
  ASSUME NEW k \in Nat
  PROVE  (k * BlockSize) \div BlockSize = k
BY BlockSizeAssumption

\* More tokens never fill fewer blocks.
LEMMA DivMono ==
  ASSUME NEW m \in Nat, NEW n \in Nat, m <= n
  PROVE  m \div BlockSize <= n \div BlockSize
BY BlockSizeAssumption


-----------------------------------------------------------------------------
(* The inductive invariant *)

IInv ==
  /\ BMTypeOK
  /\ RefCountsExact
  /\ TablesInjective
  /\ IndexSound
  /\ TablesCover
  /\ CachedBlocksLabelled
  /\ WritableBlocksExclusive

-----------------------------------------------------------------------------
(* Tables, owners and prefixes *)

\* A block is in a table iff some position holds it.
LEMMA InTable ==
  ASSUME BMTypeOK, NEW s \in Seqs, NEW b
  PROVE  b \in Range(blockTable[s]) <=>
           \E i \in 1 .. Len(blockTable[s]) : blockTable[s][i] = b
<1>1. blockTable[s] \in Seq(Blocks)
  BY DEF BMTypeOK
<1>2. Range(blockTable[s]) = {blockTable[s][i] : i \in 1 .. Len(blockTable[s])}
  BY <1>1, RangeEquality
<1> QED BY <1>2

\* A block has a finite number of owners.
LEMMA OwnersFinite ==
  ASSUME NEW b
  PROVE  IsFiniteSet(Owners(b)) /\ Cardinality(Owners(b)) \in Nat
<1>1. Owners(b) \in SUBSET Seqs
  BY DEF Owners
<1>2. IsFiniteSet(Owners(b))
  BY <1>1, FinitenessAssumption, FS_Subset
<1> QED BY <1>2, FS_CardinalityType

\* What the free list holds, no table does.
LEMMA FreeUnowned ==
  ASSUME IInv, NEW b \in free
  PROVE  b \in Blocks /\ Owners(b) = {} /\ b \notin used /\ refCount[b] = 0
<1>1. b \in Blocks /\ b \notin used
  BY DEF IInv, RefCountsExact, BMTypeOK
<1>2. Owners(b) = {} /\ refCount[b] = Cardinality(Owners(b))
  BY <1>1 DEF IInv, RefCountsExact
<1> QED BY <1>1, <1>2, FS_EmptySet

\* The prefix of a sequence up to a block boundary.
LEMMA PrefixFacts ==
  ASSUME tokens \in [Seqs -> Seq(Token)], NEW s \in Seqs,
         NEW i \in Nat, i * BlockSize <= Len(tokens[s])
  PROVE  /\ PrefixHash(s, i) \in Seq(Token)
         /\ Len(PrefixHash(s, i)) = i * BlockSize
         /\ i > 0 => PrefixHash(s, i) # NoHash
<1>1. tokens[s] \in Seq(Token)
  OBVIOUS
<1>2. i * BlockSize \in Nat /\ (i > 0 => i * BlockSize > 0)
  BY BlockSizeAssumption
<1>3. \A j \in 1 .. i * BlockSize : tokens[s][j] \in Token
  BY <1>1, <1>2, ElementOfSeq, LenProperties
<1>4. /\ SubSeq(tokens[s], 1, i * BlockSize) \in Seq(Token)
      /\ Len(SubSeq(tokens[s], 1, i * BlockSize)) = i * BlockSize
  BY <1>2, <1>3, SubSeqProperties
<1>5. Len(NoHash) = 0
  BY DEF NoHash
<1> QED BY <1>2, <1>4, <1>5 DEF PrefixHash

\* Prefixes that end at different boundaries are different hashes.
LEMMA PrefixDistinct ==
  ASSUME tokens \in [Seqs -> Seq(Token)], NEW s \in Seqs,
         NEW i \in Nat, NEW j \in Nat,
         i * BlockSize <= Len(tokens[s]), j * BlockSize <= Len(tokens[s]),
         PrefixHash(s, i) = PrefixHash(s, j)
  PROVE  i = j
<1>1. i * BlockSize = j * BlockSize
  BY PrefixFacts
<1> QED BY <1>1, BlockSizeAssumption

\* num_blocks is the least number of blocks that hold the tokens.
LEMMA NumBlocksFacts ==
  ASSUME tokens \in [Seqs -> Seq(Token)], NEW s \in Seqs
  PROVE  /\ NumBlocks(s) \in Nat
         /\ Len(tokens[s]) <= NumBlocks(s) * BlockSize
         /\ NumBlocks(s) * BlockSize < Len(tokens[s]) + BlockSize
         /\ tokens[s] = <<>> => NumBlocks(s) = 0
<1>1. Len(tokens[s]) \in Nat
  BY LenProperties
<1>2. tokens[s] = <<>> => Len(tokens[s]) = 0
  OBVIOUS
<1> DEFINE n == Len(tokens[s]) + BlockSize - 1
<1>3. n \in Nat /\ NumBlocks(s) = n \div BlockSize
  BY <1>1, BlockSizeAssumption DEF NumBlocks
<1> HIDE DEF n
<1>5. /\ NumBlocks(s) \in Nat
      /\ NumBlocks(s) * BlockSize <= n
      /\ n < NumBlocks(s) * BlockSize + BlockSize
  BY <1>3, DivBounds
<1>6. NumBlocks(s) * BlockSize < Len(tokens[s]) + BlockSize
  BY <1>1, <1>5, BlockSizeAssumption DEF n
<1>7. Len(tokens[s]) = 0 => NumBlocks(s) = 0
  BY <1>5, <1>6, BlockSizeAssumption
<1> QED BY <1>1, <1>2, <1>5, <1>6, <1>7, BlockSizeAssumption DEF n


-----------------------------------------------------------------------------
(* What the shared steps do to the structure of the pool *)

Structure ==
  /\ blockTable \in [Seqs -> Seq(Blocks)]
  /\ free \subseteq Blocks
  /\ used \subseteq Blocks
  /\ refCount \in [Blocks -> Nat]
  /\ blockHash \in [Blocks -> Seq(Token)]
  /\ DOMAIN hashToBlock \subseteq Seq(Token)
  /\ hashToBlock \in [DOMAIN hashToBlock -> Blocks]
  /\ RefCountsExact
  /\ TablesInjective
  /\ IndexSound

\* Two tables without repetition and without a block in common.
LEMMA ConcatDisjoint ==
  ASSUME NEW S, NEW a \in Seq(S), NEW b \in Seq(S),
         IsInjective(a), IsInjective(b), Range(a) \cap Range(b) = {}
  PROVE  /\ a \o b \in Seq(S)
         /\ Range(a \o b) = Range(a) \cup Range(b)
         /\ IsInjective(a \o b)
<1>1. a \o b \in Seq(S) /\ Range(a \o b) = Range(a) \cup Range(b)
  BY ConcatProperties, RangeConcatenation
<1>2. /\ Len(a) \in Nat /\ Len(b) \in Nat
      /\ DOMAIN a = 1 .. Len(a) /\ DOMAIN b = 1 .. Len(b)
      /\ DOMAIN (a \o b) = 1 .. Len(a) + Len(b)
      /\ \A i \in 1 .. Len(a) + Len(b) :
           (a \o b)[i] = IF i <= Len(a) THEN a[i] ELSE b[i - Len(a)]
  BY <1>1, LenProperties, ConcatProperties
<1>3. ASSUME NEW i \in 1 .. Len(a) + Len(b), NEW j \in 1 .. Len(a) + Len(b),
             (a \o b)[i] = (a \o b)[j]
      PROVE  i = j
  <2>1. CASE i <= Len(a) /\ j <= Len(a)
    <3>1. i \in DOMAIN a /\ j \in DOMAIN a /\ a[i] = a[j]
      BY <2>1, <1>2, <1>3
    <3> QED BY <3>1 DEF IsInjective
  <2>2. CASE i > Len(a) /\ j > Len(a)
    <3>1. i - Len(a) \in DOMAIN b /\ j - Len(a) \in DOMAIN b
      BY <2>2, <1>2
    <3>2. b[i - Len(a)] = b[j - Len(a)]
      BY <2>2, <1>2, <1>3
    <3>3. i - Len(a) = j - Len(a)
      BY <3>1, <3>2 DEF IsInjective
    <3> QED BY <3>3, <1>2
  <2>3. ASSUME NEW m \in 1 .. Len(a) + Len(b), NEW n \in 1 .. Len(a) + Len(b),
               m <= Len(a), n > Len(a), (a \o b)[m] = (a \o b)[n]
        PROVE  FALSE
    <3>1. m \in DOMAIN a /\ n - Len(a) \in DOMAIN b
      BY <2>3, <1>2
    <3>2. a[m] = b[n - Len(a)]
      BY <2>3, <1>2
    <3> QED BY <3>1, <3>2 DEF Range
  <2>4. CASE i <= Len(a) /\ j > Len(a)
    BY <2>3, <2>4, <1>3
  <2>5. CASE i > Len(a) /\ j <= Len(a)
    BY <2>3, <2>5, <1>3
  <2> QED BY <1>2, <2>1, <2>2, <2>4, <2>5
<1> QED BY <1>1, <1>2, <1>3 DEF IsInjective

\* The owners of b after the step.
OwnersNext(b) == {r \in Seqs : b \in Range(blockTable'[r])}

\* The effect of Place on the structure: the table grows, the placed blocks
\* gain an owner, the fresh ones lose their label.
Placed(s, shared, fresh) ==
  /\ Structure'
  /\ blockTable'[s] = blockTable[s] \o shared \o fresh
  /\ \A r \in Seqs : r # s => blockTable'[r] = blockTable[r]
  /\ \A b \in Blocks :
       OwnersNext(b) = IF b \in Range(shared) \cup Range(fresh)
                       THEN Owners(b) \cup {s} ELSE Owners(b)
  /\ \A b \in Blocks : blockHash'[b] = IF b \in Range(fresh) THEN NoHash
                                       ELSE blockHash[b]

\* Placing hits and fresh blocks in the table of s keeps the pool consistent
\* (allocate, allocate_for_cpu_restore, may_append).
LEMMA PlaceKeepsStructure ==
  ASSUME IInv, NEW s \in Seqs,
         NEW shared \in Seq(Blocks), NEW fresh \in Seq(Blocks),
         IsInjective(shared), IsInjective(fresh),
         Range(fresh) \subseteq free \ Range(shared),
         Range(shared) \cap Range(blockTable[s]) = {},
         Place(s, shared, fresh)
  PROVE  Placed(s, shared, fresh)
<1> DEFINE S == Range(shared)
           F == Range(fresh)
           T == Range(blockTable[s])
           t == blockTable[s] \o shared \o fresh
<1>t. BMTypeOK
  BY DEF IInv
<1>1. S \subseteq Blocks /\ F \subseteq Blocks /\ T \subseteq Blocks
  BY <1>t, RangeOfSeq DEF BMTypeOK
<1>2. \A b \in F : Owners(b) = {} /\ b \notin used /\ refCount[b] = 0
  BY FreeUnowned
<1>3. F \cap S = {} /\ F \cap T = {} /\ S \cap T = {}
  BY <1>2 DEF Owners
<1>4. t \in Seq(Blocks) /\ Range(t) = T \cup S \cup F /\ IsInjective(t)
  <2> DEFINE u == blockTable[s] \o shared
  <2>1. blockTable[s] \in Seq(Blocks) /\ IsInjective(blockTable[s])
    BY <1>t DEF BMTypeOK, IInv, TablesInjective
  <2>2. u \in Seq(Blocks) /\ Range(u) = T \cup S /\ IsInjective(u)
    BY <2>1, <1>3, ConcatDisjoint
  <2>3. Range(u) \cap F = {}
    BY <2>2, <1>3
  <2>4. t = u \o fresh
    OBVIOUS
  <2> HIDE DEF u, t
  <2>5. u \o fresh \in Seq(Blocks) /\ Range(u \o fresh) = Range(u) \cup F
        /\ IsInjective(u \o fresh)
    BY <2>2, <2>3, ConcatDisjoint
  <2> QED BY <2>2, <2>4, <2>5
<1>5. blockTable' = [blockTable EXCEPT ![s] = t]
  BY DEF Place
<1>6. /\ blockTable' \in [Seqs -> Seq(Blocks)]
      /\ blockTable'[s] = t
      /\ \A r \in Seqs : r # s => blockTable'[r] = blockTable[r]
  BY <1>4, <1>5, <1>t DEF BMTypeOK
<1>7. \A b \in Blocks :
        Owners(b)' = IF b \in S \cup F THEN Owners(b) \cup {s} ELSE Owners(b)
  BY <1>4, <1>6 DEF Owners
<1>8. \A b \in Blocks : b \in S \cup F => s \notin Owners(b)
  BY <1>3 DEF Owners
<1>9. /\ free' = free \ (S \cup F)
      /\ used' = used \cup S \cup F
      /\ refCount' = [b \in Blocks |-> IF b \in F THEN 1
                                       ELSE IF b \in S THEN RefOfHit(b)
                                       ELSE refCount[b]]
      /\ blockHash' = CleanLabels(F)
      /\ hashToBlock' = IndexWithout(F)
  BY DEF Place
<1>10. \A b \in Blocks : blockHash'[b] = IF b \in F THEN NoHash ELSE blockHash[b]
  BY <1>9 DEF CleanLabels
<1>11. blockHash' \in [Blocks -> Seq(Token)]
  BY <1>9, <1>t, EmptySeq DEF CleanLabels, NoHash, BMTypeOK
<1>12. /\ DOMAIN hashToBlock' \subseteq DOMAIN hashToBlock
       /\ \A h \in DOMAIN hashToBlock' :
            /\ hashToBlock'[h] = hashToBlock[h]
            /\ ~(hashToBlock[h] \in F /\ blockHash[hashToBlock[h]] = h)
       /\ hashToBlock' = [h \in DOMAIN hashToBlock' |-> hashToBlock'[h]]
  BY <1>9 DEF IndexWithout, Restrict
<1>13. /\ DOMAIN hashToBlock' \subseteq Seq(Token)
       /\ hashToBlock' \in [DOMAIN hashToBlock' -> Blocks]
  BY <1>12, <1>t DEF BMTypeOK
<1>14. IndexSound'
  <2>1. NoHash \notin DOMAIN hashToBlock'
    BY <1>12 DEF IInv, IndexSound
  <2>2. ASSUME NEW h \in DOMAIN hashToBlock'
        PROVE  blockHash'[hashToBlock'[h]] = h
    <3>1. h \in DOMAIN hashToBlock /\ blockHash[hashToBlock[h]] = h
      BY <1>12 DEF IInv, IndexSound
    <3>2. hashToBlock'[h] = hashToBlock[h] /\ hashToBlock[h] \notin F
      BY <1>12, <3>1
    <3>3. hashToBlock[h] \in Blocks
      BY <3>1, <1>t DEF BMTypeOK
    <3> QED BY <3>1, <3>2, <3>3, <1>10
  <2> QED BY <2>1, <2>2 DEF IndexSound
<1>15. free' \subseteq Blocks /\ used' \subseteq Blocks
  BY <1>1, <1>9, <1>t DEF BMTypeOK
<1>16. ASSUME NEW b \in Blocks
       PROVE  /\ refCount'[b] = Cardinality(Owners(b)')
              /\ refCount'[b] \in Nat
              /\ b \in used' <=> Owners(b)' # {}
  <2>1. /\ refCount[b] = Cardinality(Owners(b)) /\ refCount[b] \in Nat
        /\ b \in used <=> Owners(b) # {}
    BY <1>t DEF IInv, RefCountsExact, BMTypeOK
  <2>2. CASE b \notin S \cup F
    BY <2>1, <2>2, <1>7, <1>9
  <2>3. CASE b \in S \cup F
    <3>1. Owners(b)' = Owners(b) \cup {s}
      BY <2>3, <1>7
    <3>2. Cardinality(Owners(b) \cup {s}) = Cardinality(Owners(b)) + 1
      BY <2>3, <1>8, OwnersFinite, FS_AddElement
    <3>3. refCount'[b] = refCount[b] + 1
      <4>1. CASE b \in F
        BY <4>1, <1>2, <1>9
      <4>2. CASE b \in S /\ b \in used
        BY <4>2, <1>3, <1>9 DEF RefOfHit
      <4>3. CASE b \in S /\ b \notin used
        <5>1. refCount[b] = 0
          BY <4>3, <2>1, FS_EmptySet
        <5> QED BY <4>3, <5>1, <1>3, <1>9 DEF RefOfHit
      <4> QED BY <2>3, <4>1, <4>2, <4>3
    <3>4. b \in used'
      BY <2>3, <1>9
    <3> QED BY <3>1, <3>2, <3>3, <3>4, <2>1
  <2> QED BY <2>2, <2>3
<1>17. RefCountsExact'
  <2>1. free' \cap used' = {} /\ free' \cup used' = Blocks
    BY <1>9, <1>1 DEF IInv, RefCountsExact
  <2> QED BY <2>1, <1>16 DEF RefCountsExact
<1>18. refCount' \in [Blocks -> Nat]
  BY <1>9, <1>16
<1>19. TablesInjective'
  <2>1. ASSUME NEW r \in Seqs PROVE IsInjective(blockTable'[r])
    BY <1>4, <1>6 DEF IInv, TablesInjective
  <2> QED BY <2>1 DEF TablesInjective
<1> QED
  BY <1>6, <1>7, <1>10, <1>11, <1>13, <1>14, <1>15, <1>17, <1>18, <1>19
  DEF Structure, Placed, OwnersNext, Owners

\* Taking the table of s away frees exactly the blocks nobody else owns.
LEMMA DeallocateKeepsStructure ==
  ASSUME IInv, NEW s \in Seqs, Deallocate(s)
  PROVE  /\ Structure'
         /\ blockTable'[s] = <<>>
         /\ \A r \in Seqs : r # s => blockTable'[r] = blockTable[r]
         /\ \A b \in Blocks : OwnersNext(b) = Owners(b) \ {s}
<1> DEFINE T == Range(blockTable[s])
<1>t. BMTypeOK
  BY DEF IInv
<1>1. blockTable' = [blockTable EXCEPT ![s] = <<>>]
  BY DEF Deallocate
<1>2. /\ blockTable' \in [Seqs -> Seq(Blocks)]
      /\ blockTable'[s] = <<>>
      /\ \A r \in Seqs : r # s => blockTable'[r] = blockTable[r]
  BY <1>1, <1>t, EmptySeq DEF BMTypeOK
<1>3. Range(<<>>) = {}
  BY DEF Range
<1>4. \A b \in Blocks : Owners(b)' = Owners(b) \ {s}
  BY <1>2, <1>3 DEF Owners
<1>5. T \subseteq Blocks
  BY <1>t, RangeOfSeq DEF BMTypeOK
<1>6. \A b \in Blocks : b \in T <=> s \in Owners(b)
  BY DEF Owners
<1>7. /\ refCount' = [b \in Blocks |-> IF b \in T THEN refCount[b] - 1
                                                  ELSE refCount[b]]
      /\ used' = used \ Released(s)
      /\ free' = free \cup Released(s)
      /\ Released(s) = {b \in T : refCount[b] = 1}
      /\ blockHash' = blockHash /\ hashToBlock' = hashToBlock
  BY DEF Deallocate, Released
<1>8. ASSUME NEW b \in Blocks
      PROVE  /\ refCount'[b] = Cardinality(Owners(b)')
             /\ refCount'[b] \in Nat
             /\ b \in used' <=> Owners(b)' # {}
  <2>1. /\ refCount[b] = Cardinality(Owners(b)) /\ refCount[b] \in Nat
        /\ b \in used <=> Owners(b) # {}
    BY <1>t DEF IInv, RefCountsExact, BMTypeOK
  <2>2. CASE b \notin T
    <3>1. Owners(b)' = Owners(b)
      BY <2>2, <1>4, <1>6
    <3>2. refCount'[b] = refCount[b] /\ (b \in used' <=> b \in used)
      BY <2>2, <1>7
    <3> QED BY <2>1, <3>1, <3>2
  <2>3. CASE b \in T
    <3>1. Cardinality(Owners(b) \ {s}) = Cardinality(Owners(b)) - 1
      BY <2>3, <1>6, OwnersFinite, FS_RemoveElement
    <3>2. IsFiniteSet(Owners(b) \ {s}) /\ Cardinality(Owners(b) \ {s}) \in Nat
      BY OwnersFinite, FS_RemoveElement, FS_CardinalityType
    <3>3. refCount'[b] = Cardinality(Owners(b)') /\ refCount'[b] \in Nat
      BY <2>1, <2>3, <3>1, <3>2, <1>4, <1>7
    <3>4. Owners(b)' = {} <=> refCount[b] = 1
      BY <2>1, <3>1, <3>2, <1>4, FS_EmptySet
    <3>5. b \in used' <=> refCount[b] # 1
      BY <2>1, <2>3, <1>6, <1>7
    <3> QED BY <3>3, <3>4, <3>5
  <2> QED BY <2>2, <2>3
<1>9. free' \subseteq Blocks /\ used' \subseteq Blocks
  BY <1>5, <1>7, <1>t DEF BMTypeOK
<1>10. RefCountsExact'
  <2>1. Released(s) \subseteq used
    BY <1>5, <1>6, <1>7 DEF IInv, RefCountsExact
  <2>2. free' \cap used' = {} /\ free' \cup used' = Blocks
    BY <2>1, <1>7 DEF IInv, RefCountsExact
  <2> QED BY <2>2, <1>8 DEF RefCountsExact
<1>11. refCount' \in [Blocks -> Nat]
  BY <1>7, <1>8
<1>12. TablesInjective'
  <2>1. IsInjective(<<>>)
    BY DEF IsInjective
  <2> QED BY <2>1, <1>2 DEF IInv, TablesInjective
<1>13. IndexSound'
  BY <1>7 DEF IInv, IndexSound
<1> QED
  BY <1>2, <1>4, <1>7, <1>9, <1>10, <1>11, <1>12, <1>13, <1>t
  DEF Structure, BMTypeOK, OwnersNext, Owners

\* The chained hash, continued from the label of block `from', is the prefix.
LEMMA ChainIsPrefix ==
  ASSUME tokens \in [Seqs -> Seq(Token)], NEW s \in Seqs,
         NEW from \in Nat, NEW i \in Nat, from <= i,
         i * BlockSize <= Len(tokens[s])
  PROVE  PrefixHash(s, from) \o SubSeq(tokens[s], from * BlockSize + 1, i * BlockSize)
           = PrefixHash(s, i)
<1>1. tokens[s] \in Seq(Token) /\ Len(tokens[s]) \in Nat
  BY LenProperties
<1>2. from * BlockSize \in Nat /\ i * BlockSize \in Nat
      /\ from * BlockSize <= i * BlockSize
  BY BlockSizeAssumption
<1> DEFINE k == from * BlockSize
           n == i * BlockSize
<1>3. k \in 1 - 1 .. Len(tokens[s]) /\ n \in k .. Len(tokens[s])
      /\ 1 \in 1 .. Len(tokens[s]) + 1
  BY <1>1, <1>2
<1> HIDE DEF k, n
<1>4. SubSeq(tokens[s], 1, k) \o SubSeq(tokens[s], k + 1, n) = SubSeq(tokens[s], 1, n)
  BY <1>1, <1>3, ConcatAdjacentSubSeq
<1> QED BY <1>4 DEF k, n, PrefixHash

\* Labelling blocks that carried no label yet keeps the index sound.
LEMMA LabelKeepsStructure ==
  ASSUME IInv, NEW s \in Seqs, NEW from \in Nat, NEW to \in Nat,
         to <= Len(blockTable[s]), to * BlockSize <= Len(tokens[s]),
         from <= to,
         \A i \in from + 1 .. to : blockHash[blockTable[s][i]] = NoHash,
         Label(s, PrefixHash(s, from), from, to)
  PROVE  /\ blockHash' \in [Blocks -> Seq(Token)]
         /\ DOMAIN hashToBlock' \subseteq Seq(Token)
         /\ hashToBlock' \in [DOMAIN hashToBlock' -> Blocks]
         /\ IndexSound'
         /\ \A i \in from + 1 .. to :
              blockHash'[blockTable[s][i]] = PrefixHash(s, i)
         /\ \A b \in Blocks :
              (\A i \in from + 1 .. to : blockTable[s][i] # b)
                => blockHash'[b] = blockHash[b]
<1> DEFINE pos == from + 1 .. to
           chain(i) == PrefixHash(s, from) \o
                         SubSeq(tokens[s], from * BlockSize + 1, i * BlockSize)
           tab == blockTable[s]
<1>t. BMTypeOK /\ tokens \in [Seqs -> Seq(Token)] /\ tab \in Seq(Blocks)
  BY DEF IInv, BMTypeOK
<1>1. ASSUME NEW i \in pos
      PROVE  /\ i \in Nat /\ i > 0 /\ from <= i /\ i * BlockSize <= Len(tokens[s])
             /\ tab[i] \in Blocks
             /\ chain(i) = PrefixHash(s, i)
             /\ PrefixHash(s, i) \in Seq(Token)
             /\ PrefixHash(s, i) # NoHash
  <2>1. i \in Nat /\ i > 0 /\ from <= i /\ i <= to
    OBVIOUS
  <2>2. Len(tokens[s]) \in Nat /\ i * BlockSize <= to * BlockSize
    BY <2>1, <1>t, LenProperties, BlockSizeAssumption
  <2>3. i * BlockSize <= Len(tokens[s])
    BY <2>1, <2>2, BlockSizeAssumption
  <2>4. tab[i] \in Blocks
    <3>1. Len(tab) \in Nat
      BY <1>t, LenProperties
    <3>2. i \in 1 .. Len(tab)
      BY <2>1, <3>1
    <3> QED BY <1>t, <3>2, ElementOfSeq
  <2>5. chain(i) = PrefixHash(s, i)
    BY <2>1, <2>3, <1>t, ChainIsPrefix
  <2> QED BY <2>1, <2>3, <2>4, <2>5, <1>t, PrefixFacts
<1>2. \A i, j \in pos : PrefixHash(s, i) = PrefixHash(s, j) => i = j
  BY <1>1, <1>t, PrefixDistinct
<1>3. \A i, j \in pos : tab[i] = tab[j] => i = j
  <2>1. IsInjective(tab) /\ DOMAIN tab = 1 .. Len(tab) /\ Len(tab) \in Nat
    BY <1>t, LenProperties DEF IInv, TablesInjective
  <2> QED BY <2>1 DEF IsInjective
<1>4. blockHash' = [b \in Blocks |-> IF \E i \in pos : tab[i] = b
                                     THEN chain(CHOOSE i \in pos : tab[i] = b)
                                     ELSE blockHash[b]]
  BY DEF Label
<1>5. hashToBlock' =
        [h \in DOMAIN hashToBlock \cup {chain(i) : i \in pos} |->
           IF \E i \in pos : chain(i) = h
           THEN tab[CHOOSE i \in pos : chain(i) = h] ELSE hashToBlock[h]]
  BY DEF Label
<1>6. ASSUME NEW i \in pos
      PROVE  blockHash'[tab[i]] = PrefixHash(s, i)
  <2> DEFINE c == CHOOSE j \in pos : tab[j] = tab[i]
  <2>1. c \in pos /\ tab[c] = tab[i]
    OBVIOUS
  <2>2. c = i
    BY <2>1, <1>3
  <2>3. blockHash'[tab[i]] = chain(c)
    BY <1>1, <1>4
  <2> QED BY <2>2, <2>3, <1>1
<1>7. \A b \in Blocks :
        (\A i \in pos : tab[i] # b) => blockHash'[b] = blockHash[b]
  BY <1>4
<1>8. blockHash' \in [Blocks -> Seq(Token)]
  <2>1. ASSUME NEW b \in Blocks PROVE blockHash'[b] \in Seq(Token)
    <3>1. CASE \E i \in pos : tab[i] = b
      <4>1. PICK i \in pos : tab[i] = b
        BY <3>1
      <4>2. blockHash'[tab[i]] = PrefixHash(s, i) /\ PrefixHash(s, i) \in Seq(Token)
        BY <1>1, <1>6
      <4> QED BY <4>1, <4>2
    <3>2. CASE \A i \in pos : tab[i] # b
      BY <3>2, <1>7, <1>t DEF BMTypeOK
    <3> QED BY <3>1, <3>2
  <2>2. blockHash' = [b \in Blocks |-> blockHash'[b]]
    BY <1>4
  <2> QED BY <2>1, <2>2
<1>9. DOMAIN hashToBlock' = DOMAIN hashToBlock \cup {PrefixHash(s, i) : i \in pos}
  BY <1>1, <1>5
<1>10. ASSUME NEW i \in pos
       PROVE  hashToBlock'[PrefixHash(s, i)] = tab[i]
  <2> DEFINE c == CHOOSE j \in pos : chain(j) = PrefixHash(s, i)
  <2>1. c \in pos /\ chain(c) = PrefixHash(s, i)
    BY <1>1
  <2>2. c = i
    BY <2>1, <1>1, <1>2
  <2>3. hashToBlock'[PrefixHash(s, i)] = tab[c]
    BY <1>1, <1>5, <1>9
  <2> QED BY <2>2, <2>3
<1>11. ASSUME NEW h \in DOMAIN hashToBlock', \A i \in pos : PrefixHash(s, i) # h
       PROVE  h \in DOMAIN hashToBlock /\ hashToBlock'[h] = hashToBlock[h]
  BY <1>1, <1>5, <1>9, <1>11
<1>12. DOMAIN hashToBlock' \subseteq Seq(Token)
  BY <1>1, <1>9, <1>t DEF BMTypeOK
<1>13. hashToBlock' \in [DOMAIN hashToBlock' -> Blocks]
  <2>1. ASSUME NEW h \in DOMAIN hashToBlock' PROVE hashToBlock'[h] \in Blocks
    <3>1. CASE \E i \in pos : PrefixHash(s, i) = h
      <4>1. PICK i \in pos : PrefixHash(s, i) = h
        BY <3>1
      <4>2. hashToBlock'[PrefixHash(s, i)] = tab[i] /\ tab[i] \in Blocks
        BY <1>1, <1>10
      <4> QED BY <4>1, <4>2
    <3>2. CASE \A i \in pos : PrefixHash(s, i) # h
      BY <3>2, <1>11, <1>t DEF BMTypeOK
    <3> QED BY <3>1, <3>2
  <2>2. hashToBlock' = [h \in DOMAIN hashToBlock' |-> hashToBlock'[h]]
    BY <1>5
  <2> QED BY <2>1, <2>2
<1>14. IndexSound'
  <2>1. NoHash \notin DOMAIN hashToBlock'
    BY <1>1, <1>9 DEF IInv, IndexSound
  <2>2. ASSUME NEW h \in DOMAIN hashToBlock'
        PROVE  blockHash'[hashToBlock'[h]] = h
    <3>1. CASE \E i \in pos : PrefixHash(s, i) = h
      BY <3>1, <1>6, <1>10
    <3>2. CASE \A i \in pos : PrefixHash(s, i) # h
      <4>1. /\ h \in DOMAIN hashToBlock /\ hashToBlock'[h] = hashToBlock[h]
            /\ blockHash[hashToBlock[h]] = h /\ h # NoHash
            /\ hashToBlock[h] \in Blocks
        BY <3>2, <1>11, <1>t DEF IInv, IndexSound, BMTypeOK
      <4>2. \A i \in pos : tab[i] # hashToBlock[h]
        BY <4>1
      <4> QED BY <4>1, <4>2, <1>7
    <3> QED BY <3>1, <3>2
  <2> QED BY <2>1, <2>2 DEF IndexSound
<1> QED BY <1>6, <1>7, <1>8, <1>12, <1>13, <1>14

-----------------------------------------------------------------------------
(* Each operation preserves the inductive invariant *)

\* What a table covers: the cached blocks are in the table and complete.
LEMMA ComputedFacts ==
  ASSUME BMTypeOK, TablesCover, NEW s \in Seqs
  PROVE  /\ Computed(s) \in Nat
         /\ Computed(s) <= Len(blockTable[s])
         /\ Computed(s) * BlockSize <= numCached[s]
         /\ Computed(s) * BlockSize <= Len(tokens[s])
         /\ Len(blockTable[s]) \in Nat
<1>1. /\ numCached[s] \in Nat /\ Len(blockTable[s]) \in Nat
      /\ Len(tokens[s]) \in Nat
  BY LenProperties DEF BMTypeOK
<1>2. Computed(s) \in Nat /\ Computed(s) * BlockSize <= numCached[s]
  BY <1>1, DivBounds DEF Computed
<1>3. numCached[s] <= Len(tokens[s])
      /\ numCached[s] <= Len(blockTable[s]) * BlockSize
  BY DEF TablesCover
<1>4. Len(blockTable[s]) * BlockSize \in Nat /\ Computed(s) * BlockSize \in Nat
  BY <1>1, <1>2, MulType
<1>5. Computed(s) <= Len(blockTable[s])
  <2>1. numCached[s] \div BlockSize <= (Len(blockTable[s]) * BlockSize) \div BlockSize
    BY <1>1, <1>3, <1>4, DivMono
  <2>2. (Len(blockTable[s]) * BlockSize) \div BlockSize = Len(blockTable[s])
    BY <1>1, DivMul
  <2> QED BY <2>1, <2>2 DEF Computed
<1> QED BY <1>1, <1>2, <1>3, <1>4, <1>5

\* An element of a table is owned by the table's sequence, so it is not free.
LEMMA TableElement ==
  ASSUME IInv, NEW s \in Seqs, NEW i \in 1 .. Len(blockTable[s])
  PROVE  /\ blockTable[s][i] \in Blocks
         /\ s \in Owners(blockTable[s][i])
         /\ blockTable[s][i] \notin free
<1>1. BMTypeOK /\ blockTable[s] \in Seq(Blocks)
  BY DEF IInv, BMTypeOK
<1>2. blockTable[s][i] \in Blocks
  BY <1>1, ElementOfSeq
<1>3. blockTable[s][i] \in Range(blockTable[s])
  BY <1>1, InTable
<1>4. s \in Owners(blockTable[s][i])
  BY <1>3 DEF Owners
<1> QED BY <1>2, <1>4, FreeUnowned

\* Operations that place blocks: the hits must be labelled, those that are
\* counted as cached with the prefix, and the rest of the table writable.
LEMMA PlaceStep ==
  ASSUME IInv, NEW s \in Seqs,
         NEW shared \in Seq(Blocks), NEW fresh \in Seq(Blocks),
         NEW t, t = blockTable[s] \o shared \o fresh,
         IsInjective(shared), IsInjective(fresh),
         Range(fresh) \subseteq free \ Range(shared),
         Range(shared) \cap Range(blockTable[s]) = {},
         Place(s, shared, fresh),
         NEW n \in Nat, NEW p \in BOOLEAN,
         tokens' = tokens,
         numCached' = [numCached EXCEPT ![s] = n],
         restorePending' = [restorePending EXCEPT ![s] = p],
         Len(t) <= NumBlocks(s), n <= Len(tokens[s]), n <= Len(t) * BlockSize,
         p => n >= BlockSize,
         \A b \in Range(shared) : blockHash[b] # NoHash,
         \A i \in 1 .. n \div BlockSize :
           p \/ (t[i] \notin Range(fresh) /\ blockHash[t[i]] = PrefixHash(s, i)),
         \A i \in 1 .. Len(t) : i > n \div BlockSize \/ p =>
           \/ t[i] \in Range(fresh)
           \/ t[i] \in Range(blockTable[s]) /\ Owners(t[i]) = {s}
                                          /\ blockHash[t[i]] = NoHash
  PROVE  IInv'
<1>t. BMTypeOK
  BY DEF IInv
<1>0. Placed(s, shared, fresh)
  BY PlaceKeepsStructure
<1>1. /\ Structure'
      /\ blockTable'[s] = t
      /\ \A r \in Seqs : r # s => blockTable'[r] = blockTable[r]
      /\ \A b \in Blocks :
           OwnersNext(b) = IF b \in Range(shared) \cup Range(fresh)
                           THEN Owners(b) \cup {s} ELSE Owners(b)
      /\ \A b \in Blocks : blockHash'[b] = IF b \in Range(fresh) THEN NoHash
                                           ELSE blockHash[b]
  BY <1>0 DEF Placed
<1>2. /\ numCached'[s] = n /\ restorePending'[s] = p
      /\ \A r \in Seqs : r # s => numCached'[r] = numCached[r]
                             /\ restorePending'[r] = restorePending[r]
  BY <1>t DEF BMTypeOK
<1>3. BMTypeOK'
  BY <1>1, <1>t DEF BMTypeOK, Structure
<1>4. TablesCover'
  <2>1. ASSUME NEW r \in Seqs
        PROVE  /\ Len(blockTable'[r]) <= NumBlocks(r)'
               /\ numCached'[r] <= Len(tokens'[r])
               /\ numCached'[r] <= Len(blockTable'[r]) * BlockSize
               /\ restorePending'[r] => numCached'[r] >= BlockSize
    <3>1. NumBlocks(r)' = NumBlocks(r)
      BY DEF NumBlocks
    <3>2. CASE r = s
      BY <3>1, <3>2, <1>1, <1>2
    <3>3. CASE r # s
      BY <3>1, <3>3, <1>1, <1>2 DEF IInv, TablesCover
    <3> QED BY <3>2, <3>3
  <2> QED BY <2>1 DEF TablesCover
<1>5. \A b \in Range(fresh) : b \in Blocks /\ Owners(b) = {}
  BY FreeUnowned
<1>6. t \in Seq(Blocks)
  BY <1>t, ConcatProperties DEF BMTypeOK
<1>7. ASSUME NEW r \in Seqs, ~restorePending'[r], NEW i \in 1 .. Computed(r)'
      PROVE  blockHash'[blockTable'[r][i]] = PrefixHash(r, i)'
  <2>1. PrefixHash(r, i)' = PrefixHash(r, i)
    BY DEF PrefixHash
  <2>2. CASE r = s
    <3>1. i \in 1 .. n \div BlockSize /\ ~p
      BY <2>2, <1>2, <1>7 DEF Computed
    <3>2. t[i] \notin Range(fresh) /\ blockHash[t[i]] = PrefixHash(s, i)
      BY <3>1
    <3>3. t[i] \in Blocks
      <4>1. Len(t) \in Nat /\ Len(t) * BlockSize \in Nat
        BY <1>6, LenProperties, MulType
      <4>2. n \div BlockSize <= Len(t) /\ n \div BlockSize \in Nat
        BY <4>1, DivMono, DivMul, DivBounds
      <4>3. i \in 1 .. Len(t)
        BY <3>1, <4>1, <4>2
      <4> QED BY <4>3, <1>6, ElementOfSeq
    <3> QED BY <2>1, <2>2, <3>2, <3>3, <1>1
  <2>3. CASE r # s
    <3>1. blockTable'[r] = blockTable[r] /\ Computed(r)' = Computed(r)
          /\ ~restorePending[r]
      BY <2>3, <1>1, <1>2, <1>7 DEF Computed
    <3>2. i \in 1 .. Computed(r) /\ i \in 1 .. Len(blockTable[r])
      BY <3>1, <1>7, <1>t, ComputedFacts DEF IInv
    <3>3. blockHash[blockTable[r][i]] = PrefixHash(r, i)
      BY <3>1, <3>2 DEF IInv, CachedBlocksLabelled
    <3>4. blockTable[r][i] \in Blocks /\ blockTable[r][i] \notin Range(fresh)
      BY <3>2, <1>5, TableElement
    <3> QED BY <3>1, <3>3, <3>4, <2>1, <1>1
  <2> QED BY <2>2, <2>3
<1>8. CachedBlocksLabelled'
  BY <1>7 DEF CachedBlocksLabelled
<1>9. ASSUME NEW r \in Seqs, NEW i \in 1 .. Len(blockTable'[r]),
             i > Computed(r)' \/ restorePending'[r]
      PROVE  /\ OwnersNext(blockTable'[r][i]) = {r}
             /\ blockHash'[blockTable'[r][i]] = NoHash
  <2>1. CASE r = s
    <3>1. i \in 1 .. Len(t) /\ (i > n \div BlockSize \/ p)
      BY <2>1, <1>1, <1>2, <1>9 DEF Computed
    <3>2. t[i] \in Blocks
      BY <3>1, <1>6, ElementOfSeq
    <3>3. CASE t[i] \in Range(fresh)
      BY <2>1, <3>2, <3>3, <1>1, <1>5
    <3>4. CASE Owners(t[i]) = {s} /\ blockHash[t[i]] = NoHash
      <4>1. Owners(t[i]) \cup {s} = {s}
        BY <3>4
      <4>2. OwnersNext(t[i]) = {s}
        BY <3>2, <3>4, <4>1, <1>1
      <4>3. blockHash'[t[i]] = NoHash
        BY <3>2, <3>4, <1>1
      <4> QED BY <2>1, <4>2, <4>3, <1>1
    <3> QED BY <3>1, <3>3, <3>4
  <2>2. CASE r # s
    <3> DEFINE b == blockTable[r][i]
    <3>1. blockTable'[r] = blockTable[r]
          /\ (i > Computed(r) \/ restorePending[r])
      BY <2>2, <1>1, <1>2, <1>9 DEF Computed
    <3>2. i \in 1 .. Len(blockTable[r])
      BY <3>1, <1>9
    <3>3. Owners(b) = {r} /\ blockHash[b] = NoHash
      BY <3>1, <3>2 DEF IInv, WritableBlocksExclusive
    <3>4. b \in Blocks
      BY <3>2, TableElement
    <3>5. b \notin Range(fresh) /\ b \notin Range(shared)
      BY <3>3, <1>5
    <3> QED BY <3>1, <3>3, <3>4, <3>5, <1>1
  <2> QED BY <2>1, <2>2
<1>10. WritableBlocksExclusive'
  BY <1>9 DEF WritableBlocksExclusive, OwnersNext, Owners
<1> QED BY <1>1, <1>3, <1>4, <1>8, <1>10 DEF IInv, Structure

\* allocate with k hits.
LEMMA AllocateStep ==
  ASSUME IInv, NEW s \in Seqs, NEW k \in 0 .. NumBlocks(s) - 1, Allocate(s, k)
  PROVE  IInv'
<1> DEFINE shared == [i \in 1 .. k |-> HitBlock(s, i)]
           n == k * BlockSize
<1>t. /\ BMTypeOK /\ tokens \in [Seqs -> Seq(Token)]
      /\ tokens[s] \in Seq(Token) /\ Len(tokens[s]) \in Nat
      /\ blockTable[s] = <<>> /\ tokens' = tokens
      /\ restorePending[s] \in BOOLEAN
      /\ restorePending' = [restorePending EXCEPT ![s] = restorePending[s]]
      /\ numCached' = [numCached EXCEPT ![s] = n]
  BY LenProperties DEF IInv, BMTypeOK, Allocate
<1>1. PICK fresh \in Injection(1 .. NumBlocks(s) - k, free \ HitBlocks(s, k)) :
        Place(s, shared, fresh)
  BY DEF Allocate
<1>2. k \in Nat /\ NumBlocks(s) \in Nat /\ NumBlocks(s) - k \in Nat /\ k < NumBlocks(s)
  BY <1>t, NumBlocksFacts
<1>3. n \in Nat /\ n <= Len(tokens[s])
  <2>1. k * BlockSize + BlockSize <= NumBlocks(s) * BlockSize
    BY <1>2, MulMono
  <2>2. NumBlocks(s) * BlockSize < Len(tokens[s]) + BlockSize
        /\ NumBlocks(s) * BlockSize \in Nat /\ k * BlockSize \in Nat
    BY <1>t, <1>2, NumBlocksFacts, MulType
  <2> QED BY <2>1, <2>2, <1>t, BlockSizeAssumption
<1>4. n \div BlockSize = k
  BY <1>2, DivMul
<1>5. ASSUME NEW i \in 1 .. k
      PROVE  /\ i \in Nat /\ i > 0 /\ i * BlockSize <= Len(tokens[s])
             /\ PrefixHash(s, i) \in DOMAIN hashToBlock
             /\ HitBlock(s, i) \in Blocks
             /\ blockHash[HitBlock(s, i)] = PrefixHash(s, i)
             /\ PrefixHash(s, i) # NoHash
  <2>1. i \in Nat /\ i > 0 /\ i <= k
    BY <1>2
  <2>2. i * BlockSize \in Nat /\ i * BlockSize <= n
    BY <2>1, <1>2, BlockSizeAssumption
  <2>3. i * BlockSize <= Len(tokens[s])
    BY <2>2, <1>3, <1>t
  <2>4. PrefixHash(s, i) \in DOMAIN hashToBlock
    BY DEF Allocate, CanAllocate, LongestHit, Hit
  <2>5. HitBlock(s, i) \in Blocks /\ blockHash[HitBlock(s, i)] = PrefixHash(s, i)
    BY <2>4, <1>t DEF HitBlock, BMTypeOK, IInv, IndexSound
  <2> QED BY <2>1, <2>3, <2>4, <2>5, <1>t, PrefixFacts
<1>6. shared \in Seq(Blocks) /\ Len(shared) = k /\ DOMAIN shared = 1 .. k
      /\ Range(shared) = HitBlocks(s, k)
  BY <1>2, <1>5 DEF Range, HitBlocks
<1>7. IsInjective(shared)
  <2>1. ASSUME NEW i \in 1 .. k, NEW j \in 1 .. k, shared[i] = shared[j]
        PROVE  i = j
    <3>1. PrefixHash(s, i) = PrefixHash(s, j)
      BY <2>1, <1>5
    <3> QED BY <3>1, <1>5, <1>t, PrefixDistinct
  <2> QED BY <2>1, <1>6 DEF IsInjective
<1>8. /\ fresh \in Seq(Blocks) /\ Len(fresh) = NumBlocks(s) - k
      /\ IsInjective(fresh)
      /\ Range(fresh) \subseteq free \ Range(shared)
  <2>1. fresh \in [1 .. NumBlocks(s) - k -> free \ HitBlocks(s, k)] /\ IsInjective(fresh)
    BY <1>1 DEF Injection
  <2>2. Range(fresh) \subseteq free \ HitBlocks(s, k)
    BY <2>1 DEF Range
  <2> DEFINE m == NumBlocks(s) - k
  <2>3. fresh \in [1 .. m -> Blocks] /\ m \in Nat
    BY <2>1, <1>2, <1>t DEF BMTypeOK
  <2> HIDE DEF m
  <2>4. fresh \in Seq(Blocks) /\ Len(fresh) = m
    BY <2>3
  <2> QED BY <2>1, <2>2, <2>4, <1>6 DEF m
<1>9. Range(blockTable[s]) = {}
  BY <1>t DEF Range
<1> DEFINE t == blockTable[s] \o shared \o fresh
<1> HIDE DEF shared, n
<1>10. /\ t = shared \o fresh
       /\ Len(t) = NumBlocks(s)
       /\ \A i \in 1 .. Len(t) :
            t[i] = IF i <= k THEN shared[i] ELSE fresh[i - k]
  <2>1. blockTable[s] \o shared = shared
    BY <1>t, <1>6, ConcatEmptySeq
  <2>2. t = shared \o fresh
    BY <2>1
  <2>3. /\ Len(shared \o fresh) = Len(shared) + Len(fresh)
        /\ \A i \in 1 .. Len(shared) + Len(fresh) :
             (shared \o fresh)[i] = IF i <= Len(shared) THEN shared[i]
                                    ELSE fresh[i - Len(shared)]
    BY <1>6, <1>8, ConcatProperties
  <2> QED BY <2>2, <2>3, <1>2, <1>6, <1>8
<1>11. \A i \in 1 .. k : shared[i] = HitBlock(s, i) /\ shared[i] \in Range(shared)
  BY <1>6 DEF shared, Range
<1>12. \A b \in Range(shared) : blockHash[b] # NoHash
  BY <1>5, <1>6 DEF HitBlocks
<1>13. \A i \in 1 .. n \div BlockSize :
         restorePending[s] \/ (t[i] \notin Range(fresh) /\ blockHash[t[i]] = PrefixHash(s, i))
  <2>1. ASSUME NEW i \in 1 .. k
        PROVE  t[i] \notin Range(fresh) /\ blockHash[t[i]] = PrefixHash(s, i)
    <3>1. t[i] = shared[i]
      BY <1>2, <1>10
    <3> QED BY <3>1, <1>5, <1>8, <1>11
  <2> QED BY <2>1, <1>4
<1>14. /\ ~restorePending[s]
       /\ \A i \in 1 .. Len(t) : i > k => t[i] \in Range(fresh)
  <2>1. Len(blockTable[s]) = 0
    BY <1>t
  <2>2. ~restorePending[s]
    BY <2>1, <1>t, BlockSizeAssumption DEF IInv, TablesCover, BMTypeOK
  <2>3. ASSUME NEW i \in 1 .. Len(t), i > k PROVE t[i] \in Range(fresh)
    <3>1. t[i] = fresh[i - k] /\ i - k \in 1 .. Len(fresh)
      BY <2>3, <1>2, <1>8, <1>10
    <3> QED BY <3>1, <1>8, RangeEquality
  <2> QED BY <2>2, <2>3
<1>15. Len(t) <= NumBlocks(s) /\ n <= Len(t) * BlockSize
  BY <1>2, <1>3, <1>10, <1>t, NumBlocksFacts, MulType
<1>16. \A i \in 1 .. Len(t) : i > n \div BlockSize \/ restorePending[s] =>
         \/ t[i] \in Range(fresh)
         \/ t[i] \in Range(blockTable[s]) /\ Owners(t[i]) = {s}
                                        /\ blockHash[t[i]] = NoHash
  BY <1>4, <1>14
<1> HIDE DEF t
<1>17. t = blockTable[s] \o shared \o fresh
  BY DEF t
<1> QED
  BY <1>t, <1>1, <1>3, <1>6, <1>7, <1>8, <1>9, <1>12, <1>13, <1>14, <1>15,
     <1>16, <1>17, PlaceStep

\* The empty table.
LEMMA EmptyTable ==
  /\ <<>> \in Seq(Blocks) /\ Len(<<>>) = 0 /\ Range(<<>>) = {}
  /\ IsInjective(<<>>)
BY DEF Range, IsInjective

\* allocate_for_cpu_restore of k blocks.
LEMMA AllocateForCpuRestoreStep ==
  ASSUME IInv, NEW s \in Seqs, NEW k \in 1 .. NumBlocks(s) - 1,
         AllocateForCpuRestore(s, k)
  PROVE  IInv'
<1> DEFINE n == k * BlockSize
           shared == <<>>
<1>t. /\ BMTypeOK /\ tokens \in [Seqs -> Seq(Token)]
      /\ Len(tokens[s]) \in Nat
      /\ blockTable[s] = <<>> /\ tokens' = tokens
      /\ restorePending' = [restorePending EXCEPT ![s] = TRUE]
      /\ numCached' = [numCached EXCEPT ![s] = n]
  BY LenProperties DEF IInv, BMTypeOK, AllocateForCpuRestore
<1>1. PICK fresh \in Injection(1 .. NumBlocks(s), free) : Place(s, shared, fresh)
  BY DEF AllocateForCpuRestore
<1>2. k \in Nat /\ k >= 1 /\ NumBlocks(s) \in Nat /\ k < NumBlocks(s)
  BY <1>t, NumBlocksFacts
<1>3. n \in Nat /\ n <= Len(tokens[s]) /\ n <= NumBlocks(s) * BlockSize
      /\ n >= BlockSize
  <2>1. k * BlockSize + BlockSize <= NumBlocks(s) * BlockSize
    BY <1>2, MulMono
  <2>2. NumBlocks(s) * BlockSize < Len(tokens[s]) + BlockSize
        /\ NumBlocks(s) * BlockSize \in Nat /\ k * BlockSize \in Nat
    BY <1>t, <1>2, NumBlocksFacts, MulType
  <2>3. 0 * BlockSize + BlockSize <= k * BlockSize
    BY <1>2, MulMono
  <2> QED BY <2>1, <2>2, <2>3, <1>t, BlockSizeAssumption
<1>4. fresh \in [1 .. NumBlocks(s) -> free] /\ IsInjective(fresh)
  BY <1>1 DEF Injection
<1>5. Range(fresh) \subseteq free
  BY <1>4 DEF Range
<1>6. fresh \in Seq(Blocks) /\ Len(fresh) = NumBlocks(s)
  <2> DEFINE m == NumBlocks(s)
  <2>1. fresh \in [1 .. m -> Blocks] /\ m \in Nat
    BY <1>2, <1>4, <1>t DEF BMTypeOK
  <2> HIDE DEF m
  <2>2. fresh \in Seq(Blocks) /\ Len(fresh) = m
    BY <2>1
  <2> QED BY <2>2 DEF m
<1> DEFINE t == blockTable[s] \o shared \o fresh
<1>7. t = fresh
  BY <1>t, <1>6, ConcatEmptySeq
<1>8. /\ shared \in Seq(Blocks) /\ Range(shared) = {} /\ IsInjective(shared)
      /\ \A b \in Range(shared) : blockHash[b] # NoHash
      /\ Range(shared) \cap Range(blockTable[s]) = {}
      /\ Range(fresh) \subseteq free \ Range(shared)
  BY <1>5, EmptyTable
<1>9. \A i \in 1 .. Len(t) : t[i] \in Range(fresh)
  BY <1>6, <1>7, RangeEquality
<1>10. t = blockTable[s] \o shared \o fresh
  BY DEF t
<1> HIDE DEF t
<1>11. Len(t) <= NumBlocks(s) /\ n <= Len(t) * BlockSize
  <2>1. Len(t) = NumBlocks(s)
    BY <1>6, <1>7
  <2> QED BY <2>1, <1>2, <1>3
<1> HIDE DEF n, shared
<1> QED
  BY <1>t, <1>1, <1>3, <1>4, <1>6, <1>8, <1>9, <1>10, <1>11, PlaceStep

\* may_append when the newest token opens a block.
LEMMA MayAppendStep ==
  ASSUME IInv, NEW s \in Seqs, MayAppend(s)
  PROVE  IInv'
<1> DEFINE shared == <<>>
           n == numCached[s]
<1>t. /\ BMTypeOK
      /\ blockTable[s] \in Seq(Blocks) /\ Len(blockTable[s]) \in Nat
      /\ tokens' = tokens /\ ~restorePending[s]
      /\ n \in Nat
      /\ restorePending' = [restorePending EXCEPT ![s] = FALSE]
      /\ numCached' = [numCached EXCEPT ![s] = n]
  BY LenProperties DEF IInv, BMTypeOK, MayAppend
<1>1. PICK b \in free : Place(s, shared, <<b>>)
  BY DEF MayAppend
<1> DEFINE fresh == <<b>>
           t == blockTable[s] \o shared \o fresh
<1>2. /\ fresh \in Seq(Blocks) /\ Len(fresh) = 1 /\ IsInjective(fresh)
      /\ Range(fresh) = {b}
  <2>1. b \in Blocks
    BY <1>t DEF BMTypeOK
  <2> QED BY <2>1 DEF Range, IsInjective
<1>3. /\ shared \in Seq(Blocks) /\ Range(shared) = {} /\ IsInjective(shared)
      /\ \A c \in Range(shared) : blockHash[c] # NoHash
      /\ Range(shared) \cap Range(blockTable[s]) = {}
      /\ Range(fresh) \subseteq free \ Range(shared)
  BY <1>2, EmptyTable
<1>4. t = blockTable[s] \o shared \o fresh
  OBVIOUS
<1>5. t = blockTable[s] \o fresh
  BY <1>t, ConcatEmptySeq
<1>6. fresh[1] = b
  OBVIOUS
<1> HIDE DEF t, n, shared, fresh
<1>7. /\ Len(t) = Len(blockTable[s]) + 1
      /\ \A i \in 1 .. Len(blockTable[s]) : t[i] = blockTable[s][i]
      /\ t[Len(blockTable[s]) + 1] = b
  <2> DEFINE u == blockTable[s]
  <2>1. u \in Seq(Blocks) /\ Len(u) \in Nat
    BY <1>t
  <2> HIDE DEF u
  <2>2. /\ Len(u \o fresh) = Len(u) + Len(fresh)
        /\ \A i \in 1 .. Len(u) + Len(fresh) :
             (u \o fresh)[i] = IF i <= Len(u) THEN u[i] ELSE fresh[i - Len(u)]
    BY <2>1, <1>2, ConcatProperties
  <2>3. t = u \o fresh
    BY <1>5 DEF u
  <2>4. /\ Len(t) = Len(u) + 1
        /\ \A i \in 1 .. Len(u) : t[i] = u[i]
        /\ t[Len(u) + 1] = b
    BY <2>1, <2>2, <2>3, <1>2, <1>6
  <2> QED BY <2>4 DEF u
<1>8. Computed(s) = n \div BlockSize /\ Computed(s) \in Nat
      /\ Computed(s) <= Len(blockTable[s])
  BY <1>t, ComputedFacts DEF Computed, n, IInv
<1>9. \A i \in 1 .. n \div BlockSize :
        FALSE \/ (t[i] \notin Range(fresh) /\ blockHash[t[i]] = PrefixHash(s, i))
  <2>1. ASSUME NEW i \in 1 .. Computed(s)
        PROVE  t[i] \notin Range(fresh) /\ blockHash[t[i]] = PrefixHash(s, i)
    <3>1. i \in 1 .. Len(blockTable[s]) /\ t[i] = blockTable[s][i]
      BY <1>t, <1>7, <1>8
    <3>2. t[i] \notin free
      BY <3>1, TableElement
    <3> QED BY <3>1, <3>2, <1>2, <1>t DEF IInv, CachedBlocksLabelled
  <2> QED BY <2>1, <1>8
<1>10. \A i \in 1 .. Len(t) : i > n \div BlockSize \/ FALSE =>
         \/ t[i] \in Range(fresh)
         \/ t[i] \in Range(blockTable[s]) /\ Owners(t[i]) = {s}
                                        /\ blockHash[t[i]] = NoHash
  <2>1. ASSUME NEW i \in 1 .. Len(t), i > Computed(s), t[i] \notin Range(fresh)
        PROVE  t[i] \in Range(blockTable[s]) /\ Owners(t[i]) = {s}
               /\ blockHash[t[i]] = NoHash
    <3>1. i \in 1 .. Len(blockTable[s]) /\ t[i] = blockTable[s][i]
      BY <2>1, <1>2, <1>7, <1>t
    <3>2. t[i] \in Range(blockTable[s])
      BY <3>1, <1>t, InTable
    <3> QED BY <2>1, <3>1, <3>2 DEF IInv, WritableBlocksExclusive
  <2> QED BY <2>1, <1>8
<1>11. /\ Len(t) <= NumBlocks(s) /\ n <= Len(tokens[s])
       /\ n <= Len(t) * BlockSize
  <2>1. Len(blockTable[s]) < NumBlocks(s) /\ NumBlocks(s) \in Nat
    BY <1>t, NumBlocksFacts DEF MayAppend, BMTypeOK
  <2>2. n <= Len(tokens[s]) /\ n <= Len(blockTable[s]) * BlockSize
    BY DEF n, IInv, TablesCover
  <2>3. Len(t) * BlockSize = Len(blockTable[s]) * BlockSize + BlockSize
        /\ Len(blockTable[s]) * BlockSize \in Nat
    BY <1>t, <1>7, MulStep, MulType
  <2> QED BY <2>1, <2>2, <2>3, <1>t, <1>7, BlockSizeAssumption
<1>12. Place(s, shared, fresh)
  BY <1>1 DEF fresh
<1> QED
  BY <1>t, <1>2, <1>3, <1>4, <1>9, <1>10, <1>11, <1>12, PlaceStep

\* Operations that label blocks: those up to `to' become the cached ones.
LEMMA LabelStep ==
  ASSUME IInv, NEW s \in Seqs, NEW from \in Nat, NEW to \in Nat,
         from <= to, to <= Len(blockTable[s]), to * BlockSize <= Len(tokens[s]),
         \A i \in 1 .. from : blockHash[blockTable[s][i]] = PrefixHash(s, i),
         \A i \in 1 .. Len(blockTable[s]) : i > from =>
           /\ Owners(blockTable[s][i]) = {s}
           /\ blockHash[blockTable[s][i]] = NoHash,
         Label(s, PrefixHash(s, from), from, to),
         UNCHANGED <<tokens, blockTable, free, used, refCount>>,
         NEW n \in Nat, n \div BlockSize = to,
         n <= Len(tokens[s]), n <= Len(blockTable[s]) * BlockSize,
         numCached' = [numCached EXCEPT ![s] = n],
         restorePending' = [restorePending EXCEPT ![s] = FALSE]
  PROVE  IInv'
<1>t. BMTypeOK /\ blockTable[s] \in Seq(Blocks) /\ Len(blockTable[s]) \in Nat
      /\ tokens' = tokens /\ blockTable' = blockTable
  BY LenProperties DEF IInv, BMTypeOK
<1>0. \A i \in from + 1 .. to :
        i \in 1 .. Len(blockTable[s]) /\ blockHash[blockTable[s][i]] = NoHash
  BY <1>t
<1>1. /\ blockHash' \in [Blocks -> Seq(Token)]
      /\ DOMAIN hashToBlock' \subseteq Seq(Token)
      /\ hashToBlock' \in [DOMAIN hashToBlock' -> Blocks]
      /\ IndexSound'
      /\ \A i \in from + 1 .. to :
           blockHash'[blockTable[s][i]] = PrefixHash(s, i)
      /\ \A b \in Blocks :
           (\A i \in from + 1 .. to : blockTable[s][i] # b)
             => blockHash'[b] = blockHash[b]
  BY <1>0, LabelKeepsStructure
<1>2. /\ numCached'[s] = n /\ restorePending'[s] = FALSE
      /\ \A r \in Seqs : r # s => numCached'[r] = numCached[r]
                             /\ restorePending'[r] = restorePending[r]
  BY <1>t DEF BMTypeOK
<1>3. BMTypeOK'
  BY <1>1, <1>t DEF BMTypeOK
<1>4. RefCountsExact' /\ TablesInjective'
  <2>1. \A b \in Blocks : Owners(b)' = Owners(b)
    BY <1>t DEF Owners
  <2>2. refCount' = refCount /\ free' = free /\ used' = used
    OBVIOUS
  <2>3. RefCountsExact'
    BY <2>1, <2>2 DEF IInv, RefCountsExact
  <2> QED BY <2>3, <1>t DEF IInv, TablesInjective
<1>5. TablesCover'
  <2>1. ASSUME NEW r \in Seqs
        PROVE  /\ Len(blockTable'[r]) <= NumBlocks(r)'
               /\ numCached'[r] <= Len(tokens'[r])
               /\ numCached'[r] <= Len(blockTable'[r]) * BlockSize
               /\ restorePending'[r] => numCached'[r] >= BlockSize
    <3>1. NumBlocks(r)' = NumBlocks(r)
      BY <1>t DEF NumBlocks
    <3>2. CASE r = s
      BY <3>1, <3>2, <1>2, <1>t DEF IInv, TablesCover
    <3>3. CASE r # s
      BY <3>1, <3>3, <1>2, <1>t DEF IInv, TablesCover
    <3> QED BY <3>2, <3>3
  <2> QED BY <2>1 DEF TablesCover
<1>6. \A i, j \in 1 .. Len(blockTable[s]) :
        blockTable[s][i] = blockTable[s][j] => i = j
  <2>1. IsInjective(blockTable[s]) /\ DOMAIN blockTable[s] = 1 .. Len(blockTable[s])
    BY <1>t, LenProperties DEF IInv, TablesInjective
  <2> QED BY <2>1 DEF IsInjective
\* A block that another sequence owns, or another position of s holds, keeps
\* its label.
<1>7. ASSUME NEW r \in Seqs, NEW i \in 1 .. Len(blockTable[r]),
             r # s \/ i <= from \/ i > to
      PROVE  blockHash'[blockTable[r][i]] = blockHash[blockTable[r][i]]
  <2>1. blockTable[r][i] \in Blocks /\ r \in Owners(blockTable[r][i])
    BY TableElement
  <2>2. ASSUME NEW j \in from + 1 .. to, blockTable[s][j] = blockTable[r][i]
        PROVE  FALSE
    <3>1. j \in 1 .. Len(blockTable[s]) /\ j > from /\ j <= to
      BY <1>0
    <3>2. Owners(blockTable[s][j]) = {s}
      BY <3>1
    <3>3. r = s
      BY <2>1, <2>2, <3>2
    <3>4. i \in 1 .. Len(blockTable[s]) /\ i = j
      BY <3>1, <3>3, <2>2, <1>6
    <3> QED BY <3>1, <3>3, <3>4, <1>7
  <2> QED BY <2>1, <2>2, <1>1
<1>8. ASSUME NEW r \in Seqs, ~restorePending'[r], NEW i \in 1 .. Computed(r)'
      PROVE  blockHash'[blockTable'[r][i]] = PrefixHash(r, i)'
  <2>1. PrefixHash(r, i)' = PrefixHash(r, i)
    BY <1>t DEF PrefixHash
  <2>2. CASE r = s
    <3>1. i \in 1 .. to
      BY <2>2, <1>2, <1>8 DEF Computed
    <3>2. CASE i <= from
      <4>1. i \in 1 .. from /\ i \in 1 .. Len(blockTable[s])
        BY <3>1, <3>2, <1>t
      <4>2. blockHash'[blockTable[s][i]] = blockHash[blockTable[s][i]]
        BY <3>2, <4>1, <1>7
      <4> QED BY <2>1, <2>2, <4>1, <4>2, <1>t
    <3>3. CASE i > from
      <4>1. i \in from + 1 .. to
        BY <3>1, <3>3
      <4> QED BY <2>1, <2>2, <4>1, <1>1, <1>t
    <3> QED BY <3>1, <3>2, <3>3
  <2>3. CASE r # s
    <3>1. Computed(r)' = Computed(r) /\ ~restorePending[r]
      BY <2>3, <1>2, <1>8 DEF Computed
    <3>2. i \in 1 .. Computed(r) /\ i \in 1 .. Len(blockTable[r])
      BY <3>1, <1>8, <1>t, ComputedFacts DEF IInv
    <3>3. blockHash[blockTable[r][i]] = PrefixHash(r, i)
      BY <3>1, <3>2 DEF IInv, CachedBlocksLabelled
    <3> QED BY <2>1, <2>3, <3>2, <3>3, <1>7, <1>t
  <2> QED BY <2>2, <2>3
<1>9. CachedBlocksLabelled'
  BY <1>8 DEF CachedBlocksLabelled
<1>10. ASSUME NEW r \in Seqs, NEW i \in 1 .. Len(blockTable'[r]),
              i > Computed(r)' \/ restorePending'[r]
       PROVE  /\ OwnersNext(blockTable'[r][i]) = {r}
              /\ blockHash'[blockTable'[r][i]] = NoHash
  <2>1. i \in 1 .. Len(blockTable[r])
        /\ OwnersNext(blockTable'[r][i]) = Owners(blockTable[r][i])
    BY <1>t, <1>10 DEF OwnersNext, Owners
  <2>2. CASE r = s
    <3>1. i > to /\ i > from
      BY <2>1, <2>2, <1>2, <1>10 DEF Computed
    <3>2. blockHash'[blockTable[s][i]] = blockHash[blockTable[s][i]]
      BY <2>1, <2>2, <3>1, <1>7
    <3>3. Owners(blockTable[s][i]) = {s} /\ blockHash[blockTable[s][i]] = NoHash
      BY <2>1, <2>2, <3>1
    <3> QED BY <2>1, <2>2, <3>2, <3>3, <1>t
  <2>3. CASE r # s
    <3>1. i > Computed(r) \/ restorePending[r]
      BY <2>3, <1>2, <1>10 DEF Computed
    <3>2. Owners(blockTable[r][i]) = {r} /\ blockHash[blockTable[r][i]] = NoHash
      BY <2>1, <3>1 DEF IInv, WritableBlocksExclusive
    <3>3. blockHash'[blockTable[r][i]] = blockHash[blockTable[r][i]]
      BY <2>1, <2>3, <1>7
    <3> QED BY <2>1, <3>2, <3>3, <1>t
  <2> QED BY <2>2, <2>3
<1>11. WritableBlocksExclusive'
  BY <1>10 DEF WritableBlocksExclusive, OwnersNext, Owners
<1> QED BY <1>1, <1>3, <1>4, <1>5, <1>9, <1>11 DEF IInv

\* confirm_cpu_restore registers the restored blocks.
LEMMA ConfirmRestoreStep ==
  ASSUME IInv, NEW s \in Seqs, ConfirmRestore(s)
  PROVE  IInv'
<1> DEFINE n == numCached[s]
<1>t. /\ BMTypeOK /\ TablesCover /\ restorePending[s]
      /\ tokens[s] \in Seq(Token)
      /\ n \in Nat
      /\ numCached' = [numCached EXCEPT ![s] = n]
      /\ restorePending' = [restorePending EXCEPT ![s] = FALSE]
      /\ UNCHANGED <<tokens, blockTable, free, used, refCount>>
      /\ Label(s, NoHash, 0, Computed(s))
  BY DEF IInv, BMTypeOK, ConfirmRestore
<1>1. /\ Computed(s) \in Nat /\ Computed(s) <= Len(blockTable[s])
      /\ Computed(s) * BlockSize <= Len(tokens[s])
  BY <1>t, ComputedFacts
<1>2. PrefixHash(s, 0) = NoHash
  BY <1>t, BlockSizeAssumption, SubSeqEmpty DEF PrefixHash, NoHash
<1>3. n <= Len(tokens[s]) /\ n <= Len(blockTable[s]) * BlockSize
      /\ n \div BlockSize = Computed(s)
  BY <1>t DEF TablesCover, Computed
<1>4. \A i \in 1 .. Len(blockTable[s]) : i > 0 =>
        Owners(blockTable[s][i]) = {s} /\ blockHash[blockTable[s][i]] = NoHash
  BY <1>t DEF IInv, WritableBlocksExclusive
<1>5. Label(s, PrefixHash(s, 0), 0, Computed(s))
  BY <1>t, <1>2
<1>6. \A i \in 1 .. 0 : blockHash[blockTable[s][i]] = PrefixHash(s, i)
  OBVIOUS
<1>7. 0 \in Nat /\ 0 <= Computed(s)
  BY <1>1
<1> HIDE DEF n
<1> QED BY <1>t, <1>1, <1>3, <1>4, <1>5, <1>6, <1>7, LabelStep

\* hash_blocks after n tokens, and the advance of num_cached_tokens.
LEMMA HashBlocksStep ==
  ASSUME IInv, NEW s \in Seqs, NEW m \in 1 .. Len(tokens[s]), HashBlocks(s, m)
  PROVE  IInv'
<1> DEFINE n == numCached[s] + m
           to == n \div BlockSize
           from == Computed(s)
<1>t. /\ BMTypeOK /\ TablesCover /\ ~restorePending[s]
      /\ tokens \in [Seqs -> Seq(Token)] /\ Len(tokens[s]) \in Nat
      /\ numCached[s] \in Nat
      /\ m \in Nat
      /\ Len(blockTable[s]) = NumBlocks(s) /\ n <= Len(tokens[s])
      /\ numCached' = [numCached EXCEPT ![s] = n]
      /\ restorePending' = [restorePending EXCEPT ![s] = FALSE]
      /\ UNCHANGED <<tokens, blockTable, free, used, refCount>>
      /\ Label(s, ChainRoot(s), from, to)
  BY LenProperties DEF IInv, BMTypeOK, HashBlocks
<1>1. /\ from \in Nat /\ from <= Len(blockTable[s])
      /\ Len(blockTable[s]) \in Nat
      /\ from * BlockSize <= Len(tokens[s])
  BY <1>t, ComputedFacts
<1>2. n \in Nat /\ n <= Len(blockTable[s]) * BlockSize
  <2>1. Len(tokens[s]) <= NumBlocks(s) * BlockSize /\ NumBlocks(s) \in Nat
    BY <1>t, NumBlocksFacts
  <2>2. NumBlocks(s) * BlockSize \in Nat
    BY <2>1, MulType
  <2>3. n \in Nat /\ n <= NumBlocks(s) * BlockSize
    BY <2>1, <2>2, <1>t
  <2> QED BY <2>3, <1>t
<1>3. /\ to \in Nat /\ from <= to /\ to <= Len(blockTable[s])
      /\ to * BlockSize <= Len(tokens[s])
  <2>1. to \in Nat /\ to * BlockSize <= n
    BY <1>2, DivBounds
  <2>2. from <= to
    BY <1>t, <1>2, DivMono DEF Computed
  <2>3. to <= Len(blockTable[s])
    <3>1. Len(blockTable[s]) * BlockSize \in Nat
          /\ (Len(blockTable[s]) * BlockSize) \div BlockSize = Len(blockTable[s])
      BY <1>1, MulType, DivMul
    <3> QED BY <3>1, <1>2, DivMono
  <2>4. to * BlockSize \in Nat
    BY <2>1, MulType
  <2> QED BY <2>1, <2>2, <2>3, <2>4, <1>t
<1>4. \A i \in 1 .. from : blockHash[blockTable[s][i]] = PrefixHash(s, i)
  BY <1>t DEF IInv, CachedBlocksLabelled
<1>5. \A i \in 1 .. Len(blockTable[s]) : i > from =>
        Owners(blockTable[s][i]) = {s} /\ blockHash[blockTable[s][i]] = NoHash
  BY DEF IInv, WritableBlocksExclusive
<1>6. ChainRoot(s) = PrefixHash(s, from)
  <2>1. CASE from > 0
    BY <2>1, <1>1, <1>4 DEF ChainRoot
  <2>2. CASE from = 0
    <3>1. PrefixHash(s, 0) = NoHash
      BY <1>t, BlockSizeAssumption, SubSeqEmpty DEF PrefixHash, NoHash
    <3> QED BY <2>2, <3>1 DEF ChainRoot
  <2> QED BY <2>1, <2>2, <1>1
<1>7. Label(s, PrefixHash(s, from), from, to)
  BY <1>t, <1>6
<1>8. n \div BlockSize = to
  OBVIOUS
<1> HIDE DEF n, to, from
<1> QED BY <1>t, <1>1, <1>2, <1>3, <1>4, <1>5, <1>7, <1>8, LabelStep

\* Taking the table of s away (preempt, the end of a request, rollback).
LEMMA DeallocateStep ==
  ASSUME IInv, NEW s \in Seqs, Deallocate(s),
         restorePending' = [restorePending EXCEPT ![s] = FALSE]
  PROVE  IInv'
<1>t. BMTypeOK /\ tokens' = tokens /\ blockHash' = blockHash
      /\ numCached' = [numCached EXCEPT ![s] = 0]
      /\ \A r \in Seqs : Len(tokens[r]) \in Nat
  BY LenProperties DEF IInv, BMTypeOK, Deallocate, CachedAfterRelease
<1>1. /\ Structure'
      /\ blockTable'[s] = <<>>
      /\ \A r \in Seqs : r # s => blockTable'[r] = blockTable[r]
      /\ \A b \in Blocks : OwnersNext(b) = Owners(b) \ {s}
  BY DeallocateKeepsStructure
<1>2. /\ numCached'[s] = 0 /\ restorePending'[s] = FALSE
      /\ \A r \in Seqs : r # s => numCached'[r] = numCached[r]
                             /\ restorePending'[r] = restorePending[r]
  BY <1>t DEF BMTypeOK
<1>3. BMTypeOK'
  BY <1>1, <1>t DEF BMTypeOK, Structure
<1>4. Len(blockTable'[s]) = 0 /\ Computed(s)' = 0
  BY <1>1, <1>2, BlockSizeAssumption DEF Computed
<1>5. TablesCover'
  <2>1. ASSUME NEW r \in Seqs
        PROVE  /\ Len(blockTable'[r]) <= NumBlocks(r)'
               /\ numCached'[r] <= Len(tokens'[r])
               /\ numCached'[r] <= Len(blockTable'[r]) * BlockSize
               /\ restorePending'[r] => numCached'[r] >= BlockSize
    <3>1. NumBlocks(r)' = NumBlocks(r)
      BY <1>t DEF NumBlocks
    <3>2. CASE r = s
      <4>1. NumBlocks(s) \in Nat /\ 0 * BlockSize = 0
        BY <1>t, NumBlocksFacts, BlockSizeAssumption DEF BMTypeOK
      <4> QED BY <3>1, <3>2, <4>1, <1>2, <1>4, <1>t
    <3>3. CASE r # s
      BY <3>1, <3>3, <1>1, <1>2, <1>t DEF IInv, TablesCover
    <3> QED BY <3>2, <3>3
  <2> QED BY <2>1 DEF TablesCover
<1>6. ASSUME NEW r \in Seqs, ~restorePending'[r], NEW i \in 1 .. Computed(r)'
      PROVE  blockHash'[blockTable'[r][i]] = PrefixHash(r, i)'
  <2>1. r # s
    BY <1>4, <1>6
  <2>2. /\ Computed(r)' = Computed(r) /\ ~restorePending[r]
        /\ PrefixHash(r, i)' = PrefixHash(r, i)
    BY <2>1, <1>2, <1>6, <1>t DEF Computed, PrefixHash
  <2> QED BY <2>1, <2>2, <1>1, <1>6, <1>t DEF IInv, CachedBlocksLabelled
<1>7. CachedBlocksLabelled'
  BY <1>6 DEF CachedBlocksLabelled
<1>8. ASSUME NEW r \in Seqs, NEW i \in 1 .. Len(blockTable'[r]),
             i > Computed(r)' \/ restorePending'[r]
      PROVE  /\ OwnersNext(blockTable'[r][i]) = {r}
             /\ blockHash'[blockTable'[r][i]] = NoHash
  <2>1. r # s
    BY <1>4, <1>8
  <2>2. /\ blockTable'[r] = blockTable[r]
        /\ i > Computed(r) \/ restorePending[r]
    BY <2>1, <1>1, <1>2, <1>8 DEF Computed
  <2>3. Owners(blockTable[r][i]) = {r} /\ blockHash[blockTable[r][i]] = NoHash
    BY <2>2, <1>8 DEF IInv, WritableBlocksExclusive
  <2>4. blockTable[r][i] \in Blocks
    BY <2>2, <1>8, TableElement
  <2>5. {r} \ {s} = {r}
    BY <2>1
  <2>6. OwnersNext(blockTable[r][i]) = {r}
    BY <2>3, <2>4, <2>5, <1>1
  <2> QED BY <2>2, <2>3, <2>6, <1>t
<1>9. WritableBlocksExclusive'
  BY <1>8 DEF WritableBlocksExclusive, OwnersNext, Owners
<1> QED BY <1>1, <1>3, <1>5, <1>7, <1>9 DEF IInv, Structure

\* Operations that change no table, no owner and no label.
LEMMA TokensStep ==
  ASSUME IInv, NEW s \in Seqs, NEW u \in Seq(Token),
         tokens' = [tokens EXCEPT ![s] = u],
         Len(u) >= Len(tokens[s]),
         \A i \in 1 .. Computed(s) :
           SubSeq(u, 1, i * BlockSize) = PrefixHash(s, i),
         UNCHANGED <<numCached, restorePending, allocVars>>
  PROVE  IInv'
<1>t. /\ BMTypeOK
      /\ numCached' = numCached /\ restorePending' = restorePending
      /\ blockTable' = blockTable /\ free' = free /\ used' = used
      /\ refCount' = refCount /\ blockHash' = blockHash
      /\ hashToBlock' = hashToBlock
  BY DEF IInv, allocVars
<1>1. /\ tokens'[s] = u /\ \A r \in Seqs : r # s => tokens'[r] = tokens[r]
      /\ tokens' \in [Seqs -> Seq(Token)]
  BY <1>t DEF BMTypeOK
<1>2. BMTypeOK'
  BY <1>t, <1>1 DEF BMTypeOK
<1>3. /\ RefCountsExact' /\ TablesInjective' /\ IndexSound'
      /\ \A b \in Blocks : Owners(b)' = Owners(b)
  <2>1. \A b \in Blocks : Owners(b)' = Owners(b)
    BY <1>t DEF Owners
  <2>2. RefCountsExact'
    BY <2>1, <1>t DEF IInv, RefCountsExact
  <2> QED BY <2>1, <2>2, <1>t DEF IInv, TablesInjective, IndexSound
<1>4. TablesCover'
  <2>1. ASSUME NEW r \in Seqs
        PROVE  /\ Len(blockTable'[r]) <= NumBlocks(r)'
               /\ numCached'[r] <= Len(tokens'[r])
               /\ numCached'[r] <= Len(blockTable'[r]) * BlockSize
               /\ restorePending'[r] => numCached'[r] >= BlockSize
    <3>1. /\ Len(blockTable[r]) <= NumBlocks(r)
          /\ numCached[r] <= Len(tokens[r])
          /\ numCached[r] <= Len(blockTable[r]) * BlockSize
          /\ restorePending[r] => numCached[r] >= BlockSize
      BY DEF IInv, TablesCover
    <3>2. CASE r = s
      <4>1. /\ Len(u) \in Nat /\ Len(tokens[s]) \in Nat
            /\ Len(blockTable[s]) \in Nat /\ numCached[s] \in Nat
        BY <1>t, LenProperties DEF BMTypeOK
      <4>2. NumBlocks(s) <= NumBlocks(s)'
        <5> DEFINE a == Len(tokens[s]) + BlockSize - 1
                   c == Len(u) + BlockSize - 1
        <5>1. a \in Nat /\ c \in Nat /\ a <= c
          BY <4>1, BlockSizeAssumption
        <5>2. NumBlocks(s) = a \div BlockSize /\ NumBlocks(s)' = c \div BlockSize
          BY <1>1 DEF NumBlocks
        <5> HIDE DEF a, c
        <5> QED BY <5>1, <5>2, DivMono
      <4>3. NumBlocks(s) \in Nat /\ NumBlocks(s)' \in Nat
        <5>1. NumBlocks(s) \in Nat
          BY <1>t, NumBlocksFacts DEF BMTypeOK
        <5>2. (Len(u) + BlockSize - 1) \div BlockSize \in Nat
          BY <4>1, DivBounds, BlockSizeAssumption
        <5> QED BY <5>1, <5>2, <1>1 DEF NumBlocks
      <4> QED BY <3>1, <3>2, <4>1, <4>2, <4>3, <1>1, <1>t
    <3>3. CASE r # s
      BY <3>1, <3>3, <1>1, <1>t DEF NumBlocks
    <3> QED BY <3>2, <3>3
  <2> QED BY <2>1 DEF TablesCover
<1>5. ASSUME NEW r \in Seqs, ~restorePending'[r], NEW i \in 1 .. Computed(r)'
      PROVE  blockHash'[blockTable'[r][i]] = PrefixHash(r, i)'
  <2>1. /\ Computed(r)' = Computed(r) /\ ~restorePending[r]
        /\ blockHash[blockTable[r][i]] = PrefixHash(r, i)
    BY <1>5, <1>t DEF Computed, IInv, CachedBlocksLabelled
  <2>2. PrefixHash(r, i)' = PrefixHash(r, i)
    <3>1. CASE r = s
      BY <3>1, <2>1, <1>1, <1>5 DEF PrefixHash
    <3>2. CASE r # s
      BY <3>2, <1>1 DEF PrefixHash
    <3> QED BY <3>1, <3>2
  <2> QED BY <2>1, <2>2, <1>t
<1>6. CachedBlocksLabelled'
  BY <1>5 DEF CachedBlocksLabelled
<1>7. WritableBlocksExclusive'
  BY <1>t DEF IInv, WritableBlocksExclusive, Computed, Owners
<1> QED BY <1>2, <1>3, <1>4, <1>6, <1>7 DEF IInv

\* A new request.
LEMMA NewSequenceStep ==
  ASSUME IInv, NEW s \in Seqs, NEW prompt \in Prompts, NewSequence(s, prompt)
  PROVE  IInv'
<1>1. prompt \in Seq(Token) /\ Len(prompt) \in Nat
  BY FinitenessAssumption, LenProperties
<1>2. BMTypeOK /\ TablesCover /\ tokens[s] = <<>> /\ Len(tokens[s]) = 0
  BY DEF IInv, NewSequence
<1>3. Computed(s) = 0
  <2>1. numCached[s] = 0
    BY <1>2 DEF BMTypeOK, TablesCover
  <2> QED BY <2>1, BlockSizeAssumption DEF Computed
<1>4. \A i \in 1 .. Computed(s) :
        SubSeq(prompt, 1, i * BlockSize) = PrefixHash(s, i)
  BY <1>3
<1>5. /\ tokens' = [tokens EXCEPT ![s] = prompt]
      /\ UNCHANGED <<numCached, restorePending, allocVars>>
  BY DEF NewSequence
<1>6. Len(prompt) >= Len(tokens[s])
  BY <1>1, <1>2
<1> QED BY <1>1, <1>4, <1>5, <1>6, TokensStep

\* append_token.
LEMMA AppendTokenStep ==
  ASSUME IInv, NEW s \in Seqs, NEW t \in Token, AppendToken(s, t)
  PROVE  IInv'
<1> DEFINE u == Append(tokens[s], t)
<1>1. BMTypeOK /\ TablesCover /\ tokens[s] \in Seq(Token) /\ Len(tokens[s]) \in Nat
  BY LenProperties DEF IInv, BMTypeOK
<1>2. /\ u \in Seq(Token) /\ Len(u) = Len(tokens[s]) + 1
      /\ \A j \in 1 .. Len(tokens[s]) : u[j] = tokens[s][j]
  BY <1>1, AppendProperties
<1>3. /\ tokens' = [tokens EXCEPT ![s] = u]
      /\ UNCHANGED <<numCached, restorePending, allocVars>>
  BY DEF AppendToken
<1> HIDE DEF u
<1>4. ASSUME NEW i \in 1 .. Computed(s)
      PROVE  SubSeq(u, 1, i * BlockSize) = PrefixHash(s, i)
  <2> DEFINE n == i * BlockSize
  <2>1. Computed(s) \in Nat /\ Computed(s) * BlockSize <= Len(tokens[s])
    BY <1>1, ComputedFacts
  <2>2. n \in Nat /\ n <= Len(tokens[s])
    <3>1. i \in Nat /\ (i = Computed(s) \/ i < Computed(s))
      BY <2>1
    <3>2. i * BlockSize \in Nat /\ Computed(s) * BlockSize \in Nat
      BY <2>1, <3>1, MulType
    <3>3. CASE i = Computed(s)
      BY <2>1, <3>2, <3>3
    <3>4. CASE i < Computed(s)
      BY <2>1, <3>1, <3>2, <3>4, <1>1, MulMono, BlockSizeAssumption
    <3> QED BY <3>1, <3>3, <3>4
  <2> HIDE DEF n
  <2>3. /\ \A j \in 1 .. n : u[j] \in Token /\ tokens[s][j] \in Token
        /\ \A j \in 1 .. n : u[j] = tokens[s][j]
    BY <2>2, <1>1, <1>2, ElementOfSeq
  <2>4. /\ SubSeq(u, 1, n) \in Seq(Token) /\ SubSeq(tokens[s], 1, n) \in Seq(Token)
        /\ Len(SubSeq(u, 1, n)) = n /\ Len(SubSeq(tokens[s], 1, n)) = n
        /\ \A j \in 1 .. n : SubSeq(u, 1, n)[j] = u[j]
        /\ \A j \in 1 .. n : SubSeq(tokens[s], 1, n)[j] = tokens[s][j]
    BY <2>2, <2>3, SubSeqProperties
  <2>5. SubSeq(u, 1, n) = SubSeq(tokens[s], 1, n)
    BY <2>3, <2>4, SeqEqual
  <2> QED BY <2>5 DEF n, PrefixHash
<1>5. Len(u) >= Len(tokens[s])
  BY <1>1, <1>2
<1> QED BY <1>2, <1>3, <1>4, <1>5, TokensStep

\* clear_gpu_prefix_cache: only blocks nobody owns lose their labels.
LEMMA EvictStep ==
  ASSUME IInv, EvictFreeCachedBlocks
  PROVE  IInv'
<1>t. /\ BMTypeOK
      /\ tokens' = tokens /\ numCached' = numCached
      /\ blockTable' = blockTable /\ restorePending' = restorePending
      /\ free' = free /\ used' = used /\ refCount' = refCount
  BY DEF IInv, EvictFreeCachedBlocks
<1>1. /\ \A b \in Blocks : blockHash'[b] = IF b \in free THEN NoHash ELSE blockHash[b]
      /\ blockHash' \in [Blocks -> Seq(Token)]
  BY <1>t, EmptySeq DEF EvictFreeCachedBlocks, CleanLabels, NoHash, BMTypeOK
<1>2. /\ DOMAIN hashToBlock' \subseteq DOMAIN hashToBlock
      /\ \A h \in DOMAIN hashToBlock' :
           /\ hashToBlock'[h] = hashToBlock[h]
           /\ ~(hashToBlock[h] \in free /\ blockHash[hashToBlock[h]] = h)
      /\ hashToBlock' = [h \in DOMAIN hashToBlock' |-> hashToBlock'[h]]
  BY DEF EvictFreeCachedBlocks, IndexWithout, Restrict
<1>3. BMTypeOK'
  BY <1>t, <1>1, <1>2 DEF BMTypeOK
<1>4. IndexSound'
  <2>1. NoHash \notin DOMAIN hashToBlock'
    BY <1>2 DEF IInv, IndexSound
  <2>2. ASSUME NEW h \in DOMAIN hashToBlock'
        PROVE  blockHash'[hashToBlock'[h]] = h
    <3>1. h \in DOMAIN hashToBlock /\ blockHash[hashToBlock[h]] = h
      BY <1>2 DEF IInv, IndexSound
    <3>2. hashToBlock'[h] = hashToBlock[h] /\ hashToBlock[h] \notin free
      BY <1>2, <3>1
    <3>3. hashToBlock[h] \in Blocks
      BY <3>1, <1>t DEF BMTypeOK
    <3> QED BY <3>1, <3>2, <3>3, <1>1
  <2> QED BY <2>1, <2>2 DEF IndexSound
<1>5. RefCountsExact' /\ TablesInjective'
  <2>1. \A b \in Blocks : Owners(b)' = Owners(b)
    BY <1>t DEF Owners
  <2>2. RefCountsExact'
    BY <2>1, <1>t DEF IInv, RefCountsExact
  <2> QED BY <2>2, <1>t DEF IInv, TablesInjective
<1>6. TablesCover'
  BY <1>t DEF IInv, TablesCover, NumBlocks
<1>7. ASSUME NEW r \in Seqs, NEW i \in 1 .. Len(blockTable[r])
      PROVE  blockHash'[blockTable[r][i]] = blockHash[blockTable[r][i]]
  BY TableElement, <1>1
<1>8. CachedBlocksLabelled'
  <2>1. ASSUME NEW r \in Seqs, ~restorePending'[r], NEW i \in 1 .. Computed(r)'
        PROVE  blockHash'[blockTable'[r][i]] = PrefixHash(r, i)'
    <3>1. /\ Computed(r)' = Computed(r) /\ PrefixHash(r, i)' = PrefixHash(r, i)
          /\ ~restorePending[r]
      BY <2>1, <1>t DEF Computed, PrefixHash
    <3>2. i \in 1 .. Len(blockTable[r]) /\ i \in 1 .. Computed(r)
      BY <2>1, <3>1, <1>t, ComputedFacts DEF IInv
    <3> QED BY <3>1, <3>2, <1>7, <1>t DEF IInv, CachedBlocksLabelled
  <2> QED BY <2>1 DEF CachedBlocksLabelled
<1>9. WritableBlocksExclusive'
  <2>1. ASSUME NEW r \in Seqs, NEW i \in 1 .. Len(blockTable'[r]),
               i > Computed(r)' \/ restorePending'[r]
        PROVE  /\ OwnersNext(blockTable'[r][i]) = {r}
               /\ blockHash'[blockTable'[r][i]] = NoHash
    <3>1. /\ i \in 1 .. Len(blockTable[r])
          /\ i > Computed(r) \/ restorePending[r]
          /\ OwnersNext(blockTable'[r][i]) = Owners(blockTable[r][i])
      BY <2>1, <1>t DEF Computed, OwnersNext, Owners
    <3>2. Owners(blockTable[r][i]) = {r} /\ blockHash[blockTable[r][i]] = NoHash
      BY <3>1 DEF IInv, WritableBlocksExclusive
    <3> QED BY <3>1, <3>2, <1>7, <1>t
  <2> QED BY <2>1 DEF WritableBlocksExclusive, OwnersNext, Owners
<1> QED BY <1>3, <1>4, <1>5, <1>6, <1>8, <1>9 DEF IInv

-----------------------------------------------------------------------------
(* Admission *)

\* Every free block a hit revives belongs to a hit on an unused block, and
\* those can_allocate has counted as new blocks.
LEMMA AdmissionFollows == IInv => AdmissionSound
<1> SUFFICES ASSUME IInv, NEW s \in Seqs, NEW k \in 0 .. NumBlocks(s) - 1,
                    CanAllocate(s, k)
             PROVE  Cardinality(free \ HitBlocks(s, k)) >= NumBlocks(s) - k
  BY DEF AdmissionSound
<1> DEFINE U == {i \in 1 .. k : HitBlock(s, i) \in used}
           V == (1 .. k) \ U
           F == free \cap HitBlocks(s, k)
<1>1. BMTypeOK /\ tokens \in [Seqs -> Seq(Token)] /\ NumBlocks(s) \in Nat /\ k \in Nat
  BY NumBlocksFacts DEF IInv, BMTypeOK
<1>2. /\ IsFiniteSet(free) /\ Cardinality(free) \in Nat
      /\ IsFiniteSet(free \ HitBlocks(s, k))
      /\ Cardinality(free \ HitBlocks(s, k)) = Cardinality(free) - Cardinality(F)
      /\ IsFiniteSet(F) /\ Cardinality(F) \in Nat
  <2>1. IsFiniteSet(free)
    BY <1>1, FinitenessAssumption, FS_Subset DEF BMTypeOK
  <2> QED BY <2>1, FS_CardinalityType, FS_Difference, FS_Intersection
<1>3. /\ IsFiniteSet(1 .. k) /\ Cardinality(1 .. k) = k
      /\ IsFiniteSet(U) /\ Cardinality(U) \in Nat
      /\ IsFiniteSet(V) /\ Cardinality(V) \in Nat
      /\ Cardinality(V) = k - Cardinality(U)
  <2>1. IsFiniteSet(1 .. k) /\ Cardinality(1 .. k) = k
    BY <1>1, FS_Interval
  <2>2. U \in SUBSET (1 .. k) /\ (1 .. k) \cap U = U
    OBVIOUS
  <2>3. IsFiniteSet(U)
    BY <2>1, <2>2, FS_Subset
  <2> HIDE DEF U
  <2>4. IsFiniteSet(V) /\ Cardinality(V) = Cardinality(1 .. k) - Cardinality(U)
    BY <2>1, <2>2, FS_Difference
  <2>5. Cardinality(U) \in Nat /\ Cardinality(V) \in Nat
    BY <2>3, <2>4, FS_CardinalityType
  <2> QED BY <2>1, <2>3, <2>4, <2>5
<1>4. Cardinality(F) <= Cardinality(V)
  <2> DEFINE f == [b \in F |-> CHOOSE i \in V : HitBlock(s, i) = b]
  <2>1. \A b \in F : \E i \in V : HitBlock(s, i) = b
    BY DEF HitBlocks, IInv, RefCountsExact
  <2>2. \A b \in F : f[b] \in V /\ HitBlock(s, f[b]) = b
    BY <2>1
  <2> HIDE DEF F, V
  <2>3. f \in Injection(F, V)
    <3>1. f \in [F -> V]
      BY <2>2
    <3>2. \A b, c \in F : f[b] = f[c] => b = c
      BY <2>2
    <3> QED BY <3>1, <3>2 DEF Injection, IsInjective
  <2> HIDE DEF f
  <2>4. IsFiniteSet(V)
    BY <1>3
  <2> QED BY <2>3, <2>4, FS_Injection
<1>5. Cardinality(free) >= NumBlocks(s) - Cardinality(U)
  BY DEF CanAllocate, NewBlocksNeeded
<1> HIDE DEF U, V, F
<1> QED BY <1>1, <1>2, <1>3, <1>4, <1>5

-----------------------------------------------------------------------------
(* The theorems *)

\* The empty pool satisfies the inductive invariant.
LEMMA InitInv == BMInit => IInv
<1> SUFFICES ASSUME BMInit PROVE IInv
  OBVIOUS
<1>t. /\ \A s \in Seqs : /\ tokens[s] = <<>> /\ numCached[s] = 0
                         /\ blockTable[s] = <<>> /\ restorePending[s] = FALSE
      /\ free = Blocks /\ used = {}
      /\ \A b \in Blocks : refCount[b] = 0 /\ blockHash[b] = NoHash
      /\ DOMAIN hashToBlock = {}
  BY DEF BMInit
<1>1. BMTypeOK
  BY EmptySeq DEF BMInit, BMTypeOK, NoHash
<1>2. \A b : Owners(b) = {}
  BY <1>t, EmptyTable DEF Owners
<1>3. RefCountsExact
  BY <1>t, <1>2, FS_EmptySet DEF RefCountsExact
<1>4. TablesInjective /\ IndexSound
  BY <1>t, EmptyTable DEF TablesInjective, IndexSound
<1>5. \A s \in Seqs : Len(blockTable[s]) = 0 /\ Len(tokens[s]) = 0
  BY <1>t, EmptyTable
<1>6. \A s \in Seqs : Computed(s) = 0
  BY <1>t, BlockSizeAssumption DEF Computed
<1>7. TablesCover
  <2>1. \A s \in Seqs : NumBlocks(s) = 0 /\ 0 * BlockSize = 0
    BY <1>t, <1>1, NumBlocksFacts, BlockSizeAssumption DEF BMTypeOK
  <2> QED BY <2>1, <1>t, <1>5 DEF TablesCover
<1>8. CachedBlocksLabelled
  BY <1>6 DEF CachedBlocksLabelled
<1>9. WritableBlocksExclusive
  BY <1>5 DEF WritableBlocksExclusive
<1> QED BY <1>1, <1>3, <1>4, <1>7, <1>8, <1>9 DEF IInv

\* Every operation of the allocator preserves the inductive invariant.
LEMMA NextInv == IInv /\ [BMNext]_bmVars => IInv'
<1> SUFFICES ASSUME IInv, [BMNext]_bmVars PROVE IInv'
  OBVIOUS
<1>1. CASE \E s \in Seqs : \E p \in Prompts : NewSequence(s, p)
  BY <1>1, NewSequenceStep
<1>2. CASE \E s \in Seqs : \E k \in 0 .. NumBlocks(s) - 1 : Allocate(s, k)
  BY <1>2, AllocateStep
<1>3. CASE \E s \in Seqs : \E k \in 1 .. NumBlocks(s) - 1 : AllocateForCpuRestore(s, k)
  BY <1>3, AllocateForCpuRestoreStep
<1>4. CASE \E s \in Seqs : ConfirmRestore(s)
  BY <1>4, ConfirmRestoreStep
<1>5. CASE \E s \in Seqs : RollbackRestore(s)
  <2>1. PICK s \in Seqs : RollbackRestore(s)
    BY <1>5
  <2>2. Deallocate(s) /\ restorePending' = [restorePending EXCEPT ![s] = FALSE]
    BY <2>1 DEF RollbackRestore
  <2> QED BY <2>2, DeallocateStep
<1>6. CASE \E s \in Seqs : Release(s)
  <2>1. PICK s \in Seqs : Release(s)
    BY <1>6
  <2>2. Deallocate(s) /\ ~restorePending[s] /\ restorePending' = restorePending
    BY <2>1 DEF Release
  <2>3. restorePending' = [restorePending EXCEPT ![s] = FALSE]
    BY <2>2 DEF IInv, BMTypeOK
  <2> QED BY <2>2, <2>3, DeallocateStep
<1>7. CASE \E s \in Seqs : MayAppend(s)
  BY <1>7, MayAppendStep
<1>8. CASE \E s \in Seqs : \E n \in 1 .. Len(tokens[s]) : HashBlocks(s, n)
  BY <1>8, HashBlocksStep
<1>9. CASE \E s \in Seqs : \E t \in Token : AppendToken(s, t)
  BY <1>9, AppendTokenStep
<1>10. CASE EvictFreeCachedBlocks
  BY <1>10, EvictStep
<1>11. CASE UNCHANGED bmVars
  <2>0. /\ tokens' = tokens /\ numCached' = numCached
        /\ blockTable' = blockTable /\ restorePending' = restorePending
        /\ free' = free /\ used' = used /\ refCount' = refCount
        /\ blockHash' = blockHash /\ hashToBlock' = hashToBlock
    BY <1>11 DEF bmVars
  <2>1. BMTypeOK' /\ IndexSound' /\ TablesInjective'
    BY <2>0 DEF IInv, BMTypeOK, IndexSound, TablesInjective
  <2>2. \A b : Owners(b)' = Owners(b)
    BY <2>0 DEF Owners
  <2>3. RefCountsExact'
    BY <2>0, <2>2 DEF IInv, RefCountsExact
  <2>4. TablesCover'
    BY <2>0 DEF IInv, TablesCover, NumBlocks
  <2>5. CachedBlocksLabelled'
    BY <2>0 DEF IInv, CachedBlocksLabelled, Computed, PrefixHash
  <2>6. WritableBlocksExclusive'
    BY <2>0 DEF IInv, WritableBlocksExclusive, Computed, Owners
  <2> QED BY <2>1, <2>3, <2>4, <2>5, <2>6 DEF IInv
<1> QED
  BY <1>1, <1>2, <1>3, <1>4, <1>5, <1>6, <1>7, <1>8, <1>9, <1>10, <1>11 DEF BMNext

\* The inductive invariant holds in every reachable state of the allocator.
THEOREM Invariance == BMSpec => []IInv
BY InitInv, NextInv, PTL DEF BMSpec

\* The state of the allocator keeps its types: no count goes negative, no
\* table names a block outside the pool (block_manager.py as a whole).
THEOREM TypeCorrect == BMSpec => []BMTypeOK
<1>1. IInv => BMTypeOK
  BY DEF IInv
<1> QED BY <1>1, Invariance, PTL

\* _allocate_block, _deallocate_block and the hit path of allocate keep every
\* block either free or used, its count equal to the tables that hold it.
THEOREM RefCountsCorrect == BMSpec => []RefCountsExact
<1>1. IInv => RefCountsExact
  BY DEF IInv
<1> QED BY <1>1, Invariance, PTL

\* The prefix index never serves a block whose content was replaced.
THEOREM IndexCorrect == BMSpec => []IndexSound
<1>1. IInv => IndexSound
  BY DEF IInv
<1> QED BY <1>1, Invariance, PTL

\* The blocks of a sequence that count as cached stand for its own prefix.
THEOREM CachedCorrect == BMSpec => []CachedBlocksLabelled
<1>1. IInv => CachedBlocksLabelled
  BY DEF IInv
<1> QED BY <1>1, Invariance, PTL

\* A block that a sequence may still write is its own and cannot be shared.
THEOREM WritesExclusiveCorrect == BMSpec => []WritableBlocksExclusive
<1>1. IInv => WritableBlocksExclusive
  BY DEF IInv
<1> QED BY <1>1, Invariance, PTL

\* can_allocate admits a sequence only if allocate finds the blocks: the pops
\* of _allocate_block never meet an empty free list.
THEOREM AdmissionCorrect == BMSpec => []AdmissionSound
BY AdmissionFollows, Invariance, PTL

\* All of it together: what the runs of the scheduler check of its allocator
\* holds for every number of blocks and sequences and every order of calls.
THEOREM AllocatorCorrect == BMSpec => []AllocatorSound
<1>1. IInv => /\ RefCountsExact /\ IndexSound
              /\ CachedBlocksLabelled /\ WritableBlocksExclusive
  BY DEF IInv
<1>2. IInv => TablesSound
  BY DEF IInv, TablesSound
<1>3. IInv => AllocatorSound
  BY <1>1, <1>2, AdmissionFollows DEF AllocatorSound
<1> QED BY <1>3, Invariance, PTL

=============================================================================
