----------------------------- MODULE ReuseProofs -----------------------------
(***************************************************************************)
(* Proofs about the engine with its CPU tier: it is the engine, and it uses*)
(* the context database as the database demands.                           *)
(*                                                                         *)
(* Each part proves of itself what the other leaves open.  The database    *)
(* proves that a handle which resolves reads what it was issued for, and   *)
(* that a session holds the handles of its own context: so a restore loads *)
(* the KV of the request's own prefix, which is the step that Engine       *)
(* allows.  The engine proves that cached context and computed chunks are  *)
(* right: so persist_cpu_contexts stores the KV of the prompt's prefixes,  *)
(* which is the step that ContextDB allows.  The invariant adds to those of*)
(* the two parts what ties them: LookupsInv, between a request and its     *)
(* session, and PersistInv, between the step and the prompt it stores.     *)
(*                                                                         *)
(* First, the blocks, rows and chained hashes that the composition gives   *)
(* the database are shown to meet what the database assumes: the rows of a *)
(* prefix are payloads, and two prefixes never share a hash.               *)
(***************************************************************************)
EXTENDS ReuseEngine, EngineProofs

-----------------------------------------------------------------------------
(* Token lists cut into blocks *)

\* Adjacent pieces of a list.
LEMMA Pieces ==
  ASSUME NEW t \in Seq(Token), NEW m \in Nat, NEW n \in Nat, m <= n, n <= Len(t)
  PROVE  SubSeq(t, 1, m) \o SubSeq(t, m + 1, n) = SubSeq(t, 1, n)
<1>1. Len(t) \in Nat /\ \A i \in 1 .. Len(t) : t[i] \in Token
  BY LenProperties, ElementOfSeq
<1>2. /\ SubSeq(t, 1, m) \in Seq(Token) /\ Len(SubSeq(t, 1, m)) = m
      /\ \A i \in 1 .. m : SubSeq(t, 1, m)[i] = t[i]
  BY <1>1, SubSeqProperties
<1>3. /\ SubSeq(t, m + 1, n) \in Seq(Token) /\ Len(SubSeq(t, m + 1, n)) = n - m
      /\ \A i \in 1 .. n - m : SubSeq(t, m + 1, n)[i] = t[m + i]
  BY <1>1, SubSeqProperties
<1>4. /\ SubSeq(t, 1, n) \in Seq(Token) /\ Len(SubSeq(t, 1, n)) = n
      /\ \A i \in 1 .. n : SubSeq(t, 1, n)[i] = t[i]
  BY <1>1, SubSeqProperties
<1> DEFINE a == SubSeq(t, 1, m)
           b == SubSeq(t, m + 1, n)
           c == SubSeq(t, 1, n)
<1> HIDE DEF a, b, c
<1>5. a \in Seq(Token) /\ b \in Seq(Token) /\ Len(a) = m /\ Len(b) = n - m
  BY <1>2, <1>3 DEF a, b
<1>6. /\ a \o b \in Seq(Token) /\ Len(a \o b) = n
      /\ \A i \in 1 .. n : (a \o b)[i] = IF i <= m THEN a[i] ELSE b[i - m]
  BY <1>5, ConcatProperties
<1>7. \A i \in 1 .. n : (a \o b)[i] = c[i]
  <2> TAKE i \in 1 .. n
  <2>1. CASE i <= m
    BY <1>2, <1>4, <1>6, <2>1 DEF a, c
  <2>2. CASE i > m
    <3>1. i - m \in 1 .. n - m /\ m + (i - m) = i
      BY <2>2
    <3>2. b[i - m] = t[i]
      BY <1>3, <3>1 DEF b
    <3>3. (a \o b)[i] = b[i - m]
      BY <1>6, <2>2
    <3>4. c[i] = t[i]
      BY <1>4 DEF c
    <3> QED BY <3>2, <3>3, <3>4
  <2>3. i <= m \/ i > m
    OBVIOUS
  <2> QED BY <2>1, <2>2, <2>3
<1>8. c \in Seq(Token) /\ Len(c) = n
  BY <1>4 DEF c
<1>9. a \o b = c
  BY <1>6, <1>7, <1>8, SeqEqual
<1> QED BY <1>9 DEF a, b, c

\* Block i of a token list.
BlockOf(t, i) == SubSeq(t, (i - 1) * BlockSize + 1, i * BlockSize)

\* The boundaries of block i of t, if t has it.
LEMMA Boundaries ==
  ASSUME NEW t \in Seq(Token), NEW i \in 1 .. Len(t) \div BlockSize
  PROVE  /\ i \in Nat /\ i - 1 \in Nat
         /\ (i - 1) * BlockSize \in Nat /\ i * BlockSize \in Nat
         /\ i * BlockSize = (i - 1) * BlockSize + BlockSize
         /\ i * BlockSize <= Len(t)
<1>1. Len(t) \in Nat
  BY LenProperties
<1> DEFINE k == Len(t) \div BlockSize
<1>2. k \in Nat /\ k * BlockSize <= Len(t) /\ k * BlockSize \in Nat
  BY <1>1, DivBounds, MulType
<1> HIDE DEF k
<1>3. i \in Nat /\ i - 1 \in Nat /\ i <= k
  BY <1>2 DEF k
<1>4. (i - 1) * BlockSize \in Nat /\ i * BlockSize \in Nat
      /\ ((i - 1) + 1) * BlockSize = (i - 1) * BlockSize + BlockSize
  BY <1>3, MulType, MulStep
<1>5. i * BlockSize <= k * BlockSize
  BY <1>2, <1>3, MulMonoWeak
<1> QED BY <1>1, <1>2, <1>3, <1>4, <1>5

\* BlocksOf yields one list of tokens for each complete block.
LEMMA BlocksFacts ==
  ASSUME NEW t \in Seq(Token)
  PROVE  /\ BlocksOf(t) \in Seq(Seq(Token))
         /\ Len(BlocksOf(t)) = Len(t) \div BlockSize /\ Len(BlocksOf(t)) \in Nat
         /\ DOMAIN BlocksOf(t) = 1 .. Len(BlocksOf(t))
         /\ \A i \in 1 .. Len(BlocksOf(t)) : BlocksOf(t)[i] = BlockOf(t, i)
<1> DEFINE k == Len(t) \div BlockSize
<1>1. Len(t) \in Nat /\ k \in Nat
  BY LenProperties, DivBounds
<1>2. ASSUME NEW i \in 1 .. k PROVE BlockOf(t, i) \in Seq(Token)
  <2>1. /\ (i - 1) * BlockSize \in Nat /\ i * BlockSize \in Nat
        /\ i * BlockSize <= Len(t)
    BY Boundaries
  <2>2. \A j \in (i - 1) * BlockSize + 1 .. i * BlockSize : t[j] \in Token
    BY <1>1, <2>1, ElementOfSeq
  <2> QED BY <2>1, <2>2, SubSeqProperties DEF BlockOf
<1> HIDE DEF k
<1>3. BlocksOf(t) = [i \in 1 .. k |-> BlockOf(t, i)]
  BY DEF BlocksOf, BlockOf, k
<1>4. BlocksOf(t) \in [1 .. k -> Seq(Token)]
  BY <1>2, <1>3
<1>5. BlocksOf(t) \in Seq(Seq(Token)) /\ Len(BlocksOf(t)) = k
  BY <1>1, <1>4, LenProperties
<1> QED BY <1>1, <1>3, <1>5 DEF k

\* The first i blocks make up the prefix of their length.
LEMMA FlattenBlocks ==
  ASSUME NEW t \in Seq(Token), NEW i \in 1 .. Len(t) \div BlockSize
  PROVE  FlattenSeq(SubSeq(BlocksOf(t), 1, i)) = SubSeq(t, 1, i * BlockSize)
<1> DEFINE c == SubSeq(BlocksOf(t), 1, i)
           F(f) == f = [j \in 1 .. Len(c) |->
                          IF j = 1 THEN c[j] ELSE f[j - 1] \o c[j]]
           g == [j \in 1 .. Len(c) |-> SubSeq(t, 1, j * BlockSize)]
           f == CHOOSE h : F(h)
<1>1. /\ Len(c) = i /\ i \in Nat /\ i > 0
      /\ \A j \in 1 .. i : c[j] = BlockOf(t, j)
  <2>1. /\ BlocksOf(t) \in Seq(Seq(Token)) /\ Len(BlocksOf(t)) \in Nat
        /\ i \in 1 .. Len(BlocksOf(t))
        /\ \A j \in 1 .. Len(BlocksOf(t)) : BlocksOf(t)[j] = BlockOf(t, j)
    BY BlocksFacts
  <2>2. \A j \in 1 .. i : BlocksOf(t)[j] \in Seq(Token)
    BY <2>1, ElementOfSeq
  <2> DEFINE u == BlocksOf(t)
  <2> HIDE DEF u
  <2>3. /\ Len(SubSeq(u, 1, i)) = i
        /\ \A j \in 1 .. i : SubSeq(u, 1, i)[j] = u[j]
    BY <2>1, <2>2, SubSeqProperties DEF u
  <2> QED BY <2>1, <2>3 DEF u
<1> HIDE DEF c
<1>2. ASSUME NEW j \in 1 .. i, j # 1
      PROVE  SubSeq(t, 1, (j - 1) * BlockSize) \o c[j] = SubSeq(t, 1, j * BlockSize)
  <2>1. j \in 1 .. Len(t) \div BlockSize
    <3>1. Len(t) \div BlockSize \in Nat
      BY LenProperties, DivBounds
    <3> QED BY <3>1
  <2>2. /\ (j - 1) * BlockSize \in Nat /\ j * BlockSize \in Nat
        /\ (j - 1) * BlockSize <= j * BlockSize /\ j * BlockSize <= Len(t)
    BY <2>1, Boundaries, BlockSizeAssumption
  <2>3. c[j] = SubSeq(t, (j - 1) * BlockSize + 1, j * BlockSize)
    BY <1>1 DEF BlockOf
  <2> QED BY <2>2, <2>3, Pieces
<1>3. c[1] = SubSeq(t, 1, 1 * BlockSize)
  <2>1. 1 \in 1 .. i /\ (1 - 1) * BlockSize + 1 = 1
    BY <1>1, BlockSizeAssumption
  <2>2. c[1] = SubSeq(t, (1 - 1) * BlockSize + 1, 1 * BlockSize)
    BY <1>1, <2>1 DEF BlockOf
  <2> QED BY <2>1, <2>2
<1>4. F(g)
  <2>1. ASSUME NEW j \in 1 .. Len(c)
        PROVE  g[j] = IF j = 1 THEN c[j] ELSE g[j - 1] \o c[j]
    <3>1. g[j] = SubSeq(t, 1, j * BlockSize)
      OBVIOUS
    <3>2. CASE j = 1
      BY <1>3, <3>1, <3>2
    <3>3. CASE j # 1
      <4>1. j - 1 \in 1 .. Len(c)
        BY <1>1, <3>3
      <4>2. g[j - 1] = SubSeq(t, 1, (j - 1) * BlockSize)
        BY <4>1
      <4> QED BY <1>1, <1>2, <3>1, <3>3, <4>2
    <3> QED BY <3>2, <3>3
  <2> DEFINE h == [j \in 1 .. Len(c) |-> IF j = 1 THEN c[j] ELSE g[j - 1] \o c[j]]
  <2>2. g = [j \in 1 .. Len(c) |-> g[j]] /\ \A j \in 1 .. Len(c) : g[j] = h[j]
    BY <2>1
  <2> HIDE DEF g
  <2>3. g = h
    BY <2>2
  <2> QED BY <2>3
<1> HIDE DEF g
<1>5. F(f)
  <2> HIDE DEF F
  <2> QED BY <1>4
<1> HIDE DEF f
<1>6. \A j \in 1 .. Len(c) : f[j] = IF j = 1 THEN c[j] ELSE f[j - 1] \o c[j]
  <2> DEFINE h == [j \in 1 .. Len(c) |-> IF j = 1 THEN c[j] ELSE f[j - 1] \o c[j]]
  <2>1. f = h
    BY <1>5
  <2>2. \A j \in 1 .. Len(c) : h[j] = IF j = 1 THEN c[j] ELSE f[j - 1] \o c[j]
    OBVIOUS
  <2> HIDE DEF h
  <2> QED BY <2>1, <2>2
<1> DEFINE T == {j \in 1 .. i : f[j] # g[j]}
<1>g. \A j \in 1 .. i : g[j] = SubSeq(t, 1, j * BlockSize)
  BY <1>1 DEF g
<1>7. T = {}
  <2> SUFFICES ASSUME T # {} PROVE FALSE
    OBVIOUS
  <2>1. T \in SUBSET Nat
    BY <1>1
  <2> HIDE DEF T
  <2>2. PICK j \in T : \A k \in Nat : k < j => k \notin T
    BY <2>1, LeastNat
  <2>3. j \in 1 .. i /\ f[j] # g[j] /\ j \in Nat
    BY <2>2, <1>1 DEF T
  <2>4. CASE j = 1
    <3>1. f[1] = c[1]
      BY <1>1, <1>6, <2>3, <2>4
    <3> QED BY <1>3, <1>g, <2>3, <2>4, <3>1
  <2>5. CASE j # 1
    <3>1. j - 1 \in 1 .. i /\ j - 1 < j /\ j - 1 \in Nat
      BY <1>1, <2>3, <2>5
    <3>2. f[j - 1] = g[j - 1]
      BY <2>2, <3>1 DEF T
    <3>3. f[j] = f[j - 1] \o c[j]
      BY <1>1, <1>6, <2>3, <2>5
    <3> QED BY <1>2, <1>g, <2>3, <2>5, <3>1, <3>2, <3>3
  <2> QED BY <2>4, <2>5
<1>8. f[i] = SubSeq(t, 1, i * BlockSize)
  <2>1. i \in 1 .. i
    BY <1>1
  <2> QED BY <1>7, <1>g, <2>1
<1>9. FlattenSeq(c) = f[Len(c)]
  BY <1>1 DEF FlattenSeq, f
<1> QED BY <1>1, <1>8, <1>9 DEF c

\* What the database keeps for a prefix is the KV of its last block.
LEMMA RowsOfBlocks ==
  ASSUME NEW t \in Seq(Token), NEW i \in 1 .. Len(t) \div BlockSize
  PROVE  RowsOf(SubSeq(BlocksOf(t), 1, i))
           = [o \in 1 .. BlockSize |-> SubSeq(t, 1, (i - 1) * BlockSize + o)]
<1> DEFINE h == FlattenSeq(SubSeq(BlocksOf(t), 1, i))
<1>1. /\ i - 1 \in Nat /\ (i - 1) + 1 = i /\ i * BlockSize <= Len(t)
  BY Boundaries
<1>2. h = SubSeq(t, 1, i * BlockSize)
  BY FlattenBlocks
<1> HIDE DEF h
<1>3. \A o \in 1 .. BlockSize :
        SubSeq(h, 1, Len(h) - BlockSize + o) = SubSeq(t, 1, (i - 1) * BlockSize + o)
  BY <1>1, <1>2, LabelRows
<1>4. RowsOf(SubSeq(BlocksOf(t), 1, i))
        = [o \in 1 .. BlockSize |-> SubSeq(h, 1, Len(h) - BlockSize + o)]
  BY DEF RowsOf, h
<1> QED BY <1>3, <1>4

-----------------------------------------------------------------------------
(* The context database of the engine, with what is proved of it *)

P == INSTANCE ContextDBProofs WITH
  Clients <- Seqs \cup {Persister},
  Contexts <- PromptContexts,
  Payload <- PromptRows,
  Hash <- ChainedHash,
  KV <- RowsOf

\* The contexts are the prompts cut into blocks.
LEMMA ContextFacts ==
  ASSUME NEW c \in PromptContexts
  PROVE  /\ c \in Seq(Seq(Token)) /\ Len(c) \in Nat /\ DOMAIN c = 1 .. Len(c)
         /\ c = [i \in 1 .. Len(c) |-> c[i]]
<1>1. PICK p \in Prompts : c = BlocksOf(p)
  BY DEF PromptContexts
<1>2. p \in Seq(Token)
  BY FinitenessAssumption
<1>3. c \in Seq(Seq(Token)) /\ Len(c) \in Nat /\ DOMAIN c = 1 .. Len(c)
  BY <1>1, <1>2, BlocksFacts
<1>4. c = [i \in 1 .. Len(c) |-> c[i]]
  BY <1>3
<1> QED BY <1>3, <1>4

\* What the database and the store assume of their parameters.
LEMMA DatabaseAssumptions == P!StoreAssumption /\ P!ContextAssumption
<1>1. P!StoreAssumption
  BY ReuseAssumption DEF P!IsFiniteSet, IsFiniteSet
<1>2. ASSUME NEW c \in PromptContexts PROVE c \in Seq(P!Range(c))
  <2>1. Len(c) \in Nat /\ DOMAIN c = 1 .. Len(c) /\ c = [i \in 1 .. Len(c) |-> c[i]]
    BY ContextFacts
  <2>2. \A i \in 1 .. Len(c) : c[i] \in P!Range(c)
    BY <2>1 DEF P!Range
  <2>3. c \in [1 .. Len(c) -> P!Range(c)]
    BY <2>1, <2>2
  <2> QED BY <2>1, <2>3
<1>3. ASSUME NEW c \in PromptContexts, NEW i \in 1 .. Len(c)
      PROVE  RowsOf(SubSeq(c, 1, i)) \in PromptRows
  BY DEF PromptRows
<1> QED BY <1>1, <1>2, <1>3, ReuseAssumption DEF P!ContextAssumption

\* The chained hash of the first blocks of a context is that prefix.
LEMMA ChainedPrefix ==
  ASSUME NEW c \in PromptContexts, NEW i \in 0 .. Len(c)
  PROVE  P!ChainHash(c)[i] = SubSeq(c, 1, i)
<1>t. c \in Seq(Seq(Token)) /\ Len(c) \in Nat
  BY ContextFacts
<1> DEFINE n == Len(c)
           F(f) == f = [j \in 0 .. n |-> IF j = 0 THEN <<>> ELSE ChainedHash(c[j], f[j - 1])]
           g == [j \in 0 .. n |-> SubSeq(c, 1, j)]
           f == CHOOSE h : F(h)
<1>1. SubSeq(c, 1, 0) = <<>>
  BY <1>t
<1>2. ASSUME NEW j \in 1 .. n
      PROVE  SubSeq(c, 1, j) = Append(SubSeq(c, 1, j - 1), c[j])
  BY <1>t, <1>2
<1>3. F(g)
  <2>1. ASSUME NEW j \in 0 .. n
        PROVE  g[j] = IF j = 0 THEN <<>> ELSE ChainedHash(c[j], g[j - 1])
    <3>1. CASE j = 0
      BY <1>1, <3>1
    <3>2. CASE j # 0
      <4>1. j - 1 \in 0 .. n /\ j \in 1 .. n
        BY <1>t, <3>2
      <4>2. g[j - 1] = SubSeq(c, 1, j - 1) /\ g[j] = SubSeq(c, 1, j)
        BY <4>1
      <4> HIDE DEF g
      <4> QED BY <1>2, <3>2, <4>1, <4>2 DEF ChainedHash
    <3> QED BY <3>1, <3>2
  <2> DEFINE h == [j \in 0 .. n |-> IF j = 0 THEN <<>> ELSE ChainedHash(c[j], g[j - 1])]
  <2>2. g = [j \in 0 .. n |-> g[j]] /\ \A j \in 0 .. n : g[j] = h[j]
    BY <2>1
  <2> HIDE DEF g
  <2>3. g = h
    BY <2>2
  <2> QED BY <2>3
<1> HIDE DEF g
<1>4. F(f)
  <2> HIDE DEF F
  <2> QED BY <1>3
<1> HIDE DEF f
<1>5. \A j \in 0 .. n : f[j] = IF j = 0 THEN <<>> ELSE ChainedHash(c[j], f[j - 1])
  <2> DEFINE h == [j \in 0 .. n |-> IF j = 0 THEN <<>> ELSE ChainedHash(c[j], f[j - 1])]
  <2>1. f = h
    BY <1>4
  <2>2. \A j \in 0 .. n : h[j] = IF j = 0 THEN <<>> ELSE ChainedHash(c[j], f[j - 1])
    OBVIOUS
  <2> HIDE DEF h
  <2> QED BY <2>1, <2>2
<1> DEFINE T == {j \in 0 .. n : f[j] # g[j]}
<1>g. \A j \in 0 .. n : g[j] = SubSeq(c, 1, j)
  BY DEF g
<1>6. T = {}
  <2> SUFFICES ASSUME T # {} PROVE FALSE
    OBVIOUS
  <2>1. T \in SUBSET Nat
    BY <1>t
  <2> HIDE DEF T
  <2>2. PICK j \in T : \A k \in Nat : k < j => k \notin T
    BY <2>1, LeastNat
  <2>3. j \in 0 .. n /\ f[j] # g[j] /\ j \in Nat
    BY <2>2, <1>t DEF T
  <2>4. CASE j = 0
    BY <1>1, <1>5, <1>g, <2>3, <2>4
  <2>5. CASE j # 0
    <3>1. j \in 1 .. n /\ j - 1 \in 0 .. n /\ j - 1 < j /\ j - 1 \in Nat
      BY <1>t, <2>3, <2>5
    <3>2. f[j - 1] = SubSeq(c, 1, j - 1)
      BY <2>2, <3>1, <1>g DEF T
    <3>3. f[j] = Append(f[j - 1], c[j])
      BY <1>5, <2>3, <2>5 DEF ChainedHash
    <3> QED BY <1>2, <1>g, <2>3, <3>1, <3>2, <3>3
  <2> QED BY <2>4, <2>5
<1>7. P!ChainHash(c) = f
  BY DEF P!ChainHash, P!NoPrefix, f
<1> QED BY <1>6, <1>7, <1>g

\* So the engine's hashes do not collide.
LEMMA PrefixesDoNotCollide == P!NoCollisions
<1> SUFFICES ASSUME NEW c \in PromptContexts, NEW d \in PromptContexts,
                    NEW i \in 1 .. Len(c), NEW j \in 1 .. Len(d),
                    P!ChainHash(c)[i] = P!ChainHash(d)[j]
             PROVE  SubSeq(c, 1, i) = SubSeq(d, 1, j)
  BY DEF P!NoCollisions
<1>1. i \in 0 .. Len(c) /\ j \in 0 .. Len(d)
  BY ContextFacts
<1> QED BY <1>1, ChainedPrefix

-----------------------------------------------------------------------------
(* DB, the database that the engine calls, is P *)

\* A lookup.
LEMMA SameLookup == \A es, c : DB!Lookup(es, c) = P!Lookup(es, c)
BY DEF DB!Lookup, P!Lookup, DB!Matches, P!Matches, DB!MatchedBlocks, P!MatchedBlocks,
   DB!ChainHash, P!ChainHash, DB!NoPrefix, P!NoPrefix

\* What a lookup touches.
LEMMA SameTouch ==
  /\ \A order, hs : DB!TouchedByLookup(order, hs) = P!TouchedByLookup(order, hs)
  /\ \A after, hs : DB!FoldLeft(LAMBDA a, h : DB!UsedNow(a, h[1]), after, hs)
                      = P!FoldLeft(LAMBDA a, h : P!UsedNow(a, h[1]), after, hs)
<1>1. \A order, hs : DB!TouchedByLookup(order, hs) = P!TouchedByLookup(order, hs)
  BY DEF DB!TouchedByLookup, P!TouchedByLookup, DB!Touched, P!Touched,
     DB!RemoveFirst, P!RemoveFirst, DB!RemoveAt, P!RemoveAt,
     DB!SelectInSeq, P!SelectInSeq, DB!Min, P!Min, DB!Max, P!Max,
     DB!FoldLeft, P!FoldLeft, DB!MapThenFoldSet, P!MapThenFoldSet
<1>2. \A after, hs : DB!FoldLeft(LAMBDA a, h : DB!UsedNow(a, h[1]), after, hs)
                       = P!FoldLeft(LAMBDA a, h : P!UsedNow(a, h[1]), after, hs)
  BY DEF DB!UsedNow, P!UsedNow, DB!Max, P!Max,
     DB!FoldLeft, P!FoldLeft, DB!MapThenFoldSet, P!MapThenFoldSet
<1> QED BY <1>1, <1>2

\* create_session.
LEMMA SameCreate ==
  \A c, context : DB!CreateSession(c, context) => P!CreateSession(c, context)
<1>1. \A context : DB!LiveEntries(context) = P!LiveEntries(context)
  BY SameLookup DEF DB!LiveEntries, P!LiveEntries, DB!Resolves, P!Resolves, DB!ToSet, P!ToSet
<1> QED BY <1>1, SameLookup, SameTouch DEF DB!CreateSession, P!CreateSession

\* What the store does to a slot.
LEMMA SameStore ==
  /\ \A s, p : DB!StoreBlock(s, p) = P!StoreBlock(s, p)
  /\ \A s : DB!StoreFails(s) = P!StoreFails(s)
  /\ \A s : DB!Takes(s) = P!Takes(s)
  /\ \A h : DB!Delete(h) = P!Delete(h)
  /\ \A h : DB!Use(h) = P!Use(h)
<1>1. \A order, s : DB!RemoveFirst(order, s) = P!RemoveFirst(order, s)
  BY DEF DB!RemoveFirst, P!RemoveFirst, DB!RemoveAt, P!RemoveAt,
     DB!SelectInSeq, P!SelectInSeq, DB!Min, P!Min
<1>2. \A s : DB!Takes(s) = P!Takes(s) /\ DB!TakeSlot(s) = P!TakeSlot(s)
  BY DEF DB!Takes, P!Takes, DB!TakeSlot, P!TakeSlot, DB!NextGeneration, P!NextGeneration
<1>3. /\ \A h : DB!Resolves(h) = P!Resolves(h)
      /\ \A after, s : DB!UsedNow(after, s) = P!UsedNow(after, s)
  BY DEF DB!Resolves, P!Resolves, DB!UsedNow, P!UsedNow
<1>4. \A s, p : DB!StoreBlock(s, p) = P!StoreBlock(s, p)
  BY <1>1, <1>2, <1>3 DEF DB!StoreBlock, P!StoreBlock
<1>5. \A s : DB!StoreFails(s) = P!StoreFails(s)
  BY <1>1, <1>2 DEF DB!StoreFails, P!StoreFails, DB!StoreCopyFails, P!StoreCopyFails,
     DB!StoreLosesSlot, P!StoreLosesSlot, DB!OccupiedAfterFailure, P!OccupiedAfterFailure
<1>6. \A h : DB!Delete(h) = P!Delete(h) /\ DB!Use(h) = P!Use(h)
  BY <1>1, <1>3 DEF DB!Delete, P!Delete, DB!Use, P!Use, DB!Touched, P!Touched
<1> QED BY <1>2, <1>4, <1>5, <1>6

\* What the index loses and gains.
LEMMA SameIndex ==
  /\ \A es, dead : DB!Without(es, dead) = P!Without(es, dead)
  /\ \A s : DB!Invalidated(s) = P!Invalidated(s)
  /\ \A es, e : DB!Register(es, e) = P!Register(es, e)
  /\ \A c : DB!ChainHash(c) = P!ChainHash(c)
  /\ DB!StoringTokens = P!StoringTokens
BY DEF DB!Without, P!Without, DB!RemoveFirstMatch, P!RemoveFirstMatch, DB!RemoveAt,
   P!RemoveAt, DB!SelectInSeq, P!SelectInSeq, DB!Min, P!Min, DB!Invalidated,
   P!Invalidated, DB!Register, P!Register, DB!ToSet, P!ToSet, DB!ChainHash,
   P!ChainHash, DB!NoPrefix, P!NoPrefix, DB!StoringTokens, P!StoringTokens

\* Every step.
LEMMA DatabaseSame == [DB!DBNext]_(DB!dbVars) => [P!DBNext]_(P!dbVars)
<1>1. ASSUME NEW c \in Seqs \cup {Persister}, NEW context \in PromptContexts,
             DB!CreateSession(c, context)
      PROVE  P!DBNext
  BY <1>1, SameCreate DEF P!DBNext
<1>2. ASSUME NEW c \in Seqs \cup {Persister}, DB!UseSession(c) PROVE P!DBNext
  <2>1. P!UseSession(c)
    BY <1>2, SameStore DEF DB!UseSession, P!UseSession, DB!ToSet, P!ToSet
  <2> QED BY <2>1 DEF P!DBNext
<1>3. ASSUME NEW c \in Seqs \cup {Persister}, DB!StartStore(c) PROVE P!DBNext
  <2>1. P!StartStore(c)
    BY <1>3 DEF DB!StartStore, P!StartStore, DB!storeVars, P!storeVars
  <2> QED BY <2>1 DEF P!DBNext
<1>4. ASSUME DB!StoreNextBlock(RowsOf(SubSeq(DB!StoringTokens, 1, next))) PROVE P!DBNext
  <2>1. P!StoreNextBlock(RowsOf(SubSeq(P!StoringTokens, 1, next)))
    BY <1>4, SameStore, SameIndex DEF DB!StoreNextBlock, P!StoreNextBlock
  <2> QED BY <2>1 DEF P!DBNext
<1>5. ASSUME DB!StoreSessionFails PROVE P!DBNext
  <2>1. P!StoreSessionFails
    BY <1>5, SameStore, SameIndex DEF DB!StoreSessionFails, P!StoreSessionFails,
       DB!storeVars, P!storeVars
  <2> QED BY <2>1 DEF P!DBNext
<1>6. ASSUME DB!EndStore PROVE P!DBNext
  <2>1. P!EndStore
    BY <1>6, SameLookup, SameIndex DEF DB!EndStore, P!EndStore, DB!storeVars, P!storeVars,
       DB!HandlesAfterStore, P!HandlesAfterStore
  <2> QED BY <2>1 DEF P!DBNext
<1>7. ASSUME NEW h \in DOMAIN issued, DB!DeleteBlock(h) PROVE P!DBNext
  <2>1. P!DeleteBlock(h)
    BY <1>7, SameStore, SameIndex DEF DB!DeleteBlock, P!DeleteBlock
  <2> QED BY <2>1 DEF P!DBNext
<1>8. UNCHANGED DB!dbVars => UNCHANGED P!dbVars
  BY DEF DB!dbVars, P!dbVars, DB!storeVars, P!storeVars, DB!indexVars, P!indexVars
<1> QED BY <1>1, <1>2, <1>3, <1>4, <1>5, <1>6, <1>7, <1>8 DEF DB!DBNext

\* What is proved of the database: the index invariant, and that a session holds
\* the handles of its own context.
DatabaseInv == P!IndexInv /\ P!SessionsRight

\* Its first state has it.
LEMMA DatabaseInit == DB!DBInit => DatabaseInv
<1>1. DB!DBInit => P!DBInit
  BY DEF DB!DBInit, P!DBInit, DB!StoreInit, P!StoreInit, DB!NoSession, P!NoSession
<1> QED BY <1>1, DatabaseAssumptions, P!IndexInit DEF DatabaseInv

\* Its steps keep it.
LEMMA DatabaseStep == DatabaseInv /\ [DB!DBNext]_(DB!dbVars) => DatabaseInv'
<1>1. P!IndexInv /\ [P!DBNext]_(P!dbVars) =>
        P!IndexInv' /\ (P!NoCollisions /\ P!SessionsRight => P!SessionsRight')
  BY DatabaseAssumptions, P!IndexStep
<1> QED BY <1>1, DatabaseSame, PrefixesDoNotCollide DEF DatabaseInv

-----------------------------------------------------------------------------
(* What ties the requests to their sessions *)

\* A request is one of the prompts; its session looked that prompt up, and the
\* request uses no more handles than the session has.  What waits for a restore
\* waits for those it uses.
LookupsInv ==
  \A s \in Seqs :
    /\ tokens[s] # <<>> =>
         PromptOf(s) \in Prompts /\ sessions[s].tokens = BlocksOf(PromptOf(s))
    /\ cpuHandles[s] <= Len(sessions[s].handles)
    /\ restorePending[s] => numCached[s] = cpuHandles[s] * BlockSize

\* persist_cpu_contexts runs between a prefill and its postprocess(), alone in
\* the store, for a prompt that is completely computed.
PersistInv ==
  /\ persisting \in {"no", "lookup", "start", "store"}
  /\ storing = IF persisting = "store" THEN Persister ELSE Nobody
  /\ persisting # "no" => pc = "post" /\ batch # <<>>
  /\ persisting \in {"start", "store"} =>
       /\ PromptComputed(Head(batch))
       /\ sessions[Persister].tokens = BlocksOf(PromptOf(Head(batch)))

\* The inductive invariant.
ReuseInv == EInv /\ DatabaseInv /\ LookupsInv /\ PersistInv

\* The steps of the engine that add no request.
Works ==
  \/ StepControl \/ ClearGpuPrefixCache
  \/ ConfirmCpuRestore \/ RollbackCpuRestore \/ Run
  \/ UNCHANGED vars

\* Only an arrival lengthens the waiting queue at its end between two steps.
LEMMA WorksNotArrivals ==
  ASSUME SInv, Works
  PROVE  ~Arrivals /\ [Next]_vars
<1>1. [Next]_vars
  BY DEF Works, Next
<1>2. ASSUME Arrivals PROVE FALSE
  <2>1. pc = "idle" /\ pc' = pc /\ \E s \in Seqs : waiting' = Append(waiting, s)
    BY <1>2 DEF Arrivals, AddRequest, stepVars
  <2>2. waiting' # waiting
    <3>1. waiting \in Seq(Seqs)
      BY SInvTypes
    <3>2. \A s \in Seqs : Len(Append(waiting, s)) = Len(waiting) + 1 /\ Len(waiting) \in Nat
      BY <3>1, AppendProperties, LenProperties
    <3> QED BY <2>1, <3>2
  <2>3. CASE StepControl
    BY <2>1, <2>3 DEF StepControl, StartStep, Admit, EndPrefill, ScheduleDecode,
       PreemptOther, PreemptSelf, CanDecode, EndDecode, NothingScheduled, Hash, Sample,
       Finish, EndStep
  <2>4. CASE ClearGpuPrefixCache \/ UNCHANGED vars
    BY <2>2, <2>4 DEF ClearGpuPrefixCache, queueVars, vars
  <2>5. CASE ConfirmCpuRestore \/ RollbackCpuRestore \/ Run
    BY <2>1, <2>5 DEF ConfirmCpuRestore, RollbackCpuRestore, Run
  <2> QED BY <2>3, <2>4, <2>5 DEF Works
<1> QED BY <1>1, <1>2

\* The prompt of a request stays, and no other request appears.
LEMMA PromptStays ==
  ASSUME SInv, Works, NEW s \in Seqs
  PROVE  /\ tokens'[s] # <<>> => tokens[s] # <<>>
         /\ tokens[s] # <<>> => PromptOf(s)' = PromptOf(s)
<1>1. ~Arrivals /\ [Next]_vars
  BY WorksNotArrivals
<1>t. BMTypeOK /\ STypeOK
  BY SInvTypes
<1>2. ASSUME tokens[s] = <<>> PROVE tokens'[s] = <<>>
  <2>1. CASE Sample
    <3>1. PICK t \in Token : AppendToken(Head(batch), t)
      BY <2>1 DEF Sample
    <3>2. /\ blockTable[Head(batch)] # <<>>
          /\ tokens' = [tokens EXCEPT ![Head(batch)] = Append(@, t)]
      BY <3>1 DEF AppendToken
    <3>3. blockTable[s] = <<>>
      <4>1. status[s] = "NEW"
        BY <1>2 DEF SInv, StatusInv
      <4> QED BY <4>1 DEF SInv, HoldersInv, OnlyHeadHoldsBlocks
    <3> QED BY <1>2, <1>t, <3>2, <3>3 DEF BMTypeOK
  <2>2. CASE ~Sample
    BY <1>1, <1>2, <2>2, HiddenSteps DEF ClientSees
  <2> QED BY <2>1, <2>2
<1>3. ASSUME tokens[s] # <<>> PROVE PromptOf(s)' = PromptOf(s)
  <2>1. /\ numPrompt'[s] = numPrompt[s]
        /\ tokens'[s] = tokens[s] \/ \E t \in Token : tokens'[s] = Append(tokens[s], t)
    BY <1>1, <1>3, TokensGrow
  <2>2. tokens[s] \in Seq(Token) /\ numPrompt[s] \in Nat /\ numPrompt[s] <= Len(tokens[s])
    BY <1>t DEF SInv, PromptInv, BMTypeOK, STypeOK
  <2>3. \A t \in Token : SubSeq(Append(tokens[s], t), 1, numPrompt[s])
                           = SubSeq(tokens[s], 1, numPrompt[s])
    BY <2>2, CutAppend
  <2>4. SubSeq(tokens'[s], 1, numPrompt[s]) = SubSeq(tokens[s], 1, numPrompt[s])
    <3>1. CASE tokens'[s] = tokens[s]
      BY <3>1
    <3>2. ASSUME NEW t \in Token, tokens'[s] = Append(tokens[s], t)
          PROVE  SubSeq(tokens'[s], 1, numPrompt[s]) = SubSeq(tokens[s], 1, numPrompt[s])
      <4>1. SubSeq(Append(tokens[s], t), 1, numPrompt[s]) = SubSeq(tokens[s], 1, numPrompt[s])
        BY <2>3
      <4> HIDE <2>3
      <4> QED BY <3>2, <4>1, Zenon
    <3> QED BY <2>1, <3>1, <3>2
  <2>5. PromptOf(s)' = SubSeq(tokens'[s], 1, numPrompt'[s])
    BY DEF PromptOf
  <2> QED BY <2>1, <2>4, <2>5 DEF PromptOf
<1> QED BY <1>2, <1>3

\* What waits for a restore waits for the handles that the request uses.
LEMMA RestoreCounts ==
  ASSUME SInv, [Next]_vars, NEW s \in Seqs, restorePending'[s],
         restorePending[s] => numCached[s] = cpuHandles[s] * BlockSize
  PROVE  numCached'[s] = cpuHandles'[s] * BlockSize
<1>t. BMTypeOK /\ STypeOK /\ batch \in Seq(Seqs)
  BY SInvTypes
<1>1. CASE restorePending[s]
  <2>1. /\ CpuCache /\ batch = <<s>> /\ pc \in {"prefill", "dispatch"}
        /\ Len(batch) = 1 /\ s \in Pending
    <3>1. CpuCache /\ batch = <<s>> /\ pc \in {"prefill", "dispatch"}
      BY <1>1 DEF SInv, RestoreInv
    <3>2. Len(batch) = 1 /\ batch[1] = s
      BY <3>1
    <3>3. s \in Range(batch)
      BY <1>t, <3>2, RangeIn
    <3> QED BY <1>1, <3>1, <3>2, <3>3 DEF Pending
  <2>2. ~Admit
    BY <2>1, SchedulerAssumption DEF Admit, CanAdmit
  <2>3. CASE ConfirmCpuRestore
    <3>1. PICK r \in Pending : ConfirmRestore(r)
      BY <2>3 DEF ConfirmCpuRestore
    <3>2. r = s
      BY <1>1, <2>1, <3>1, PendingOne
    <3> QED BY <3>1, <3>2, <1>t DEF ConfirmRestore, BMTypeOK
  <2>4. CASE RollbackCpuRestore
    <3>1. PICK r \in Pending : RollbackRestore(r)
      BY <2>4 DEF RollbackCpuRestore
    <3>2. r = s
      BY <1>1, <2>1, <3>1, PendingOne
    <3> QED BY <3>1, <3>2, <1>t DEF RollbackRestore, BMTypeOK
  <2>5. CASE EndPrefill \/ UNCHANGED vars
    BY <1>1, <2>5 DEF EndPrefill, bmVars, seqVars, vars
  <2>6. CASE Run
    BY <2>1, <2>6 DEF Run
  <2>7. CASE Arrivals \/ ClearGpuPrefixCache \/ StartStep \/ EndStep \/ Hash \/ Sample
             \/ Finish \/ ScheduleDecode \/ PreemptOther \/ PreemptSelf
             \/ EndDecode \/ NothingScheduled
    BY <2>1, <2>7 DEF Arrivals, AddRequest, ClearGpuPrefixCache, StartStep, EndStep, Hash,
       Sample, Finish, ScheduleDecode, PreemptOther, PreemptSelf, CanDecode, EndDecode,
       NothingScheduled
  <2> QED BY <2>2, <2>3, <2>4, <2>5, <2>6, <2>7 DEF Next, StepControl
<1>2. CASE ~restorePending[s]
  <2>1. Admit /\ cpuHandles[s] > 0
    BY <1>2, TableOpens
  <2> DEFINE h == Head(waiting)
  <2>0. h \in Seqs
    BY <2>1, <1>t, HeadIn DEF Admit, CanAdmit, STypeOK
  <2> HIDE DEF h
  <2>2. CASE AdmitFromGpu(h)
    BY <1>2, <2>2 DEF AdmitFromGpu, Allocate
  <2>3. CASE ContinueChunk(h)
    BY <1>2, <2>3 DEF ContinueChunk, bmVars
  <2>4. CASE AdmitFromCpu(h)
    <3>1. /\ restorePending' = [restorePending EXCEPT ![h] = TRUE]
          /\ numCached' = [numCached EXCEPT ![h] = cpuHandles[h] * BlockSize]
          /\ cpuHandles' = cpuHandles
      BY <2>4 DEF AdmitFromCpu, AllocateForCpuRestore, ScheduleChunk
    <3>2. h = s
      BY <1>2, <3>1, <1>t, <2>0 DEF BMTypeOK
    <3> QED BY <3>1, <3>2, <1>t DEF BMTypeOK
  <2> QED BY <2>1, <2>2, <2>3, <2>4 DEF Admit, h
<1> QED BY <1>1, <1>2

\* A request keeps its handles, or loses them all in a rollback.
LEMMA WorkKeepsHandles ==
  ASSUME SInv, Works, NEW s \in Seqs
  PROVE  cpuHandles'[s] = cpuHandles[s] \/ cpuHandles'[s] = 0
<1>1. CASE RollbackCpuRestore
  <2>1. PICK r \in Pending : cpuHandles' = [cpuHandles EXCEPT ![r] = 0]
    BY <1>1 DEF RollbackCpuRestore, HandlesAfterRollback
  <2>2. r \in Seqs /\ STypeOK
    BY PendingOne, SInvTypes
  <2> QED BY <2>1, <2>2 DEF STypeOK
<1>2. CASE Admit
  BY <1>2 DEF Admit, AdmitFromGpu, AdmitFromCpu, ContinueChunk, ScheduleChunk
<1>3. CASE PreemptOther \/ PreemptSelf \/ ScheduleDecode
  BY <1>3 DEF PreemptOther, PreemptSelf, Preempt, ScheduleDecode
<1>4. CASE ClearGpuPrefixCache \/ StartStep \/ EndPrefill \/ EndDecode \/ NothingScheduled
           \/ Hash \/ Sample \/ Finish \/ EndStep \/ ConfirmCpuRestore \/ Run
           \/ UNCHANGED vars
  BY <1>4 DEF ClearGpuPrefixCache, StartStep, EndPrefill, EndDecode, NothingScheduled,
     Hash, Sample, Finish, EndStep, ConfirmCpuRestore, Run, vars, seqVars
<1> QED BY <1>1, <1>2, <1>3, <1>4 DEF Works, StepControl

\* What the database keeps of a session.
LEMMA SessionTyped ==
  ASSUME DatabaseInv, NEW c \in Seqs \cup {Persister}
  PROVE  /\ Len(sessions[c].handles) \in Nat
         /\ DOMAIN sessions[c].handles = 1 .. Len(sessions[c].handles)
         /\ Len(sessions[c].handles) <= Len(sessions[c].tokens)
         /\ \A i \in 1 .. Len(sessions[c].handles) : sessions[c].handles[i] \in DOMAIN issued
         /\ sessions \in [Seqs \cup {Persister} ->
              [tokens : PromptContexts \cup {<<>>}, handles : Seq(P!Handle)]]
<1>1. /\ sessions \in [Seqs \cup {Persister} ->
              [tokens : PromptContexts \cup {<<>>}, handles : Seq(P!Handle)]]
      /\ Len(sessions[c].handles) <= Len(sessions[c].tokens)
      /\ \A i \in 1 .. Len(sessions[c].handles) : sessions[c].handles[i] \in DOMAIN issued
  BY DEF DatabaseInv, P!IndexInv, P!SessionTypes
<1>2. sessions[c].handles \in Seq(P!Handle)
  BY <1>1
<1> QED BY <1>1, <1>2, LenProperties

\* The engine's steps between the calls of the database leave what ties requests
\* to sessions.
LEMMA LookupsKept ==
  ASSUME SInv, DatabaseInv, LookupsInv, Works,
         \A s \in Seqs : sessions'[s] = sessions[s]
  PROVE  LookupsInv'
<1> SUFFICES ASSUME NEW s \in Seqs
             PROVE  /\ tokens'[s] # <<>> =>
                         /\ PromptOf(s)' \in Prompts
                         /\ sessions'[s].tokens = BlocksOf(PromptOf(s)')
                    /\ cpuHandles'[s] <= Len(sessions'[s].handles)
                    /\ restorePending'[s] => numCached'[s] = cpuHandles'[s] * BlockSize
  BY DEF LookupsInv
<1>n. [Next]_vars
  BY WorksNotArrivals
<1>l. /\ tokens[s] # <<>> =>
           PromptOf(s) \in Prompts /\ sessions[s].tokens = BlocksOf(PromptOf(s))
      /\ cpuHandles[s] <= Len(sessions[s].handles)
      /\ restorePending[s] => numCached[s] = cpuHandles[s] * BlockSize
  BY DEF LookupsInv
<1>1. tokens'[s] # <<>> => /\ PromptOf(s)' \in Prompts
                           /\ sessions'[s].tokens = BlocksOf(PromptOf(s)')
  BY <1>l, PromptStays
<1>2. cpuHandles'[s] <= Len(sessions'[s].handles)
  <2>1. cpuHandles'[s] = cpuHandles[s] \/ cpuHandles'[s] = 0
    BY WorkKeepsHandles
  <2>2. Len(sessions[s].handles) \in Nat
    BY SessionTyped
  <2> QED BY <1>l, <2>1, <2>2
<1>3. restorePending'[s] => numCached'[s] = cpuHandles'[s] * BlockSize
  BY <1>n, <1>l, RestoreCounts
<1> QED BY <1>1, <1>2, <1>3

-----------------------------------------------------------------------------
(* Every step is one of the engine's and one of the database's, or none *)

Refines == [EngineNext]_engineVars /\ [DB!DBNext]_(DB!dbVars)

\* What the steps of the composition keep, given that they refine.
Keeps == Refines /\ LookupsInv' /\ PersistInv'

\* The handles and the types that the steps start from.
LEMMA ReuseTypes ==
  ASSUME ReuseInv
  PROVE  /\ SInv /\ IInv /\ BMTypeOK /\ STypeOK /\ KVTypeOK
         /\ \A s \in Seqs : /\ tokens[s] \in Seq(Token) /\ Len(tokens[s]) \in Nat
                            /\ numPrompt[s] \in Nat /\ numPrompt[s] <= Len(tokens[s])
                            /\ PromptOf(s) \in Seq(Token)
                            /\ Len(PromptOf(s)) = numPrompt[s]
                            /\ tokens[s] # <<>> => Len(tokens[s]) > 0
<1>1. SInv /\ IInv /\ BMTypeOK /\ STypeOK /\ KVTypeOK
  BY SInvTypes DEF ReuseInv, EInv, SInv
<1>2. ASSUME NEW s \in Seqs
      PROVE  /\ tokens[s] \in Seq(Token) /\ Len(tokens[s]) \in Nat
             /\ numPrompt[s] \in Nat /\ numPrompt[s] <= Len(tokens[s])
             /\ PromptOf(s) \in Seq(Token)
             /\ Len(PromptOf(s)) = numPrompt[s]
  <2>1. /\ tokens[s] \in Seq(Token) /\ Len(tokens[s]) \in Nat
        /\ numPrompt[s] \in Nat /\ numPrompt[s] <= Len(tokens[s])
    BY <1>1, LenProperties DEF BMTypeOK, STypeOK, SInv, PromptInv
  <2>2. \A i \in 1 .. numPrompt[s] : tokens[s][i] \in Token
    BY <2>1, ElementOfSeq
  <2> QED BY <2>1, <2>2, SubSeqProperties DEF PromptOf
<1>3. ASSUME NEW s \in Seqs, tokens[s] # <<>> PROVE Len(tokens[s]) > 0
  BY <1>2, <1>3, EmptySeq
<1> QED BY <1>1, <1>2, <1>3

\* The database's KV of block i of a prompt is that of the sequence.
LEMMA ContextRows ==
  ASSUME ReuseInv, NEW s \in Seqs, NEW i \in 1 .. Len(PromptOf(s)) \div BlockSize
  PROVE  RowsOf(SubSeq(BlocksOf(PromptOf(s)), 1, i)) = BlockRows(s, i)
<1> DEFINE t == PromptOf(s)
<1>1. /\ t \in Seq(Token) /\ Len(t) = numPrompt[s] /\ tokens[s] \in Seq(Token)
      /\ numPrompt[s] \in Nat /\ numPrompt[s] <= Len(tokens[s])
      /\ t = SubSeq(tokens[s], 1, numPrompt[s])
  BY ReuseTypes DEF PromptOf
<1>s. i \in 1 .. Len(t) \div BlockSize
  OBVIOUS
<1> HIDE DEF t
<1>2. RowsOf(SubSeq(BlocksOf(t), 1, i))
        = [o \in 1 .. BlockSize |-> SubSeq(t, 1, (i - 1) * BlockSize + o)]
  BY <1>1, <1>s, RowsOfBlocks
<1>3. ASSUME NEW o \in 1 .. BlockSize
      PROVE  SubSeq(t, 1, (i - 1) * BlockSize + o) = Prefix(s, (i - 1) * BlockSize + o)
  <2>1. /\ (i - 1) * BlockSize + o \in Nat
        /\ (i - 1) * BlockSize + o <= numPrompt[s]
    <3>1. /\ (i - 1) * BlockSize \in Nat /\ i * BlockSize = (i - 1) * BlockSize + BlockSize
          /\ i * BlockSize <= Len(t)
      BY <1>1, <1>s, Boundaries
    <3>2. /\ numPrompt[s] \in Nat /\ Len(t) = numPrompt[s]
          /\ BlockSize \in Nat /\ o \in Nat /\ o <= BlockSize
      BY <1>1, BlockSizeAssumption
    <3> DEFINE a == (i - 1) * BlockSize
               e == i * BlockSize
    <3>3. a \in Nat /\ e = a + BlockSize /\ e <= numPrompt[s]
      BY <3>1, <3>2
    <3> HIDE DEF a, e
    <3>4. a + o \in Nat /\ a + o <= numPrompt[s]
      BY <3>2, <3>3
    <3> QED BY <3>4 DEF a
  <2> DEFINE m == (i - 1) * BlockSize + o
  <2> HIDE DEF m
  <2>2. m \in Nat /\ m <= numPrompt[s]
    BY <2>1 DEF m
  <2>3. SubSeq(SubSeq(tokens[s], 1, numPrompt[s]), 1, m) = SubSeq(tokens[s], 1, m)
    BY <1>1, <2>2, PrefixOfPrefix
  <2> QED BY <1>1, <2>3 DEF Prefix, m
<1> QED BY <1>2, <1>3 DEF BlockRows, t

\* A batch is made of requests.
LEMMA BatchIsKnown ==
  ASSUME ReuseInv, persisting # "no"
  PROVE  /\ Head(batch) \in Seqs /\ Head(batch) \in Range(batch)
         /\ pc = "post" /\ ~restorePending[Head(batch)]
         /\ tokens[Head(batch)] # <<>>
         /\ Len(blockTable[Head(batch)]) = NumBlocks(Head(batch))
<1> DEFINE s == Head(batch)
<1>1. pc = "post" /\ batch # <<>> /\ SInv /\ IInv /\ BMTypeOK /\ STypeOK
  BY ReuseTypes DEF ReuseInv, PersistInv
<1>2. s \in Seqs /\ s \in Range(batch)
  <2>1. batch \in Seq(Seqs)
    BY <1>1 DEF STypeOK
  <2>2. 1 \in 1 .. Len(batch) /\ batch[1] = s
    BY <1>1, <2>1, EmptySeq, LenProperties, HeadTailProperties
  <2> QED BY <1>1, <2>1, <2>2, HeadIn, RangeIn
<1>3. ~restorePending[s]
  BY <1>1, <1>2 DEF SInv, RestoreInv
<1>4. /\ Len(blockTable[s]) = NumBlocks(s) /\ scheduled[s] > 0
      /\ numCached[s] + scheduled[s] <= Len(tokens[s])
      /\ numCached[s] \in Nat /\ scheduled[s] \in Nat /\ Len(tokens[s]) \in Nat
  <2>1. ~Done(s)
    BY <1>1 DEF Done
  <2>2. numCached[s] \in Nat /\ scheduled[s] \in Nat /\ Len(tokens[s]) \in Nat
    BY <1>1, <1>2, ReuseTypes DEF BMTypeOK, STypeOK
  <2> QED BY <1>1, <1>2, <2>1, <2>2 DEF SInv, ProgressInv
<1>5. tokens[s] # <<>>
  BY <1>4, EmptySeq
<1> QED BY <1>1, <1>2, <1>3, <1>4, <1>5

\* A step that leaves the engine alone.
LEMMA EngineRests ==
  ASSUME ReuseInv, UNCHANGED engineVars, [DB!DBNext]_(DB!dbVars),
         \A s \in Seqs : sessions'[s] = sessions[s]
  PROVE  Refines /\ LookupsInv'
<1>1. UNCHANGED vars
  BY DEF engineVars
<1>2. Works
  BY <1>1 DEF Works
<1> QED BY <1>2, LookupsKept DEF Refines, ReuseInv, EInv

\* A step that leaves the database alone.
LEMMA DatabaseRests ==
  ASSUME ReuseInv, UNCHANGED dbVars, [EngineNext]_engineVars, Works
  PROVE  Refines /\ LookupsInv' /\ storing' = storing
<1>1. UNCHANGED DB!dbVars /\ sessions' = sessions /\ storing' = storing
  BY DEF dbVars, DB!dbVars, DB!storeVars, DB!indexVars
<1> QED BY <1>1, LookupsKept DEF Refines, ReuseInv, EInv

\* add_request: lookup_cpu_context, and the request enters the queue.
LEMMA AddRequestReuseStep ==
  ASSUME ReuseInv, NEW s \in Seqs, NEW p \in Prompts, AddRequestReuse(s, p)
  PROVE  Keeps
<1> DEFINE found == Len(sessions'[s].handles)
           h == IF found < Reusable(p) THEN found ELSE Reusable(p)
<1>t. /\ SInv /\ BMTypeOK /\ STypeOK /\ DatabaseInv /\ LookupsInv /\ PersistInv
      /\ p \in Seq(Token) /\ p # <<>> /\ Len(p) \in Nat
  <2>1. p \in Seq(Token) /\ p # <<>>
    BY FinitenessAssumption
  <2> QED BY <2>1, ReuseTypes, LenProperties DEF ReuseInv
<1>0. /\ persisting = "no" /\ DB!CreateSession(s, BlocksOf(p)) /\ AddRequest(s, p, h)
      /\ UNCHANGED <<kv, restored, persisting>>
  BY DEF AddRequestReuse
<1>1. DB!DBNext
  BY <1>0 DEF PromptContexts, DB!DBNext
<1>2. DatabaseInv'
  BY <1>1, <1>t, DatabaseStep
<1>3. found \in Nat
  <2>1. sessions' \in [Seqs \cup {Persister} ->
          [tokens : PromptContexts \cup {<<>>}, handles : Seq(P!Handle)]]
    BY <1>2 DEF DatabaseInv, P!IndexInv, P!SessionTypes
  <2>2. sessions'[s].handles \in Seq(P!Handle)
    BY <2>1
  <2> QED BY <2>2, LenProperties
<1>4. Reusable(p) \in Nat /\ h \in CpuMatches(p) /\ h <= found
  <2>1. Len(p) - 1 \in Nat
    BY <1>t, EmptySeq
  <2>2. Reusable(p) \in Nat
    BY <2>1, DivBounds DEF Reusable
  <2>3. CpuMatches(p) = 0 .. Reusable(p)
    BY ReuseAssumption DEF CpuMatches, Reusable
  <2> HIDE DEF found
  <2> QED BY <1>3, <2>2, <2>3
<1> HIDE DEF found, h
<1>5. [EngineNext]_engineVars
  <2>1. Arrivals
    BY <1>0, <1>4 DEF Arrivals
  <2> QED BY <1>0, <2>1 DEF EngineNext, OwnersCalls
<1>6. LookupsInv'
  <2>1. /\ tokens' = [tokens EXCEPT ![s] = p]
        /\ numPrompt' = [numPrompt EXCEPT ![s] = Len(p)]
        /\ cpuHandles' = [cpuHandles EXCEPT ![s] = h]
        /\ numCached' = numCached /\ restorePending' = restorePending /\ pc = "idle"
    BY <1>0 DEF AddRequest, NewSequence
  <2>2. \A r \in Seqs : ~restorePending[r]
    BY <1>t, <2>1 DEF SInv, RestoreInv
  <2>3. /\ sessions'[s].tokens = BlocksOf(p)
        /\ \A r \in Seqs : r # s => sessions'[r] = sessions[r]
    <3>1. PICK hs : sessions' = [sessions EXCEPT ![s] = [tokens |-> BlocksOf(p), handles |-> hs]]
      BY <1>0 DEF DB!CreateSession
    <3> QED BY <1>t, <3>1, SessionTyped
  <2>4. SubSeq(p, 1, Len(p)) = p
    BY <1>t
  <2> SUFFICES ASSUME NEW r \in Seqs
               PROVE  /\ tokens'[r] # <<>> =>
                           /\ PromptOf(r)' \in Prompts
                           /\ sessions'[r].tokens = BlocksOf(PromptOf(r)')
                      /\ cpuHandles'[r] <= Len(sessions'[r].handles)
                      /\ restorePending'[r] => numCached'[r] = cpuHandles'[r] * BlockSize
    BY DEF LookupsInv
  <2>5. CASE r = s
    <3>1. PromptOf(r)' = p
      BY <1>t, <2>1, <2>4, <2>5 DEF PromptOf, BMTypeOK, STypeOK
    <3>2. cpuHandles'[r] = h
      BY <1>t, <2>1, <2>5 DEF STypeOK
    <3> QED BY <1>4, <2>1, <2>2, <2>3, <2>5, <3>1, <3>2 DEF found
  <2>6. CASE r # s
    <3>1. PromptOf(r)' = PromptOf(r) /\ tokens'[r] = tokens[r] /\ cpuHandles'[r] = cpuHandles[r]
      BY <1>t, <2>1, <2>6 DEF PromptOf, BMTypeOK, STypeOK
    <3> QED BY <1>t, <2>1, <2>2, <2>3, <2>6, <3>1 DEF LookupsInv
  <2> QED BY <2>5, <2>6
<1>7. PersistInv'
  BY <1>0, <1>t DEF PersistInv, DB!CreateSession
<1> QED BY <1>1, <1>5, <1>6, <1>7 DEF Keeps, Refines
-----------------------------------------------------------------------------
(* Restores *)

\* What a restore loads next: the handle is one of the request's session, the
\* restore is not complete before it, and what it reads, if it resolves, is the
\* KV of that block of the request.
LEMMA NextLoad ==
  ASSUME ReuseInv, NEW s \in Pending, restored < cpuHandles[s]
  PROVE  /\ s \in Seqs /\ Computed(s) = cpuHandles[s]
         /\ NextHandle(s) \in DB!ToSet(sessions[s].handles)
         /\ DB!Resolves(NextHandle(s)) =>
              tensor[NextHandle(s)[1]] = BlockRows(s, restored + 1)
<1> DEFINE i == restored + 1
<1>t. SInv /\ IInv /\ STypeOK /\ KVTypeOK /\ DatabaseInv /\ LookupsInv
  BY ReuseTypes DEF ReuseInv
<1>1. s \in Seqs /\ restorePending[s]
  BY <1>t, PendingOne
<1>2. /\ cpuHandles[s] \in Nat /\ restored \in Nat
      /\ cpuHandles[s] <= Len(sessions[s].handles)
      /\ numCached[s] = cpuHandles[s] * BlockSize
  BY <1>t, <1>1 DEF STypeOK, KVTypeOK, LookupsInv
<1>3. Computed(s) = cpuHandles[s]
  BY <1>2, DivMul DEF Computed
<1>4. /\ Len(sessions[s].handles) \in Nat
      /\ Len(sessions[s].handles) <= Len(sessions[s].tokens)
      /\ DOMAIN sessions[s].handles = 1 .. Len(sessions[s].handles)
      /\ \A j \in 1 .. Len(sessions[s].handles) : sessions[s].handles[j] \in DOMAIN issued
  BY <1>t, <1>1, SessionTyped
<1>5. i \in 1 .. Len(sessions[s].handles) /\ i \in Nat /\ i > 0
  BY <1>2, <1>4
<1>h. NextHandle(s) = sessions[s].handles[i]
  BY DEF NextHandle
<1>6. NextHandle(s) \in DB!ToSet(sessions[s].handles)
  BY <1>4, <1>5, <1>h DEF DB!ToSet
<1>7. tokens[s] # <<>>
  <2>1. numCached[s] \in Nat /\ numCached[s] <= Len(tokens[s]) /\ Len(tokens[s]) \in Nat
    BY <1>t, <1>1, CountsFit
  <2>2. numCached[s] >= BlockSize
    <3>1. 1 * BlockSize <= cpuHandles[s] * BlockSize
      BY <1>2, MulMonoWeak
    <3> QED BY <1>2, <3>1, BlockSizeAssumption
  <2> QED BY <2>1, <2>2, EmptySeq, BlockSizeAssumption
<1>8. /\ PromptOf(s) \in Seq(Token)
      /\ sessions[s].tokens = BlocksOf(PromptOf(s))
  BY <1>t, <1>1, <1>7, ReuseTypes DEF LookupsInv
<1>9. i \in 1 .. Len(PromptOf(s)) \div BlockSize
  <2>1. /\ Len(sessions[s].tokens) = Len(PromptOf(s)) \div BlockSize
        /\ Len(sessions[s].tokens) \in Nat
    BY <1>8, BlocksFacts
  <2> QED BY <1>4, <1>5, <2>1
<1>10. issued[NextHandle(s)] = BlockRows(s, i)
  <2>1. issued[sessions[s].handles[i]] = RowsOf(SubSeq(sessions[s].tokens, 1, i))
    BY <1>t, <1>1, <1>5 DEF DatabaseInv, P!SessionsRight
  <2>2. RowsOf(SubSeq(BlocksOf(PromptOf(s)), 1, i)) = BlockRows(s, i)
    BY <1>1, <1>9, ContextRows
  <2> QED BY <1>8, <1>h, <2>1, <2>2
<1>11. DB!Resolves(NextHandle(s)) => tensor[NextHandle(s)[1]] = issued[NextHandle(s)]
  <2>1. NextHandle(s) \in DOMAIN issued
    BY <1>4, <1>5, <1>h
  <2>2. P!Resolves(NextHandle(s)) => tensor[NextHandle(s)[1]] = issued[NextHandle(s)]
    BY <1>t, <2>1 DEF DatabaseInv, P!IndexInv, P!HandleInv, P!HandlesNeverAliased
  <2> QED BY <2>2, SameStore DEF DB!Resolves, P!Resolves
<1> QED BY <1>1, <1>3, <1>6, <1>10, <1>11

\* A load is a use of the request's session.
LEMMA LoadIsUse ==
  ASSUME ReuseInv, persisting = "no", NEW s \in Pending, restored < cpuHandles[s],
         Load(NextHandle(s))
  PROVE  /\ DB!DBNext /\ DB!Resolves(NextHandle(s))
         /\ sessions' = sessions /\ storing' = storing
<1>1. s \in Seqs /\ NextHandle(s) \in DB!ToSet(sessions[s].handles)
  BY NextLoad
<1>2. storing = Nobody
  BY DEF ReuseInv, PersistInv
<1>3. DB!UseSession(s)
  BY <1>1, <1>2 DEF DB!UseSession, Load
<1>4. DB!Resolves(NextHandle(s)) /\ sessions' = sessions /\ storing' = storing
  BY DEF Load, DB!Use
<1> QED BY <1>1, <1>3, <1>4 DEF DB!DBNext

\* cpu_store.load_into of the next block.
LEMMA LoadBlockStep ==
  ASSUME ReuseInv, LoadBlock
  PROVE  Keeps
<1>1. /\ pc = "dispatch" /\ persisting = "no" /\ restored' = restored + 1
      /\ UNCHANGED vars /\ persisting' = persisting
  BY DEF LoadBlock
<1>2. PICK s \in Pending :
        /\ restored < cpuHandles[s] /\ Load(NextHandle(s))
        /\ kv' = [kv EXCEPT ![blockTable[s][restored + 1]] = tensor[NextHandle(s)[1]]]
  BY DEF LoadBlock
<1>3. DB!DBNext /\ sessions' = sessions /\ storing' = storing
      /\ DB!Resolves(NextHandle(s))
  BY <1>1, <1>2, LoadIsUse
<1>4. /\ Computed(s) = cpuHandles[s]
      /\ tensor[NextHandle(s)[1]] = BlockRows(s, restored + 1)
  BY <1>2, <1>3, NextLoad
<1>5. RestoreBlock
  BY <1>1, <1>2, <1>4 DEF RestoreBlock
<1>6. [EngineNext]_engineVars
  BY <1>5 DEF EngineNext, RestoreStep
<1>7. LookupsInv'
  <2>1. SInv /\ DatabaseInv /\ LookupsInv
    BY ReuseTypes DEF ReuseInv
  <2>2. Works
    BY <1>1 DEF Works
  <2> QED BY <1>3, <2>1, <2>2, LookupsKept
<1>8. PersistInv'
  BY <1>1, <1>3 DEF ReuseInv, PersistInv
<1> QED BY <1>3, <1>6, <1>7, <1>8 DEF Keeps, Refines

\* copy_ raises: the database has used the block, the engine starts over.
LEMMA LoadFailsStep ==
  ASSUME ReuseInv, LoadFails
  PROVE  Keeps
<1>1. persisting = "no" /\ RestoreFails /\ persisting' = persisting
  BY DEF LoadFails
<1>2. PICK s \in Pending : restored < cpuHandles[s] /\ Load(NextHandle(s))
  BY DEF LoadFails
<1>3. DB!DBNext /\ sessions' = sessions /\ storing' = storing
  BY <1>1, <1>2, LoadIsUse
<1>4. RollbackCpuRestore
  BY <1>1 DEF RestoreFails
<1>5. [EngineNext]_engineVars
  BY <1>1 DEF EngineNext, RestoreStep
<1>6. LookupsInv'
  <2>1. SInv /\ DatabaseInv /\ LookupsInv
    BY ReuseTypes DEF ReuseInv
  <2>2. Works
    BY <1>4 DEF Works
  <2> QED BY <1>3, <2>1, <2>2, LookupsKept
<1>7. PersistInv'
  BY <1>1, <1>3 DEF ReuseInv, PersistInv
<1> QED BY <1>3, <1>5, <1>6, <1>7 DEF Keeps, Refines
-----------------------------------------------------------------------------
(* The engine's own steps, and persist_cpu_contexts *)

\* Outside persist_cpu_contexts the engine steps without the database.
LEMMA EngineOnlyStep ==
  ASSUME ReuseInv, persisting = "no", UNCHANGED <<dbVars, persisting>>,
         \/ (ClearGpuPrefixCache \/ StepControl) /\ UNCHANGED <<kv, restored>>
         \/ RestoreDone \/ RestoreFails
  PROVE  Keeps
<1>1. CASE (ClearGpuPrefixCache \/ StepControl) /\ UNCHANGED <<kv, restored>>
  <2>1. Works
    BY <1>1 DEF Works
  <2>2. [EngineNext]_engineVars
    BY <1>1 DEF EngineNext, OwnersCalls, DenseStep
  <2>3. Refines /\ LookupsInv' /\ storing' = storing
    BY <2>1, <2>2, DatabaseRests
  <2> QED BY <2>3 DEF Keeps, ReuseInv, PersistInv
<1>2. CASE RestoreDone \/ RestoreFails
  <2>1. Works
    BY <1>2 DEF Works, RestoreDone, RestoreFails
  <2>2. [EngineNext]_engineVars
    BY <1>2 DEF EngineNext, RestoreStep
  <2>3. Refines /\ LookupsInv' /\ storing' = storing
    BY <2>1, <2>2, DatabaseRests
  <2> QED BY <2>3 DEF Keeps, ReuseInv, PersistInv
<1> QED BY <1>1, <1>2

\* The forward pass; after a prefill persist_cpu_contexts begins.
LEMMA RunReuseStep ==
  ASSUME ReuseInv, RunReuse
  PROVE  Keeps
<1>1. /\ persisting = "no" /\ Run /\ StoreKV /\ UNCHANGED restored /\ UNCHANGED dbVars
      /\ persisting' = IF prefillStep THEN "lookup" ELSE "no"
  BY DEF RunReuse
<1>2. Works
  BY <1>1 DEF Works
<1>3. [EngineNext]_engineVars
  BY <1>1 DEF EngineNext, DenseStep
<1>4. Refines /\ LookupsInv' /\ storing' = storing
  BY <1>1, <1>2, <1>3, DatabaseRests
<1>5. pc = "dispatch" /\ pc' = "post" /\ batch' = batch
  BY <1>1 DEF Run
<1>6. prefillStep => batch # <<>>
  BY <1>5, ReuseTypes DEF SInv, BatchInv
<1>7. PersistInv'
  BY <1>1, <1>4, <1>5, <1>6 DEF ReuseInv, PersistInv
<1> QED BY <1>4, <1>7 DEF Keeps

\* The request whose prompt is stored is in the engine with that prompt.
LEMMA PersistedPrompt ==
  ASSUME ReuseInv, persisting # "no"
  PROVE  PromptOf(Head(batch)) \in Prompts
BY BatchIsKnown DEF ReuseInv, LookupsInv

\* A chunk that does not end the prompt is not stored.
LEMMA PersistNothingStep ==
  ASSUME ReuseInv, PersistNothing
  PROVE  Keeps
<1>1. persisting = "lookup" /\ persisting' = "no" /\ UNCHANGED engineVars /\ UNCHANGED dbVars
  BY DEF PersistNothing
<1>2. sessions' = sessions /\ storing' = storing /\ UNCHANGED DB!dbVars
  BY <1>1 DEF dbVars, DB!dbVars, DB!storeVars, DB!indexVars
<1>3. Refines /\ LookupsInv'
  BY <1>1, <1>2, EngineRests
<1>4. PersistInv'
  BY <1>1, <1>2 DEF ReuseInv, PersistInv
<1> QED BY <1>3, <1>4 DEF Keeps

\* The engine's variables that PersistInv reads.
LEMMA EngineUnchanged ==
  ASSUME UNCHANGED engineVars
  PROVE  /\ pc' = pc /\ batch' = batch
         /\ PromptOf(Head(batch))' = PromptOf(Head(batch))
         /\ PromptComputed(Head(batch))' = PromptComputed(Head(batch))
BY DEF engineVars, vars, bmVars, seqVars, stepVars, PromptOf, PromptComputed

\* get_or_create of the prompt's session.
LEMMA PersistLookupStep ==
  ASSUME ReuseInv, PersistLookup
  PROVE  Keeps
<1> DEFINE c == BlocksOf(PromptOf(Head(batch)))
<1>1. /\ persisting = "lookup" /\ PromptComputed(Head(batch)) /\ UNCHANGED engineVars
      /\ DB!CreateSession(Persister, c)
      /\ persisting' = IF sessions'[Persister].tokens = <<>> THEN "no" ELSE "start"
  BY DEF PersistLookup
<1>2. c \in PromptContexts
  BY <1>1, PersistedPrompt DEF PromptContexts
<1>s. c = BlocksOf(PromptOf(Head(batch)))
  OBVIOUS
<1> HIDE DEF c
<1>3. DB!DBNext
  BY <1>1, <1>2 DEF DB!DBNext
<1>4. /\ storing' = storing /\ sessions'[Persister].tokens = c
      /\ \A s \in Seqs : sessions'[s] = sessions[s]
  <2>1. PICK hs : sessions' = [sessions EXCEPT ![Persister] = [tokens |-> c, handles |-> hs]]
    BY <1>1 DEF DB!CreateSession
  <2>2. storing' = storing
    BY <1>1 DEF DB!CreateSession
  <2>3. DOMAIN sessions = Seqs \cup {Persister} /\ Persister \notin Seqs
    BY SessionTyped, ReuseAssumption DEF ReuseInv
  <2> QED BY <2>1, <2>2, <2>3
<1>5. Refines /\ LookupsInv'
  BY <1>1, <1>3, <1>4, EngineRests
<1>6. PersistInv'
  <2>1. storing = Nobody /\ pc = "post" /\ batch # <<>>
    BY <1>1 DEF ReuseInv, PersistInv
  <2> QED BY <1>1, <1>4, <1>s, <2>1, EngineUnchanged DEF PersistInv
<1> QED BY <1>5, <1>6 DEF Keeps

\* A step of the store of the prompt's session.
LEMMA StoringSteps ==
  ASSUME ReuseInv, persisting \in {"start", "store"}, UNCHANGED engineVars,
         DB!DBNext, \A c \in Seqs : sessions'[c] = sessions[c],
         persisting' \in {"no", "store"},
         storing' = IF persisting' = "store" THEN Persister ELSE Nobody,
         persisting' = "store" => sessions' = sessions
  PROVE  Keeps
<1>1. Refines /\ LookupsInv'
  BY EngineRests
<1>2. PersistInv'
  BY EngineUnchanged DEF ReuseInv, PersistInv
<1> QED BY <1>1, <1>2 DEF Keeps

\* store_session begins.
LEMMA PersistStartStep ==
  ASSUME ReuseInv, PersistStart
  PROVE  Keeps
<1>1. /\ persisting = "start" /\ persisting' = "store" /\ UNCHANGED engineVars
      /\ DB!StartStore(Persister)
  BY DEF PersistStart
<1>2. DB!DBNext /\ storing' = Persister /\ sessions' = sessions
  BY <1>1 DEF DB!DBNext, DB!StartStore
<1> QED BY <1>1, <1>2, StoringSteps

\* The store gives up.
LEMMA PersistFailsStep ==
  ASSUME ReuseInv, PersistFails
  PROVE  Keeps
<1>1. /\ persisting = "store" /\ persisting' = "no" /\ UNCHANGED engineVars
      /\ DB!StoreSessionFails
  BY DEF PersistFails
<1>2. DB!DBNext /\ storing' = Nobody /\ sessions' = sessions
  BY <1>1 DEF DB!DBNext, DB!StoreSessionFails
<1> QED BY <1>1, <1>2, StoringSteps

\* The lookup after the last block.
LEMMA PersistEndStep ==
  ASSUME ReuseInv, PersistEnd
  PROVE  Keeps
<1>1. /\ persisting = "store" /\ persisting' = "no" /\ UNCHANGED engineVars
      /\ DB!EndStore
  BY DEF PersistEnd
<1>2. storing = Persister /\ Persister \notin Seqs
  BY <1>1, ReuseAssumption DEF ReuseInv, PersistInv
<1>3. DB!DBNext /\ storing' = Nobody
  BY <1>1 DEF DB!DBNext, DB!EndStore
<1>4. \A s \in Seqs : sessions'[s] = sessions[s]
  <2>1. PICK hs : sessions' = [sessions EXCEPT ![storing].handles = hs]
    BY <1>1 DEF DB!EndStore
  <2>2. DOMAIN sessions = Seqs \cup {Persister}
    BY SessionTyped DEF ReuseInv
  <2> QED BY <1>2, <2>1, <2>2
<1> QED BY <1>1, <1>3, <1>4, StoringSteps
\* What persist_cpu_contexts copies to the store is the KV of that block of the
\* prompt: cached before the step, or just computed.
LEMMA PersistedRows ==
  ASSUME ReuseInv, persisting = "store", next <= Len(sessions[Persister].tokens)
  PROVE  kv[PersistedBlock(Head(batch))] = RowsOf(SubSeq(sessions[Persister].tokens, 1, next))
<1> DEFINE s == Head(batch)
           i == next - 1
<1>t. SInv /\ IInv /\ BMTypeOK /\ STypeOK /\ KVTypeOK /\ DatabaseInv /\ RowsInv /\ ChunkRight
  BY ReuseTypes DEF ReuseInv, EInv
<1>1. /\ s \in Seqs /\ s \in Range(batch) /\ pc = "post" /\ ~restorePending[s]
      /\ Len(blockTable[s]) = NumBlocks(s)
  BY BatchIsKnown
<1>2. /\ PromptOf(s) \in Seq(Token) /\ Len(PromptOf(s)) = numPrompt[s]
      /\ sessions[Persister].tokens = BlocksOf(PromptOf(s))
      /\ numPrompt[s] \in Nat /\ numPrompt[s] <= Len(tokens[s]) /\ Len(tokens[s]) \in Nat
      /\ numCached[s] + scheduled[s] >= numPrompt[s]
      /\ numCached[s] \in Nat /\ scheduled[s] \in Nat
  <2>1. numCached[s] \in Nat /\ scheduled[s] \in Nat
    BY <1>t, <1>1 DEF BMTypeOK, STypeOK
  <2>2. numCached[s] + scheduled[s] >= numPrompt[s]
        /\ sessions[Persister].tokens = BlocksOf(PromptOf(s))
    BY DEF ReuseInv, PersistInv, PromptComputed
  <2> QED BY <1>1, <2>1, <2>2, ReuseTypes
<1>3. next \in 1 .. Len(PromptOf(s)) \div BlockSize
  <2>1. storing = Persister /\ Persister # Nobody
    BY ReuseAssumption DEF ReuseInv, PersistInv
  <2>2. next \in Nat /\ next >= 1
    BY <1>t, <2>1 DEF DatabaseInv, P!IndexInv, P!StoringTypes
  <2>3. /\ Len(sessions[Persister].tokens) = Len(PromptOf(s)) \div BlockSize
        /\ Len(sessions[Persister].tokens) \in Nat
    BY <1>2, BlocksFacts
  <2> QED BY <2>2, <2>3
<1>4. /\ i \in Nat /\ i + 1 = next /\ i * BlockSize \in Nat
      /\ i * BlockSize + BlockSize <= numPrompt[s]
  <2>1. /\ next \in Nat /\ next - 1 \in Nat /\ (next - 1) * BlockSize \in Nat
        /\ next * BlockSize = (next - 1) * BlockSize + BlockSize
        /\ next * BlockSize <= Len(PromptOf(s))
    BY <1>2, <1>3, Boundaries
  <2>2. next * BlockSize <= numPrompt[s]
    BY <1>2, <2>1
  <2> QED BY <2>1, <2>2
<1>n. i = next - 1 /\ s = Head(batch)
  OBVIOUS
<1> HIDE DEF s, i
<1>5. ASSUME NEW o \in 1 .. BlockSize
      PROVE  /\ kv[blockTable[s][next]][o] = Prefix(s, i * BlockSize + o)
             /\ blockTable[s][next] \in Blocks
  <2> DEFINE p == i * BlockSize + o
  <2>1. p \in Nat /\ p > 0 /\ BlocksBefore(p) = i /\ RowOf(p) = o
    BY <1>4, PositionOf
  <2>2. p <= numPrompt[s]
    <3> DEFINE a == i * BlockSize
    <3>1. a \in Nat /\ a + BlockSize <= numPrompt[s] /\ numPrompt[s] \in Nat
          /\ o <= BlockSize /\ o \in Nat /\ BlockSize \in Nat
      BY <1>2, <1>4, BlockSizeAssumption
    <3> HIDE DEF a
    <3>2. a + o <= numPrompt[s]
      BY <3>1
    <3> QED BY <3>2 DEF a
  <2> HIDE DEF p
  <2>3. Row(s, p) = Prefix(s, p)
    <3>1. CASE p <= numCached[s]
      <4>1. p \in 1 .. numCached[s]
        BY <1>2, <2>1, <3>1
      <4>2. ContextRight(s)
        BY <1>t, <1>1 DEF RowsInv, CachedContextRight
      <4> QED BY <4>1, <4>2 DEF ContextRight
    <3>2. CASE p > numCached[s]
      <4>1. p \in Chunk(s)
        BY <1>2, <2>1, <2>2, <3>2 DEF Chunk
      <4>2. ~Done(s)
        BY <1>1 DEF Done
      <4>3. RowsRight(s, Chunk(s))
        BY <1>t, <1>1, <4>2 DEF ChunkRight
      <4> QED BY <4>1, <4>3 DEF RowsRight
    <3> QED BY <1>2, <2>1, <3>1, <3>2
  <2>4. p <= Len(blockTable[s]) * BlockSize
    <3>1. /\ Len(tokens[s]) <= Len(blockTable[s]) * BlockSize
          /\ Len(blockTable[s]) \in Nat
      BY <1>t, <1>1, NumBlocksFacts DEF BMTypeOK
    <3> DEFINE b == Len(blockTable[s]) * BlockSize
    <3>2. b \in Nat /\ Len(tokens[s]) <= b
      BY <3>1, MulType
    <3> HIDE DEF b
    <3>3. p <= b
      BY <1>2, <2>1, <2>2, <3>2
    <3> QED BY <3>3 DEF b
  <2>5. blockTable[s][BlocksBefore(p) + 1] \in Blocks
    BY <1>t, <1>1, <2>1, <2>4, PositionInTable
  <2>6. Row(s, p) = kv[blockTable[s][BlocksBefore(p) + 1]][RowOf(p)]
    BY DEF Row, BlocksBefore, RowOf
  <2>7. blockTable[s][next] \in Blocks /\ kv[blockTable[s][next]][o] = Prefix(s, p)
    BY <1>4, <2>1, <2>3, <2>5, <2>6
  <2> QED BY <2>7 DEF p
<1>6. kv[blockTable[s][next]] = BlockRows(s, next)
  <2>1. 1 \in 1 .. BlockSize
    BY BlockSizeAssumption
  <2>2. kv[blockTable[s][next]] \in [1 .. BlockSize -> Seq(Token)]
    BY <1>t, <1>5, <2>1 DEF KVTypeOK
  <2>3. kv[blockTable[s][next]] = [o \in 1 .. BlockSize |-> Prefix(s, i * BlockSize + o)]
    BY <1>5, <2>2
  <2> QED BY <1>n, <2>3 DEF BlockRows
<1>7. RowsOf(SubSeq(BlocksOf(PromptOf(s)), 1, next)) = BlockRows(s, next)
  BY <1>1, <1>3, ContextRows
<1> QED BY <1>2, <1>6, <1>7, <1>n DEF PersistedBlock

\* One round of store_session.
LEMMA PersistBlockStep ==
  ASSUME ReuseInv, PersistBlock
  PROVE  Keeps
<1>1. /\ persisting = "store" /\ persisting' = persisting /\ UNCHANGED engineVars
      /\ next <= Len(sessions[Persister].tokens)
      /\ DB!StoreNextBlock(kv[PersistedBlock(Head(batch))])
  BY DEF PersistBlock
<1>2. storing = Persister
  BY <1>1 DEF ReuseInv, PersistInv
<1>3. kv[PersistedBlock(Head(batch))] = RowsOf(SubSeq(DB!StoringTokens, 1, next))
  BY <1>1, <1>2, PersistedRows DEF DB!StoringTokens
<1>4. DB!DBNext
  BY <1>1, <1>3 DEF DB!DBNext
<1>5. sessions' = sessions /\ storing' = storing
  BY <1>1 DEF DB!StoreNextBlock
<1> QED BY <1>1, <1>2, <1>4, <1>5, StoringSteps

-----------------------------------------------------------------------------
(* The theorems *)

\* Every step refines, and keeps what ties requests and sessions.
LEMMA ReuseStep == ReuseInv /\ [ReuseNext]_reuseVars => Keeps
<1> SUFFICES ASSUME ReuseInv, [ReuseNext]_reuseVars PROVE Keeps
  OBVIOUS
<1>1. ASSUME NEW s \in Seqs, NEW p \in Prompts, AddRequestReuse(s, p) PROVE Keeps
  BY <1>1, AddRequestReuseStep
<1>2. CASE /\ persisting = "no" /\ (ClearGpuPrefixCache \/ StepControl)
           /\ UNCHANGED <<kv, restored, dbVars, persisting>>
  BY <1>2, EngineOnlyStep
<1>3. CASE LoadBlock \/ LoadFails
  BY <1>3, LoadBlockStep, LoadFailsStep
<1>4. CASE RestoreSucceeds \/ HandleIsStale
  BY <1>4, EngineOnlyStep DEF RestoreSucceeds, HandleIsStale
<1>5. CASE RunReuse
  BY <1>5, RunReuseStep
<1>6. CASE PersistNothing \/ PersistLookup \/ PersistStart
  BY <1>6, PersistNothingStep, PersistLookupStep, PersistStartStep
<1>7. CASE PersistBlock \/ PersistFails \/ PersistEnd
  BY <1>7, PersistBlockStep, PersistFailsStep, PersistEndStep
<1>8. CASE UNCHANGED reuseVars
  <2>1. UNCHANGED engineVars /\ UNCHANGED dbVars /\ persisting' = persisting
    BY <1>8 DEF reuseVars
  <2>2. sessions' = sessions /\ storing' = storing /\ UNCHANGED DB!dbVars
    BY <2>1 DEF dbVars, DB!dbVars, DB!storeVars, DB!indexVars
  <2>3. Refines /\ LookupsInv'
    BY <2>1, <2>2, EngineRests
  <2>4. PersistInv'
    BY <2>1, <2>2, EngineUnchanged DEF ReuseInv, PersistInv
  <2> QED BY <2>3, <2>4 DEF Keeps
<1> QED BY <1>1, <1>2, <1>3, <1>4, <1>5, <1>6, <1>7, <1>8 DEF ReuseNext

\* Before the first request nothing is looked up or stored.
LEMMA InitReuseInv == ReuseInit => ReuseInv
<1> SUFFICES ASSUME ReuseInit PROVE ReuseInv
  OBVIOUS
<1>1. EngineInit /\ DB!DBInit /\ persisting = "no"
  BY DEF ReuseInit
<1>2. EInv /\ DatabaseInv
  BY <1>1, InitEInv, DatabaseInit
<1>3. LookupsInv
  <2>1. /\ \A s \in Seqs : tokens[s] = <<>> /\ cpuHandles[s] = 0 /\ ~restorePending[s]
    BY <1>1 DEF EngineInit, Init, BMInit
  <2>2. \A s \in Seqs : Len(sessions[s].handles) \in Nat
    BY <1>2, SessionTyped
  <2> QED BY <2>1, <2>2 DEF LookupsInv
<1>4. PersistInv
  BY <1>1 DEF PersistInv, DB!DBInit
<1> QED BY <1>2, <1>3, <1>4 DEF ReuseInv

\* The inductive step: the invariants of the parts follow from the refinement.
LEMMA NextReuseInv == ReuseInv /\ [ReuseNext]_reuseVars => ReuseInv' /\ Refines
<1> SUFFICES ASSUME ReuseInv, [ReuseNext]_reuseVars PROVE ReuseInv' /\ Refines
  OBVIOUS
<1>1. Refines /\ LookupsInv' /\ PersistInv'
  BY ReuseStep DEF Keeps
<1>2. EInv' /\ DatabaseInv'
  BY <1>1, NextEInv, DatabaseStep DEF ReuseInv, Refines
<1> QED BY <1>1, <1>2 DEF ReuseInv

\* The invariant holds, and every step is one of both parts or none.
LEMMA ReuseInvariance == ReuseSpec => []ReuseInv /\ [][Refines]_reuseVars
<1>1. ReuseInv /\ [ReuseNext]_reuseVars => [Refines]_reuseVars
  BY NextReuseInv
<1> QED BY InitReuseInv, NextReuseInv, <1>1, PTL DEF ReuseSpec

\* The engine with the real CPU tier is the engine: whatever the store evicted,
\* reused, tore or lost since a request's lookup, a block loaded through one of
\* its handles is the KV of the request's own prefix, and persisting disturbs no
\* request (restore_cpu_blocks, load_into, persist_cpu_contexts).
THEOREM EngineRefined == ReuseSpec => ImplementsEngine
<1>1. ReuseInit => EngineInit
  BY DEF ReuseInit
<1>2. ReuseInv /\ [ReuseNext]_reuseVars => [EngineNext]_engineVars
  BY NextReuseInv DEF Refines
<1> QED BY <1>1, <1>2, ReuseInvariance, PTL DEF ReuseSpec, ImplementsEngine, EngineSpec

\* The engine keeps the protocol of the context database, and what it stores for
\* a prefix is the KV of that prefix: cached context and computed chunks lie in
\* the blocks that persist_cpu_contexts copies from.
THEOREM ContextDBRefined == ReuseSpec => ImplementsContextDB
<1>1. ReuseInit => DB!DBInit
  BY DEF ReuseInit
<1>2. ReuseInv /\ [ReuseNext]_reuseVars => [DB!DBNext]_(DB!dbVars)
  BY NextReuseInv DEF Refines
<1> QED BY <1>1, <1>2, ReuseInvariance, PTL
    DEF ReuseSpec, ImplementsContextDB, DB!DBSpec

\* So the KV cache never lies with the CPU tier either.
THEOREM ReuseIsHonest == ReuseSpec => []CacheHonest
BY EngineRefined, CacheIsHonest, PTL DEF ImplementsEngine

\* restore_cpu_blocks never refuses a plan: when it is called, the request has as
\* many handles as it counts blocks as cached, and they are those of its session.
RestorePlanMatches ==
  \A s \in Seqs : restorePending[s] =>
    /\ numCached[s] = cpuHandles[s] * BlockSize
    /\ cpuHandles[s] <= Len(sessions[s].handles)

\* "CPU restore plan does not match cached-token count" is never raised
\* (restore_cpu_blocks), whatever was admitted, rolled back or preempted before.
THEOREM RestorePlanHolds == ReuseSpec => []RestorePlanMatches
<1>1. ReuseInv => RestorePlanMatches
  BY DEF ReuseInv, LookupsInv, RestorePlanMatches
<1> QED BY <1>1, ReuseInvariance, PTL

=============================================================================
