--------------------------- MODULE ContextDBProofs ---------------------------
(***************************************************************************)
(* Proofs about the CPU block store and the context database over it: a    *)
(* handle never reads another block, no slot is lost, eviction is least    *)
(* recently used, the index names exactly the resident blocks, a context   *)
(* that is looked up and stored in one go is found, if it fits, and, unless*)
(* chained hashes collide, a session yields only the KV of its own context.*)
(***************************************************************************)
EXTENDS ContextDB, TLAPS, SequenceTheorems, FiniteSetTheorems, WellFoundedInduction

-----------------------------------------------------------------------------
(* Sequences *)

\* A set of numbers that is not empty has a least one.
LEMMA LeastNat ==
  ASSUME NEW T \in SUBSET Nat, T # {}
  PROVE  \E n \in T : \A m \in T : n <= m
<1> DEFINE R == {ss \in Nat \X Nat : ss[1] < ss[2]}
<1>1. IsWellFoundedOn(R, Nat)
  BY NatLessThanWellFounded, Zenon DEF OpToRel
<1>2. \A x, y \in Nat : y < x => <<y, x>> \in R
  OBVIOUS
<1> HIDE DEF R
<1>3. PICK x \in T : \A y \in T : ~ (<<y, x>> \in R)
  BY <1>1, WFMin
<1>4. ASSUME NEW m \in T PROVE x <= m
  <2>1. x \in Nat /\ m \in Nat /\ ~ (m < x)
    BY <1>2, <1>3
  <2> QED BY <2>1
<1> QED BY <1>4

\* Min is one of the indices.
LEMMA MinIndex ==
  ASSUME NEW n \in Nat, NEW T \in SUBSET (1 .. n), T # {}
  PROVE  Min(T) \in T
<1>1. T \in SUBSET Nat
  OBVIOUS
<1>2. PICK x \in T : \A y \in T : x <= y
  BY <1>1, LeastNat
<1> QED BY <1>2 DEF Min

\* What is in a sequence, by its index.
LEMMA InSeq ==
  ASSUME NEW S, NEW q \in Seq(S)
  PROVE  /\ Len(q) \in Nat
         /\ \A i \in 1 .. Len(q) : q[i] \in S /\ q[i] \in ToSet(q)
         /\ \A x \in ToSet(q) : \E i \in 1 .. Len(q) : q[i] = x
         /\ ToSet(q) \subseteq S
BY LenProperties, ElementOfSeq DEF ToSet

\* RemoveAt takes out one element and keeps the order of the others.
LEMMA RemoveAtKeeps ==
  ASSUME NEW S, NEW q \in Seq(S), NEW k \in 1 .. Len(q)
  PROVE  /\ RemoveAt(q, k) \in Seq(S) /\ Len(RemoveAt(q, k)) = Len(q) - 1
         /\ \A i \in 1 .. Len(q) - 1 :
              RemoveAt(q, k)[i] = IF i < k THEN q[i] ELSE q[i + 1]
<1> DEFINE u == RemoveAt(q, k)
           a == SubSeq(q, 1, k - 1)
           b == SubSeq(q, k + 1, Len(q))
<1>1. u = a \o b
  BY DEF RemoveAt
<1>2. Len(q) \in Nat /\ k \in Nat
  BY InSeq
<1>3. /\ a \in Seq(S) /\ Len(a) = k - 1
      /\ \A i \in 1 .. k - 1 : a[i] = q[i]
  BY <1>2, InSeq, SubSeqProperties
<1>4. /\ b \in Seq(S) /\ Len(b) = Len(q) - k
      /\ \A i \in 1 .. Len(q) - k : b[i] = q[k + i]
  BY <1>2, InSeq, SubSeqProperties
<1> HIDE DEF u, a, b
<1>5. /\ u \in Seq(S) /\ Len(u) = Len(a) + Len(b)
      /\ \A i \in 1 .. Len(a) + Len(b) :
           u[i] = IF i <= Len(a) THEN a[i] ELSE b[i - Len(a)]
  BY <1>1, <1>3, <1>4, ConcatProperties
<1>6. Len(a) + Len(b) = Len(q) - 1
  BY <1>2, <1>3, <1>4
<1>7. ASSUME NEW i \in 1 .. Len(q) - 1, i >= k
      PROVE  b[i - Len(a)] = q[i + 1]
  <2>1. i - (k - 1) \in 1 .. Len(q) - k /\ k + (i - (k - 1)) = i + 1
    BY <1>2, <1>7
  <2> QED BY <1>3, <1>4, <2>1
<1>8. ASSUME NEW i \in 1 .. Len(q) - 1
      PROVE  u[i] = IF i < k THEN q[i] ELSE q[i + 1]
  <2>1. u[i] = IF i <= k - 1 THEN a[i] ELSE b[i - Len(a)]
    BY <1>3, <1>5, <1>6
  <2>2. CASE i < k
    <3>1. i \in 1 .. k - 1 /\ i <= k - 1
      BY <1>2, <2>2
    <3> QED BY <1>3, <2>1, <2>2, <3>1
  <2>3. CASE i >= k
    <3>1. ~ (i <= k - 1) /\ ~ (i < k)
      BY <1>2, <2>3
    <3> QED BY <1>7, <2>1, <2>3, <3>1
  <2> QED BY <1>2, <2>2, <2>3
<1> QED BY <1>5, <1>6, <1>8 DEF u

\* u is q without element k: every pair of elements of u is one of q, in the
\* same order, and only element k is gone.
TakesOut(u, q, k) ==
  /\ \A i \in 1 .. Len(u) : \E m \in (1 .. Len(q)) \ {k} : u[i] = q[m]
  /\ \A m \in (1 .. Len(q)) \ {k} : \E i \in 1 .. Len(u) : u[i] = q[m]
  /\ \A i, j \in 1 .. Len(u) : i < j =>
       \E m, n \in (1 .. Len(q)) \ {k} : m < n /\ u[i] = q[m] /\ u[j] = q[n]

\* RemoveAt takes an element out.
LEMMA RemoveAtIndices ==
  ASSUME NEW S, NEW q \in Seq(S), NEW k \in 1 .. Len(q)
  PROVE  RemoveAt(q, k) \in Seq(S) /\ TakesOut(RemoveAt(q, k), q, k)
<1> DEFINE u == RemoveAt(q, k)
<1>1. /\ u \in Seq(S) /\ Len(u) = Len(q) - 1
      /\ \A i \in 1 .. Len(q) - 1 : u[i] = IF i < k THEN q[i] ELSE q[i + 1]
  BY RemoveAtKeeps
<1>2. Len(q) \in Nat /\ k \in Nat
  BY InSeq
<1> HIDE DEF u
<1> DEFINE from(i) == IF i < k THEN i ELSE i + 1
<1>3. \A i \in 1 .. Len(u) : from(i) \in (1 .. Len(q)) \ {k} /\ u[i] = q[from(i)]
  BY <1>1, <1>2
<1>4. \A i, j \in 1 .. Len(u) : i < j => from(i) < from(j)
  BY <1>1, <1>2
<1>5. ASSUME NEW m \in (1 .. Len(q)) \ {k} PROVE \E i \in 1 .. Len(u) : u[i] = q[m]
  <2>1. CASE m < k
    <3>1. m \in 1 .. Len(u) /\ u[m] = q[m]
      BY <1>1, <1>2, <2>1
    <3> QED BY <3>1
  <2>2. CASE m > k
    <3>1. m - 1 \in 1 .. Len(u) /\ u[m - 1] = q[m]
      BY <1>1, <1>2, <2>2
    <3> QED BY <3>1
  <2> QED BY <1>2, <2>1, <2>2
<1> HIDE DEF from, u
<1>6. TakesOut(u, q, k)
  BY <1>3, <1>4, <1>5 DEF TakesOut
<1> QED BY <1>1, <1>6 DEF u

\* The only index of an element is the one that a search for it selects.
LEMMA RemoveFirstOnly ==
  ASSUME NEW S, NEW q \in Seq(S), IsInjective(q), NEW s
  PROVE  /\ RemoveFirst(q, s) \in Seq(S) /\ IsInjective(RemoveFirst(q, s))
         /\ ToSet(RemoveFirst(q, s)) = ToSet(q) \ {s}
         /\ \A i, j \in 1 .. Len(RemoveFirst(q, s)) : i < j =>
              \E m, n \in 1 .. Len(q) :
                m < n /\ RemoveFirst(q, s)[i] = q[m] /\ RemoveFirst(q, s)[j] = q[n]
<1> DEFINE u == RemoveFirst(q, s)
<1>1. Len(q) \in Nat /\ DOMAIN q = 1 .. Len(q)
  BY InSeq
<1>2. CASE s \notin ToSet(q)
  <2>1. u = q
    BY <1>2, InSeq DEF RemoveFirst
  <2> HIDE DEF u
  <2>2. /\ u \in Seq(S) /\ IsInjective(u) /\ ToSet(u) = ToSet(q) \ {s}
        /\ \A i, j \in 1 .. Len(u) : i < j =>
             \E m, n \in 1 .. Len(q) : m < n /\ u[i] = q[m] /\ u[j] = q[n]
    BY <1>2, <2>1
  <2> QED BY <2>2 DEF u
<1>3. CASE s \in ToSet(q)
  <2>1. PICK k \in 1 .. Len(q) : q[k] = s
    BY <1>3, InSeq
  <2>2. \A i \in 1 .. Len(q) : q[i] = s => i = k
    BY <1>1, <2>1 DEF IsInjective
  <2> DEFINE I == {i \in 1 .. Len(q) : q[i] = s}
  <2>3. I = {k} /\ Min(I) = k
    <3>1. I = {k}
      BY <2>1, <2>2
    <3> HIDE DEF I
    <3> QED BY <1>1, <3>1 DEF Min
  <2>4. u = RemoveAt(q, SelectInSeq(q, LAMBDA v : v = s))
    BY <2>1 DEF RemoveFirst
  <2>5. SelectInSeq(q, LAMBDA v : v = s) = IF I # {} THEN Min(I) ELSE 0
    BY DEF SelectInSeq
  <2> HIDE DEF u, I
  <2>6. u = RemoveAt(q, k)
    BY <2>3, <2>4, <2>5
  <2>7. u \in Seq(S) /\ TakesOut(u, q, k)
    BY <2>6, RemoveAtIndices
  <2>8. IsInjective(u)
    <3> SUFFICES ASSUME NEW i \in 1 .. Len(u), NEW j \in 1 .. Len(u), i < j,
                        u[i] = u[j]
                 PROVE  FALSE
      <4>1. DOMAIN u = 1 .. Len(u) /\ Len(u) \in Nat
        BY <2>7, InSeq
      <4>2. \A i, j \in 1 .. Len(u) : i < j \/ j < i \/ i = j
        BY <4>1
      <4> QED BY <4>1, <4>2 DEF IsInjective
    <3>1. PICK m, n \in (1 .. Len(q)) \ {k} : m < n /\ u[i] = q[m] /\ u[j] = q[n]
      BY <2>7 DEF TakesOut
    <3>2. m # n
      BY <1>1, <3>1
    <3> QED BY <1>1, <3>1, <3>2 DEF IsInjective
  <2>9. ToSet(u) = ToSet(q) \ {s}
    <3>1. ASSUME NEW x \in ToSet(u) PROVE x \in ToSet(q) /\ x # s
      <4>1. PICK i \in 1 .. Len(u) : u[i] = x
        BY <2>7, InSeq
      <4>2. PICK m \in (1 .. Len(q)) \ {k} : u[i] = q[m]
        BY <2>7 DEF TakesOut
      <4> QED BY <2>2, <4>1, <4>2, InSeq
    <3>2. ASSUME NEW x \in ToSet(q), x # s PROVE x \in ToSet(u)
      <4>1. PICK m \in 1 .. Len(q) : q[m] = x
        BY InSeq
      <4>2. PICK i \in 1 .. Len(u) : u[i] = q[m]
        BY <2>1, <2>7, <3>2, <4>1 DEF TakesOut
      <4> QED BY <2>7, <4>1, <4>2, InSeq
    <3> QED BY <3>1, <3>2
  <2>10. ASSUME NEW i \in 1 .. Len(u), NEW j \in 1 .. Len(u), i < j
         PROVE  \E m, n \in 1 .. Len(q) : m < n /\ u[i] = q[m] /\ u[j] = q[n]
    <3>1. PICK m, n \in (1 .. Len(q)) \ {k} : m < n /\ u[i] = q[m] /\ u[j] = q[n]
      BY <2>7, <2>10 DEF TakesOut
    <3> QED BY <3>1
  <2> QED BY <2>7, <2>8, <2>9, <2>10 DEF u
<1> QED BY <1>2, <1>3

\* Each handle has one entry at most.
HandlesOnce(es) ==
  \A m, n \in 1 .. Len(es) : es[m].handle = es[n].handle => m = n

\* Removing a handle removes its entry and no other.
LEMMA WithoutOne ==
  ASSUME NEW S, NEW es \in Seq(S), HandlesOnce(es), NEW h
  PROVE  /\ Without(es, {h}) \in Seq(S) /\ HandlesOnce(Without(es, {h}))
         /\ \A e : e \in ToSet(Without(es, {h})) <=> e \in ToSet(es) /\ e.handle # h
<1> DEFINE u == Without(es, {h})
<1>1. Len(es) \in Nat /\ DOMAIN es = 1 .. Len(es)
  BY InSeq
<1>2. CASE \A n \in 1 .. Len(es) : es[n].handle # h
  <2>1. u = es
    BY <1>2 DEF Without, RemoveFirstMatch
  <2> HIDE DEF u
  <2>2. \A e : e \in ToSet(u) <=> e \in ToSet(es) /\ e.handle # h
    BY <1>2, <2>1, InSeq
  <2>3. u \in Seq(S) /\ HandlesOnce(u)
    BY <2>1
  <2> QED BY <2>2, <2>3 DEF u
<1>3. CASE \E n \in 1 .. Len(es) : es[n].handle = h
  <2>1. PICK k \in 1 .. Len(es) : es[k].handle = h
    BY <1>3
  <2>2. \A i \in 1 .. Len(es) : es[i].handle = h => i = k
    BY <2>1 DEF HandlesOnce
  <2> DEFINE I == {i \in 1 .. Len(es) : es[i].handle \in {h}}
  <2>3. I = {k} /\ Min(I) = k
    <3>1. I = {k}
      BY <2>1, <2>2
    <3> HIDE DEF I
    <3> QED BY <1>1, <3>1 DEF Min
  <2>4. u = RemoveAt(es, SelectInSeq(es, LAMBDA e : e.handle \in {h}))
    BY <2>1 DEF Without, RemoveFirstMatch
  <2>5. SelectInSeq(es, LAMBDA e : e.handle \in {h}) = IF I # {} THEN Min(I) ELSE 0
    BY DEF SelectInSeq
  <2> HIDE DEF u, I
  <2>6. u = RemoveAt(es, k)
    BY <2>3, <2>4, <2>5
  <2>7. u \in Seq(S) /\ TakesOut(u, es, k)
    BY <2>6, RemoveAtIndices
  <2>8. HandlesOnce(u)
    <3> SUFFICES ASSUME NEW i \in 1 .. Len(u), NEW j \in 1 .. Len(u), i < j,
                        u[i].handle = u[j].handle
                 PROVE  FALSE
      <4>1. Len(u) \in Nat
        BY <2>7, InSeq
      <4>2. \A i, j \in 1 .. Len(u) : i < j \/ j < i \/ i = j
        BY <4>1
      <4> QED BY <4>2 DEF HandlesOnce
    <3>1. PICK m, n \in (1 .. Len(es)) \ {k} : m < n /\ u[i] = es[m] /\ u[j] = es[n]
      BY <2>7 DEF TakesOut
    <3>2. m # n
      BY <1>1, <3>1
    <3> QED BY <3>1, <3>2 DEF HandlesOnce
  <2>9. \A e : e \in ToSet(u) <=> e \in ToSet(es) /\ e.handle # h
    <3>1. ASSUME NEW x \in ToSet(u) PROVE x \in ToSet(es) /\ x.handle # h
      <4>1. PICK i \in 1 .. Len(u) : u[i] = x
        BY <2>7, InSeq
      <4>2. PICK m \in (1 .. Len(es)) \ {k} : u[i] = es[m]
        BY <2>7 DEF TakesOut
      <4> QED BY <2>2, <4>1, <4>2, InSeq
    <3>2. ASSUME NEW x \in ToSet(es), x.handle # h PROVE x \in ToSet(u)
      <4>1. PICK m \in 1 .. Len(es) : es[m] = x
        BY InSeq
      <4>2. PICK i \in 1 .. Len(u) : u[i] = es[m]
        BY <2>1, <2>7, <3>2, <4>1 DEF TakesOut
      <4> QED BY <2>7, <4>1, <4>2, InSeq
    <3> QED BY <3>1, <3>2
  <2> QED BY <2>7, <2>8, <2>9 DEF u
<1> QED BY <1>2, <1>3

\* Removing no handle removes nothing.
LEMMA WithoutNothing == \A es : Without(es, {}) = es
BY DEF Without, RemoveFirstMatch

\* Appending to a sequence, by index.
LEMMA AppendIn ==
  ASSUME NEW S, NEW q \in Seq(S), NEW x \in S
  PROVE  /\ Append(q, x) \in Seq(S) /\ Len(Append(q, x)) = Len(q) + 1
         /\ \A i \in 1 .. Len(q) : Append(q, x)[i] = q[i]
         /\ Append(q, x)[Len(q) + 1] = x
         /\ ToSet(Append(q, x)) = ToSet(q) \cup {x}
<1>1. /\ Append(q, x) \in Seq(S) /\ Len(Append(q, x)) = Len(q) + 1
      /\ \A i \in 1 .. Len(q) : Append(q, x)[i] = q[i]
      /\ Append(q, x)[Len(q) + 1] = x
  BY AppendProperties, InSeq
<1> DEFINE u == Append(q, x)
<1> HIDE DEF u
<1>2. Len(q) \in Nat
  BY InSeq
<1>3. ASSUME NEW y \in ToSet(u) PROVE y \in ToSet(q) \cup {x}
  <2>1. PICK i \in 1 .. Len(u) : u[i] = y
    BY <1>1, InSeq DEF u
  <2>2. i \in 1 .. Len(q) \/ i = Len(q) + 1
    BY <1>1, <1>2 DEF u
  <2> QED BY <1>1, <2>1, <2>2, InSeq DEF u
<1>4. ASSUME NEW y \in ToSet(q) \cup {x} PROVE y \in ToSet(u)
  <2>1. CASE y = x
    <3>1. Len(q) + 1 \in 1 .. Len(u) /\ u[Len(q) + 1] = y /\ u \in Seq(S)
      BY <1>1, <1>2, <2>1 DEF u
    <3> QED BY <3>1, InSeq
  <2>2. CASE y \in ToSet(q)
    <3>1. PICK i \in 1 .. Len(q) : q[i] = y
      BY <2>2, InSeq
    <3>2. i \in 1 .. Len(u) /\ u[i] = y
      BY <1>1, <1>2, <3>1 DEF u
    <3>3. u \in Seq(S)
      BY <1>1 DEF u
    <3> QED BY <3>2, <3>3, InSeq
  <2> QED BY <2>1, <2>2
<1> QED BY <1>1, <1>3, <1>4 DEF u


-----------------------------------------------------------------------------
(* The store: a handle never reads another block, whichever is evicted *)

\* No handle is ahead of its slot.
GenerationsCover == \A h \in DOMAIN issued : h[2] <= generation[h[1]]

SlotTypes ==
  /\ generation \in [Slots -> Nat]
  /\ occupied \subseteq Slots
  /\ tensor \in [Slots -> Payload \cup {None, Torn}]
  /\ DOMAIN issued \subseteq Handle

HandleInv == SlotTypes /\ GenerationsCover /\ HandlesNeverAliased

-----------------------------------------------------------------------------
\* An empty store has issued nothing.
LEMMA HandleInit == StoreInit => HandleInv
BY DEF StoreInit, HandleInv, SlotTypes, GenerationsCover, HandlesNeverAliased, Handle

\* A taken slot has left every handle issued for it behind.
LEMMA TakenOutdates ==
  ASSUME HandleInv, NEW s \in Slots, TakeSlot(s)
  PROVE  /\ generation' \in [Slots -> Nat]
         /\ generation'[s] = generation[s] + 1
         /\ \A r \in Slots \ {s} : generation'[r] = generation[r]
         /\ \A h \in DOMAIN issued : h[1] = s => h[2] < generation'[s]
<1>1. /\ generation' \in [Slots -> Nat]
      /\ generation'[s] = generation[s] + 1
      /\ \A r \in Slots \ {s} : generation'[r] = generation[r]
  BY DEF HandleInv, SlotTypes, TakeSlot, NextGeneration
<1>2. ASSUME NEW h \in DOMAIN issued, h[1] = s PROVE h[2] < generation'[s]
  BY <1>1, <1>2 DEF HandleInv, SlotTypes, GenerationsCover, Handle
<1> QED BY <1>1, <1>2

\* A failed store invalidates what it evicted and touches nothing else.
LEMMA TakeAndLose ==
  ASSUME HandleInv, NEW s \in Slots, TakeSlot(s), occupied' \subseteq occupied,
         tensor' \in [Slots -> Payload \cup {None, Torn}],
         \A r \in Slots \ {s} : tensor'[r] = tensor[r],
         issued' = issued
  PROVE  HandleInv'
<1>1. SlotTypes'
  BY TakenOutdates DEF HandleInv, SlotTypes
<1>2. GenerationsCover'
  <2> SUFFICES ASSUME NEW h \in DOMAIN issued PROVE h[2] <= generation'[h[1]]
    BY DEF GenerationsCover
  <2> /\ h[1] \in Slots /\ h[2] \in Nat /\ h[2] <= generation[h[1]]
    BY DEF HandleInv, SlotTypes, GenerationsCover, Handle
  <2> QED BY TakenOutdates DEF HandleInv, SlotTypes
<1>3. HandlesNeverAliased'
  <2> SUFFICES ASSUME NEW h \in DOMAIN issued, Resolves(h)'
               PROVE  tensor'[h[1]] = issued[h]
    BY DEF HandlesNeverAliased
  <2>1. h[1] \in Slots /\ h[2] \in Nat
    BY DEF HandleInv, SlotTypes, Handle
  <2>2. h[1] # s
    BY <2>1, TakenOutdates DEF Resolves
  <2>3. Resolves(h)
    BY <2>1, <2>2, TakenOutdates DEF Resolves
  <2> QED BY <2>1, <2>2, <2>3 DEF HandleInv, HandlesNeverAliased
<1> QED BY <1>1, <1>2, <1>3 DEF HandleInv

\* The new handle reads the new block, the old handles of the slot are stale.
LEMMA StoreBlockStep ==
  ASSUME HandleInv, NEW s \in Slots, NEW p \in Payload, StoreBlock(s, p)
  PROVE  HandleInv'
<1> DEFINE new == <<s, generation'[s]>>
<1>1. TakeSlot(s) BY DEF StoreBlock
<1>2. /\ DOMAIN issued' = DOMAIN issued \cup {new}
      /\ issued'[new] = p
      /\ \A h \in DOMAIN issued : h # new => issued'[h] = issued[h]
  BY DEF StoreBlock
<1>3. new \in Handle /\ new[1] = s /\ new[2] = generation'[s]
  BY <1>1, TakenOutdates DEF Handle, HandleInv, SlotTypes
<1>4. /\ tensor' \in [Slots -> Payload \cup {None, Torn}] /\ tensor'[s] = p
      /\ \A r \in Slots \ {s} : tensor'[r] = tensor[r]
      /\ occupied' = occupied \cup {s}
  BY DEF StoreBlock, HandleInv, SlotTypes
<1> HIDE DEF new
<1>5. SlotTypes'
  BY <1>1, <1>2, <1>3, <1>4, TakenOutdates DEF HandleInv, SlotTypes
<1>6. GenerationsCover'
  <2> SUFFICES ASSUME NEW h \in DOMAIN issued', h # new
               PROVE  h[2] <= generation'[h[1]]
    BY <1>1, <1>3, TakenOutdates DEF GenerationsCover
  <2> /\ h \in DOMAIN issued /\ h[1] \in Slots /\ h[2] \in Nat
      /\ h[2] <= generation[h[1]]
    BY <1>2 DEF HandleInv, SlotTypes, GenerationsCover, Handle
  <2> QED BY <1>1, TakenOutdates DEF HandleInv, SlotTypes
<1>7. HandlesNeverAliased'
  <2> SUFFICES ASSUME NEW h \in DOMAIN issued', Resolves(h)'
               PROVE  tensor'[h[1]] = issued'[h]
    BY DEF HandlesNeverAliased
  <2>1. CASE h = new BY <1>2, <1>3, <1>4, <2>1
  <2>2. CASE h # new
    <3>1. h \in DOMAIN issued /\ h[1] \in Slots /\ h[2] \in Nat
      BY <1>2, <2>2 DEF HandleInv, SlotTypes, Handle
    <3>2. h[1] # s
      BY <3>1, <1>1, TakenOutdates DEF Resolves
    <3>3. Resolves(h)
      BY <3>1, <3>2, <1>1, <1>4, TakenOutdates DEF Resolves
    <3> QED BY <1>2, <1>4, <2>2, <3>1, <3>2, <3>3 DEF HandleInv, HandlesNeverAliased
  <2> QED BY <2>1, <2>2
<1> QED BY <1>5, <1>6, <1>7 DEF HandleInv

\* Every call keeps the handles safe.
LEMMA HandleStep == HandleInv /\ [StoreNext]_storeVars => HandleInv'
<1> SUFFICES ASSUME HandleInv, [StoreNext]_storeVars PROVE HandleInv'
  OBVIOUS
<1> USE DEF HandleInv, SlotTypes, GenerationsCover, HandlesNeverAliased, Resolves
<1>1. ASSUME NEW s \in Slots, NEW p \in Payload, StoreBlock(s, p) PROVE HandleInv'
  BY <1>1, StoreBlockStep
<1>2. ASSUME NEW s \in Slots, StoreCopyFails(s) PROVE HandleInv'
  <2>1. /\ TakeSlot(s) /\ occupied' \subseteq occupied /\ issued' = issued
        /\ tensor' = [tensor EXCEPT ![s] = Torn]
    BY <1>2 DEF StoreCopyFails, OccupiedAfterFailure
  <2> QED BY <2>1, TakeAndLose
<1>3. ASSUME NEW s \in Slots, StoreLosesSlot(s) PROVE HandleInv'
  <2>1. /\ TakeSlot(s) /\ occupied' \subseteq occupied /\ issued' = issued
        /\ tensor' \in {tensor, [tensor EXCEPT ![s] = IF @ = None THEN Torn ELSE @]}
    BY <1>3 DEF StoreLosesSlot
  <2>2. /\ tensor' \in [Slots -> Payload \cup {None, Torn}]
        /\ \A r \in Slots \ {s} : tensor'[r] = tensor[r]
    BY <2>1
  <2> QED BY <2>1, <2>2, TakeAndLose
<1>4. ASSUME NEW h \in DOMAIN issued, Use(h) PROVE HandleInv'
  BY <1>4 DEF Use
<1>5. ASSUME NEW h \in DOMAIN issued, Delete(h) PROVE HandleInv'
  BY <1>5 DEF Delete
<1>6. CASE UNCHANGED storeVars
  BY <1>6 DEF storeVars
<1> QED BY <1>1, <1>2, <1>3, <1>4, <1>5, <1>6 DEF StoreNext, StoreFails

-----------------------------------------------------------------------------
(* The store: the order of _lru *)

\* q lists the slots occ once each, every slot used before those behind it.
UseOrder(q, occ, after) ==
  /\ q \in Seq(Slots) /\ IsInjective(q) /\ ToSet(q) = occ
  /\ \A i, j \in 1 .. Len(q) : i < j => <<q[i], q[j]>> \in after

\* _lru lists the resident slots in order of their last use.
LruRight == UseOrder(lru, occupied, usedAfter)

StoreInv == HandleInv /\ SlotsNotLost /\ LruRight

\* A slot that is taken was free or resident, and so has not been lost.
LEMMA TakenAccounted ==
  ASSUME SlotTypes, SlotsNotLost, LruRight, NEW s \in Slots, TakeSlot(s)
  PROVE  s \in freeSlots \cup occupied
<1>1. CASE freeSlots # {}
  BY <1>1 DEF TakeSlot, Takes
<1>2. CASE freeSlots = {}
  <2>1. lru # <<>> /\ s = Head(lru)
    BY <1>2 DEF TakeSlot, Takes
  <2>2. lru \in Seq(Slots) /\ ToSet(lru) = occupied
    BY DEF LruRight, UseOrder
  <2>3. 1 \in 1 .. Len(lru) /\ s = lru[1]
    BY <2>1, <2>2, InSeq, EmptySeq, HeadTailProperties
  <2> QED BY <2>2, <2>3, InSeq
<1> QED BY <1>1, <1>2

\* Every slot is free, resident or lost.
LEMMA SlotsStep ==
  SlotTypes /\ SlotsNotLost /\ LruRight /\ [StoreNext]_storeVars => SlotsNotLost'
<1> SUFFICES ASSUME SlotTypes, SlotsNotLost, LruRight, [StoreNext]_storeVars
             PROVE  SlotsNotLost'
  OBVIOUS
<1>1. ASSUME NEW s \in Slots, NEW p \in Payload, StoreBlock(s, p) PROVE SlotsNotLost'
  <2>1. s \in freeSlots \cup occupied
    BY <1>1, TakenAccounted DEF StoreBlock
  <2> QED BY <1>1, <2>1 DEF StoreBlock, SlotsNotLost
<1>2. ASSUME NEW s \in Slots, StoreCopyFails(s) PROVE SlotsNotLost'
  <2>1. s \in freeSlots \cup occupied
    BY <1>2, TakenAccounted DEF StoreCopyFails
  <2> QED BY <1>2, <2>1 DEF StoreCopyFails, OccupiedAfterFailure, SlotsNotLost
<1>3. ASSUME NEW s \in Slots, StoreLosesSlot(s) PROVE SlotsNotLost'
  BY <1>3 DEF StoreLosesSlot, SlotsNotLost
<1>4. ASSUME NEW h \in DOMAIN issued, Use(h) PROVE SlotsNotLost'
  BY <1>4 DEF Use, SlotsNotLost
<1>5. ASSUME NEW h \in DOMAIN issued, Delete(h) PROVE SlotsNotLost'
  BY <1>5 DEF Delete, Resolves, SlotTypes, SlotsNotLost
<1>6. CASE UNCHANGED storeVars
  BY <1>6 DEF storeVars, SlotsNotLost
<1> QED BY <1>1, <1>2, <1>3, <1>4, <1>5, <1>6 DEF StoreNext, StoreFails

\* What remains of the order after a slot left it.
LEMMA OrderRemove ==
  ASSUME NEW q, NEW occ, NEW after, UseOrder(q, occ, after), NEW s
  PROVE  LET u == RemoveFirst(q, s)
         IN  UseOrder(u, occ \ {s}, after) /\ \A i \in 1 .. Len(u) : u[i] # s
<1> DEFINE u == RemoveFirst(q, s)
<1>1. /\ u \in Seq(Slots) /\ IsInjective(u) /\ ToSet(u) = occ \ {s}
  BY RemoveFirstOnly DEF UseOrder
<1>2. ASSUME NEW i \in 1 .. Len(u), NEW j \in 1 .. Len(u), i < j
      PROVE  \E m, n \in 1 .. Len(q) : m < n /\ u[i] = q[m] /\ u[j] = q[n]
  BY <1>2, RemoveFirstOnly DEF UseOrder
<1> HIDE DEF u
<1>3. \A i \in 1 .. Len(u) : u[i] # s
  BY <1>1, InSeq
<1>4. ASSUME NEW i \in 1 .. Len(u), NEW j \in 1 .. Len(u), i < j
      PROVE  <<u[i], u[j]>> \in after
  <2>1. PICK m, n \in 1 .. Len(q) : m < n /\ u[i] = q[m] /\ u[j] = q[n]
    BY <1>2, <1>4
  <2> QED BY <2>1 DEF UseOrder
<1> QED BY <1>1, <1>3, <1>4 DEF u, UseOrder

\* A use of a slot puts it last, after all others.
LEMMA OrderUse ==
  ASSUME NEW q, NEW occ, NEW after, UseOrder(q, occ, after), NEW s \in Slots
  PROVE  UseOrder(Touched(q, s), occ \cup {s}, UsedNow(after, s))
<1> DEFINE u == RemoveFirst(q, s)
           w == Append(u, s)
<1>1. /\ u \in Seq(Slots) /\ IsInjective(u) /\ ToSet(u) = occ \ {s}
      /\ \A i, j \in 1 .. Len(u) : i < j => <<u[i], u[j]>> \in after
      /\ \A i \in 1 .. Len(u) : u[i] # s
  BY OrderRemove DEF UseOrder
<1> HIDE DEF u
<1>2. /\ w \in Seq(Slots) /\ Len(w) = Len(u) + 1 /\ Len(u) \in Nat
      /\ \A i \in 1 .. Len(u) : w[i] = u[i]
      /\ w[Len(u) + 1] = s
      /\ ToSet(w) = ToSet(u) \cup {s}
  BY <1>1, AppendIn, InSeq
<1>3. \A i \in 1 .. Len(u) : u[i] \in Slots \ {s}
  BY <1>1, InSeq
<1>4. DOMAIN w = 1 .. Len(w) /\ DOMAIN u = 1 .. Len(u)
  BY <1>1, <1>2, LenProperties
<1>5. Touched(q, s) = w
  BY DEF u, Touched
<1> HIDE DEF w
<1>6. \A i \in 1 .. Len(w) : i \in 1 .. Len(u) \/ i = Len(u) + 1
  BY <1>2
<1>7. IsInjective(w)
  <2> SUFFICES ASSUME NEW i \in 1 .. Len(w), NEW j \in 1 .. Len(w), w[i] = w[j]
               PROVE  i = j
    BY <1>4 DEF IsInjective
  <2>1. CASE i \in 1 .. Len(u) /\ j \in 1 .. Len(u)
    BY <1>1, <1>2, <1>4, <2>1 DEF IsInjective
  <2>2. CASE i = Len(u) + 1 \/ j = Len(u) + 1
    BY <1>2, <1>3, <1>6, <2>2
  <2> QED BY <1>6, <2>1, <2>2
<1>8. ASSUME NEW i \in 1 .. Len(w), NEW j \in 1 .. Len(w), i < j
      PROVE  <<w[i], w[j]>> \in UsedNow(after, s)
  <2>1. i \in 1 .. Len(u)
    BY <1>2, <1>8
  <2>2. CASE j \in 1 .. Len(u)
    <3>1. w[i] # s /\ <<w[i], w[j]>> \in after
      BY <1>1, <1>2, <1>8, <2>1, <2>2
    <3> QED BY <3>1 DEF UsedNow
  <2>3. CASE j = Len(u) + 1
    BY <1>2, <1>3, <2>1, <2>3 DEF UsedNow
  <2> QED BY <1>6, <2>2, <2>3
<1>9. ToSet(w) = occ \cup {s}
  BY <1>1, <1>2
<1> QED BY <1>2, <1>5, <1>7, <1>8, <1>9 DEF UseOrder

\* The same of a step that uses a slot.
LEMMA LruUse ==
  ASSUME LruRight, NEW s \in Slots, lru' = Append(RemoveFirst(lru, s), s),
         occupied' = occupied \cup {s}, usedAfter' = UsedNow(usedAfter, s)
  PROVE  LruRight'
<1>1. UseOrder(Touched(lru, s), occupied \cup {s}, UsedNow(usedAfter, s))
  BY OrderUse DEF LruRight
<1>2. lru' = Touched(lru, s)
  BY DEF Touched
<1>3. UseOrder(lru', occupied', usedAfter')
  BY <1>1, <1>2
<1> QED BY <1>3 DEF LruRight, UseOrder

\* A slot that is given up leaves the order, the others stay.
LEMMA LruDrop ==
  ASSUME LruRight, NEW s \in Slots, lru' = RemoveFirst(lru, s),
         occupied' = occupied \ {s}, usedAfter' = usedAfter
  PROVE  LruRight'
<1>1. UseOrder(RemoveFirst(lru, s), occupied \ {s}, usedAfter)
  BY OrderRemove DEF LruRight
<1>2. UseOrder(lru', occupied', usedAfter')
  BY <1>1
<1> QED BY <1>2 DEF LruRight, UseOrder

\* Every call keeps the order.
LEMMA LruStep == HandleInv /\ LruRight /\ [StoreNext]_storeVars => LruRight'
<1> SUFFICES ASSUME HandleInv, LruRight, [StoreNext]_storeVars PROVE LruRight'
  OBVIOUS
<1>1. ASSUME NEW s \in Slots, NEW p \in Payload, StoreBlock(s, p) PROVE LruRight'
  <2>1. /\ lru' = Append(RemoveFirst(lru, s), s) /\ occupied' = occupied \cup {s}
        /\ usedAfter' = UsedNow(usedAfter, s)
    BY <1>1 DEF StoreBlock
  <2> QED BY <2>1, LruUse
<1>2. ASSUME NEW s \in Slots, StoreCopyFails(s) PROVE LruRight'
  <2>1. /\ lru' = RemoveFirst(lru, s) /\ occupied' = occupied \ {s}
        /\ usedAfter' = usedAfter
    BY <1>2 DEF StoreCopyFails, OccupiedAfterFailure
  <2> QED BY <2>1, LruDrop
<1>3. ASSUME NEW s \in Slots, StoreLosesSlot(s) PROVE LruRight'
  <2>1. /\ lru' = RemoveFirst(lru, s) /\ occupied' = occupied \ {s}
        /\ usedAfter' = usedAfter
    BY <1>3 DEF StoreLosesSlot
  <2> QED BY <2>1, LruDrop
<1>4. ASSUME NEW h \in DOMAIN issued PROVE h[1] \in Slots
  BY DEF HandleInv, SlotTypes, Handle
<1>5. ASSUME NEW h \in DOMAIN issued, Use(h) PROVE LruRight'
  <2>1. /\ lru' = Append(RemoveFirst(lru, h[1]), h[1])
        /\ occupied' = occupied \cup {h[1]} /\ usedAfter' = UsedNow(usedAfter, h[1])
    BY <1>5 DEF Use, Touched, Resolves
  <2> QED BY <1>4, <2>1, LruUse
<1>6. ASSUME NEW h \in DOMAIN issued, Delete(h) PROVE LruRight'
  <2>1. /\ lru' = RemoveFirst(lru, h[1]) /\ occupied' = occupied \ {h[1]}
        /\ usedAfter' = usedAfter
    BY <1>6 DEF Delete
  <2> QED BY <1>4, <2>1, LruDrop
<1>7. CASE UNCHANGED storeVars
  BY <1>7 DEF storeVars, LruRight, UseOrder
<1> QED BY <1>1, <1>2, <1>3, <1>5, <1>6, <1>7 DEF StoreNext, StoreFails

\* The invariant of the store.
LEMMA StoreInvariance == StoreSpec => []StoreInv
<1>1. StoreInit => StoreInv
  <2> SUFFICES ASSUME StoreInit PROVE StoreInv
    OBVIOUS
  <2>1. SlotsNotLost
    BY DEF StoreInit, SlotsNotLost
  <2>2. lru = <<>> /\ Len(lru) = 0 /\ lru \in Seq(Slots) /\ occupied = {}
    BY EmptySeq DEF StoreInit
  <2>3. LruRight
    BY <2>2, InSeq DEF LruRight, UseOrder, IsInjective, ToSet
  <2> QED BY <2>1, <2>3, HandleInit DEF StoreInv
<1>2. StoreInv /\ [StoreNext]_storeVars => StoreInv'
  BY HandleStep, SlotsStep, LruStep DEF StoreInv, HandleInv
<1> QED BY <1>1, <1>2, PTL DEF StoreSpec

\* A handle is stale or reads the block it was issued for (_resolve), however
\* its slot was evicted, deleted, reused or torn by a failed copy since.
THEOREM HandlesCorrect == StoreSpec => []HandlesNeverAliased
<1>1. StoreInv => HandlesNeverAliased
  BY DEF StoreInv, HandleInv
<1> QED BY <1>1, StoreInvariance, PTL

\* However stores, evictions, deletions and failures follow each other, no slot
\* is handed out twice, _lru lists the resident ones, and the slots that leak are
\* those that a store_block had taken when it raised outside its `try' (cpu.py:168
\* and cpu.py:175).
THEOREM SlotsAccountedFor == StoreSpec => []SlotsAccounted
<1>1. StoreInv => SlotsAccounted
  BY DEF StoreInv, LruRight, UseOrder, LruListsResident, SlotsAccounted
<1> QED BY <1>1, StoreInvariance, PTL

\* The block that store_block evicts is the least recently used one.
LEMMA EvictedIsLeast ==
  ASSUME StoreInv, StoreNext, NEW s \in occupied, generation'[s] # generation[s]
  PROVE  freeSlots = {} /\ \A r \in occupied \ {s} : <<s, r>> \in usedAfter
<1>1. ASSUME NEW t \in Slots, TakeSlot(t) PROVE s = t
  BY <1>1 DEF TakeSlot, NextGeneration, StoreInv, HandleInv, SlotTypes
<1>2. TakeSlot(s)
  BY <1>1 DEF StoreNext, StoreFails, StoreBlock, StoreCopyFails, StoreLosesSlot,
     Use, Delete
<1>3. freeSlots = {} /\ lru # <<>> /\ s = Head(lru)
  BY <1>2 DEF TakeSlot, Takes, StoreInv, SlotsNotLost
<1>4. lru \in Seq(Slots) /\ Len(lru) \in Nat /\ 1 \in 1 .. Len(lru) /\ s = lru[1]
  <2>1. lru \in Seq(Slots)
    BY DEF StoreInv, LruRight, UseOrder
  <2> QED BY <1>3, <2>1, InSeq, EmptySeq, HeadTailProperties
<1>5. ASSUME NEW r \in occupied \ {s} PROVE <<s, r>> \in usedAfter
  <2>1. r \in ToSet(lru)
    BY DEF StoreInv, LruRight, UseOrder
  <2>2. PICK j \in 1 .. Len(lru) : lru[j] = r
    BY <1>4, <2>1, InSeq
  <2>3. 1 < j
    BY <1>4, <2>2
  <2> QED BY <1>4, <2>2, <2>3 DEF StoreInv, LruRight, UseOrder
<1> QED BY <1>3, <1>5

\* store_block evicts the block whose last use lies furthest back, and only
\* when no slot is free.
THEOREM LeastRecentEvicted == StoreSpec => EvictsLeastRecent
<1>1. ASSUME StoreInv, StoreNext, NEW s \in occupied, generation'[s] # generation[s]
      PROVE  freeSlots = {} /\ \A r \in occupied \ {s} : <<s, r>> \in usedAfter
  BY <1>1, EvictedIsLeast
<1>2. StoreInv /\ StoreNext => \A s \in occupied : generation'[s] # generation[s] =>
        freeSlots = {} /\ \A r \in occupied \ {s} : <<s, r>> \in usedAfter
  BY <1>1
<1>3. StoreInv /\ [StoreNext]_storeVars =>
        [\A s \in occupied : generation'[s] # generation[s] =>
           /\ freeSlots = {}
           /\ \A r \in occupied \ {s} : <<s, r>> \in usedAfter]_storeVars
  BY <1>2
<1> QED BY <1>3, StoreInvariance, PTL DEF StoreSpec, EvictsLeastRecent


-----------------------------------------------------------------------------
(* The index and the sessions *)

TokenBlocks == UNION {Range(c) : c \in Contexts}
Keys == UNION {{ChainHash(c)[i] : i \in 1 .. Len(c)} : c \in Contexts}
Entry == [key : Keys, block : TokenBlocks, handle : Handle]

\* A session holds handles that were issued, at most one per block.
SessionTypes ==
  /\ sessions \in [Clients -> [tokens : Contexts \cup {<<>>}, handles : Seq(Handle)]]
  /\ \A c \in Clients :
       /\ Len(sessions[c].handles) <= Len(sessions[c].tokens)
       /\ \A i \in 1 .. Len(sessions[c].handles) : sessions[c].handles[i] \in DOMAIN issued

\* Only a session of a context is stored, from its first block that is missing.
StoringTypes ==
  /\ storing \in Clients \cup {Nobody}
  /\ storing # Nobody =>
       StoringTokens \in Contexts /\ next \in Nat /\ next >= 1

\* The entry of a handle is that of a block of a context, and the handle was
\* issued for the KV of this block after those before it.
EntryOf(e, c, i) ==
  /\ e.key = ChainHash(c)[i] /\ e.block = c[i]
  /\ e.handle \in DOMAIN issued /\ issued[e.handle] = KV(SubSeq(c, 1, i))

EntriesRight ==
  /\ entries \in Seq(Entry) /\ HandlesOnce(entries)
  /\ \A e \in ToSet(entries) : \E c \in Contexts : \E i \in 1 .. Len(c) : EntryOf(e, c, i)

IndexInv ==
  HandleInv /\ SessionTypes /\ StoringTypes /\ EntriesRight /\ IndexMirrorsStore

\* No two prefixes that end in the same block have the same chained hash.
NoCollisions ==
  \A c, d \in Contexts : \A i \in 1 .. Len(c), j \in 1 .. Len(d) :
    ChainHash(c)[i] = ChainHash(d)[j] /\ c[i] = d[j] => SubSeq(c, 1, i) = SubSeq(d, 1, j)

\* What a handle of a session was issued for.
SessionsRight ==
  \A c \in Clients : \A i \in 1 .. Len(sessions[c].handles) :
    issued[sessions[c].handles[i]] = KV(SubSeq(sessions[c].tokens, 1, i))


-----------------------------------------------------------------------------
(* Lookups *)

\* lookup ends at the first block that is missing.
LEMMA MatchedRight ==
  ASSUME NEW es, NEW c \in Contexts
  PROVE  /\ Len(c) \in Nat /\ MatchedBlocks(es, c) \in 0 .. Len(c)
         /\ \A i \in 1 .. MatchedBlocks(es, c) : Matches(es, c, i) # {}
         /\ MatchedBlocks(es, c) < Len(c) =>
              Matches(es, c, MatchedBlocks(es, c) + 1) = {}
<1>1. Len(c) \in Nat
  <2>1. c \in Seq(Range(c))
    BY ContextAssumption
  <2> QED BY <2>1, InSeq
<1> DEFINE missing == {k \in 0 .. Len(c) : k < Len(c) => Matches(es, c, k + 1) = {}}
           P(k) == /\ \A i \in 1 .. k : Matches(es, c, i) # {}
                   /\ k < Len(c) => Matches(es, c, k + 1) = {}
<1>2. missing \in SUBSET Nat /\ Len(c) \in missing
  BY <1>1
<1>3. PICK k \in missing : \A m \in missing : k <= m
  BY <1>2, LeastNat, Zenon
<1>4. P(k)
  <2>1. ASSUME NEW i \in 1 .. k, Matches(es, c, i) = {} PROVE FALSE
    <3>1. i - 1 \in missing
      BY <1>1, <2>1
    <3>2. ~ (k <= i - 1)
      BY <1>1
    <3> QED BY <1>3, <3>1, <3>2
  <2> QED BY <2>1
<1>5. \E n \in 0 .. Len(c) : P(n)
  BY <1>4
<1>6. MatchedBlocks(es, c) = CHOOSE n \in 0 .. Len(c) : P(n)
  BY DEF MatchedBlocks
<1> HIDE DEF P
<1>7. MatchedBlocks(es, c) \in 0 .. Len(c) /\ P(MatchedBlocks(es, c))
  BY <1>5, <1>6
<1> QED BY <1>1, <1>7 DEF P

\* A lookup yields the handles of entries that match its blocks.
LEMMA LookupFinds ==
  ASSUME NEW es \in Seq(Entry), NEW c \in Contexts
  PROVE  /\ Lookup(es, c) \in Seq(Handle) /\ Len(Lookup(es, c)) <= Len(c)
         /\ Len(c) \in Nat /\ Len(Lookup(es, c)) \in Nat
         /\ \A i \in 1 .. Len(Lookup(es, c)) : \E e \in ToSet(es) :
              /\ e.handle = Lookup(es, c)[i]
              /\ e.key = ChainHash(c)[i] /\ e.block = c[i]
<1> DEFINE k == MatchedBlocks(es, c)
           first(i) == CHOOSE n \in Matches(es, c, i) : \A m \in Matches(es, c, i) : n <= m
           hs == Lookup(es, c)
<1>1. k \in Nat /\ k <= Len(c) /\ Len(c) \in Nat
  BY MatchedRight
<1>2. hs = [i \in 1 .. k |-> es[first(i)].handle]
  BY DEF Lookup
<1>3. ASSUME NEW i \in 1 .. k
      PROVE  /\ first(i) \in 1 .. Len(es)
             /\ es[first(i)].key = ChainHash(c)[i] /\ es[first(i)].block = c[i]
  <2>1. Matches(es, c, i) # {}
    BY MatchedRight
  <2>2. Matches(es, c, i) \in SUBSET Nat
    BY DEF Matches
  <2>3. \E n \in Matches(es, c, i) : \A m \in Matches(es, c, i) : n <= m
    BY <2>1, <2>2, LeastNat, Zenon
  <2>4. first(i) \in Matches(es, c, i)
    BY <2>3
  <2> HIDE DEF first
  <2> QED BY <2>4 DEF Matches
<1> HIDE DEF k, first, hs
<1>4. \A i \in 1 .. k : es[first(i)] \in Entry /\ es[first(i)] \in ToSet(es)
  BY <1>3, InSeq
<1>5. \A i \in 1 .. k : es[first(i)].handle \in Handle
  BY <1>4 DEF Entry
<1>6. hs \in Seq(Handle) /\ Len(hs) = k
  <2>1. hs \in [1 .. k -> Handle]
    BY <1>2, <1>5
  <2> QED BY <1>1, <2>1, SeqDef, LenProperties
<1>7. ASSUME NEW i \in 1 .. k
      PROVE  \E e \in ToSet(es) : e.handle = hs[i] /\ e.key = ChainHash(c)[i] /\ e.block = c[i]
  BY <1>2, <1>3, <1>4
<1> QED BY <1>1, <1>6, <1>7 DEF hs


-----------------------------------------------------------------------------
(* What a call of the store does to the index *)

\* The handles of the index are those of the resident blocks, by entry.
LEMMA EntryResident ==
  ASSUME IndexInv, NEW e \in ToSet(entries)
  PROVE  /\ e \in Entry /\ e.handle[1] \in occupied
         /\ e.handle = <<e.handle[1], generation[e.handle[1]]>>
         /\ e.handle \in DOMAIN issued /\ issued[e.handle] \in Payload
         /\ Resolves(e.handle)
<1>1. e \in Entry
  BY InSeq DEF IndexInv, EntriesRight
<1>2. PICK s \in occupied : e.handle = <<s, generation[s]>>
  BY DEF IndexInv, IndexMirrorsStore
<1>3. PICK c \in Contexts : \E i \in 1 .. Len(c) : EntryOf(e, c, i)
  BY DEF IndexInv, EntriesRight
<1>4. e.handle \in DOMAIN issued /\ issued[e.handle] \in Payload
  BY <1>3, ContextAssumption DEF EntryOf
<1> QED BY <1>1, <1>2, <1>4 DEF Resolves

\* The invalidation callback leaves the entries of the other slots.
LEMMA EvictionMirrored ==
  ASSUME IndexInv, NEW s \in Slots
  PROVE  LET es == Without(entries, Invalidated(s))
         IN  /\ es \in Seq(Entry) /\ HandlesOnce(es) /\ ToSet(es) \subseteq ToSet(entries)
             /\ {e.handle : e \in ToSet(es)} = {<<r, generation[r]>> : r \in occupied \ {s}}
<1> DEFINE es == Without(entries, Invalidated(s))
<1>1. {e.handle : e \in ToSet(entries)} = {<<r, generation[r]>> : r \in occupied}
  BY DEF IndexInv, IndexMirrorsStore
<1>2. entries \in Seq(Entry) /\ HandlesOnce(entries)
  BY DEF IndexInv, EntriesRight
<1>3. CASE s \notin occupied
  <2>1. es = entries
    BY <1>3, WithoutNothing DEF Invalidated
  <2>2. occupied \ {s} = occupied
    BY <1>3
  <2> HIDE DEF es
  <2>3. /\ es \in Seq(Entry) /\ HandlesOnce(es) /\ ToSet(es) \subseteq ToSet(entries)
        /\ {e.handle : e \in ToSet(es)} = {<<r, generation[r]>> : r \in occupied \ {s}}
    BY <1>1, <1>2, <2>1, <2>2
  <2> QED BY <2>3 DEF es
<1>4. CASE s \in occupied
  <2> DEFINE h == <<s, generation[s]>>
  <2>1. es = Without(entries, {h})
    BY <1>4 DEF Invalidated
  <2> HIDE DEF es, h
  <2>2. /\ es \in Seq(Entry) /\ HandlesOnce(es)
        /\ \A e : e \in ToSet(es) <=> e \in ToSet(entries) /\ e.handle # h
    <3>1. Without(entries, {h}) \in Seq(Entry)
      BY <1>2, WithoutOne
    <3>2. HandlesOnce(Without(entries, {h}))
      BY <1>2, WithoutOne
    <3>3. \A e : e \in ToSet(Without(entries, {h})) <=> e \in ToSet(entries) /\ e.handle # h
      BY <1>2, WithoutOne
    <3> QED BY <2>1, <3>1, <3>2, <3>3
  <2>3. \A r \in occupied : <<r, generation[r]>> # h <=> r # s
    BY DEF h
  <2>4. {e.handle : e \in ToSet(es)} = {<<r, generation[r]>> : r \in occupied \ {s}}
    BY <1>1, <2>2, <2>3
  <2> QED BY <2>2, <2>4 DEF es
<1> QED BY <1>3, <1>4

\* A stored block gets a handle that was never issued.
LEMMA NewHandle ==
  ASSUME HandleInv, NEW s \in Slots, NEW p \in Payload, StoreBlock(s, p)
  PROVE  /\ <<s, generation'[s]>> \notin DOMAIN issued
         /\ <<s, generation'[s]>> \in Handle
         /\ <<s, generation'[s]>> \in DOMAIN issued'
         /\ issued'[<<s, generation'[s]>>] = p
         /\ \A h \in DOMAIN issued : h \in DOMAIN issued' /\ issued'[h] = issued[h]
<1> DEFINE new == <<s, generation'[s]>>
<1>1. TakeSlot(s)
  BY DEF StoreBlock
<1>2. issued' = [h \in DOMAIN issued \cup {new} |-> IF h = new THEN p ELSE issued[h]]
  BY DEF StoreBlock
<1>3. new \in Handle /\ new[1] = s /\ new[2] = generation'[s] /\ generation'[s] \in Nat
  BY <1>1, TakenOutdates DEF Handle, HandleInv, SlotTypes
<1> HIDE DEF new
<1>4. new \notin DOMAIN issued
  <2> SUFFICES ASSUME new \in DOMAIN issued PROVE FALSE
    OBVIOUS
  <2>1. new[2] < generation'[s]
    BY <1>1, <1>3, TakenOutdates
  <2> QED BY <1>3, <2>1
<1>5. /\ new \in DOMAIN issued' /\ issued'[new] = p
      /\ \A h \in DOMAIN issued : h \in DOMAIN issued' /\ issued'[h] = issued[h]
  BY <1>2, <1>4
<1> QED BY <1>3, <1>4, <1>5 DEF new

\* Handles that are issued stay issued, for what they were.
IssuedKept == \A h \in DOMAIN issued : h \in DOMAIN issued' /\ issued'[h] = issued[h]

\* The entries that stay, stay right, whatever is issued next.
LEMMA EntriesStay ==
  ASSUME EntriesRight, IssuedKept, NEW es \in Seq(Entry), HandlesOnce(es),
         ToSet(es) \subseteq ToSet(entries), entries' = es
  PROVE  EntriesRight'
<1>1. ASSUME NEW e \in ToSet(es)
      PROVE  \E c \in Contexts : \E i \in 1 .. Len(c) : EntryOf(e, c, i)'
  <2>1. PICK c \in Contexts : \E i \in 1 .. Len(c) : EntryOf(e, c, i)
    BY DEF EntriesRight
  <2>2. \A i \in 1 .. Len(c) : EntryOf(e, c, i) => EntryOf(e, c, i)'
    BY DEF EntryOf, IssuedKept
  <2> QED BY <2>1, <2>2
<1> QED BY <1>1 DEF EntriesRight

\* Sessions that are left alone keep their handles.
LEMMA SessionsStay ==
  ASSUME SessionTypes, IssuedKept, sessions' = sessions
  PROVE  SessionTypes' /\ (SessionsRight => SessionsRight')
BY DEF SessionTypes, IssuedKept, SessionsRight


-----------------------------------------------------------------------------
(* The operations of the database *)

\* A session of a context gets what its lookup finds.
SessionGets(c, context, es) ==
  sessions' = [sessions EXCEPT ![c] = [tokens |-> context, handles |-> Lookup(es, context)]]

\* Then its handles were issued and, without collisions, for its own blocks.
LEMMA SessionFound ==
  ASSUME IndexInv, IssuedKept, NEW c \in Clients, NEW context \in Contexts,
         SessionGets(c, context, entries)
  PROVE  SessionTypes' /\ (NoCollisions /\ SessionsRight => SessionsRight')
<1> DEFINE hs == Lookup(entries, context)
<1>1. /\ hs \in Seq(Handle) /\ Len(hs) <= Len(context)
      /\ \A i \in 1 .. Len(hs) : \E e \in ToSet(entries) :
           /\ e.handle = hs[i]
           /\ e.key = ChainHash(context)[i] /\ e.block = context[i]
      /\ Len(hs) \in Nat /\ Len(context) \in Nat
  BY LookupFinds DEF IndexInv, EntriesRight
<1> HIDE DEF hs
<1>2. /\ sessions' \in [Clients -> [tokens : Contexts \cup {<<>>}, handles : Seq(Handle)]]
      /\ sessions'[c].tokens = context /\ sessions'[c].handles = hs
      /\ \A d \in Clients \ {c} : sessions'[d] = sessions[d]
  <2>1. sessions \in [Clients -> [tokens : Contexts \cup {<<>>}, handles : Seq(Handle)]]
    BY DEF IndexInv, SessionTypes
  <2>2. sessions' = [sessions EXCEPT ![c] = [tokens |-> context, handles |-> hs]]
    BY DEF SessionGets, hs
  <2>3. [tokens |-> context, handles |-> hs]
          \in [tokens : Contexts \cup {<<>>}, handles : Seq(Handle)]
    BY <1>1
  <2> QED BY <2>1, <2>2, <2>3
<1>3. SessionTypes'
  <2>1. ASSUME NEW d \in Clients
        PROVE  /\ Len(sessions'[d].handles) <= Len(sessions'[d].tokens)
               /\ \A i \in 1 .. Len(sessions'[d].handles) :
                    sessions'[d].handles[i] \in DOMAIN issued'
    <3>1. CASE d = c
      <4>1. ASSUME NEW i \in 1 .. Len(hs) PROVE hs[i] \in DOMAIN issued'
        BY <1>1, EntryResident DEF IssuedKept
      <4> QED BY <1>1, <1>2, <3>1, <4>1
    <3>2. CASE d # c
      BY <1>2, <3>2 DEF IndexInv, SessionTypes, IssuedKept
    <3> QED BY <3>1, <3>2
  <2> QED BY <1>2, <2>1 DEF SessionTypes
<1>4. ASSUME NoCollisions, SessionsRight PROVE SessionsRight'
  <2> SUFFICES ASSUME NEW d \in Clients, NEW i \in 1 .. Len(sessions'[d].handles)
               PROVE  issued'[sessions'[d].handles[i]] = KV(SubSeq(sessions'[d].tokens, 1, i))
    BY DEF SessionsRight
  <2>1. CASE d = c
    <3>1. i \in 1 .. Len(hs) /\ i \in 1 .. Len(context)
      BY <1>1, <1>2, <2>1
    <3>2. PICK e \in ToSet(entries) :
            e.handle = hs[i] /\ e.key = ChainHash(context)[i] /\ e.block = context[i]
      BY <1>1, <3>1
    <3>3. PICK a \in Contexts : \E j \in 1 .. Len(a) : EntryOf(e, a, j)
      BY DEF IndexInv, EntriesRight
    <3>4. PICK j \in 1 .. Len(a) : EntryOf(e, a, j)
      BY <3>3
    <3>5. SubSeq(a, 1, j) = SubSeq(context, 1, i)
      <4>1. ChainHash(a)[j] = ChainHash(context)[i] /\ a[j] = context[i]
        BY <3>2, <3>4 DEF EntryOf
      <4> QED BY <1>4, <3>1, <4>1, Zenon DEF NoCollisions
    <3>6. hs[i] \in DOMAIN issued /\ issued[hs[i]] = KV(SubSeq(context, 1, i))
      BY <3>2, <3>4, <3>5 DEF EntryOf
    <3> QED BY <1>2, <2>1, <3>6 DEF IssuedKept
  <2>2. CASE d # c
    BY <1>2, <1>4, <2>2 DEF SessionsRight, IndexInv, SessionTypes, IssuedKept
  <2> QED BY <2>1, <2>2
<1> QED BY <1>3, <1>4

\* The slots of the handles.
SlotsOf(hs) == {hs[i][1] : i \in 1 .. Len(hs)}

\* A lookup finds resident blocks only.
LEMMA LookupLive ==
  ASSUME IndexInv, NEW context \in Contexts
  PROVE  /\ LiveEntries(context) = entries
         /\ Lookup(entries, context) \in Seq(Handle)
         /\ SlotsOf(Lookup(entries, context)) \subseteq occupied
<1> DEFINE hs == Lookup(entries, context)
<1>1. /\ hs \in Seq(Handle)
      /\ \A i \in 1 .. Len(hs) : \E e \in ToSet(entries) : e.handle = hs[i]
  BY LookupFinds DEF IndexInv, EntriesRight
<1>2. \A i \in 1 .. Len(hs) : Resolves(hs[i])
  BY <1>1, EntryResident
<1> HIDE DEF hs
<1>3. \A h \in ToSet(hs) : Resolves(h)
  BY <1>1, <1>2, InSeq
<1>4. SlotsOf(hs) \subseteq occupied
  BY <1>2 DEF SlotsOf, Resolves
<1> QED BY <1>1, <1>3, <1>4 DEF hs, LiveEntries

\* create_session finds no stale handle, looks up once and touches what it found.
LEMMA CreateSessionStep ==
  ASSUME IndexInv, NEW c \in Clients, NEW context \in Contexts,
         CreateSession(c, context)
  PROVE  IndexInv' /\ (NoCollisions /\ SessionsRight => SessionsRight')
<1>2. LiveEntries(context) = entries
  BY LookupLive
<1>3. /\ entries' = entries /\ SessionGets(c, context, entries)
      /\ UNCHANGED <<generation, occupied, tensor, freeSlots, issued, storing, next>>
      /\ storing = Nobody
  BY <1>2 DEF CreateSession, SessionGets
<1>4. IssuedKept
  BY <1>3 DEF IssuedKept
<1>5. HandleInv'
  BY <1>3 DEF IndexInv, HandleInv, SlotTypes, GenerationsCover, HandlesNeverAliased, Resolves
<1>6. EntriesRight' /\ IndexMirrorsStore' /\ StoringTypes'
  BY <1>3 DEF IndexInv, EntriesRight, EntryOf, IndexMirrorsStore, StoringTypes
<1>7. SessionTypes' /\ (NoCollisions /\ SessionsRight => SessionsRight')
  BY <1>3, <1>4, SessionFound
<1> QED BY <1>5, <1>6, <1>7 DEF IndexInv

\* Reading a block of a session.
LEMMA UseSessionStep ==
  ASSUME IndexInv, NEW c \in Clients, UseSession(c)
  PROVE  IndexInv' /\ (SessionsRight => SessionsRight')
<1>1. PICK h \in ToSet(sessions[c].handles) : Use(h)
  BY DEF UseSession
<1>2. UNCHANGED <<generation, occupied, tensor, freeSlots, issued, entries,
                  sessions, storing, next>>
  BY <1>1 DEF Use, UseSession
<1>3. HandleInv'
  BY <1>2 DEF IndexInv, HandleInv, SlotTypes, GenerationsCover, HandlesNeverAliased, Resolves
<1>4. EntriesRight' /\ IndexMirrorsStore'
  BY <1>2 DEF IndexInv, EntriesRight, EntryOf, IndexMirrorsStore
<1>5. SessionTypes' /\ StoringTypes' /\ (SessionsRight => SessionsRight')
  BY <1>2 DEF IndexInv, SessionTypes, StoringTypes, StoringTokens, SessionsRight
<1> QED BY <1>3, <1>4, <1>5 DEF IndexInv

\* store_session begins with the first block that the session lacks.
LEMMA StartStoreStep ==
  ASSUME IndexInv, NEW c \in Clients, StartStore(c)
  PROVE  IndexInv' /\ (SessionsRight => SessionsRight')
<1>1. /\ UNCHANGED <<generation, occupied, tensor, freeSlots, issued, entries, sessions>>
      /\ storing' = c /\ next' = Len(sessions[c].handles) + 1
      /\ sessions[c].tokens # <<>>
  BY DEF StartStore, storeVars
<1>2. /\ sessions[c].tokens \in Contexts \cup {<<>>}
      /\ sessions[c].handles \in Seq(Handle)
  BY DEF IndexInv, SessionTypes
<1>3. Len(sessions[c].handles) \in Nat
  BY <1>2, InSeq
<1>4. StoringTypes'
  BY <1>1, <1>2, <1>3 DEF StoringTypes, StoringTokens
<1>5. HandleInv'
  BY <1>1 DEF IndexInv, HandleInv, SlotTypes, GenerationsCover, HandlesNeverAliased, Resolves
<1>6. EntriesRight' /\ IndexMirrorsStore'
  BY <1>1 DEF IndexInv, EntriesRight, EntryOf, IndexMirrorsStore
<1>7. SessionTypes' /\ (SessionsRight => SessionsRight')
  BY <1>1 DEF IndexInv, SessionTypes, SessionsRight
<1> QED BY <1>4, <1>5, <1>6, <1>7 DEF IndexInv


\* A round of store_session: what the taken slot held leaves the index, and the
\* new block gets an entry.
LEMMA StoreNextBlockStep ==
  ASSUME IndexInv, StoreNextBlock(KV(SubSeq(StoringTokens, 1, next)))
  PROVE  IndexInv' /\ (SessionsRight => SessionsRight')
<1> DEFINE c == StoringTokens
           p == KV(SubSeq(c, 1, next))
<1>1. /\ storing # Nobody /\ next <= Len(c)
      /\ next' = next + 1 /\ sessions' = sessions /\ storing' = storing
  BY DEF StoreNextBlock
<1>2. PICK s \in Slots :
        /\ StoreBlock(s, p)
        /\ entries' = Register(Without(entries, Invalidated(s)),
                               [key |-> ChainHash(c)[next], block |-> c[next],
                                handle |-> <<s, generation'[s]>>])
  BY DEF StoreNextBlock
<1>3. c \in Contexts /\ next \in 1 .. Len(c)
  BY <1>1, MatchedRight DEF IndexInv, StoringTypes
<1>4. p \in Payload
  BY <1>3, ContextAssumption
<1>5. c' = c
  BY <1>1 DEF StoringTokens
<1> HIDE DEF c, p
<1> DEFINE new == <<s, generation'[s]>>
           e == [key |-> ChainHash(c)[next], block |-> c[next], handle |-> new]
           es == Without(entries, Invalidated(s))
<1>6. /\ new \notin DOMAIN issued /\ new \in Handle
      /\ new \in DOMAIN issued' /\ issued'[new] = p
      /\ IssuedKept
  BY <1>2, <1>4, NewHandle DEF IndexInv, IssuedKept
<1>7. /\ es \in Seq(Entry) /\ HandlesOnce(es) /\ ToSet(es) \subseteq ToSet(entries)
      /\ {x.handle : x \in ToSet(es)} = {<<r, generation[r]>> : r \in occupied \ {s}}
  BY EvictionMirrored
<1>8. HandleInv'
  <2>1. StoreNext
    BY <1>2, <1>4 DEF StoreNext
  <2> QED BY <2>1, HandleStep DEF IndexInv
<1>9. entries' = Register(es, e)
  BY <1>2
<1> HIDE DEF new, es
<1>10. \A x \in ToSet(es) : x.handle \in DOMAIN issued /\ x.handle # new
  BY <1>6, <1>7, EntryResident
<1>11. e \in Entry
  BY <1>3, <1>6, InSeq DEF Entry, Keys, TokenBlocks, Range
<1>12. e \notin ToSet(es)
  BY <1>10
<1>13. entries' = Append(es, e)
  BY <1>9, <1>12 DEF Register
<1>14. e.handle = new /\ e.key = ChainHash(c)[next] /\ e.block = c[next]
  OBVIOUS
<1> HIDE DEF e
<1>15. /\ entries' \in Seq(Entry) /\ ToSet(entries') = ToSet(es) \cup {e}
       /\ Len(entries') = Len(es) + 1 /\ Len(es) \in Nat
       /\ \A i \in 1 .. Len(es) : entries'[i] = es[i]
       /\ entries'[Len(es) + 1] = e
  BY <1>7, <1>11, <1>13, AppendIn, InSeq
<1>16. HandlesOnce(entries')
  <2>1. \A i \in 1 .. Len(es) : es[i].handle # new
    BY <1>7, <1>10, InSeq
  <2>2. \A i \in 1 .. Len(entries') : i \in 1 .. Len(es) \/ i = Len(es) + 1
    BY <1>15
  <2> SUFFICES ASSUME NEW m \in 1 .. Len(entries'), NEW n \in 1 .. Len(entries'),
                      entries'[m].handle = entries'[n].handle
               PROVE  m = n
    BY DEF HandlesOnce
  <2>3. CASE m \in 1 .. Len(es) /\ n \in 1 .. Len(es)
    BY <1>7, <1>15, <2>3 DEF HandlesOnce
  <2>4. CASE m = Len(es) + 1 \/ n = Len(es) + 1
    BY <1>14, <1>15, <2>1, <2>2, <2>4
  <2> QED BY <2>2, <2>3, <2>4
<1>17. EntriesRight'
  <2>1. ASSUME NEW x \in ToSet(entries')
        PROVE  \E a \in Contexts : \E i \in 1 .. Len(a) : EntryOf(x, a, i)'
    <3>1. CASE x \in ToSet(es)
      <4>1. PICK a \in Contexts : \E i \in 1 .. Len(a) : EntryOf(x, a, i)
        BY <1>7, <3>1 DEF IndexInv, EntriesRight
      <4>2. \A i \in 1 .. Len(a) : EntryOf(x, a, i) => EntryOf(x, a, i)'
        BY <1>6 DEF EntryOf, IssuedKept
      <4> QED BY <4>1, <4>2
    <3>2. CASE x = e
      <4>1. PICK a \in Contexts : a = c
        BY <1>3
      <4>2. PICK i \in 1 .. Len(a) : i = next
        BY <1>3, <4>1
      <4>3. /\ x.key = ChainHash(a)[i] /\ x.block = a[i]
            /\ x.handle \in DOMAIN issued' /\ issued'[x.handle] = KV(SubSeq(a, 1, i))
        BY <1>6, <1>14, <3>2, <4>1, <4>2 DEF p
      <4>4. EntryOf(x, a, i)'
        BY <4>3 DEF EntryOf
      <4> QED BY <4>4
    <3> QED BY <1>15, <2>1, <3>1, <3>2
  <2> QED BY <1>15, <1>16, <2>1 DEF EntriesRight
<1>18. IndexMirrorsStore'
  <2>1. /\ occupied' = occupied \cup {s}
        /\ \A r \in Slots \ {s} : generation'[r] = generation[r]
    BY <1>2, TakenOutdates DEF StoreBlock, IndexInv
  <2>2. occupied \subseteq Slots
    BY DEF IndexInv, HandleInv, SlotTypes
  <2>3. {x.handle : x \in ToSet(es) \cup {e}} = {x.handle : x \in ToSet(es)} \cup {new}
    BY <1>14
  <2>4. {<<r, generation'[r]>> : r \in occupied'}
          = {<<r, generation[r]>> : r \in occupied \ {s}} \cup {new}
    BY <2>1, <2>2 DEF new
  <2> QED BY <1>7, <1>15, <2>3, <2>4 DEF IndexMirrorsStore
<1>19. SessionTypes' /\ (SessionsRight => SessionsRight')
  BY <1>1, <1>6, SessionsStay DEF IndexInv
<1>20. StoringTypes'
  BY <1>1, <1>3, <1>5 DEF IndexInv, StoringTypes, c
<1> QED BY <1>8, <1>17, <1>18, <1>19, <1>20 DEF IndexInv


\* A store_session that fails forgets what the taken slot held, if anything.
LEMMA StoreSessionFailsStep ==
  ASSUME IndexInv, StoreSessionFails
  PROVE  IndexInv' /\ (SessionsRight => SessionsRight')
<1>1. storing' = Nobody /\ sessions' = sessions /\ next' = next
  BY DEF StoreSessionFails
<1>2. StoringTypes'
  BY <1>1 DEF StoringTypes
<1>3. ASSUME NEW s \in Slots, StoreFails(s), entries' = Without(entries, Invalidated(s))
      PROVE  HandleInv' /\ IssuedKept /\ EntriesRight' /\ IndexMirrorsStore'
  <2>1. HandleInv'
    BY <1>3, HandleStep DEF IndexInv, StoreNext
  <2>2. TakeSlot(s) /\ issued' = issued /\ occupied' = occupied \ {s}
    BY <1>3 DEF StoreFails, StoreCopyFails, OccupiedAfterFailure, StoreLosesSlot
  <2>3. IssuedKept
    BY <2>2 DEF IssuedKept
  <2> DEFINE es == Without(entries, Invalidated(s))
  <2>4. /\ es \in Seq(Entry) /\ HandlesOnce(es) /\ ToSet(es) \subseteq ToSet(entries)
        /\ {x.handle : x \in ToSet(es)} = {<<r, generation[r]>> : r \in occupied \ {s}}
    BY EvictionMirrored
  <2> HIDE DEF es
  <2>5. entries' = es
    BY <1>3 DEF es
  <2>6. EntriesRight'
    BY <2>3, <2>4, <2>5, EntriesStay DEF IndexInv
  <2>7. /\ occupied \subseteq Slots
        /\ \A r \in Slots \ {s} : generation'[r] = generation[r]
    BY <2>2, TakenOutdates DEF IndexInv, HandleInv, SlotTypes
  <2>8. {<<r, generation'[r]>> : r \in occupied'} = {<<r, generation[r]>> : r \in occupied \ {s}}
    BY <2>2, <2>7
  <2>9. IndexMirrorsStore'
    BY <2>4, <2>5, <2>8 DEF IndexMirrorsStore
  <2> QED BY <2>1, <2>3, <2>6, <2>9
<1>4. ASSUME UNCHANGED <<storeVars, entries>>
      PROVE  HandleInv' /\ IssuedKept /\ EntriesRight' /\ IndexMirrorsStore'
  <2>1. HandleInv' /\ IssuedKept
    BY <1>4, HandleStep DEF IndexInv, IssuedKept, storeVars
  <2>2. EntriesRight' /\ IndexMirrorsStore'
    BY <1>4 DEF IndexInv, EntriesRight, EntryOf, IndexMirrorsStore, storeVars
  <2> QED BY <2>1, <2>2
<1>5. HandleInv' /\ IssuedKept /\ EntriesRight' /\ IndexMirrorsStore'
  BY <1>3, <1>4 DEF StoreSessionFails
<1>6. SessionTypes' /\ (SessionsRight => SessionsRight')
  BY <1>1, <1>5, SessionsStay DEF IndexInv
<1> QED BY <1>2, <1>5, <1>6 DEF IndexInv

\* The end of store_session looks the context up again.
LEMMA EndStoreStep ==
  ASSUME IndexInv, EndStore
  PROVE  IndexInv' /\ (NoCollisions /\ SessionsRight => SessionsRight')
<1>1. /\ storing' = Nobody /\ storing \in Clients /\ StoringTokens \in Contexts
      /\ UNCHANGED <<generation, occupied, tensor, freeSlots, issued, entries>>
  BY DEF EndStore, IndexInv, StoringTypes, storeVars
<1>2. SessionGets(storing, StoringTokens, entries)
  <2>1. sessions' = [sessions EXCEPT ![storing].handles = Lookup(entries, StoringTokens)]
    BY DEF EndStore, HandlesAfterStore
  <2>2. sessions \in [Clients -> [tokens : Contexts \cup {<<>>}, handles : Seq(Handle)]]
    BY DEF IndexInv, SessionTypes
  <2>3. [sessions[storing] EXCEPT !.handles = Lookup(entries, StoringTokens)]
          = [tokens |-> StoringTokens, handles |-> Lookup(entries, StoringTokens)]
    BY <1>1, <2>2 DEF StoringTokens
  <2> QED BY <2>1, <2>3 DEF SessionGets
<1>3. HandleInv' /\ IssuedKept
  BY <1>1 DEF IndexInv, HandleInv, SlotTypes, GenerationsCover, HandlesNeverAliased,
              Resolves, IssuedKept
<1>4. EntriesRight' /\ IndexMirrorsStore' /\ StoringTypes'
  BY <1>1 DEF IndexInv, EntriesRight, EntryOf, IndexMirrorsStore, StoringTypes
<1>5. SessionTypes' /\ (NoCollisions /\ SessionsRight => SessionsRight')
  BY <1>1, <1>2, <1>3, SessionFound
<1> QED BY <1>3, <1>4, <1>5 DEF IndexInv

\* store.delete removes the entry of the block through the callback.
LEMMA DeleteBlockStep ==
  ASSUME IndexInv, NEW h \in DOMAIN issued, DeleteBlock(h)
  PROVE  IndexInv' /\ (SessionsRight => SessionsRight')
<1>1. Delete(h) /\ sessions' = sessions /\ storing' = storing /\ next' = next
  BY DEF DeleteBlock
<1>2. HandleInv'
  BY <1>1, HandleStep DEF IndexInv, StoreNext
<1>3. h[1] \in Slots /\ h[1] \in occupied /\ h = <<h[1], generation[h[1]]>>
  BY <1>1 DEF Delete, Resolves, IndexInv, HandleInv, SlotTypes, Handle
<1>4. Invalidated(h[1]) = {h}
  BY <1>3 DEF Invalidated
<1>5. IssuedKept
  BY <1>1 DEF Delete, IssuedKept
<1> DEFINE es == Without(entries, Invalidated(h[1]))
<1>6. /\ es \in Seq(Entry) /\ HandlesOnce(es) /\ ToSet(es) \subseteq ToSet(entries)
      /\ {x.handle : x \in ToSet(es)} = {<<r, generation[r]>> : r \in occupied \ {h[1]}}
  BY <1>3, EvictionMirrored
<1> HIDE DEF es
<1>7. entries' = es
  BY <1>4 DEF DeleteBlock, es
<1>8. EntriesRight'
  BY <1>5, <1>6, <1>7, EntriesStay DEF IndexInv
<1>9. occupied' = occupied \ {h[1]} /\ generation' = generation
  BY <1>1 DEF Delete
<1>10. IndexMirrorsStore'
  BY <1>6, <1>7, <1>9 DEF IndexMirrorsStore
<1>11. SessionTypes' /\ (SessionsRight => SessionsRight')
  BY <1>1, <1>5, SessionsStay DEF IndexInv
<1>12. StoringTypes'
  BY <1>1 DEF IndexInv, StoringTypes, StoringTokens
<1> QED BY <1>2, <1>8, <1>10, <1>11, <1>12 DEF IndexInv

\* Every operation keeps the index, and the sessions unless hashes collide.
LEMMA IndexStep ==
  ASSUME IndexInv, [DBNext]_dbVars
  PROVE  IndexInv' /\ (NoCollisions /\ SessionsRight => SessionsRight')
<1>1. CASE UNCHANGED dbVars
  <2>1. HandleInv' /\ StoringTypes' /\ SessionTypes'
    BY <1>1, HandleStep DEF dbVars, indexVars, storeVars, IndexInv, StoringTypes,
                            StoringTokens, SessionTypes
  <2>2. EntriesRight' /\ IndexMirrorsStore' /\ (SessionsRight => SessionsRight')
    BY <1>1 DEF dbVars, indexVars, storeVars, IndexInv, EntriesRight, EntryOf,
                IndexMirrorsStore, SessionsRight
  <2> QED BY <2>1, <2>2 DEF IndexInv
<1>2. CASE \E c \in Clients : \E context \in Contexts : CreateSession(c, context)
  BY <1>2, CreateSessionStep
<1>3. CASE \E c \in Clients : UseSession(c) \/ StartStore(c)
  BY <1>3, UseSessionStep, StartStoreStep
<1>4. CASE StoreNextBlock(KV(SubSeq(StoringTokens, 1, next)))
  BY <1>4, StoreNextBlockStep
<1>5. CASE StoreSessionFails
  BY <1>5, StoreSessionFailsStep
<1>6. CASE EndStore
  BY <1>6, EndStoreStep
<1>7. CASE \E h \in DOMAIN issued : DeleteBlock(h)
  BY <1>7, DeleteBlockStep
<1> QED BY <1>1, <1>2, <1>3, <1>4, <1>5, <1>6, <1>7 DEF DBNext

\* An empty database.
LEMMA IndexInit == DBInit => IndexInv /\ SessionsRight
<1> SUFFICES ASSUME DBInit PROVE IndexInv /\ SessionsRight
  OBVIOUS
<1>1. /\ entries = <<>> /\ entries \in Seq(Entry) /\ Len(entries) = 0
      /\ sessions = [c \in Clients |-> NoSession] /\ storing = Nobody
  BY EmptySeq DEF DBInit
<1>2. /\ \A c \in Clients : /\ sessions[c].handles = <<>> /\ sessions[c].tokens = <<>>
                            /\ Len(sessions[c].handles) = 0 /\ Len(sessions[c].tokens) = 0
      /\ sessions \in [Clients -> [tokens : Contexts \cup {<<>>}, handles : Seq(Handle)]]
  <2>1. NoSession.handles = <<>> /\ NoSession.tokens = <<>> /\ Len(<<>>) = 0 /\ <<>> \in Seq(Handle)
    BY EmptySeq DEF NoSession
  <2>2. NoSession \in [tokens : Contexts \cup {<<>>}, handles : Seq(Handle)]
    BY <2>1 DEF NoSession
  <2> QED BY <1>1, <2>1, <2>2
<1>3. SessionTypes /\ SessionsRight /\ StoringTypes
  BY <1>1, <1>2 DEF SessionTypes, SessionsRight, StoringTypes
<1>4. ToSet(entries) = {}
  <2>1. DOMAIN entries = {}
    BY <1>1
  <2> QED BY <2>1 DEF ToSet
<1>5. EntriesRight
  BY <1>1, <1>4 DEF EntriesRight, HandlesOnce
<1>6. IndexMirrorsStore
  BY <1>4 DEF IndexMirrorsStore, DBInit, StoreInit
<1> QED BY <1>3, <1>5, <1>6, HandleInit DEF IndexInv, DBInit

\* The index names exactly the resident blocks, whatever is stored, evicted and
\* deleted and wherever store_session fails; hashes may collide.
THEOREM IndexExactlyResident == DBSpec => []IndexMirrorsStore
<1>1. DBInit => IndexInv
  BY IndexInit
<1>2. IndexInv /\ [DBNext]_dbVars => IndexInv'
  BY IndexStep
<1>3. IndexInv => IndexMirrorsStore
  BY DEF IndexInv
<1> QED BY <1>1, <1>2, <1>3, PTL DEF DBSpec

\* Unless two prefixes that end in the same block have the same chained hash, a
\* session yields only the KV of its own context.  context_db_collision shows
\* that this condition is needed.
THEOREM SessionsHonest == ASSUME NoCollisions PROVE DBSpec => []HandlesHonest
<1> DEFINE I == IndexInv /\ SessionsRight
<1>1. DBInit => I
  BY IndexInit
<1>2. I /\ [DBNext]_dbVars => I'
  BY IndexStep
<1>3. I => HandlesHonest
  <2> SUFFICES ASSUME IndexInv, SessionsRight, NEW c \in Clients,
                      NEW i \in 1 .. Len(sessions[c].handles),
                      Resolves(sessions[c].handles[i])
               PROVE  tensor[sessions[c].handles[i][1]] = KV(SubSeq(sessions[c].tokens, 1, i))
    BY DEF HandlesHonest
  <2>1. sessions[c].handles[i] \in DOMAIN issued
    BY DEF IndexInv, SessionTypes
  <2> QED BY <2>1 DEF SessionsRight, IndexInv, HandleInv, HandlesNeverAliased
<1> HIDE DEF I
<1> QED BY <1>1, <1>2, <1>3, PTL DEF DBSpec

-----------------------------------------------------------------------------
(* Folds over sequences *)

\* F is defined by recursion over 0 .. m.
ByRecursion(F, m, S, base, G) ==
  /\ F \in [0 .. m -> S]
  /\ F[0] = base
  /\ \A i \in 1 .. m : F[i] = G[<<i, F[i - 1]>>]

\* There is such a function.
LEMMA Recursion ==
  ASSUME NEW m \in Nat, NEW S, NEW base \in S, NEW G \in [(1 .. m) \X S -> S]
  PROVE  \E F : ByRecursion(F, m, S, base, G)
<1> DEFINE Defined(j) == \E F \in [0 .. j -> S] :
                           /\ F[0] = base
                           /\ \A i \in 1 .. j : F[i] = G[<<i, F[i - 1]>>]
           T == {j \in 0 .. m : ~Defined(j)}
<1>1. Defined(0)
  <2>1. [i \in 0 .. 0 |-> base] \in [0 .. 0 -> S]
    OBVIOUS
  <2>2. \A i \in 1 .. 0 : FALSE
    OBVIOUS
  <2>3. [i \in 0 .. 0 |-> base][0] = base
    OBVIOUS
  <2> QED BY <2>1, <2>2, <2>3
<1>2. ASSUME NEW j \in 1 .. m, Defined(j - 1)
      PROVE  Defined(j)
  <2>1. PICK F \in [0 .. j - 1 -> S] :
          /\ F[0] = base
          /\ \A i \in 1 .. j - 1 : F[i] = G[<<i, F[i - 1]>>]
    BY <1>2
  <2> DEFINE H == [i \in 0 .. j |-> IF i = j THEN G[<<j, F[j - 1]>>] ELSE F[i]]
  <2>2. F[j - 1] \in S /\ G[<<j, F[j - 1]>>] \in S
    <3>1. j - 1 \in 0 .. j - 1
      OBVIOUS
    <3>2. F[j - 1] \in S
      BY <3>1
    <3>3. <<j, F[j - 1]>> \in (1 .. m) \X S
      BY <3>2
    <3> QED BY <3>2, <3>3
  <2>3. H \in [0 .. j -> S]
    BY <2>2
  <2>4. \A i \in 0 .. j - 1 : H[i] = F[i]
    OBVIOUS
  <2>5. H[0] = base
    BY <2>1, <2>4
  <2>6. H[j] = G[<<j, H[j - 1]>>]
    <3>1. j \in 0 .. j /\ j - 1 \in 0 .. j - 1
      OBVIOUS
    <3>2. H[j] = G[<<j, F[j - 1]>>]
      BY <3>1
    <3>3. H[j - 1] = F[j - 1]
      BY <2>4, <3>1
    <3> QED BY <3>2, <3>3
  <2>7. \A i \in 1 .. j - 1 : H[i] = G[<<i, H[i - 1]>>]
    <3>1. \A i \in 1 .. j - 1 : i \in 0 .. j - 1 /\ i - 1 \in 0 .. j - 1
      OBVIOUS
    <3> HIDE DEF H
    <3> QED BY <2>1, <2>4, <3>1
  <2> HIDE DEF H
  <2>8. \A i \in 1 .. j : i = j \/ i \in 1 .. j - 1
    OBVIOUS
  <2> QED BY <2>3, <2>5, <2>6, <2>7, <2>8
<1> HIDE DEF Defined
<1>3. T = {}
  <2>1. SUFFICES ASSUME T # {} PROVE FALSE
    OBVIOUS
  <2>2. PICK j \in T : \A i \in T : j <= i
    <3>1. T \in SUBSET Nat
      OBVIOUS
    <3> HIDE DEF T
    <3> QED BY <2>1, <3>1, LeastNat
  <2>3. j \in 0 .. m /\ ~Defined(j)
    OBVIOUS
  <2>4. j # 0
    BY <1>1, <2>3
  <2>5. Defined(j - 1)
    <3>1. j - 1 \in 0 .. m /\ ~ (j <= j - 1)
      BY <2>3, <2>4
    <3> QED BY <2>2, <3>1
  <2> QED BY <1>2, <2>3, <2>4, <2>5
<1>4. Defined(m)
  <2>1. m \in 0 .. m
    OBVIOUS
  <2> QED BY <1>3, <2>1
<1> QED BY <1>4 DEF Defined, ByRecursion

\* Max is the greatest of the indices.
LEMMA MaxIndex ==
  ASSUME NEW n \in Nat, NEW T \in SUBSET (1 .. n), T # {}
  PROVE  Max(T) \in T /\ \A y \in T : y <= Max(T)
<1> DEFINE D == {n - x : x \in T}
<1>1. D \in SUBSET Nat /\ D # {}
  <2>1. \A x \in T : n - x \in Nat
    OBVIOUS
  <2>2. D \in SUBSET Nat
    BY <2>1
  <2>3. D # {}
    OBVIOUS
  <2> QED BY <2>2, <2>3
<1>2. PICK d \in D : \A e \in D : d <= e
  <2> HIDE DEF D
  <2> QED BY <1>1, LeastNat
<1>3. PICK x \in T : d = n - x
  BY <1>2
<1>4. \A y \in T : x >= y
  <2> SUFFICES ASSUME NEW y \in T PROVE x >= y
    OBVIOUS
  <2>1. d <= n - y
    BY <1>2
  <2> QED BY <1>3, <2>1
<1>5. Max(T) \in T /\ \A y \in T : Max(T) >= y
  BY <1>4 DEF Max
<1> QED BY <1>5

\* What is left of a set of places without the last of them.
LEMMA LastTaken ==
  ASSUME NEW n \in Nat, NEW s \in SUBSET (1 .. n)
  PROVE  /\ Cardinality(s) \in 0 .. n /\ (s = {} <=> Cardinality(s) = 0)
         /\ s # {} => /\ Max(s) \in s /\ s \ {Max(s)} \in SUBSET (1 .. n)
                      /\ Cardinality(s \ {Max(s)}) = Cardinality(s) - 1
<1>1. IsFiniteSet(1 .. n) /\ Cardinality(1 .. n) = n
  <2>1. IsFiniteSet(1 .. n) /\ Cardinality(1 .. n) = IF 1 > n THEN 0 ELSE n - 1 + 1
    BY FS_Interval
  <2> QED BY <2>1
<1>2. IsFiniteSet(s) /\ Cardinality(s) <= n
  BY <1>1, FS_Subset
<1>6. s \ {Max(s)} \in SUBSET (1 .. n)
  OBVIOUS
<1>3. Cardinality(s) \in Nat /\ (Cardinality(s) = 0 <=> s = {})
  BY <1>2, FS_CardinalityType, FS_EmptySet
<1>4. s # {} => Max(s) \in s
  BY MaxIndex
<1>5. s # {} => Cardinality(s \ {Max(s)}) = Cardinality(s) - 1
  BY <1>2, <1>4, FS_RemoveElement
<1>7. Cardinality(s) \in 0 .. n
  BY <1>2, <1>3
<1> QED BY <1>3, <1>4, <1>5, <1>6, <1>7

\* it folds hs, place by place from the last, with the function G.
FoldedBy(it, base, hs, G) ==
  it = [s \in SUBSET DOMAIN hs |->
          IF s = {} THEN base ELSE G[<<it[s \ {Max(s)}], hs[Max(s)]>>]]

\* A step G of a fold over hs can be repeated over all its places.
LEMMA FoldExists ==
  ASSUME NEW V, NEW E, NEW base \in V, NEW hs \in Seq(E), NEW G \in [V \X E -> V]
  PROVE  \E it \in [SUBSET DOMAIN hs -> V] : FoldedBy(it, base, hs, G)
<1> DEFINE n == Len(hs)
           P == SUBSET (1 .. n)
           Space == [P -> V]
           Step(f) == [s \in P |-> IF s = {} THEN base
                                   ELSE G[<<f[s \ {Max(s)}], hs[Max(s)]>>]]
           zero == [s \in P |-> base]
           step == [p \in (1 .. n) \X Space |-> Step(p[2])]
<1>1. n \in Nat /\ DOMAIN hs = 1 .. n /\ \A i \in 1 .. n : hs[i] \in E
  BY InSeq, LenProperties
<1>2. \A f \in Space : Step(f) \in Space
  <2> SUFFICES ASSUME NEW f \in Space, NEW s \in P, s # {}
               PROVE  G[<<f[s \ {Max(s)}], hs[Max(s)]>>] \in V
    OBVIOUS
  <2>1. Max(s) \in 1 .. n /\ s \ {Max(s)} \in P
    BY <1>1, LastTaken
  <2> QED BY <1>1, <2>1
<1>3. zero \in Space
  OBVIOUS
<1>4. step \in [(1 .. n) \X Space -> Space]
  <2> HIDE DEF Step, Space
  <2> QED BY <1>2
<1>5. \A i \in 1 .. n, f \in Space : step[<<i, f>>] = Step(f)
  <2> HIDE DEF Step, Space
  <2> QED OBVIOUS
<1>6. PICK F \in [0 .. n -> Space] :
        /\ F[0] = zero
        /\ \A i \in 1 .. n : F[i] = step[<<i, F[i - 1]>>]
  <2> HIDE DEF step, Space, n, zero
  <2>1. \E F : ByRecursion(F, n, Space, zero, step)
    BY <1>1, <1>3, <1>4, Recursion
  <2> QED BY <2>1 DEF ByRecursion
<1> DEFINE it == [s \in P |-> F[Cardinality(s)][s]]
<1>7. \A s \in P : F[Cardinality(s)] \in Space
  <2> HIDE DEF Space
  <2> QED BY <1>1, LastTaken
<1>8. it \in Space
  <2>1. \A s \in P : F[Cardinality(s)][s] \in V
    BY <1>7
  <2> QED BY <2>1
<1>9. ASSUME NEW s \in P
      PROVE  it[s] = IF s = {} THEN base ELSE G[<<it[s \ {Max(s)}], hs[Max(s)]>>]
  <2>1. CASE s = {}
    <3>1. Cardinality(s) = 0
      BY <1>1, <2>1, LastTaken
    <3> QED BY <1>6, <2>1, <3>1
  <2>2. CASE s # {}
    <3> DEFINE r == s \ {Max(s)}
               k == Cardinality(s)
    <3>1. k \in 1 .. n /\ r \in P /\ Cardinality(r) = k - 1
      <4>1. k \in 0 .. n /\ k # 0 /\ r \in P /\ Cardinality(r) = k - 1
        <5> HIDE DEF n
        <5> QED BY <1>1, <2>2, LastTaken
      <4> HIDE DEF k, r, n, P
      <4> QED BY <1>1, <4>1
    <3>2. F[k] = step[<<k, F[k - 1]>>] /\ F[k - 1] \in Space
      <4> HIDE DEF step, Space, n, k, it, Step, zero
      <4>1. F[k] = step[<<k, F[k - 1]>>]
        BY <1>6, <3>1
      <4>2. k - 1 \in 0 .. n
        BY <1>1, <3>1
      <4>3. F[k - 1] \in Space
        BY <4>2
      <4> QED BY <4>1, <4>3
    <3>3. F[k] = Step(F[k - 1])
      <4> HIDE DEF step, Space, n, Step, k
      <4> QED BY <1>5, <3>1, <3>2
    <3>4. F[k][s] = G[<<F[k - 1][r], hs[Max(s)]>>]
      <4> HIDE DEF k
      <4> QED BY <2>2, <3>3
    <3>5. it[s] = F[k][s] /\ it[r] = F[k - 1][r]
      BY <3>1
    <3> QED BY <2>2, <3>4, <3>5
  <2> QED BY <2>1, <2>2
<1> HIDE DEF it
<1>10. it = [s \in P |-> it[s]]
  BY <1>8
<1>11. FoldedBy(it, base, hs, G)
  <2>1. it = [s \in P |-> IF s = {} THEN base ELSE G[<<it[s \ {Max(s)}], hs[Max(s)]>>]]
    BY <1>9, <1>10
  <2> QED BY <1>1, <2>1 DEF FoldedBy
<1> QED BY <1>1, <1>8, <1>11

\* The lookup touches its handles one after the other.
LEMMA TouchedInTurn ==
  ASSUME NEW q \in Seq(Slots), IsInjective(q), NEW hs \in Seq(Handle)
  PROVE  \E f : /\ f[0] = q
                /\ \A i \in 1 .. Len(hs) : f[i] = Touched(f[i - 1], hs[i][1])
                /\ f[Len(hs)] = TouchedByLookup(q, hs)
<1> DEFINE n == Len(hs)
           V == {o \in Seq(Slots) : IsInjective(o)}
           G == [p \in V \X Handle |-> Touched(p[1], p[2][1])]
           Fold(it) == it = [s \in SUBSET DOMAIN hs |->
                              IF s = {} THEN q ELSE Touched(it[s \ {Max(s)}], hs[Max(s)][1])]
<1>1. n \in Nat /\ DOMAIN hs = 1 .. n /\ \A i \in 1 .. n : hs[i] \in Handle
  BY InSeq, LenProperties
<1>2. \A o \in V, h \in Handle : Touched(o, h[1]) \in V
  <2> SUFFICES ASSUME NEW o \in V, NEW h \in Handle PROVE Touched(o, h[1]) \in V
    OBVIOUS
  <2>1. h[1] \in Slots /\ o \in Seq(Slots) /\ IsInjective(o)
    BY DEF Handle
  <2>2. UseOrder(o, ToSet(o), Slots \X Slots)
    BY <2>1, InSeq DEF UseOrder
  <2>3. UseOrder(Touched(o, h[1]), ToSet(o) \cup {h[1]}, UsedNow(Slots \X Slots, h[1]))
    BY <2>1, <2>2, OrderUse
  <2> QED BY <2>3 DEF UseOrder
<1>3. G \in [V \X Handle -> V] /\ \A o \in V, h \in Handle : G[<<o, h>>] = Touched(o, h[1])
  <2> HIDE DEF V
  <2> QED BY <1>2
<1>4. q \in V
  OBVIOUS
<1> HIDE DEF V, G
<1>5. PICK jt \in [SUBSET DOMAIN hs -> V] : FoldedBy(jt, q, hs, G)
  BY <1>3, <1>4, FoldExists
<1>6. \A s \in SUBSET DOMAIN hs : s # {} =>
        G[<<jt[s \ {Max(s)}], hs[Max(s)]>>] = Touched(jt[s \ {Max(s)}], hs[Max(s)][1])
  <2> SUFFICES ASSUME NEW s \in SUBSET DOMAIN hs, s # {}
               PROVE  G[<<jt[s \ {Max(s)}], hs[Max(s)]>>]
                        = Touched(jt[s \ {Max(s)}], hs[Max(s)][1])
    OBVIOUS
  <2>1. Max(s) \in 1 .. n /\ s \ {Max(s)} \in SUBSET DOMAIN hs
    BY <1>1, MaxIndex
  <2>2. jt[s \ {Max(s)}] \in V /\ hs[Max(s)] \in Handle
    BY <1>1, <1>5, <2>1
  <2> QED BY <1>3, <2>2
<1>7. Fold(jt)
  BY <1>5, <1>6 DEF FoldedBy
<1> DEFINE it == CHOOSE j : Fold(j)
<1>8. Fold(it)
  <2> HIDE DEF Fold
  <2> QED BY <1>7
<1>9. TouchedByLookup(q, hs) = it[DOMAIN hs]
  BY DEF TouchedByLookup, FoldLeft, MapThenFoldSet
<1> HIDE DEF it
<1> DEFINE f == [i \in 0 .. n |-> it[1 .. i]]
<1>10. f[0] = q
  <2>1. 1 .. 0 = {} /\ 0 \in 0 .. n
    BY <1>1
  <2>2. it[{}] = q
    BY <1>8
  <2> QED BY <2>1, <2>2
<1>11. ASSUME NEW i \in 1 .. n PROVE f[i] = Touched(f[i - 1], hs[i][1])
  <2>1. Max(1 .. i) = i
    <3>1. 1 .. i \in SUBSET (1 .. n) /\ i \in 1 .. i /\ n \in Nat
      BY <1>1
    <3>2. Max(1 .. i) \in 1 .. i /\ i <= Max(1 .. i)
      BY <3>1, MaxIndex
    <3> QED BY <3>2
  <2>2. (1 .. i) \ {i} = 1 .. i - 1 /\ 1 .. i # {} /\ 1 .. i \in SUBSET DOMAIN hs
    <3>1. i \in 1 .. i /\ 1 .. i \in SUBSET (1 .. n)
      BY <1>1
    <3>2. (1 .. i) \ {i} = 1 .. i - 1
      OBVIOUS
    <3> HIDE DEF n
    <3> QED BY <1>1, <3>1, <3>2
  <2>3. it[1 .. i] = Touched(it[1 .. i - 1], hs[i][1])
    BY <1>8, <2>1, <2>2
  <2>4. i \in 0 .. n /\ i - 1 \in 0 .. n
    BY <1>1
  <2> QED BY <2>3, <2>4
<1>12. f[n] = TouchedByLookup(q, hs)
  BY <1>1, <1>9
<1> HIDE DEF f
<1> QED BY <1>10, <1>11, <1>12

\* What the history of uses becomes by a lookup.
UsedByLookup(after, hs) == FoldLeft(LAMBDA a, h : UsedNow(a, h[1]), after, hs)

\* The history takes note of them in turn.
LEMMA UsedInTurn ==
  ASSUME NEW after \in SUBSET (Slots \X Slots), NEW hs \in Seq(Handle)
  PROVE  \E f : /\ f[0] = after
                /\ \A i \in 1 .. Len(hs) : f[i] = UsedNow(f[i - 1], hs[i][1])
                /\ f[Len(hs)] = UsedByLookup(after, hs)
<1> DEFINE n == Len(hs)
           V == SUBSET (Slots \X Slots)
           G == [p \in V \X Handle |-> UsedNow(p[1], p[2][1])]
           Fold(it) == it = [s \in SUBSET DOMAIN hs |->
                              IF s = {} THEN after ELSE UsedNow(it[s \ {Max(s)}], hs[Max(s)][1])]
<1>1. n \in Nat /\ DOMAIN hs = 1 .. n /\ \A i \in 1 .. n : hs[i] \in Handle
  BY InSeq, LenProperties
<1>2. \A a \in V, h \in Handle : UsedNow(a, h[1]) \in V
  BY DEF UsedNow, Handle
<1>3. G \in [V \X Handle -> V] /\ \A a \in V, h \in Handle : G[<<a, h>>] = UsedNow(a, h[1])
  <2> HIDE DEF V
  <2> QED BY <1>2
<1>4. after \in V
  OBVIOUS
<1> HIDE DEF V, G
<1>5. PICK jt \in [SUBSET DOMAIN hs -> V] : FoldedBy(jt, after, hs, G)
  BY <1>3, <1>4, FoldExists
<1>6. \A s \in SUBSET DOMAIN hs : s # {} =>
        G[<<jt[s \ {Max(s)}], hs[Max(s)]>>] = UsedNow(jt[s \ {Max(s)}], hs[Max(s)][1])
  <2> SUFFICES ASSUME NEW s \in SUBSET DOMAIN hs, s # {}
               PROVE  G[<<jt[s \ {Max(s)}], hs[Max(s)]>>]
                        = UsedNow(jt[s \ {Max(s)}], hs[Max(s)][1])
    OBVIOUS
  <2>1. Max(s) \in 1 .. n /\ s \ {Max(s)} \in SUBSET DOMAIN hs
    BY <1>1, MaxIndex
  <2>2. jt[s \ {Max(s)}] \in V /\ hs[Max(s)] \in Handle
    BY <1>1, <1>5, <2>1
  <2> QED BY <1>3, <2>2
<1>7. Fold(jt)
  BY <1>5, <1>6 DEF FoldedBy
<1> DEFINE it == CHOOSE j : Fold(j)
<1>8. Fold(it)
  <2> HIDE DEF Fold
  <2> QED BY <1>7
<1>9. UsedByLookup(after, hs) = it[DOMAIN hs]
  BY DEF UsedByLookup, FoldLeft, MapThenFoldSet
<1> HIDE DEF it
<1> DEFINE f == [i \in 0 .. n |-> it[1 .. i]]
<1>10. f[0] = after
  <2>1. 1 .. 0 = {} /\ 0 \in 0 .. n
    BY <1>1
  <2>2. it[{}] = after
    BY <1>8
  <2> QED BY <2>1, <2>2
<1>11. ASSUME NEW i \in 1 .. n PROVE f[i] = UsedNow(f[i - 1], hs[i][1])
  <2>1. Max(1 .. i) = i
    <3>1. 1 .. i \in SUBSET (1 .. n) /\ i \in 1 .. i /\ n \in Nat
      BY <1>1
    <3>2. Max(1 .. i) \in 1 .. i /\ i <= Max(1 .. i)
      BY <3>1, MaxIndex
    <3> QED BY <3>2
  <2>2. (1 .. i) \ {i} = 1 .. i - 1 /\ 1 .. i # {} /\ 1 .. i \in SUBSET DOMAIN hs
    <3>1. i \in 1 .. i /\ 1 .. i \in SUBSET (1 .. n)
      BY <1>1
    <3>2. (1 .. i) \ {i} = 1 .. i - 1
      OBVIOUS
    <3> HIDE DEF n
    <3> QED BY <1>1, <3>1, <3>2
  <2>3. it[1 .. i] = UsedNow(it[1 .. i - 1], hs[i][1])
    BY <1>8, <2>1, <2>2
  <2>4. i \in 0 .. n /\ i - 1 \in 0 .. n
    BY <1>1
  <2> QED BY <2>3, <2>4
<1>12. f[n] = UsedByLookup(after, hs)
  BY <1>1, <1>9
<1> HIDE DEF f
<1> QED BY <1>10, <1>11, <1>12

-----------------------------------------------------------------------------
(* What is stored in one go is found *)

\* Nothing in R was used after the last use of anything in S.
UsedLast(S, R, after) == \A x \in S, y \in R : <<x, y>> \notin after

\* A lookup keeps the order of the slots and leaves those it found used last.
LEMMA LookupUses ==
  ASSUME LruRight, usedAfter \subseteq Slots \X Slots, NEW hs \in Seq(Handle),
         SlotsOf(hs) \subseteq occupied,
         NEW after, after = UsedByLookup(usedAfter, hs)
  PROVE  /\ UseOrder(TouchedByLookup(lru, hs), occupied, after)
         /\ after \subseteq Slots \X Slots
         /\ UsedLast(SlotsOf(hs), occupied \ SlotsOf(hs), after)
<1> DEFINE n == Len(hs)
           S == SlotsOf(hs)
<1>1. n \in Nat /\ \A i \in 1 .. n : hs[i][1] \in S /\ hs[i][1] \in Slots
  <2>1. n \in Nat /\ \A i \in 1 .. n : hs[i] \in Handle
    BY InSeq
  <2> QED BY <2>1 DEF SlotsOf, Handle
<1>2. PICK f : /\ f[0] = lru
               /\ \A i \in 1 .. n : f[i] = Touched(f[i - 1], hs[i][1])
               /\ f[n] = TouchedByLookup(lru, hs)
  BY TouchedInTurn DEF LruRight, UseOrder
<1>3. PICK g : /\ g[0] = usedAfter
               /\ \A i \in 1 .. n : g[i] = UsedNow(g[i - 1], hs[i][1])
               /\ g[n] = after
  <2>1. usedAfter \in SUBSET (Slots \X Slots)
    OBVIOUS
  <2>2. \E g : /\ g[0] = usedAfter
               /\ \A i \in 1 .. Len(hs) : g[i] = UsedNow(g[i - 1], hs[i][1])
               /\ g[Len(hs)] = UsedByLookup(usedAfter, hs)
    BY <2>1, UsedInTurn
  <2> QED BY <2>2
<1> DEFINE P(i) == /\ UseOrder(f[i], occupied, g[i])
                   /\ g[i] \subseteq Slots \X Slots
                   /\ \A j \in 1 .. i, y \in occupied \ S : <<hs[j][1], y>> \notin g[i]
           T == {i \in 0 .. n : ~P(i)}
<1>4. P(0)
  <2>1. UseOrder(f[0], occupied, g[0]) /\ g[0] \subseteq Slots \X Slots
    BY <1>2, <1>3 DEF LruRight
  <2>2. \A j \in 1 .. 0 : FALSE
    OBVIOUS
  <2> QED BY <2>1, <2>2
<1>5. ASSUME NEW i \in 1 .. n, P(i - 1) PROVE P(i)
  <2> DEFINE s == hs[i][1]
             a == g[i - 1]
  <2>1. s \in Slots /\ s \in S /\ s \in occupied
    BY <1>1
  <2>2. f[i] = Touched(f[i - 1], s) /\ g[i] = UsedNow(a, s)
    BY <1>2, <1>3
  <2>3. UseOrder(f[i - 1], occupied, a) /\ a \subseteq Slots \X Slots
    BY <1>5
  <2>4. \A j \in 1 .. i - 1, y \in occupied \ S : <<hs[j][1], y>> \notin a
    BY <1>5
  <2>5. \A j \in 1 .. i : j \in 1 .. i - 1 \/ hs[j][1] = s
    OBVIOUS
  <2> HIDE DEF s, a, S
  <2>6. UseOrder(f[i], occupied, g[i])
    <3>1. occupied \cup {s} = occupied
      BY <2>1
    <3>2. UseOrder(Touched(f[i - 1], s), occupied \cup {s}, UsedNow(a, s))
      BY <2>1, <2>3, OrderUse
    <3> QED BY <2>2, <3>1, <3>2
  <2>7. g[i] \subseteq Slots \X Slots
    BY <2>1, <2>2, <2>3 DEF UsedNow
  <2>8. ASSUME NEW j \in 1 .. i, NEW y \in occupied \ S PROVE <<hs[j][1], y>> \notin g[i]
    <3>1. y # s
      BY <2>1
    <3>2. hs[j][1] # s => <<hs[j][1], y>> \notin a
      BY <2>4, <2>5
    <3> QED BY <2>2, <3>1, <3>2 DEF UsedNow
  <2> QED BY <2>6, <2>7, <2>8
<1> HIDE DEF P
<1>6. T = {}
  <2>1. SUFFICES ASSUME T # {} PROVE FALSE
    OBVIOUS
  <2>2. PICK i \in T : \A j \in T : i <= j
    <3>1. T \in SUBSET Nat
      OBVIOUS
    <3> HIDE DEF T
    <3> QED BY <2>1, <3>1, LeastNat
  <2>3. i \in 0 .. n /\ ~P(i)
    BY <2>2
  <2>4. i # 0
    BY <1>4, <2>3
  <2>5. P(i - 1)
    <3>1. i - 1 \in 0 .. n /\ ~ (i <= i - 1)
      BY <1>1, <2>3, <2>4
    <3> QED BY <2>2, <3>1
  <2> QED BY <1>5, <2>3, <2>4, <2>5
<1>7. P(n)
  BY <1>1, <1>6
<1>8. UseOrder(f[n], occupied, g[n]) /\ g[n] \subseteq Slots \X Slots
  BY <1>7 DEF P
<1>9. UsedLast(SlotsOf(hs), occupied \ SlotsOf(hs), after)
  <2>1. \A j \in 1 .. n, y \in occupied \ S : <<hs[j][1], y>> \notin after
    BY <1>3, <1>7 DEF P
  <2> QED BY <2>1 DEF UsedLast, SlotsOf
<1> QED BY <1>2, <1>3, <1>8, <1>9

\* There are no more of them than handles.
LEMMA FewSlots ==
  ASSUME NEW hs \in Seq(Handle)
  PROVE  Len(hs) \in Nat /\ Cardinality(SlotsOf(hs)) <= Len(hs)
<1>1. Len(hs) \in Nat
  BY InSeq
<1> DEFINE f == [i \in 1 .. Len(hs) |-> hs[i][1]]
<1>2. f \in Surjection(1 .. Len(hs), SlotsOf(hs))
  BY DEF Surjection, SlotsOf
<1>3. ExistsSurjection(1 .. Len(hs), SlotsOf(hs))
  BY <1>2 DEF ExistsSurjection
<1> QED BY <1>1, <1>3, FS_SurjCardinalityBound

\* The blocks that the session of c has stored or found.
Kept(c) == IF storing = c THEN next - 1 ELSE Len(sessions[c].handles)

\* The context of c fits the store.
Fits(c) == Len(sessions[c].tokens) <= Cardinality(freeSlots \cup occupied)

\* Block i of the context is indexed as lying in S.
LiesIn(context, i, S) ==
  \E e \in ToSet(entries) :
    e.key = ChainHash(context)[i] /\ e.block = context[i] /\ e.handle[1] \in S

\* The blocks that c has lie in S, which is not larger, and were used last.
KeptIn(c, S) ==
  /\ Cardinality(S) <= Kept(c)
  /\ UsedLast(S, occupied \ S, usedAfter)
  /\ \A i \in 1 .. Kept(c) : LiesIn(sessions[c].tokens, i, S)

\* A session that was not disturbed since its lookup, and whose context fits,
\* keeps what it has in the slots that were used last.
SteadyRight ==
  /\ storing # Nobody => next <= Len(StoringTokens) + 1
  /\ steady # Nobody =>
       /\ steady \in Clients /\ storing \in {steady, Nobody}
       /\ Fits(steady) => \E S \in SUBSET occupied : KeptIn(steady, S)

UsesRight ==
  /\ SlotsNotLost /\ LruRight
  /\ freeSlots \subseteq Slots /\ usedAfter \subseteq Slots \X Slots

DBInv == IndexInv /\ UsesRight /\ SteadyRight

\* Every operation but create_session calls the store once at most.
LEMMA StoreCalls ==
  ASSUME IndexInv, DBNext
  PROVE  \/ \E c \in Clients : \E context \in Contexts : CreateSession(c, context)
         \/ [StoreNext]_storeVars
<1>1. ASSUME NEW c \in Clients, UseSession(c) PROVE StoreNext
  <2>1. PICK h \in ToSet(sessions[c].handles) : Use(h)
    BY <1>1 DEF UseSession
  <2>2. sessions[c].handles \in Seq(Handle)
    BY DEF IndexInv, SessionTypes
  <2>3. h \in DOMAIN issued
    BY <2>2, InSeq DEF IndexInv, SessionTypes
  <2> QED BY <2>1, <2>3 DEF StoreNext
<1>2. ASSUME NEW c \in Clients, StartStore(c) PROVE UNCHANGED storeVars
  BY <1>2 DEF StartStore
<1>3. ASSUME StoreNextBlock(KV(SubSeq(StoringTokens, 1, next))) PROVE StoreNext
  <2>1. StoringTokens \in Contexts /\ next \in 1 .. Len(StoringTokens)
    BY <1>3, MatchedRight DEF StoreNextBlock, IndexInv, StoringTypes
  <2>2. KV(SubSeq(StoringTokens, 1, next)) \in Payload
    BY <2>1, ContextAssumption
  <2> QED BY <1>3, <2>2 DEF StoreNextBlock, StoreNext
<1>4. ASSUME StoreSessionFails PROVE StoreNext \/ UNCHANGED storeVars
  BY <1>4 DEF StoreSessionFails, StoreNext
<1>5. ASSUME EndStore PROVE UNCHANGED storeVars
  BY <1>5 DEF EndStore
<1>6. ASSUME NEW h \in DOMAIN issued, DeleteBlock(h) PROVE StoreNext
  BY <1>6 DEF DeleteBlock, StoreNext
<1> QED BY <1>1, <1>2, <1>3, <1>4, <1>5, <1>6 DEF DBNext

\* create_session uses the slots that it found.
LEMMA CreateSessionUses ==
  ASSUME IndexInv, UsesRight, NEW c \in Clients, NEW context \in Contexts,
         CreateSession(c, context)
  PROVE  /\ UsesRight'
         /\ LET S == SlotsOf(Lookup(entries, context))
            IN  UsedLast(S, occupied \ S, usedAfter')
<1> DEFINE hs == Lookup(entries, context)
<1>1. /\ hs \in Seq(Handle) /\ SlotsOf(hs) \subseteq occupied
      /\ LiveEntries(context) = entries
  BY LookupLive
<1>2. /\ lru' = TouchedByLookup(lru, hs) /\ usedAfter' = UsedByLookup(usedAfter, hs)
      /\ UNCHANGED <<generation, occupied, tensor, freeSlots, lost>>
  BY <1>1 DEF CreateSession, UsedByLookup
<1> HIDE DEF hs
<1>3. PICK after : after = UsedByLookup(usedAfter, hs)
  OBVIOUS
<1>4. /\ UseOrder(TouchedByLookup(lru, hs), occupied, after)
      /\ after \subseteq Slots \X Slots
      /\ UsedLast(SlotsOf(hs), occupied \ SlotsOf(hs), after)
  BY <1>1, <1>3, LookupUses DEF UsesRight
<1>5. UseOrder(lru', occupied', usedAfter') /\ usedAfter' \subseteq Slots \X Slots
  BY <1>2, <1>3, <1>4
<1>6. LruRight'
  BY <1>5 DEF LruRight, UseOrder
<1>7. SlotsNotLost'
  BY <1>2 DEF UsesRight, SlotsNotLost
<1>9. freeSlots' \subseteq Slots
  BY <1>2 DEF UsesRight
<1>8. UsedLast(SlotsOf(hs), occupied \ SlotsOf(hs), usedAfter')
  BY <1>2, <1>3, <1>4
<1> QED BY <1>5, <1>6, <1>7, <1>8, <1>9 DEF UsesRight, hs

\* Every operation keeps the order of the slots.
LEMMA UsesStep ==
  ASSUME IndexInv, UsesRight, [DBNext]_dbVars
  PROVE  UsesRight'
<1>1. ASSUME [StoreNext]_storeVars PROVE UsesRight'
  <2>1. SlotsNotLost' /\ LruRight'
    BY <1>1, SlotsStep, LruStep DEF IndexInv, UsesRight, HandleInv
  <2>2. \A s \in Slots : UsedNow(usedAfter, s) \subseteq Slots \X Slots
    BY DEF UsesRight, UsedNow
  <2>3. \A h \in DOMAIN issued : h[1] \in Slots
    BY DEF IndexInv, HandleInv, SlotTypes, Handle
  <2>4. usedAfter' = usedAfter \/ \E s \in Slots : usedAfter' = UsedNow(usedAfter, s)
    <3>1. ASSUME NEW s \in Slots, NEW p \in Payload, StoreBlock(s, p)
          PROVE  usedAfter' = UsedNow(usedAfter, s)
      BY <3>1 DEF StoreBlock
    <3>2. ASSUME NEW s \in Slots, StoreFails(s)
          PROVE  usedAfter' = usedAfter
      BY <3>2 DEF StoreFails, StoreCopyFails, StoreLosesSlot
    <3>3. ASSUME NEW h \in DOMAIN issued, Use(h)
          PROVE  usedAfter' = UsedNow(usedAfter, h[1])
      BY <3>3 DEF Use
    <3>4. ASSUME NEW h \in DOMAIN issued, Delete(h) PROVE usedAfter' = usedAfter
      BY <3>4 DEF Delete
    <3>5. UNCHANGED storeVars => usedAfter' = usedAfter
      BY DEF storeVars
    <3> QED BY <1>1, <2>3, <3>1, <3>2, <3>3, <3>4, <3>5 DEF StoreNext
  <2>5. usedAfter' \subseteq Slots \X Slots
    <3>1. usedAfter \subseteq Slots \X Slots
      BY DEF UsesRight
    <3>2. CASE usedAfter' = usedAfter
      BY <3>1, <3>2
    <3>3. CASE \E s \in Slots : usedAfter' = UsedNow(usedAfter, s)
      <4>1. PICK s \in Slots : usedAfter' = UsedNow(usedAfter, s)
        BY <3>3
      <4>2. UsedNow(usedAfter, s) \subseteq Slots \X Slots
        BY <2>2
      <4> QED BY <4>1, <4>2
    <3> QED BY <2>4, <3>2, <3>3
  <2>6. freeSlots' \subseteq Slots
    <3> USE DEF UsesRight
    <3>1. ASSUME NEW s \in Slots, NEW p \in Payload, StoreBlock(s, p)
          PROVE  freeSlots' \subseteq Slots
      BY <3>1 DEF StoreBlock
    <3>2. ASSUME NEW s \in Slots, StoreFails(s)
          PROVE  freeSlots' \subseteq Slots
      BY <3>2 DEF StoreFails, StoreCopyFails, StoreLosesSlot
    <3>3. ASSUME NEW h \in DOMAIN issued, Use(h) \/ Delete(h)
          PROVE  freeSlots' \subseteq Slots
      BY <2>3, <3>3 DEF Use, Delete
    <3>4. UNCHANGED storeVars => freeSlots' \subseteq Slots
      BY DEF storeVars
    <3> HIDE DEF UsesRight
    <3> QED BY <1>1, <3>1, <3>2, <3>3, <3>4 DEF StoreNext
  <2> QED BY <2>1, <2>5, <2>6 DEF UsesRight
<1>2. ASSUME NEW c \in Clients, NEW context \in Contexts, CreateSession(c, context)
      PROVE  UsesRight'
  BY <1>2, CreateSessionUses
<1>3. CASE UNCHANGED dbVars
  BY <1>1, <1>3 DEF dbVars
<1>4. CASE DBNext
  BY <1>1, <1>2, <1>4, StoreCalls
<1> QED BY <1>3, <1>4

\* A new session has what it found, in the slots it has just used.
LEMMA CreateSessionSteady ==
  ASSUME IndexInv, UsesRight, NEW c \in Clients, NEW context \in Contexts,
         CreateSession(c, context)
  PROVE  SteadyRight'
<1> DEFINE hs == Lookup(entries, context)
<1>12. PICK S : S = SlotsOf(hs)
  OBVIOUS
<1>1. /\ hs \in Seq(Handle) /\ S \subseteq occupied /\ LiveEntries(context) = entries
  BY <1>12, LookupLive
<1>2. UsedLast(S, occupied \ S, usedAfter')
  BY <1>12, CreateSessionUses
<1>3. Len(hs) \in Nat /\ Cardinality(S) <= Len(hs)
  BY <1>1, <1>12, FewSlots
<1>4. \A i \in 1 .. Len(hs) : LiesIn(context, i, S)
  <2> SUFFICES ASSUME NEW i \in 1 .. Len(hs) PROVE LiesIn(context, i, S)
    OBVIOUS
  <2>1. PICK e \in ToSet(entries) :
          e.handle = hs[i] /\ e.key = ChainHash(context)[i] /\ e.block = context[i]
    BY LookupFinds DEF IndexInv, EntriesRight
  <2>2. hs[i][1] \in S
    BY <1>12 DEF SlotsOf
  <2> QED BY <2>1, <2>2 DEF LiesIn
<1>5. /\ entries' = entries /\ occupied' = occupied
      /\ sessions' = [sessions EXCEPT ![c] = [tokens |-> context, handles |-> hs]]
      /\ storing' = Nobody /\ steady' = c
  BY <1>1 DEF CreateSession
<1> HIDE DEF hs
<1>6. sessions'[c].tokens = context /\ sessions'[c].handles = hs
  <2>1. sessions \in [Clients -> [tokens : Contexts \cup {<<>>}, handles : Seq(Handle)]]
    BY DEF IndexInv, SessionTypes
  <2>2. sessions'[c] = [tokens |-> context, handles |-> hs]
    BY <1>5, <2>1
  <2> QED BY <2>2
<1>7. c # Nobody
  BY ContextAssumption
<1>8. Kept(c)' = Len(hs)
  BY <1>5, <1>6, <1>7 DEF Kept
<1>9. \A i \in 1 .. Len(hs) : LiesIn(sessions[c].tokens, i, S)'
  BY <1>4, <1>5, <1>6 DEF LiesIn
<1>10. KeptIn(c, S)'
  BY <1>2, <1>3, <1>5, <1>8, <1>9 DEF KeptIn
<1>11. S \in SUBSET occupied'
  BY <1>1, <1>5
<1> QED BY <1>5, <1>7, <1>10, <1>11 DEF SteadyRight

\* Storing begins after what the session has.
LEMMA StartStoreSteady ==
  ASSUME IndexInv, SteadyRight, NEW c \in Clients, StartStore(c)
  PROVE  SteadyRight'
<1>1. /\ UNCHANGED <<freeSlots, occupied, usedAfter, entries, sessions>>
      /\ storing = Nobody /\ storing' = c /\ next' = Len(sessions[c].handles) + 1
      /\ steady' = IF steady = c THEN c ELSE Nobody
  BY DEF StartStore, storeVars
<1>2. /\ sessions[c].handles \in Seq(Handle)
      /\ Len(sessions[c].handles) <= Len(sessions[c].tokens)
      /\ sessions[c].tokens \in Contexts \cup {<<>>}
  BY DEF IndexInv, SessionTypes
<1>3. Len(sessions[c].handles) \in Nat
  BY <1>2, InSeq
<1>4. Len(sessions[c].tokens) \in Nat
  <2>1. CASE sessions[c].tokens \in Contexts
    BY <2>1, MatchedRight
  <2>2. CASE sessions[c].tokens = <<>>
    BY <2>2
  <2> QED BY <1>2, <2>1, <2>2
<1>5. next' <= Len(StoringTokens') + 1
  BY <1>1, <1>2, <1>3, <1>4 DEF StoringTokens
<1>6. ASSUME steady = c, Fits(c)' PROVE \E S \in SUBSET occupied' : KeptIn(c, S)'
  <2>1. Fits(c)
    BY <1>1, <1>6 DEF Fits
  <2>2. c # Nobody
    BY ContextAssumption
  <2>3. PICK S \in SUBSET occupied : KeptIn(c, S)
    BY <1>6, <2>1, <2>2 DEF SteadyRight
  <2>4. Kept(c)' = Kept(c)
    BY <1>1, <1>3, <2>2 DEF Kept
  <2>5. KeptIn(c, S)'
    BY <1>1, <2>3, <2>4 DEF KeptIn, LiesIn
  <2> QED BY <1>1, <2>3, <2>5
<1> QED BY <1>1, <1>5, <1>6 DEF SteadyRight, StoringTokens

\* A block that is stored takes its entry from the taken slot only.
LEMMA EntriesAfterStore ==
  ASSUME IndexInv, NEW s \in Slots, NEW new,
         entries' = Register(Without(entries, Invalidated(s)), new), new \in Entry
  PROVE  /\ new \in ToSet(entries')
         /\ \A e \in ToSet(entries) : e.handle[1] # s => e \in ToSet(entries')
<1> DEFINE es == Without(entries, Invalidated(s))
<1>1. entries \in Seq(Entry) /\ HandlesOnce(entries)
  BY DEF IndexInv, EntriesRight
<1>2. es \in Seq(Entry)
  BY EvictionMirrored
<1>3. \A e \in ToSet(entries) : e.handle[1] # s => e \in ToSet(es)
  <2>1. CASE s \notin occupied
    BY <2>1, WithoutNothing DEF Invalidated
  <2>2. CASE s \in occupied
    <3> DEFINE h == <<s, generation[s]>>
    <3>1. es = Without(entries, {h})
      BY <2>2 DEF Invalidated
    <3>2. h[1] = s
      OBVIOUS
    <3> HIDE DEF es, h
    <3>3. \A e : e \in ToSet(Without(entries, {h})) <=> e \in ToSet(entries) /\ e.handle # h
      BY <1>1, WithoutOne
    <3> QED BY <3>1, <3>2, <3>3
  <2> QED BY <2>1, <2>2
<1>4. entries' = IF new \in ToSet(es) THEN es ELSE Append(es, new)
  BY DEF Register
<1> HIDE DEF es
<1>5. new \notin ToSet(es) => ToSet(entries') = ToSet(es) \cup {new}
  BY <1>2, <1>4, AppendIn
<1> QED BY <1>3, <1>4, <1>5

\* As long as the context fits, the slot taken for its next block is none of
\* those it lies in.
LEMMA TakesAnother ==
  ASSUME IndexInv, UsesRight, NEW s \in Slots, Takes(s), NEW n \in Nat,
         n < Cardinality(freeSlots \cup occupied),
         NEW S \in SUBSET occupied, Cardinality(S) <= n,
         UsedLast(S, occupied \ S, usedAfter)
  PROVE  s \notin S
<1>1. SUFFICES ASSUME s \in S PROVE FALSE
  OBVIOUS
<1>2. s \in occupied
  BY <1>1
<1>3. freeSlots = {} /\ lru # <<>> /\ s = Head(lru)
  BY <1>2 DEF Takes, UsesRight, SlotsNotLost
<1>4. /\ lru \in Seq(Slots) /\ ToSet(lru) = occupied
      /\ \A i, j \in 1 .. Len(lru) : i < j => <<lru[i], lru[j]>> \in usedAfter
  BY DEF UsesRight, LruRight, UseOrder
<1>5. Len(lru) \in Nat /\ 1 \in 1 .. Len(lru) /\ s = lru[1]
  BY <1>3, <1>4, InSeq, EmptySeq, HeadTailProperties
<1>6. ASSUME NEW r \in occupied, r \notin S PROVE FALSE
  <2>1. PICK j \in 1 .. Len(lru) : lru[j] = r
    BY <1>4, InSeq
  <2>2. 1 < j
    BY <1>1, <1>5, <1>6, <2>1
  <2>3. <<s, r>> \in usedAfter
    BY <1>4, <1>5, <2>1, <2>2
  <2> QED BY <1>1, <1>6, <2>3 DEF UsedLast
<1>7. S = occupied /\ freeSlots \cup occupied = occupied
  BY <1>3, <1>6
<1>8. Cardinality(freeSlots \cup occupied) <= n
  BY <1>7
<1>9. Cardinality(occupied) \in Nat
  <2>1. IsFiniteSet(occupied)
    BY StoreAssumption, FS_Subset DEF IndexInv, HandleInv, SlotTypes
  <2> QED BY <2>1, FS_CardinalityType
<1> QED BY <1>7, <1>8, <1>9

\* One more slot, just used.
LEMMA OneMoreUsed ==
  ASSUME NEW R, IsFiniteSet(R), NEW S \in SUBSET R, NEW s, NEW after,
         UsedLast(S, R \ S, after)
  PROVE  /\ UsedLast(S \cup {s}, (R \cup {s}) \ (S \cup {s}), UsedNow(after, s))
         /\ Cardinality(S) \in Nat /\ Cardinality(S \cup {s}) \in Nat
         /\ Cardinality(S \cup {s}) <= Cardinality(S) + 1
<1>1. UsedLast(S \cup {s}, (R \cup {s}) \ (S \cup {s}), UsedNow(after, s))
  <2> SUFFICES ASSUME NEW x \in S \cup {s}, NEW y \in (R \cup {s}) \ (S \cup {s}),
                      <<x, y>> \in UsedNow(after, s)
               PROVE  FALSE
    BY DEF UsedLast
  <2>1. y # s /\ y \in R \ S
    OBVIOUS
  <2>2. <<x, y>> \in after /\ x # s
    BY <2>1 DEF UsedNow
  <2> QED BY <2>1, <2>2 DEF UsedLast
<1>2. IsFiniteSet(S)
  BY FS_Subset
<1>3. Cardinality(S) \in Nat /\ Cardinality(S \cup {s}) \in Nat
  BY <1>2, FS_AddElement, FS_CardinalityType
<1>4. Cardinality(S \cup {s}) = Cardinality(S) \/ Cardinality(S \cup {s}) = Cardinality(S) + 1
  BY <1>2, FS_AddElement
<1> QED BY <1>1, <1>3, <1>4

\* A stored block is added to the slots used last, none of which it takes.
LEMMA StoreNextBlockSteady ==
  ASSUME IndexInv, UsesRight, SteadyRight,
         StoreNextBlock(KV(SubSeq(StoringTokens, 1, next)))
  PROVE  SteadyRight'
<1> DEFINE t == StoringTokens
           p == KV(SubSeq(t, 1, next))
<1>1. /\ storing # Nobody /\ next <= Len(t)
      /\ next' = next + 1 /\ sessions' = sessions /\ storing' = storing /\ steady' = steady
  BY DEF StoreNextBlock
<1>2. t \in Contexts /\ next \in 1 .. Len(t) /\ next \in Nat /\ Len(t) \in Nat
  BY <1>1, MatchedRight DEF IndexInv, StoringTypes
<1>3. PICK s \in Slots :
        /\ StoreBlock(s, p)
        /\ entries' = Register(Without(entries, Invalidated(s)),
                               [key |-> ChainHash(t)[next], block |-> t[next],
                                handle |-> <<s, generation'[s]>>])
  BY DEF StoreNextBlock
<1>4. p \in Payload
  BY <1>2, ContextAssumption
<1>5. /\ Takes(s) /\ freeSlots' = freeSlots \ {s} /\ occupied' = occupied \cup {s}
      /\ usedAfter' = UsedNow(usedAfter, s)
  BY <1>3 DEF StoreBlock, TakeSlot
<1>6. <<s, generation'[s]>> \in Handle
  BY <1>3, <1>4, NewHandle DEF IndexInv
<1>7. t' = t
  BY <1>1 DEF StoringTokens
<1> HIDE DEF t, p
<1>8. next' <= Len(t') + 1
  BY <1>1, <1>2, <1>7
<1> DEFINE e == [key |-> ChainHash(t)[next], block |-> t[next], handle |-> <<s, generation'[s]>>]
<1>9. e \in Entry
  BY <1>2, <1>6, InSeq, ContextAssumption DEF Entry, Keys, TokenBlocks, Range
<1>10. e.key = ChainHash(t)[next] /\ e.block = t[next] /\ e.handle[1] = s
  OBVIOUS
<1>11. entries' = Register(Without(entries, Invalidated(s)), e)
  BY <1>3
<1> HIDE DEF e
<1>12. /\ e \in ToSet(entries')
       /\ \A x \in ToSet(entries) : x.handle[1] # s => x \in ToSet(entries')
  BY <1>9, <1>11, EntriesAfterStore
<1>13. ASSUME NEW c \in Clients, steady = c, storing = c, Fits(c)'
       PROVE  \E S \in SUBSET occupied' : KeptIn(c, S)'
  <2>1. sessions[c].tokens = t /\ Kept(c) = next - 1 /\ Kept(c)' = next
    BY <1>1, <1>2, <1>13 DEF t, StoringTokens, Kept
  <2>2. freeSlots' \cup occupied' = freeSlots \cup occupied
    <3>1. s \in freeSlots \/ s \in occupied
      <4>1. CASE freeSlots # {}
        BY <1>5, <4>1 DEF Takes
      <4>2. CASE freeSlots = {}
        <5>1. lru # <<>> /\ s = Head(lru) /\ lru \in Seq(Slots) /\ ToSet(lru) = occupied
          BY <1>5, <4>2 DEF Takes, UsesRight, LruRight, UseOrder
        <5>2. 1 \in 1 .. Len(lru) /\ s = lru[1]
          BY <5>1, InSeq, EmptySeq, HeadTailProperties
        <5> QED BY <5>1, <5>2, InSeq
      <4> QED BY <4>1, <4>2
    <3> QED BY <1>5, <3>1
  <2>3. Len(t) <= Cardinality(freeSlots \cup occupied) /\ Fits(c)
    BY <1>1, <1>13, <2>1, <2>2 DEF Fits
  <2>4. PICK S \in SUBSET occupied : KeptIn(c, S)
    BY <1>1, <1>13, <2>3 DEF SteadyRight
  <2>5. /\ Cardinality(S) <= next - 1 /\ UsedLast(S, occupied \ S, usedAfter)
        /\ \A i \in 1 .. next - 1 : LiesIn(t, i, S)
    BY <2>1, <2>4 DEF KeptIn
  <2>6. IsFiniteSet(occupied) /\ IsFiniteSet(freeSlots \cup occupied)
    <3>1. occupied \subseteq Slots
      BY DEF IndexInv, HandleInv, SlotTypes
    <3>2. IsFiniteSet(occupied)
      BY <3>1, StoreAssumption, FS_Subset
    <3>4. freeSlots \subseteq Slots
      BY DEF UsesRight
    <3>5. freeSlots \cup occupied \subseteq Slots
      BY <3>1, <3>4
    <3> QED BY <3>2, <3>5, StoreAssumption, FS_Subset
  <2>7. s \notin S
    <3>1. Cardinality(freeSlots \cup occupied) \in Nat
      BY <2>6, FS_CardinalityType
    <3>2. next - 1 \in Nat /\ next - 1 < Cardinality(freeSlots \cup occupied)
      BY <1>2, <2>3, <3>1
    <3> QED BY <1>5, <2>5, <3>2, TakesAnother
  <2> DEFINE U == S \cup {s}
  <2>8. /\ UsedLast(U, occupied' \ U, usedAfter')
        /\ Cardinality(S) \in Nat /\ Cardinality(U) \in Nat
        /\ Cardinality(U) <= Cardinality(S) + 1
    BY <1>5, <2>5, <2>6, OneMoreUsed
  <2>9. U \in SUBSET occupied'
    BY <1>5
  <2> HIDE DEF U
  <2>10. Cardinality(U) <= next
    BY <1>2, <2>5, <2>8
  <2>11. ASSUME NEW i \in 1 .. next PROVE LiesIn(t, i, U)'
    <3>1. CASE i = next
      BY <1>7, <1>10, <1>12, <3>1 DEF LiesIn, U
    <3>2. CASE i # next
      <4>1. i \in 1 .. next - 1
        BY <1>2, <3>2
      <4>2. PICK x \in ToSet(entries) :
              x.key = ChainHash(t)[i] /\ x.block = t[i] /\ x.handle[1] \in S
        BY <2>5, <4>1 DEF LiesIn
      <4>3. x.handle[1] # s /\ x.handle[1] \in U
        BY <2>7, <4>2 DEF U
      <4> QED BY <1>7, <1>12, <4>2, <4>3 DEF LiesIn
    <3> QED BY <3>1, <3>2
  <2>12. \A i \in 1 .. next : LiesIn(sessions[c].tokens, i, U)'
    BY <1>1, <1>7, <2>1, <2>11 DEF LiesIn
  <2>13. KeptIn(c, U)'
    BY <2>1, <2>8, <2>10, <2>12 DEF KeptIn
  <2> QED BY <2>9, <2>13
<1>14. next' <= Len(StoringTokens') + 1
  BY <1>8 DEF t
<1>15. steady # Nobody => steady \in Clients /\ storing = steady
  BY <1>1 DEF SteadyRight
<1>16. steady' # Nobody =>
         /\ steady' \in Clients /\ storing' \in {steady', Nobody}
         /\ Fits(steady)' => \E S \in SUBSET occupied' : KeptIn(steady, S)'
  <2> SUFFICES ASSUME steady' # Nobody, Fits(steady)'
               PROVE  \E S \in SUBSET occupied' : KeptIn(steady, S)'
    BY <1>1, <1>15
  <2>1. PICK c \in Clients : c = steady
    BY <1>1, <1>15
  <2>2. steady' = c /\ storing = c
    BY <1>1, <1>15, <2>1
  <2>3. Fits(c)'
    BY <2>2
  <2>4. PICK S \in SUBSET occupied' : KeptIn(c, S)'
    BY <1>13, <2>1, <2>2, <2>3
  <2> QED BY <2>2, <2>4
<1> QED BY <1>14, <1>16 DEF SteadyRight, StoringTokens

\* The places tell the length.
LEMMA SameLength ==
  ASSUME NEW m \in Nat, NEW n \in Nat, 1 .. m = 1 .. n
  PROVE  m = n
<1>1. ASSUME NEW i \in Nat, NEW j \in Nat, i < j, 1 .. i = 1 .. j PROVE FALSE
  <2>1. j \in 1 .. j /\ j \notin 1 .. i
    BY <1>1
  <2> QED BY <1>1, <2>1
<1>2. ~ (m < n) /\ ~ (n < m)
  BY <1>1
<1> QED BY <1>2

\* A lookup finds all blocks that are indexed.
LEMMA FindsIndexed ==
  ASSUME NEW context \in Contexts, NEW S,
         \A i \in 1 .. Len(context) : LiesIn(context, i, S),
         entries \in Seq(Entry)
  PROVE  Len(Lookup(entries, context)) = Len(context)
<1> DEFINE k == MatchedBlocks(entries, context)
           hs == Lookup(entries, context)
<1>1. \A i \in 1 .. Len(context) : Matches(entries, context, i) # {}
  <2> SUFFICES ASSUME NEW i \in 1 .. Len(context)
               PROVE  Matches(entries, context, i) # {}
    OBVIOUS
  <2>1. PICK e \in ToSet(entries) : e.key = ChainHash(context)[i] /\ e.block = context[i]
    BY DEF LiesIn
  <2>2. PICK n \in 1 .. Len(entries) : entries[n] = e
    BY <2>1, InSeq
  <2> QED BY <2>1, <2>2 DEF Matches
<1>2. /\ k \in 0 .. Len(context) /\ Len(context) \in Nat
      /\ k < Len(context) => Matches(entries, context, k + 1) = {}
  BY MatchedRight
<1> HIDE DEF k
<1>3. k = Len(context)
  <2>1. SUFFICES ASSUME k # Len(context) PROVE FALSE
    OBVIOUS
  <2>2. k < Len(context) /\ k + 1 \in 1 .. Len(context)
    BY <1>2, <2>1
  <2> QED BY <1>1, <1>2, <2>2
<1>4. DOMAIN hs = 1 .. k
  BY DEF Lookup, k
<1>5. hs \in Seq(Handle) /\ Len(hs) \in Nat /\ DOMAIN hs = 1 .. Len(hs)
  BY LookupFinds, LenProperties
<1> HIDE DEF hs
<1>6. 1 .. k = 1 .. Len(hs) /\ k \in Nat
  BY <1>2, <1>4, <1>5
<1>7. k = Len(hs)
  BY <1>5, <1>6, SameLength
<1> QED BY <1>3, <1>7 DEF hs

\* The lookup at the end of store_session finds a context that fits.
LEMMA EndStoreFinds ==
  ASSUME IndexInv, SteadyRight, EndStore, NEW c \in Clients, storing = c, steady = c,
         Fits(c)
  PROVE  /\ Kept(c) = Len(StoringTokens)
         /\ Len(HandlesAfterStore) = Len(StoringTokens)
<1> DEFINE t == StoringTokens
<1>1. t = sessions[c].tokens /\ c # Nobody
  BY ContextAssumption DEF StoringTokens
<1>2. /\ t \in Contexts /\ next \in Nat /\ Len(t) \in Nat
      /\ next > Len(t) /\ next <= Len(t) + 1
  BY <1>1, MatchedRight DEF IndexInv, StoringTypes, SteadyRight, EndStore
<1>3. Kept(c) = Len(t)
  <2> HIDE DEF t
  <2> QED BY <1>2 DEF Kept
<1>4. PICK S \in SUBSET occupied : KeptIn(c, S)
  BY <1>1 DEF SteadyRight
<1>5. \A i \in 1 .. Len(t) : LiesIn(t, i, S)
  BY <1>1, <1>3, <1>4 DEF KeptIn
<1>6. entries \in Seq(Entry)
  BY DEF IndexInv, EntriesRight
<1> HIDE DEF t
<1>7. Len(Lookup(entries, t)) = Len(t)
  BY <1>2, <1>5, <1>6, FindsIndexed
<1> QED BY <1>3, <1>7 DEF t, HandlesAfterStore

\* What was stored is what the session has.
LEMMA EndStoreSteady ==
  ASSUME IndexInv, SteadyRight, EndStore
  PROVE  SteadyRight'
<1>1. /\ UNCHANGED <<freeSlots, occupied, usedAfter, entries, next, steady>>
      /\ sessions' = [sessions EXCEPT ![storing].handles = HandlesAfterStore]
      /\ storing # Nobody /\ storing' = Nobody
  BY DEF EndStore, storeVars
<1>2. storing \in Clients
  BY <1>1 DEF IndexInv, StoringTypes
<1>3. ASSUME NEW c \in Clients, steady = c, Fits(c)'
      PROVE  \E S \in SUBSET occupied' : KeptIn(c, S)'
  <2>1. c # Nobody /\ storing = c
    BY <1>1, <1>3, ContextAssumption DEF SteadyRight
  <2>2. sessions \in [Clients -> [tokens : Contexts \cup {<<>>}, handles : Seq(Handle)]]
    BY DEF IndexInv, SessionTypes
  <2>3. sessions'[c].tokens = sessions[c].tokens /\ sessions'[c].handles = HandlesAfterStore
    <3>1. sessions'[c] = [sessions[c] EXCEPT !.handles = HandlesAfterStore]
      BY <1>1, <2>1, <2>2
    <3>2. sessions[c] \in [tokens : Contexts \cup {<<>>}, handles : Seq(Handle)]
      BY <2>2
    <3> QED BY <3>1, <3>2
  <2>4. Fits(c)
    BY <1>1, <1>3, <2>3 DEF Fits
  <2>5. PICK S \in SUBSET occupied : KeptIn(c, S)
    BY <1>3, <2>1, <2>4 DEF SteadyRight
  <2>6. Kept(c)' = Kept(c)
    <3>1. Kept(c)' = Len(HandlesAfterStore)
      BY <1>1, <2>1, <2>3 DEF Kept
    <3> QED BY <1>3, <2>1, <2>4, <3>1, EndStoreFinds
  <2>7. KeptIn(c, S)'
    BY <1>1, <2>3, <2>5, <2>6 DEF KeptIn, LiesIn
  <2> QED BY <1>1, <2>5, <2>7
<1>4. steady' # Nobody =>
        /\ steady' \in Clients /\ storing' \in {steady', Nobody}
        /\ Fits(steady)' => \E S \in SUBSET occupied' : KeptIn(steady, S)'
  <2> SUFFICES ASSUME steady # Nobody
               PROVE  /\ steady \in Clients
                      /\ Fits(steady)' => \E S \in SUBSET occupied' : KeptIn(steady, S)'
    BY <1>1
  <2>1. PICK c \in Clients : c = steady
    BY DEF SteadyRight
  <2>2. steady' = c
    BY <1>1, <2>1
  <2>3. Fits(c)' => \E S \in SUBSET occupied' : KeptIn(c, S)'
    BY <1>3, <2>1
  <2> QED BY <2>1, <2>2, <2>3
<1> QED BY <1>1, <1>4 DEF SteadyRight

\* Every operation keeps the order and what is stored in one go.
LEMMA DBStep == DBInv /\ [DBNext]_dbVars => DBInv'
<1> SUFFICES ASSUME IndexInv, UsesRight, SteadyRight, [DBNext]_dbVars PROVE DBInv'
  BY DEF DBInv
<1>1. IndexInv' /\ UsesRight'
  BY IndexStep, UsesStep
<1> SUFFICES SteadyRight'
  BY <1>1 DEF DBInv
<1>2. ASSUME NEW c \in Clients, NEW context \in Contexts, CreateSession(c, context)
      PROVE  SteadyRight'
  BY <1>2, CreateSessionSteady
<1>3. ASSUME NEW c \in Clients, UseSession(c) PROVE SteadyRight'
  <2>1. storing' = Nobody /\ steady' = Nobody
    BY <1>3 DEF UseSession
  <2> QED BY <2>1 DEF SteadyRight
<1>4. ASSUME NEW c \in Clients, StartStore(c) PROVE SteadyRight'
  BY <1>4, StartStoreSteady
<1>5. ASSUME StoreNextBlock(KV(SubSeq(StoringTokens, 1, next))) PROVE SteadyRight'
  BY <1>5, StoreNextBlockSteady
<1>6. ASSUME StoreSessionFails PROVE SteadyRight'
  <2>1. storing' = Nobody /\ steady' = Nobody
    BY <1>6 DEF StoreSessionFails
  <2> QED BY <2>1 DEF SteadyRight
<1>7. ASSUME EndStore PROVE SteadyRight'
  BY <1>7, EndStoreSteady
<1>8. ASSUME NEW h \in DOMAIN issued, DeleteBlock(h) PROVE SteadyRight'
  <2>1. storing' = Nobody /\ steady' = Nobody
    BY <1>8 DEF DeleteBlock
  <2> QED BY <2>1 DEF SteadyRight
<1>9. CASE UNCHANGED dbVars
  <2>1. /\ UNCHANGED <<freeSlots, occupied, usedAfter, entries, sessions>>
        /\ UNCHANGED <<storing, next, steady>>
    BY <1>9 DEF dbVars, storeVars, indexVars
  <2>2. ASSUME NEW S PROVE KeptIn(steady, S)' <=> KeptIn(steady, S)
    BY <2>1 DEF KeptIn, Kept, LiesIn
  <2>3. Fits(steady)' <=> Fits(steady)
    BY <2>1 DEF Fits
  <2> QED BY <2>1, <2>2, <2>3 DEF SteadyRight, StoringTokens
<1>10. CASE DBNext
  <2>1. CASE \E c \in Clients : \E context \in Contexts : CreateSession(c, context)
    BY <1>2, <2>1
  <2>2. CASE \E c \in Clients : UseSession(c) \/ StartStore(c)
    BY <1>3, <1>4, <2>2
  <2>3. CASE \E h \in DOMAIN issued : DeleteBlock(h)
    BY <1>8, <2>3
  <2> QED BY <1>5, <1>6, <1>7, <1>10, <2>1, <2>2, <2>3 DEF DBNext
<1> QED BY <1>9, <1>10

\* The invariant of the database and its store.
LEMMA DBInvariance == DBSpec => []DBInv
<1>1. DBInit => DBInv
  <2> SUFFICES ASSUME DBInit PROVE DBInv
    OBVIOUS
  <2>1. lru = <<>> /\ Len(lru) = 0 /\ lru \in Seq(Slots) /\ occupied = {}
    BY EmptySeq DEF DBInit, StoreInit
  <2>2. LruRight
    BY <2>1, InSeq DEF LruRight, UseOrder, IsInjective, ToSet
  <2>3. UsesRight
    BY <2>2 DEF UsesRight, SlotsNotLost, DBInit, StoreInit
  <2>4. SteadyRight
    BY DEF SteadyRight, DBInit
  <2> QED BY <2>3, <2>4, IndexInit DEF DBInv
<1> QED BY <1>1, DBStep, PTL DEF DBSpec

\* The slots are accounted for as above, and handles read what they were issued
\* for, while contexts are looked up, stored and deleted (store_session,
\* create_session).
THEOREM DatabaseKeepsStore == DBSpec => [](SlotsAccounted /\ HandlesNeverAliased)
<1>1. DBInv => SlotsAccounted /\ HandlesNeverAliased
  BY DEF DBInv, UsesRight, LruRight, UseOrder, LruListsResident, SlotsAccounted,
         IndexInv, HandleInv
<1> QED BY <1>1, DBInvariance, PTL

\* Under the database, too, eviction takes the block whose last use lies
\* furthest back; and a context that fits the store is found completely after
\* store_session, if nothing came between its lookup and its end: the matched
\* blocks are touched, so that the blocks it adds evict others.
THEOREM ContextKept == DBSpec => RecentBlocksKept
<1>1. ASSUME DBInv, [DBNext]_dbVars, NEW s \in occupied, generation'[s] # generation[s]
      PROVE  freeSlots = {} /\ \A r \in occupied \ {s} : <<s, r>> \in usedAfter
  <2>1. StoreInv
    BY <1>1 DEF DBInv, UsesRight, IndexInv, StoreInv
  <2>2. CASE StoreNext
    BY <1>1, <2>1, <2>2, EvictedIsLeast
  <2>3. CASE UNCHANGED storeVars
    BY <1>1, <2>3 DEF storeVars
  <2>4. CASE \E c \in Clients : \E context \in Contexts : CreateSession(c, context)
    BY <1>1, <2>4 DEF CreateSession
  <2>5. UNCHANGED dbVars => UNCHANGED storeVars
    BY DEF dbVars
  <2>6. DBNext \/ UNCHANGED dbVars
    BY <1>1
  <2>7. IndexInv
    BY <1>1 DEF DBInv
  <2> QED BY <2>2, <2>3, <2>4, <2>5, <2>6, <2>7, StoreCalls
<1>2. DBInv /\ [DBNext]_dbVars =>
        [\A s \in occupied : generation'[s] # generation[s] =>
           /\ freeSlots = {}
           /\ \A r \in occupied \ {s} : <<s, r>> \in usedAfter]_storeVars
  BY <1>1
<1>3. DBSpec => EvictsLeastRecent
  BY <1>2, DBInvariance, PTL DEF DBSpec, EvictsLeastRecent
<1>4. ASSUME DBInv, DBNext, storing # Nobody, storing' = Nobody, steady = storing,
             steady' = storing, Len(StoringTokens) <= Cardinality(freeSlots \cup occupied)
      PROVE  Len(sessions'[storing].handles) = Len(StoringTokens)
  <2>1. EndStore
    BY <1>4 DEF DBNext, CreateSession, UseSession, StartStore, StoreNextBlock,
                StoreSessionFails, DeleteBlock
  <2>2. PICK c \in Clients : c = storing
    BY <1>4 DEF DBInv, IndexInv, StoringTypes
  <2>3. Fits(c)
    BY <1>4, <2>2 DEF Fits, StoringTokens
  <2>4. Len(HandlesAfterStore) = Len(StoringTokens)
    BY <1>4, <2>1, <2>2, <2>3, EndStoreFinds DEF DBInv
  <2>5. sessions'[storing].handles = HandlesAfterStore
    <3>1. sessions \in [Clients -> [tokens : Contexts \cup {<<>>}, handles : Seq(Handle)]]
      BY <1>4 DEF DBInv, IndexInv, SessionTypes
    <3>2. sessions'[storing] = [sessions[storing] EXCEPT !.handles = HandlesAfterStore]
      BY <2>1, <2>2, <3>1 DEF EndStore
    <3>3. sessions[storing] \in [tokens : Contexts \cup {<<>>}, handles : Seq(Handle)]
      BY <2>2, <3>1
    <3> QED BY <3>2, <3>3
  <2> QED BY <2>4, <2>5
<1>5. DBInv /\ [DBNext]_dbVars =>
        [storing # Nobody /\ storing' = Nobody
           /\ steady = storing /\ steady' = storing
           /\ Len(StoringTokens) <= Cardinality(freeSlots \cup occupied)
         => Len(sessions'[storing].handles) = Len(StoringTokens)]_dbVars
  BY <1>4
<1>6. DBSpec => StoredContextFound
  BY <1>5, DBInvariance, PTL DEF DBSpec, StoredContextFound
<1> QED BY <1>3, <1>6 DEF RecentBlocksKept

=============================================================================
