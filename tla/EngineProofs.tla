----------------------------- MODULE EngineProofs -----------------------------
(***************************************************************************)
(* Theorems about the engine, in three parts, each over the one before: the*)
(* scheduler and the step loop that drives it; the rows of the KV cache,   *)
(* that what a sequence counts as cached and what a lookup can find is the *)
(* KV of the tokens it is taken for; and next to the engine the tracer and *)
(* the metrics.                                                            *)
(*                                                                         *)
(* What the runs check of the scheduler is not inductive: that the queues  *)
(* stay in order through a preemption needs that only the last of the      *)
(* running ones gives way, and that needs a decode not to start while a    *)
(* chunked prompt still waits; that the allocator is called as it expects  *)
(* needs to know, at each place in step(), how much of each sequence is    *)
(* computed and how long its table is.  SInv takes it all together, one    *)
(* group of facts per concern; each action is a lemma.                     *)
(*                                                                         *)
(* The scheduler's invariant says which positions a batch computes, the    *)
(* allocator's which blocks nobody else can see meanwhile.  RowsInv adds   *)
(* what the rows hold, ChunkRight what a forward pass has just stored and  *)
(* hash_blocks has not counted yet, and RestoredInv how far a restore has  *)
(* come.  Together they are inductive.  The tracer adds what the budget    *)
(* leaves of a first chunk, the metrics what a lookup was when it was      *)
(* recorded.                                                               *)
(***************************************************************************)
EXTENDS EngineTrace, EngineMetrics, BlockManagerProofs

-----------------------------------------------------------------------------
(* Part 1: the scheduler *)

\* A line of requests in order of arrival.
Sorted(q) == \A i, j \in 1 .. Len(q) : i < j => q[i] < q[j]

\* Those of line q came before those of line r.
Precedes(q, r) == \A a \in Range(q), b \in Range(r) : a < b

\* The types of what the scheduler and the step loop keep.
STypeOK ==
  /\ status \in [Seqs -> {"NEW", "WAITING", "RUNNING", "FINISHED"}]
  /\ numPrompt \in [Seqs -> Nat]
  /\ scheduled \in [Seqs -> Nat]
  /\ isPrefill \in [Seqs -> BOOLEAN]
  /\ cpuHandles \in [Seqs -> Nat]
  /\ waiting \in Seq(Seqs) /\ running \in Seq(Seqs) /\ batch \in Seq(Seqs)
  /\ budget \in Nat
  /\ prefillStep \in BOOLEAN
  /\ pc \in PCs

\* The lines are in order of arrival.  In the decode loop the batch has been
\* taken from the front of the running ones.
QueuesOrdered ==
  /\ Sorted(running) /\ Sorted(waiting) /\ Sorted(batch)
  /\ Precedes(running, waiting)
  /\ pc = "decode" => Precedes(batch, running) /\ Precedes(batch, waiting)

\* s is done, but postprocess() has not yet taken it out of the line.
Finishing(s) == pc = "finish" /\ s = Head(batch)

\* The status of a request says in which line it is; ids are given in order.
StatusInv ==
  /\ \A s \in Range(waiting) : status[s] = "WAITING"
  /\ \A s \in Range(running) : status[s] = "RUNNING" \/ Finishing(s)
  /\ \A s \in Seqs : status[s] = "WAITING" => s \in Range(waiting)
  /\ \A s \in Seqs : status[s] = "RUNNING" =>
       s \in Range(running) \/ (pc = "decode" /\ s \in Range(batch))
  /\ pc = "decode" => \A s \in Range(batch) : status[s] = "RUNNING"
  /\ pc = "finish" => status[Head(batch)] = "FINISHED" /\ Head(batch) \in Range(running)
  /\ \A r, s \in Seqs : r < s /\ status[r] = "NEW" => status[s] = "NEW"
  /\ \A s \in Seqs : status[s] = "NEW" <=> tokens[s] = <<>>

HeadOf(s) == waiting # <<>> /\ s = Head(waiting)

\* Whom a batch is made of: running sequences, and in a prefill perhaps the
\* head of the waiting ones, for which the budget did not suffice.
BatchInv ==
  /\ pc \in {"idle", "failed"} => batch = <<>>
  /\ pc \in {"append", "finish"} => batch # <<>> /\ Head(batch) \in Range(running)
  /\ pc = "dispatch" /\ prefillStep => batch # <<>>
  /\ pc = "prefill" =>
       \A s \in Range(batch) : s \in Range(running) \/ (budget = 0 /\ HeadOf(s))
  /\ pc \in {"dispatch", "post", "append", "finish"} =>
       \A s \in Range(batch) : s \in Range(running) \/ (prefillStep /\ HeadOf(s))
  /\ pc \in {"prefill", "decode", "dispatch"} => Len(batch) <= MaxNumSeqs
  /\ pc = "prefill" /\ batch = <<>> => budget > 0
  /\ pc = "decode" => ~prefillStep

\* The chunk of s has been hashed; what follows concerns its new token.
Done(s) == pc \in {"append", "finish"} /\ s = Head(batch)

\* The blocks that n tokens fill, the last one perhaps in part.
BlocksFor(n) == (n + BlockSize - 1) \div BlockSize

\* How far the computation of each sequence is, and the length of its table: a
\* scheduled one has a table for all its tokens, a running one that is not
\* scheduled lacks one token and perhaps the block for it.
ProgressInv ==
  /\ \A s \in Range(batch) : Done(s) \/
        /\ Len(blockTable[s]) = NumBlocks(s)
        /\ scheduled[s] > 0
        /\ IF s \in Range(waiting)
           THEN numCached[s] + scheduled[s] < Len(tokens[s])
           ELSE numCached[s] + scheduled[s] = Len(tokens[s])
        /\ ~prefillStep /\ pc # "prefill" => scheduled[s] = 1
  /\ \A s \in Seqs : pc = "append" /\ s = Head(batch) =>
        /\ numCached[s] = Len(tokens[s])
        /\ Len(blockTable[s]) = NumBlocks(s)
  /\ \A s \in Seqs : status[s] = "RUNNING" /\ s \notin Range(batch) =>
        /\ numCached[s] + 1 = Len(tokens[s])
        /\ Len(blockTable[s]) = BlocksFor(numCached[s])
        /\ blockTable[s] # <<>>
  /\ \A s \in Seqs : status[s] = "WAITING" /\ blockTable[s] # <<>> =>
        /\ numCached[s] < Len(tokens[s])
        /\ Len(blockTable[s]) = NumBlocks(s)

\* Who holds blocks; a chunked prompt that does is in the batch of a prefill.
HoldersInv ==
  /\ OnlyHeadHoldsBlocks
  /\ \A s \in Seqs : blockTable[s] # <<>> /\ status[s] = "FINISHED" => Finishing(s)
  /\ pc = "dispatch" \/ (pc = "prefill" /\ batch # <<>>) =>
       \A s \in Range(waiting) : blockTable[s] # <<>> => s \in Range(batch)

\* Only the sequence of a batch of one waits for a restore, and it is younger
\* than all that run, so that putting it back keeps the order.
RestoreInv ==
  /\ \A s \in Seqs : cpuHandles[s] > 0 => CpuCache
  /\ \A s \in Seqs : restorePending[s] =>
       /\ CpuCache /\ batch = <<s>>
       /\ pc \in {"prefill", "dispatch"}
       /\ pc = "dispatch" => prefillStep
       /\ \A r \in Range(running) : r <= s

\* The payload flag before, and after, a sequence is put in a batch.
PayloadInv ==
  /\ \A s \in Seqs : status[s] \in {"NEW", "WAITING"} => isPrefill[s]
  /\ pc = "prefill" \/ (pc = "dispatch" /\ prefillStep) =>
       \A s \in Range(batch) : isPrefill[s]
  /\ pc = "decode" \/ (pc = "dispatch" /\ ~prefillStep) =>
       \A s \in Range(batch) : ~isPrefill[s]

\* The next request would not fit the whole cache.
Oversized == waiting # <<>> /\ NumBlocks(Head(waiting)) > Cardinality(Blocks)

\* A step starts with something to do, and nothing is found only if the next
\* request is too large.
FailInv ==
  /\ pc = "prefill" /\ batch = <<>> => waiting # <<>> \/ running # <<>>
  /\ pc = "decode" /\ batch = <<>> /\ running = <<>> => Oversized
  /\ pc = "failed" => running = <<>> /\ Oversized

\* A request starts with its prompt.
PromptInv ==
  \A s \in Seqs :
    /\ numPrompt[s] <= Len(tokens[s])
    /\ status[s] = "NEW" <=> numPrompt[s] = 0

\* The inductive invariant.
SInv ==
  /\ IInv
  /\ STypeOK /\ QueuesOrdered /\ StatusInv /\ BatchInv /\ ProgressInv
  /\ HoldersInv /\ RestoreInv /\ PayloadInv /\ FailInv /\ PromptInv

-----------------------------------------------------------------------------
(* Sequences of ids in order *)

\* The elements of a sequence are those at its positions.
LEMMA RangeIn ==
  ASSUME NEW q \in Seq(Seqs), NEW a
  PROVE  a \in Range(q) <=> \E i \in 1 .. Len(q) : q[i] = a
BY RangeEquality

\* Sequence ids are drawn from a counter.
LEMMA IdsNat == Seqs \subseteq Nat /\ \A s \in Seqs : s \in Nat
BY FS_CardinalityType, FinitenessAssumption, SchedulerAssumption

\* They are numbers, and ordered like them.
LEMMA IdOrder ==
  \A a, b \in Seqs : /\ ~ (a < a)
                     /\ a < b => a <= b /\ a # b /\ ~ (b < a)
                     /\ a <= b \/ b < a
                     /\ a <= b /\ a # b => a < b
BY IdsNat

\* A set of numbers that is not empty has a least one.
LEMMA LeastNat ==
  ASSUME NEW T \in SUBSET Nat, T # {}
  PROVE  \E n \in T : \A m \in T : n <= m
<1> DEFINE R == {ss \in Nat \X Nat : ss[1] < ss[2]}
<1>1. IsWellFoundedOn(R, Nat)
  BY NatLessThanWellFounded, Zenon DEF OpToRel
<1>2. \A x, y \in Nat : y < x => <<y, x>> \in R
  OBVIOUS
<1> HIDE DEF R
<1>3. PICK x \in T : \A y \in T : ~ (<<y, x>> \in R)
  BY <1>1, WFMin
<1>4. ASSUME NEW m \in T PROVE x <= m
  <2>1. x \in Nat /\ m \in Nat /\ ~ (m < x)
    BY <1>2, <1>3
  <2> QED BY <2>1
<1> QED BY <1>4

\* An empty sequence has no elements, and only an empty one.
LEMMA RangeEmpty ==
  ASSUME NEW q \in Seq(Seqs)
  PROVE  /\ Range(q) \subseteq Seqs
         /\ q = <<>> <=> Range(q) = {}
         /\ Len(q) \in Nat
         /\ q = <<>> <=> Len(q) = 0
         /\ Range(<<>>) = {} /\ Sorted(<<>>) /\ <<>> \in Seq(Seqs) /\ Len(<<>>) = 0
<1>1. Range(q) \subseteq Seqs
  BY RangeOfSeq
<1>2. Len(q) \in Nat /\ (q = <<>> <=> Len(q) = 0)
  BY EmptySeq, LenProperties
<1>3. Range(<<>>) = {} /\ Sorted(<<>>) /\ <<>> \in Seq(Seqs) /\ Len(<<>>) = 0
  BY EmptySeq DEF Range, Sorted
<1>4. ASSUME q # <<>> PROVE q[1] \in Range(q)
  BY <1>2, <1>4, RangeIn
<1> QED BY <1>1, <1>2, <1>3, <1>4

\* One more id behind all others.
LEMMA AppendOrdered ==
  ASSUME NEW q \in Seq(Seqs), NEW s \in Seqs
  PROVE  /\ Append(q, s) \in Seq(Seqs) /\ Append(q, s) # <<>>
         /\ Range(Append(q, s)) = Range(q) \cup {s}
         /\ Len(Append(q, s)) = Len(q) + 1
         /\ Sorted(q) /\ (\A a \in Range(q) : a < s) => Sorted(Append(q, s))
<1> DEFINE u == Append(q, s)
<1>1. /\ u \in Seq(Seqs) /\ u # <<>> /\ Len(u) = Len(q) + 1
      /\ \A i \in 1 .. Len(q) : u[i] = q[i]
      /\ u[Len(q) + 1] = s
      /\ Len(q) \in Nat
  BY AppendProperties, LenProperties
<1> HIDE DEF u
<1>2. ASSUME NEW a PROVE a \in Range(u) <=> a \in Range(q) \cup {s}
  BY <1>1, RangeIn
<1>3. ASSUME Sorted(q), \A a \in Range(q) : a < s PROVE Sorted(u)
  <2> SUFFICES ASSUME NEW i \in 1 .. Len(u), NEW j \in 1 .. Len(u), i < j
               PROVE  u[i] < u[j]
    BY DEF Sorted
  <2>1. CASE j <= Len(q)
    BY <1>1, <1>3, <2>1 DEF Sorted
  <2>2. CASE j = Len(q) + 1
    <3>1. u[i] = q[i] /\ i \in 1 .. Len(q)
      BY <1>1, <2>2
    <3>2. q[i] \in Range(q)
      BY <3>1, RangeIn
    <3> QED BY <1>1, <1>3, <2>2, <3>1, <3>2
  <2> QED BY <1>1, <2>1, <2>2
<1> QED BY <1>1, <1>2, <1>3 DEF u

\* Two ordered sequences one behind the other.
LEMMA ConcatOrdered ==
  ASSUME NEW q \in Seq(Seqs), NEW r \in Seq(Seqs)
  PROVE  /\ q \o r \in Seq(Seqs)
         /\ Range(q \o r) = Range(q) \cup Range(r)
         /\ Sorted(q) /\ Sorted(r) /\ Precedes(q, r) => Sorted(q \o r)
<1> DEFINE u == q \o r
<1>1. /\ u \in Seq(Seqs) /\ Len(u) = Len(q) + Len(r)
      /\ Len(q) \in Nat /\ Len(r) \in Nat
      /\ \A i \in 1 .. Len(q) + Len(r) :
           u[i] = IF i <= Len(q) THEN q[i] ELSE r[i - Len(q)]
  BY ConcatProperties, LenProperties
<1>2. Range(u) = Range(q) \cup Range(r)
  BY RangeConcatenation
<1> HIDE DEF u
<1>3. ASSUME Sorted(q), Sorted(r), Precedes(q, r) PROVE Sorted(u)
  <2> SUFFICES ASSUME NEW i \in 1 .. Len(u), NEW j \in 1 .. Len(u), i < j
               PROVE  u[i] < u[j]
    BY DEF Sorted
  <2>1. CASE j <= Len(q)
    BY <1>1, <1>3, <2>1 DEF Sorted
  <2>2. CASE i > Len(q)
    <3>1. /\ u[i] = r[i - Len(q)] /\ u[j] = r[j - Len(q)]
          /\ i - Len(q) \in 1 .. Len(r) /\ j - Len(q) \in 1 .. Len(r)
          /\ i - Len(q) < j - Len(q)
      BY <1>1, <2>2
    <3> QED BY <3>1, <1>3 DEF Sorted
  <2>3. CASE i <= Len(q) /\ j > Len(q)
    <3>1. /\ u[i] = q[i] /\ u[j] = r[j - Len(q)]
          /\ i \in 1 .. Len(q) /\ j - Len(q) \in 1 .. Len(r)
      BY <1>1, <2>3
    <3>2. u[i] \in Range(q) /\ u[j] \in Range(r)
      BY <3>1, RangeIn
    <3> QED BY <3>2, <1>3 DEF Precedes
  <2> QED BY <1>1, <2>1, <2>2, <2>3
<1> QED BY <1>1, <1>2, <1>3 DEF u

\* One more id before all others.
LEMMA ConsOrdered ==
  ASSUME NEW q \in Seq(Seqs), NEW s \in Seqs
  PROVE  /\ <<s>> \o q \in Seq(Seqs) /\ <<s>> \o q # <<>>
         /\ Head(<<s>> \o q) = s
         /\ Range(<<s>> \o q) = Range(q) \cup {s}
         /\ Sorted(q) /\ (\A a \in Range(q) : s < a) => Sorted(<<s>> \o q)
<1>1. <<s>> \in Seq(Seqs) /\ Range(<<s>>) = {s} /\ Sorted(<<s>>)
  BY DEF Range, Sorted
<1>2. /\ <<s>> \o q \in Seq(Seqs)
      /\ Range(<<s>> \o q) = {s} \cup Range(q)
      /\ Sorted(<<s>>) /\ Sorted(q) /\ Precedes(<<s>>, q) => Sorted(<<s>> \o q)
  BY <1>1, ConcatOrdered
<1>3. <<s>> \o q # <<>>
  BY <1>2, RangeEmpty
<1>4. (<<s>> \o q)[1] = s
  BY <1>1, ConcatProperties, LenProperties
<1>5. Head(<<s>> \o q) = s
  BY <1>2, <1>3, <1>4
<1> QED BY <1>1, <1>2, <1>3, <1>5 DEF Precedes

\* The head comes first, and the tail is the rest.
LEMMA TailOrdered ==
  ASSUME NEW q \in Seq(Seqs), q # <<>>, Sorted(q)
  PROVE  /\ Head(q) \in Seqs /\ Head(q) \in Range(q)
         /\ Tail(q) \in Seq(Seqs) /\ Sorted(Tail(q))
         /\ Len(Tail(q)) = Len(q) - 1
         /\ Range(Tail(q)) = Range(q) \ {Head(q)}
         /\ \A a \in Range(Tail(q)) : Head(q) < a
<1> DEFINE u == Tail(q)
<1>1. /\ Head(q) \in Seqs /\ u \in Seq(Seqs) /\ Len(u) = Len(q) - 1
      /\ \A i \in 1 .. Len(u) : u[i] = q[i + 1]
      /\ Len(q) \in Nat /\ Len(q) > 0 /\ Head(q) = q[1]
  BY HeadTailProperties, RangeEmpty
<1> HIDE DEF u
<1>2. Head(q) \in Range(q)
  BY <1>1, RangeIn
<1>3. Sorted(u)
  <2> SUFFICES ASSUME NEW i \in 1 .. Len(u), NEW j \in 1 .. Len(u), i < j
               PROVE  u[i] < u[j]
    BY DEF Sorted
  <2>1. i + 1 \in 1 .. Len(q) /\ j + 1 \in 1 .. Len(q) /\ i + 1 < j + 1
    BY <1>1
  <2> QED BY <1>1, <2>1 DEF Sorted
<1>4. ASSUME NEW a \in Range(u) PROVE a \in Range(q) /\ Head(q) < a
  <2>1. PICK i \in 1 .. Len(u) : u[i] = a
    BY <1>1, RangeIn
  <2>2. i + 1 \in 1 .. Len(q) /\ 1 \in 1 .. Len(q) /\ 1 < i + 1 /\ q[i + 1] = a
    BY <1>1, <2>1
  <2> QED BY <1>1, <2>2, RangeIn DEF Sorted
<1>5. ASSUME NEW a \in Range(q), a # Head(q) PROVE a \in Range(u)
  <2>1. PICK i \in 1 .. Len(q) : q[i] = a
    BY RangeIn
  <2>2. i - 1 \in 1 .. Len(u) /\ u[i - 1] = a
    BY <1>1, <1>5, <2>1
  <2> QED BY <1>1, <2>2, RangeIn
<1>6. Head(q) \notin Range(u)
  <2>1. \A a \in Seqs : ~ (a < a)
    BY IdsNat
  <2> QED BY <1>1, <1>4, <2>1
<1> QED BY <1>1, <1>2, <1>3, <1>4, <1>5, <1>6 DEF u

\* The last one is the greatest.
LEMMA LastOrdered ==
  ASSUME NEW q \in Seq(Seqs), q # <<>>, Sorted(q)
  PROVE  /\ Last(q) \in Seqs /\ Last(q) \in Range(q)
         /\ \A a \in Range(q) : a <= Last(q)
<1>1. Len(q) \in Nat /\ Len(q) > 0 /\ Len(q) \in 1 .. Len(q)
  BY RangeEmpty
<1>2. Last(q) \in Range(q) /\ Last(q) = q[Len(q)]
  BY <1>1, RangeIn DEF Last
<1>3. Range(q) \subseteq Seqs
  BY RangeEmpty
<1>4. ASSUME NEW a \in Range(q) PROVE a <= Last(q)
  <2>1. PICK i \in 1 .. Len(q) : q[i] = a
    BY RangeIn
  <2>2. a \in Nat /\ Last(q) \in Nat
    BY <1>2, <1>3, IdsNat
  <2>3. i < Len(q) => q[i] < q[Len(q)]
    BY <1>1 DEF Sorted
  <2> QED BY <1>1, <1>2, <2>1, <2>2, <2>3
<1> QED BY <1>2, <1>3, <1>4

\* deque.remove of an id that is there.
LEMMA RemoveOrdered ==
  ASSUME NEW q \in Seq(Seqs), Sorted(q), NEW s \in Range(q)
  PROVE  /\ RemoveFirst(q, s) \in Seq(Seqs) /\ Sorted(RemoveFirst(q, s))
         /\ Range(RemoveFirst(q, s)) = Range(q) \ {s}
<1>1. PICK k \in 1 .. Len(q) : q[k] = s
  BY RangeIn
<1>2. /\ Len(q) \in Nat /\ \A i \in 1 .. Len(q) : q[i] \in Seqs
      /\ Seqs \subseteq Nat
  BY RangeEmpty, ElementOfSeq, IdsNat
<1>3. \A i \in 1 .. Len(q) : q[i] = s => i = k
  <2> SUFFICES ASSUME NEW i \in 1 .. Len(q), q[i] = s, i # k PROVE FALSE
    OBVIOUS
  <2>1. i < k \/ k < i
    BY <1>2
  <2>2. q[i] < q[k] \/ q[k] < q[i]
    BY <2>1 DEF Sorted
  <2>3. q[i] \in Nat /\ q[k] \in Nat
    BY <1>2
  <2> QED BY <1>1, <2>2, <2>3
<1>4. SelectInSeq(q, LAMBDA v : v = s) = k
  <2> DEFINE I == {i \in 1 .. Len(q) : q[i] = s}
  <2>1. I = {k}
    BY <1>1, <1>3
  <2>2. Min(I) = k
    BY <1>2, <2>1 DEF Min
  <2>3. SelectInSeq(q, LAMBDA v : v = s) = IF I # {} THEN Min(I) ELSE 0
    BY DEF SelectInSeq
  <2> QED BY <2>1, <2>2, <2>3
<1> DEFINE u == RemoveFirst(q, s)
           a == SubSeq(q, 1, k - 1)
           b == SubSeq(q, k + 1, Len(q))
<1>5. u = a \o b
  <2>1. u = RemoveAt(q, SelectInSeq(q, LAMBDA v : v = s))
    BY <1>1 DEF RemoveFirst
  <2> HIDE DEF u
  <2> QED BY <1>4, <2>1 DEF RemoveAt
<1>6. /\ a \in Seq(Seqs) /\ Len(a) = k - 1
      /\ \A i \in 1 .. k - 1 : a[i] = q[i]
  BY <1>1, <1>2, SubSeqProperties
<1>7. /\ b \in Seq(Seqs) /\ Len(b) = Len(q) - k
      /\ \A i \in 1 .. Len(q) - k : b[i] = q[k + i]
  BY <1>1, <1>2, SubSeqProperties
<1> HIDE DEF u, a, b
<1>8. /\ u \in Seq(Seqs) /\ Len(u) = Len(q) - 1
      /\ \A i \in 1 .. Len(q) - 1 : u[i] = IF i < k THEN q[i] ELSE q[i + 1]
  <2>1. /\ u \in Seq(Seqs) /\ Len(u) = Len(a) + Len(b)
        /\ \A i \in 1 .. Len(a) + Len(b) :
             u[i] = IF i <= Len(a) THEN a[i] ELSE b[i - Len(a)]
    BY <1>5, <1>6, <1>7, ConcatProperties
  <2>2. k \in Nat /\ Len(a) + Len(b) = Len(q) - 1
    BY <1>2, <1>6, <1>7
  <2>3. ASSUME NEW i \in 1 .. Len(q) - 1, i >= k
        PROVE  b[i - Len(a)] = q[i + 1]
    <3>1. i - (k - 1) \in 1 .. Len(q) - k /\ k + (i - (k - 1)) = i + 1
      BY <1>2, <2>2, <2>3
    <3> QED BY <1>6, <1>7, <3>1
  <2> QED BY <1>2, <1>6, <2>1, <2>2, <2>3
<1>9. Sorted(u)
  <2> SUFFICES ASSUME NEW i \in 1 .. Len(u), NEW j \in 1 .. Len(u), i < j
               PROVE  u[i] < u[j]
    BY DEF Sorted
  <2>1. /\ i \in 1 .. Len(q) /\ j \in 1 .. Len(q)
        /\ i + 1 \in 1 .. Len(q) /\ j + 1 \in 1 .. Len(q)
    BY <1>2, <1>8
  <2> QED BY <1>1, <1>2, <1>8, <2>1 DEF Sorted
<1>10. ASSUME NEW x \in Range(u) PROVE x \in Range(q) /\ x # s
  <2>1. PICK i \in 1 .. Len(u) : u[i] = x
    BY <1>8, RangeIn
  <2>2. i \in 1 .. Len(q) /\ i + 1 \in 1 .. Len(q)
    BY <1>2, <1>8
  <2> QED BY <1>1, <1>2, <1>3, <1>8, <2>1, <2>2, RangeIn
<1>11. ASSUME NEW x \in Range(q), x # s PROVE x \in Range(u)
  <2>1. PICK i \in 1 .. Len(q) : q[i] = x /\ i # k
    BY <1>1, <1>11, RangeIn
  <2>2. CASE i < k
    <3>1. i \in 1 .. Len(u) /\ u[i] = x
      BY <1>1, <1>2, <1>8, <2>1, <2>2
    <3> QED BY <1>8, <3>1, RangeIn
  <2>3. CASE i > k
    <3>1. i - 1 \in 1 .. Len(u) /\ u[i - 1] = x
      BY <1>1, <1>2, <1>8, <2>1, <2>3
    <3> QED BY <1>8, <3>1, RangeIn
  <2> QED BY <1>1, <2>1, <2>2, <2>3
<1> QED BY <1>8, <1>9, <1>10, <1>11 DEF u

-----------------------------------------------------------------------------
(* What the allocator's operations do to the sequence they are called for *)

\* The part of the allocator's state that the scheduler reads: after `t' has
\* been put in the table of s and `n' tokens of it count as cached.
Holds(s, len, n) ==
  /\ tokens' = tokens
  /\ numCached' = [numCached EXCEPT ![s] = n]
  /\ Len(blockTable'[s]) = len
  /\ \A r \in Seqs : r # s => blockTable'[r] = blockTable[r]

\* A table that is not empty has a length.
LEMMA TableLen ==
  ASSUME BMTypeOK, NEW s \in Seqs
  PROVE  /\ Len(blockTable[s]) \in Nat
         /\ blockTable[s] = <<>> <=> Len(blockTable[s]) = 0
         /\ Len(tokens[s]) \in Nat
         /\ tokens[s] = <<>> <=> Len(tokens[s]) = 0
<1>1. blockTable[s] \in Seq(Blocks) /\ tokens[s] \in Seq(Token)
  BY DEF BMTypeOK
<1> QED BY <1>1, EmptySeq, LenProperties

\* One more token fills at most one more block.
LEMMA BlocksForFacts ==
  ASSUME NEW n \in Nat
  PROVE  /\ BlocksFor(n) \in Nat
         /\ BlocksFor(n) <= BlocksFor(n + 1)
         /\ BlocksFor(n + 1) > 0
         /\ (n + 1) % BlockSize = 1 => BlocksFor(n + 1) = BlocksFor(n) + 1
         /\ (n + 1) % BlockSize # 1 => BlocksFor(n + 1) = BlocksFor(n)
BY BlockSizeAssumption DEF BlocksFor

\* allocate fills the table, the hits first.
LEMMA AllocateEffect ==
  ASSUME IInv, NEW s \in Seqs, NEW k \in 0 .. NumBlocks(s) - 1, Allocate(s, k)
  PROVE  /\ Holds(s, NumBlocks(s), k * BlockSize)
         /\ restorePending' = restorePending
<1>t. /\ blockTable[s] = <<>> /\ tokens' = tokens
      /\ numCached' = [numCached EXCEPT ![s] = k * BlockSize]
      /\ restorePending' = restorePending
      /\ blockTable \in [Seqs -> Seq(Blocks)]
  BY DEF IInv, BMTypeOK, Allocate
<1> DEFINE shared == [i \in 1 .. k |-> HitBlock(s, i)]
           S == HitBlocks(s, k) \cup free
<1>1. PICK fresh \in Injection(1 .. NumBlocks(s) - k, free \ HitBlocks(s, k)) :
        Place(s, shared, fresh)
  BY DEF Allocate
<1>2. k \in Nat /\ NumBlocks(s) - k \in Nat /\ NumBlocks(s) \in Nat
  BY NumBlocksFacts DEF IInv, BMTypeOK
<1>3. shared \in Seq(S) /\ Len(shared) = k
  BY <1>2 DEF HitBlocks
<1>4. fresh \in Seq(S) /\ Len(fresh) = NumBlocks(s) - k
  <2> DEFINE m == NumBlocks(s) - k
  <2>1. fresh \in [1 .. m -> free \ HitBlocks(s, k)]
    BY <1>1 DEF Injection
  <2> HIDE DEF m
  <2>2. fresh \in [1 .. m -> S] /\ m \in Nat
    BY <1>2, <2>1 DEF m
  <2> HIDE DEF S
  <2>3. fresh \in Seq(S) /\ Len(fresh) = m
    BY <2>2
  <2> QED BY <2>3 DEF m
<1> HIDE DEF shared
<1>5. blockTable' = [blockTable EXCEPT ![s] = @ \o shared \o fresh]
  BY <1>1 DEF Place
<1>6. <<>> \o shared \o fresh = shared \o fresh
  BY <1>3, ConcatEmptySeq
<1> HIDE DEF S
<1>7. Len(shared \o fresh) = NumBlocks(s)
  <2>1. Len(shared \o fresh) = Len(shared) + Len(fresh)
    BY <1>3, <1>4, ConcatProperties
  <2> QED BY <1>2, <1>3, <1>4, <2>1
<1>8. /\ blockTable'[s] = shared \o fresh
      /\ \A r \in Seqs : r # s => blockTable'[r] = blockTable[r]
  BY <1>t, <1>5, <1>6
<1> QED BY <1>t, <1>7, <1>8 DEF Holds

\* allocate_for_cpu_restore fills it with blocks of its own.
LEMMA AllocateForCpuRestoreEffect ==
  ASSUME IInv, NEW s \in Seqs, NEW k, AllocateForCpuRestore(s, k)
  PROVE  /\ Holds(s, NumBlocks(s), k * BlockSize)
         /\ restorePending' = [restorePending EXCEPT ![s] = TRUE]
<1>t. /\ blockTable[s] = <<>> /\ tokens' = tokens
      /\ numCached' = [numCached EXCEPT ![s] = k * BlockSize]
      /\ restorePending' = [restorePending EXCEPT ![s] = TRUE]
      /\ blockTable \in [Seqs -> Seq(Blocks)]
  BY DEF IInv, BMTypeOK, AllocateForCpuRestore
<1>1. PICK fresh \in Injection(1 .. NumBlocks(s), free) : Place(s, <<>>, fresh)
  BY DEF AllocateForCpuRestore
<1>2. fresh \in Seq(free) /\ Len(fresh) = NumBlocks(s)
  <2> DEFINE m == NumBlocks(s)
  <2>1. fresh \in [1 .. m -> free] /\ m \in Nat
    BY <1>1, NumBlocksFacts DEF Injection, IInv, BMTypeOK
  <2> HIDE DEF m
  <2>2. fresh \in Seq(free) /\ Len(fresh) = m
    BY <2>1
  <2> QED BY <2>2 DEF m
<1>3. blockTable' = [blockTable EXCEPT ![s] = @ \o <<>> \o fresh]
  BY <1>1 DEF Place
<1>4. <<>> \o <<>> \o fresh = fresh
  BY <1>2, ConcatEmptySeq
<1>5. /\ blockTable'[s] = fresh
      /\ \A r \in Seqs : r # s => blockTable'[r] = blockTable[r]
  BY <1>t, <1>3, <1>4
<1> QED BY <1>t, <1>2, <1>5 DEF Holds

\* may_append adds one block.
LEMMA MayAppendEffect ==
  ASSUME IInv, NEW s \in Seqs, MayAppend(s)
  PROVE  /\ Holds(s, Len(blockTable[s]) + 1, numCached[s])
         /\ restorePending' = restorePending
<1>t. /\ tokens' = tokens /\ numCached' = numCached
      /\ restorePending' = restorePending
      /\ blockTable \in [Seqs -> Seq(Blocks)] /\ free \subseteq Blocks
      /\ blockTable[s] \in Seq(Blocks)
      /\ numCached \in [Seqs -> Nat]
  BY DEF IInv, BMTypeOK, MayAppend
<1>1. PICK b \in free : Place(s, <<>>, <<b>>)
  BY DEF MayAppend
<1>2. blockTable' = [blockTable EXCEPT ![s] = @ \o <<>> \o <<b>>]
  BY <1>1 DEF Place
<1>3. <<b>> \in Seq(Blocks) /\ Len(<<b>>) = 1 /\ b \in Blocks
  BY <1>t, <1>1
<1>4. blockTable[s] \o <<>> \o <<b>> = blockTable[s] \o <<b>>
  BY <1>t, ConcatEmptySeq
<1>5. Len(blockTable[s] \o <<b>>) = Len(blockTable[s]) + 1
  BY <1>t, <1>3, ConcatProperties
<1>6. /\ blockTable'[s] = blockTable[s] \o <<b>>
      /\ \A r \in Seqs : r # s => blockTable'[r] = blockTable[r]
  BY <1>t, <1>2, <1>4
<1>7. numCached' = [numCached EXCEPT ![s] = numCached[s]]
  BY <1>t
<1> QED BY <1>t, <1>5, <1>6, <1>7 DEF Holds

\* deallocate empties it.
LEMMA DeallocateEffect ==
  ASSUME IInv, NEW s \in Seqs, Deallocate(s)
  PROVE  Holds(s, 0, 0) /\ blockTable'[s] = <<>>
BY EmptySeq DEF Holds, Deallocate, CachedAfterRelease, IInv, BMTypeOK

-----------------------------------------------------------------------------
(* Every step is the allocator's *)

\* The head of a line is an id.
LEMMA HeadIn ==
  ASSUME NEW q \in Seq(Seqs), q # <<>>
  PROVE  Head(q) \in Seqs
BY HeadTailProperties

\* schedule() calls allocate with a number of hits the lookup can return.
LEMMA HitsInRange ==
  ASSUME NEW s, NEW k, Allocate(s, k)
  PROVE  k \in 0 .. NumBlocks(s) - 1
BY DEF Allocate, CanAllocate, LongestHit

\* The step of schedule(), of the restores and of postprocess() on the
\* allocator's state is one of the allocator's operations, or none.
LEMMA AllocatorStep == SInv /\ [Next]_vars => [BMNext]_bmVars
<1> SUFFICES ASSUME SInv, [Next]_vars PROVE [BMNext]_bmVars
  OBVIOUS
<1>t. /\ waiting \in Seq(Seqs) /\ running \in Seq(Seqs) /\ batch \in Seq(Seqs)
      /\ scheduled \in [Seqs -> Nat] /\ numCached \in [Seqs -> Nat]
      /\ \A s \in Seqs : Len(tokens[s]) \in Nat
      /\ pc \in {"append", "finish"} => batch # <<>>
  BY TableLen DEF SInv, IInv, BMTypeOK, STypeOK, BatchInv
<1>1. CASE Arrivals
  BY <1>1 DEF Arrivals, AddRequest, BMNext
<1>2. CASE ClearGpuPrefixCache
  BY <1>2 DEF ClearGpuPrefixCache, BMNext
<1>3. CASE Admit
  <2> DEFINE s == Head(waiting)
  <2>1. s \in Seqs
    BY <1>3, <1>t, HeadIn DEF Admit, CanAdmit
  <2> HIDE DEF s
  <2>2. CASE AdmitFromGpu(s)
    BY <2>1, <2>2, HitsInRange DEF AdmitFromGpu, BMNext
  <2>3. CASE AdmitFromCpu(s)
    BY <2>1, <2>3 DEF AdmitFromCpu, AllocateForCpuRestore, BMNext
  <2>4. CASE ContinueChunk(s)
    BY <2>4 DEF ContinueChunk
  <2> QED BY <1>3, <2>2, <2>3, <2>4 DEF Admit, s
<1>4. CASE ScheduleDecode
  <2>1. Head(running) \in Seqs
    BY <1>4, <1>t, HeadIn DEF ScheduleDecode, CanDecode
  <2> QED BY <1>4, <2>1 DEF ScheduleDecode, GrowTable, BMNext
<1>5. CASE PreemptOther
  <2>1. Victim \in Seqs
    <3>1. running # <<>> /\ Len(running) \in 1 .. Len(running)
      BY <1>5, <1>t, RangeEmpty DEF PreemptOther, CanDecode
    <3> QED BY <3>1, <1>t, ElementOfSeq DEF Victim, Last
  <2>2. Release(Victim)
    BY <1>5 DEF PreemptOther, Preempt
  <2> QED BY <2>1, <2>2 DEF BMNext
<1>6. CASE PreemptSelf
  <2>1. Head(running) \in Seqs
    BY <1>6, <1>t, HeadIn DEF PreemptSelf, CanDecode
  <2>2. Release(Head(running))
    BY <1>6 DEF PreemptSelf, Preempt
  <2> QED BY <2>1, <2>2 DEF BMNext
<1>7. CASE ConfirmCpuRestore \/ RollbackCpuRestore
  <2>1. Pending \subseteq Seqs
    BY <1>t, RangeEmpty DEF Pending
  <2> QED BY <1>7, <2>1 DEF ConfirmCpuRestore, RollbackCpuRestore, BMNext
<1>8. CASE Hash
  <2> DEFINE s == Head(batch)
  <2>1. s \in Seqs /\ HashBlocks(s, scheduled[s])
    BY <1>8, <1>t, HeadIn DEF Hash
  <2> HIDE DEF s
  <2>2. scheduled[s] \in 1 .. Len(tokens[s])
    BY <2>1, <1>t DEF HashBlocks
  <2> QED BY <2>1, <2>2 DEF BMNext
<1>9. CASE Sample
  <2>1. Head(batch) \in Seqs
    BY <1>9, <1>t, HeadIn DEF Sample
  <2> QED BY <1>9, <2>1 DEF Sample, BMNext
<1>10. CASE Finish
  <2>1. Head(batch) \in Seqs
    BY <1>10, <1>t, HeadIn DEF Finish
  <2> QED BY <1>10, <2>1 DEF Finish, BMNext
<1>11. CASE StartStep \/ EndPrefill \/ EndDecode \/ NothingScheduled \/ Run
            \/ EndStep \/ UNCHANGED vars
  BY <1>11 DEF StartStep, EndPrefill, EndDecode, NothingScheduled, Run, EndStep,
     vars
<1> QED
  BY <1>1, <1>2, <1>3, <1>4, <1>5, <1>6, <1>7, <1>8, <1>9, <1>10, <1>11
  DEF Next, StepControl

-----------------------------------------------------------------------------
(* Admission *)

\* What the three ways into a batch have in common: s, for which c tokens
\* count as cached, is scheduled for what is left of it or of the budget.
Admitted(s, c, n) ==
  /\ pc = "prefill" /\ Len(batch) < MaxNumSeqs /\ budget > 0 /\ HeadOf(s)
  /\ Holds(s, NumBlocks(s), c)
  /\ c \in Nat /\ c < Len(tokens[s])
  /\ n \in Nat /\ n > 0 /\ n <= budget /\ c + n <= Len(tokens[s])
  /\ scheduled' = [scheduled EXCEPT ![s] = n]
  /\ budget' = budget - n
  /\ batch' = Append(batch, s)
  /\ UNCHANGED <<numPrompt, isPrefill, cpuHandles, prefillStep, pc>>
  /\ \/ restorePending' = restorePending
     \/ CpuCache /\ restorePending' = [restorePending EXCEPT ![s] = TRUE]

\* All of s is scheduled, and s runs.
Promoted(s, c, n) ==
  /\ c + n = Len(tokens[s])
  /\ status' = [status EXCEPT ![s] = "RUNNING"]
  /\ waiting' = Tail(waiting) /\ running' = Append(running, s)

\* The budget is used up by a part of s.
LeftWaiting(s, c, n) ==
  /\ c + n < Len(tokens[s]) /\ n = budget
  /\ UNCHANGED <<status, waiting, running>>

\* Hits never reach the last token.
LEMMA HitsLeaveTokens ==
  ASSUME BMTypeOK, NEW s \in Seqs, NEW k \in 0 .. NumBlocks(s) - 1
  PROVE  k * BlockSize \in Nat /\ k * BlockSize < Len(tokens[s])
<1>1. /\ NumBlocks(s) \in Nat /\ k \in Nat /\ k < NumBlocks(s)
      /\ NumBlocks(s) * BlockSize < Len(tokens[s]) + BlockSize
      /\ Len(tokens[s]) \in Nat
  BY NumBlocksFacts, TableLen DEF BMTypeOK
<1>2. /\ k * BlockSize + BlockSize <= NumBlocks(s) * BlockSize
      /\ k * BlockSize \in Nat /\ NumBlocks(s) * BlockSize \in Nat
  BY <1>1, MulMono, MulType
<1> QED BY <1>1, <1>2, BlockSizeAssumption

\* schedule() from `num_tokens' on.
LEMMA ScheduleChunkSplit ==
  ASSUME SInv, NEW s \in Seqs, NEW c \in Nat, c < Len(tokens[s]),
         TokensLeft(s) = Len(tokens[s]) - c,
         pc = "prefill", CanAdmit, s = Head(waiting),
         Holds(s, NumBlocks(s), c), ScheduleChunk(s),
         \/ restorePending' = restorePending
         \/ CpuCache /\ restorePending' = [restorePending EXCEPT ![s] = TRUE]
  PROVE  \E n \in Nat : /\ Admitted(s, c, n)
                        /\ Promoted(s, c, n) \/ LeftWaiting(s, c, n)
<1> DEFINE left == Len(tokens[s]) - c
           n == ChunkSize(s)
<1>1. budget \in Nat /\ Len(tokens[s]) \in Nat /\ left \in Nat /\ left > 0
  <2>1. budget \in Nat
    BY DEF SInv, STypeOK
  <2>2. Len(tokens[s]) \in Nat
    BY TableLen DEF SInv, IInv
  <2> QED BY <2>1, <2>2
<1>2. waiting # <<>> /\ Len(batch) < MaxNumSeqs /\ budget > 0
  BY DEF CanAdmit
<1>3. n = IF left <= budget THEN left ELSE budget
  BY DEF ChunkSize
<1>4. /\ scheduled' = [scheduled EXCEPT ![s] = n]
      /\ budget' = budget - n
      /\ batch' = Append(batch, s)
      /\ UNCHANGED <<numPrompt, isPrefill, cpuHandles, prefillStep, pc>>
      /\ IF n = left
         THEN /\ status' = [status EXCEPT ![s] = "RUNNING"]
              /\ waiting' = Tail(waiting)
              /\ running' = Append(running, s)
         ELSE UNCHANGED <<status, waiting, running>>
  BY DEF ScheduleChunk, queueVars
<1> HIDE DEF n
<1>5. n \in Nat /\ n > 0 /\ n <= budget /\ c + n <= Len(tokens[s])
  BY <1>1, <1>2, <1>3
<1>6. Admitted(s, c, n)
  BY <1>2, <1>4, <1>5 DEF Admitted, HeadOf
<1>7. CASE n = left
  BY <1>1, <1>4, <1>5, <1>6, <1>7 DEF Promoted
<1>8. CASE n # left
  BY <1>1, <1>3, <1>4, <1>5, <1>6, <1>8 DEF LeftWaiting
<1> QED BY <1>7, <1>8

\* The loop body of schedule() for the head of the waiting queue.
LEMMA AdmitSplit ==
  ASSUME SInv, Admit
  PROVE  \E s \in Seqs : \E c, n \in Nat :
           /\ Admitted(s, c, n)
           /\ Promoted(s, c, n) \/ LeftWaiting(s, c, n)
<1> DEFINE s == Head(waiting)
<1>1. s \in Seqs /\ pc = "prefill" /\ CanAdmit /\ waiting # <<>>
  BY HeadIn DEF SInv, STypeOK, Admit, CanAdmit
<1>t. IInv /\ BMTypeOK
  BY DEF SInv, IInv
<1>2. CASE AdmitFromGpu(s)
  <2> DEFINE k == GpuCached(s)
  <2>1. /\ blockTable[s] = <<>> /\ ~UseCpu(s) /\ Allocate(s, k) /\ ScheduleChunk(s)
    BY <1>2 DEF AdmitFromGpu
  <2>2. TokensLeft(s) = Len(tokens[s]) - k * BlockSize
    BY <2>1 DEF TokensLeft, HitBlocksOf
  <2> HIDE DEF k, s
  <2>3. k \in 0 .. NumBlocks(s) - 1
    BY <2>1, HitsInRange
  <2>4. k * BlockSize \in Nat /\ k * BlockSize < Len(tokens[s])
    BY <1>1, <1>t, <2>3, HitsLeaveTokens
  <2>5. Holds(s, NumBlocks(s), k * BlockSize) /\ restorePending' = restorePending
    BY <1>1, <1>t, <2>1, <2>3, AllocateEffect
  <2>6. s = Head(waiting)
    BY DEF s
  <2> QED BY <1>1, <2>1, <2>2, <2>4, <2>5, <2>6, ScheduleChunkSplit
<1>3. CASE AdmitFromCpu(s)
  <2> DEFINE k == cpuHandles[s]
  <2>1. /\ blockTable[s] = <<>> /\ UseCpu(s) /\ AllocateForCpuRestore(s, k)
        /\ ScheduleChunk(s)
    BY <1>3 DEF AdmitFromCpu
  <2>2. TokensLeft(s) = Len(tokens[s]) - k * BlockSize
    BY <2>1 DEF TokensLeft, HitBlocksOf
  <2>c. CpuCache
    BY <1>1, <2>1 DEF SInv, RestoreInv, UseCpu
  <2> HIDE DEF k, s
  <2>3. k \in 0 .. NumBlocks(s) - 1
    <3>1. k \in 1 .. NumBlocks(s) - 1 /\ NumBlocks(s) \in Nat
      BY <1>1, <1>t, <2>1, NumBlocksFacts DEF AllocateForCpuRestore, BMTypeOK
    <3> QED BY <3>1
  <2>4. k * BlockSize \in Nat /\ k * BlockSize < Len(tokens[s])
    BY <1>1, <1>t, <2>3, HitsLeaveTokens
  <2>5. /\ Holds(s, NumBlocks(s), k * BlockSize)
        /\ restorePending' = [restorePending EXCEPT ![s] = TRUE]
    BY <1>1, <1>t, <2>1, AllocateForCpuRestoreEffect
  <2>6. s = Head(waiting)
    BY DEF s
  <2> QED BY <1>1, <2>1, <2>2, <2>4, <2>5, <2>6, <2>c, ScheduleChunkSplit
<1>4. CASE ContinueChunk(s)
  <2> DEFINE c == numCached[s]
  <2>1. blockTable[s] # <<>> /\ UNCHANGED bmVars /\ ScheduleChunk(s)
    BY <1>4 DEF ContinueChunk
  <2>2. TokensLeft(s) = Len(tokens[s]) - c
    BY <2>1 DEF TokensLeft
  <2> HIDE DEF s
  <2>3. status[s] = "WAITING"
    BY <1>1, RangeEmpty, HeadTailProperties, RangeIn DEF s, SInv, STypeOK, StatusInv
  <2>4. c \in Nat /\ c < Len(tokens[s]) /\ Len(blockTable[s]) = NumBlocks(s)
    BY <1>1, <1>t, <2>1, <2>3 DEF SInv, ProgressInv, BMTypeOK
  <2>5. Holds(s, NumBlocks(s), c) /\ restorePending' = restorePending
    BY <1>1, <1>t, <2>1, <2>4 DEF Holds, bmVars, BMTypeOK
  <2>6. s = Head(waiting)
    BY DEF s
  <2> HIDE DEF c
  <2> QED BY <1>1, <2>1, <2>2, <2>4, <2>5, <2>6, ScheduleChunkSplit
<1> QED BY <1>2, <1>3, <1>4 DEF Admit

\* Admission keeps the lines in order and the records true.
LEMMA AdmittedStep ==
  ASSUME SInv, NEW s \in Seqs, NEW c \in Nat, NEW n \in Nat, IInv',
         Admitted(s, c, n), Promoted(s, c, n) \/ LeftWaiting(s, c, n)
  PROVE  SInv'
<1>t. /\ STypeOK /\ BMTypeOK /\ QueuesOrdered
      /\ waiting \in Seq(Seqs) /\ running \in Seq(Seqs) /\ batch \in Seq(Seqs)
      /\ Range(waiting) \subseteq Seqs /\ Range(running) \subseteq Seqs
      /\ Range(batch) \subseteq Seqs
  BY RangeEmpty DEF SInv, STypeOK, IInv, QueuesOrdered
<1>a. /\ pc = "prefill" /\ pc' = pc /\ waiting # <<>> /\ s = Head(waiting)
      /\ Len(batch) < MaxNumSeqs /\ budget > 0
      /\ tokens' = tokens /\ batch' = Append(batch, s)
      /\ prefillStep' = prefillStep
  BY DEF Admitted, HeadOf, Holds
<1>w. /\ s \in Range(waiting) /\ Tail(waiting) \in Seq(Seqs)
      /\ Sorted(Tail(waiting)) /\ Range(Tail(waiting)) = Range(waiting) \ {s}
      /\ \A a \in Range(Tail(waiting)) : s < a
  BY <1>a, <1>t, TailOrdered DEF QueuesOrdered
<1>r. /\ Append(running, s) \in Seq(Seqs) /\ Append(running, s) # <<>>
      /\ Range(Append(running, s)) = Range(running) \cup {s}
      /\ Sorted(Append(running, s))
      /\ \A a \in Range(running) : a < s
  <2>1. \A a \in Range(running) : a < s
    BY <1>t, <1>w DEF QueuesOrdered, Precedes
  <2> QED BY <1>t, <2>1, AppendOrdered DEF QueuesOrdered
<1>b. /\ Range(batch) \subseteq Range(running)
      /\ batch' \in Seq(Seqs) /\ batch' # <<>> /\ Sorted(batch')
      /\ Range(batch') = Range(batch) \cup {s}
      /\ Len(batch') = Len(batch) + 1 /\ s \notin Range(batch)
  <2>1. Range(batch) \subseteq Range(running)
    BY <1>a DEF SInv, BatchInv
  <2>2. (\A a \in Range(batch) : a < s) /\ s \notin Range(batch)
    BY <1>r, <2>1, <1>t, IdsNat
  <2> QED BY <1>a, <1>t, <2>1, <2>2, AppendOrdered DEF QueuesOrdered
<1>s. /\ status[s] = "WAITING"
      /\ isPrefill[s]
      /\ tokens[s] # <<>>
  BY <1>w DEF SInv, StatusInv, PayloadInv
<1>n. /\ \A r \in Seqs : NumBlocks(r)' = NumBlocks(r)
      /\ NumBlocks(s) \in Nat /\ NumBlocks(s) > 0
      /\ \A r \in Seqs : Len(tokens[r]) \in Nat /\ numCached[r] \in Nat
  <2>1. \A r \in Seqs : NumBlocks(r)' = NumBlocks(r)
    BY <1>a DEF NumBlocks
  <2>2. \A r \in Seqs : Len(tokens[r]) \in Nat /\ numCached[r] \in Nat
    BY <1>t, TableLen DEF BMTypeOK
  <2>3. Len(tokens[s]) # 0
    BY <1>s, <1>t, TableLen
  <2>4. /\ NumBlocks(s) \in Nat /\ Len(tokens[s]) <= NumBlocks(s) * BlockSize
    BY <1>t, NumBlocksFacts DEF BMTypeOK
  <2>5. NumBlocks(s) # 0
    BY <2>2, <2>3, <2>4, BlockSizeAssumption
  <2> QED BY <2>1, <2>2, <2>4, <2>5
<1>h. /\ Len(blockTable'[s]) = NumBlocks(s) /\ blockTable'[s] # <<>>
      /\ \A r \in Seqs : r # s => blockTable'[r] = blockTable[r]
      /\ numCached'[s] = c
      /\ \A r \in Seqs : r # s => numCached'[r] = numCached[r]
  <2>1. Len(<<>>) = 0
    BY EmptySeq
  <2> QED BY <1>n, <1>t, <2>1 DEF Admitted, Holds, BMTypeOK
<1>c. /\ scheduled'[s] = n /\ n > 0
      /\ \A r \in Seqs : r # s => scheduled'[r] = scheduled[r]
  BY <1>t DEF Admitted, STypeOK
<1>m. \/ /\ c + n = Len(tokens[s])
         /\ status' = [status EXCEPT ![s] = "RUNNING"]
         /\ waiting' = Tail(waiting) /\ running' = Append(running, s)
      \/ /\ c + n < Len(tokens[s]) /\ budget' = 0
         /\ status' = status /\ waiting' = waiting /\ running' = running
  BY <1>t DEF Promoted, LeftWaiting, Admitted, STypeOK
<1>m1. /\ waiting' \in Seq(Seqs) /\ running' \in Seq(Seqs)
       /\ Sorted(waiting') /\ Sorted(running')
       /\ Range(waiting') \subseteq Range(waiting)
       /\ Range(running') \subseteq Range(running) \cup {s}
       /\ Range(running) \subseteq Range(running')
       /\ \A a \in Range(waiting) : a # s => a \in Range(waiting')
       /\ s \in Range(running') \/ s \in Range(waiting')
       /\ s \in Range(running') => s \notin Range(waiting')
  <2>1. s \notin Range(running)
    BY <1>r, <1>t, IdsNat
  <2> QED BY <1>m, <1>t, <1>w, <1>r, <2>1 DEF QueuesOrdered
<1>1. STypeOK'
  <2>1. status' \in [Seqs -> {"NEW", "WAITING", "RUNNING", "FINISHED"}]
    BY <1>t, <1>m DEF STypeOK
  <2>2. scheduled' \in [Seqs -> Nat] /\ budget' \in Nat
    BY <1>t DEF Admitted, STypeOK
  <2> QED BY <1>t, <1>m1, <1>b, <2>1, <2>2 DEF Admitted, STypeOK
<1>2. QueuesOrdered'
  <2>1. Precedes(running', waiting')
    BY <1>m, <1>r, <1>w, <1>t DEF QueuesOrdered, Precedes
  <2> QED BY <1>a, <1>b, <1>m1, <2>1 DEF QueuesOrdered
<1>3. StatusInv'
  <2>1. \A r \in Seqs : r # s => status'[r] = status[r]
    BY <1>m, <1>t DEF STypeOK
  <2>2. status'[s] = IF s \in Range(running') THEN "RUNNING" ELSE "WAITING"
    BY <1>m, <1>m1, <1>r, <1>s, <1>t, <1>w DEF STypeOK
  <2>3. \A r \in Range(running) : status[r] = "RUNNING"
    BY <1>a DEF SInv, StatusInv, Finishing
  <2>4. StatusInv
    BY DEF SInv
  <2>5. /\ \A r \in Range(waiting') : status'[r] = "WAITING"
        /\ \A r \in Range(running') : status'[r] = "RUNNING"
    <3>1. \A r \in Range(waiting') : r # s => status'[r] = "WAITING"
      BY <1>m1, <1>t, <2>1, <2>4 DEF StatusInv
    <3>2. \A r \in Range(running') : r # s => status'[r] = "RUNNING"
      BY <1>m1, <1>t, <2>1, <2>3
    <3> QED BY <1>m1, <2>2, <3>1, <3>2
  <2>6. /\ \A r \in Seqs : status'[r] = "WAITING" => r \in Range(waiting')
        /\ \A r \in Seqs : status'[r] = "RUNNING" => r \in Range(running')
    <3>1. \A r \in Seqs : r # s /\ status'[r] = "WAITING" => r \in Range(waiting')
      BY <1>m1, <2>1, <2>4 DEF StatusInv
    <3>2. \A r \in Seqs : r # s /\ status'[r] = "RUNNING" => r \in Range(running')
      BY <1>a, <1>m1, <2>1, <2>4 DEF StatusInv
    <3> QED BY <1>m1, <2>2, <3>1, <3>2
  <2>7. \A r \in Seqs : status'[r] = "NEW" <=> status[r] = "NEW"
    BY <1>s, <2>1, <2>2
  <2>8. /\ \A q, r \in Seqs : q < r /\ status'[q] = "NEW" => status'[r] = "NEW"
        /\ \A r \in Seqs : status'[r] = "NEW" <=> tokens'[r] = <<>>
    BY <1>a, <2>4, <2>7 DEF StatusInv
  <2> QED BY <1>a, <2>5, <2>6, <2>8 DEF StatusInv
<1>4. BatchInv'
  <2>1. s \in Range(running') \/ (budget' = 0 /\ HeadOf(s)')
    BY <1>m, <1>r, <1>a DEF HeadOf
  <2> QED BY <1>a, <1>b, <1>m1, <1>t, <2>1, RangeEmpty, SchedulerAssumption
      DEF SInv, BatchInv
<1>5. ProgressInv'
  <2>1. ASSUME NEW r \in Range(batch')
        PROVE  /\ Len(blockTable'[r]) = NumBlocks(r)'
               /\ scheduled'[r] > 0
               /\ IF r \in Range(waiting')
                  THEN numCached'[r] + scheduled'[r] < Len(tokens'[r])
                  ELSE numCached'[r] + scheduled'[r] = Len(tokens'[r])
    <3>1. CASE r = s
      BY <3>1, <1>a, <1>c, <1>h, <1>m, <1>n, <1>w, <1>m1
    <3>2. CASE r # s
      <4>1. r \in Range(batch) /\ r \in Range(running) /\ r \in Seqs
        BY <3>2, <1>b, <1>t, <2>1
      <4>2. r \notin Range(waiting)
        BY <4>1, <1>t, IdsNat DEF QueuesOrdered, Precedes
      <4> QED BY <3>2, <4>1, <4>2, <1>a, <1>c, <1>h, <1>n, <1>m1
          DEF SInv, ProgressInv, Done
    <3> QED BY <3>1, <3>2
  <2>2. ASSUME NEW r \in Seqs, status'[r] = "RUNNING", r \notin Range(batch')
        PROVE  /\ numCached'[r] + 1 = Len(tokens'[r])
               /\ Len(blockTable'[r]) = BlocksFor(numCached'[r])
               /\ blockTable'[r] # <<>>
    <3>1. r # s /\ r \notin Range(batch) /\ status[r] = "RUNNING"
      BY <1>b, <1>m, <1>t, <2>2 DEF STypeOK
    <3> QED BY <3>1, <1>a, <1>h DEF SInv, ProgressInv
  <2>3. ASSUME NEW r \in Seqs, status'[r] = "WAITING", blockTable'[r] # <<>>
        PROVE  /\ numCached'[r] < Len(tokens'[r])
               /\ Len(blockTable'[r]) = NumBlocks(r)'
    <3>1. CASE r = s
      BY <3>1, <1>a, <1>h, <1>n DEF Admitted
    <3>2. CASE r # s
      <4>1. status[r] = "WAITING"
        BY <3>2, <1>m, <1>t, <2>3 DEF STypeOK
      <4> QED BY <3>2, <4>1, <1>a, <1>h, <1>n, <2>3 DEF SInv, ProgressInv
    <3> QED BY <3>1, <3>2
  <2> QED BY <1>a, <2>1, <2>2, <2>3 DEF ProgressInv
<1>6. HoldersInv'
  <2>1. ASSUME NEW r \in Seqs, r # s, blockTable'[r] # <<>>
        PROVE  status[r] = "RUNNING" /\ status'[r] = "RUNNING"
    <3>1. blockTable[r] # <<>> /\ status'[r] = status[r]
      BY <2>1, <1>h, <1>m, <1>t DEF STypeOK
    <3> QED BY <2>1, <3>1, <1>a DEF SInv, HoldersInv, OnlyHeadHoldsBlocks
  <2>2. status'[s] = "RUNNING" \/ (status'[s] = "WAITING" /\ waiting' = waiting)
    BY <1>m, <1>s, <1>t DEF STypeOK
  <2>3. OnlyHeadHoldsBlocks'
    BY <1>a, <2>1, <2>2 DEF OnlyHeadHoldsBlocks
  <2>4. \A r \in Seqs : blockTable'[r] # <<>> /\ status'[r] = "FINISHED" => FALSE
    BY <2>1, <2>2
  <2>5. \A r \in Range(waiting') : blockTable'[r] # <<>> => r \in Range(batch')
    <3>1. \A r \in Range(waiting) : status[r] = "WAITING"
      BY DEF SInv, StatusInv
    <3> QED BY <1>b, <1>m1, <1>t, <2>1, <3>1
  <2> QED BY <2>3, <2>4, <2>5 DEF HoldersInv
<1>7. RestoreInv'
  <2>1. cpuHandles' = cpuHandles /\ \A r \in Seqs : cpuHandles[r] > 0 => CpuCache
    BY DEF Admitted, SInv, RestoreInv
  <2>2. ASSUME CpuCache PROVE batch = <<>> /\ batch' = <<s>>
    <3>1. Len(batch) = 0
      BY <1>a, <1>t, <2>2, RangeEmpty, SchedulerAssumption
    <3>2. batch = <<>>
      BY <1>t, <3>1, RangeEmpty
    <3> QED BY <3>2, <1>a
  <2>3. ASSUME NEW r \in Seqs, restorePending'[r]
        PROVE  /\ CpuCache /\ batch' = <<r>>
               /\ \A a \in Range(running') : a <= r
    <3>1. restorePending[r] => CpuCache /\ batch = <<r>>
      BY DEF SInv, RestoreInv
    <3>2. CpuCache
      BY <2>3, <3>1 DEF Admitted
    <3>3. ~restorePending[r]
      <4>1. <<r>> # <<>>
        OBVIOUS
      <4> QED BY <2>2, <3>1, <3>2, <4>1
    <3>4. r = s
      BY <2>3, <3>3, <1>t DEF Admitted, BMTypeOK
    <3>5. \A a \in Range(running') : a <= s
      <4>1. ASSUME NEW a \in Range(running) PROVE a <= s
        <5>1. a \in Nat /\ s \in Nat
          BY <1>t, IdsNat
        <5>2. a < s
          BY <1>r
        <5> QED BY <5>1, <5>2
      <4> QED BY <4>1, <1>m1, IdsNat
    <3> QED BY <2>2, <3>2, <3>4, <3>5
  <2> QED BY <1>a, <2>1, <2>3 DEF RestoreInv
<1>8. PayloadInv'
  BY <1>a, <1>b, <1>m, <1>s, <1>t DEF SInv, PayloadInv, Admitted, STypeOK
<1>9. FailInv'
  BY <1>a, <1>b DEF FailInv
<1>10. PromptInv'
  BY <1>a, <1>m, <1>s, <1>t DEF SInv, PromptInv, Admitted, STypeOK
<1> QED BY <1>1, <1>2, <1>3, <1>4, <1>5, <1>6, <1>7, <1>8, <1>9, <1>10 DEF SInv

-----------------------------------------------------------------------------
(* Between steps *)

\* What the groups of the invariant say of types and lines.
LEMMA SInvTypes ==
  ASSUME SInv
  PROVE  /\ STypeOK /\ BMTypeOK /\ QueuesOrdered
         /\ waiting \in Seq(Seqs) /\ running \in Seq(Seqs) /\ batch \in Seq(Seqs)
         /\ Range(waiting) \subseteq Seqs /\ Range(running) \subseteq Seqs
         /\ Range(batch) \subseteq Seqs
         /\ Sorted(waiting) /\ Sorted(running) /\ Sorted(batch)
         /\ \A r \in Seqs : Len(tokens[r]) \in Nat /\ numCached[r] \in Nat
BY RangeEmpty, TableLen DEF SInv, STypeOK, IInv, BMTypeOK, QueuesOrdered

\* add_request: the new id is greater than all that came before.
LEMMA AddRequestStep ==
  ASSUME SInv, IInv', NEW s \in Seqs, NEW p \in Prompts, NEW h \in CpuMatches(p),
         AddRequest(s, p, h)
  PROVE  SInv'
<1>t. /\ STypeOK /\ BMTypeOK /\ QueuesOrdered
      /\ waiting \in Seq(Seqs) /\ running \in Seq(Seqs) /\ batch \in Seq(Seqs)
      /\ Range(waiting) \subseteq Seqs /\ Range(running) \subseteq Seqs
      /\ \A r \in Seqs : Len(tokens[r]) \in Nat
  BY SInvTypes
<1>p. p \in Seq(Token) /\ Len(p) \in Nat /\ Len(p) > 0 /\ p # <<>>
  BY FinitenessAssumption, EmptySeq, LenProperties
<1>h. h \in Nat /\ (h > 0 => CpuCache)
  <2>1. CASE CpuCache
    <3>1. h \in 0 .. (Len(p) - 1) \div BlockSize
      BY <2>1 DEF CpuMatches
    <3> QED BY <2>1, <3>1
  <2>2. CASE ~CpuCache
    BY <2>2 DEF CpuMatches
  <2> QED BY <2>1, <2>2
<1>a. /\ pc = "idle" /\ status[s] = "NEW" /\ tokens[s] = <<>>
      /\ \A r \in Seqs : r < s => status[r] # "NEW"
      /\ tokens' = [tokens EXCEPT ![s] = p]
      /\ status' = [status EXCEPT ![s] = "WAITING"]
      /\ numPrompt' = [numPrompt EXCEPT ![s] = Len(p)]
      /\ cpuHandles' = [cpuHandles EXCEPT ![s] = h]
      /\ waiting' = Append(waiting, s)
      /\ UNCHANGED <<numCached, restorePending, blockTable, scheduled, isPrefill,
                     running, batch, budget, prefillStep, pc>>
      /\ batch = <<>>
  BY DEF AddRequest, NewSequence, allocVars, stepVars, SInv, BatchInv
<1>q. \A a \in Range(waiting) \cup Range(running) : a \in Seqs /\ a < s
  <2>1. ASSUME NEW a \in Range(waiting) \cup Range(running) PROVE a < s
    <3>1. a \in Seqs /\ status[a] # "NEW"
      BY <1>a, <1>t DEF SInv, StatusInv, Finishing
    <3>2. a # s /\ ~(s < a)
      BY <1>a, <3>1 DEF SInv, StatusInv
    <3> QED BY <3>1, <3>2, IdOrder
  <2> QED BY <2>1, <1>t
<1>w. /\ waiting' \in Seq(Seqs) /\ Sorted(waiting') /\ waiting' # <<>>
      /\ Range(waiting') = Range(waiting) \cup {s}
      /\ waiting # <<>> => Head(waiting') = Head(waiting)
      /\ waiting = <<>> => Head(waiting') = s
  BY <1>a, <1>q, <1>t, AppendOrdered, HeadTailAppend DEF QueuesOrdered
<1>n. /\ blockTable[s] = <<>>
      /\ \A r \in Seqs : r # s => NumBlocks(r)' = NumBlocks(r)
  <2>1. \A r \in Seqs : r # s => tokens'[r] = tokens[r]
    BY <1>a, <1>t DEF BMTypeOK
  <2>2. blockTable[s] = <<>>
    BY <1>a DEF SInv, HoldersInv, OnlyHeadHoldsBlocks
  <2> QED BY <2>1, <2>2 DEF NumBlocks
<1>b. Range(batch) = {}
  BY <1>a, <1>t, RangeEmpty
<1>1. STypeOK'
  BY <1>t, <1>a, <1>w, <1>p, <1>h DEF STypeOK
<1>2. QueuesOrdered'
  BY <1>a, <1>w, <1>q DEF SInv, QueuesOrdered, Precedes
<1>3. StatusInv'
  <2>1. \A r \in Seqs : r # s => status'[r] = status[r] /\ tokens'[r] = tokens[r]
    BY <1>a, <1>t DEF STypeOK, BMTypeOK
  <2>2. status'[s] = "WAITING" /\ tokens'[s] = p
    BY <1>a, <1>t DEF STypeOK, BMTypeOK
  <2>3. ASSUME NEW q \in Seqs, NEW r \in Seqs, q < r, status'[q] = "NEW"
        PROVE  status'[r] = "NEW"
    <3>1. q # s /\ status[q] = "NEW" /\ status[r] = "NEW" /\ ~(q < s)
      BY <1>a, <2>1, <2>2, <2>3 DEF SInv, StatusInv
    <3>2. r # s
      BY <2>3, <3>1
    <3> QED BY <2>1, <3>1, <3>2
  <2>4. /\ \A r \in Range(waiting') : status'[r] = "WAITING"
        /\ \A r \in Range(running') : status'[r] = "RUNNING"
        /\ \A r \in Seqs : status'[r] = "WAITING" => r \in Range(waiting')
        /\ \A r \in Seqs : status'[r] = "RUNNING" => r \in Range(running')
        /\ \A r \in Seqs : status'[r] = "NEW" <=> tokens'[r] = <<>>
    BY <1>a, <1>w, <1>q, <1>t, <1>p, <2>1, <2>2, IdOrder
    DEF SInv, StatusInv, Finishing
  <2> QED BY <1>a, <2>3, <2>4 DEF StatusInv, Finishing
<1>4. BatchInv'
  BY <1>a, <1>b DEF SInv, BatchInv
<1>5. ProgressInv'
  BY <1>a, <1>b, <1>n, <1>t DEF SInv, ProgressInv, BMTypeOK, STypeOK
<1>6. HoldersInv'
  BY <1>a, <1>n, <1>t, <1>w DEF SInv, HoldersInv, OnlyHeadHoldsBlocks, Finishing,
     STypeOK
<1>7. RestoreInv'
  BY <1>a, <1>h, <1>t DEF SInv, RestoreInv, STypeOK
<1>8. PayloadInv'
  BY <1>a, <1>b, <1>t DEF SInv, PayloadInv, STypeOK
<1>9. FailInv'
  BY <1>a DEF FailInv
<1>10. PromptInv'
  BY <1>a, <1>p, <1>t DEF SInv, PromptInv, STypeOK, BMTypeOK
<1> QED BY <1>1, <1>2, <1>3, <1>4, <1>5, <1>6, <1>7, <1>8, <1>9, <1>10 DEF SInv

\* All but what schedule() and step() keep in local variables.
restVars == <<tokens, numCached, blockTable, seqVars, queueVars>>

\* What follows for the operators of the invariant.
LEMMA RestSame ==
  ASSUME UNCHANGED restVars
  PROVE  /\ UNCHANGED <<tokens, numCached, blockTable, status, numPrompt, scheduled,
                        isPrefill, cpuHandles, waiting, running>>
         /\ \A r \in Seqs : NumBlocks(r)' = NumBlocks(r)
         /\ \A r \in Seqs : HeadOf(r)' <=> HeadOf(r)
         /\ Oversized' <=> Oversized
         /\ PromptInv => PromptInv'
<1>1. UNCHANGED <<tokens, numCached, blockTable, status, numPrompt, scheduled,
                  isPrefill, cpuHandles, waiting, running>>
  BY DEF restVars, seqVars, queueVars
<1> QED BY <1>1 DEF NumBlocks, HeadOf, Oversized, PromptInv

\* Nothing changes that the scheduler reads, but that a restore may be done.
LEMMA SameStep ==
  ASSUME SInv, IInv', UNCHANGED restVars, UNCHANGED stepVars,
         \A r \in Seqs : restorePending'[r] => restorePending[r]
  PROVE  SInv'
<1>u. /\ UNCHANGED <<tokens, numCached, blockTable, status, numPrompt,
                     scheduled, isPrefill, cpuHandles, waiting, running>>
      /\ UNCHANGED <<batch, budget, prefillStep, pc>>
      /\ \A r \in Seqs : NumBlocks(r)' = NumBlocks(r)
      /\ \A r \in Seqs : HeadOf(r)' <=> HeadOf(r)
      /\ Oversized' <=> Oversized
      /\ PromptInv'
  BY RestSame DEF SInv, stepVars
<1>1. STypeOK' /\ QueuesOrdered'
  BY <1>u DEF SInv, STypeOK, QueuesOrdered
<1>2. StatusInv'
  BY <1>u DEF SInv, StatusInv, Finishing
<1>3. BatchInv'
  BY <1>u, SInvTypes DEF SInv, BatchInv
<1>4. ProgressInv'
  <2>1. \A r : Done(r)' <=> Done(r)
    BY <1>u DEF Done
  <2>2. ASSUME NEW r \in Range(batch')
        PROVE  \/ Done(r)'
               \/ /\ Len(blockTable'[r]) = NumBlocks(r)'
                  /\ scheduled'[r] > 0
                  /\ IF r \in Range(waiting')
                     THEN numCached'[r] + scheduled'[r] < Len(tokens'[r])
                     ELSE numCached'[r] + scheduled'[r] = Len(tokens'[r])
                  /\ ~prefillStep' /\ pc' # "prefill" => scheduled'[r] = 1
    BY <1>u, <2>1, SInvTypes DEF SInv, ProgressInv
  <2>3. \A r \in Seqs : pc' = "append" /\ r = Head(batch') =>
          numCached'[r] = Len(tokens'[r]) /\ Len(blockTable'[r]) = NumBlocks(r)'
    BY <1>u DEF SInv, ProgressInv
  <2>4. \A r \in Seqs : status'[r] = "RUNNING" /\ r \notin Range(batch') =>
          /\ numCached'[r] + 1 = Len(tokens'[r])
          /\ Len(blockTable'[r]) = BlocksFor(numCached'[r])
          /\ blockTable'[r] # <<>>
    BY <1>u DEF SInv, ProgressInv
  <2>5. \A r \in Seqs : status'[r] = "WAITING" /\ blockTable'[r] # <<>> =>
          numCached'[r] < Len(tokens'[r]) /\ Len(blockTable'[r]) = NumBlocks(r)'
    BY <1>u DEF SInv, ProgressInv
  <2> QED BY <2>2, <2>3, <2>4, <2>5 DEF ProgressInv
<1>5. HoldersInv' /\ RestoreInv'
  BY <1>u DEF SInv, HoldersInv, OnlyHeadHoldsBlocks, RestoreInv, Finishing
<1>6. PayloadInv' /\ FailInv'
  BY <1>u DEF SInv, PayloadInv, FailInv
<1> QED BY <1>u, <1>1, <1>2, <1>3, <1>4, <1>5, <1>6 DEF SInv

\* A step() begins.
LEMMA StartStepStep ==
  ASSUME SInv, IInv', StartStep
  PROVE  SInv'
<1>t. /\ STypeOK /\ BMTypeOK /\ QueuesOrdered
      /\ waiting \in Seq(Seqs) /\ running \in Seq(Seqs)
  BY SInvTypes
<1>a. /\ pc = "idle" /\ waiting \o running # <<>>
      /\ pc' = "prefill" /\ batch' = <<>> /\ budget' = MaxNumBatchedTokens
      /\ prefillStep' = prefillStep /\ batch = <<>>
      /\ UNCHANGED <<restVars, restorePending>>
  BY DEF StartStep, restVars, bmVars, SInv, BatchInv
<1>u. /\ UNCHANGED <<tokens, numCached, blockTable, restorePending, status, numPrompt,
                     scheduled, isPrefill, cpuHandles, waiting, running>>
      /\ \A r \in Seqs : NumBlocks(r)' = NumBlocks(r)
      /\ PromptInv'
  BY <1>a, RestSame DEF SInv
<1>e. /\ Range(batch') = {} /\ Sorted(batch') /\ batch' \in Seq(Seqs) /\ Len(batch') = 0
      /\ Range(batch) = {}
      /\ waiting # <<>> \/ running # <<>>
  BY <1>a, <1>t, RangeEmpty, ConcatEmptySeq
<1>1. STypeOK' /\ QueuesOrdered'
  BY <1>a, <1>u, <1>e, SchedulerAssumption DEF SInv, STypeOK, QueuesOrdered, PCs
<1>2. StatusInv'
  BY <1>a, <1>u DEF SInv, StatusInv, Finishing
<1>3. BatchInv'
  BY <1>a, <1>e, SchedulerAssumption DEF BatchInv
<1>4. ProgressInv'
  BY <1>a, <1>u, <1>e DEF SInv, ProgressInv, Done
<1>5. HoldersInv' /\ RestoreInv'
  BY <1>a, <1>u DEF SInv, HoldersInv, OnlyHeadHoldsBlocks, RestoreInv, Finishing
<1>6. PayloadInv' /\ FailInv'
  BY <1>a, <1>u, <1>e DEF SInv, PayloadInv, FailInv
<1> QED BY <1>u, <1>1, <1>2, <1>3, <1>4, <1>5, <1>6 DEF SInv

\* The batch runs.
LEMMA RunStep ==
  ASSUME SInv, IInv', Run
  PROVE  SInv'
<1>a. /\ pc = "dispatch" /\ pc' = "post" /\ Pending = {}
      /\ UNCHANGED <<batch, budget, prefillStep>> /\ UNCHANGED <<restVars, restorePending>>
  BY DEF Run, restVars, bmVars
<1>u. /\ UNCHANGED <<tokens, numCached, blockTable, restorePending, status, numPrompt,
                     scheduled, isPrefill, cpuHandles, waiting, running>>
      /\ \A r \in Seqs : NumBlocks(r)' = NumBlocks(r)
      /\ \A r \in Seqs : HeadOf(r)' <=> HeadOf(r)
      /\ PromptInv'
  BY <1>a, RestSame DEF SInv
<1>p. \A r \in Seqs : ~restorePending[r]
  <2>1. ASSUME NEW r \in Seqs, restorePending[r] PROVE FALSE
    <3>1. batch = <<r>>
      BY <2>1 DEF SInv, RestoreInv
    <3>2. r \in Range(batch)
      BY <3>1 DEF Range
    <3> QED BY <1>a, <2>1, <3>2 DEF Pending
  <2> QED BY <2>1
<1>1. STypeOK' /\ QueuesOrdered'
  BY <1>a, <1>u DEF SInv, STypeOK, QueuesOrdered, PCs
<1>2. StatusInv'
  BY <1>a, <1>u DEF SInv, StatusInv, Finishing
<1>3. BatchInv'
  BY <1>a, <1>u, SInvTypes DEF SInv, BatchInv
<1>4. ProgressInv'
  BY <1>a, <1>u, SInvTypes DEF SInv, ProgressInv, Done
<1>5. HoldersInv' /\ RestoreInv'
  BY <1>a, <1>p, <1>u DEF SInv, HoldersInv, OnlyHeadHoldsBlocks, RestoreInv, Finishing
<1>6. PayloadInv' /\ FailInv'
  BY <1>a, <1>u DEF SInv, PayloadInv, FailInv
<1> QED BY <1>u, <1>1, <1>2, <1>3, <1>4, <1>5, <1>6 DEF SInv

\* A step() is over.
LEMMA EndStepStep ==
  ASSUME SInv, IInv', EndStep
  PROVE  SInv'
<1>a. /\ pc = "post" /\ pc' = "idle" /\ batch = <<>>
      /\ UNCHANGED <<batch, budget, prefillStep>> /\ UNCHANGED <<restVars, restorePending>>
  BY DEF EndStep, restVars, bmVars
<1>u. /\ UNCHANGED <<tokens, numCached, blockTable, restorePending, status, numPrompt,
                     scheduled, isPrefill, cpuHandles, waiting, running>>
      /\ \A r \in Seqs : NumBlocks(r)' = NumBlocks(r)
      /\ PromptInv'
  BY <1>a, RestSame DEF SInv
<1>1. STypeOK' /\ QueuesOrdered'
  BY <1>a, <1>u DEF SInv, STypeOK, QueuesOrdered, PCs
<1>2. StatusInv'
  BY <1>a, <1>u DEF SInv, StatusInv, Finishing
<1>3. BatchInv'
  BY <1>a DEF BatchInv
<1>e. Range(batch') = {} /\ Range(batch) = {}
  BY <1>a DEF Range
<1>4. ProgressInv'
  BY <1>a, <1>u, <1>e DEF SInv, ProgressInv, Done
<1>5. HoldersInv' /\ RestoreInv'
  BY <1>a, <1>u DEF SInv, HoldersInv, OnlyHeadHoldsBlocks, RestoreInv, Finishing
<1>6. PayloadInv' /\ FailInv'
  BY <1>a, <1>u DEF SInv, PayloadInv, FailInv
<1> QED BY <1>u, <1>1, <1>2, <1>3, <1>4, <1>5, <1>6 DEF SInv

-----------------------------------------------------------------------------
(* The end of the prefill loop, and the decode loop *)

\* No sequence holds blocks: all are free.
LEMMA NobodyHolds ==
  ASSUME IInv, \A r \in Seqs : blockTable[r] = <<>>
  PROVE  free = Blocks /\ used = {}
<1>1. \A b : Owners(b) = {}
  BY DEF Owners, Range
<1> QED BY <1>1 DEF IInv, RefCountsExact, BMTypeOK

\* The lookup loop of can_allocate stops somewhere.
LEMMA LongestHitExists ==
  ASSUME NEW s \in Seqs, NumBlocks(s) \in Nat, NumBlocks(s) > 0
  PROVE  \E k \in 0 .. NumBlocks(s) - 1 : LongestHit(s, k)
<1> DEFINE N == NumBlocks(s) - 1
           T == {k \in 0 .. N : k = N \/ ~Hit(PrefixHash(s, k + 1))}
<1>1. N \in Nat /\ T \in SUBSET Nat /\ N \in T
  OBVIOUS
<1>2. PICK k \in T : \A m \in T : k <= m
  BY <1>1, LeastNat
<1>3. \A i \in 1 .. k : Hit(PrefixHash(s, i))
  <2> SUFFICES ASSUME NEW i \in 1 .. k PROVE Hit(PrefixHash(s, i))
    OBVIOUS
  <2>1. i - 1 \in 0 .. N /\ i - 1 \notin T /\ (i - 1) + 1 = i /\ i - 1 # N
    BY <1>1, <1>2
  <2> QED BY <2>1
<1>4. k \in 0 .. NumBlocks(s) - 1
  BY <1>2
<1>5. k < NumBlocks(s) - 1 => ~Hit(PrefixHash(s, k + 1))
  BY <1>2
<1> QED BY <1>3, <1>4, <1>5 DEF LongestHit

\* A request that is refused by an empty cache does not fit it.
LEMMA RefusedIsOversized ==
  ASSUME IInv, NEW s \in Seqs, tokens[s] # <<>>, GpuCached(s) = -1,
         \A r \in Seqs : blockTable[r] = <<>>
  PROVE  NumBlocks(s) > Cardinality(Blocks)
<1>1. free = Blocks /\ used = {}
  BY NobodyHolds
<1>2. NumBlocks(s) \in Nat /\ NumBlocks(s) > 0
  <2>1. /\ NumBlocks(s) \in Nat /\ Len(tokens[s]) <= NumBlocks(s) * BlockSize
        /\ Len(tokens[s]) \in Nat /\ Len(tokens[s]) # 0
    BY NumBlocksFacts, TableLen DEF IInv, BMTypeOK
  <2> QED BY <2>1, BlockSizeAssumption
<1> DEFINE k == CHOOSE i \in 0 .. NumBlocks(s) - 1 : LongestHit(s, i)
<1>3. k \in 0 .. NumBlocks(s) - 1 /\ LongestHit(s, k)
  BY <1>2, LongestHitExists
<1>4. GpuCached(s) = IF CanAllocate(s, k) THEN k ELSE -1
  BY DEF GpuCached
<1> HIDE DEF k
<1>5. ~CanAllocate(s, k)
  BY <1>2, <1>3, <1>4
<1>6. ~ (Cardinality(free) >= NewBlocksNeeded(s, k))
  BY <1>3, <1>5 DEF CanAllocate
<1>7. NewBlocksNeeded(s, k) = NumBlocks(s)
  <2>1. {i \in 1 .. k : HitBlock(s, i) \in used} = {}
    BY <1>1
  <2>2. Cardinality({}) = 0
    BY FS_EmptySet
  <2>3. Cardinality({i \in 1 .. k : HitBlock(s, i) \in used}) = 0
    BY <2>1, <2>2
  <2>4. NewBlocksNeeded(s, k) = NumBlocks(s) - 0
    BY <2>3, Zenon DEF NewBlocksNeeded
  <2> QED BY <1>2, <2>4
<1>8. Cardinality(Blocks) \in Nat
  BY FS_CardinalityType, FinitenessAssumption
<1> QED BY <1>1, <1>2, <1>6, <1>7, <1>8

\* The prefill loop ends: the batch runs if there is one.
LEMMA EndPrefillStep ==
  ASSUME SInv, IInv', EndPrefill
  PROVE  SInv'
<1>t. /\ STypeOK /\ BMTypeOK /\ QueuesOrdered
      /\ waiting \in Seq(Seqs) /\ running \in Seq(Seqs) /\ batch \in Seq(Seqs)
      /\ Range(waiting) \subseteq Seqs /\ Range(running) \subseteq Seqs
  BY SInvTypes
<1>a. /\ pc = "prefill" /\ ~CanAdmit
      /\ pc' = IF batch = <<>> THEN "decode" ELSE "dispatch"
      /\ prefillStep' = (batch # <<>>)
      /\ UNCHANGED <<batch, budget>> /\ UNCHANGED <<restVars, restorePending>>
  BY DEF EndPrefill, restVars, bmVars
<1>u. /\ UNCHANGED <<tokens, numCached, blockTable, restorePending, status, numPrompt,
                     scheduled, isPrefill, cpuHandles, waiting, running>>
      /\ \A r \in Seqs : NumBlocks(r)' = NumBlocks(r)
      /\ \A r \in Seqs : HeadOf(r)' <=> HeadOf(r)
      /\ Oversized' <=> Oversized
      /\ PromptInv'
  BY <1>a, RestSame DEF SInv
<1>e. batch = <<>> => Range(batch) = {} /\ Range(batch') = {}
  BY <1>a, <1>t, RangeEmpty
<1>h. ASSUME batch = <<>>, waiting # <<>>
      PROVE  blockTable[Head(waiting)] = <<>> /\ HitBlocksOf(Head(waiting)) = -1
  <2>1. Len(batch) = 0 /\ budget > 0
    BY <1>a, <1>h, <1>t, RangeEmpty DEF SInv, BatchInv
  <2>2. FitsBudget(Head(waiting))
    BY <1>h DEF FitsBudget
  <2> QED BY <1>a, <1>h, <2>1, <2>2, SchedulerAssumption DEF CanAdmit
<1>1. STypeOK'
  BY <1>a, <1>u, <1>t DEF STypeOK, PCs
<1>2. QueuesOrdered'
  BY <1>a, <1>u, <1>e, <1>t DEF QueuesOrdered, Precedes
<1>3. StatusInv'
  <2>1. pc' # "finish" /\ (pc' = "decode" => Range(batch') = {})
    BY <1>a, <1>e
  <2> QED BY <1>a, <1>u, <2>1 DEF SInv, StatusInv, Finishing
<1>4. BatchInv'
  <2>1. Len(batch') <= MaxNumSeqs
    BY <1>a DEF SInv, BatchInv
  <2>2. CASE batch = <<>>
    BY <1>a, <1>e, <2>1, <2>2 DEF BatchInv
  <2>3. CASE batch # <<>>
    <3>1. pc' = "dispatch" /\ prefillStep' /\ batch' # <<>>
      BY <1>a, <2>3
    <3>2. \A r \in Range(batch') : r \in Range(running') \/ HeadOf(r)'
      <4>1. \A r \in Range(batch) : r \in Range(running) \/ HeadOf(r)
        BY <1>a DEF SInv, BatchInv
      <4> QED BY <1>a, <1>u, <4>1, SInvTypes
    <3> QED BY <2>1, <3>1, <3>2 DEF BatchInv
  <2> QED BY <2>2, <2>3
<1>5. ProgressInv'
  <2>1. \A r : ~Done(r) /\ ~Done(r)'
    BY <1>a DEF Done
  <2>2. ASSUME NEW r \in Range(batch')
        PROVE  /\ Len(blockTable'[r]) = NumBlocks(r)'
               /\ scheduled'[r] > 0
               /\ IF r \in Range(waiting')
                  THEN numCached'[r] + scheduled'[r] < Len(tokens'[r])
                  ELSE numCached'[r] + scheduled'[r] = Len(tokens'[r])
               /\ prefillStep'
    <3>1. r \in Range(batch) /\ batch # <<>> /\ r \in Seqs
      BY <1>a, <1>e, <2>2, SInvTypes
    <3> QED BY <1>a, <1>u, <2>1, <3>1 DEF SInv, ProgressInv
  <2> QED BY <1>a, <1>u, <2>1, <2>2 DEF SInv, ProgressInv
<1>6. HoldersInv'
  <2>1. ASSUME pc' = "decode", NEW r \in Seqs, blockTable[r] # <<>>
        PROVE  status[r] = "RUNNING"
    <3>1. batch = <<>>
      BY <1>a, <2>1
    <3> QED BY <1>a, <1>h, <2>1, <3>1 DEF SInv, HoldersInv, OnlyHeadHoldsBlocks
  <2>2. OnlyHeadHoldsBlocks'
    BY <1>a, <1>u, <2>1 DEF SInv, HoldersInv, OnlyHeadHoldsBlocks
  <2> QED BY <1>a, <1>u, <2>2 DEF SInv, HoldersInv, Finishing
<1>7. RestoreInv'
  <2>1. \A r \in Seqs : restorePending[r] => batch # <<>>
    BY DEF SInv, RestoreInv
  <2> QED BY <1>a, <1>u, <2>1 DEF SInv, RestoreInv
<1>8. PayloadInv'
  BY <1>a, <1>e, <1>u DEF SInv, PayloadInv
<1>9. FailInv'
  <2>1. ASSUME batch = <<>>, running = <<>> PROVE Oversized
    <3>1. waiting # <<>>
      BY <1>a, <2>1 DEF SInv, FailInv
    <3> DEFINE s == Head(waiting)
    <3>2. s \in Seqs /\ s \in Range(waiting)
      BY <1>t, <3>1, TailOrdered DEF QueuesOrdered
    <3>3. /\ blockTable[s] = <<>> /\ HitBlocksOf(s) = -1
      BY <1>h, <2>1, <3>1
    <3>4. tokens[s] # <<>> /\ cpuHandles[s] \in Nat
      BY <1>t, <3>2 DEF SInv, StatusInv, STypeOK
    <3>5. GpuCached(s) = -1
      BY <3>3, <3>4 DEF HitBlocksOf
    <3>6. ASSUME NEW r \in Seqs PROVE blockTable[r] = <<>>
      <4>1. status[r] # "RUNNING"
        BY <1>a, <2>1, RangeEmpty, <1>t DEF SInv, StatusInv
      <4> QED BY <1>a, <3>3, <4>1 DEF SInv, HoldersInv, OnlyHeadHoldsBlocks
    <3>7. NumBlocks(s) > Cardinality(Blocks)
      BY <3>2, <3>4, <3>5, <3>6, RefusedIsOversized DEF SInv
    <3> QED BY <3>1, <3>7 DEF Oversized
  <2> QED BY <1>a, <1>u, <2>1 DEF FailInv
<1> QED BY <1>u, <1>1, <1>2, <1>3, <1>4, <1>5, <1>6, <1>7, <1>8, <1>9 DEF SInv

\* The decode loop and what it takes from the head of the line: a table with
\* room for the newest token.
LEMMA GrowTableEffect ==
  ASSUME SInv, NEW s \in Seqs, GrowTable(s),
         numCached[s] + 1 = Len(tokens[s]),
         Len(blockTable[s]) = BlocksFor(numCached[s])
  PROVE  /\ Holds(s, NumBlocks(s), numCached[s])
         /\ restorePending' = restorePending
<1>t. /\ IInv /\ BMTypeOK
      /\ Len(tokens[s]) \in Nat /\ numCached[s] \in Nat
      /\ Len(blockTable[s]) \in Nat
  BY SInvTypes, TableLen DEF SInv, IInv
<1>1. NumBlocks(s) = BlocksFor(numCached[s] + 1)
  BY DEF NumBlocks, BlocksFor
<1>2. CASE Len(tokens[s]) % BlockSize = 1
  <2>1. MayAppend(s)
    BY <1>2 DEF GrowTable
  <2>2. NumBlocks(s) = Len(blockTable[s]) + 1
    BY <1>1, <1>2, <1>t, BlocksForFacts
  <2> QED BY <1>t, <2>1, <2>2, MayAppendEffect
<1>3. CASE Len(tokens[s]) % BlockSize # 1
  <2>1. UNCHANGED <<tokens, numCached, blockTable, restorePending>>
    BY <1>3 DEF GrowTable, bmVars
  <2>2. NumBlocks(s) = Len(blockTable[s])
    BY <1>1, <1>3, <1>t, BlocksForFacts
  <2>3. numCached' = [numCached EXCEPT ![s] = numCached[s]]
    BY <2>1, <1>t DEF BMTypeOK
  <2> QED BY <2>1, <2>2, <2>3 DEF Holds
<1> QED BY <1>2, <1>3

\* One round of the decode loop that finds room.
LEMMA ScheduleDecodeStep ==
  ASSUME SInv, IInv', ScheduleDecode
  PROVE  SInv'
<1> DEFINE s == Head(running)
<1>t. /\ STypeOK /\ BMTypeOK /\ QueuesOrdered
      /\ waiting \in Seq(Seqs) /\ running \in Seq(Seqs) /\ batch \in Seq(Seqs)
      /\ Range(waiting) \subseteq Seqs /\ Range(running) \subseteq Seqs
      /\ Range(batch) \subseteq Seqs
      /\ Sorted(waiting) /\ Sorted(running) /\ Sorted(batch)
      /\ \A r \in Seqs : Len(tokens[r]) \in Nat /\ numCached[r] \in Nat
  BY SInvTypes
<1>a. /\ pc = "decode" /\ pc' = "decode" /\ running # <<>> /\ Len(batch) < MaxNumSeqs
      /\ scheduled' = [scheduled EXCEPT ![s] = 1]
      /\ isPrefill' = [isPrefill EXCEPT ![s] = FALSE]
      /\ running' = Tail(running) /\ batch' = Append(batch, s)
      /\ UNCHANGED <<status, numPrompt, cpuHandles, waiting, budget, prefillStep>>
      /\ GrowTable(s)
  BY DEF ScheduleDecode, CanDecode
<1>r. /\ s \in Seqs /\ s \in Range(running)
      /\ running' \in Seq(Seqs) /\ Sorted(running')
      /\ Range(running') = Range(running) \ {s}
      /\ \A a \in Range(running') : s < a
  BY <1>a, <1>t, TailOrdered
<1> HIDE DEF s
<1>o. /\ \A a \in Range(batch) : a < s
      /\ \A a \in Range(waiting) : s < a
      /\ s \notin Range(batch) /\ s \notin Range(waiting)
  <2>1. /\ \A a \in Range(batch) : a < s
        /\ \A a \in Range(waiting) : s < a
    BY <1>a, <1>r DEF SInv, QueuesOrdered, Precedes
  <2> QED BY <2>1, <1>r, IdOrder
<1>b. /\ batch' \in Seq(Seqs) /\ batch' # <<>> /\ Sorted(batch')
      /\ Range(batch') = Range(batch) \cup {s}
      /\ Len(batch') = Len(batch) + 1
  BY <1>a, <1>r, <1>o, <1>t, AppendOrdered
<1>s. status[s] = "RUNNING"
  BY <1>a, <1>r DEF SInv, StatusInv, Finishing
<1>p. /\ numCached[s] + 1 = Len(tokens[s])
      /\ Len(blockTable[s]) = BlocksFor(numCached[s])
  BY <1>s, <1>o, <1>r DEF SInv, ProgressInv
<1>h. Holds(s, NumBlocks(s), numCached[s]) /\ restorePending' = restorePending
  BY <1>a, <1>r, <1>p, GrowTableEffect
<1>e. /\ tokens' = tokens /\ numCached' = numCached
      /\ Len(blockTable'[s]) = NumBlocks(s)
      /\ \A r \in Seqs : r # s => blockTable'[r] = blockTable[r]
      /\ \A r \in Seqs : NumBlocks(r)' = NumBlocks(r)
      /\ scheduled'[s] = 1
      /\ \A r \in Seqs : r # s => scheduled'[r] = scheduled[r]
      /\ ~isPrefill'[s]
      /\ \A r \in Seqs : r # s => isPrefill'[r] = isPrefill[r]
  BY <1>h, <1>t, <1>r, <1>a DEF Holds, NumBlocks, BMTypeOK, STypeOK
<1>n. \A r \in Seqs : ~restorePending[r]
  BY <1>a DEF SInv, RestoreInv
<1>1. STypeOK'
  BY <1>t, <1>a, <1>r, <1>b DEF STypeOK
<1>2. QueuesOrdered'
  <2>1. Precedes(batch', running') /\ Precedes(batch', waiting')
    BY <1>a, <1>b, <1>r, <1>o, <1>t DEF QueuesOrdered, Precedes
  <2>2. Precedes(running', waiting')
    BY <1>a, <1>r, <1>t DEF QueuesOrdered, Precedes
  <2> QED BY <1>a, <1>b, <1>r, <1>t, <2>1, <2>2 DEF QueuesOrdered
<1>3. StatusInv'
  <2>1. \A r \in Range(running) : status[r] = "RUNNING"
    BY <1>a DEF SInv, StatusInv, Finishing
  <2> QED BY <1>a, <1>b, <1>r, <1>s, <1>e, <2>1 DEF SInv, StatusInv
<1>4. BatchInv'
  <2>1. Len(batch') <= MaxNumSeqs
    BY <1>a, <1>b, <1>t, RangeEmpty, SchedulerAssumption
  <2> QED BY <1>a, <2>1 DEF SInv, BatchInv
<1>5. ProgressInv'
  <2>1. ASSUME NEW r \in Range(batch')
        PROVE  /\ Len(blockTable'[r]) = NumBlocks(r)'
               /\ scheduled'[r] > 0
               /\ r \notin Range(waiting')
               /\ numCached'[r] + scheduled'[r] = Len(tokens'[r])
               /\ scheduled'[r] = 1
    <3>1. CASE r = s
      BY <3>1, <1>a, <1>e, <1>o, <1>p, <1>r
    <3>2. CASE r # s
      <4>1. r \in Range(batch) /\ r \in Seqs
        BY <3>2, <1>b, <1>t, <2>1
      <4>2. r \notin Range(waiting)
        <5>1. \A x \in Range(waiting) : r < x
          BY <4>1, <1>a, <1>t DEF QueuesOrdered, Precedes
        <5> QED BY <4>1, <5>1, IdOrder
      <4>3. ~Done(r) /\ ~prefillStep
        BY <1>a DEF Done, SInv, BatchInv
      <4> QED BY <3>2, <4>1, <4>2, <4>3, <1>a, <1>e DEF SInv, ProgressInv
    <3> QED BY <3>1, <3>2
  <2>2. ASSUME NEW r \in Seqs, status'[r] = "RUNNING", r \notin Range(batch')
        PROVE  /\ numCached'[r] + 1 = Len(tokens'[r])
               /\ Len(blockTable'[r]) = BlocksFor(numCached'[r])
               /\ blockTable'[r] # <<>>
    BY <1>a, <1>b, <1>e, <2>2 DEF SInv, ProgressInv
  <2>3. ASSUME NEW r \in Seqs, status'[r] = "WAITING", blockTable'[r] # <<>>
        PROVE  /\ numCached'[r] < Len(tokens'[r])
               /\ Len(blockTable'[r]) = NumBlocks(r)'
    BY <1>a, <1>e, <1>s, <2>3 DEF SInv, ProgressInv
  <2> QED BY <1>a, <2>1, <2>2, <2>3 DEF ProgressInv
<1>6. HoldersInv'
  <2>1. OnlyHeadHoldsBlocks'
    BY <1>a, <1>e, <1>s DEF SInv, HoldersInv, OnlyHeadHoldsBlocks
  <2>2. \A r \in Seqs : blockTable'[r] # <<>> => status'[r] # "FINISHED"
    BY <1>a, <2>1 DEF OnlyHeadHoldsBlocks
  <2> QED BY <1>a, <2>1, <2>2 DEF HoldersInv
<1>7. RestoreInv'
  BY <1>a, <1>h, <1>n DEF SInv, RestoreInv
<1>8. PayloadInv'
  BY <1>a, <1>b, <1>e, <1>s, <1>t, <1>r DEF SInv, PayloadInv
<1>9. FailInv'
  BY <1>a, <1>b DEF FailInv
<1>10. PromptInv'
  BY <1>a, <1>e DEF SInv, PromptInv
<1> QED BY <1>1, <1>2, <1>3, <1>4, <1>5, <1>6, <1>7, <1>8, <1>9, <1>10 DEF SInv

\* The youngest running sequence gives its blocks back.
LEMMA PreemptStep ==
  ASSUME SInv, IInv', CanDecode, NEW s \in Range(running), Preempt(s),
         \A a \in Range(running) : a <= s,
         running' \in Seq(Seqs), Sorted(running'),
         Range(running') = Range(running) \ {s},
         batch = <<>> /\ running' = <<>> => NumBlocks(s) > Cardinality(Blocks)
  PROVE  SInv'
<1>t. /\ STypeOK /\ BMTypeOK /\ QueuesOrdered /\ IInv
      /\ waiting \in Seq(Seqs) /\ running \in Seq(Seqs) /\ batch \in Seq(Seqs)
      /\ Range(waiting) \subseteq Seqs /\ Range(running) \subseteq Seqs
      /\ Range(batch) \subseteq Seqs
      /\ Sorted(waiting) /\ Sorted(running) /\ Sorted(batch)
  BY SInvTypes DEF SInv
<1>a. /\ pc = "decode" /\ running # <<>>
      /\ status' = [status EXCEPT ![s] = "WAITING"]
      /\ isPrefill' = [isPrefill EXCEPT ![s] = TRUE]
      /\ waiting' = <<s>> \o waiting
      /\ UNCHANGED <<numPrompt, scheduled, cpuHandles, batch, budget, prefillStep, pc>>
      /\ Deallocate(s) /\ restorePending' = restorePending
      /\ s \in Seqs
  BY <1>t DEF CanDecode, Preempt, PrefillAfterPreempt, WaitingAfterPreempt,
     Release, stepVars
<1>o. /\ \A a \in Range(batch) : a < s
      /\ \A a \in Range(waiting) : s < a
      /\ s \notin Range(batch)
      /\ \A a \in Range(running') : a < s
  <2>1. /\ \A a \in Range(batch) : a < s
        /\ \A a \in Range(waiting) : s < a
    BY <1>a, <1>t DEF QueuesOrdered, Precedes
  <2>2. ASSUME NEW a \in Range(running') PROVE a < s
    <3>1. a <= s /\ a # s /\ a \in Seqs
      BY <1>t
    <3> QED BY <3>1, <1>a, IdOrder
  <2> QED BY <2>1, <2>2, <1>a, IdOrder
<1>w. /\ waiting' \in Seq(Seqs) /\ waiting' # <<>> /\ Sorted(waiting')
      /\ Head(waiting') = s
      /\ Range(waiting') = Range(waiting) \cup {s}
  BY <1>a, <1>o, <1>t, ConsOrdered
<1>s. status[s] = "RUNNING"
  BY <1>a DEF SInv, StatusInv, Finishing
<1>h. Holds(s, 0, 0) /\ blockTable'[s] = <<>>
  BY <1>a, <1>t, DeallocateEffect
<1>e. /\ tokens' = tokens
      /\ \A r \in Seqs : r # s => blockTable'[r] = blockTable[r]
      /\ \A r \in Seqs : r # s => numCached'[r] = numCached[r]
      /\ \A r \in Seqs : NumBlocks(r)' = NumBlocks(r)
      /\ status'[s] = "WAITING"
      /\ \A r \in Seqs : r # s => status'[r] = status[r]
      /\ isPrefill'[s]
      /\ \A r \in Seqs : r # s => isPrefill'[r] = isPrefill[r]
  BY <1>h, <1>t, <1>a DEF Holds, NumBlocks, BMTypeOK, STypeOK
<1>n. \A r \in Seqs : ~restorePending[r]
  BY <1>a DEF SInv, RestoreInv
<1>1. STypeOK'
  BY <1>t, <1>a, <1>w DEF STypeOK
<1>2. QueuesOrdered'
  <2>1. Precedes(running', waiting')
    BY <1>w, <1>o, <1>t DEF QueuesOrdered, Precedes
  <2>2. Precedes(batch', running') /\ Precedes(batch', waiting')
    BY <1>a, <1>w, <1>o, <1>t DEF QueuesOrdered, Precedes
  <2> QED BY <1>a, <1>w, <1>t, <2>1, <2>2 DEF QueuesOrdered
<1>3. StatusInv'
  <2>1. \A r \in Range(running') : status'[r] = "RUNNING"
    BY <1>a, <1>e, <1>t DEF SInv, StatusInv, Finishing
  <2>2. \A r \in Range(waiting') : status'[r] = "WAITING"
    BY <1>w, <1>e, <1>t DEF SInv, StatusInv
  <2>3. \A r \in Seqs : status'[r] = "WAITING" => r \in Range(waiting')
    BY <1>w, <1>e DEF SInv, StatusInv
  <2>4. \A r \in Seqs : status'[r] = "RUNNING" =>
          r \in Range(running') \/ r \in Range(batch')
    BY <1>a, <1>e DEF SInv, StatusInv
  <2>5. \A r \in Range(batch') : status'[r] = "RUNNING"
    BY <1>a, <1>e, <1>o, <1>t DEF SInv, StatusInv
  <2>6. \A q, r \in Seqs : q < r /\ status'[q] = "NEW" => status'[r] = "NEW"
    BY <1>e, <1>s, <1>a DEF SInv, StatusInv
  <2>7. \A r \in Seqs : status'[r] = "NEW" <=> tokens'[r] = <<>>
    BY <1>e, <1>s, <1>a DEF SInv, StatusInv
  <2> QED BY <1>a, <2>1, <2>2, <2>3, <2>4, <2>5, <2>6, <2>7 DEF StatusInv
<1>4. BatchInv'
  BY <1>a DEF SInv, BatchInv
<1>5. ProgressInv'
  <2>1. ASSUME NEW r \in Range(batch')
        PROVE  /\ Len(blockTable'[r]) = NumBlocks(r)'
               /\ scheduled'[r] > 0
               /\ r \notin Range(waiting')
               /\ numCached'[r] + scheduled'[r] = Len(tokens'[r])
               /\ scheduled'[r] = 1
    <3>1. r \in Range(batch) /\ r \in Seqs /\ r # s
      BY <1>a, <1>o, <1>t, <2>1
    <3>2. r \notin Range(waiting)
      <4>1. \A x \in Range(waiting) : r < x
        BY <3>1, <1>a, <1>t DEF QueuesOrdered, Precedes
      <4> QED BY <3>1, <4>1, IdOrder
    <3>3. ~Done(r) /\ ~prefillStep
      BY <1>a DEF Done, SInv, BatchInv
    <3> QED BY <3>1, <3>2, <3>3, <1>a, <1>e, <1>w DEF SInv, ProgressInv
  <2>2. ASSUME NEW r \in Seqs, status'[r] = "RUNNING", r \notin Range(batch')
        PROVE  /\ numCached'[r] + 1 = Len(tokens'[r])
               /\ Len(blockTable'[r]) = BlocksFor(numCached'[r])
               /\ blockTable'[r] # <<>>
    BY <1>a, <1>e, <2>2 DEF SInv, ProgressInv
  <2>3. ASSUME NEW r \in Seqs, status'[r] = "WAITING", blockTable'[r] # <<>>
        PROVE  /\ numCached'[r] < Len(tokens'[r])
               /\ Len(blockTable'[r]) = NumBlocks(r)'
    BY <1>a, <1>e, <1>h, <2>3 DEF SInv, ProgressInv
  <2> QED BY <1>a, <2>1, <2>2, <2>3 DEF ProgressInv
<1>6. HoldersInv'
  <2>1. \A r \in Seqs : blockTable'[r] # <<>> => status'[r] = "RUNNING"
    BY <1>a, <1>e, <1>h DEF SInv, HoldersInv, OnlyHeadHoldsBlocks
  <2> QED BY <1>a, <2>1 DEF HoldersInv, OnlyHeadHoldsBlocks
<1>7. RestoreInv'
  BY <1>a, <1>n DEF SInv, RestoreInv
<1>8. PayloadInv'
  BY <1>a, <1>o, <1>e, <1>t DEF SInv, PayloadInv
<1>9. FailInv'
  BY <1>a, <1>w, <1>e DEF FailInv, Oversized
<1>10. PromptInv'
  BY <1>a, <1>e, <1>s DEF SInv, PromptInv
<1> QED BY <1>1, <1>2, <1>3, <1>4, <1>5, <1>6, <1>7, <1>8, <1>9, <1>10 DEF SInv

\* Preempting another sequence leaves the head where it is.
LEMMA PreemptOtherStep ==
  ASSUME SInv, IInv', PreemptOther
  PROVE  SInv'
<1> DEFINE s == Victim
<1>t. running \in Seq(Seqs) /\ Sorted(running)
  BY SInvTypes
<1>a. /\ CanDecode /\ Len(running) > 1 /\ running # <<>>
      /\ Preempt(s) /\ running' = RemoveFirst(running, s)
  BY DEF PreemptOther, CanDecode
<1>1. s \in Range(running) /\ \A a \in Range(running) : a <= s
  BY <1>a, <1>t, LastOrdered DEF Victim
<1> HIDE DEF s
<1>2. /\ running' \in Seq(Seqs) /\ Sorted(running')
      /\ Range(running') = Range(running) \ {s}
  BY <1>a, <1>1, <1>t, RemoveOrdered
<1>3. running' # <<>>
  <2>1. /\ Head(running) \in Range(running) /\ Head(running) = running[1]
        /\ running[1] < running[Len(running)] /\ s = running[Len(running)]
        /\ Head(running) \in Seqs /\ running[Len(running)] \in Seqs
    <3>1. Head(running) \in Range(running) /\ Head(running) \in Seqs
      BY <1>a, <1>t, TailOrdered
    <3>2. Len(running) \in Nat /\ 1 \in 1 .. Len(running)
          /\ Len(running) \in 1 .. Len(running) /\ 1 < Len(running)
      BY <1>a, <1>t, LenProperties
    <3>3. running[Len(running)] \in Seqs
      BY <3>2, <1>t, ElementOfSeq
    <3>4. Head(running) = running[1]
      BY <1>a, <1>t, HeadTailProperties
    <3> QED BY <3>1, <3>2, <3>3, <3>4, <1>t DEF Sorted, s, Victim, Last
  <2>2. Head(running) # s
    BY <2>1, IdOrder
  <2>3. Head(running) \in Range(running')
    BY <2>1, <2>2, <1>2
  <2> QED BY <2>3, <1>2, RangeEmpty
<1> QED BY <1>a, <1>1, <1>2, <1>3, PreemptStep

\* A sequence that runs alone and finds no room holds every block, and so one
\* block more than there are is what it needs.
LEMMA AloneIsOversized ==
  ASSUME SInv, PreemptSelf, batch = <<>>
  PROVE  NumBlocks(Head(running)) > Cardinality(Blocks)
<1> DEFINE s == Head(running)
<1>t. /\ STypeOK /\ BMTypeOK /\ IInv /\ running \in Seq(Seqs) /\ Sorted(running)
      /\ free \subseteq Blocks /\ IsFiniteSet(Blocks) /\ IsFiniteSet(free)
      /\ blockTable \in [Seqs -> Seq(Blocks)]
      /\ Cardinality(Blocks) \in Nat /\ Cardinality(free) \in Nat
  BY SInvTypes, FinitenessAssumption, FS_Subset, FS_CardinalityType
  DEF SInv, IInv, BMTypeOK
<1>a. /\ pc = "decode" /\ running # <<>> /\ Len(running) = 1
      /\ ~CanAppend(s)
  BY DEF PreemptSelf, CanDecode
<1>r. s \in Seqs /\ Range(running) = {s}
  <2>1. s \in Seqs /\ s = running[1]
    BY <1>a, <1>t, HeadTailProperties
  <2>2. \A x : x \in Range(running) <=> x = s
    BY <2>1, <1>a, <1>t, RangeIn
  <2> QED BY <2>1, <2>2
<1> HIDE DEF s
<1>b. Range(batch) = {}
  BY DEF Range
<1>1. Cardinality(free) = 0 /\ Len(tokens[s]) % BlockSize = 1
  BY <1>a, <1>t DEF CanAppend
<1>2. free = {}
  BY <1>1, <1>t, FS_EmptySet
<1>3. ASSUME NEW b \in Blocks PROVE b \in Range(blockTable[s])
  <2>1. b \in used
    BY <1>2, <1>t DEF IInv, RefCountsExact
  <2>2. PICK r \in Seqs : b \in Range(blockTable[r])
    BY <2>1, <1>t DEF IInv, RefCountsExact, Owners
  <2>3. blockTable[r] # <<>>
    BY <2>2 DEF Range
  <2>4. status[r] = "RUNNING"
    BY <1>a, <2>3 DEF SInv, HoldersInv, OnlyHeadHoldsBlocks
  <2>5. r \in Range(running)
    BY <2>4, <1>a, <1>b DEF SInv, StatusInv
  <2> QED BY <2>2, <2>5, <1>r
<1>4. Cardinality(Blocks) <= Len(blockTable[s])
  <2> DEFINE q == blockTable[s]
  <2>1. q \in Seq(Blocks) /\ Len(q) \in Nat
    BY <1>r, <1>t, LenProperties
  <2> HIDE DEF q
  <2>2. /\ IsFiniteSet(1 .. Len(q)) /\ Cardinality(1 .. Len(q)) = Len(q)
    <3>1. Cardinality(1 .. Len(q)) = IF 1 > Len(q) THEN 0 ELSE Len(q) - 1 + 1
      BY <2>1, FS_Interval
    <3> QED BY <2>1, <3>1, FS_Interval
  <2>3. q \in Surjection(1 .. Len(q), Blocks)
    <3>1. q \in [1 .. Len(q) -> Blocks]
      BY <2>1
    <3>2. \A b \in Blocks : \E i \in 1 .. Len(q) : q[i] = b
      BY <1>3, <1>r, <1>t, InTable DEF q
    <3> QED BY <3>1, <3>2 DEF Surjection
  <2> QED BY <2>2, <2>3, FS_Surjection DEF q
<1>5. /\ numCached[s] + 1 = Len(tokens[s])
      /\ Len(blockTable[s]) = BlocksFor(numCached[s])
      /\ numCached[s] \in Nat /\ Len(tokens[s]) \in Nat
  <2>1. status[s] = "RUNNING"
    BY <1>a, <1>r DEF SInv, StatusInv, Finishing
  <2> QED BY <2>1, <1>b, <1>r, SInvTypes DEF SInv, ProgressInv
<1>6. NumBlocks(s) = BlocksFor(numCached[s]) + 1 /\ BlocksFor(numCached[s]) \in Nat
  <2>1. NumBlocks(s) = BlocksFor(numCached[s] + 1)
    BY <1>5 DEF NumBlocks, BlocksFor
  <2> QED BY <2>1, <1>1, <1>5, BlocksForFacts
<1> QED BY <1>4, <1>5, <1>6, <1>t DEF s

\* Preempting the head itself.
LEMMA PreemptSelfStep ==
  ASSUME SInv, IInv', PreemptSelf
  PROVE  SInv'
<1> DEFINE s == Head(running)
<1>t. running \in Seq(Seqs) /\ Sorted(running)
  BY SInvTypes
<1>a. /\ CanDecode /\ Len(running) = 1 /\ running # <<>>
      /\ Preempt(s) /\ running' = <<>>
  BY DEF PreemptSelf, CanDecode
<1>1. s \in Seqs /\ Range(running) = {s}
  <2>1. s \in Seqs /\ s = running[1]
    BY <1>a, <1>t, HeadTailProperties
  <2>2. \A x : x \in Range(running) <=> x = s
    BY <2>1, <1>a, <1>t, RangeIn
  <2> QED BY <2>1, <2>2
<1>2. batch = <<>> => NumBlocks(s) > Cardinality(Blocks)
  BY AloneIsOversized
<1> HIDE DEF s
<1>3. running' \in Seq(Seqs) /\ Sorted(running') /\ Range(running') = {}
  BY <1>a, <1>t, RangeEmpty
<1>4. \A a \in Range(running) : a <= s
  BY <1>1, IdsNat
<1> QED BY <1>a, <1>1, <1>2, <1>3, <1>4, PreemptStep

\* The decode loop ends with a batch, which goes back to the front of the line.
LEMMA EndDecodeStep ==
  ASSUME SInv, IInv', EndDecode
  PROVE  SInv'
<1>t. /\ STypeOK /\ BMTypeOK /\ QueuesOrdered
      /\ waiting \in Seq(Seqs) /\ running \in Seq(Seqs) /\ batch \in Seq(Seqs)
      /\ Range(waiting) \subseteq Seqs /\ Range(running) \subseteq Seqs
      /\ Range(batch) \subseteq Seqs
      /\ Sorted(waiting) /\ Sorted(running) /\ Sorted(batch)
  BY SInvTypes
<1>a. /\ pc = "decode" /\ pc' = "dispatch" /\ batch # <<>>
      /\ running' = batch \o running
      /\ UNCHANGED <<tokens, numCached, blockTable, restorePending, status, numPrompt,
                     scheduled, isPrefill, cpuHandles, waiting>>
      /\ UNCHANGED <<batch, budget, prefillStep>>
      /\ ~prefillStep
  BY DEF EndDecode, Requeued, bmVars, seqVars, SInv, BatchInv
<1>r. /\ running' \in Seq(Seqs) /\ Sorted(running')
      /\ Range(running') = Range(batch) \cup Range(running)
  BY <1>a, <1>t, ConcatOrdered DEF QueuesOrdered
<1>n. \A r \in Seqs : NumBlocks(r)' = NumBlocks(r)
  BY <1>a DEF NumBlocks
<1>1. STypeOK'
  BY <1>t, <1>a, <1>r DEF STypeOK, PCs
<1>2. QueuesOrdered'
  <2>1. Precedes(running', waiting')
    BY <1>a, <1>r, <1>t DEF QueuesOrdered, Precedes
  <2> QED BY <1>a, <1>r, <1>t, <2>1 DEF QueuesOrdered
<1>3. StatusInv'
  BY <1>a, <1>r DEF SInv, StatusInv, Finishing
<1>4. BatchInv'
  BY <1>a, <1>r DEF SInv, BatchInv
<1>5. ProgressInv'
  <2>1. \A r : ~Done(r)
    BY <1>a DEF Done
  <2> QED BY <1>a, <1>n, <1>t, <2>1 DEF SInv, ProgressInv
<1>6. HoldersInv'
  <2>1. \A r \in Seqs : blockTable[r] # <<>> => status[r] = "RUNNING"
    BY <1>a DEF SInv, HoldersInv, OnlyHeadHoldsBlocks
  <2>2. \A r \in Range(waiting) : status[r] = "WAITING"
    BY DEF SInv, StatusInv
  <2> QED BY <1>a, <1>t, <2>1, <2>2 DEF HoldersInv, OnlyHeadHoldsBlocks
<1>7. RestoreInv'
  BY <1>a DEF SInv, RestoreInv
<1>8. PayloadInv'
  BY <1>a DEF SInv, PayloadInv
<1>9. FailInv'
  BY <1>a DEF FailInv
<1>10. PromptInv'
  BY <1>a DEF SInv, PromptInv
<1> QED BY <1>1, <1>2, <1>3, <1>4, <1>5, <1>6, <1>7, <1>8, <1>9, <1>10 DEF SInv

\* The assertion of schedule() fails: nobody runs and the head does not fit.
LEMMA NothingScheduledStep ==
  ASSUME SInv, IInv', NothingScheduled
  PROVE  SInv'
<1>t. running \in Seq(Seqs) /\ batch \in Seq(Seqs)
  BY SInvTypes
<1>a. /\ pc = "decode" /\ pc' = "failed" /\ batch = <<>> /\ ~CanDecode
      /\ UNCHANGED <<batch, budget, prefillStep>>
      /\ UNCHANGED <<restVars, restorePending>>
  BY DEF NothingScheduled, restVars, bmVars
<1>u. /\ UNCHANGED <<tokens, numCached, blockTable, restorePending, status, numPrompt,
                     scheduled, isPrefill, cpuHandles, waiting, running>>
      /\ \A r \in Seqs : NumBlocks(r)' = NumBlocks(r)
      /\ Oversized' <=> Oversized
      /\ PromptInv'
  BY <1>a, RestSame DEF SInv
<1>e. /\ Range(batch') = {} /\ Range(batch) = {} /\ running = <<>> /\ Oversized
  <2>1. Range(batch) = {} /\ Len(batch) = 0
    BY <1>a, <1>t, RangeEmpty
  <2>2. running = <<>>
    BY <1>a, <2>1, SchedulerAssumption DEF CanDecode
  <2> QED BY <1>a, <2>1, <2>2 DEF SInv, FailInv
<1>1. STypeOK' /\ QueuesOrdered'
  BY <1>a, <1>u DEF SInv, STypeOK, QueuesOrdered, PCs
<1>2. StatusInv'
  BY <1>a, <1>u, <1>e DEF SInv, StatusInv, Finishing
<1>3. BatchInv'
  BY <1>a DEF BatchInv
<1>4. ProgressInv'
  BY <1>a, <1>u, <1>e DEF SInv, ProgressInv, Done
<1>5. HoldersInv' /\ RestoreInv'
  BY <1>a, <1>u DEF SInv, HoldersInv, OnlyHeadHoldsBlocks, RestoreInv, Finishing
<1>6. PayloadInv' /\ FailInv'
  BY <1>a, <1>u, <1>e DEF SInv, PayloadInv, FailInv
<1> QED BY <1>u, <1>1, <1>2, <1>3, <1>4, <1>5, <1>6 DEF SInv

-----------------------------------------------------------------------------
(* The outcome of a restore *)

\* A restore is confirmed: it is pending no more.
LEMMA ConfirmCpuRestoreStep ==
  ASSUME SInv, IInv', ConfirmCpuRestore
  PROVE  SInv'
<1>1. PICK s \in Pending : ConfirmRestore(s)
  BY DEF ConfirmCpuRestore
<1>2. restorePending' = [restorePending EXCEPT ![s] = FALSE]
      /\ UNCHANGED <<tokens, numCached, blockTable>>
  BY <1>1 DEF ConfirmRestore
<1>3. \A r \in Seqs : restorePending'[r] => restorePending[r]
  BY <1>2, SInvTypes DEF BMTypeOK
<1>4. UNCHANGED restVars /\ UNCHANGED stepVars
  BY <1>2 DEF ConfirmCpuRestore, restVars
<1> QED BY <1>3, <1>4, SameStep

\* A restore has failed: the sequence is at the head of the waiting queue, and
\* step() starts over.
LEMMA RollbackCpuRestoreStep ==
  ASSUME SInv, IInv', RollbackCpuRestore
  PROVE  SInv'
<1>1. PICK s \in Pending :
        /\ RollbackRestore(s)
        /\ status' = [status EXCEPT ![s] = "WAITING"]
        /\ isPrefill' = [isPrefill EXCEPT ![s] = TRUE]
        /\ scheduled' = [scheduled EXCEPT ![s] = 0]
        /\ cpuHandles' = [cpuHandles EXCEPT ![s] = 0]
        /\ running' = RemoveFirst(running, s)
        /\ waiting' = IF s \in Range(waiting) THEN waiting ELSE <<s>> \o waiting
  BY DEF RollbackCpuRestore, HandlesAfterRollback, RunningAfterRollback,
     WaitingAfterRollback
<1>t. /\ STypeOK /\ BMTypeOK /\ QueuesOrdered /\ IInv
      /\ waiting \in Seq(Seqs) /\ running \in Seq(Seqs) /\ batch \in Seq(Seqs)
      /\ Range(waiting) \subseteq Seqs /\ Range(running) \subseteq Seqs
      /\ Range(batch) \subseteq Seqs
      /\ Sorted(waiting) /\ Sorted(running) /\ Sorted(batch)
  BY SInvTypes DEF SInv
<1>a. /\ pc = "dispatch" /\ pc' = "prefill" /\ batch' = <<>>
      /\ budget' = MaxNumBatchedTokens
      /\ UNCHANGED <<numPrompt, prefillStep>>
  BY DEF RollbackCpuRestore
<1>b. /\ restorePending[s] /\ s \in Seqs /\ s \in Range(batch)
      /\ Deallocate(s) /\ restorePending' = [restorePending EXCEPT ![s] = FALSE]
  BY <1>1, <1>t DEF Pending, RollbackRestore
<1>p. /\ batch = <<s>> /\ Range(batch) = {s} /\ prefillStep
      /\ \A r \in Range(running) : r <= s
      /\ \A r \in Seqs : restorePending[r] => r = s
  <2>1. /\ batch = <<s>> /\ prefillStep
        /\ \A r \in Range(running) : r <= s
    BY <1>a, <1>b DEF SInv, RestoreInv
  <2>2. Range(batch) = {s}
    BY <2>1 DEF Range
  <2>3. ASSUME NEW r \in Seqs, restorePending[r] PROVE r = s
    <3>1. batch = <<r>>
      BY <2>3 DEF SInv, RestoreInv
    <3> QED BY <2>1, <3>1
  <2> QED BY <2>1, <2>2, <2>3
<1>s. status[s] = "WAITING" \/ status[s] = "RUNNING"
  <2>1. s \in Range(running) \/ s \in Range(waiting)
    BY <1>a, <1>b, <1>t, TailOrdered DEF SInv, BatchInv, HeadOf
  <2> QED BY <2>1, <1>a DEF SInv, StatusInv, Finishing
<1>r. /\ running' \in Seq(Seqs) /\ Sorted(running')
      /\ Range(running') = Range(running) \ {s}
  <2>1. CASE s \in Range(running)
    BY <2>1, <1>1, <1>t, RemoveOrdered
  <2>2. CASE s \notin Range(running)
    <3>1. running' = running
      BY <2>2, <1>1, <1>t, RangeIn DEF RemoveFirst
    <3> QED BY <2>2, <3>1, <1>t
  <2> QED BY <2>1, <2>2
<1>w. /\ waiting' \in Seq(Seqs) /\ Sorted(waiting') /\ waiting' # <<>>
      /\ Head(waiting') = s
      /\ Range(waiting') = Range(waiting) \cup {s}
  <2>1. CASE s \in Range(running)
    <3>1. \A a \in Range(waiting) : s < a
      BY <2>1, <1>t DEF QueuesOrdered, Precedes
    <3>2. s \notin Range(waiting)
      BY <3>1, <1>b, IdOrder
    <3> QED BY <3>1, <3>2, <1>1, <1>b, <1>t, ConsOrdered
  <2>2. CASE s \notin Range(running)
    <3>1. waiting # <<>> /\ s = Head(waiting)
      BY <2>2, <1>a, <1>b DEF SInv, BatchInv, HeadOf
    <3>2. s \in Range(waiting)
      BY <3>1, <1>t, TailOrdered
    <3> QED BY <3>1, <3>2, <1>1, <1>t
  <2> QED BY <2>1, <2>2
<1>h. Holds(s, 0, 0) /\ blockTable'[s] = <<>>
  BY <1>b, <1>t, DeallocateEffect
<1>e. /\ tokens' = tokens
      /\ \A r \in Seqs : r # s => blockTable'[r] = blockTable[r]
      /\ \A r \in Seqs : r # s => numCached'[r] = numCached[r]
      /\ \A r \in Seqs : NumBlocks(r)' = NumBlocks(r)
      /\ status'[s] = "WAITING"
      /\ \A r \in Seqs : r # s => status'[r] = status[r]
      /\ isPrefill'[s]
      /\ \A r \in Seqs : r # s => isPrefill'[r] = isPrefill[r]
      /\ cpuHandles'[s] = 0
      /\ \A r \in Seqs : r # s => cpuHandles'[r] = cpuHandles[r]
      /\ \A r \in Seqs : ~restorePending'[r]
  <2>1. \A r \in Seqs : ~restorePending'[r]
    BY <1>b, <1>p, <1>t DEF BMTypeOK
  <2> QED BY <1>1, <1>b, <1>h, <1>t, <2>1 DEF Holds, NumBlocks, BMTypeOK, STypeOK
<1>c. Range(batch') = {} /\ Sorted(batch') /\ batch' \in Seq(Seqs) /\ Len(batch') = 0
  BY <1>a, <1>t, RangeEmpty
<1>o. \A r \in Seqs : blockTable'[r] # <<>> => r # s /\ status[r] = "RUNNING"
  <2>1. ASSUME NEW r \in Seqs, blockTable'[r] # <<>>
        PROVE  r # s /\ status[r] = "RUNNING"
    <3>1. r # s /\ blockTable[r] # <<>>
      BY <2>1, <1>e, <1>h
    <3>2. status[r] = "WAITING" => r \in Range(waiting)
      BY DEF SInv, StatusInv
    <3> QED BY <3>1, <3>2, <1>a, <1>p DEF SInv, HoldersInv, OnlyHeadHoldsBlocks
  <2> QED BY <2>1
<1>1a. STypeOK'
  BY <1>1, <1>t, <1>a, <1>b, <1>c, <1>r, <1>w, SchedulerAssumption DEF STypeOK, PCs
<1>2. QueuesOrdered'
  <2>1. ASSUME NEW a \in Range(running'), NEW b \in Range(waiting') PROVE a < b
    <3>1. a \in Seqs /\ a \in Range(running) /\ a <= s /\ a # s
      BY <1>r, <1>p, <1>t
    <3>2. CASE b = s
      BY <3>1, <3>2, <1>b, IdOrder
    <3>3. CASE b # s
      BY <3>1, <3>3, <1>w, <1>t DEF QueuesOrdered, Precedes
    <3> QED BY <3>2, <3>3
  <2>2. Precedes(running', waiting')
    BY <2>1 DEF Precedes
  <2> QED BY <1>a, <1>c, <1>r, <1>w, <2>2 DEF QueuesOrdered
<1>3. StatusInv'
  <2>1. \A r \in Range(running') : status'[r] = "RUNNING"
    BY <1>a, <1>e, <1>r, <1>t DEF SInv, StatusInv, Finishing
  <2>2. \A r \in Range(waiting') : status'[r] = "WAITING"
    BY <1>w, <1>e, <1>t DEF SInv, StatusInv
  <2>3. \A r \in Seqs : status'[r] = "WAITING" => r \in Range(waiting')
    BY <1>w, <1>e DEF SInv, StatusInv
  <2>4. \A r \in Seqs : status'[r] = "RUNNING" => r \in Range(running')
    BY <1>a, <1>e, <1>r DEF SInv, StatusInv
  <2>6. \A q, r \in Seqs : q < r /\ status'[q] = "NEW" => status'[r] = "NEW"
    BY <1>e, <1>s, <1>b DEF SInv, StatusInv
  <2>7. \A r \in Seqs : status'[r] = "NEW" <=> tokens'[r] = <<>>
    BY <1>e, <1>s, <1>b DEF SInv, StatusInv
  <2> QED BY <1>a, <2>1, <2>2, <2>3, <2>4, <2>6, <2>7 DEF StatusInv
<1>4. BatchInv'
  BY <1>a, <1>c, SchedulerAssumption DEF BatchInv
<1>5. ProgressInv'
  <2>1. ASSUME NEW r \in Seqs, status'[r] = "RUNNING"
        PROVE  /\ numCached'[r] + 1 = Len(tokens'[r])
               /\ Len(blockTable'[r]) = BlocksFor(numCached'[r])
               /\ blockTable'[r] # <<>>
    BY <1>e, <1>p, <2>1 DEF SInv, ProgressInv
  <2>2. \A r \in Seqs : status'[r] = "WAITING" => blockTable'[r] = <<>>
    BY <1>e, <1>o, <1>h
  <2> QED BY <1>a, <1>c, <2>1, <2>2 DEF ProgressInv
<1>6. HoldersInv'
  <2>1. \A r \in Seqs : blockTable'[r] # <<>> => status'[r] = "RUNNING"
    BY <1>e, <1>o
  <2> QED BY <1>a, <2>1 DEF HoldersInv, OnlyHeadHoldsBlocks
<1>7. RestoreInv'
  <2>1. \A r \in Seqs : cpuHandles'[r] > 0 => CpuCache
    <3>1. ~ (0 > 0)
      OBVIOUS
    <3> QED BY <1>e, <3>1 DEF SInv, RestoreInv
  <2> QED BY <1>e, <2>1 DEF RestoreInv
<1>8. PayloadInv'
  BY <1>a, <1>c, <1>e DEF SInv, PayloadInv
<1>9. FailInv'
  BY <1>a, <1>w DEF FailInv
<1>10. PromptInv'
  BY <1>a, <1>e, <1>s, <1>b DEF SInv, PromptInv
<1> QED BY <1>1a, <1>2, <1>3, <1>4, <1>5, <1>6, <1>7, <1>8, <1>9, <1>10 DEF SInv

-----------------------------------------------------------------------------
(* postprocess() *)

\* hash_blocks and the advance of the cached count.
LEMMA HashStep ==
  ASSUME SInv, IInv', Hash
  PROVE  SInv'
<1> DEFINE s == Head(batch)
           n == scheduled[s]
<1>t. /\ STypeOK /\ BMTypeOK /\ QueuesOrdered
      /\ waiting \in Seq(Seqs) /\ running \in Seq(Seqs) /\ batch \in Seq(Seqs)
      /\ Range(waiting) \subseteq Seqs /\ Range(running) \subseteq Seqs
      /\ Range(batch) \subseteq Seqs
      /\ Sorted(waiting) /\ Sorted(running) /\ Sorted(batch)
      /\ \A r \in Seqs : Len(tokens[r]) \in Nat /\ numCached[r] \in Nat
  BY SInvTypes
<1>a. /\ pc = "post" /\ batch # <<>>
      /\ HashBlocks(s, n)
      /\ scheduled' = [scheduled EXCEPT ![s] = 0]
      /\ IF prefillStep /\ numCached'[s] < Len(tokens[s])
         THEN batch' = Tail(batch) /\ pc' = "post"
         ELSE pc' = "append" /\ batch' = batch
      /\ UNCHANGED <<status, numPrompt, isPrefill, cpuHandles, waiting, running,
                     budget, prefillStep>>
  BY DEF Hash, queueVars
<1>b. /\ s \in Seqs /\ s \in Range(batch)
      /\ Tail(batch) \in Seq(Seqs) /\ Sorted(Tail(batch))
      /\ Range(Tail(batch)) = Range(batch) \ {s}
  BY <1>a, <1>t, TailOrdered
<1>q. \A r \in Seqs : r = Head(batch) <=> r = s
  OBVIOUS
<1> HIDE DEF s
<1>e. /\ numCached' = [numCached EXCEPT ![s] = @ + n]
      /\ UNCHANGED <<tokens, blockTable, restorePending>>
      /\ \A r \in Seqs : NumBlocks(r)' = NumBlocks(r)
      /\ n \in Nat /\ numCached'[s] = numCached[s] + n
      /\ \A r \in Seqs : r # s => numCached'[r] = numCached[r]
      /\ \A r \in Seqs : r # s => scheduled'[r] = scheduled[r]
  BY <1>a, <1>b, <1>t DEF HashBlocks, NumBlocks, BMTypeOK, STypeOK
<1>p. /\ Len(blockTable[s]) = NumBlocks(s)
      /\ IF s \in Range(waiting)
         THEN numCached'[s] < Len(tokens[s])
         ELSE numCached'[s] = Len(tokens[s])
  BY <1>a, <1>b, <1>e DEF SInv, ProgressInv, Done
<1>s. /\ \A r \in Range(running) : status[r] = "RUNNING"
      /\ \A r \in Range(waiting) : status[r] = "WAITING"
      /\ s \in Range(running) \/ prefillStep
      /\ s \in Range(running) \/ s \in Range(waiting)
      /\ s \in Range(running) => s \notin Range(waiting)
  <2>1. /\ \A r \in Range(running) : status[r] = "RUNNING"
        /\ \A r \in Range(waiting) : status[r] = "WAITING"
    BY <1>a DEF SInv, StatusInv, Finishing
  <2>2. s \in Range(running) \/ (prefillStep /\ waiting # <<>> /\ s = Head(waiting))
    BY <1>a, <1>b DEF SInv, BatchInv, HeadOf
  <2> QED BY <2>1, <2>2, <1>t, TailOrdered
<1>m. \/ /\ s \in Range(waiting) /\ numCached'[s] < Len(tokens[s])
         /\ batch' = Tail(batch) /\ pc' = "post"
      \/ /\ s \in Range(running) /\ s \notin Range(waiting)
         /\ numCached'[s] = Len(tokens[s])
         /\ batch' = batch /\ pc' = "append"
  <2>1. CASE s \in Range(waiting)
    BY <2>1, <1>a, <1>p, <1>s
  <2>2. CASE s \notin Range(waiting)
    <3>1. ~ (numCached'[s] < Len(tokens[s]))
      BY <2>2, <1>b, <1>p, <1>t
    <3> QED BY <2>2, <3>1, <1>a, <1>p, <1>s
  <2> QED BY <2>1, <2>2
<1>c. /\ batch' \in Seq(Seqs) /\ Sorted(batch') /\ Range(batch') \subseteq Range(batch)
      /\ \A r \in Range(batch) : r # s => r \in Range(batch')
      /\ pc' \in {"post", "append"}
  BY <1>m, <1>b, <1>t
<1>n. \A r \in Seqs : ~restorePending[r]
  BY <1>a DEF SInv, RestoreInv
<1>1. STypeOK'
  BY <1>t, <1>a, <1>c DEF STypeOK, PCs
<1>2. QueuesOrdered'
  BY <1>a, <1>c, <1>t DEF QueuesOrdered
<1>3. StatusInv'
  BY <1>a, <1>c, <1>e DEF SInv, StatusInv, Finishing
<1>4. BatchInv'
  <2>1. \A r \in Range(batch') : r \in Range(running') \/ (prefillStep' /\ HeadOf(r)')
    BY <1>a, <1>c DEF SInv, BatchInv, HeadOf
  <2>2. pc' = "append" => batch' # <<>> /\ Head(batch') \in Range(running')
    BY <1>a, <1>m, <1>b DEF s
  <2> QED BY <1>c, <2>1, <2>2 DEF BatchInv
<1>5. ProgressInv'
  <2>1. ASSUME NEW r \in Range(batch'), r # s
        PROVE  /\ Len(blockTable'[r]) = NumBlocks(r)'
               /\ scheduled'[r] > 0
               /\ IF r \in Range(waiting')
                  THEN numCached'[r] + scheduled'[r] < Len(tokens'[r])
                  ELSE numCached'[r] + scheduled'[r] = Len(tokens'[r])
               /\ ~prefillStep' => scheduled'[r] = 1
    <3>1. r \in Range(batch) /\ r \in Seqs /\ ~Done(r)
      BY <2>1, <1>a, <1>c, <1>t DEF Done
    <3> QED BY <2>1, <3>1, <1>a, <1>e DEF SInv, ProgressInv
  <2>2. \A r \in Range(batch') : r = s => Done(r)'
    BY <1>m, <1>b DEF Done, s
  <2>3. \A r \in Seqs : pc' = "append" /\ r = Head(batch') =>
          numCached'[r] = Len(tokens'[r]) /\ Len(blockTable'[r]) = NumBlocks(r)'
    BY <1>m, <1>e, <1>p, <1>b DEF s
  <2>4. ASSUME NEW r \in Seqs, status'[r] = "RUNNING", r \notin Range(batch')
        PROVE  /\ numCached'[r] + 1 = Len(tokens'[r])
               /\ Len(blockTable'[r]) = BlocksFor(numCached'[r])
               /\ blockTable'[r] # <<>>
    <3>1. r # s /\ r \notin Range(batch)
      BY <2>4, <1>a, <1>b, <1>c, <1>m, <1>s
    <3> QED BY <2>4, <3>1, <1>a, <1>e DEF SInv, ProgressInv
  <2>5. ASSUME NEW r \in Seqs, status'[r] = "WAITING", blockTable'[r] # <<>>
        PROVE  numCached'[r] < Len(tokens'[r]) /\ Len(blockTable'[r]) = NumBlocks(r)'
    <3>1. CASE r = s
      BY <3>1, <2>5, <1>a, <1>e, <1>m, <1>p, <1>s
    <3>2. CASE r # s
      BY <3>2, <2>5, <1>a, <1>e DEF SInv, ProgressInv
    <3> QED BY <3>1, <3>2
  <2> QED BY <2>1, <2>2, <2>3, <2>4, <2>5 DEF ProgressInv
<1>6. HoldersInv'
  <2>1. \A r \in Seqs : blockTable'[r] # <<>> /\ status'[r] = "FINISHED" => FALSE
    BY <1>a, <1>e DEF SInv, HoldersInv, Finishing
  <2>2. OnlyHeadHoldsBlocks'
    BY <1>a, <1>c, <1>e DEF SInv, HoldersInv, OnlyHeadHoldsBlocks
  <2> QED BY <1>c, <2>1, <2>2 DEF HoldersInv
<1>7. RestoreInv'
  BY <1>a, <1>e, <1>n DEF SInv, RestoreInv
<1>8. PayloadInv'
  BY <1>a, <1>c DEF SInv, PayloadInv
<1>9. FailInv'
  BY <1>c DEF FailInv
<1>10. PromptInv'
  BY <1>a, <1>e DEF SInv, PromptInv
<1> QED BY <1>1, <1>2, <1>3, <1>4, <1>5, <1>6, <1>7, <1>8, <1>9, <1>10 DEF SInv

\* append_token, and the end of the completion if it is the last one.
LEMMA SampleStep ==
  ASSUME SInv, IInv', Sample
  PROVE  SInv'
<1> DEFINE s == Head(batch)
<1>t. /\ STypeOK /\ BMTypeOK /\ QueuesOrdered
      /\ waiting \in Seq(Seqs) /\ running \in Seq(Seqs) /\ batch \in Seq(Seqs)
      /\ Range(waiting) \subseteq Seqs /\ Range(running) \subseteq Seqs
      /\ Range(batch) \subseteq Seqs
      /\ Sorted(waiting) /\ Sorted(running) /\ Sorted(batch)
      /\ \A r \in Seqs : Len(tokens[r]) \in Nat /\ numCached[r] \in Nat
  BY SInvTypes
<1>1. PICK t \in Token :
        /\ AppendToken(s, t)
        /\ IF IsLast(s, t)
           THEN /\ status' = [status EXCEPT ![s] = "FINISHED"]
                /\ pc' = "finish" /\ batch' = batch
           ELSE /\ pc' = "post" /\ batch' = Tail(batch)
                /\ status' = status
  BY DEF Sample
<1>a. /\ pc = "append" /\ batch # <<>> /\ s \in Range(running)
      /\ UNCHANGED <<numPrompt, scheduled, isPrefill, cpuHandles, waiting, running,
                     budget, prefillStep>>
  BY DEF Sample, queueVars, SInv, BatchInv
<1>b. /\ s \in Seqs /\ s \in Range(batch)
      /\ Tail(batch) \in Seq(Seqs) /\ Sorted(Tail(batch))
      /\ Range(Tail(batch)) = Range(batch) \ {s}
  BY <1>a, <1>t, TailOrdered
<1>p. numCached[s] = Len(tokens[s]) /\ Len(blockTable[s]) = NumBlocks(s)
  BY <1>a, <1>b DEF SInv, ProgressInv
<1>d. \A r \in Seqs : Done(r) <=> r = s
  BY <1>a DEF Done
<1>x. /\ s \in Range(batch') => s = Head(batch') /\ batch' # <<>> /\ pc' = "finish"
      /\ pc' = "finish" => s = Head(batch') /\ batch' = batch
  BY <1>1, <1>a, <1>b
<1> HIDE DEF s
<1>e. /\ UNCHANGED <<numCached, blockTable, restorePending>>
      /\ \A r \in Seqs : r # s => tokens'[r] = tokens[r] /\ NumBlocks(r)' = NumBlocks(r)
      /\ tokens'[s] # <<>> /\ Len(tokens'[s]) = Len(tokens[s]) + 1
      /\ blockTable[s] # <<>>
  <2>1. /\ UNCHANGED <<numCached, blockTable, restorePending>>
        /\ tokens' = [tokens EXCEPT ![s] = Append(tokens[s], t)]
        /\ blockTable[s] # <<>>
    BY <1>1 DEF AppendToken, allocVars
  <2>2. \A r \in Seqs : r # s => tokens'[r] = tokens[r]
    BY <2>1, <1>t DEF BMTypeOK
  <2>3. tokens'[s] = Append(tokens[s], t) /\ tokens[s] \in Seq(Token)
    BY <2>1, <1>b, <1>t DEF BMTypeOK
  <2>4. tokens'[s] # <<>> /\ Len(tokens'[s]) = Len(tokens[s]) + 1
    BY <2>3, AppendProperties
  <2> QED BY <2>1, <2>2, <2>4 DEF NumBlocks
<1>m. \/ /\ status'[s] = "FINISHED" /\ status' = [status EXCEPT ![s] = "FINISHED"]
         /\ pc' = "finish" /\ batch' = batch
      \/ status' = status /\ pc' = "post" /\ batch' = Tail(batch)
  BY <1>1, <1>b, <1>t DEF STypeOK
<1>s. /\ status[s] = "RUNNING"
      /\ \A r \in Range(running) : status[r] = "RUNNING"
      /\ \A r \in Range(waiting) : status[r] = "WAITING"
      /\ s \notin Range(waiting)
      /\ \A r \in Seqs : r # s => status'[r] = status[r]
  <2>1. /\ \A r \in Range(running) : status[r] = "RUNNING"
        /\ \A r \in Range(waiting) : status[r] = "WAITING"
    BY <1>a DEF SInv, StatusInv, Finishing
  <2> QED BY <2>1, <1>a, <1>m, <1>t DEF STypeOK
<1>c. /\ batch' \in Seq(Seqs) /\ Sorted(batch') /\ Range(batch') \subseteq Range(batch)
      /\ \A r \in Range(batch) : r # s => r \in Range(batch')
      /\ pc' \in {"post", "finish"}
  BY <1>m, <1>b, <1>t
<1>n. \A r \in Seqs : ~restorePending[r]
  BY <1>a DEF SInv, RestoreInv
<1>1a. STypeOK'
  BY <1>t, <1>a, <1>c, <1>m DEF STypeOK, PCs
<1>2. QueuesOrdered'
  BY <1>a, <1>c, <1>t DEF QueuesOrdered
<1>3. StatusInv'
  <2>1. \A r \in Range(waiting') : status'[r] = "WAITING"
    BY <1>a, <1>s, <1>t
  <2>2. \A r \in Range(running') : status'[r] = "RUNNING" \/ Finishing(r)'
    <3>1. \A r : r = s => status'[r] = "RUNNING" \/ Finishing(r)'
      BY <1>m, <1>s, <1>x DEF Finishing
    <3> QED BY <3>1, <1>a, <1>s, <1>t
  <2>3. \A r \in Seqs : status'[r] = "WAITING" => r \in Range(waiting')
    BY <1>a, <1>m, <1>s DEF SInv, StatusInv
  <2>4. \A r \in Seqs : status'[r] = "RUNNING" => r \in Range(running')
    BY <1>a, <1>s DEF SInv, StatusInv
  <2>5. pc' = "finish" => status'[Head(batch')] = "FINISHED" /\ Head(batch') \in Range(running')
    BY <1>a, <1>m, <1>x
  <2>6. \A q, r \in Seqs : q < r /\ status'[q] = "NEW" => status'[r] = "NEW"
    <3>1. status'[s] # "NEW"
      BY <1>m, <1>s
    <3> QED BY <3>1, <1>s, <1>b DEF SInv, StatusInv
  <2>7. \A r \in Seqs : status'[r] = "NEW" <=> tokens'[r] = <<>>
    <3>1. status'[s] # "NEW"
      BY <1>m, <1>s
    <3> QED BY <3>1, <1>s, <1>e DEF SInv, StatusInv
  <2> QED BY <1>c, <2>1, <2>2, <2>3, <2>4, <2>5, <2>6, <2>7 DEF StatusInv
<1>4. BatchInv'
  <2>1. \A r \in Range(batch') : r \in Range(running') \/ (prefillStep' /\ HeadOf(r)')
    BY <1>a, <1>c DEF SInv, BatchInv, HeadOf
  <2>2. pc' = "finish" => batch' # <<>> /\ Head(batch') \in Range(running')
    BY <1>a, <1>x
  <2> QED BY <1>c, <2>1, <2>2 DEF BatchInv
<1>5. ProgressInv'
  <2>1. ASSUME NEW r \in Range(batch'), r # s
        PROVE  /\ Len(blockTable'[r]) = NumBlocks(r)'
               /\ scheduled'[r] > 0
               /\ IF r \in Range(waiting')
                  THEN numCached'[r] + scheduled'[r] < Len(tokens'[r])
                  ELSE numCached'[r] + scheduled'[r] = Len(tokens'[r])
               /\ ~prefillStep' => scheduled'[r] = 1
    <3>1. r \in Range(batch) /\ r \in Seqs /\ ~Done(r)
      BY <2>1, <1>d, <1>c, <1>t
    <3> QED BY <2>1, <3>1, <1>a, <1>e DEF SInv, ProgressInv
  <2>2. \A r \in Range(batch') : r = s => Done(r)'
    BY <1>x DEF Done
  <2>4. ASSUME NEW r \in Seqs, status'[r] = "RUNNING", r \notin Range(batch')
        PROVE  /\ numCached'[r] + 1 = Len(tokens'[r])
               /\ Len(blockTable'[r]) = BlocksFor(numCached'[r])
               /\ blockTable'[r] # <<>>
    <3>1. CASE r = s
      <4>1. NumBlocks(s) = BlocksFor(numCached[s])
        BY <1>p DEF NumBlocks, BlocksFor
      <4> QED BY <3>1, <4>1, <1>e, <1>p
    <3>2. CASE r # s
      BY <3>2, <2>4, <1>c, <1>e, <1>s DEF SInv, ProgressInv
    <3> QED BY <3>1, <3>2
  <2>5. ASSUME NEW r \in Seqs, status'[r] = "WAITING", blockTable'[r] # <<>>
        PROVE  numCached'[r] < Len(tokens'[r]) /\ Len(blockTable'[r]) = NumBlocks(r)'
    <3>1. r # s
      BY <2>5, <1>m, <1>s
    <3> QED BY <3>1, <2>5, <1>s, <1>e DEF SInv, ProgressInv
  <2> QED BY <1>c, <2>1, <2>2, <2>4, <2>5 DEF ProgressInv
<1>6. HoldersInv'
  <2>1. \A r \in Seqs : blockTable'[r] # <<>> /\ status'[r] = "FINISHED" => Finishing(r)'
    <3>1. \A r \in Seqs : blockTable[r] # <<>> => status[r] # "FINISHED"
      BY <1>a DEF SInv, HoldersInv, Finishing
    <3> QED BY <3>1, <1>e, <1>m, <1>s, <1>x DEF Finishing
  <2>2. OnlyHeadHoldsBlocks'
    <3>1. status'[s] = "RUNNING" \/ (status'[s] = "FINISHED" /\ pc' = "finish")
      BY <1>m, <1>s
    <3>2. \A r \in Seqs : blockTable[r] # <<>> =>
            \/ status[r] = "RUNNING"
            \/ status[r] = "WAITING" /\ waiting # <<>> /\ r = Head(waiting)
      BY <1>a DEF SInv, HoldersInv, OnlyHeadHoldsBlocks
    <3> QED BY <3>1, <3>2, <1>a, <1>c, <1>e, <1>s DEF OnlyHeadHoldsBlocks
  <2> QED BY <1>c, <2>1, <2>2 DEF HoldersInv
<1>7. RestoreInv'
  BY <1>a, <1>e, <1>n DEF SInv, RestoreInv
<1>8. PayloadInv'
  BY <1>a, <1>c, <1>m, <1>s DEF SInv, PayloadInv
<1>9. FailInv'
  BY <1>c DEF FailInv
<1>10. PromptInv'
  <2>1. numPrompt \in [Seqs -> Nat] /\ numPrompt' = numPrompt
    BY <1>a, <1>t DEF STypeOK
  <2>2. numPrompt[s] <= Len(tokens'[s])
    BY <2>1, <1>e, <1>b, <1>t DEF SInv, PromptInv
  <2>3. status'[s] # "NEW" /\ numPrompt[s] # 0
    BY <1>b, <1>m, <1>s DEF SInv, PromptInv
  <2> QED BY <2>1, <2>2, <2>3, <1>e, <1>s DEF SInv, PromptInv
<1> QED BY <1>1a, <1>2, <1>3, <1>4, <1>5, <1>6, <1>7, <1>8, <1>9, <1>10 DEF SInv

\* The end of a request.
LEMMA FinishStep ==
  ASSUME SInv, IInv', Finish
  PROVE  SInv'
<1> DEFINE s == Head(batch)
<1>t. /\ STypeOK /\ BMTypeOK /\ QueuesOrdered /\ IInv
      /\ waiting \in Seq(Seqs) /\ running \in Seq(Seqs) /\ batch \in Seq(Seqs)
      /\ Range(waiting) \subseteq Seqs /\ Range(running) \subseteq Seqs
      /\ Range(batch) \subseteq Seqs
      /\ Sorted(waiting) /\ Sorted(running) /\ Sorted(batch)
  BY SInvTypes DEF SInv
<1>a. /\ pc = "finish" /\ pc' = "post" /\ batch # <<>> /\ s \in Range(running)
      /\ Deallocate(s) /\ restorePending' = restorePending
      /\ running' = RemoveFirst(running, s) /\ batch' = Tail(batch)
      /\ status[s] = "FINISHED"
      /\ UNCHANGED <<status, numPrompt, scheduled, isPrefill, cpuHandles, waiting,
                     budget, prefillStep>>
  BY DEF Finish, Release, seqVars, SInv, BatchInv, StatusInv
<1>b. /\ s \in Seqs /\ s \in Range(batch)
      /\ batch' \in Seq(Seqs) /\ Sorted(batch')
      /\ Range(batch') = Range(batch) \ {s}
  BY <1>a, <1>t, TailOrdered
<1>d. \A r \in Seqs : (Done(r) <=> r = s) /\ (Finishing(r) <=> r = s)
  BY <1>a DEF Done, Finishing
<1> HIDE DEF s
<1>r. /\ running' \in Seq(Seqs) /\ Sorted(running')
      /\ Range(running') = Range(running) \ {s}
  BY <1>a, <1>t, RemoveOrdered
<1>h. Holds(s, 0, 0) /\ blockTable'[s] = <<>>
  BY <1>a, <1>b, <1>t, DeallocateEffect
<1>e. /\ tokens' = tokens
      /\ \A r \in Seqs : r # s => blockTable'[r] = blockTable[r]
      /\ \A r \in Seqs : r # s => numCached'[r] = numCached[r]
      /\ \A r \in Seqs : NumBlocks(r)' = NumBlocks(r)
  BY <1>h, <1>t DEF Holds, NumBlocks, BMTypeOK
<1>n. \A r \in Seqs : ~restorePending[r]
  BY <1>a DEF SInv, RestoreInv
<1>1. STypeOK'
  BY <1>t, <1>a, <1>b, <1>r DEF STypeOK, PCs
<1>2. QueuesOrdered'
  BY <1>a, <1>b, <1>r, <1>t DEF QueuesOrdered, Precedes
<1>3. StatusInv'
  <2>1. \A r \in Range(running') : status[r] = "RUNNING"
    BY <1>d, <1>r, <1>t DEF SInv, StatusInv
  <2> QED BY <1>a, <1>e, <1>r, <2>1 DEF SInv, StatusInv
<1>4. BatchInv'
  <2>1. \A r \in Range(batch') : r \in Range(running') \/ (prefillStep' /\ HeadOf(r)')
    BY <1>a, <1>b, <1>r DEF SInv, BatchInv, HeadOf
  <2> QED BY <1>a, <2>1 DEF BatchInv
<1>5. ProgressInv'
  <2>1. ASSUME NEW r \in Range(batch')
        PROVE  /\ Len(blockTable'[r]) = NumBlocks(r)'
               /\ scheduled'[r] > 0
               /\ IF r \in Range(waiting')
                  THEN numCached'[r] + scheduled'[r] < Len(tokens'[r])
                  ELSE numCached'[r] + scheduled'[r] = Len(tokens'[r])
               /\ ~prefillStep' => scheduled'[r] = 1
    <3>1. r \in Range(batch) /\ r \in Seqs /\ r # s /\ ~Done(r)
      BY <2>1, <1>b, <1>d, <1>t
    <3> QED BY <3>1, <1>a, <1>e DEF SInv, ProgressInv
  <2>2. ASSUME NEW r \in Seqs, status'[r] = "RUNNING", r \notin Range(batch')
        PROVE  /\ numCached'[r] + 1 = Len(tokens'[r])
               /\ Len(blockTable'[r]) = BlocksFor(numCached'[r])
               /\ blockTable'[r] # <<>>
    BY <2>2, <1>a, <1>b, <1>e DEF SInv, ProgressInv
  <2>3. ASSUME NEW r \in Seqs, status'[r] = "WAITING", blockTable'[r] # <<>>
        PROVE  numCached'[r] < Len(tokens'[r]) /\ Len(blockTable'[r]) = NumBlocks(r)'
    BY <2>3, <1>a, <1>e DEF SInv, ProgressInv
  <2> QED BY <1>a, <2>1, <2>2, <2>3 DEF ProgressInv
<1>6. HoldersInv'
  <2>1. \A r \in Seqs : blockTable'[r] # <<>> =>
          \/ status[r] = "RUNNING"
          \/ status[r] = "WAITING" /\ waiting # <<>> /\ r = Head(waiting)
    <3>1. ASSUME NEW r \in Seqs, blockTable'[r] # <<>>
          PROVE  \/ status[r] = "RUNNING"
                 \/ status[r] = "WAITING" /\ waiting # <<>> /\ r = Head(waiting)
      <4>1. r # s /\ blockTable[r] # <<>> /\ ~Finishing(r)
        BY <3>1, <1>d, <1>e, <1>h
      <4> QED BY <4>1 DEF SInv, HoldersInv, OnlyHeadHoldsBlocks
    <3> QED BY <3>1
  <2> QED BY <1>a, <2>1 DEF HoldersInv, OnlyHeadHoldsBlocks
<1>7. RestoreInv'
  BY <1>a, <1>n DEF SInv, RestoreInv
<1>8. PayloadInv'
  BY <1>a DEF SInv, PayloadInv
<1>9. FailInv'
  BY <1>a DEF FailInv
<1>10. PromptInv'
  BY <1>a, <1>e DEF SInv, PromptInv
<1> QED BY <1>1, <1>2, <1>3, <1>4, <1>5, <1>6, <1>7, <1>8, <1>9, <1>10 DEF SInv

-----------------------------------------------------------------------------
(* The theorems *)

\* Nothing has arrived.
LEMMA InitSInv == Init => SInv
<1> SUFFICES ASSUME Init PROVE SInv
  OBVIOUS
<1>a. /\ BMInit
      /\ status = [s \in Seqs |-> "NEW"] /\ numPrompt = [s \in Seqs |-> 0]
      /\ scheduled = [s \in Seqs |-> 0] /\ isPrefill = [s \in Seqs |-> TRUE]
      /\ cpuHandles = [s \in Seqs |-> 0]
      /\ waiting = <<>> /\ running = <<>> /\ batch = <<>> /\ budget = 0
      /\ prefillStep = TRUE /\ pc = "idle"
  BY DEF Init
<1>b. \A s \in Seqs : tokens[s] = <<>> /\ blockTable[s] = <<>> /\ ~restorePending[s]
  BY <1>a DEF BMInit
<1>e. /\ Range(<<>>) = {} /\ Sorted(<<>>) /\ <<>> \in Seq(Seqs) /\ Len(<<>>) = 0
  <2>1. <<>> \in Seq(Seqs)
    OBVIOUS
  <2> QED BY <2>1, RangeEmpty
<1>1. IInv
  BY <1>a, InitInv
<1>2. STypeOK /\ QueuesOrdered
  BY <1>a, <1>e DEF STypeOK, QueuesOrdered, Precedes, PCs
<1>3. StatusInv /\ BatchInv
  BY <1>a, <1>b, <1>e DEF StatusInv, BatchInv
<1>4. ProgressInv /\ HoldersInv /\ OnlyHeadHoldsBlocks
  BY <1>a, <1>b, <1>e DEF ProgressInv, HoldersInv, OnlyHeadHoldsBlocks
<1>5. RestoreInv /\ PayloadInv /\ FailInv
  BY <1>a, <1>b, <1>e DEF RestoreInv, PayloadInv, FailInv
<1>6. PromptInv
  <2>1. \A s \in Seqs : Len(tokens[s]) = 0
    BY <1>b, <1>e
  <2> QED BY <1>a, <2>1 DEF PromptInv
<1> QED BY <1>1, <1>2, <1>3, <1>4, <1>5, <1>6 DEF SInv

\* Every action preserves the invariant.
LEMMA NextSInv == SInv /\ [Next]_vars => SInv'
<1> SUFFICES ASSUME SInv, [Next]_vars PROVE SInv'
  OBVIOUS
<1>i. IInv'
  BY AllocatorStep, NextInv DEF SInv
<1>1. CASE Arrivals
  BY <1>1, <1>i, AddRequestStep DEF Arrivals
<1>2. CASE ClearGpuPrefixCache
  <2>1. UNCHANGED restVars /\ UNCHANGED stepVars /\ restorePending' = restorePending
    BY <1>2 DEF ClearGpuPrefixCache, EvictFreeCachedBlocks, restVars
  <2> QED BY <1>i, <2>1, SameStep
<1>3. CASE Admit
  <2>1. PICK s \in Seqs : \E c, n \in Nat :
          Admitted(s, c, n) /\ (Promoted(s, c, n) \/ LeftWaiting(s, c, n))
    BY <1>3, AdmitSplit
  <2> QED BY <1>i, <2>1, AdmittedStep
<1>4. CASE StartStep \/ EndPrefill \/ Run \/ EndStep
  BY <1>4, <1>i, StartStepStep, EndPrefillStep, RunStep, EndStepStep
<1>5. CASE ScheduleDecode \/ PreemptOther \/ PreemptSelf
  BY <1>5, <1>i, ScheduleDecodeStep, PreemptOtherStep, PreemptSelfStep
<1>6. CASE EndDecode \/ NothingScheduled
  BY <1>6, <1>i, EndDecodeStep, NothingScheduledStep
<1>7. CASE ConfirmCpuRestore \/ RollbackCpuRestore
  BY <1>7, <1>i, ConfirmCpuRestoreStep, RollbackCpuRestoreStep
<1>8. CASE Hash \/ Sample \/ Finish
  BY <1>8, <1>i, HashStep, SampleStep, FinishStep
<1>9. CASE UNCHANGED vars
  <2>1. UNCHANGED restVars /\ UNCHANGED stepVars /\ restorePending' = restorePending
    BY <1>9 DEF vars, restVars, bmVars
  <2> QED BY <1>i, <2>1, SameStep
<1> QED BY <1>1, <1>2, <1>3, <1>4, <1>5, <1>6, <1>7, <1>8, <1>9
        DEF Next, StepControl

\* The inductive invariant holds in every reachable state of the scheduler.
THEOREM SchedulerInvariance == Spec => []SInv
BY InitSInv, NextSInv, PTL DEF Spec

\* Every step of the scheduler is one of the allocator, or leaves it alone.
LEMMA AllocatorSteps == Spec => BMSpec
<1>1. Init => BMInit
  BY DEF Init
<1> QED BY <1>1, AllocatorStep, SchedulerInvariance, PTL
        DEF Spec, BMSpec

\* The allocator's promise holds under schedule(), the restores and
\* postprocess().
THEOREM AllocatorSoundUnderScheduler == Spec => []AllocatorSound
BY AllocatorSteps, AllocatorCorrect, PTL

\* Every record of a sequence and of a step keeps its type; a line holds ids.
THEOREM SchedulerTypeCorrect == Spec => []STypeOK
<1>1. SInv => STypeOK
  BY DEF SInv
<1> QED BY <1>1, SchedulerInvariance, PTL

\* Requests are served in order of arrival, none is lost or served twice, and
\* only those who are served hold blocks, whatever is preempted, chunked,
\* rolled back or put back after a decode (schedule(), preempt,
\* rollback_cpu_restore and postprocess).
THEOREM QueueDisciplineHolds == Spec => []QueueDiscipline
<1>1. SInv => QueueDiscipline
  <2> SUFFICES ASSUME SInv PROVE QueueDiscipline
    OBVIOUS
  <2> DEFINE front == (IF pc = "decode" THEN batch ELSE <<>>) \o running
  <2>t. /\ waiting \in Seq(Seqs) /\ running \in Seq(Seqs) /\ batch \in Seq(Seqs)
        /\ Range(waiting) \subseteq Seqs /\ Range(running) \subseteq Seqs
        /\ Range(batch) \subseteq Seqs
        /\ Sorted(waiting) /\ Sorted(running) /\ Sorted(batch)
        /\ QueuesOrdered
    BY SInvTypes
  <2>1. /\ front \in Seq(Seqs) /\ Sorted(front) /\ Precedes(front, waiting)
        /\ Range(front) = Range(running) \cup IF pc = "decode" THEN Range(batch) ELSE {}
    <3>1. CASE pc = "decode"
      <4>1. front = batch \o running
        BY <3>1
      <4>2. front \in Seq(Seqs) /\ Sorted(front) /\ Range(front) = Range(batch) \cup Range(running)
        BY <2>t, <3>1, <4>1, ConcatOrdered DEF QueuesOrdered
      <4>3. Precedes(front, waiting)
        BY <2>t, <3>1, <4>2 DEF QueuesOrdered, Precedes
      <4> QED BY <3>1, <4>2, <4>3
    <3>2. CASE pc # "decode"
      <4>1. front = running
        BY <2>t, <3>2, ConcatEmptySeq
      <4> QED BY <2>t, <3>2, <4>1 DEF QueuesOrdered
    <3> QED BY <3>1, <3>2
  <2>2. Queue = front \o waiting
    BY DEF Queue
  <2> HIDE DEF front
  <2>3. Sorted(Queue) /\ Range(Queue) = Range(front) \cup Range(waiting)
    BY <2>t, <2>1, <2>2, ConcatOrdered
  <2>4. ArrivalOrder
    BY <2>3 DEF ArrivalOrder, Sorted
  <2>5. \A s \in Range(waiting) : status[s] = "WAITING"
    BY DEF SInv, StatusInv
  <2>6. pc # "finish" => \A s \in Range(running) : status[s] = "RUNNING"
    BY DEF SInv, StatusInv, Finishing
  <2>7. ASSUME pc # "finish"
        PROVE  Range(Queue) = {s \in Seqs : status[s] \in {"WAITING", "RUNNING"}}
    <3>1. ASSUME NEW s \in Range(Queue)
          PROVE  s \in Seqs /\ status[s] \in {"WAITING", "RUNNING"}
      BY <2>t, <2>1, <2>3, <2>5, <2>6, <2>7, <3>1 DEF SInv, StatusInv
    <3>2. ASSUME NEW s \in Seqs, status[s] \in {"WAITING", "RUNNING"}
          PROVE  s \in Range(Queue)
      BY <2>1, <2>3, <2>7, <3>2 DEF SInv, StatusInv
    <3> QED BY <3>1, <3>2
  <2>8. QueuesMatchStatus
    BY <2>5, <2>6, <2>7 DEF QueuesMatchStatus
  <2> QED BY <2>4, <2>8 DEF QueueDiscipline, SInv, HoldersInv
<1> QED BY <1>1, SchedulerInvariance, PTL

\* The payload flag of every sequence of a batch says whether the batch
\* prefills (preempt and rollback_cpu_restore set it back, schedule() clears it).
THEOREM PayloadCorrect == Spec => []PayloadMatchesBatch
<1>1. SInv => PayloadMatchesBatch
  <2> SUFFICES ASSUME SInv, pc = "dispatch", NEW s \in Range(batch)
               PROVE  isPrefill[s] = prefillStep
    BY DEF PayloadMatchesBatch
  <2>1. isPrefill[s] \in BOOLEAN /\ prefillStep \in BOOLEAN
    BY SInvTypes DEF STypeOK
  <2>2. isPrefill[s] <=> prefillStep
    BY DEF SInv, PayloadInv
  <2> QED BY <2>1, <2>2
<1> QED BY <1>1, SchedulerInvariance, PTL

\* The assertion of schedule() fails for no reason but a request that would not
\* fit the whole cache.
THEOREM FailureExplained == Spec => []FailsOnlyOnOversized
<1>1. SInv => FailsOnlyOnOversized
  BY DEF SInv, FailInv, Oversized, FailsOnlyOnOversized
<1> QED BY <1>1, SchedulerInvariance, PTL

\* A sequence that Deallocate(v) takes the blocks from is v.
LEMMA LoserIsVictim ==
  ASSUME IInv, NEW v \in Seqs, Deallocate(v), NEW s \in Seqs,
         blockTable[s] # <<>>, blockTable'[s] = <<>>
  PROVE  s = v
BY DeallocateEffect DEF Holds

\* In the decode loop the last of the line is the youngest that runs.
LEMMA LastIsYoungest ==
  ASSUME SInv, pc = "decode", NEW v \in Range(running),
         \A a \in Range(running) : a <= v,
         NEW r \in Seqs, status[r] = "RUNNING"
  PROVE  r <= v
<1>1. v \in Seqs
  BY SInvTypes
<1>2. CASE r \in Range(running)
  BY <1>2
<1>3. CASE r \in Range(batch)
  <2>1. r < v
    BY <1>3 DEF SInv, QueuesOrdered, Precedes
  <2> QED BY <1>1, <2>1, IdOrder
<1> QED BY <1>2, <1>3 DEF SInv, StatusInv

\* What a step takes blocks from, and does not finish, is the youngest.
LEMMA LosesOnlyYoungest ==
  ASSUME SInv, [Next]_vars, NEW s \in Seqs,
         blockTable[s] # <<>>, blockTable'[s] = <<>>, status'[s] = "WAITING",
         NEW r \in Seqs, status[r] = "RUNNING"
  PROVE  r <= s
<1>t. /\ IInv /\ BMTypeOK /\ QueuesOrdered /\ STypeOK
      /\ running \in Seq(Seqs) /\ Range(running) \subseteq Seqs /\ Sorted(running)
      /\ waiting \in Seq(Seqs) /\ batch \in Seq(Seqs) /\ Range(batch) \subseteq Seqs
  BY SInvTypes DEF SInv
<1>1. CASE Admit
  <2>1. PICK a \in Seqs : \E c, n \in Nat : Admitted(a, c, n)
    BY <1>1, AdmitSplit
  <2>2. PICK c, n \in Nat : Admitted(a, c, n)
    BY <2>1
  <2>3. s = a
    BY <2>2 DEF Admitted, Holds
  <2>4. NumBlocks(a) = 0
    BY <2>2, <2>3, EmptySeq DEF Admitted, Holds
  <2>5. Len(tokens[a]) <= 0 * BlockSize /\ Len(tokens[a]) \in Nat
    BY <2>4, <1>t, NumBlocksFacts, SInvTypes DEF BMTypeOK
  <2>6. Len(tokens[a]) > 0
    BY <2>2, <2>5 DEF Admitted
  <2> QED BY <2>5, <2>6, BlockSizeAssumption
<1>2. CASE ScheduleDecode
  <2>1. /\ running # <<>> /\ Head(running) \in Seqs /\ Head(running) \in Range(running)
        /\ pc = "decode" /\ GrowTable(Head(running))
    BY <1>2, <1>t, TailOrdered DEF ScheduleDecode, CanDecode
  <2>2. blockTable'[s] # <<>>
    <3>1. CASE UNCHANGED bmVars
      BY <3>1 DEF bmVars
    <3>2. CASE MayAppend(Head(running))
      <4>1. Holds(Head(running), Len(blockTable[Head(running)]) + 1,
                  numCached[Head(running)])
        BY <2>1, <3>2, <1>t, MayAppendEffect
      <4>2. Len(blockTable[Head(running)]) \in Nat
        BY <2>1, <1>t, TableLen
      <4>3. CASE s = Head(running)
        <5>1. Len(blockTable'[s]) # 0
          BY <4>1, <4>2, <4>3 DEF Holds
        <5> QED BY <5>1, EmptySeq
      <4>4. CASE s # Head(running)
        BY <4>1, <4>4 DEF Holds
      <4> QED BY <4>3, <4>4
    <3> QED BY <2>1, <3>1, <3>2 DEF GrowTable
  <2> QED BY <2>2
<1>3. CASE PreemptOther
  <2>1. /\ pc = "decode" /\ running # <<>> /\ Deallocate(Victim)
    BY <1>3 DEF PreemptOther, CanDecode, Preempt, Release
  <2>2. Victim \in Range(running) /\ \A a \in Range(running) : a <= Victim
    BY <2>1, <1>t, LastOrdered DEF Victim
  <2>3. s = Victim
    BY <2>1, <2>2, <1>t, LoserIsVictim
  <2> QED BY <2>1, <2>2, <2>3, LastIsYoungest
<1>4. CASE PreemptSelf
  <2>1. /\ pc = "decode" /\ running # <<>> /\ Deallocate(Head(running))
        /\ Len(running) = 1
    BY <1>4 DEF PreemptSelf, CanDecode, Preempt, Release
  <2>2. Head(running) = Last(running)
    BY <2>1, <1>t, HeadTailProperties DEF Last
  <2>3. Last(running) \in Range(running) /\ \A a \in Range(running) : a <= Last(running)
    BY <2>1, <1>t, LastOrdered
  <2>4. s = Last(running)
    BY <2>1, <2>2, <2>3, <1>t, LoserIsVictim
  <2> QED BY <2>1, <2>3, <2>4, LastIsYoungest
<1>5. CASE RollbackCpuRestore
  <2>1. PICK v \in Pending : RollbackRestore(v)
    BY <1>5 DEF RollbackCpuRestore
  <2>2. /\ v \in Seqs /\ Deallocate(v) /\ restorePending[v] /\ pc = "dispatch"
    BY <1>5, <2>1, <1>t DEF RollbackCpuRestore, RollbackRestore, Pending
  <2>3. s = v
    BY <2>2, <1>t, LoserIsVictim
  <2>4. r \in Range(running)
    BY <2>2 DEF SInv, StatusInv
  <2> QED BY <2>2, <2>3, <2>4 DEF SInv, RestoreInv
<1>6. CASE Finish
  <2>1. /\ Head(batch) \in Seqs /\ Deallocate(Head(batch))
        /\ status' = status /\ status[Head(batch)] = "FINISHED"
    BY <1>6, <1>t, HeadIn DEF Finish, Release, seqVars, SInv, StatusInv, BatchInv
  <2>2. s = Head(batch)
    BY <2>1, <1>t, LoserIsVictim
  <2> QED BY <2>1, <2>2
<1>7. CASE Arrivals \/ Sample
  <2>1. blockTable' = blockTable
    BY <1>7 DEF Arrivals, AddRequest, NewSequence, Sample, AppendToken, allocVars
  <2> QED BY <2>1
<1>8. CASE Hash \/ ConfirmCpuRestore \/ ClearGpuPrefixCache
  <2>1. blockTable' = blockTable
    BY <1>8 DEF Hash, HashBlocks, ConfirmCpuRestore, ConfirmRestore,
       ClearGpuPrefixCache, EvictFreeCachedBlocks
  <2> QED BY <2>1
<1>9. CASE StartStep \/ EndPrefill \/ EndDecode \/ NothingScheduled \/ Run \/ EndStep
           \/ UNCHANGED vars
  <2>1. blockTable' = blockTable
    BY <1>9 DEF StartStep, EndPrefill, EndDecode, NothingScheduled, Run, EndStep,
       bmVars, vars
  <2> QED BY <2>1
<1> QED BY <1>1, <1>2, <1>3, <1>4, <1>5, <1>6, <1>7, <1>8, <1>9 DEF Next, StepControl

\* preempt and rollback_cpu_restore only ever set back the youngest of those
\* that run: the oldest request is never behind a later one.
THEOREM PreemptionOrder == Spec => PreemptsYoungest
<1>1. SInv /\ [Next]_vars =>
        [\A s \in Seqs :
           blockTable[s] # <<>> /\ blockTable'[s] = <<>> /\ status'[s] = "WAITING"
             => \A r \in Seqs : status[r] = "RUNNING" => r <= s]_vars
  BY LosesOnlyYoungest
<1> QED BY <1>1, SchedulerInvariance, PTL DEF Spec, PreemptsYoungest

-----------------------------------------------------------------------------
(* What a client sees *)

\* A list of tokens cut in two, and what appending does to the parts.
LEMMA CutAppend ==
  ASSUME NEW q \in Seq(Token), NEW t \in Token, NEW n \in Nat, n <= Len(q)
  PROVE  /\ SubSeq(Append(q, t), 1, n) = SubSeq(q, 1, n)
         /\ SubSeq(Append(q, t), n + 1, Len(Append(q, t)))
              = Append(SubSeq(q, n + 1, Len(q)), t)
         /\ Len(SubSeq(q, n + 1, Len(q))) = Len(q) - n
<1> DEFINE u == Append(q, t)
           a == SubSeq(q, n + 1, Len(q))
           b == SubSeq(u, n + 1, Len(u))
<1>1. /\ u \in Seq(Token) /\ Len(u) = Len(q) + 1 /\ Len(q) \in Nat
      /\ \A i \in 1 .. Len(q) : u[i] = q[i]
      /\ u[Len(q) + 1] = t
  BY AppendProperties, LenProperties
<1> HIDE DEF u
<1>2. SubSeq(u, 1, n) = SubSeq(q, 1, n)
  <2>1. /\ SubSeq(u, 1, n) \in Seq(Token) /\ Len(SubSeq(u, 1, n)) = n
        /\ \A i \in 1 .. n : SubSeq(u, 1, n)[i] = u[i]
    BY <1>1, SubSeqProperties
  <2>2. /\ SubSeq(q, 1, n) \in Seq(Token) /\ Len(SubSeq(q, 1, n)) = n
        /\ \A i \in 1 .. n : SubSeq(q, 1, n)[i] = q[i]
    BY <1>1, SubSeqProperties
  <2> QED BY <1>1, <2>1, <2>2, SeqEqual
<1>3. /\ a \in Seq(Token) /\ Len(a) = Len(q) - n
      /\ \A i \in 1 .. Len(q) - n : a[i] = q[n + i]
  BY <1>1, SubSeqProperties
<1>4. /\ b \in Seq(Token) /\ Len(b) = Len(q) + 1 - n
      /\ \A i \in 1 .. Len(q) + 1 - n : b[i] = u[n + i]
  BY <1>1, SubSeqProperties
<1> HIDE DEF a, b
<1>5. /\ Append(a, t) \in Seq(Token) /\ Len(Append(a, t)) = Len(q) - n + 1
      /\ \A i \in 1 .. Len(q) - n : Append(a, t)[i] = a[i]
      /\ Append(a, t)[Len(q) - n + 1] = t
  BY <1>3, AppendProperties
<1>6. b = Append(a, t)
  <2>1. ASSUME NEW i \in 1 .. Len(b) PROVE b[i] = Append(a, t)[i]
    <3>1. CASE i \in 1 .. Len(q) - n
      BY <3>1, <1>1, <1>3, <1>4, <1>5
    <3>2. CASE i = Len(q) - n + 1
      BY <3>2, <1>1, <1>4, <1>5
    <3>3. i \in 1 .. Len(q) + 1 - n
      BY <1>4
    <3>4. i \in 1 .. Len(q) - n \/ i = Len(q) - n + 1
      BY <1>1, <3>3
    <3> QED BY <3>1, <3>2, <3>4
  <2>2. Len(b) = Len(Append(a, t))
    BY <1>1, <1>4, <1>5
  <2> QED BY <1>4, <1>5, <2>1, <2>2, SeqEqual
<1> QED BY <1>2, <1>3, <1>6 DEF u, a, b

\* Everything is kept that a client sees: no token, no prompt, no end.
ClientSees ==
  /\ tokens' = tokens /\ numPrompt' = numPrompt
  /\ \A s \in Seqs : status'[s] = "FINISHED" <=> status[s] = "FINISHED"

\* A step other than an arrival and a sampled token is none to a client.
LEMMA HiddenSteps ==
  ASSUME SInv, [Next]_vars, ~Arrivals, ~Sample
  PROVE  ClientSees
<1>t. /\ IInv /\ BMTypeOK /\ STypeOK /\ waiting \in Seq(Seqs)
      /\ running \in Seq(Seqs) /\ Range(running) \subseteq Seqs /\ Sorted(running)
      /\ Range(batch) \subseteq Seqs
  BY SInvTypes DEF SInv
<1>1. CASE Admit
  <2>1. PICK s \in Seqs : \E c, n \in Nat :
          Admitted(s, c, n) /\ (Promoted(s, c, n) \/ LeftWaiting(s, c, n))
    BY <1>1, AdmitSplit
  <2>2. PICK c, n \in Nat :
          Admitted(s, c, n) /\ (Promoted(s, c, n) \/ LeftWaiting(s, c, n))
    BY <2>1
  <2>3. tokens' = tokens /\ numPrompt' = numPrompt
    BY <2>2 DEF Admitted, Holds
  <2>4. status[s] = "WAITING"
    <3>1. s = Head(waiting) /\ waiting # <<>>
      BY <2>2 DEF Admitted, HeadOf
    <3> QED BY <3>1, TailOrdered, SInvTypes DEF SInv, StatusInv
  <2>5. status' = status \/ status' = [status EXCEPT ![s] = "RUNNING"]
    BY <2>2 DEF Promoted, LeftWaiting
  <2> QED BY <2>3, <2>4, <2>5, <1>t DEF ClientSees, STypeOK
<1>2. CASE PreemptOther \/ PreemptSelf
  <2>1. /\ pc = "decode" /\ running # <<>>
        /\ \E s \in {Victim, Head(running)} : Preempt(s)
    BY <1>2 DEF PreemptOther, PreemptSelf, CanDecode
  <2>2. Victim \in Range(running) /\ Head(running) \in Range(running)
    BY <2>1, <1>t, LastOrdered, TailOrdered DEF Victim
  <2>3. PICK s \in Range(running) : Preempt(s)
    BY <2>1, <2>2
  <2>4. status[s] = "RUNNING" /\ s \in Seqs
    BY <2>1, <1>t DEF SInv, StatusInv, Finishing
  <2>5. /\ status' = [status EXCEPT ![s] = "WAITING"] /\ numPrompt' = numPrompt
        /\ tokens' = tokens
    BY <2>3 DEF Preempt, Release, Deallocate
  <2> QED BY <2>4, <2>5, <1>t DEF ClientSees, STypeOK
<1>3. CASE RollbackCpuRestore
  <2>1. PICK s \in Pending :
          /\ RollbackRestore(s) /\ status' = [status EXCEPT ![s] = "WAITING"]
    BY <1>3 DEF RollbackCpuRestore
  <2>2. /\ tokens' = tokens /\ numPrompt' = numPrompt /\ pc = "dispatch"
        /\ s \in Range(batch) /\ s \in Seqs
    BY <1>3, <2>1, <1>t DEF RollbackCpuRestore, RollbackRestore, Deallocate, Pending
  <2>3. status[s] # "FINISHED"
    <3>1. s \in Range(running) \/ s \in Range(waiting)
      BY <2>2, TailOrdered, SInvTypes DEF SInv, BatchInv, HeadOf
    <3> QED BY <2>2, <3>1 DEF SInv, StatusInv, Finishing
  <2> QED BY <2>1, <2>2, <2>3, <1>t DEF ClientSees, STypeOK
<1>4. CASE ScheduleDecode
  <2>1. tokens' = tokens
    BY <1>4 DEF ScheduleDecode, GrowTable, MayAppend, bmVars
  <2> QED BY <1>4, <2>1 DEF ScheduleDecode, ClientSees
<1>5. CASE Hash \/ Finish \/ ConfirmCpuRestore \/ ClearGpuPrefixCache
  BY <1>5 DEF Hash, HashBlocks, Finish, Release, Deallocate, ConfirmCpuRestore,
     ConfirmRestore, ClearGpuPrefixCache, EvictFreeCachedBlocks, seqVars, ClientSees
<1>6. CASE StartStep \/ EndPrefill \/ EndDecode \/ NothingScheduled \/ Run \/ EndStep
           \/ UNCHANGED vars
  BY <1>6 DEF StartStep, EndPrefill, EndDecode, NothingScheduled, Run, EndStep,
     bmVars, seqVars, vars, ClientSees
<1> QED BY <1>1, <1>2, <1>3, <1>4, <1>5, <1>6 DEF Next, StepControl

\* add_request submits, postprocess() emits, and nothing else is visible.
LEMMA ClientStep == SInv /\ [Next]_vars => [Client!GenNext]_(Client!genVars)
<1> SUFFICES ASSUME SInv, [Next]_vars
             PROVE  Client!GenNext \/ UNCHANGED Client!genVars
  OBVIOUS
<1> DEFINE prompt == [s \in Seqs |-> SubSeq(tokens[s], 1, numPrompt[s])]
           output == [s \in Seqs |-> SubSeq(tokens[s], numPrompt[s] + 1, Len(tokens[s]))]
           done == [s \in Seqs |-> status[s] = "FINISHED"]
<1>t. /\ STypeOK /\ BMTypeOK
      /\ \A s \in Seqs : tokens[s] \in Seq(Token)
  BY SInvTypes DEF BMTypeOK
<1>1. CASE Arrivals
  <2>1. PICK s \in Seqs, p \in Prompts : \E h \in CpuMatches(p) : AddRequest(s, p, h)
    BY <1>1 DEF Arrivals
  <2>2. /\ status[s] = "NEW" /\ tokens[s] = <<>>
        /\ tokens' = [tokens EXCEPT ![s] = p]
        /\ numPrompt' = [numPrompt EXCEPT ![s] = Len(p)]
        /\ status' = [status EXCEPT ![s] = "WAITING"]
    BY <2>1 DEF AddRequest, NewSequence
  <2>3. numPrompt[s] = 0 /\ p \in Seq(Token)
    BY <2>2, FinitenessAssumption DEF SInv, PromptInv
  <2>4. /\ tokens'[s] = p /\ numPrompt'[s] = Len(p) /\ status'[s] = "WAITING"
        /\ \A r \in Seqs : r # s =>
             /\ tokens'[r] = tokens[r] /\ numPrompt'[r] = numPrompt[r]
             /\ status'[r] = status[r]
    BY <2>2, <1>t DEF STypeOK, BMTypeOK
  <2>5. /\ SubSeq(p, 1, Len(p)) = p
        /\ SubSeq(p, Len(p) + 1, Len(p)) = <<>>
        /\ SubSeq(<<>>, 1, 0) = <<>> /\ SubSeq(<<>>, 0 + 1, Len(<<>>)) = <<>>
    BY <2>3
  <2>6. prompt[s] = <<>>
    BY <2>2, <2>3, <2>5
  <2>7. prompt' = [prompt EXCEPT ![s] = p]
    BY <2>4, <2>5
  <2>8. output' = output
    <3>1. SubSeq(tokens'[s], numPrompt'[s] + 1, Len(tokens'[s])) = <<>>
      BY <2>4, <2>5
    <3>2. SubSeq(tokens[s], numPrompt[s] + 1, Len(tokens[s])) = <<>>
      BY <2>2, <2>3, <2>5
    <3>3. ASSUME NEW r \in Seqs
          PROVE  SubSeq(tokens'[r], numPrompt'[r] + 1, Len(tokens'[r]))
                   = SubSeq(tokens[r], numPrompt[r] + 1, Len(tokens[r]))
      BY <2>4, <3>1, <3>2
    <3> QED BY <3>3
  <2>9. done' = done
    BY <2>2, <2>4
  <2>10. Client!Submit(s, p)
    BY <2>6, <2>7, <2>8, <2>9 DEF Client!Submit
  <2> QED BY <2>10 DEF Client!GenNext
<1>2. CASE Sample
  <2> DEFINE s == Head(batch)
  <2>1. /\ pc = "append" /\ s \in Seqs /\ status[s] = "RUNNING"
    <3>1. pc = "append" /\ s \in Range(running)
      BY <1>2 DEF Sample, SInv, BatchInv
    <3> QED BY <3>1, SInvTypes DEF SInv, StatusInv, Finishing
  <2>2. PICK t \in Token :
          /\ AppendToken(s, t)
          /\ status' = IF IsLast(s, t) THEN [status EXCEPT ![s] = "FINISHED"] ELSE status
          /\ numPrompt' = numPrompt
    BY <1>2 DEF Sample
  <2>x. \A r \in Seqs : Len(tokens[r]) \in Nat /\ numPrompt[r] \in Nat
    BY <1>t, SInvTypes DEF STypeOK
  <2> HIDE DEF s
  <2>3. /\ tokens'[s] = Append(tokens[s], t)
        /\ \A r \in Seqs : r # s => tokens'[r] = tokens[r]
        /\ numPrompt[s] \in Nat /\ numPrompt[s] # 0 /\ numPrompt[s] <= Len(tokens[s])
    BY <2>1, <2>2, <1>t DEF AppendToken, SInv, PromptInv, STypeOK, BMTypeOK
  <2>4. /\ SubSeq(tokens'[s], 1, numPrompt[s]) = SubSeq(tokens[s], 1, numPrompt[s])
        /\ SubSeq(tokens'[s], numPrompt[s] + 1, Len(tokens'[s])) = Append(output[s], t)
        /\ Len(output[s]) = Len(tokens[s]) - numPrompt[s]
    <3>1. tokens[s] \in Seq(Token) /\ s \in Seqs
      BY <2>1, <1>t
    <3>2. /\ SubSeq(Append(tokens[s], t), 1, numPrompt[s]) = SubSeq(tokens[s], 1, numPrompt[s])
          /\ SubSeq(Append(tokens[s], t), numPrompt[s] + 1, Len(Append(tokens[s], t)))
               = Append(SubSeq(tokens[s], numPrompt[s] + 1, Len(tokens[s])), t)
          /\ Len(SubSeq(tokens[s], numPrompt[s] + 1, Len(tokens[s])))
               = Len(tokens[s]) - numPrompt[s]
      <4> HIDE DEF output, prompt
      <4> QED BY ONLY <2>3, <3>1, CutAppend
    <3>3. output[s] = SubSeq(tokens[s], numPrompt[s] + 1, Len(tokens[s]))
      BY <3>1
    <3> HIDE DEF output
    <3> QED BY ONLY <2>3, <3>2, <3>3
  <2>5. prompt' = prompt
    BY <2>2, <2>3, <2>4
  <2>6. output' = [output EXCEPT ![s] = Append(@, t)]
    BY <2>1, <2>2, <2>3, <2>4
  <2>7. prompt[s] # <<>> /\ ~done[s]
    <3>1. Len(SubSeq(tokens[s], 1, numPrompt[s])) = numPrompt[s]
      BY <2>1, <2>3, <1>t
    <3> QED BY <2>1, <2>3, <3>1
  <2>8. IsLast(s, t) <=> (t = EOS \/ Len(output[s]) + 1 = MaxTokens)
    <3> HIDE DEF output
    <3>a. Len(output[s]) = Len(tokens[s]) - numPrompt[s]
      BY <2>4
    <3>b. Len(tokens[s]) \in Nat /\ numPrompt[s] \in Nat
      BY <2>1, <2>x
    <3>1. Len(output[s]) + 1 = Len(tokens[s]) + 1 - numPrompt[s]
      BY <3>a, <3>b
    <3> QED BY <3>1, Zenon DEF IsLast
  <2>9. done' = [done EXCEPT ![s] = t = EOS \/ Len(output[s]) + 1 = MaxTokens]
    <3> HIDE DEF output
    <3>1. (status'[s] = "FINISHED") = (t = EOS \/ Len(output[s]) + 1 = MaxTokens)
      BY <2>1, <2>2, <2>8, <1>t DEF STypeOK
    <3>2. \A r \in Seqs : r # s => status'[r] = status[r]
      BY <2>2, <1>t DEF STypeOK
    <3> QED BY <2>1, <3>1, <3>2
  <2>10. Client!Emit(s, t)
    BY <2>5, <2>6, <2>7, <2>9 DEF Client!Emit
  <2> QED BY <2>1, <2>10 DEF Client!GenNext
<1>3. CASE ~Arrivals /\ ~Sample
  <2>1. /\ tokens' = tokens /\ numPrompt' = numPrompt
        /\ \A s \in Seqs : status'[s] = "FINISHED" <=> status[s] = "FINISHED"
    BY <1>3, HiddenSteps DEF ClientSees
  <2>2. prompt' = prompt /\ output' = output /\ done' = done
    BY <2>1
  <2> QED BY <2>2 DEF Client!genVars
<1> QED BY <1>1, <1>2, <1>3

\* The scheduler generates for every client what it is asked for, token by
\* token, up to the first EOS or max_tokens, whatever is preempted, recomputed,
\* chunked or rolled back on the way.
THEOREM GenerationRefined == Spec => ImplementsGeneration
<1>1. Init => Client!GenInit
  <2> SUFFICES ASSUME Init PROVE Client!GenInit
    OBVIOUS
  <2>1. \A s \in Seqs : tokens[s] = <<>> /\ numPrompt[s] = 0 /\ status[s] = "NEW"
    BY DEF Init, BMInit
  <2>2. SubSeq(<<>>, 1, 0) = <<>> /\ SubSeq(<<>>, 0 + 1, Len(<<>>)) = <<>>
    OBVIOUS
  <2> QED BY <2>1, <2>2 DEF Client!GenInit
<1> QED BY <1>1, ClientStep, SchedulerInvariance, PTL
        DEF Spec, ImplementsGeneration, Client!GenSpec

-----------------------------------------------------------------------------
(* Part 2: the rows of the KV cache *)

\* A row holds a token prefix; restored counts.
KVTypeOK == kv \in [Blocks -> [1 .. BlockSize -> Seq(Token)]] /\ restored \in Nat

\* A restore promises complete blocks.
RestoresWholeBlocks ==
  \A s \in Seqs : restorePending[s] => numCached[s] = Computed(s) * BlockSize

\* What the rows hold that count as cached or can be found.
RowsInv == CachedContextRight /\ LabelsHonest /\ RestoresWholeBlocks

\* The rows of the positions P of s are right.
RowsRight(s, P) == \A p \in P : Row(s, p) = Prefix(s, p)

\* Between the forward pass and hash_blocks.
ChunkRight ==
  pc \in {"post", "append", "finish"} =>
    \A s \in Range(batch) : ~Done(s) => RowsRight(s, Chunk(s))

\* The blocks that a restore has copied so far are right.
RestoredInv ==
  /\ restored # 0 => pc = "dispatch" /\ \E s \in Seqs : restorePending[s]
  /\ \A s \in Seqs : restorePending[s] =>
       restored <= Computed(s) /\ RowsRight(s, 1 .. restored * BlockSize)

\* The inductive invariant.
EInv == SInv /\ KVTypeOK /\ RowsInv /\ ChunkRight /\ RestoredInv

-----------------------------------------------------------------------------
(* Positions, blocks and rows *)

\* The blocks before position p, and its row in the block that holds it.
BlocksBefore(p) == (p - 1) \div BlockSize
RowOf(p) == ((p - 1) % BlockSize) + 1

\* A position is the rows of the blocks before it and its own row.
LEMMA Position ==
  ASSUME NEW p \in Nat, p > 0
  PROVE  /\ BlocksBefore(p) \in Nat /\ RowOf(p) \in 1 .. BlockSize
         /\ p = BlocksBefore(p) * BlockSize + RowOf(p)
BY BlockSizeAssumption DEF BlocksBefore, RowOf

\* The first i blocks hold the first i * BlockSize positions.
LEMMA PositionWithin ==
  ASSUME NEW p \in Nat, p > 0, NEW i \in Nat
  PROVE  /\ p <= i * BlockSize => BlocksBefore(p) + 1 <= i
         /\ p > i * BlockSize => BlocksBefore(p) + 1 > i
<1> DEFINE q == BlocksBefore(p)
<1>1. /\ q \in Nat /\ RowOf(p) \in 1 .. BlockSize /\ p = q * BlockSize + RowOf(p)
  BY Position
<1>2. q * BlockSize \in Nat /\ i * BlockSize \in Nat
  BY <1>1, MulType
<1> HIDE DEF q
<1>3. ASSUME p <= i * BlockSize PROVE q < i
  <2>1. CASE i = q
    BY <1>1, <1>2, <1>3, <2>1, BlockSizeAssumption
  <2>2. CASE i < q
    <3>1. i * BlockSize + BlockSize <= q * BlockSize
      BY <1>1, <2>2, MulMono
    <3> QED BY <1>1, <1>2, <1>3, <3>1, BlockSizeAssumption
  <2> QED BY <1>1, <2>1, <2>2
<1>4. ASSUME p > i * BlockSize PROVE q >= i
  <2>1. CASE q < i
    <3>1. q * BlockSize + BlockSize <= i * BlockSize
      BY <1>1, <2>1, MulMono
    <3> QED BY <1>1, <1>2, <1>4, <3>1, BlockSizeAssumption
  <2> QED BY <1>1, <2>1
<1> QED BY <1>1, <1>3, <1>4 DEF q

\* Row o of block i.
LEMMA PositionOf ==
  ASSUME NEW i \in Nat, NEW o \in 1 .. BlockSize
  PROVE  /\ i * BlockSize + o \in Nat /\ i * BlockSize + o > 0
         /\ BlocksBefore(i * BlockSize + o) = i
         /\ RowOf(i * BlockSize + o) = o
<1> DEFINE p == i * BlockSize + o
           q == BlocksBefore(p)
<1>1. i * BlockSize \in Nat /\ p \in Nat /\ p > 0
  BY MulType, BlockSizeAssumption
<1>2. q \in Nat /\ RowOf(p) \in 1 .. BlockSize /\ p = q * BlockSize + RowOf(p)
  BY <1>1, Position
<1>3. q * BlockSize \in Nat
  BY <1>2, MulType
<1>s. p = i * BlockSize + o
  OBVIOUS
<1> HIDE DEF q, p
<1>4. q = i
  <2>1. CASE q < i
    <3>1. q * BlockSize + BlockSize <= i * BlockSize
      BY <1>2, <2>1, MulMono
    <3> QED BY <1>1, <1>2, <1>3, <1>s, <3>1, BlockSizeAssumption
  <2>2. CASE i < q
    <3>1. i * BlockSize + BlockSize <= q * BlockSize
      BY <1>2, <2>2, MulMono
    <3> QED BY <1>1, <1>2, <1>3, <1>s, <3>1, BlockSizeAssumption
  <2> QED BY <1>2, <2>1, <2>2
<1>5. RowOf(p) = o
  BY <1>1, <1>2, <1>4, <1>s, BlockSizeAssumption
<1> QED BY <1>1, <1>4, <1>5 DEF p, q

\* A prefix of a prefix.
LEMMA PrefixOfPrefix ==
  ASSUME NEW t \in Seq(Token), NEW n \in Nat, NEW m \in Nat, m <= n, n <= Len(t)
  PROVE  SubSeq(SubSeq(t, 1, n), 1, m) = SubSeq(t, 1, m)
<1>1. Len(t) \in Nat
  BY LenProperties
<1>2. /\ SubSeq(t, 1, n) \in Seq(Token) /\ Len(SubSeq(t, 1, n)) = n
      /\ \A i \in 1 .. n : SubSeq(t, 1, n)[i] = t[i]
  BY <1>1, SubSeqProperties
<1>3. /\ SubSeq(t, 1, m) \in Seq(Token) /\ Len(SubSeq(t, 1, m)) = m
      /\ \A i \in 1 .. m : SubSeq(t, 1, m)[i] = t[i]
  BY <1>1, SubSeqProperties
<1> DEFINE u == SubSeq(t, 1, n)
<1> HIDE DEF u
<1>4. /\ SubSeq(u, 1, m) \in Seq(Token) /\ Len(SubSeq(u, 1, m)) = m
      /\ \A i \in 1 .. m : SubSeq(u, 1, m)[i] = u[i]
  BY <1>1, <1>2, SubSeqProperties DEF u
<1>5. \A i \in 1 .. m : u[i] = t[i]
  BY <1>1, <1>2 DEF u
<1>6. SubSeq(u, 1, m) = SubSeq(t, 1, m)
  BY <1>3, <1>4, <1>5, SeqEqual
<1> QED BY <1>6 DEF u

\* The label of complete block i of t, and the label's rows.
LEMMA LabelRows ==
  ASSUME NEW t \in Seq(Token), NEW i \in Nat, (i + 1) * BlockSize <= Len(t),
         NEW o \in 1 .. BlockSize, NEW h, h = SubSeq(t, 1, (i + 1) * BlockSize)
  PROVE  SubSeq(h, 1, Len(h) - BlockSize + o) = SubSeq(t, 1, i * BlockSize + o)
<1>1. /\ (i + 1) * BlockSize \in Nat /\ i * BlockSize \in Nat /\ Len(t) \in Nat
      /\ (i + 1) * BlockSize = i * BlockSize + BlockSize
  <2>1. i + 1 \in Nat
    OBVIOUS
  <2>2. (i + 1) * BlockSize \in Nat /\ i * BlockSize \in Nat
    BY <2>1, MulType
  <2> QED BY <2>2, MulStep, LenProperties
<1>2. Len(h) = (i + 1) * BlockSize
  BY <1>1, SubSeqProperties
<1>3. /\ Len(h) - BlockSize + o = i * BlockSize + o
      /\ i * BlockSize + o \in Nat /\ i * BlockSize + o <= (i + 1) * BlockSize
  BY <1>1, <1>2, BlockSizeAssumption
<1> QED BY <1>1, <1>3, PrefixOfPrefix

\* What the invariant says of a sequence's counts.
LEMMA CountsFit ==
  ASSUME IInv, NEW s \in Seqs
  PROVE  /\ tokens[s] \in Seq(Token) /\ Len(tokens[s]) \in Nat
         /\ blockTable[s] \in Seq(Blocks) /\ Len(blockTable[s]) \in Nat
         /\ numCached[s] \in Nat /\ numCached[s] <= Len(tokens[s])
         /\ numCached[s] <= Len(blockTable[s]) * BlockSize
         /\ Computed(s) \in Nat /\ Computed(s) * BlockSize <= numCached[s]
BY TableLen, ComputedFacts, DivBounds DEF IInv, BMTypeOK, TablesCover

\* A position that a table covers lies in one of its blocks.
LEMMA PositionInTable ==
  ASSUME IInv, NEW s \in Seqs, NEW p \in Nat, p > 0,
         p <= Len(blockTable[s]) * BlockSize
  PROVE  /\ BlocksBefore(p) + 1 \in 1 .. Len(blockTable[s])
         /\ blockTable[s][BlocksBefore(p) + 1] \in Blocks
         /\ s \in Owners(blockTable[s][BlocksBefore(p) + 1])
         /\ RowOf(p) \in 1 .. BlockSize
<1>1. BlocksBefore(p) + 1 \in 1 .. Len(blockTable[s])
  <2>1. Len(blockTable[s]) \in Nat /\ BlocksBefore(p) \in Nat
    BY CountsFit, Position
  <2>2. BlocksBefore(p) + 1 <= Len(blockTable[s])
    BY <2>1, PositionWithin
  <2> QED BY <2>1, <2>2
<1> QED BY <1>1, TableElement, Position

\* A cached position does.
LEMMA CachedInTable ==
  ASSUME IInv, NEW s \in Seqs, NEW p \in 1 .. numCached[s]
  PROVE  /\ p \in Nat /\ p > 0 /\ p <= Len(tokens[s])
         /\ BlocksBefore(p) + 1 \in 1 .. Len(blockTable[s])
         /\ blockTable[s][BlocksBefore(p) + 1] \in Blocks
         /\ s \in Owners(blockTable[s][BlocksBefore(p) + 1])
         /\ RowOf(p) \in 1 .. BlockSize
<1>0. /\ numCached[s] \in Nat /\ Len(blockTable[s]) \in Nat /\ Len(tokens[s]) \in Nat
      /\ numCached[s] <= Len(tokens[s]) /\ numCached[s] <= Len(blockTable[s]) * BlockSize
  BY CountsFit
<1>m. Len(blockTable[s]) * BlockSize \in Nat
  BY <1>0, MulType
<1>1. /\ p \in Nat /\ p > 0 /\ p <= Len(tokens[s])
      /\ p <= Len(blockTable[s]) * BlockSize
  BY <1>0, <1>m
<1> QED BY <1>1, PositionInTable

\* Nothing that sequence s reads changes.
LEMMA ContextKept ==
  ASSUME NEW s \in Seqs, ContextRight(s), numCached'[s] = numCached[s],
         \A p \in 1 .. numCached[s] :
           /\ Row(s, p)' = Row(s, p)
           /\ Prefix(s, p)' = Prefix(s, p)
  PROVE  ContextRight(s)'
BY DEF ContextRight

\* The others are not concerned.
LEMMA OtherKept ==
  ASSUME NEW s \in Seqs, ContextRight(s), kv' = kv, numCached'[s] = numCached[s],
         blockTable'[s] = blockTable[s], tokens'[s] = tokens[s]
  PROVE  ContextRight(s)'
<1>1. \A p : Row(s, p)' = Row(s, p) /\ Prefix(s, p)' = Prefix(s, p)
  BY DEF Row, Prefix
<1> QED BY <1>1, ContextKept

\* Labels that only go away.
LEMMA LabelsKept ==
  ASSUME LabelsHonest, kv' = kv,
         \A b \in Blocks : blockHash'[b] = blockHash[b] \/ blockHash'[b] = NoHash
  PROVE  LabelsHonest'
BY DEF LabelsHonest

\* What RowsInv needs when only `s' is concerned: that what s now counts as
\* cached is right, and that labels are taken away or are those of s.
LEMMA RowsAfter ==
  ASSUME IInv, IInv', RowsInv, kv' = kv, NEW s \in Seqs,
         \A r \in Seqs : r # s =>
           /\ numCached'[r] = numCached[r] /\ blockTable'[r] = blockTable[r]
           /\ tokens'[r] = tokens[r] /\ restorePending'[r] = restorePending[r],
         ~restorePending'[s] => ContextRight(s)',
         restorePending'[s] => numCached'[s] = Computed(s)' * BlockSize,
         \A b \in Blocks :
           \/ blockHash'[b] = blockHash[b] \/ blockHash'[b] = NoHash
           \/ /\ ~restorePending'[s]
              /\ \E i \in 1 .. Computed(s)' : b = blockTable'[s][i]
  PROVE  RowsInv'
<1>1. CachedContextRight'
  <2> SUFFICES ASSUME NEW r \in Seqs, ~restorePending'[r] PROVE ContextRight(r)'
    BY DEF CachedContextRight
  <2>1. CASE r = s
    BY <2>1
  <2>2. CASE r # s
    <3>1. ContextRight(r)
      BY <2>2 DEF RowsInv, CachedContextRight
    <3> QED BY <2>2, <3>1, OtherKept
  <2> QED BY <2>1, <2>2
<1>2. RestoresWholeBlocks'
  <2> SUFFICES ASSUME NEW r \in Seqs, restorePending'[r]
               PROVE  numCached'[r] = Computed(r)' * BlockSize
    BY DEF RestoresWholeBlocks
  <2>1. CASE r = s
    BY <2>1
  <2>2. CASE r # s
    <3>1. Computed(r)' = Computed(r)
      BY <2>2 DEF Computed
    <3> QED BY <2>2, <3>1 DEF RowsInv, RestoresWholeBlocks
  <2> QED BY <2>1, <2>2
<1>3. ASSUME NEW b \in Blocks, ~restorePending'[s], NEW i \in 1 .. Computed(s)',
             b = blockTable'[s][i], NEW o \in 1 .. BlockSize
      PROVE  kv'[b][o] = SubSeq(blockHash'[b], 1, Len(blockHash'[b]) - BlockSize + o)
  <2> DEFINE t == tokens'[s]
             p == (i - 1) * BlockSize + o
  <2>1. /\ t \in Seq(Token) /\ Len(t) \in Nat /\ numCached'[s] \in Nat
        /\ numCached'[s] <= Len(t)
        /\ Computed(s)' \in Nat /\ Computed(s)' * BlockSize <= numCached'[s]
    <3>1. BMTypeOK' /\ TablesCover'
      BY DEF IInv
    <3>2. /\ t \in Seq(Token) /\ numCached'[s] \in Nat /\ numCached'[s] <= Len(t)
      BY <3>1 DEF BMTypeOK, TablesCover
    <3>3. Computed(s)' = numCached'[s] \div BlockSize
      BY DEF Computed
    <3> QED BY <3>2, <3>3, DivBounds, LenProperties
  <2>2. blockHash'[b] = SubSeq(t, 1, i * BlockSize)
    BY <1>3 DEF IInv, CachedBlocksLabelled, PrefixHash
  <2> HIDE DEF t
  <2>3. /\ i - 1 \in Nat /\ i \in Nat /\ (i - 1) + 1 = i
        /\ i * BlockSize \in Nat /\ (i - 1) * BlockSize \in Nat
        /\ i * BlockSize = (i - 1) * BlockSize + BlockSize
        /\ i * BlockSize <= Computed(s)' * BlockSize
    <3>1. i - 1 \in Nat /\ i \in Nat /\ (i - 1) + 1 = i /\ i <= Computed(s)'
      BY <2>1
    <3>2. i * BlockSize \in Nat /\ (i - 1) * BlockSize \in Nat
          /\ i * BlockSize = (i - 1) * BlockSize + BlockSize
      BY <3>1, MulType, MulStep
    <3>3. Computed(s)' * BlockSize \in Nat
      BY <2>1, MulType
    <3>4. i * BlockSize <= Computed(s)' * BlockSize
      <4>1. CASE i = Computed(s)'
        BY <4>1, <3>3
      <4>2. CASE i < Computed(s)'
        <5>1. i * BlockSize + BlockSize <= Computed(s)' * BlockSize
          BY <2>1, <3>1, <4>2, MulMono
        <5> QED BY <3>2, <3>3, <5>1, BlockSizeAssumption
      <4> QED BY <2>1, <3>1, <4>1, <4>2
    <3> QED BY <3>1, <3>2, <3>4
  <2>4. i * BlockSize <= Len(t) /\ i * BlockSize <= numCached'[s]
    <3>1. Computed(s)' * BlockSize \in Nat
      BY <2>1, MulType
    <3> QED BY <3>1, <2>1, <2>3
  <2>5. SubSeq(blockHash'[b], 1, Len(blockHash'[b]) - BlockSize + o) = SubSeq(t, 1, p)
    <3> DEFINE j == i - 1
    <3>1. /\ j \in Nat /\ (j + 1) * BlockSize <= Len(t) /\ p = j * BlockSize + o
          /\ blockHash'[b] = SubSeq(t, 1, (j + 1) * BlockSize)
      BY <2>2, <2>3, <2>4
    <3> DEFINE h == blockHash'[b]
    <3>2. h = SubSeq(t, 1, (j + 1) * BlockSize)
      BY <3>1
    <3> HIDE DEF h, j
    <3>3. SubSeq(h, 1, Len(h) - BlockSize + o) = SubSeq(t, 1, j * BlockSize + o)
      BY <2>1, <3>1, <3>2, LabelRows
    <3> QED BY <3>1, <3>3 DEF h
  <2>6. /\ p \in Nat /\ p > 0 /\ BlocksBefore(p) = i - 1 /\ RowOf(p) = o
    BY <2>3, PositionOf
  <2>7. p \in 1 .. numCached'[s]
    BY <2>1, <2>3, <2>4, <2>6, BlockSizeAssumption
  <2>8. Row(s, p)' = Prefix(s, p)'
    BY <1>3, <2>7 DEF ContextRight
  <2>9. Row(s, p)' = kv'[b][o]
    BY <1>3, <2>3, <2>6 DEF Row, BlocksBefore, RowOf
  <2>10. Prefix(s, p)' = SubSeq(t, 1, p)
    BY DEF Prefix, t
  <2> QED BY <2>5, <2>8, <2>9, <2>10
<1>4. LabelsHonest'
  <2> SUFFICES ASSUME NEW b \in Blocks, blockHash'[b] # NoHash, NEW o \in 1 .. BlockSize
               PROVE  kv'[b][o] = SubSeq(blockHash'[b], 1, Len(blockHash'[b]) - BlockSize + o)
    BY DEF LabelsHonest
  <2>1. CASE blockHash'[b] = blockHash[b]
    BY <2>1 DEF RowsInv, LabelsHonest
  <2>2. CASE ~restorePending'[s] /\ \E i \in 1 .. Computed(s)' : b = blockTable'[s][i]
    BY <2>2, <1>3
  <2> QED BY <2>1, <2>2
<1> QED BY <1>1, <1>2, <1>4 DEF RowsInv

-----------------------------------------------------------------------------
(* The operations of the allocator *)

\* No more blocks, no more rows.
LEMMA MulMonoWeak ==
  ASSUME NEW i \in Nat, NEW j \in Nat, i <= j
  PROVE  i * BlockSize <= j * BlockSize
<1>1. i * BlockSize \in Nat /\ j * BlockSize \in Nat
  BY MulType
<1>2. CASE i = j
  BY <1>1, <1>2
<1>3. CASE i < j
  <2>1. i * BlockSize + BlockSize <= j * BlockSize
    BY <1>3, MulMono
  <2> QED BY <1>1, <2>1, BlockSizeAssumption
<1> QED BY <1>2, <1>3

\* A sequence without blocks has nothing cached and nothing pending.
LEMMA NoTable ==
  ASSUME IInv, NEW s \in Seqs, blockTable[s] = <<>>
  PROVE  numCached[s] = 0 /\ ~restorePending[s]
<1>1. numCached[s] \in Nat /\ numCached[s] <= 0 * BlockSize
  BY CountsFit, EmptySeq
<1>2. restorePending[s] => numCached[s] >= BlockSize
  BY DEF IInv, TablesCover
<1> QED BY <1>1, <1>2, BlockSizeAssumption

\* A hit of the lookup: the rows of the block are those of the prefix.
LEMMA HitRows ==
  ASSUME IInv, LabelsHonest, NEW s \in Seqs, NEW j \in Nat,
         (j + 1) * BlockSize <= Len(tokens[s]), Hit(PrefixHash(s, j + 1)),
         NEW o \in 1 .. BlockSize
  PROVE  kv[HitBlock(s, j + 1)][o] = SubSeq(tokens[s], 1, j * BlockSize + o)
<1> DEFINE h == PrefixHash(s, j + 1)
           b == HitBlock(s, j + 1)
<1>1. tokens \in [Seqs -> Seq(Token)] /\ tokens[s] \in Seq(Token) /\ j + 1 \in Nat
  BY DEF IInv, BMTypeOK
<1>2. h # NoHash
  BY <1>1, PrefixFacts
<1>3. h = SubSeq(tokens[s], 1, (j + 1) * BlockSize)
  BY DEF PrefixHash
<1>4. h \in DOMAIN hashToBlock /\ b = hashToBlock[h]
  BY DEF Hit, HitBlock
<1> HIDE DEF h, b
<1>5. b \in Blocks /\ blockHash[b] = h
  BY <1>4 DEF IInv, BMTypeOK, IndexSound
<1>6. kv[b][o] = SubSeq(h, 1, Len(h) - BlockSize + o)
  BY <1>2, <1>5 DEF LabelsHonest
<1>7. SubSeq(h, 1, Len(h) - BlockSize + o) = SubSeq(tokens[s], 1, j * BlockSize + o)
  BY <1>1, <1>3, LabelRows
<1> QED BY <1>6, <1>7 DEF b

\* allocate: what a hit shares is right for the new owner, too.
LEMMA RowsAllocate ==
  ASSUME IInv, IInv', RowsInv, kv' = kv, NEW s \in Seqs, NEW k \in 0 .. NumBlocks(s) - 1,
         Allocate(s, k)
  PROVE  RowsInv'
<1> DEFINE shared == [i \in 1 .. k |-> HitBlock(s, i)]
<1>a. /\ blockTable[s] = <<>> /\ tokens' = tokens /\ tokens[s] \in Seq(Token)
      /\ numCached' = [numCached EXCEPT ![s] = k * BlockSize]
      /\ numCached \in [Seqs -> Nat]
      /\ restorePending' = restorePending
      /\ blockTable \in [Seqs -> Seq(Blocks)] /\ BMTypeOK
  BY DEF IInv, BMTypeOK, Allocate
<1>b. ~restorePending[s]
  BY <1>a, NoTable
<1>k. NumBlocks(s) \in Nat /\ k \in Nat
  BY <1>a, NumBlocksFacts DEF BMTypeOK
<1>l. k * BlockSize \in Nat /\ k * BlockSize < Len(tokens[s]) /\ Len(tokens[s]) \in Nat
  BY <1>a, HitsLeaveTokens, LenProperties
<1>t. /\ blockTable[s] = <<>> /\ tokens' = tokens /\ tokens[s] \in Seq(Token)
      /\ numCached' = [numCached EXCEPT ![s] = k * BlockSize]
      /\ numCached \in [Seqs -> Nat]
      /\ restorePending' = restorePending /\ ~restorePending[s]
      /\ blockTable \in [Seqs -> Seq(Blocks)] /\ k \in Nat
      /\ k * BlockSize \in Nat /\ k * BlockSize < Len(tokens[s])
      /\ Len(tokens[s]) \in Nat
  BY <1>a, <1>b, <1>k, <1>l
<1>1. PICK fresh \in Injection(1 .. NumBlocks(s) - k, free \ HitBlocks(s, k)) :
        Place(s, shared, fresh)
  BY DEF Allocate
<1>2. blockTable' = [blockTable EXCEPT ![s] = @ \o shared \o fresh]
      /\ blockHash' = CleanLabels(Range(fresh))
  BY <1>1 DEF Place
<1>3. ASSUME NEW i \in 1 .. k PROVE blockTable'[s][i] = HitBlock(s, i)
  <2> DEFINE S == HitBlocks(s, k) \cup free
             m == NumBlocks(s) - k
  <2>1. m \in Nat
    BY NumBlocksFacts DEF IInv, BMTypeOK
  <2>2. shared \in Seq(S) /\ Len(shared) = k
    BY <1>k DEF HitBlocks
  <2>3. fresh \in [1 .. m -> free \ HitBlocks(s, k)]
    BY <1>1 DEF Injection
  <2> HIDE DEF m
  <2>4. fresh \in [1 .. m -> S]
    BY <2>3
  <2> HIDE DEF S
  <2>5. fresh \in Seq(S)
    BY <2>1, <2>4
  <2>6. shared[i] = HitBlock(s, i)
    OBVIOUS
  <2> HIDE DEF shared
  <2>7. (shared \o fresh)[i] = shared[i]
    <3>1. Len(fresh) \in Nat /\ i \in 1 .. Len(shared) + Len(fresh) /\ i <= Len(shared)
      BY <1>t, <2>2, <2>5, LenProperties
    <3> QED BY <2>2, <2>5, <3>1, ConcatProperties
  <2>8. <<>> \o shared \o fresh = shared \o fresh
    BY <2>2, ConcatEmptySeq
  <2>9. blockTable'[s] = shared \o fresh
    BY <1>t, <1>2, <2>8
  <2> QED BY <2>6, <2>7, <2>9
<1> HIDE DEF shared
<1>4. ContextRight(s)'
  <2> SUFFICES ASSUME NEW p \in 1 .. k * BlockSize
               PROVE  Row(s, p)' = Prefix(s, p)'
    BY <1>t DEF ContextRight
  <2> DEFINE j == BlocksBefore(p)
             o == RowOf(p)
  <2>1. p \in Nat /\ p > 0 /\ p <= k * BlockSize
    BY <1>t
  <2>2. j \in Nat /\ o \in 1 .. BlockSize /\ p = j * BlockSize + o /\ j + 1 <= k
    BY <1>t, <2>1, Position, PositionWithin
  <2>3. Row(s, p)' = kv[blockTable'[s][j + 1]][o]
    BY DEF Row, BlocksBefore, RowOf
  <2>4. Prefix(s, p)' = SubSeq(tokens[s], 1, p)
    BY <1>t DEF Prefix
  <2> HIDE DEF j, o
  <2>5. j + 1 \in 1 .. k /\ j + 1 \in Nat
    BY <1>t, <2>2
  <2>6. (j + 1) * BlockSize <= Len(tokens[s])
    <3>1. (j + 1) * BlockSize <= k * BlockSize
      BY <1>t, <2>2, <2>5, MulMonoWeak
    <3>2. (j + 1) * BlockSize \in Nat
      BY <2>5, MulType
    <3> QED BY <1>t, <3>1, <3>2
  <2>7. Hit(PrefixHash(s, j + 1))
    BY <2>5 DEF Allocate, CanAllocate, LongestHit
  <2>8. kv[HitBlock(s, j + 1)][o] = SubSeq(tokens[s], 1, j * BlockSize + o)
    BY <2>2, <2>6, <2>7, HitRows DEF RowsInv
  <2> QED BY <1>3, <2>2, <2>3, <2>4, <2>5, <2>8
<1>5. \A b \in Blocks : blockHash'[b] = blockHash[b] \/ blockHash'[b] = NoHash
  BY <1>2 DEF CleanLabels
<1>6. \A r \in Seqs : r # s =>
        /\ numCached'[r] = numCached[r] /\ blockTable'[r] = blockTable[r]
        /\ tokens'[r] = tokens[r] /\ restorePending'[r] = restorePending[r]
  BY <1>t, <1>2
<1> QED BY <1>t, <1>4, <1>5, <1>6, RowsAfter

\* allocate_for_cpu_restore: nothing is right yet, and the restore is pending.
LEMMA RowsAllocateForCpuRestore ==
  ASSUME IInv, IInv', RowsInv, kv' = kv, NEW s \in Seqs, NEW k, AllocateForCpuRestore(s, k)
  PROVE  RowsInv'
<1>t. /\ tokens' = tokens /\ k \in Nat
      /\ numCached' = [numCached EXCEPT ![s] = k * BlockSize]
      /\ numCached \in [Seqs -> Nat] /\ restorePending \in [Seqs -> BOOLEAN]
      /\ restorePending' = [restorePending EXCEPT ![s] = TRUE]
      /\ blockTable \in [Seqs -> Seq(Blocks)]
  <2>1. NumBlocks(s) \in Nat /\ k \in 1 .. NumBlocks(s) - 1
    BY NumBlocksFacts DEF IInv, BMTypeOK, AllocateForCpuRestore
  <2> QED BY <2>1 DEF IInv, BMTypeOK, AllocateForCpuRestore
<1>1. PICK fresh \in Injection(1 .. NumBlocks(s), free) : Place(s, <<>>, fresh)
  BY DEF AllocateForCpuRestore
<1>2. blockTable' = [blockTable EXCEPT ![s] = @ \o <<>> \o fresh]
      /\ blockHash' = CleanLabels(Range(fresh))
  BY <1>1 DEF Place
<1>3. numCached'[s] = Computed(s)' * BlockSize
  <2>1. numCached'[s] = k * BlockSize
    BY <1>t
  <2>2. Computed(s)' = k
    BY <1>t, <2>1, DivMul DEF Computed
  <2> QED BY <2>1, <2>2
<1>4. \A b \in Blocks : blockHash'[b] = blockHash[b] \/ blockHash'[b] = NoHash
  BY <1>2 DEF CleanLabels
<1>5. \A r \in Seqs : r # s =>
        /\ numCached'[r] = numCached[r] /\ blockTable'[r] = blockTable[r]
        /\ tokens'[r] = tokens[r] /\ restorePending'[r] = restorePending[r]
  BY <1>t, <1>2
<1>6. restorePending'[s]
  BY <1>t
<1> QED BY <1>3, <1>4, <1>5, <1>6, RowsAfter

\* may_append: the new block comes after all that count as cached.
LEMMA RowsMayAppend ==
  ASSUME IInv, IInv', RowsInv, kv' = kv, NEW s \in Seqs, MayAppend(s)
  PROVE  RowsInv'
<1>t. /\ tokens' = tokens /\ numCached' = numCached /\ ~restorePending[s]
      /\ restorePending' = restorePending
      /\ blockTable \in [Seqs -> Seq(Blocks)] /\ blockTable[s] \in Seq(Blocks)
      /\ free \subseteq Blocks
  BY DEF IInv, BMTypeOK, MayAppend
<1>1. PICK b \in free : Place(s, <<>>, <<b>>)
  BY DEF MayAppend
<1>2. blockTable' = [blockTable EXCEPT ![s] = @ \o <<>> \o <<b>>]
      /\ blockHash' = CleanLabels(Range(<<b>>))
  BY <1>1 DEF Place
<1>3. ASSUME NEW i \in 1 .. Len(blockTable[s])
      PROVE  blockTable'[s][i] = blockTable[s][i]
  <2>1. <<b>> \in Seq(Blocks) /\ Len(<<b>>) = 1
    BY <1>t, <1>1
  <2>2. blockTable'[s] = blockTable[s] \o <<b>>
    <3>1. blockTable[s] \o <<>> \o <<b>> = blockTable[s] \o <<b>>
      BY <1>t, ConcatEmptySeq
    <3> QED BY <1>t, <1>2, <3>1
  <2>3. Len(blockTable[s]) \in Nat /\ i \in 1 .. Len(blockTable[s]) + Len(<<b>>)
    BY <1>t, <2>1, LenProperties
  <2>4. (blockTable[s] \o <<b>>)[i] = blockTable[s][i]
    BY <1>t, <2>1, <2>3, ConcatProperties
  <2> QED BY <2>2, <2>4
<1>4. ContextRight(s)'
  <2>1. ASSUME NEW p \in 1 .. numCached[s]
        PROVE  Row(s, p)' = Row(s, p) /\ Prefix(s, p)' = Prefix(s, p)
    <3>1. blockTable'[s][BlocksBefore(p) + 1] = blockTable[s][BlocksBefore(p) + 1]
      BY <1>3, CachedInTable
    <3> QED BY <1>t, <3>1 DEF Row, Prefix, BlocksBefore
  <2>2. ContextRight(s)
    BY <1>t DEF RowsInv, CachedContextRight
  <2> QED BY <1>t, <2>1, <2>2, ContextKept
<1>5. \A c \in Blocks : blockHash'[c] = blockHash[c] \/ blockHash'[c] = NoHash
  BY <1>2 DEF CleanLabels
<1>6. \A r \in Seqs : r # s =>
        /\ numCached'[r] = numCached[r] /\ blockTable'[r] = blockTable[r]
        /\ tokens'[r] = tokens[r] /\ restorePending'[r] = restorePending[r]
  BY <1>t, <1>2
<1> QED BY <1>t, <1>4, <1>5, <1>6, RowsAfter

\* deallocate: nothing counts as cached any more; labels stay.
LEMMA RowsDeallocate ==
  ASSUME IInv, IInv', RowsInv, kv' = kv, NEW s \in Seqs, Deallocate(s),
         restorePending' = [restorePending EXCEPT ![s] = FALSE]
  PROVE  RowsInv'
<1>t. /\ tokens' = tokens /\ blockHash' = blockHash
      /\ numCached' = [numCached EXCEPT ![s] = 0]
      /\ blockTable' = [blockTable EXCEPT ![s] = <<>>]
      /\ numCached \in [Seqs -> Nat] /\ restorePending \in [Seqs -> BOOLEAN]
      /\ blockTable \in [Seqs -> Seq(Blocks)]
  BY DEF IInv, BMTypeOK, Deallocate, CachedAfterRelease
<1>1. ContextRight(s)' /\ ~restorePending'[s]
  BY <1>t DEF ContextRight
<1>2. \A r \in Seqs : r # s =>
        /\ numCached'[r] = numCached[r] /\ blockTable'[r] = blockTable[r]
        /\ tokens'[r] = tokens[r] /\ restorePending'[r] = restorePending[r]
  BY <1>t
<1> QED BY <1>t, <1>1, <1>2, RowsAfter

\* preempt, and the end of a request.
LEMMA RowsRelease ==
  ASSUME IInv, IInv', RowsInv, kv' = kv, NEW s \in Seqs, Release(s)
  PROVE  RowsInv'
<1>1. Deallocate(s) /\ restorePending' = [restorePending EXCEPT ![s] = FALSE]
  BY DEF Release, IInv, BMTypeOK
<1> QED BY <1>1, RowsDeallocate

\* Labelling touches the blocks of the range, no others.
LEMMA LabelTouches ==
  ASSUME NEW s \in Seqs, NEW root, NEW from \in Nat, NEW to \in Nat,
         Label(s, root, from, to)
  PROVE  \A b \in Blocks : \/ blockHash'[b] = blockHash[b]
                           \/ \E i \in 1 .. to : b = blockTable[s][i]
<1> SUFFICES ASSUME NEW b \in Blocks, ~\E i \in 1 .. to : b = blockTable[s][i]
             PROVE  blockHash'[b] = blockHash[b]
  OBVIOUS
<1>1. ~\E i \in from + 1 .. to : blockTable[s][i] = b
  OBVIOUS
<1> QED BY <1>1 DEF Label

\* confirm_cpu_restore: the copied rows count, and can be found.
LEMMA RowsConfirmRestore ==
  ASSUME IInv, IInv', RowsInv, kv' = kv, NEW s \in Seqs, ConfirmRestore(s),
         RowsRight(s, 1 .. numCached[s])
  PROVE  RowsInv'
<1>t. /\ tokens' = tokens /\ numCached' = numCached /\ blockTable' = blockTable
      /\ restorePending' = [restorePending EXCEPT ![s] = FALSE]
      /\ restorePending \in [Seqs -> BOOLEAN]
      /\ Label(s, NoHash, 0, Computed(s)) /\ Computed(s) \in Nat
  BY CountsFit DEF IInv, BMTypeOK, ConfirmRestore
<1>1. ContextRight(s)'
  BY <1>t DEF RowsRight, ContextRight, Row, Prefix
<1>2. Computed(s)' = Computed(s)
  BY <1>t DEF Computed
<1>3. \A b \in Blocks : \/ blockHash'[b] = blockHash[b]
                        \/ \E i \in 1 .. Computed(s) : b = blockTable[s][i]
  BY <1>t, LabelTouches
<1>4. ~restorePending'[s]
  BY <1>t
<1>5. \A r \in Seqs : r # s =>
        /\ numCached'[r] = numCached[r] /\ blockTable'[r] = blockTable[r]
        /\ tokens'[r] = tokens[r] /\ restorePending'[r] = restorePending[r]
  BY <1>t
<1>6. \A b \in Blocks :
        \/ blockHash'[b] = blockHash[b] \/ blockHash'[b] = NoHash
        \/ /\ ~restorePending'[s]
           /\ \E i \in 1 .. Computed(s)' : b = blockTable'[s][i]
  BY <1>t, <1>2, <1>3, <1>4
<1> QED BY <1>1, <1>4, <1>5, <1>6, RowsAfter

\* hash_blocks: what the forward pass has stored counts, and its complete
\* blocks can be found.
LEMMA RowsHashBlocks ==
  ASSUME IInv, IInv', RowsInv, kv' = kv, NEW s \in Seqs, NEW n \in Nat,
         HashBlocks(s, n),
         RowsRight(s, numCached[s] + 1 .. numCached[s] + n)
  PROVE  RowsInv'
<1>t. /\ tokens' = tokens /\ blockTable' = blockTable /\ ~restorePending[s]
      /\ numCached' = [numCached EXCEPT ![s] = @ + n]
      /\ numCached \in [Seqs -> Nat]
      /\ restorePending' = restorePending
      /\ Label(s, ChainRoot(s), Computed(s), (numCached[s] + n) \div BlockSize)
      /\ Computed(s) \in Nat
  BY CountsFit DEF IInv, BMTypeOK, HashBlocks
<1>0. /\ numCached'[s] = numCached[s] + n /\ numCached[s] \in Nat
      /\ numCached[s] + n \in Nat
  BY <1>t
<1>1. ContextRight(s)'
  <2>1. ContextRight(s)
    BY <1>t DEF RowsInv, CachedContextRight
  <2> SUFFICES ASSUME NEW p \in 1 .. numCached'[s] PROVE Row(s, p)' = Prefix(s, p)'
    BY DEF ContextRight
  <2>2. p \in 1 .. numCached[s] \/ p \in numCached[s] + 1 .. numCached[s] + n
    BY <1>0
  <2>3. Row(s, p) = Prefix(s, p)
    BY <2>1, <2>2 DEF ContextRight, RowsRight
  <2> QED BY <1>t, <2>3 DEF Row, Prefix
<1>2. Computed(s)' = (numCached[s] + n) \div BlockSize /\ Computed(s)' \in Nat
  BY <1>0, DivBounds DEF Computed
<1>3. \A b \in Blocks : \/ blockHash'[b] = blockHash[b]
                        \/ \E i \in 1 .. Computed(s)' : b = blockTable[s][i]
  <2> DEFINE to == (numCached[s] + n) \div BlockSize
  <2>1. to \in Nat /\ Label(s, ChainRoot(s), Computed(s), to) /\ Computed(s)' = to
    BY <1>t, <1>2
  <2> HIDE DEF to
  <2>2. \A b \in Blocks : \/ blockHash'[b] = blockHash[b]
                          \/ \E i \in 1 .. to : b = blockTable[s][i]
    BY <1>t, <2>1, LabelTouches
  <2> QED BY <2>1, <2>2
<1>4. ~restorePending'[s]
  BY <1>t
<1>5. \A r \in Seqs : r # s =>
        /\ numCached'[r] = numCached[r] /\ blockTable'[r] = blockTable[r]
        /\ tokens'[r] = tokens[r] /\ restorePending'[r] = restorePending[r]
  BY <1>t
<1>6. \A b \in Blocks :
        \/ blockHash'[b] = blockHash[b] \/ blockHash'[b] = NoHash
        \/ /\ ~restorePending'[s]
           /\ \E i \in 1 .. Computed(s)' : b = blockTable'[s][i]
  BY <1>t, <1>3, <1>4
<1> QED BY <1>1, <1>4, <1>5, <1>6, RowsAfter

\* Sequence.__init__ and append_token: nothing that is cached changes.
LEMMA RowsTokens ==
  ASSUME IInv, IInv', RowsInv, kv' = kv, NEW s \in Seqs,
         UNCHANGED <<numCached, blockTable, blockHash, restorePending>>,
         \A r \in Seqs : r # s => tokens'[r] = tokens[r],
         \A p \in 1 .. numCached[s] : Prefix(s, p)' = Prefix(s, p)
  PROVE  RowsInv'
<1>1. ASSUME ~restorePending[s] PROVE ContextRight(s)'
  <2>1. ContextRight(s)
    BY <1>1 DEF RowsInv, CachedContextRight
  <2>2. \A p : Row(s, p)' = Row(s, p)
    BY DEF Row
  <2> QED BY <2>1, <2>2, ContextKept
<1>2. restorePending[s] => numCached'[s] = Computed(s)' * BlockSize
  BY DEF RowsInv, RestoresWholeBlocks, Computed
<1> QED BY <1>1, <1>2, RowsAfter

\* A request that is added has nothing cached.
LEMMA RowsNewSequence ==
  ASSUME IInv, IInv', RowsInv, kv' = kv, NEW s \in Seqs, NEW p, NewSequence(s, p)
  PROVE  RowsInv'
<1>1. numCached[s] \in Nat /\ numCached[s] <= 0
  BY CountsFit, EmptySeq DEF NewSequence
<1>2. /\ \A r \in Seqs : r # s => tokens'[r] = tokens[r]
      /\ UNCHANGED <<numCached, blockTable, blockHash, restorePending>>
  BY DEF NewSequence, allocVars, IInv, BMTypeOK
<1>3. \A q \in 1 .. numCached[s] : Prefix(s, q)' = Prefix(s, q)
  BY <1>1
<1> QED BY <1>2, <1>3, RowsTokens

\* A new token comes after all that is cached.
LEMMA RowsAppendToken ==
  ASSUME IInv, IInv', RowsInv, kv' = kv, NEW s \in Seqs, NEW t \in Token,
         AppendToken(s, t)
  PROVE  RowsInv' /\ \A p \in 0 .. Len(tokens[s]) : Prefix(s, p)' = Prefix(s, p)
<1>1. /\ tokens \in [Seqs -> Seq(Token)] /\ tokens[s] \in Seq(Token)
      /\ tokens' = [tokens EXCEPT ![s] = Append(@, t)]
      /\ numCached[s] = Len(tokens[s]) /\ Len(tokens[s]) \in Nat
      /\ UNCHANGED <<numCached, blockTable, blockHash, restorePending>>
  BY LenProperties DEF AppendToken, allocVars, IInv, BMTypeOK
<1>2. tokens'[s] = Append(tokens[s], t)
      /\ \A r \in Seqs : r # s => tokens'[r] = tokens[r]
  BY <1>1
<1>3. ASSUME NEW p \in 0 .. Len(tokens[s]) PROVE Prefix(s, p)' = Prefix(s, p)
  <2>1. p \in Nat /\ p <= Len(tokens[s])
    BY <1>1
  <2>2. SubSeq(Append(tokens[s], t), 1, p) = SubSeq(tokens[s], 1, p)
    BY <1>1, <2>1, CutAppend
  <2> QED BY <1>2, <2>2 DEF Prefix
<1>4. \A p \in 1 .. numCached[s] : Prefix(s, p)' = Prefix(s, p)
  BY <1>1, <1>3
<1> QED BY <1>1, <1>2, <1>3, <1>4, RowsTokens

\* evict_free_cached_blocks takes labels away.
LEMMA RowsEvict ==
  ASSUME RowsInv, kv' = kv, EvictFreeCachedBlocks
  PROVE  RowsInv'
<1>1. /\ UNCHANGED <<tokens, numCached, blockTable, restorePending>>
      /\ \A b \in Blocks : blockHash'[b] = blockHash[b] \/ blockHash'[b] = NoHash
  BY DEF EvictFreeCachedBlocks, CleanLabels
<1>2. LabelsHonest'
  BY <1>1, LabelsKept DEF RowsInv
<1>3. CachedContextRight'
  BY <1>1, OtherKept DEF RowsInv, CachedContextRight
<1>4. RestoresWholeBlocks'
  BY <1>1 DEF RowsInv, RestoresWholeBlocks, Computed
<1> QED BY <1>2, <1>3, <1>4 DEF RowsInv

\* Nothing of the allocator changes.
LEMMA RowsSame ==
  ASSUME RowsInv, kv' = kv, UNCHANGED bmVars
  PROVE  RowsInv'
<1>1. UNCHANGED <<tokens, numCached, blockTable, restorePending, blockHash>>
  BY DEF bmVars
<1>2. LabelsHonest'
  BY <1>1, LabelsKept DEF RowsInv
<1>3. CachedContextRight'
  BY <1>1, OtherKept DEF RowsInv, CachedContextRight
<1>4. RestoresWholeBlocks'
  BY <1>1 DEF RowsInv, RestoresWholeBlocks, Computed
<1> QED BY <1>2, <1>3, <1>4 DEF RowsInv

-----------------------------------------------------------------------------
(* The forward pass *)

\* The sequences of a batch that is about to run: where its chunk lies.
LEMMA ChunkFits ==
  ASSUME SInv, pc = "dispatch", NEW s \in Range(batch), NEW p \in Chunk(s)
  PROVE  /\ s \in Seqs /\ p \in Nat /\ p > numCached[s] /\ p > 0
         /\ numCached[s] \in Nat /\ p <= Len(tokens[s])
         /\ Len(blockTable[s]) = NumBlocks(s)
         /\ p <= Len(blockTable[s]) * BlockSize
         /\ ~prefillStep => p = Len(tokens[s])
<1>1. s \in Seqs /\ STypeOK /\ BMTypeOK /\ IInv /\ numCached[s] \in Nat
  BY SInvTypes DEF SInv
<1>2. /\ scheduled[s] \in Nat /\ Len(tokens[s]) \in Nat
      /\ tokens[s] \in Seq(Token)
  BY <1>1, LenProperties DEF STypeOK, BMTypeOK
<1>3. ~Done(s)
  BY DEF Done
<1>4. /\ Len(blockTable[s]) = NumBlocks(s)
      /\ IF s \in Range(waiting)
         THEN numCached[s] + scheduled[s] < Len(tokens[s])
         ELSE numCached[s] + scheduled[s] = Len(tokens[s])
      /\ ~prefillStep => scheduled[s] = 1
  BY <1>3 DEF SInv, ProgressInv
<1>5. p \in Nat /\ p > numCached[s] /\ p > 0 /\ p <= numCached[s] + scheduled[s]
  BY <1>1, <1>2 DEF Chunk
<1>6. p <= Len(tokens[s])
  BY <1>1, <1>2, <1>4, <1>5
<1>7. /\ NumBlocks(s) \in Nat /\ Len(tokens[s]) <= NumBlocks(s) * BlockSize
      /\ NumBlocks(s) * BlockSize \in Nat
  BY <1>1, NumBlocksFacts, MulType DEF BMTypeOK
<1>8. ASSUME ~prefillStep PROVE p = Len(tokens[s])
  <2>1. s \in Range(running)
    BY <1>8 DEF SInv, BatchInv
  <2>2. s \notin Range(waiting)
    BY <2>1 DEF SInv, StatusInv, Finishing
  <2> QED BY <1>1, <1>2, <1>4, <1>5, <1>8, <2>2
<1> QED BY <1>1, <1>2, <1>4, <1>5, <1>6, <1>7, <1>8

\* ... and that its blocks are nobody else's and have no label.
LEMMA ChunkExclusive ==
  ASSUME SInv, pc = "dispatch", NEW s \in Range(batch), NEW p \in Chunk(s)
  PROVE  /\ Slot(s, p) = <<blockTable[s][BlocksBefore(p) + 1], RowOf(p)>>
         /\ BlocksBefore(p) + 1 \in 1 .. Len(blockTable[s])
         /\ blockTable[s][BlocksBefore(p) + 1] \in Blocks
         /\ RowOf(p) \in 1 .. BlockSize
         /\ Owners(blockTable[s][BlocksBefore(p) + 1]) = {s}
         /\ blockHash[blockTable[s][BlocksBefore(p) + 1]] = NoHash
<1>1. /\ s \in Seqs /\ p \in Nat /\ p > numCached[s] /\ p > 0
      /\ numCached[s] \in Nat
      /\ p <= Len(blockTable[s]) * BlockSize
      /\ IInv
  BY ChunkFits DEF SInv
<1>2. /\ BlocksBefore(p) + 1 \in 1 .. Len(blockTable[s])
      /\ blockTable[s][BlocksBefore(p) + 1] \in Blocks
      /\ RowOf(p) \in 1 .. BlockSize
  BY <1>1, PositionInTable
<1>3. Computed(s) \in Nat /\ Computed(s) * BlockSize <= numCached[s]
  BY <1>1, CountsFit
<1>4. Computed(s) * BlockSize \in Nat
  BY <1>3, MulType
<1>5. p > Computed(s) * BlockSize
  BY <1>1, <1>3, <1>4
<1>6. BlocksBefore(p) + 1 > Computed(s)
  BY <1>1, <1>3, <1>5, PositionWithin
<1>7. /\ Owners(blockTable[s][BlocksBefore(p) + 1]) = {s}
      /\ blockHash[blockTable[s][BlocksBefore(p) + 1]] = NoHash
  BY <1>1, <1>2, <1>6 DEF IInv, WritableBlocksExclusive
<1> QED BY <1>2, <1>7 DEF Slot, BlocksBefore, RowOf

\* Positions of s in the same row of the same block are the same.
LEMMA SamePlace ==
  ASSUME IInv, NEW s \in Seqs, NEW p \in Nat, NEW q \in Nat, p > 0, q > 0,
         BlocksBefore(p) + 1 \in 1 .. Len(blockTable[s]),
         BlocksBefore(q) + 1 \in 1 .. Len(blockTable[s]),
         blockTable[s][BlocksBefore(p) + 1] = blockTable[s][BlocksBefore(q) + 1],
         RowOf(p) = RowOf(q)
  PROVE  p = q
<1>1. IsInjective(blockTable[s]) /\ blockTable[s] \in Seq(Blocks)
  BY DEF IInv, TablesInjective, BMTypeOK
<1>2. DOMAIN blockTable[s] = 1 .. Len(blockTable[s])
  BY <1>1, LenProperties
<1>3. BlocksBefore(p) + 1 = BlocksBefore(q) + 1
  BY <1>1, <1>2 DEF IsInjective
<1>4. BlocksBefore(p) \in Nat /\ BlocksBefore(q) \in Nat
  BY Position
<1>5. BlocksBefore(p) = BlocksBefore(q)
  BY <1>3, <1>4
<1>6. /\ p = BlocksBefore(p) * BlockSize + RowOf(p)
      /\ q = BlocksBefore(q) * BlockSize + RowOf(q)
  BY Position
<1> QED BY <1>5, <1>6

\* prepare_decode's slot is where prepare_prefill would put the last token.
LEMMA DecodeSlotIsSlot ==
  ASSUME IInv, NEW s \in Seqs, tokens[s] # <<>>, Len(blockTable[s]) = NumBlocks(s)
  PROVE  DecodeSlot(s) = Slot(s, Len(tokens[s]))
<1> DEFINE p == Len(tokens[s])
           n == NumBlocks(s)
<1>1. /\ p \in Nat /\ p > 0
      /\ n \in Nat /\ p <= n * BlockSize /\ n * BlockSize < p + BlockSize
      /\ n * BlockSize \in Nat
  <2>1. BMTypeOK /\ Len(tokens[s]) \in Nat /\ Len(tokens[s]) # 0
    BY TableLen DEF IInv
  <2>2. NumBlocks(s) \in Nat /\ p <= n * BlockSize /\ n * BlockSize < p + BlockSize
    BY <2>1, NumBlocksFacts DEF BMTypeOK
  <2> QED BY <2>1, <2>2, MulType
<1>s. Len(blockTable[s]) = n
  OBVIOUS
<1> HIDE DEF p, n
<1>2. BlocksBefore(p) \in Nat /\ p = BlocksBefore(p) * BlockSize + RowOf(p)
      /\ BlocksBefore(p) + 1 <= n /\ RowOf(p) \in 1 .. BlockSize
  BY <1>1, Position, PositionWithin
<1>3. n - 1 \in Nat /\ (n - 1) * BlockSize \in Nat
      /\ n * BlockSize = (n - 1) * BlockSize + BlockSize
  <2>1. n - 1 \in Nat /\ (n - 1) + 1 = n
    BY <1>1, <1>2
  <2> QED BY <2>1, MulType, MulStep
<1>4. p > (n - 1) * BlockSize
  BY <1>1, <1>3, BlockSizeAssumption
<1>5. BlocksBefore(p) + 1 > n - 1
  BY <1>1, <1>3, <1>4, PositionWithin
<1>6. BlocksBefore(p) = n - 1 /\ BlocksBefore(p) + 1 = n
  BY <1>1, <1>2, <1>5
<1>7. RowOf(p) = p - (n - 1) * BlockSize
  BY <1>1, <1>2, <1>3, <1>6
<1>8. Slot(s, p) = <<blockTable[s][n], p - (n - 1) * BlockSize>>
  BY <1>6, <1>7 DEF Slot, BlocksBefore, RowOf
<1>9. DecodeSlot(s) = <<blockTable[s][n], p - (n - 1) * BlockSize>>
  BY <1>s DEF DecodeSlot, Last, p, n
<1> QED BY <1>8, <1>9 DEF p

\* What a batch stores: the KV of each position of its chunks, in its slot.
LEMMA WritesAre ==
  ASSUME SInv, RowsInv, pc = "dispatch", Pending = {}
  PROVE  \A w : w \in Writes <=>
           \E s \in Range(batch) : \E p \in Chunk(s) : w = <<Slot(s, p), Prefix(s, p)>>
<1>1. ASSUME NEW s \in Range(batch) PROVE ContextRight(s)
  <2>1. s \in Seqs /\ ~restorePending[s]
    BY SInvTypes DEF Pending
  <2> QED BY <2>1 DEF RowsInv, CachedContextRight
<1>2. ASSUME NEW s \in Range(batch), NEW p \in Chunk(s)
      PROVE  (IF prefillStep THEN Slot(s, p) ELSE DecodeSlot(s)) = Slot(s, p)
  <2>1. CASE prefillStep
    BY <2>1
  <2>2. CASE ~prefillStep
    <3>1. /\ s \in Seqs /\ p = Len(tokens[s]) /\ p > 0 /\ p \in Nat
          /\ Len(blockTable[s]) = NumBlocks(s) /\ IInv /\ BMTypeOK
      BY <2>2, ChunkFits, SInvTypes DEF SInv
    <3>2. tokens[s] # <<>>
      BY <3>1, TableLen
    <3>3. DecodeSlot(s) = Slot(s, Len(tokens[s]))
      BY <3>1, <3>2, DecodeSlotIsSlot
    <3> QED BY <2>2, <3>1, <3>3
  <2> QED BY <2>1, <2>2
<1>3. Writes = UNION {{<<Slot(s, p), Prefix(s, p)>> : p \in Chunk(s)} : s \in Range(batch)}
  <2>1. \A s \in Range(batch) :
          {<<IF prefillStep THEN Slot(s, p) ELSE DecodeSlot(s),
             IF ContextRight(s) THEN Prefix(s, p) ELSE NoRow>> : p \in Chunk(s)}
          = {<<Slot(s, p), Prefix(s, p)>> : p \in Chunk(s)}
    BY <1>1, <1>2
  <2> QED BY <2>1 DEF Writes
<1> QED BY <1>3

\* No two positions of a batch share a slot.
LEMMA SlotsDistinct ==
  ASSUME SInv, pc = "dispatch",
         NEW s \in Range(batch), NEW p \in Chunk(s),
         NEW r \in Range(batch), NEW q \in Chunk(r), Slot(s, p) = Slot(r, q)
  PROVE  s = r /\ p = q
<1>1. /\ s \in Seqs /\ p \in Nat /\ p > 0 /\ r \in Seqs /\ q \in Nat /\ q > 0 /\ IInv
  BY ChunkFits DEF SInv
<1> DEFINE b == blockTable[s][BlocksBefore(p) + 1]
           c == blockTable[r][BlocksBefore(q) + 1]
<1>2. Slot(s, p) = <<b, RowOf(p)>> /\ Slot(r, q) = <<c, RowOf(q)>>
  BY ChunkExclusive
<1>3. b = c /\ RowOf(p) = RowOf(q)
  <2> DEFINE x == RowOf(p)
             y == RowOf(q)
  <2>1. <<b, x>> = <<c, y>>
    BY <1>2
  <2> HIDE DEF b, c, x, y
  <2>2. b = c /\ x = y
    BY <2>1
  <2> QED BY <2>2 DEF x, y
<1>4. /\ BlocksBefore(p) + 1 \in 1 .. Len(blockTable[s])
      /\ BlocksBefore(q) + 1 \in 1 .. Len(blockTable[r])
      /\ Owners(b) = {s} /\ Owners(c) = {r}
  BY ChunkExclusive
<1>5. s = r
  BY <1>3, <1>4
<1>6. p = q
  BY <1>1, <1>3, <1>4, <1>5, SamePlace
<1> QED BY <1>5, <1>6

\* The rows that a forward pass stores in row o of block b.
RowsStored(b, o) == {w[2] : w \in {v \in Writes : v[1] = <<b, o>>}}

\* store_kvcache: every slot of the batch gets its row, no other row changes.
LEMMA StoreKVEffect ==
  ASSUME SInv, KVTypeOK, RowsInv, pc = "dispatch", Pending = {}, StoreKV
  PROVE  /\ kv' \in [Blocks -> [1 .. BlockSize -> Seq(Token)]]
         /\ \A s \in Range(batch) : \A p \in Chunk(s) :
              kv'[blockTable[s][BlocksBefore(p) + 1]][RowOf(p)] = Prefix(s, p)
         /\ \A b \in Blocks : \A o \in 1 .. BlockSize :
              (~\E s \in Range(batch) : \E p \in Chunk(s) : Slot(s, p) = <<b, o>>)
                => kv'[b][o] = kv[b][o]
<1>1. kv' = [b \in Blocks |-> [o \in 1 .. BlockSize |->
               IF RowsStored(b, o) = {} THEN kv[b][o]
               ELSE IF Cardinality(RowsStored(b, o)) = 1
                    THEN CHOOSE r \in RowsStored(b, o) : TRUE
                    ELSE NoRow]]
  BY DEF StoreKV, RowsStored
<1>2. \A b, o : RowsStored(b, o) =
        {w[2] : w \in {v \in Writes : v[1] = <<b, o>>}}
  BY DEF RowsStored
<1>w. \A w : w \in Writes <=>
           \E s \in Range(batch) : \E p \in Chunk(s) : w = <<Slot(s, p), Prefix(s, p)>>
  BY WritesAre
<1>3. ASSUME NEW s \in Range(batch), NEW p \in Chunk(s), NEW b, NEW o,
             Slot(s, p) = <<b, o>>
      PROVE  RowsStored(b, o) = {Prefix(s, p)}
  <2>1. ASSUME NEW x \in RowsStored(b, o) PROVE x = Prefix(s, p)
    <3>1. PICK w \in Writes : w[1] = <<b, o>> /\ x = w[2]
      BY <1>2
    <3>2. PICK r \in Range(batch) : \E q \in Chunk(r) : w = <<Slot(r, q), Prefix(r, q)>>
      BY <1>w, <3>1
    <3>3. PICK q \in Chunk(r) : w = <<Slot(r, q), Prefix(r, q)>>
      BY <3>2
    <3>4. Slot(s, p) = Slot(r, q)
      BY <1>3, <3>1, <3>3
    <3>5. s = r /\ p = q
      BY <3>4, SlotsDistinct
    <3> QED BY <3>1, <3>3, <3>5
  <2>2. Prefix(s, p) \in RowsStored(b, o)
    <3> DEFINE w == <<Slot(s, p), Prefix(s, p)>>
    <3>1. w \in Writes
      BY <1>w
    <3>2. w[1] = <<b, o>> /\ w[2] = Prefix(s, p)
      BY <1>3
    <3> HIDE DEF w
    <3> QED BY <1>2, <3>1, <3>2
  <2> QED BY <2>1, <2>2
<1>4. ASSUME NEW b, NEW o,
             ~\E s \in Range(batch) : \E p \in Chunk(s) : Slot(s, p) = <<b, o>>
      PROVE  RowsStored(b, o) = {}
  <2> SUFFICES ASSUME NEW w \in Writes, w[1] = <<b, o>> PROVE FALSE
    BY <1>2
  <2>1. PICK s \in Range(batch) : \E p \in Chunk(s) : w = <<Slot(s, p), Prefix(s, p)>>
    BY <1>w
  <2> QED BY <1>4, <2>1
<1>5. ASSUME NEW s \in Range(batch), NEW p \in Chunk(s), NEW b \in Blocks,
             NEW o \in 1 .. BlockSize, Slot(s, p) = <<b, o>>
      PROVE  kv'[b][o] = Prefix(s, p)
  <2>1. RowsStored(b, o) = {Prefix(s, p)}
    BY <1>3, <1>5
  <2>2. Cardinality({Prefix(s, p)}) = 1
    BY FS_Singleton
  <2>3. kv'[b][o] = CHOOSE r \in {Prefix(s, p)} : TRUE
    BY <1>1, <2>1, <2>2
  <2> QED BY <2>3
<1>6. ASSUME NEW b \in Blocks, NEW o \in 1 .. BlockSize,
             ~\E s \in Range(batch) : \E p \in Chunk(s) : Slot(s, p) = <<b, o>>
      PROVE  kv'[b][o] = kv[b][o]
  <2>1. RowsStored(b, o) = {}
    BY <1>4, <1>6
  <2> QED BY <1>1, <2>1
<1>7. ASSUME NEW s \in Range(batch), NEW p \in Chunk(s)
      PROVE  Prefix(s, p) \in Seq(Token)
  <2>1. s \in Seqs /\ p \in Nat /\ p > 0 /\ p <= Len(tokens[s]) /\ BMTypeOK
    BY ChunkFits, SInvTypes
  <2>2. tokens[s] \in Seq(Token) /\ Len(tokens[s]) \in Nat
    BY <2>1, LenProperties DEF BMTypeOK
  <2>3. \A i \in 1 .. p : tokens[s][i] \in Token
    BY <2>1, <2>2, ElementOfSeq
  <2> QED BY <2>1, <2>2, <2>3, SubSeqProperties DEF Prefix
<1>8. \A b \in Blocks : \A o \in 1 .. BlockSize : kv'[b][o] \in Seq(Token)
  <2> SUFFICES ASSUME NEW b \in Blocks, NEW o \in 1 .. BlockSize
               PROVE  kv'[b][o] \in Seq(Token)
    OBVIOUS
  <2>1. CASE \E s \in Range(batch) : \E p \in Chunk(s) : Slot(s, p) = <<b, o>>
    BY <2>1, <1>5, <1>7
  <2>2. CASE ~\E s \in Range(batch) : \E p \in Chunk(s) : Slot(s, p) = <<b, o>>
    BY <2>2, <1>6 DEF KVTypeOK
  <2> QED BY <2>1, <2>2
<1>9. kv' \in [Blocks -> [1 .. BlockSize -> Seq(Token)]]
  <2>1. \A b \in Blocks : kv'[b] = [o \in 1 .. BlockSize |-> kv'[b][o]]
    BY <1>1
  <2>2. \A b \in Blocks : kv'[b] \in [1 .. BlockSize -> Seq(Token)]
    BY <1>8, <2>1
  <2>3. kv' = [b \in Blocks |-> kv'[b]]
    BY <1>1
  <2> QED BY <2>2, <2>3
<1>10. ASSUME NEW s \in Range(batch), NEW p \in Chunk(s)
       PROVE  kv'[blockTable[s][BlocksBefore(p) + 1]][RowOf(p)] = Prefix(s, p)
  BY <1>5, ChunkExclusive
<1> QED BY <1>6, <1>9, <1>10

\* The batch overwrites no row that counts or can be found.
LEMMA RunKeepsRows ==
  ASSUME SInv, KVTypeOK, RowsInv, pc = "dispatch", Pending = {}, StoreKV,
         UNCHANGED bmVars
  PROVE  RowsInv'
<1>t. /\ IInv /\ UNCHANGED <<tokens, numCached, blockTable, restorePending, blockHash>>
  BY DEF SInv, bmVars
<1>k. \A b \in Blocks : \A o \in 1 .. BlockSize :
        (~\E s \in Range(batch) : \E p \in Chunk(s) : Slot(s, p) = <<b, o>>)
           => kv'[b][o] = kv[b][o]
  BY StoreKVEffect
<1>1. LabelsHonest'
  <2> SUFFICES ASSUME NEW b \in Blocks, blockHash[b] # NoHash, NEW o \in 1 .. BlockSize
               PROVE  kv'[b][o] = kv[b][o]
    BY <1>t DEF RowsInv, LabelsHonest
  <2>1. ASSUME NEW s \in Range(batch), NEW p \in Chunk(s), Slot(s, p) = <<b, o>>
        PROVE  FALSE
    <3>1. /\ Slot(s, p) = <<blockTable[s][BlocksBefore(p) + 1], RowOf(p)>>
          /\ blockHash[blockTable[s][BlocksBefore(p) + 1]] = NoHash
      BY ChunkExclusive
    <3> QED BY <2>1, <3>1
  <2> QED BY <1>k, <2>1
<1>2. CachedContextRight'
  <2> SUFFICES ASSUME NEW r \in Seqs, ~restorePending'[r] PROVE ContextRight(r)'
    BY DEF CachedContextRight
  <2>1. ContextRight(r)
    BY <1>t DEF RowsInv, CachedContextRight
  <2>2. ASSUME NEW q \in 1 .. numCached[r]
        PROVE  Row(r, q)' = Row(r, q) /\ Prefix(r, q)' = Prefix(r, q)
    <3> DEFINE b == blockTable[r][BlocksBefore(q) + 1]
    <3>1. /\ q \in Nat /\ q > 0
          /\ BlocksBefore(q) + 1 \in 1 .. Len(blockTable[r])
          /\ b \in Blocks /\ r \in Owners(b) /\ RowOf(q) \in 1 .. BlockSize
      BY <1>t, CachedInTable
    <3>2. ASSUME NEW s \in Range(batch), NEW p \in Chunk(s), Slot(s, p) = <<b, RowOf(q)>>
          PROVE  FALSE
      <4> DEFINE c == blockTable[s][BlocksBefore(p) + 1]
      <4>1. /\ Slot(s, p) = <<c, RowOf(p)>> /\ Owners(c) = {s}
            /\ BlocksBefore(p) + 1 \in 1 .. Len(blockTable[s])
        BY ChunkExclusive
      <4>2. p \in Nat /\ p > 0 /\ p > numCached[s] /\ numCached[s] \in Nat /\ s \in Seqs
        BY ChunkFits
      <4>3. c = b /\ RowOf(p) = RowOf(q)
        BY <3>2, <4>1
      <4>4. r = s
        BY <3>1, <4>1, <4>3
      <4>5. p = q
        BY <1>t, <3>1, <4>1, <4>2, <4>3, <4>4, SamePlace
      <4> QED BY <4>2, <4>4, <4>5
    <3>3. kv'[b][RowOf(q)] = kv[b][RowOf(q)]
      BY <1>k, <3>1, <3>2
    <3> QED BY <1>t, <3>3 DEF Row, Prefix, BlocksBefore, RowOf
  <2> QED BY <1>t, <2>1, <2>2, ContextKept
<1>3. RestoresWholeBlocks'
  BY <1>t DEF RowsInv, RestoresWholeBlocks, Computed
<1> QED BY <1>1, <1>2, <1>3 DEF RowsInv

\* A restore that starts over, or none.
LEMMA RestoredReset ==
  ASSUME IInv', restored' = 0
  PROVE  RestoredInv'
<1> SUFFICES ASSUME NEW s \in Seqs
             PROVE  restored' <= Computed(s)' /\ RowsRight(s, 1 .. restored * BlockSize)'
  BY DEF RestoredInv
<1>1. Computed(s)' \in Nat
  <2>1. numCached'[s] \in Nat
    BY DEF IInv, BMTypeOK
  <2> QED BY <2>1, DivBounds DEF Computed
<1>2. 1 .. restored' * BlockSize = {}
  BY BlockSizeAssumption
<1> QED BY <1>1, <1>2 DEF RowsRight

\* model_runner.run: the forward pass of a batch.
LEMMA RunEngineStep ==
  ASSUME EInv, SInv', Run, StoreKV, restored' = restored
  PROVE  EInv'
<1>t. /\ SInv /\ KVTypeOK /\ RowsInv /\ RestoredInv
      /\ pc = "dispatch" /\ Pending = {} /\ pc' = "post" /\ batch' = batch
      /\ UNCHANGED bmVars /\ scheduled' = scheduled
  BY DEF EInv, Run, seqVars
<1>1. RowsInv'
  BY <1>t, RunKeepsRows
<1>2. KVTypeOK'
  BY <1>t, StoreKVEffect DEF KVTypeOK
<1>3. ChunkRight'
  <2> SUFFICES ASSUME NEW s \in Range(batch) PROVE RowsRight(s, Chunk(s))'
    BY <1>t DEF ChunkRight
  <2>1. Chunk(s)' = Chunk(s) /\ blockTable' = blockTable /\ tokens' = tokens
    BY <1>t DEF Chunk, bmVars
  <2>2. \A p \in Chunk(s) :
          kv'[blockTable[s][BlocksBefore(p) + 1]][RowOf(p)] = Prefix(s, p)
    BY <1>t, StoreKVEffect
  <2> QED BY <2>1, <2>2 DEF RowsRight, Row, Prefix, BlocksBefore, RowOf
<1>4. restored' = 0
  <2>1. ASSUME NEW s \in Seqs, restorePending[s] PROVE FALSE
    <3>1. batch = <<s>>
      BY <2>1 DEF EInv, SInv, RestoreInv
    <3>2. batch \in Seq(Seqs) /\ Len(batch) = 1 /\ batch[1] = s
      BY <1>t, <3>1, SInvTypes
    <3>3. s \in Range(batch)
      BY <3>2, RangeIn
    <3> QED BY <1>t, <2>1, <3>3 DEF Pending
  <2> QED BY <1>t, <2>1 DEF RestoredInv
<1>5. RestoredInv'
  BY <1>4, RestoredReset DEF SInv
<1> QED BY <1>1, <1>2, <1>3, <1>5 DEF EInv

-----------------------------------------------------------------------------
(* Restores *)

\* At most one sequence waits for a restore: it is the batch.
LEMMA PendingOne ==
  ASSUME SInv
  PROVE  /\ Pending \subseteq Seqs
         /\ \A s \in Pending : restorePending[s] /\ batch = <<s>>
         /\ \A r, s \in Seqs : restorePending[r] /\ s \in Pending => r = s
<1>1. batch \in Seq(Seqs) /\ Range(batch) \subseteq Seqs
  BY SInvTypes
<1>2. Pending \subseteq Seqs /\ \A s \in Pending : restorePending[s]
  BY <1>1 DEF Pending
<1>3. \A s \in Seqs : restorePending[s] => batch = <<s>>
  BY DEF SInv, RestoreInv
<1>4. ASSUME NEW r \in Seqs, NEW s \in Seqs, batch = <<r>>, batch = <<s>> PROVE r = s
  BY <1>4
<1> QED BY <1>2, <1>3, <1>4

\* The blocks that wait for a restore are nobody else's and have no label.
LEMMA PendingExclusive ==
  ASSUME SInv, NEW s \in Pending, NEW i \in 1 .. Computed(s)
  PROVE  /\ s \in Seqs /\ i \in 1 .. Len(blockTable[s])
         /\ blockTable[s][i] \in Blocks
         /\ Owners(blockTable[s][i]) = {s}
         /\ blockHash[blockTable[s][i]] = NoHash
<1>1. s \in Seqs /\ restorePending[s] /\ IInv
  BY PendingOne DEF SInv
<1>2. Computed(s) \in Nat /\ Computed(s) <= Len(blockTable[s]) /\ Len(blockTable[s]) \in Nat
  BY <1>1, ComputedFacts DEF IInv
<1>3. i \in 1 .. Len(blockTable[s])
  BY <1>2
<1> QED BY <1>1, <1>3, TableElement DEF IInv, WritableBlocksExclusive

\* What RowsInv needs when one block that only `s' owns is written.
LEMMA RowsBlockWritten ==
  ASSUME IInv, RowsInv, NEW s \in Seqs, NEW c,
         Owners(c) = {s}, c \in Blocks => blockHash[c] = NoHash,
         \A b \in Blocks : b # c => kv'[b] = kv[b],
         blockHash' = blockHash, tokens' = tokens,
         \A r \in Seqs : r # s =>
           /\ numCached'[r] = numCached[r] /\ blockTable'[r] = blockTable[r]
           /\ restorePending'[r] = restorePending[r],
         ~restorePending'[s] => ContextRight(s)',
         restorePending'[s] => numCached'[s] = Computed(s)' * BlockSize
  PROVE  RowsInv'
<1>1. LabelsHonest'
  <2> SUFFICES ASSUME NEW b \in Blocks, blockHash[b] # NoHash PROVE kv'[b] = kv[b]
    BY DEF RowsInv, LabelsHonest
  <2> QED OBVIOUS
<1>2. CachedContextRight'
  <2> SUFFICES ASSUME NEW r \in Seqs, ~restorePending'[r], r # s PROVE ContextRight(r)'
    BY DEF CachedContextRight
  <2>1. ContextRight(r)
    BY DEF RowsInv, CachedContextRight
  <2>2. ASSUME NEW q \in 1 .. numCached[r]
        PROVE  Row(r, q)' = Row(r, q) /\ Prefix(r, q)' = Prefix(r, q)
    <3> DEFINE b == blockTable[r][BlocksBefore(q) + 1]
    <3>1. b \in Blocks /\ r \in Owners(b)
      BY CachedInTable
    <3>2. b # c
      BY <3>1
    <3>3. kv'[b] = kv[b]
      BY <3>1, <3>2
    <3> QED BY <3>3 DEF Row, Prefix, BlocksBefore, RowOf
  <2> QED BY <2>1, <2>2, ContextKept
<1>3. RestoresWholeBlocks'
  <2> SUFFICES ASSUME NEW r \in Seqs, restorePending'[r], r # s
               PROVE  numCached'[r] = Computed(r)' * BlockSize
    BY DEF RestoresWholeBlocks
  <2>1. Computed(r)' = Computed(r)
    BY DEF Computed
  <2> QED BY <2>1 DEF RowsInv, RestoresWholeBlocks
<1> QED BY <1>1, <1>2, <1>3 DEF RowsInv

\* A prefix that the tokens cover is a list of tokens.
LEMMA PrefixType ==
  ASSUME BMTypeOK, NEW s \in Seqs, NEW p \in Nat, p <= Len(tokens[s])
  PROVE  Prefix(s, p) \in Seq(Token)
<1>1. tokens[s] \in Seq(Token) /\ Len(tokens[s]) \in Nat
  BY LenProperties DEF BMTypeOK
<1>2. \A i \in 1 .. p : tokens[s][i] \in Token
  BY <1>1, ElementOfSeq
<1> QED BY <1>1, <1>2, SubSeqProperties DEF Prefix

\* One block of a restore.
LEMMA RestoreBlockStep ==
  ASSUME EInv, RestoreBlock
  PROVE  EInv'
<1>t. /\ SInv /\ IInv /\ BMTypeOK /\ KVTypeOK /\ RowsInv /\ RestoredInv
      /\ pc = "dispatch" /\ restored' = restored + 1 /\ UNCHANGED vars
      /\ restored \in Nat
  BY DEF EInv, SInv, IInv, KVTypeOK, RestoreBlock
<1>1. PICK s \in Pending :
        /\ restored < Computed(s)
        /\ kv' = [kv EXCEPT ![blockTable[s][restored + 1]] = BlockRows(s, restored + 1)]
  BY DEF RestoreBlock
<1> DEFINE i == restored + 1
           c == blockTable[s][i]
<1>u. /\ UNCHANGED <<tokens, numCached, blockTable, restorePending, blockHash>>
      /\ UNCHANGED bmVars /\ pc' = pc /\ batch' = batch
  BY <1>t DEF vars, bmVars, stepVars
<1>2. /\ s \in Seqs /\ restorePending[s] /\ i \in 1 .. Computed(s) /\ i \in Nat
      /\ Computed(s) \in Nat /\ Computed(s) * BlockSize <= Len(tokens[s])
      /\ Len(tokens[s]) \in Nat
  <2>1. s \in Seqs /\ restorePending[s]
    BY <1>t, PendingOne
  <2>2. Computed(s) \in Nat /\ Computed(s) * BlockSize <= Len(tokens[s])
        /\ Len(tokens[s]) \in Nat
    BY <1>t, <2>1, ComputedFacts, CountsFit DEF IInv
  <2> QED BY <1>1, <1>t, <2>1, <2>2
<1>3. /\ i \in 1 .. Len(blockTable[s]) /\ c \in Blocks
      /\ Owners(c) = {s} /\ blockHash[c] = NoHash
  BY <1>t, <1>2, PendingExclusive
<1>i. i - 1 = restored /\ i = restored + 1 /\ i - 1 \in Nat
  BY <1>t
<1> HIDE DEF i
<1>4. /\ \A b \in Blocks : b # c => kv'[b] = kv[b]
      /\ kv'[c] = BlockRows(s, i)
      /\ kv' = [kv EXCEPT ![c] = BlockRows(s, i)]
  BY <1>1, <1>t, <1>3, <1>i DEF KVTypeOK
<1>5. RowsInv'
  <2>1. restorePending'[s] /\ numCached'[s] = Computed(s)' * BlockSize
    BY <1>2, <1>u, <1>t DEF RowsInv, RestoresWholeBlocks, Computed
  <2> HIDE DEF c
  <2> QED BY <1>t, <1>u, <1>2, <1>3, <1>4, <2>1, RowsBlockWritten
<1>6. \A o \in 1 .. BlockSize :
        /\ (i - 1) * BlockSize + o \in Nat
        /\ (i - 1) * BlockSize + o <= Len(tokens[s])
  <2>1. i * BlockSize <= Computed(s) * BlockSize
    BY <1>2, MulMonoWeak
  <2>2. /\ i * BlockSize \in Nat /\ (i - 1) * BlockSize \in Nat
        /\ Computed(s) * BlockSize \in Nat
        /\ i * BlockSize = (i - 1) * BlockSize + BlockSize
    <3>1. (i - 1) + 1 = i
      BY <1>2
    <3> QED BY <1>2, <1>i, <3>1, MulType, MulStep
  <2> QED BY <1>2, <2>1, <2>2, BlockSizeAssumption
<1>7. KVTypeOK'
  <2>1. BlockRows(s, i) \in [1 .. BlockSize -> Seq(Token)]
    BY <1>t, <1>2, <1>6, PrefixType DEF BlockRows
  <2>2. kv' \in [Blocks -> [1 .. BlockSize -> Seq(Token)]]
    BY <1>t, <1>3, <1>4, <2>1 DEF KVTypeOK
  <2> QED BY <1>t, <2>2 DEF KVTypeOK
<1>8. SInv'
  BY <1>t, NextSInv
<1>9. ChunkRight'
  BY <1>t, <1>u DEF ChunkRight
<1>10. \A p \in 1 .. i * BlockSize : Row(s, p)' = Prefix(s, p)'
  <2> SUFFICES ASSUME NEW p \in 1 .. i * BlockSize PROVE Row(s, p)' = Prefix(s, p)'
    OBVIOUS
  <2>1. /\ i * BlockSize \in Nat /\ (i - 1) * BlockSize \in Nat
        /\ i * BlockSize = (i - 1) * BlockSize + BlockSize
    <3>1. (i - 1) + 1 = i
      BY <1>2
    <3> QED BY <1>2, <1>i, <3>1, MulType, MulStep
  <2>2. p \in Nat /\ p > 0 /\ p <= i * BlockSize
    BY <2>1
  <2>3. /\ BlocksBefore(p) \in Nat /\ RowOf(p) \in 1 .. BlockSize
        /\ p = BlocksBefore(p) * BlockSize + RowOf(p)
        /\ BlocksBefore(p) + 1 <= i
    BY <1>2, <2>2, Position, PositionWithin
  <2>4. /\ Row(s, p)' = kv'[blockTable[s][BlocksBefore(p) + 1]][RowOf(p)]
        /\ Row(s, p) = kv[blockTable[s][BlocksBefore(p) + 1]][RowOf(p)]
        /\ Prefix(s, p)' = Prefix(s, p)
    BY <1>u DEF Row, Prefix, BlocksBefore, RowOf
  <2>5. CASE BlocksBefore(p) + 1 = i
    <3>1. Row(s, p)' = BlockRows(s, i)[RowOf(p)]
      BY <1>4, <2>4, <2>5
    <3>2. BlockRows(s, i)[RowOf(p)] = Prefix(s, (i - 1) * BlockSize + RowOf(p))
      BY <2>3 DEF BlockRows
    <3>3. i - 1 = BlocksBefore(p)
      BY <2>3, <2>5, <1>2
    <3> QED BY <2>3, <2>4, <3>1, <3>2, <3>3
  <2>6. CASE BlocksBefore(p) + 1 < i
    <3>1. p \in 1 .. (i - 1) * BlockSize
      <4>1. CASE p > (i - 1) * BlockSize
        <5>1. BlocksBefore(p) + 1 > i - 1
          BY <1>i, <2>2, <4>1, PositionWithin
        <5> QED BY <1>2, <2>3, <2>6, <5>1
      <4> QED BY <2>1, <2>2, <4>1
    <3>2. Row(s, p) = Prefix(s, p)
      BY <1>t, <1>2, <1>i, <3>1 DEF RestoredInv, RowsRight
    <3>3. blockTable[s][BlocksBefore(p) + 1] \in Blocks
          /\ blockTable[s][BlocksBefore(p) + 1] # c
      <4>1. IsInjective(blockTable[s]) /\ blockTable[s] \in Seq(Blocks)
        BY <1>t, <1>2 DEF IInv, TablesInjective, BMTypeOK
      <4>2. DOMAIN blockTable[s] = 1 .. Len(blockTable[s]) /\ Len(blockTable[s]) \in Nat
        BY <4>1, LenProperties
      <4>3. BlocksBefore(p) + 1 \in 1 .. Len(blockTable[s])
        BY <1>2, <1>3, <2>3, <2>6, <4>2
      <4>4. blockTable[s][BlocksBefore(p) + 1] # c
        BY <1>3, <2>6, <4>1, <4>2, <4>3 DEF IsInjective
      <4> QED BY <4>1, <4>3, <4>4, ElementOfSeq
    <3>4. Row(s, p)' = Row(s, p)
      <4> HIDE DEF c
      <4> QED BY <1>4, <2>4, <3>3
    <3> QED BY <2>4, <3>2, <3>4
  <2> QED BY <1>2, <2>3, <2>5, <2>6
<1>11. \A r \in Seqs : restorePending'[r] =>
         /\ restored' <= Computed(r)'
         /\ \A p \in 1 .. restored' * BlockSize : Row(r, p)' = Prefix(r, p)'
  <2> SUFFICES ASSUME NEW r \in Seqs, restorePending[r]
               PROVE  /\ restored' <= Computed(r)'
                      /\ \A p \in 1 .. restored' * BlockSize : Row(r, p)' = Prefix(r, p)'
    BY <1>u
  <2>1. r = s
    BY <1>t, PendingOne
  <2>2. restored' = i
    BY <1>t, <1>i
  <2>3. Computed(s)' = Computed(s)
    BY <1>u DEF Computed
  <2> QED BY <1>2, <1>10, <2>1, <2>2, <2>3
<1>12. RestoredInv'
  <2>1. pc' = "dispatch" /\ \E r \in Seqs : restorePending'[r]
    BY <1>t, <1>u, <1>2
  <2> QED BY <1>11, <2>1 DEF RestoredInv, RowsRight
<1> QED BY <1>5, <1>7, <1>8, <1>9, <1>12 DEF EInv

\* The restore of all matched blocks is confirmed.
LEMMA RestoreDoneStep ==
  ASSUME EInv, RestoreDone
  PROVE  EInv'
<1>t. /\ SInv /\ IInv /\ KVTypeOK /\ RowsInv /\ RestoredInv
      /\ pc = "dispatch" /\ restored' = 0 /\ kv' = kv
      /\ pc' = pc /\ ConfirmCpuRestore
  BY DEF EInv, SInv, RestoreDone, ConfirmCpuRestore, stepVars
<1>1. PICK s \in Pending : RestoreComplete(s)
  BY DEF RestoreDone
<1>2. s \in Seqs /\ restorePending[s]
  BY <1>t, PendingOne
<1>3. ConfirmRestore(s)
  BY <1>t, <1>2, PendingOne DEF ConfirmCpuRestore, ConfirmRestore
<1>4. RowsRight(s, 1 .. numCached[s])
  <2>1. restored = Computed(s) /\ RowsRight(s, 1 .. restored * BlockSize)
    BY <1>t, <1>1, <1>2 DEF RestoreComplete, RestoredInv
  <2>2. numCached[s] = Computed(s) * BlockSize
    BY <1>t, <1>2 DEF RowsInv, RestoresWholeBlocks
  <2> QED BY <2>1, <2>2
<1>5. SInv' /\ IInv'
  <2>1. SInv'
    BY <1>t, NextSInv DEF Next
  <2> QED BY <2>1 DEF SInv
<1>6. RowsInv'
  BY <1>t, <1>2, <1>3, <1>4, <1>5, RowsConfirmRestore
<1>7. KVTypeOK' /\ ChunkRight'
  BY <1>t DEF KVTypeOK, ChunkRight
<1>8. RestoredInv'
  BY <1>t, <1>5, RestoredReset
<1> QED BY <1>5, <1>6, <1>7, <1>8 DEF EInv

\* A restore that fails gives its blocks back, whatever is left in them.
LEMMA RestoreFailsStep ==
  ASSUME EInv, RestoreFails
  PROVE  EInv'
<1>t. /\ SInv /\ IInv /\ BMTypeOK /\ KVTypeOK /\ RowsInv /\ RestoredInv
      /\ pc = "dispatch" /\ pc' = "prefill" /\ restored' = 0 /\ restored \in Nat
      /\ RollbackCpuRestore
  BY DEF EInv, SInv, IInv, KVTypeOK, RestoreFails, RollbackCpuRestore
<1>1. PICK s \in Pending :
        /\ ~RestoreComplete(s)
        /\ kv' \in {kv, HalfWritten(blockTable[s][restored + 1])}
  BY DEF RestoreFails
<1> DEFINE i == restored + 1
           c == blockTable[s][i]
<1>2. s \in Seqs /\ restorePending[s] /\ i \in 1 .. Computed(s)
  <2>1. s \in Seqs /\ restorePending[s]
    BY <1>t, PendingOne
  <2>2. Computed(s) \in Nat /\ restored <= Computed(s) /\ restored # Computed(s)
    BY <1>t, <1>1, <2>1, CountsFit DEF RestoredInv, RestoreComplete
  <2> QED BY <1>t, <2>1, <2>2
<1>3. RollbackRestore(s)
  BY <1>t, <1>2, PendingOne DEF RollbackCpuRestore, RollbackRestore
<1>4. c \in Blocks /\ Owners(c) = {s} /\ blockHash[c] = NoHash
  BY <1>t, <1>2, PendingExclusive
<1>5. kv' \in {kv, HalfWritten(c)}
  BY <1>1
<1> HIDE DEF c, i
<1>6. /\ \A b \in Blocks : b # c => kv'[b] = kv[b]
      /\ kv' \in [Blocks -> [1 .. BlockSize -> Seq(Token)]]
  <2>1. NoRow \in Seq(Token)
    BY EmptySeq DEF NoRow
  <2> QED BY <1>t, <1>4, <1>5, <2>1 DEF KVTypeOK, HalfWritten
<1>7. SInv' /\ IInv'
  <2>1. SInv'
    BY <1>t, NextSInv DEF Next
  <2> QED BY <2>1 DEF SInv
<1>8. RowsInv'
  <2>1. /\ blockHash' = blockHash /\ tokens' = tokens
        /\ numCached' = [numCached EXCEPT ![s] = 0]
        /\ blockTable' = [blockTable EXCEPT ![s] = <<>>]
        /\ restorePending' = [restorePending EXCEPT ![s] = FALSE]
        /\ numCached \in [Seqs -> Nat] /\ restorePending \in [Seqs -> BOOLEAN]
        /\ blockTable \in [Seqs -> Seq(Blocks)]
    BY <1>t, <1>3 DEF RollbackRestore, Deallocate, CachedAfterRelease, BMTypeOK
  <2>2. ~restorePending'[s] /\ ContextRight(s)'
    BY <1>2, <2>1 DEF ContextRight
  <2>3. \A r \in Seqs : r # s =>
          /\ numCached'[r] = numCached[r] /\ blockTable'[r] = blockTable[r]
          /\ restorePending'[r] = restorePending[r]
    BY <2>1
  <2> QED BY <1>t, <1>2, <1>4, <1>6, <2>1, <2>2, <2>3, RowsBlockWritten
<1>9. KVTypeOK' /\ ChunkRight'
  BY <1>t, <1>6 DEF KVTypeOK, ChunkRight
<1>10. RestoredInv'
  BY <1>t, <1>7, RestoredReset
<1> QED BY <1>7, <1>8, <1>9, <1>10 DEF EInv

-----------------------------------------------------------------------------
(* The steps that leave the rows alone *)

\* Outside of a restore nothing has been copied.
LEMMA NothingRestored ==
  ASSUME SInv, RestoredInv, pc # "dispatch", restored' = restored, IInv'
  PROVE  RestoredInv'
<1>1. restored' = 0
  BY DEF RestoredInv
<1> QED BY <1>1, RestoredReset

\* The loop of postprocess() is done with the head of the batch: what has been
\* stored for the others is still there.
LEMMA ChunkKept ==
  ASSUME SInv, ChunkRight, pc \in {"post", "append", "finish"}, kv' = kv,
         NEW s \in Seqs, s = Head(batch),
         \A r \in Seqs : r # s =>
           /\ numCached'[r] = numCached[r] /\ blockTable'[r] = blockTable[r]
           /\ tokens'[r] = tokens[r] /\ scheduled'[r] = scheduled[r],
         \A r \in Range(batch') : r \in Range(batch) /\ (r = s => Done(r)')
  PROVE  ChunkRight'
<1> SUFFICES ASSUME NEW r \in Range(batch'), ~Done(r)' PROVE RowsRight(r, Chunk(r))'
  BY DEF ChunkRight
<1>1. r \in Range(batch) /\ r # s /\ r \in Seqs
  BY SInvTypes
<1>2. ~Done(r)
  BY <1>1 DEF Done
<1>3. RowsRight(r, Chunk(r))
  BY <1>1, <1>2 DEF ChunkRight
<1>4. Chunk(r)' = Chunk(r)
  BY <1>1 DEF Chunk
<1>5. \A p : Row(r, p)' = Row(r, p) /\ Prefix(r, p)' = Prefix(r, p)
  BY <1>1 DEF Row, Prefix
<1> QED BY <1>3, <1>4, <1>5 DEF RowsRight

\* schedule(): the prefill and the decode loop.
LEMMA SchedulingStep ==
  ASSUME EInv, SInv', kv' = kv, restored' = restored,
         \/ StartStep \/ Admit \/ EndPrefill \/ ScheduleDecode
         \/ PreemptOther \/ PreemptSelf \/ EndDecode \/ NothingScheduled
         \/ EndStep \/ Arrivals \/ ClearGpuPrefixCache
  PROVE  EInv'
<1>t. /\ SInv /\ IInv /\ IInv' /\ BMTypeOK /\ KVTypeOK /\ RowsInv /\ RestoredInv
      /\ waiting \in Seq(Seqs) /\ running \in Seq(Seqs)
  BY SInvTypes DEF EInv, SInv
<1>1. pc # "dispatch" /\ (pc' \in {"post", "append", "finish"} => FALSE)
  BY DEF StartStep, Admit, AdmitFromGpu, AdmitFromCpu, ContinueChunk, ScheduleChunk,
     EndPrefill, ScheduleDecode, CanDecode, PreemptOther, PreemptSelf, Preempt,
     EndDecode, NothingScheduled, EndStep, Arrivals, AddRequest,
     ClearGpuPrefixCache, stepVars
<1>2. RowsInv'
  <2>1. CASE Admit
    <3> DEFINE s == Head(waiting)
    <3>1. s \in Seqs
      BY <2>1, <1>t, HeadIn DEF Admit, CanAdmit
    <3> HIDE DEF s
    <3>2. CASE AdmitFromGpu(s)
      BY <3>1, <3>2, <1>t, HitsInRange, RowsAllocate DEF AdmitFromGpu
    <3>3. CASE AdmitFromCpu(s)
      BY <3>1, <3>3, <1>t, RowsAllocateForCpuRestore DEF AdmitFromCpu
    <3>4. CASE ContinueChunk(s)
      BY <3>4, <1>t, RowsSame DEF ContinueChunk
    <3> QED BY <2>1, <3>2, <3>3, <3>4 DEF Admit, s
  <2>2. CASE ScheduleDecode
    <3>1. Head(running) \in Seqs
      BY <2>2, <1>t, HeadIn DEF ScheduleDecode, CanDecode
    <3> QED BY <2>2, <3>1, <1>t, RowsMayAppend, RowsSame DEF ScheduleDecode, GrowTable
  <2>3. CASE PreemptOther \/ PreemptSelf
    <3>1. running # <<>>
      BY <2>3 DEF PreemptOther, PreemptSelf, CanDecode
    <3>2. Head(running) \in Seqs
      BY <3>1, <1>t, HeadIn
    <3>3. Victim \in Seqs
      <4>1. Len(running) \in 1 .. Len(running)
        BY <3>1, <1>t, EmptySeq, LenProperties
      <4> QED BY <4>1, <1>t, ElementOfSeq DEF Victim, Last
    <3>4. \E s \in Seqs : Release(s)
      BY <2>3, <3>2, <3>3 DEF PreemptOther, PreemptSelf, Preempt
    <3> QED BY <3>4, <1>t, RowsRelease
  <2>4. CASE Arrivals
    <3>1. \E s \in Seqs : \E p : NewSequence(s, p)
      BY <2>4 DEF Arrivals, AddRequest
    <3> QED BY <3>1, <1>t, RowsNewSequence
  <2>5. CASE ClearGpuPrefixCache
    BY <2>5, <1>t, RowsEvict DEF ClearGpuPrefixCache
  <2>6. CASE StartStep \/ EndPrefill \/ EndDecode \/ NothingScheduled \/ EndStep
    BY <2>6, <1>t, RowsSame DEF StartStep, EndPrefill, EndDecode, NothingScheduled, EndStep
  <2> QED BY <2>1, <2>2, <2>3, <2>4, <2>5, <2>6
<1>3. KVTypeOK' /\ ChunkRight'
  BY <1>t, <1>1 DEF KVTypeOK, ChunkRight
<1>4. RestoredInv'
  BY <1>t, <1>1, NothingRestored
<1> QED BY <1>2, <1>3, <1>4 DEF EInv

\* postprocess(): one sequence of the batch after the other.
LEMMA PostprocessStep ==
  ASSUME EInv, SInv', kv' = kv, restored' = restored, Hash \/ Sample \/ Finish
  PROVE  EInv'
<1> DEFINE s == Head(batch)
<1>t. /\ SInv /\ IInv /\ IInv' /\ BMTypeOK /\ STypeOK
      /\ KVTypeOK /\ RowsInv /\ ChunkRight /\ RestoredInv
      /\ batch \in Seq(Seqs) /\ Sorted(batch)
      /\ scheduled \in [Seqs -> Nat] /\ scheduled' \in [Seqs -> Nat]
      /\ numCached \in [Seqs -> Nat] /\ tokens \in [Seqs -> Seq(Token)]
      /\ blockTable \in [Seqs -> Seq(Blocks)]
  BY SInvTypes DEF EInv, SInv, STypeOK, IInv, BMTypeOK
<1>1. /\ pc \in {"post", "append", "finish"} /\ batch # <<>>
      /\ pc' \in {"post", "append", "finish"}
  BY <1>t DEF Hash, Sample, Finish, SInv, BatchInv
<1>2. s \in Seqs /\ s \in Range(batch) /\ Range(Tail(batch)) = Range(batch) \ {s}
  BY <1>t, <1>1, TailOrdered
<1>h. s = Head(batch)
  OBVIOUS
<1>3. /\ batch' = Tail(batch) \/ (batch' = batch /\ pc' \in {"append", "finish"})
      /\ \A r \in Seqs : r # s => scheduled'[r] = scheduled[r]
  <2>1. CASE Hash
    BY <2>1, <1>t DEF Hash
  <2>2. CASE Sample \/ Finish
    BY <2>2, <1>t DEF Sample, Finish, seqVars
  <2> QED BY <2>1, <2>2
<1> HIDE DEF s
<1>7. /\ RowsInv'
      /\ \A r \in Seqs : r # s =>
           /\ numCached'[r] = numCached[r] /\ blockTable'[r] = blockTable[r]
           /\ tokens'[r] = tokens[r]
  <2>h. CASE Hash
    <3>1. HashBlocks(s, scheduled[s]) /\ scheduled[s] \in Nat /\ pc = "post"
      BY <1>t, <1>2, <2>h, <1>h DEF Hash
    <3>2. RowsRight(s, numCached[s] + 1 .. numCached[s] + scheduled[s])
      BY <1>t, <1>2, <3>1 DEF ChunkRight, Done, Chunk
    <3>3. RowsInv'
      BY <1>t, <1>2, <3>1, <3>2, RowsHashBlocks
    <3>4. \A r \in Seqs : r # s =>
            /\ numCached'[r] = numCached[r] /\ blockTable'[r] = blockTable[r]
            /\ tokens'[r] = tokens[r]
      BY <1>t, <3>1 DEF HashBlocks
    <3> QED BY <3>3, <3>4
  <2>s. CASE Sample
    <3>1. PICK t \in Token : AppendToken(s, t)
      BY <2>s, <1>h DEF Sample
    <3>2. RowsInv'
      BY <1>t, <1>2, <3>1, RowsAppendToken
    <3>3. \A r \in Seqs : r # s =>
            /\ numCached'[r] = numCached[r] /\ blockTable'[r] = blockTable[r]
            /\ tokens'[r] = tokens[r]
      BY <1>t, <3>1 DEF AppendToken, allocVars
    <3> QED BY <3>2, <3>3
  <2>f. CASE Finish
    <3>1. Release(s)
      BY <2>f, <1>h DEF Finish
    <3>2. RowsInv'
      BY <1>t, <1>2, <3>1, RowsRelease
    <3>3. \A r \in Seqs : r # s =>
            /\ numCached'[r] = numCached[r] /\ blockTable'[r] = blockTable[r]
            /\ tokens'[r] = tokens[r]
      BY <1>t, <3>1 DEF Release, Deallocate, CachedAfterRelease
    <3> QED BY <3>2, <3>3
  <2> QED BY <2>h, <2>s, <2>f
<1>8. ChunkRight'
  <2>1. \A r \in Range(batch') : r \in Range(batch) /\ (r = s => Done(r)')
    <3>1. CASE batch' = Tail(batch)
      BY <1>2, <3>1
    <3>2. CASE batch' = batch /\ pc' \in {"append", "finish"}
      BY <1>h, <3>2 DEF Done
    <3> QED BY <1>3, <3>1, <3>2
  <2> QED BY <1>t, <1>1, <1>2, <1>3, <1>7, <1>h, <2>1, ChunkKept
<1>9. KVTypeOK' /\ RestoredInv'
  BY <1>t, <1>1, NothingRestored DEF KVTypeOK
<1> QED BY <1>7, <1>8, <1>9 DEF EInv

-----------------------------------------------------------------------------
(* The invariant of the engine *)

\* Every step of the engine is one of the scheduler, or leaves it alone.
LEMMA SchedulerStep == [EngineNext]_engineVars => [Next]_vars
BY DEF EngineNext, engineVars, OwnersCalls, DenseStep, RestoreStep, RestoreBlock,
   RestoreDone, RestoreFails, Next

\* Nothing is cached at first.
LEMMA InitEInv == EngineInit => EInv
<1> SUFFICES ASSUME EngineInit PROVE EInv
  OBVIOUS
<1>t. /\ Init /\ BMInit /\ restored = 0 /\ pc = "idle"
      /\ kv = [b \in Blocks |-> [o \in 1 .. BlockSize |-> NoRow]]
  BY DEF EngineInit, Init
<1>1. SInv /\ IInv
  BY <1>t, InitSInv DEF SInv
<1>2. KVTypeOK
  BY <1>t, EmptySeq DEF KVTypeOK, NoRow
<1>3. RowsInv
  BY <1>t DEF RowsInv, CachedContextRight, ContextRight, LabelsHonest,
     RestoresWholeBlocks, BMInit
<1>4. ChunkRight
  BY <1>t DEF ChunkRight
<1>5. RestoredInv
  BY <1>t DEF RestoredInv, BMInit
<1> QED BY <1>1, <1>2, <1>3, <1>4, <1>5 DEF EInv

\* Every step of the engine preserves its invariant.
LEMMA NextEInv == EInv /\ [EngineNext]_engineVars => EInv'
<1> SUFFICES ASSUME EInv, [EngineNext]_engineVars PROVE EInv'
  OBVIOUS
<1>s. SInv'
  BY SchedulerStep, NextSInv DEF EInv
<1>1. CASE OwnersCalls
  BY <1>1, <1>s, SchedulingStep DEF OwnersCalls
<1>2. CASE StepControl /\ UNCHANGED <<kv, restored>>
  BY <1>2, <1>s, SchedulingStep, PostprocessStep DEF StepControl
<1>3. CASE Run /\ StoreKV /\ UNCHANGED restored
  BY <1>3, <1>s, RunEngineStep
<1>4. CASE RestoreStep
  BY <1>4, RestoreBlockStep, RestoreDoneStep, RestoreFailsStep DEF RestoreStep
<1>5. CASE UNCHANGED engineVars
  <2>1. UNCHANGED <<vars, kv, restored>> /\ UNCHANGED bmVars
        /\ UNCHANGED <<tokens, numCached, blockTable, restorePending, scheduled,
                       batch, pc>>
    BY <1>5 DEF engineVars, vars, bmVars, seqVars, stepVars
  <2>2. RowsInv'
    BY <2>1, RowsSame DEF EInv
  <2>3. KVTypeOK' /\ ChunkRight' /\ RestoredInv'
    BY <2>1 DEF EInv, KVTypeOK, ChunkRight, RestoredInv, RowsRight, Row, Prefix,
       Chunk, Done, Computed
  <2> QED BY <1>s, <2>2, <2>3 DEF EInv
<1> QED BY <1>1, <1>2, <1>3, <1>4, <1>5 DEF EngineNext, DenseStep

\* The inductive invariant holds in every reachable state of the engine.
THEOREM EngineInvariance == EngineSpec => []EInv
BY InitEInv, NextEInv, PTL DEF EngineSpec

\* The engine's control is the scheduler's: all that is proved of the scheduler
\* and of the allocator holds with the rows of the KV cache under them.
THEOREM EngineImplementsScheduler == EngineSpec => Spec
<1>1. EngineInit => Init
  BY DEF EngineInit
<1> QED BY <1>1, SchedulerStep, PTL DEF EngineSpec, Spec

\* The KV cache never lies: every position that a sequence counts as cached
\* holds the KV of its own prefix, and every block that can be found by a hash
\* holds what the hash stands for, through sharing, eviction and reuse of
\* blocks, chunks, preemption and restores that fail halfway (attention reads
\* through prepare_prefill's and prepare_decode's tables, store_kvcache writes).
THEOREM CacheIsHonest == EngineSpec => []CacheHonest
<1>1. EInv => CacheHonest
  BY DEF EInv, RowsInv, CacheHonest
<1> QED BY <1>1, EngineInvariance, PTL

-----------------------------------------------------------------------------
(* Part 3: the tracer *)

\* The first sequence of a batch finds the whole budget: if that does not
\* complete it, nothing is left of the budget.
FirstChunk ==
  /\ pc = "prefill" /\ batch = <<>> => budget = MaxNumBatchedTokens
  /\ (pc = "prefill" \/ (pc = "dispatch" /\ prefillStep)) /\ batch # <<>> =>
         \/ numCached[Head(batch)] + scheduled[Head(batch)] = Len(tokens[Head(batch)])
         \/ scheduled[Head(batch)] = MaxNumBatchedTokens

\* The tracer holds tokens, and TraceRight.
TraceInv == FirstChunk /\ trace \in Seq(Token) /\ TraceRight

\* What is counted and scheduled of a sequence of a batch in a prefill.
LEMMA BatchTypes ==
  ASSUME SInv, batch # <<>>
  PROVE  /\ Head(batch) \in Seqs /\ Head(batch) \in Range(batch)
         /\ Tail(batch) \in Seq(Seqs)
BY SInvTypes, TailOrdered, HeadIn, RangeEmpty DEF SInv

\* A step that touches neither the budget nor the sequences of the batch.
LEMMA FirstChunkSame ==
  ASSUME FirstChunk,
         UNCHANGED <<tokens, numCached, scheduled, batch, budget, prefillStep>>,
         pc' = pc \/ pc' \notin {"prefill", "dispatch"}
                  \/ (pc = "prefill" /\ pc' = "dispatch")
  PROVE  FirstChunk'
BY DEF FirstChunk

\* schedule() admits a first sequence with all of the budget.
LEMMA FirstChunkAdmit ==
  ASSUME SInv, FirstChunk, Admit
  PROVE  FirstChunk'
<1>1. PICK s \in Seqs, c \in Nat, n \in Nat :
        Admitted(s, c, n) /\ (Promoted(s, c, n) \/ LeftWaiting(s, c, n))
  BY AdmitSplit
<1>2. /\ pc = "prefill" /\ pc' = "prefill" /\ batch' = Append(batch, s)
      /\ tokens' = tokens /\ scheduled' = [scheduled EXCEPT ![s] = n]
      /\ HeadOf(s) /\ budget > 0
      /\ numCached' = [numCached EXCEPT ![s] = c]
  BY <1>1 DEF Admitted, Holds
<1>t. batch \in Seq(Seqs) /\ scheduled \in [Seqs -> Nat] /\ numCached \in [Seqs -> Nat]
  BY SInvTypes DEF STypeOK, BMTypeOK
<1>3. batch' # <<>>
  BY <1>2, <1>t, AppendProperties
<1>4. CASE batch = <<>>
  <2>1. Head(batch') = s
    BY <1>2, <1>4
  <2>2. scheduled'[s] = n /\ numCached'[s] = c
    BY <1>2, <1>t
  <2>3. c + n = Len(tokens[s]) \/ n = MaxNumBatchedTokens
    BY <1>1, <1>2, <1>4 DEF Promoted, LeftWaiting, FirstChunk
  <2> QED BY <1>2, <1>3, <2>1, <2>2, <2>3 DEF FirstChunk
<1>5. CASE batch # <<>>
  <2>1. Head(batch') = Head(batch) /\ Head(batch) \in Seqs /\ Head(batch) \in Range(batch)
    BY <1>2, <1>5, <1>t, BatchTypes
  <2>2. Head(batch) # s
    <3>1. Head(batch) \in Range(running) \/ budget = 0
      BY <1>2, <2>1 DEF SInv, BatchInv
    <3>2. Head(batch) \in Range(running)
      BY <3>1, <1>2
    <3>3. s \in Range(waiting)
      BY <1>2, SInvTypes, TailOrdered DEF HeadOf
    <3> QED BY <1>2, <3>2, <3>3 DEF SInv, StatusInv, Finishing
  <2>3. scheduled'[Head(batch)] = scheduled[Head(batch)]
        /\ numCached'[Head(batch)] = numCached[Head(batch)]
    BY <1>2, <1>t, <2>1, <2>2
  <2> QED BY <1>2, <1>3, <1>5, <2>1, <2>3 DEF FirstChunk
<1> QED BY <1>4, <1>5

LEMMA FirstChunkStep == SInv /\ FirstChunk /\ [Next]_vars => FirstChunk'
<1> SUFFICES ASSUME SInv, FirstChunk, [Next]_vars PROVE FirstChunk'
  OBVIOUS
<1>1. CASE Admit
  BY <1>1, FirstChunkAdmit
<1>2. CASE StartStep \/ RollbackCpuRestore
  BY <1>2 DEF StartStep, RollbackCpuRestore, FirstChunk
<1>3. CASE EndPrefill
  BY <1>3, FirstChunkSame DEF EndPrefill, FirstChunk, bmVars, seqVars
<1>4. CASE Arrivals \/ ClearGpuPrefixCache
  BY <1>4 DEF Arrivals, AddRequest, ClearGpuPrefixCache, FirstChunk, stepVars
<1>5. CASE ScheduleDecode \/ PreemptOther \/ PreemptSelf \/ EndDecode \/ NothingScheduled
  BY <1>5 DEF ScheduleDecode, CanDecode, PreemptOther, PreemptSelf, Preempt, EndDecode,
     NothingScheduled, FirstChunk, stepVars, SInv, BatchInv
<1>6. CASE Hash \/ Sample \/ Finish \/ EndStep \/ Run
  BY <1>6 DEF Hash, Sample, Finish, EndStep, Run, FirstChunk
<1>7. CASE ConfirmCpuRestore
  BY <1>7 DEF ConfirmCpuRestore, ConfirmRestore, FirstChunk, stepVars, seqVars
<1>8. CASE UNCHANGED vars
  BY <1>8, FirstChunkSame DEF vars, bmVars, seqVars, stepVars
<1> QED BY <1>1, <1>2, <1>3, <1>4, <1>5, <1>6, <1>7, <1>8 DEF Next, StepControl

\* A token list only grows at its end, and its prompt stays what it is, once
\* the request exists.
LEMMA TokensGrow ==
  ASSUME SInv, [Next]_vars, NEW s \in Seqs, tokens[s] # <<>>
  PROVE  /\ numPrompt'[s] = numPrompt[s]
         /\ tokens'[s] = tokens[s] \/ \E t \in Token : tokens'[s] = Append(tokens[s], t)
<1>t. STypeOK /\ BMTypeOK
  BY SInvTypes
<1>1. CASE Arrivals
  <2>1. PICK r \in Seqs, p \in Prompts : \E h \in CpuMatches(p) : AddRequest(r, p, h)
    BY <1>1 DEF Arrivals
  <2>2. /\ tokens[r] = <<>> /\ tokens' = [tokens EXCEPT ![r] = p]
        /\ numPrompt' = [numPrompt EXCEPT ![r] = Len(p)]
    BY <2>1 DEF AddRequest, NewSequence
  <2> QED BY <2>2, <1>t DEF STypeOK, BMTypeOK
<1>2. CASE Sample
  <2>1. PICK t \in Token : AppendToken(Head(batch), t)
    BY <1>2 DEF Sample
  <2>2. /\ tokens' = [tokens EXCEPT ![Head(batch)] = Append(@, t)]
        /\ numPrompt' = numPrompt
    BY <1>2, <2>1 DEF AppendToken, Sample
  <2> QED BY <2>2, <1>t DEF BMTypeOK
<1>3. CASE ~Arrivals /\ ~Sample
  BY <1>3, HiddenSteps DEF ClientSees
<1> QED BY <1>1, <1>2, <1>3

\* What is the beginning of a list stays so when the list grows.
LEMMA PrefixGrows ==
  ASSUME NEW q \in Seq(Token), NEW t \in Token, NEW p \in Seq(Token), IsPrefix(p, q)
  PROVE  IsPrefix(p, Append(q, t))
<1>1. Len(p) \in Nat /\ Len(p) <= Len(q) /\ SubSeq(p, 1, Len(p)) = SubSeq(q, 1, Len(p))
  BY LenProperties DEF IsPrefix
<1>2. SubSeq(Append(q, t), 1, Len(p)) = SubSeq(q, 1, Len(p))
  BY <1>1, CutAppend
<1>3. Len(p) <= Len(Append(q, t))
  BY <1>1, AppendProperties, LenProperties
<1> QED BY <1>1, <1>2, <1>3 DEF IsPrefix

\* A trace stays right whatever becomes of its request.
LEMMA TraceStays ==
  ASSUME SInv, [Next]_vars, TraceInv, UNCHANGED traceVars
  PROVE  TraceRight'
<1>1. armed' = armed /\ trace' = trace
  BY DEF traceVars
<1> SUFFICES ASSUME trace # <<>>
             PROVE  \E s \in Seqs :
                      /\ IsPrefix(trace, tokens'[s])
                      /\ Len(trace) >= numPrompt'[s] \/ Len(trace) = MaxNumBatchedTokens
  BY <1>1 DEF TraceInv, TraceRight
<1>2. PICK s \in Seqs :
        /\ IsPrefix(trace, tokens[s])
        /\ Len(trace) >= numPrompt[s] \/ Len(trace) = MaxNumBatchedTokens
  BY DEF TraceInv, TraceRight
<1>3. trace \in Seq(Token) /\ tokens[s] \in Seq(Token)
  BY SInvTypes DEF TraceInv, BMTypeOK
<1>4. tokens[s] # <<>>
  BY <1>2, <1>3, EmptySeq, LenProperties DEF IsPrefix
<1>5. /\ numPrompt'[s] = numPrompt[s]
      /\ tokens'[s] = tokens[s] \/ \E t \in Token : tokens'[s] = Append(tokens[s], t)
  BY <1>4, TokensGrow
<1>6. IsPrefix(trace, tokens'[s])
  BY <1>2, <1>3, <1>5, PrefixGrows
<1> QED BY <1>2, <1>5, <1>6

\* maybe_capture takes what it should.
LEMMA CaptureRight ==
  ASSUME SInv, TraceInv, Run, Capture
  PROVE  trace' \in Seq(Token) /\ TraceRight'
<1>1. /\ pc = "dispatch" /\ tokens' = tokens /\ numPrompt' = numPrompt
  BY DEF Run, bmVars, seqVars
<1>2. CASE armed /\ Traceable
  <2> DEFINE s == Head(batch)
             n == scheduled[s]
  <2>1. prefillStep /\ Len(batch) = 1 /\ numCached[s] = 0
        /\ armed' = FALSE /\ trace' = Computing(s)
    BY <1>2 DEF Capture, Traceable
  <2>2. batch # <<>>
    BY <2>1, EmptySeq
  <2>3. s \in Seqs /\ s \in Range(batch)
    BY <2>2, BatchTypes
  <2>4. /\ tokens[s] \in Seq(Token) /\ Len(tokens[s]) \in Nat /\ n \in Nat
        /\ numPrompt[s] \in Nat /\ numPrompt[s] <= Len(tokens[s])
    BY <2>3, SInvTypes DEF STypeOK, BMTypeOK, SInv, PromptInv
  <2> HIDE DEF s
  <2>5. n > 0 /\ n <= Len(tokens[s])
    BY <1>1, <2>1, <2>3, <2>4 DEF SInv, ProgressInv, Done
  <2>6. n = Len(tokens[s]) \/ n = MaxNumBatchedTokens
    BY <1>1, <2>1, <2>2, <2>4 DEF TraceInv, FirstChunk, s
  <2> HIDE DEF n
  <2>7. trace' = SubSeq(tokens[s], 1, n)
    BY <2>1, <2>4 DEF Computing, n
  <2>8. trace' \in Seq(Token) /\ Len(trace') = n
    BY <2>4, <2>5, <2>7, SubSeqProperties
  <2>9. IsPrefix(trace', tokens[s])
    <3>1. SubSeq(trace', 1, Len(trace')) = trace'
      BY <2>8
    <3> QED BY <2>4, <2>5, <2>7, <2>8, <3>1 DEF IsPrefix
  <2> QED BY <1>1, <2>1, <2>3, <2>4, <2>6, <2>8, <2>9 DEF TraceRight
<1>3. CASE ~(armed /\ Traceable)
  BY <1>1, <1>3 DEF Capture, TraceInv, TraceRight
<1> QED BY <1>2, <1>3

\* Every step of the traced engine is one of the scheduler, or leaves it alone.
LEMMA TracedStep == [TraceNext]_tracedVars => [Next]_vars
<1>1. TraceNext => [Next]_vars
  BY SchedulerStep DEF TraceNext, EngineNext, OwnersCalls, DenseStep, ArmTrace, ClearTrace,
     engineVars, Next
<1> QED BY <1>1 DEF tracedVars, engineVars

LEMMA TraceStep == SInv /\ TraceInv /\ [TraceNext]_tracedVars => TraceInv'
<1> SUFFICES ASSUME SInv, TraceInv, [TraceNext]_tracedVars PROVE TraceInv'
  OBVIOUS
<1>1. [Next]_vars
  BY TracedStep
<1>2. FirstChunk'
  BY <1>1, FirstChunkStep DEF TraceInv
<1>3. CASE UNCHANGED traceVars
  <2>1. TraceRight'
    BY <1>1, <1>3, TraceStays
  <2> QED BY <1>2, <1>3, <2>1 DEF TraceInv, traceVars
<1>4. CASE Run /\ Capture
  BY <1>2, <1>4, CaptureRight DEF TraceInv
<1>5. CASE ArmTrace \/ ClearTrace
  BY <1>2, <1>5, EmptySeq DEF ArmTrace, ClearTrace, TraceInv, TraceRight
<1> QED BY <1>3, <1>4, <1>5 DEF TraceNext, tracedVars

\* The traced engine is the scheduler with something that looks on.
LEMMA TracedScheduler == TraceSpec => []SInv
<1>1. TraceInit => SInv
  BY InitSInv DEF TraceInit, EngineInit
<1>2. SInv /\ [TraceNext]_tracedVars => SInv'
  BY TracedStep, NextSInv
<1> QED BY <1>1, <1>2, PTL DEF TraceSpec

\* A trace is the KV of one request from its first token on, all that was to be
\* computed of it or as much as the budget lets into a first chunk, however
\* requests are batched, chunked, preempted, restored from the CPU tier or
\* rolled back (maybe_capture).
THEOREM TracesAreRight == TraceSpec => []TraceRight
<1>1. TraceInit => TraceInv
  BY EmptySeq DEF TraceInit, EngineInit, Init, TraceInv, FirstChunk, TraceRight
<1>2. TraceInv => TraceRight
  BY DEF TraceInv
<1> QED BY <1>1, <1>2, TracedScheduler, TraceStep, PTL DEF TraceSpec

-----------------------------------------------------------------------------
(* Recursion *)

\* F is defined by recursion over 0 .. m.
ByRecursion(F, m, S, base, G) ==
  /\ F \in [0 .. m -> S]
  /\ F[0] = base
  /\ \A i \in 1 .. m : F[i] = G[<<i, F[i - 1]>>]

\* There is such a function.
LEMMA Recursion ==
  ASSUME NEW m \in Nat, NEW S, NEW base \in S, NEW G \in [(1 .. m) \X S -> S]
  PROVE  \E F : ByRecursion(F, m, S, base, G)
<1> DEFINE Defined(j) == \E F \in [0 .. j -> S] :
                           /\ F[0] = base
                           /\ \A i \in 1 .. j : F[i] = G[<<i, F[i - 1]>>]
           T == {j \in 0 .. m : ~Defined(j)}
<1>1. Defined(0)
  <2>1. [i \in 0 .. 0 |-> base] \in [0 .. 0 -> S]
    OBVIOUS
  <2>2. \A i \in 1 .. 0 : FALSE
    OBVIOUS
  <2>3. [i \in 0 .. 0 |-> base][0] = base
    OBVIOUS
  <2> QED BY <2>1, <2>2, <2>3
<1>2. ASSUME NEW j \in 1 .. m, Defined(j - 1)
      PROVE  Defined(j)
  <2>1. PICK F \in [0 .. j - 1 -> S] :
          /\ F[0] = base
          /\ \A i \in 1 .. j - 1 : F[i] = G[<<i, F[i - 1]>>]
    BY <1>2
  <2> DEFINE H == [i \in 0 .. j |-> IF i = j THEN G[<<j, F[j - 1]>>] ELSE F[i]]
  <2>2. F[j - 1] \in S /\ G[<<j, F[j - 1]>>] \in S
    <3>1. j - 1 \in 0 .. j - 1
      OBVIOUS
    <3>2. F[j - 1] \in S
      BY <3>1
    <3>3. <<j, F[j - 1]>> \in (1 .. m) \X S
      BY <3>2
    <3> QED BY <3>2, <3>3
  <2>3. H \in [0 .. j -> S]
    BY <2>2
  <2>4. \A i \in 0 .. j - 1 : H[i] = F[i]
    OBVIOUS
  <2>5. H[0] = base
    BY <2>1, <2>4
  <2>6. H[j] = G[<<j, H[j - 1]>>]
    <3>1. j \in 0 .. j /\ j - 1 \in 0 .. j - 1
      OBVIOUS
    <3>2. H[j] = G[<<j, F[j - 1]>>]
      BY <3>1
    <3>3. H[j - 1] = F[j - 1]
      BY <2>4, <3>1
    <3> QED BY <3>2, <3>3
  <2>7. \A i \in 1 .. j - 1 : H[i] = G[<<i, H[i - 1]>>]
    <3>1. \A i \in 1 .. j - 1 : i \in 0 .. j - 1 /\ i - 1 \in 0 .. j - 1
      OBVIOUS
    <3> HIDE DEF H
    <3> QED BY <2>1, <2>4, <3>1
  <2> HIDE DEF H
  <2>8. \A i \in 1 .. j : i = j \/ i \in 1 .. j - 1
    OBVIOUS
  <2> QED BY <2>3, <2>5, <2>6, <2>7, <2>8
<1> HIDE DEF Defined
<1>3. T = {}
  <2>1. SUFFICES ASSUME T # {} PROVE FALSE
    OBVIOUS
  <2>2. PICK j \in T : \A i \in Nat : i < j => i \notin T
    <3>1. T \in SUBSET Nat
      OBVIOUS
    <3> HIDE DEF T
    <3> QED BY <2>1, <3>1, LeastNat
  <2>3. j \in 0 .. m /\ ~Defined(j)
    OBVIOUS
  <2>4. j # 0
    BY <1>1, <2>3
  <2>5. Defined(j - 1)
    <3>1. j - 1 \in 0 .. m /\ j - 1 \in Nat /\ j - 1 < j
      BY <2>3, <2>4
    <3> QED BY <2>2, <3>1
  <2> QED BY <1>2, <2>3, <2>4, <2>5
<1>4. Defined(m)
  <2>1. m \in 0 .. m
    OBVIOUS
  <2> QED BY <1>3, <2>1
<1> QED BY <1>4 DEF Defined, ByRecursion

\* A member of a set that is not empty.
Pick(s) == CHOOSE x \in s : TRUE

\* s without it.
Rest(s) == s \ {Pick(s)}

LEMMA RestFacts ==
  ASSUME NEW S, IsFiniteSet(S), NEW s \in SUBSET S
  PROVE  /\ Cardinality(s) \in 0 .. Cardinality(S)
         /\ s = {} <=> Cardinality(s) = 0
         /\ s # {} => /\ Pick(s) \in s /\ Rest(s) \in SUBSET S
                      /\ Cardinality(Rest(s)) = Cardinality(s) - 1
<1>1. IsFiniteSet(s) /\ Cardinality(s) <= Cardinality(S)
  BY FS_Subset
<1>2. Cardinality(s) \in Nat /\ Cardinality(S) \in Nat /\ (Cardinality(s) = 0 <=> s = {})
  BY <1>1, FS_CardinalityType, FS_EmptySet
<1>3. s # {} => Pick(s) \in s
  BY DEF Pick
<1>4. s # {} => Cardinality(Rest(s)) = Cardinality(s) - 1
  BY <1>1, <1>3, FS_RemoveElement DEF Rest
<1> QED BY <1>1, <1>2, <1>3, <1>4 DEF Rest

\* The equation of the fold that sums k over the subsets of S.
Sums(k, S, it) ==
  it = [s \in SUBSET S |-> IF s = {} THEN 0 ELSE k[Pick(s)] + it[Rest(s)]]

LEMMA SumsExist ==
  ASSUME NEW S, IsFiniteSet(S), NEW k, \A i \in S : k[i] \in Int
  PROVE  \E it : Sums(k, S, it)
<1> DEFINE Space == [SUBSET S -> Int]
           size == Cardinality(S)
           Step(f) == [s \in SUBSET S |-> IF s = {} THEN 0 ELSE k[Pick(s)] + f[Rest(s)]]
           zero == [s \in SUBSET S |-> 0]
           step == [p \in (1 .. size) \X Space |-> Step(p[2])]
<1>1. \A f \in Space : Step(f) \in Space
  <2> SUFFICES ASSUME NEW f \in Space, NEW s \in SUBSET S, s # {}
               PROVE  k[Pick(s)] + f[Rest(s)] \in Int
    OBVIOUS
  <2>1. Pick(s) \in S /\ Rest(s) \in SUBSET S
    BY RestFacts
  <2> QED BY <2>1
<1>2. size \in Nat /\ zero \in Space
  BY FS_CardinalityType
<1>3. step \in [(1 .. size) \X Space -> Space]
  <2> HIDE DEF Step, Space
  <2> QED BY <1>1
<1>4. \A i \in 1 .. size, f \in Space : step[<<i, f>>] = Step(f)
  <2> HIDE DEF Step, Space
  <2> QED OBVIOUS
<1>5. PICK F \in [0 .. size -> Space] :
        /\ F[0] = zero
        /\ \A i \in 1 .. size : F[i] = step[<<i, F[i - 1]>>]
  <2> HIDE DEF step, Space, size, zero
  <2>1. \E F : ByRecursion(F, size, Space, zero, step)
    BY <1>2, <1>3, Recursion
  <2> QED BY <2>1 DEF ByRecursion
<1> DEFINE it == [s \in SUBSET S |-> F[Cardinality(s)][s]]
<1>6. ASSUME NEW s \in SUBSET S
      PROVE  it[s] = IF s = {} THEN 0 ELSE k[Pick(s)] + it[Rest(s)]
  <2>1. CASE s = {}
    <3>1. Cardinality(s) = 0
      BY <2>1, RestFacts
    <3> QED BY <1>5, <2>1, <3>1
  <2>2. CASE s # {}
    <3>1. /\ Cardinality(s) \in 1 .. size /\ Rest(s) \in SUBSET S
          /\ Cardinality(Rest(s)) = Cardinality(s) - 1
      BY <1>2, <2>2, RestFacts
    <3> DEFINE c == Cardinality(s)
    <3>2. F[c] = step[<<c, F[c - 1]>>] /\ F[c - 1] \in Space
      <4> HIDE DEF step, Space, size
      <4> QED BY <1>2, <1>5, <3>1
    <3>3. F[c] = Step(F[c - 1])
      <4> HIDE DEF step, Space, size, Step
      <4> QED BY <1>4, <3>1, <3>2
    <3>4. F[c][s] = k[Pick(s)] + F[c - 1][Rest(s)]
      BY <2>2, <3>3
    <3>5. it[s] = F[c][s] /\ it[Rest(s)] = F[c - 1][Rest(s)]
      BY <3>1
    <3> QED BY <2>2, <3>4, <3>5
  <2> QED BY <2>1, <2>2
<1>7. it = [s \in SUBSET S |-> it[s]]
  OBVIOUS
<1>8. Sums(k, S, it)
  <2> HIDE DEF it
  <2> QED BY <1>6, <1>7 DEF Sums
<1> QED BY <1>8


\* Every partial sum is a number.
LEMMA SumsType ==
  ASSUME NEW S, IsFiniteSet(S), NEW k, \A i \in S : k[i] \in Int,
         NEW it, Sums(k, S, it)
  PROVE  \A s \in SUBSET S : it[s] \in Int
<1> DEFINE T == {c \in Nat : \E s \in SUBSET S : Cardinality(s) = c /\ it[s] \notin Int}
<1>1. T = {}
  <2>1. SUFFICES ASSUME T # {} PROVE FALSE
    OBVIOUS
  <2>2. PICK c \in T : \A d \in T : c <= d
    <3>1. T \in SUBSET Nat
      OBVIOUS
    <3> HIDE DEF T
    <3> QED BY <2>1, <3>1, LeastNat
  <2>3. PICK s \in SUBSET S : Cardinality(s) = c /\ it[s] \notin Int
    BY <2>2
  <2>4. it[s] = IF s = {} THEN 0 ELSE k[Pick(s)] + it[Rest(s)]
    BY DEF Sums
  <2>5. s # {}
    BY <2>3, <2>4
  <2>6. /\ Pick(s) \in S /\ Rest(s) \in SUBSET S
        /\ Cardinality(Rest(s)) = c - 1 /\ c - 1 \in Nat /\ c \in Nat
    BY <2>2, <2>3, <2>5, RestFacts
  <2>7. it[Rest(s)] \in Int
    BY <2>2, <2>6
  <2> QED BY <2>3, <2>4, <2>5, <2>6, <2>7
<1> QED
  <2> SUFFICES ASSUME NEW s \in SUBSET S PROVE it[s] \in Int
    OBVIOUS
  <2>1. Cardinality(s) \in Nat
    BY FS_Subset, FS_CardinalityType
  <2> QED BY <1>1, <2>1

\* Two such sums over the same members are the same.
LEMMA SumsAgree ==
  ASSUME NEW S, IsFiniteSet(S), NEW R, IsFiniteSet(R), NEW k, NEW l,
         NEW it, Sums(k, S, it), NEW jt, Sums(l, R, jt),
         NEW t, t \in SUBSET S, t \in SUBSET R, \A x \in t : k[x] = l[x]
  PROVE  it[t] = jt[t]
<1> DEFINE T == {c \in Nat : \E s \in SUBSET t : Cardinality(s) = c /\ it[s] # jt[s]}
<1>f. IsFiniteSet(t)
  BY FS_Subset
<1>1. T = {}
  <2>1. SUFFICES ASSUME T # {} PROVE FALSE
    OBVIOUS
  <2>2. PICK c \in T : \A d \in T : c <= d
    <3>1. T \in SUBSET Nat
      OBVIOUS
    <3> HIDE DEF T
    <3> QED BY <2>1, <3>1, LeastNat
  <2>3. PICK s \in SUBSET t : Cardinality(s) = c /\ it[s] # jt[s]
    BY <2>2
  <2>4. /\ it[s] = IF s = {} THEN 0 ELSE k[Pick(s)] + it[Rest(s)]
        /\ jt[s] = IF s = {} THEN 0 ELSE l[Pick(s)] + jt[Rest(s)]
    <3>1. s \in SUBSET S /\ s \in SUBSET R
      OBVIOUS
    <3> QED BY <3>1 DEF Sums
  <2>5. s # {}
    BY <2>3, <2>4
  <2>6. /\ Pick(s) \in s /\ Rest(s) \in SUBSET t
        /\ Cardinality(Rest(s)) = c - 1 /\ c - 1 \in Nat /\ c \in Nat
    BY <1>f, <2>2, <2>3, <2>5, RestFacts
  <2>7. it[Rest(s)] = jt[Rest(s)]
    BY <2>2, <2>6
  <2>8. k[Pick(s)] = l[Pick(s)]
    BY <2>6
  <2> QED BY <2>3, <2>4, <2>5, <2>7, <2>8
<1>2. Cardinality(t) \in Nat /\ t \in SUBSET t
  BY <1>f, FS_CardinalityType
<1> QED BY <1>1, <1>2

\* It does not matter which member is taken first.
LEMMA SumsTake ==
  ASSUME NEW S, IsFiniteSet(S), NEW k, \A i \in S : k[i] \in Int,
         NEW it, Sums(k, S, it), NEW t \in SUBSET S, NEW y \in t
  PROVE  it[t] = k[y] + it[t \ {y}]
<1> DEFINE T == {c \in Nat : \E s \in SUBSET S, x \in S :
                   x \in s /\ Cardinality(s) = c /\ it[s] # k[x] + it[s \ {x}]}
<1>1. T = {}
  <2>1. SUFFICES ASSUME T # {} PROVE FALSE
    OBVIOUS
  <2>2. PICK c \in T : \A d \in T : c <= d
    <3>1. T \in SUBSET Nat
      OBVIOUS
    <3> HIDE DEF T
    <3> QED BY <2>1, <3>1, LeastNat
  <2>3. PICK s \in SUBSET S, x \in S :
          x \in s /\ Cardinality(s) = c /\ it[s] # k[x] + it[s \ {x}]
    BY <2>2
  <2> DEFINE p == Pick(s)
  <2>4. s # {} /\ IsFiniteSet(s)
    BY <2>3, FS_Subset
  <2>5. /\ p \in s /\ p \in S /\ Rest(s) = s \ {p} /\ s \ {p} \in SUBSET S
        /\ Cardinality(s \ {p}) = c - 1 /\ c - 1 \in Nat /\ c \in Nat
    BY <2>2, <2>3, <2>4, RestFacts DEF Rest
  <2>6. it[s] = k[p] + it[s \ {p}]
    BY <2>4, <2>5 DEF Sums
  <2> HIDE DEF p
  <2>7. p # x
    BY <2>3, <2>6
  <2>8. Cardinality(s \ {x}) = c - 1
    BY <2>3, <2>4, FS_RemoveElement
  <2>9. c - 1 \notin T
    <3> HIDE DEF T
    <3> QED BY <2>2, <2>5
  <2>10. it[s \ {p}] = k[x] + it[(s \ {p}) \ {x}]
    <3>1. x \in s \ {p}
      BY <2>3, <2>7
    <3> QED BY <2>5, <2>9, <3>1
  <2>11. it[s \ {x}] = k[p] + it[(s \ {x}) \ {p}]
    <3>1. p \in s \ {x} /\ s \ {x} \in SUBSET S
      BY <2>5, <2>7
    <3> QED BY <2>5, <2>8, <2>9, <3>1
  <2>12. (s \ {p}) \ {x} = (s \ {x}) \ {p} /\ (s \ {x}) \ {p} \in SUBSET S
    OBVIOUS
  <2>13. it[(s \ {x}) \ {p}] \in Int
    BY <2>12, SumsType
  <2>14. k[x] \in Int /\ k[p] \in Int
    BY <2>5
  <2>15. it[s] = k[x] + it[s \ {x}]
    <3> DEFINE r == it[(s \ {x}) \ {p}]
    <3>1. it[s \ {p}] = k[x] + r
      BY <2>10, <2>12
    <3>2. it[s \ {x}] = k[p] + r /\ r \in Int
      BY <2>11, <2>13
    <3> HIDE DEF T, r
    <3> QED BY ONLY <2>6, <3>1, <3>2, <2>14
  <2> QED BY <2>3, <2>15
<1>2. Cardinality(t) \in Nat
  BY FS_Subset, FS_CardinalityType
<1> QED BY <1>1, <1>2

\* The sum of k over S.
Total(k, S) == (CHOOSE it : Sums(k, S, it))[S]

LEMMA TotalFacts ==
  ASSUME NEW S, IsFiniteSet(S), NEW k, \A i \in S : k[i] \in Int
  PROVE  /\ Total(k, S) \in Int
         /\ Total(k, {}) = 0
         /\ \A y \in S : Total(k, S) = k[y] + Total(k, S \ {y})
<1> DEFINE it == CHOOSE j : Sums(k, S, j)
<1>1. Sums(k, S, it)
  BY SumsExist
<1> HIDE DEF it
<1>2. Total(k, S) = it[S]
  BY DEF Total, it
<1>3. Total(k, S) \in Int
  BY <1>1, <1>2, SumsType
<1>4. ASSUME NEW R, IsFiniteSet(R), R \subseteq S PROVE Total(k, R) = it[R]
  <2> DEFINE jt == CHOOSE j : Sums(k, R, j)
  <2>1. Sums(k, R, jt)
    <3>1. \A i \in R : k[i] \in Int
      BY <1>4
    <3> QED BY <1>4, <3>1, SumsExist
  <2> HIDE DEF jt
  <2>2. Total(k, R) = jt[R]
    BY DEF Total, jt
  <2>3. R \in SUBSET S /\ R \in SUBSET R /\ \A x \in R : k[x] = k[x]
    BY <1>4
  <2>4. jt[R] = it[R]
    BY <1>1, <1>4, <2>1, <2>3, SumsAgree
  <2> QED BY <2>2, <2>4
<1>5. Total(k, {}) = 0
  <2>1. Total(k, {}) = it[{}]
    BY <1>4, FS_EmptySet
  <2> QED BY <1>1, <2>1 DEF Sums
<1>6. ASSUME NEW y \in S PROVE Total(k, S) = k[y] + Total(k, S \ {y})
  <2>1. it[S] = k[y] + it[S \ {y}]
    BY <1>1, SumsTake
  <2>2. Total(k, S \ {y}) = it[S \ {y}]
    <3>1. IsFiniteSet(S \ {y}) /\ S \ {y} \subseteq S
      BY FS_RemoveElement
    <3> QED BY <1>4, <3>1
  <2> QED BY <1>2, <2>1, <2>2
<1> QED BY <1>3, <1>5, <1>6

\* One more member.
LEMMA TotalMore ==
  ASSUME NEW S, IsFiniteSet(S), NEW k, NEW y, y \notin S,
         \A i \in S \cup {y} : k[i] \in Int
  PROVE  Total(k, S \cup {y}) = Total(k, S) + k[y]
<1> DEFINE U == S \cup {y}
<1>1. IsFiniteSet(U) /\ y \in U /\ U \ {y} = S
  BY FS_AddElement
<1>2. Total(k, U) = k[y] + Total(k, U \ {y})
  BY <1>1, TotalFacts
<1>3. Total(k, S) \in Int /\ k[y] \in Int
  BY TotalFacts
<1>4. Total(k, S \cup {y}) = k[y] + Total(k, S)
  BY <1>1, <1>2
<1> QED BY <1>3, <1>4

\* What k is elsewhere does not count.
LEMMA TotalSame ==
  ASSUME NEW S, IsFiniteSet(S), NEW k, NEW l, \A i \in S : k[i] \in Int,
         \A i \in S : k[i] = l[i]
  PROVE  Total(k, S) = Total(l, S)
<1>1. Sums(k, S, CHOOSE j : Sums(k, S, j)) /\ Sums(l, S, CHOOSE j : Sums(l, S, j))
  <2>1. \A i \in S : l[i] \in Int
    OBVIOUS
  <2> QED BY <2>1, SumsExist
<1>2. S \in SUBSET S
  OBVIOUS
<1> QED BY <1>1, <1>2, SumsAgree DEF Total

-----------------------------------------------------------------------------
(* The metrics *)

\* The counters that the requests of a window account for, and all of them.
Accounted ==
  {"requests", "hits", "misses", "gpuHitBlocks", "cpuHitBlocks",
   "reusedTokens", "recomputedTokens", "cpuLoadFailures"}
Counters == Accounted \cup {"prefillExecuted", "decodeExecuted"}

\* Counters are numbers.
CountersOK(m) ==
  /\ m = [c \in Counters |-> m[c]]
  /\ \A c \in Accounted : m[c] \in Int

\* What was found at the first lookups.
Lookups == [Seqs -> [blocks : Nat, tier : {"none", "gpu", "cpu"}]]

MTypeOK == CountersOK(metrics) /\ lookup \in Lookups /\ window \in SUBSET Seqs

\* The lookup of a request is recorded before it gets blocks, and once; while
\* its CPU handles are there, a hit in the CPU tier is theirs.
LookupRight(s) ==
  /\ lookup[s].tier = "none" =>
       lookup[s] = NoLookup /\ Len(tokens[s]) = numPrompt[s] /\ blockTable[s] = <<>>
  /\ s \in window => lookup[s].tier # "none"
  /\ lookup[s].tier # "none" =>
       status[s] # "NEW" /\ (status[s] # "FINISHED" => s \in window)
  /\ lookup[s].tier = "cpu" /\ cpuHandles[s] # 0 => lookup[s].blocks = cpuHandles[s]
  /\ restorePending[s] => cpuHandles[s] > 0

\* The requests of the window that did not fall back.
Served == window \ Fallen
Hitting == {s \in Served : lookup[s].blocks > 0}
ServedFrom(tier) == {s \in Served : lookup[s].tier = tier}
Found == [s \in Seqs |-> lookup[s].blocks]

\* MetricsHonest, with sums for the folds.
Balanced ==
  /\ metrics.requests = Cardinality(window)
  /\ metrics.hits + metrics.misses = metrics.requests
  /\ metrics.reusedTokens
       = (metrics.gpuHitBlocks + metrics.cpuHitBlocks) * BlockSize
  /\ metrics.reusedTokens + metrics.recomputedTokens = Total(numPrompt, window)

HitsCounted ==
  /\ StrayFallbacks >= 0
  /\ metrics.hits = Cardinality(Hitting) - StrayFallbacks
  /\ metrics.gpuHitBlocks = Total(Found, ServedFrom("gpu"))
  /\ metrics.cpuHitBlocks <= Total(Found, ServedFrom("cpu")) - StrayFallbacks
  /\ StrayFallbacks = 0 => metrics.cpuHitBlocks = Total(Found, ServedFrom("cpu"))

\* The inductive invariant.
MInv == MTypeOK /\ (\A s \in Seqs : LookupRight(s)) /\ Balanced /\ HitsCounted

\* What record_lookup makes of m, for n tokens of which k blocks are found in
\* tier t.
RecordsOf(m, k, n, t, r) ==
  /\ CountersOK(r)
  /\ r.requests = m.requests + 1
  /\ r.reusedTokens = m.reusedTokens + k * BlockSize
  /\ r.recomputedTokens = m.recomputedTokens + n - k * BlockSize
  /\ r.hits = (IF k > 0 THEN m.hits + 1 ELSE m.hits)
  /\ r.misses = (IF k > 0 THEN m.misses ELSE m.misses + 1)
  /\ r.gpuHitBlocks = (IF t = "gpu" THEN m.gpuHitBlocks + k ELSE m.gpuHitBlocks)
  /\ r.cpuHitBlocks = (IF t = "cpu" THEN m.cpuHitBlocks + k ELSE m.cpuHitBlocks)
  /\ r.cpuLoadFailures = m.cpuLoadFailures

LEMMA RecordedEffect ==
  ASSUME NEW m, CountersOK(m), NEW k \in Nat, NEW n \in Nat, NEW t \in {"gpu", "cpu"},
         NEW r, r = Recorded(m, k, n, t)
  PROVE  RecordsOf(m, k, n, t, r)
<1>1. k * BlockSize \in Nat
  BY MulType
<1> DEFINE d == k * BlockSize
<1>2. /\ DOMAIN m = Counters
      /\ \A c \in Accounted : m[c] \in Int
  BY DEF CountersOK
<1> HIDE DEF d
<1>3. r = [m EXCEPT !.requests = @ + 1,
            !.reusedTokens = @ + d,
            !.recomputedTokens = @ + n - d,
            !.hits = IF k > 0 THEN @ + 1 ELSE @,
            !.misses = IF k > 0 THEN @ ELSE @ + 1,
            !.gpuHitBlocks = IF t = "gpu" THEN @ + k ELSE @,
            !.cpuHitBlocks = IF t = "cpu" THEN @ + k ELSE @]
  BY DEF Recorded, d
<1>4. /\ r.requests = m.requests + 1
      /\ r.reusedTokens = m.reusedTokens + d
      /\ r.recomputedTokens = m.recomputedTokens + n - d
      /\ r.hits = (IF k > 0 THEN m.hits + 1 ELSE m.hits)
      /\ r.misses = (IF k > 0 THEN m.misses ELSE m.misses + 1)
      /\ r.gpuHitBlocks = (IF t = "gpu" THEN m.gpuHitBlocks + k ELSE m.gpuHitBlocks)
      /\ r.cpuHitBlocks = (IF t = "cpu" THEN m.cpuHitBlocks + k ELSE m.cpuHitBlocks)
      /\ r.cpuLoadFailures = m.cpuLoadFailures
  BY <1>2, <1>3 DEF Counters, Accounted
<1>5. r = [c \in Counters |-> r[c]]
  BY <1>2, <1>3 DEF CountersOK
<1>6. \A c \in Accounted : r[c] \in Int
  BY <1>1, <1>2, <1>4 DEF Accounted, d
<1> QED BY <1>4, <1>5, <1>6 DEF CountersOK, RecordsOf, d

\* What record_cpu_restore_fallback changes.
LEMMA FallbackEffect ==
  ASSUME NEW m, CountersOK(m), NEW k \in Nat, NEW r, r = Fallback(m, k)
  PROVE  /\ CountersOK(r)
         /\ r.requests = m.requests
         /\ r.reusedTokens = m.reusedTokens - k * BlockSize
         /\ r.recomputedTokens = m.recomputedTokens + k * BlockSize
         /\ r.hits = m.hits - 1 /\ r.misses = m.misses + 1
         /\ r.gpuHitBlocks = m.gpuHitBlocks
         /\ r.cpuHitBlocks = m.cpuHitBlocks - k
         /\ r.cpuLoadFailures = m.cpuLoadFailures + 1
<1> DEFINE d == k * BlockSize
<1>1. d \in Nat
  BY MulType
<1>2. /\ DOMAIN m = Counters
      /\ \A c \in Accounted : m[c] \in Int
  BY DEF CountersOK
<1>3. r = [m EXCEPT !.cpuLoadFailures = @ + 1,
            !.hits = @ - 1, !.misses = @ + 1, !.cpuHitBlocks = @ - k,
            !.reusedTokens = @ - d,
            !.recomputedTokens = @ + d]
  BY DEF Fallback
<1> HIDE DEF d
<1>4. /\ r.requests = m.requests
      /\ r.reusedTokens = m.reusedTokens - d
      /\ r.recomputedTokens = m.recomputedTokens + d
      /\ r.hits = m.hits - 1 /\ r.misses = m.misses + 1
      /\ r.gpuHitBlocks = m.gpuHitBlocks
      /\ r.cpuHitBlocks = m.cpuHitBlocks - k
      /\ r.cpuLoadFailures = m.cpuLoadFailures + 1
  BY <1>2, <1>3 DEF Counters, Accounted
<1>5. r = [c \in Counters |-> r[c]]
  BY <1>2, <1>3 DEF CountersOK
<1>6. \A c \in Accounted : r[c] \in Int
  BY <1>1, <1>2, <1>4 DEF Accounted
<1> QED BY <1>4, <1>5, <1>6 DEF CountersOK, d


\* The fold of the blocks of a set of lookups is their sum.
LEMMA BlocksSum ==
  ASSUME NEW L \in Lookups, NEW D \in SUBSET Seqs
  PROVE  (CHOOSE it : it = [s \in SUBSET D |-> IF s = {} THEN 0
                                               ELSE L[Pick(s)].blocks + it[Rest(s)]])[D]
           = Total([s \in Seqs |-> L[s].blocks], D)
<1> DEFINE k == [s \in Seqs |-> L[s].blocks]
           Folds(it) == it = [s \in SUBSET D |-> IF s = {} THEN 0
                                                 ELSE L[Pick(s)].blocks + it[Rest(s)]]
           jt == CHOOSE it : Folds(it)
<1>1. \A i \in D : k[i] \in Int /\ k[i] = L[i].blocks
  BY DEF Lookups
<1>2. IsFiniteSet(D)
  BY FS_Subset, FinitenessAssumption
<1> HIDE DEF k
<1>3. PICK it : Sums(k, D, it)
  BY <1>1, <1>2, SumsExist
<1>4. \A s \in SUBSET D : s # {} => L[Pick(s)].blocks = k[Pick(s)]
  BY <1>1 DEF Pick
<1>5. Folds(it)
  BY <1>3, <1>4 DEF Sums
<1>6. Folds(jt)
  <2> HIDE DEF Folds
  <2> QED BY <1>5
<1> HIDE DEF jt
<1>7. Sums(k, D, jt)
  BY <1>4, <1>6 DEF Sums
<1>8. Total(k, D) = jt[D]
  <2> DEFINE kt == CHOOSE j : Sums(k, D, j)
  <2>1. Sums(k, D, kt)
    BY <1>3
  <2> HIDE DEF kt
  <2>2. kt[D] = jt[D]
    <3>1. D \in SUBSET D /\ \A x \in D : k[x] = k[x]
      OBVIOUS
    <3> QED BY <1>2, <1>7, <2>1, <3>1, SumsAgree
  <2> QED BY <2>2 DEF Total, kt
<1> QED BY <1>8 DEF jt, k

\* MetricsHonest is what MInv says of the counters.
LEMMA CountersHonest == MInv => MetricsHonest
<1> SUFFICES ASSUME MInv PROVE MetricsHonest
  OBVIOUS
<1>1. TotalPrompt(window) = Total(numPrompt, window)
  BY DEF TotalPrompt, FoldSet, MapThenFoldSet, Total, Sums, Pick, Rest
<1>2. MetricsBalance
  BY <1>1 DEF MInv, Balanced, MetricsBalance
<1>3. ASSUME NEW t \in {"gpu", "cpu"}
      PROVE  BlocksFound(t, Served) = Total(Found, ServedFrom(t))
  <2> DEFINE D == ServedFrom(t)
  <2>1. D \in SUBSET Seqs /\ lookup \in Lookups
    BY DEF MInv, MTypeOK, ServedFrom, Served
  <2>2. D = {s \in Served : lookup[s].tier = t}
    BY DEF ServedFrom
  <2> HIDE DEF D
  <2>3. BlocksFound(t, Served)
          = (CHOOSE it : it = [s \in SUBSET D |-> IF s = {} THEN 0
                                 ELSE lookup[Pick(s)].blocks + it[Rest(s)]])[D]
    BY <2>2 DEF BlocksFound, FoldSet, MapThenFoldSet, Pick, Rest
  <2> QED BY <2>1, <2>3, BlocksSum DEF Found, D
<1>4. HitsAccounted
  BY <1>3 DEF MInv, HitsCounted, HitsAccounted, Hitting, Served
<1> QED BY <1>2, <1>4 DEF MetricsHonest


\* What a request keeps once it exists.
LEMMA Remembered ==
  ASSUME SInv, [Next]_vars, NEW s \in Seqs, status[s] # "NEW"
  PROVE  /\ tokens[s] # <<>>
         /\ numPrompt'[s] = numPrompt[s] /\ status'[s] # "NEW"
         /\ status'[s] # "FINISHED" => status[s] # "FINISHED"
<1>t. STypeOK /\ BMTypeOK /\ Range(batch) \subseteq Seqs
  BY SInvTypes
<1>1. tokens[s] # <<>>
  BY DEF SInv, StatusInv
<1>2. numPrompt'[s] = numPrompt[s] /\ tokens'[s] # <<>>
  <2>1. /\ numPrompt'[s] = numPrompt[s]
        /\ tokens'[s] = tokens[s] \/ \E t \in Token : tokens'[s] = Append(tokens[s], t)
    BY <1>1, TokensGrow
  <2>2. tokens[s] \in Seq(Token)
    BY <1>t DEF BMTypeOK
  <2> QED BY <1>1, <2>1, <2>2, AppendProperties
<1>3. status'[s] # "NEW"
  <2>1. SInv'
    BY NextSInv
  <2> QED BY <1>2, <2>1 DEF SInv, StatusInv
<1>4. status'[s] # "FINISHED" => status[s] # "FINISHED"
  <2>1. CASE Arrivals
    <3>1. PICK r \in Seqs : /\ status[r] = "NEW"
                            /\ status' = [status EXCEPT ![r] = "WAITING"]
      BY <2>1 DEF Arrivals, AddRequest
    <3> QED BY <3>1, <1>t DEF STypeOK
  <2>2. CASE Sample
    <3>1. status' = status \/ status' = [status EXCEPT ![Head(batch)] = "FINISHED"]
      BY <2>2 DEF Sample
    <3> QED BY <3>1, <1>t DEF STypeOK
  <2>3. CASE ~Arrivals /\ ~Sample
    BY <2>3, HiddenSteps DEF ClientSees
  <2> QED BY <2>1, <2>2, <2>3
<1> QED BY <1>1, <1>2, <1>3, <1>4

\* A request gets its CPU handles on arrival and loses them in a rollback.
LEMMA HandlesStay ==
  ASSUME SInv, [Next]_vars, NEW s \in Seqs, status[s] # "NEW"
  PROVE  \/ cpuHandles'[s] = cpuHandles[s]
         \/ RollbackCpuRestore /\ s \in Pending /\ cpuHandles'[s] = 0
<1>t. STypeOK
  BY SInvTypes
<1>1. CASE Arrivals
  <2>1. PICK r \in Seqs : /\ status[r] = "NEW"
                          /\ \E h : cpuHandles' = [cpuHandles EXCEPT ![r] = h]
    BY <1>1 DEF Arrivals, AddRequest
  <2> QED BY <2>1, <1>t DEF STypeOK
<1>2. CASE RollbackCpuRestore
  <2>1. PICK r \in Pending : cpuHandles' = [cpuHandles EXCEPT ![r] = 0]
    BY <1>2 DEF RollbackCpuRestore, HandlesAfterRollback
  <2>2. r \in Seqs
    BY PendingOne
  <2> QED BY <1>2, <2>1, <2>2, <1>t DEF STypeOK
<1>3. CASE Admit
  BY <1>3 DEF Admit, AdmitFromGpu, AdmitFromCpu, ContinueChunk, ScheduleChunk
<1>4. CASE PreemptOther \/ PreemptSelf \/ ScheduleDecode
  BY <1>4 DEF PreemptOther, PreemptSelf, Preempt, ScheduleDecode
<1>5. CASE ClearGpuPrefixCache \/ StartStep \/ EndPrefill \/ EndDecode \/ NothingScheduled
           \/ Hash \/ Sample \/ Finish \/ EndStep \/ ConfirmCpuRestore \/ Run
           \/ UNCHANGED vars
  BY <1>5 DEF ClearGpuPrefixCache, StartStep, EndPrefill, EndDecode, NothingScheduled,
     Hash, Sample, Finish, EndStep, ConfirmCpuRestore, Run, vars, seqVars
<1> QED BY <1>1, <1>2, <1>3, <1>4, <1>5 DEF Next, StepControl

\* Only admission opens a table, that of the head of the waiting queue, and only
\* a hit in the CPU tier makes it wait for a restore.
LEMMA TableOpens ==
  ASSUME SInv, [Next]_vars, NEW s \in Seqs
  PROVE  /\ blockTable[s] = <<>> /\ blockTable'[s] # <<>> => Admit /\ s = Head(waiting)
         /\ restorePending'[s] =>
              \/ restorePending[s] /\ ~(RollbackCpuRestore /\ s \in Pending)
              \/ Admit /\ cpuHandles[s] > 0 /\ status[s] # "NEW"
<1>t. STypeOK /\ BMTypeOK
  BY SInvTypes
<1>1. CASE Admit
  <2> DEFINE h == Head(waiting)
  <2>0. h \in Seqs /\ status[h] # "NEW"
    <3>1. waiting # <<>> /\ waiting \in Seq(Seqs)
      BY <1>1, <1>t DEF Admit, CanAdmit, STypeOK
    <3>2. h \in Seqs /\ h \in Range(waiting)
      BY <3>1, HeadIn, SInvTypes, TailOrdered
    <3> QED BY <3>2 DEF SInv, StatusInv
  <2> HIDE DEF h
  <2>p. ~RollbackCpuRestore
    BY <1>1 DEF Admit, RollbackCpuRestore
  <2>1. CASE AdmitFromGpu(h)
    <3>1. restorePending' = restorePending /\ \E b : blockTable' = [blockTable EXCEPT ![h] = b]
      BY <2>1 DEF AdmitFromGpu, Allocate, Place
    <3> QED BY <1>1, <3>1, <2>0, <2>p, <1>t DEF BMTypeOK, h
  <2>2. CASE AdmitFromCpu(h)
    <3>1. /\ restorePending' = [restorePending EXCEPT ![h] = TRUE]
          /\ \E b : blockTable' = [blockTable EXCEPT ![h] = b]
          /\ cpuHandles[h] > 0
      BY <2>2 DEF AdmitFromCpu, AllocateForCpuRestore, Place, UseCpu
    <3> QED BY <1>1, <3>1, <2>0, <2>p, <1>t DEF BMTypeOK, h
  <2>3. CASE ContinueChunk(h)
    BY <2>3, <2>p DEF ContinueChunk, bmVars
  <2> QED BY <1>1, <2>1, <2>2, <2>3 DEF Admit, h
<1>2. CASE PreemptOther \/ PreemptSelf
  <2>1. \E r \in {Victim, Head(running)} : Release(r)
    BY <1>2 DEF PreemptOther, PreemptSelf, Preempt
  <2>2. restorePending' = restorePending /\ pc = "decode"
        /\ \E r : blockTable' = [blockTable EXCEPT ![r] = <<>>]
    BY <1>2, <2>1 DEF Release, Deallocate, PreemptOther, PreemptSelf, CanDecode
  <2> QED BY <2>2, <1>t DEF BMTypeOK, RollbackCpuRestore
<1>3. CASE RollbackCpuRestore
  <2>1. PICK r \in Pending : RollbackRestore(r)
    BY <1>3 DEF RollbackCpuRestore
  <2>2. /\ restorePending' = [restorePending EXCEPT ![r] = FALSE]
        /\ blockTable' = [blockTable EXCEPT ![r] = <<>>]
    BY <2>1 DEF RollbackRestore, Deallocate
  <2>3. r \in Seqs /\ \A a \in Seqs : restorePending[a] => a = r
    BY PendingOne
  <2> QED BY <2>2, <2>3, <1>t DEF BMTypeOK
<1>4. CASE ConfirmCpuRestore
  <2>1. PICK r \in Pending : ConfirmRestore(r)
    BY <1>4 DEF ConfirmCpuRestore
  <2>2. /\ restorePending' = [restorePending EXCEPT ![r] = FALSE] /\ blockTable' = blockTable
    BY <2>1 DEF ConfirmRestore
  <2>3. r \in Seqs /\ \A a \in Seqs : restorePending[a] => a = r
    BY PendingOne
  <2> QED BY <2>2, <2>3, <1>t DEF BMTypeOK
<1>5. CASE ScheduleDecode
  <2> DEFINE h == Head(running)
  <2>1. CASE UNCHANGED bmVars
    BY <1>5, <2>1 DEF bmVars, ScheduleDecode, CanDecode, RollbackCpuRestore
  <2>2. CASE MayAppend(h)
    <3>1. restorePending' = restorePending /\ blockTable[h] # <<>>
          /\ \E b : blockTable' = [blockTable EXCEPT ![h] = b]
      BY <2>2 DEF MayAppend, Place
    <3> QED BY <1>5, <3>1, <1>t DEF BMTypeOK, ScheduleDecode, CanDecode, RollbackCpuRestore
  <2> QED BY <1>5, <2>1, <2>2 DEF ScheduleDecode, GrowTable
<1>6. CASE Finish
  <2>1. restorePending' = restorePending /\ pc = "finish"
        /\ \E r : blockTable' = [blockTable EXCEPT ![r] = <<>>]
    BY <1>6 DEF Finish, Release, Deallocate
  <2> QED BY <2>1, <1>t DEF BMTypeOK, RollbackCpuRestore
<1>7. CASE Arrivals \/ Hash \/ Sample \/ ClearGpuPrefixCache
  BY <1>7 DEF Arrivals, AddRequest, NewSequence, Hash, HashBlocks, Sample, AppendToken,
     ClearGpuPrefixCache, EvictFreeCachedBlocks, allocVars, RollbackCpuRestore
<1>8. CASE StartStep \/ EndPrefill \/ EndDecode \/ NothingScheduled \/ EndStep \/ Run
  BY <1>8, PendingOne DEF StartStep, EndPrefill, EndDecode, NothingScheduled, EndStep, Run, vars, bmVars,
     RollbackCpuRestore
<1>9. CASE UNCHANGED vars
  <2>1. blockTable' = blockTable /\ restorePending' = restorePending /\ pc' = pc
    BY <1>9 DEF vars, bmVars, stepVars
  <2>2. ~RollbackCpuRestore
    BY <2>1 DEF RollbackCpuRestore
  <2> QED BY <2>1, <2>2
<1> QED BY <1>1, <1>2, <1>3, <1>4, <1>5, <1>6, <1>7, <1>8, <1>9 DEF Next, StepControl


\* Nothing is sampled for a request without blocks.
LEMMA StillPrompt ==
  ASSUME SInv, [Next]_vars, NEW s \in Seqs,
         Len(tokens[s]) = numPrompt[s], blockTable[s] = <<>>
  PROVE  Len(tokens'[s]) = numPrompt'[s]
<1>t. STypeOK /\ BMTypeOK
  BY SInvTypes
<1>1. CASE Arrivals
  <2>1. PICK r \in Seqs, p \in Prompts : \E h \in CpuMatches(p) : AddRequest(r, p, h)
    BY <1>1 DEF Arrivals
  <2>2. /\ tokens' = [tokens EXCEPT ![r] = p]
        /\ numPrompt' = [numPrompt EXCEPT ![r] = Len(p)]
    BY <2>1 DEF AddRequest, NewSequence
  <2> QED BY <2>2, <1>t DEF STypeOK, BMTypeOK
<1>2. CASE Sample
  <2>1. PICK t \in Token : AppendToken(Head(batch), t)
    BY <1>2 DEF Sample
  <2>2. /\ tokens' = [tokens EXCEPT ![Head(batch)] = Append(@, t)]
        /\ numPrompt' = numPrompt /\ blockTable[Head(batch)] # <<>>
    BY <1>2, <2>1 DEF AppendToken, Sample
  <2> QED BY <2>2, <1>t DEF BMTypeOK
<1>3. CASE ~Arrivals /\ ~Sample
  BY <1>3, HiddenSteps DEF ClientSees
<1> QED BY <1>1, <1>2, <1>3

\* A record stays right while the request is in the window, or done.
LEMMA LookupKept ==
  ASSUME SInv, [Next]_vars, MTypeOK, NEW s \in Seqs, LookupRight(s),
         lookup'[s] = lookup[s],
         s \in window' => s \in window,
         s \in window /\ status'[s] # "FINISHED" => s \in window',
         Admit /\ s = Head(waiting) /\ blockTable[s] = <<>> => lookup[s].tier # "none"
  PROVE  LookupRight(s)'
<1>1. CASE lookup[s].tier = "none"
  <2>1. lookup[s] = NoLookup /\ Len(tokens[s]) = numPrompt[s] /\ blockTable[s] = <<>>
        /\ s \notin window /\ (restorePending[s] => cpuHandles[s] > 0)
    BY <1>1 DEF LookupRight
  <2>2. blockTable'[s] = <<>> /\ (~Admit \/ s # Head(waiting))
    BY <1>1, <2>1, TableOpens
  <2>3. Len(tokens'[s]) = numPrompt'[s]
    BY <2>1, StillPrompt
  <2>4. restorePending'[s] => cpuHandles'[s] > 0
    <3>1. SInv'
      BY NextSInv
    <3>2. restorePending'[s] => blockTable'[s] # <<>>
      <4>1. IInv' /\ BMTypeOK'
        BY <3>1 DEF SInv, IInv
      <4>2. restorePending'[s] => BlockSize <= Len(blockTable'[s]) * BlockSize
        BY <4>1, BlockSizeAssumption DEF IInv, TablesCover, TablesSound, BMTypeOK
      <4> QED BY <4>2, EmptySeq, BlockSizeAssumption
    <3> QED BY <2>2, <3>2
  <2> QED BY <1>1, <2>1, <2>2, <2>3, <2>4 DEF LookupRight, NoLookup
<1>2. CASE lookup[s].tier # "none"
  <2>1. status[s] # "NEW" /\ (status[s] # "FINISHED" => s \in window)
    BY <1>2 DEF LookupRight
  <2>2. status'[s] # "NEW" /\ (status'[s] # "FINISHED" => status[s] # "FINISHED")
    BY <2>1, Remembered
  <2>3. cpuHandles'[s] = cpuHandles[s] \/ (cpuHandles'[s] = 0 /\ RollbackCpuRestore /\ s \in Pending)
    BY <2>1, HandlesStay
  <2>4. restorePending'[s] => cpuHandles'[s] > 0
    <3>1. SUFFICES ASSUME restorePending'[s] PROVE cpuHandles'[s] > 0
      OBVIOUS
    <3>2. \/ restorePending[s] /\ ~(RollbackCpuRestore /\ s \in Pending)
          \/ Admit /\ cpuHandles[s] > 0
      BY <3>1, TableOpens
    <3>3. Admit => ~RollbackCpuRestore
      BY DEF Admit, RollbackCpuRestore
    <3> QED BY <2>3, <3>2, <3>3 DEF LookupRight
  <2>5. lookup'[s].tier = "cpu" /\ cpuHandles'[s] # 0 => lookup'[s].blocks = cpuHandles'[s]
    BY <2>3 DEF LookupRight
  <2> QED BY <1>2, <2>1, <2>2, <2>4, <2>5 DEF LookupRight
<1> QED BY <1>1, <1>2


\* The requests of a window exist, and there are finitely many.
LEMMA WindowFacts ==
  ASSUME SInv, MInv
  PROVE  /\ window \subseteq Seqs /\ IsFiniteSet(window)
         /\ Fallen \subseteq Seqs /\ IsFiniteSet(Fallen) /\ Cardinality(Fallen) \in Nat
         /\ IsFiniteSet(Hitting) /\ Cardinality(Hitting) \in Nat
         /\ Hitting \subseteq Seqs
         /\ \A t : ServedFrom(t) \subseteq Seqs /\ IsFiniteSet(ServedFrom(t))
         /\ \A s \in window : lookup[s].tier # "none" /\ status[s] # "NEW"
         /\ \A s \in Seqs : numPrompt[s] \in Int /\ Found[s] \in Int
<1>1. window \subseteq Seqs /\ IsFiniteSet(Seqs) /\ lookup \in Lookups
  BY FinitenessAssumption DEF MInv, MTypeOK
<1>2. /\ Fallen \subseteq Seqs /\ Hitting \subseteq Seqs
      /\ \A t : ServedFrom(t) \subseteq Seqs
  BY <1>1 DEF Fallen, Hitting, ServedFrom, Served
<1>3. \A T : T \subseteq Seqs => IsFiniteSet(T) /\ Cardinality(T) \in Nat
  BY <1>1, FS_Subset, FS_CardinalityType
<1>4. \A s \in window : lookup[s].tier # "none" /\ status[s] # "NEW"
  BY <1>1 DEF MInv, LookupRight
<1>5. \A s \in Seqs : numPrompt[s] \in Int
  BY SInvTypes DEF STypeOK
<1>6. \A s \in Seqs : Found[s] \in Int
  BY <1>1 DEF Found, Lookups
<1> QED BY <1>1, <1>2, <1>3, <1>4, <1>5, <1>6

\* A step that no counter takes note of.
LEMMA QuietStep ==
  ASSUME SInv, MInv, [Next]_vars, ~RollbackCpuRestore,
         lookup' = lookup, window' = window, CountersOK(metrics'),
         \A c \in Accounted : metrics'[c] = metrics[c],
         \A s \in Seqs : Admit /\ s = Head(waiting) /\ blockTable[s] = <<>>
                           => lookup[s].tier # "none"
  PROVE  MInv'
<1>w. /\ window \subseteq Seqs /\ IsFiniteSet(window)
      /\ \A s \in window : lookup[s].tier # "none" /\ status[s] # "NEW"
      /\ \A s \in Seqs : numPrompt[s] \in Int /\ Found[s] \in Int
  BY WindowFacts
<1>1. MTypeOK'
  BY DEF MInv, MTypeOK
<1>2. \A s \in Seqs : LookupRight(s)'
  BY LookupKept DEF MInv
<1>3. /\ metrics'.requests = metrics.requests /\ metrics'.hits = metrics.hits
      /\ metrics'.misses = metrics.misses
      /\ metrics'.gpuHitBlocks = metrics.gpuHitBlocks
      /\ metrics'.cpuHitBlocks = metrics.cpuHitBlocks
      /\ metrics'.reusedTokens = metrics.reusedTokens
      /\ metrics'.recomputedTokens = metrics.recomputedTokens
      /\ metrics'.cpuLoadFailures = metrics.cpuLoadFailures
  BY DEF Accounted
<1>4. Total(numPrompt', window) = Total(numPrompt, window)
  <2>1. \A s \in window : numPrompt[s] \in Int /\ numPrompt[s] = numPrompt'[s]
    BY <1>w, Remembered
  <2> QED BY <1>w, <2>1, TotalSame
<1>5. Balanced'
  BY <1>3, <1>4 DEF MInv, Balanced
<1>6. Fallen' = Fallen
  <2>1. \A s \in window : cpuHandles'[s] = cpuHandles[s]
    BY <1>w, HandlesStay
  <2> QED BY <2>1 DEF Fallen
<1>7. /\ Served' = Served /\ Hitting' = Hitting /\ Found' = Found
      /\ ServedFrom("gpu")' = ServedFrom("gpu") /\ ServedFrom("cpu")' = ServedFrom("cpu")
  BY <1>6 DEF Served, Hitting, Found, ServedFrom
<1>8. HitsCounted'
  BY <1>3, <1>6, <1>7 DEF MInv, HitsCounted, StrayFallbacks
<1> QED BY <1>1, <1>2, <1>5, <1>8 DEF MInv

\* generate() resets the metrics.
LEMMA ResetStep ==
  ASSUME SInv, MInv, Arrivals, waiting \o running = <<>>,
         metrics' = NoMetrics, window' = {}, lookup' = lookup
  PROVE  MInv'
<1>0. [Next]_vars
  BY DEF Next
<1>1. \A s \in Seqs : lookup[s].tier # "none" => status[s] = "FINISHED"
  <2>1. waiting = <<>> /\ running = <<>>
    <3>1. waiting \in Seq(Seqs) /\ running \in Seq(Seqs)
      BY SInvTypes
    <3>2. Len(waiting \o running) = Len(waiting) + Len(running)
          /\ Len(waiting) \in Nat /\ Len(running) \in Nat
      BY <3>1, ConcatProperties, LenProperties
    <3>3. Len(waiting) = 0 /\ Len(running) = 0
      BY <3>2, EmptySeq
    <3> QED BY <3>1, <3>3, EmptySeq
  <2>2. pc = "idle"
    BY DEF Arrivals, AddRequest
  <2>3. \A s \in Seqs : status[s] # "WAITING" /\ status[s] # "RUNNING"
    <3>1. Range(waiting) = {} /\ Range(running) = {}
      BY <2>1, RangeEmpty, SInvTypes
    <3> QED BY <2>2, <3>1 DEF SInv, StatusInv
  <2>4. \A s \in Seqs : status[s] \in {"NEW", "WAITING", "RUNNING", "FINISHED"}
    BY SInvTypes DEF STypeOK
  <2> QED BY <2>3, <2>4 DEF MInv, LookupRight
<1>2. \A s \in Seqs : LookupRight(s)'
  <2> SUFFICES ASSUME NEW s \in Seqs PROVE LookupRight(s)'
    OBVIOUS
  <2>1. s \in window /\ status'[s] # "FINISHED" => s \in window'
    <3>1. s \in window => lookup[s].tier # "none"
      BY DEF MInv, LookupRight
    <3>2. lookup[s].tier # "none" => status'[s] = "FINISHED"
      BY <1>0, <1>1, Remembered
    <3> QED BY <3>1, <3>2
  <2>2. ~Admit
    BY DEF Admit, Arrivals, AddRequest
  <2>3. s \in window' => s \in window
    OBVIOUS
  <2> QED BY <1>0, <2>1, <2>2, <2>3, LookupKept DEF MInv
<1>3. MTypeOK'
  <2>1. CountersOK(NoMetrics)
    BY DEF CountersOK, NoMetrics, Counters, Accounted
  <2> QED BY <2>1 DEF MInv, MTypeOK
<1>4. /\ Cardinality({}) = 0 /\ \A k : Total(k, {}) = 0
  <2>1. Cardinality({}) = 0 /\ IsFiniteSet({})
    BY FS_EmptySet
  <2>2. ASSUME NEW k PROVE Total(k, {}) = 0
    <3>1. \A i \in {} : k[i] \in Int
      OBVIOUS
    <3> QED BY <2>1, <3>1, TotalFacts
  <2> QED BY <2>1, <2>2
<1>5. /\ metrics'.requests = 0 /\ metrics'.hits = 0 /\ metrics'.misses = 0
      /\ metrics'.gpuHitBlocks = 0 /\ metrics'.cpuHitBlocks = 0
      /\ metrics'.reusedTokens = 0 /\ metrics'.recomputedTokens = 0
      /\ metrics'.cpuLoadFailures = 0
  BY DEF NoMetrics
<1>6. Balanced'
  BY <1>4, <1>5, BlockSizeAssumption DEF Balanced
<1>7. /\ Fallen' = {} /\ Hitting' = {}
      /\ ServedFrom("gpu")' = {} /\ ServedFrom("cpu")' = {}
  BY DEF Fallen, Hitting, ServedFrom, Served
<1>8. HitsCounted'
  <2>1. StrayFallbacks' = 0
    BY <1>4, <1>5, <1>7 DEF StrayFallbacks
  <2>2. metrics'.hits = Cardinality(Hitting') - StrayFallbacks'
    BY ONLY <1>4, <1>5, <1>7, <2>1
  <2>3. /\ metrics'.gpuHitBlocks = Total(Found', ServedFrom("gpu")')
        /\ metrics'.cpuHitBlocks = Total(Found', ServedFrom("cpu")')
        /\ Total(Found', ServedFrom("cpu")') = 0
    BY <1>4, <1>5, <1>7
  <2>4. /\ StrayFallbacks' >= 0
        /\ metrics'.cpuHitBlocks <= Total(Found', ServedFrom("cpu")') - StrayFallbacks'
    BY ONLY <2>1, <2>3
  <2> QED BY <2>2, <2>3, <2>4 DEF HitsCounted
<1> QED BY <1>2, <1>3, <1>6, <1>8 DEF MInv


\* What schedule() finds in either tier is a number of blocks.
LEMMA HitsAreNat ==
  ASSUME SInv, NEW s \in Seqs, tokens[s] # <<>>, HitBlocksOf(s) # -1
  PROVE  HitBlocksOf(s) \in Nat
<1>1. cpuHandles[s] \in Nat
  BY SInvTypes DEF STypeOK
<1>2. \E k \in 0 .. NumBlocks(s) - 1 : LongestHit(s, k)
  <2>1. NumBlocks(s) \in Nat /\ NumBlocks(s) > 0
    <3>1. /\ NumBlocks(s) \in Nat /\ Len(tokens[s]) <= NumBlocks(s) * BlockSize
          /\ Len(tokens[s]) \in Nat /\ Len(tokens[s]) # 0
      BY NumBlocksFacts, TableLen, SInvTypes DEF BMTypeOK
    <3> QED BY <3>1, BlockSizeAssumption
  <2> QED BY <2>1, LongestHitExists
<1>3. GpuCached(s) = -1 \/ GpuCached(s) \in Nat
  BY <1>2 DEF GpuCached
<1> QED BY <1>1, <1>3 DEF HitBlocksOf

\* In the prefill loop a lookup is followed by an admission, or by the end of
\* the loop.
LEMMA LookupStep ==
  ASSUME SInv, StepControl, LooksUp
  PROVE  /\ Head(waiting) \in Seqs /\ status[Head(waiting)] = "WAITING"
         /\ tokens[Head(waiting)] # <<>>
         /\ [Next]_vars /\ ~RollbackCpuRestore
         /\ cpuHandles' = cpuHandles /\ numPrompt' = numPrompt /\ tokens' = tokens
<1>1. pc = "prefill" /\ waiting # <<>>
  BY DEF LooksUp
<1>2. Head(waiting) \in Seqs /\ Head(waiting) \in Range(waiting)
  BY <1>1, HeadIn, SInvTypes, TailOrdered
<1>3. status[Head(waiting)] = "WAITING" /\ tokens[Head(waiting)] # <<>>
  BY <1>2 DEF SInv, StatusInv
<1>4. Admit \/ EndPrefill
  BY <1>1 DEF StepControl, StartStep, ScheduleDecode, PreemptOther, PreemptSelf, CanDecode,
     EndDecode, NothingScheduled, Hash, Sample, Finish, EndStep
<1>5. cpuHandles' = cpuHandles /\ numPrompt' = numPrompt
  BY <1>4 DEF Admit, AdmitFromGpu, AdmitFromCpu, ContinueChunk, ScheduleChunk, EndPrefill,
     seqVars
<1>6. tokens' = tokens
  BY <1>4 DEF Admit, AdmitFromGpu, Allocate, AdmitFromCpu, AllocateForCpuRestore,
     ContinueChunk, EndPrefill, bmVars
<1>7. [Next]_vars /\ ~RollbackCpuRestore
  BY <1>1 DEF Next, RollbackCpuRestore
<1> QED BY <1>2, <1>3, <1>5, <1>6, <1>7

\* The first lookup of a request.
LEMMA RecordStep ==
  ASSUME SInv, MInv, StepControl, LooksUp, RecordLookup
  PROVE  MInv'
<1> DEFINE s == Head(waiting)
           k == HitBlocksOf(s)
           n == Len(tokens[s])
           tier == IF UseCpu(s) THEN "cpu" ELSE "gpu"
<1>1. /\ s \in Seqs /\ status[s] = "WAITING" /\ tokens[s] # <<>>
      /\ [Next]_vars /\ ~RollbackCpuRestore
      /\ cpuHandles' = cpuHandles /\ numPrompt' = numPrompt
  BY LookupStep
<1>2. blockTable[s] = <<>> /\ k # -1 /\ lookup[s] = NoLookup
  BY DEF LooksUp
<1>3. /\ metrics' = Recorded(metrics, k, n, tier)
      /\ lookup' = [lookup EXCEPT ![s] = [blocks |-> k, tier |-> tier]]
      /\ window' = window \cup {s}
  BY DEF RecordLookup
<1>4. tier = "cpu" => k = cpuHandles[s] /\ k > 0
  BY DEF HitBlocksOf, UseCpu
<1>5. tier \in {"gpu", "cpu"}
  OBVIOUS
<1>6. n \in Nat
  BY <1>1, SInvTypes
<1> HIDE DEF s, k, n, tier
<1>7. k \in Nat
  BY <1>1, <1>2, HitsAreNat DEF k
<1>8. LookupRight(s) /\ s \notin window /\ n = numPrompt[s]
  BY <1>1, <1>2 DEF MInv, LookupRight, NoLookup, n
<1>w. /\ window \subseteq Seqs /\ IsFiniteSet(window)
      /\ Fallen \subseteq Seqs /\ Cardinality(Fallen) \in Nat
      /\ IsFiniteSet(Hitting) /\ Cardinality(Hitting) \in Nat /\ Hitting \subseteq Seqs
      /\ \A t : ServedFrom(t) \subseteq Seqs /\ IsFiniteSet(ServedFrom(t))
      /\ \A r \in Seqs : numPrompt[r] \in Int /\ Found[r] \in Int
  BY WindowFacts
<1>m. CountersOK(metrics) /\ lookup \in Lookups
  BY DEF MInv, MTypeOK
<1> DEFINE m == metrics'
<1>9. /\ CountersOK(m)
      /\ m.requests = metrics.requests + 1
      /\ m.reusedTokens = metrics.reusedTokens + k * BlockSize
      /\ m.recomputedTokens = metrics.recomputedTokens + n - k * BlockSize
      /\ m.hits = (IF k > 0 THEN metrics.hits + 1 ELSE metrics.hits)
      /\ m.misses = (IF k > 0 THEN metrics.misses ELSE metrics.misses + 1)
      /\ m.gpuHitBlocks = (IF tier = "gpu" THEN metrics.gpuHitBlocks + k
                           ELSE metrics.gpuHitBlocks)
      /\ m.cpuHitBlocks = (IF tier = "cpu" THEN metrics.cpuHitBlocks + k
                           ELSE metrics.cpuHitBlocks)
      /\ m.cpuLoadFailures = metrics.cpuLoadFailures
  <2>1. m = Recorded(metrics, k, n, tier)
    BY <1>3
  <2> HIDE DEF m
  <2>2. RecordsOf(metrics, k, n, tier, m)
    BY <2>1, <1>5, <1>6, <1>7, <1>m, RecordedEffect
  <2> QED BY <2>2 DEF RecordsOf
<1>10. /\ lookup' \in Lookups
       /\ lookup'[s] = [blocks |-> k, tier |-> tier]
       /\ \A r \in Seqs : r # s => lookup'[r] = lookup[r]
  BY <1>1, <1>3, <1>5, <1>7, <1>m DEF Lookups
<1>11. MTypeOK'
  BY <1>1, <1>3, <1>9, <1>10, <1>w DEF MTypeOK
<1>12. ASSUME NEW r \in Seqs PROVE LookupRight(r)'
  <2>1. CASE r = s
    <3>1. status'[s] # "NEW"
      BY <1>1, Remembered
    <3>2. s \in window'
      BY <1>3
    <3>3. lookup'[s].tier = tier /\ lookup'[s].blocks = k
      BY <1>10
    <3>4. restorePending'[s] => cpuHandles'[s] > 0
      BY <1>1, <1>8, TableOpens DEF LookupRight
    <3> QED BY <1>1, <1>4, <1>5, <2>1, <3>1, <3>2, <3>3, <3>4 DEF LookupRight
  <2>2. CASE r # s
    <3>1. lookup'[r] = lookup[r] /\ (r \in window' => r \in window)
          /\ (r \in window => r \in window')
      BY <1>3, <1>10, <2>2
    <3>2. r # Head(waiting)
      BY <2>2 DEF s
    <3> QED BY <1>1, <3>1, <3>2, LookupKept DEF MInv
  <2> QED BY <2>1, <2>2
<1>13. Balanced'
  <2>1. Cardinality(window') = Cardinality(window) + 1
    BY <1>3, <1>8, <1>w, FS_AddElement
  <2>2. Total(numPrompt', window') = Total(numPrompt, window) + n
    <3>1. \A i \in window \cup {s} : numPrompt[i] \in Int
      BY <1>1, <1>w
    <3>2. Total(numPrompt, window \cup {s}) = Total(numPrompt, window) + numPrompt[s]
      BY <1>8, <1>w, <3>1, TotalMore
    <3> QED BY <1>1, <1>3, <1>8, <3>2
  <2>3. Total(numPrompt, window) \in Int
    BY <1>w, TotalFacts
  <2>4. \A c \in Accounted : metrics[c] \in Int
    BY <1>m DEF CountersOK
  <2>5. m.requests = Cardinality(window')
    BY <1>9, <2>1 DEF MInv, Balanced
  <2>6. m.hits + m.misses = m.requests
    BY <1>9, <2>4 DEF MInv, Balanced, Accounted
  <2>7. m.reusedTokens = (m.gpuHitBlocks + m.cpuHitBlocks) * BlockSize
    <3>1. m.gpuHitBlocks + m.cpuHitBlocks
            = (metrics.gpuHitBlocks + metrics.cpuHitBlocks) + k
      BY <1>5, <1>7, <1>9, <2>4 DEF Accounted
    <3> DEFINE a == metrics.gpuHitBlocks + metrics.cpuHitBlocks
    <3>2. a \in Int /\ BlockSize \in Nat
      BY <2>4, BlockSizeAssumption DEF Accounted
    <3>3. metrics.reusedTokens = a * BlockSize
      BY DEF MInv, Balanced
    <3>4. m.gpuHitBlocks + m.cpuHitBlocks = a + k
      BY <3>1
    <3>5. m.reusedTokens = metrics.reusedTokens + k * BlockSize
      BY <1>9
    <3> HIDE DEF a, m
    <3>6. (a + k) * BlockSize = a * BlockSize + k * BlockSize
      BY <3>2, <1>7
    <3> QED BY <3>3, <3>4, <3>5, <3>6
  <2>8. m.reusedTokens + m.recomputedTokens = Total(numPrompt', window')
    <3>1. k * BlockSize \in Nat
      BY <1>7, MulType
    <3>2. metrics.reusedTokens + metrics.recomputedTokens = Total(numPrompt, window)
      BY DEF MInv, Balanced
    <3>3. metrics.reusedTokens \in Int /\ metrics.recomputedTokens \in Int
      BY <2>4 DEF Accounted
    <3> DEFINE d == k * BlockSize
    <3>4. /\ m.reusedTokens = metrics.reusedTokens + d
          /\ m.recomputedTokens = metrics.recomputedTokens + n - d
      BY <1>9
    <3> HIDE DEF d, m
    <3>5. d \in Nat
      BY <3>1 DEF d
    <3> QED BY <1>6, <2>2, <2>3, <3>2, <3>3, <3>4, <3>5
  <2> QED BY <2>5, <2>6, <2>7, <2>8 DEF Balanced
<1>14. Fallen' = Fallen
  <2>1. s \notin Fallen /\ Fallen \subseteq window
    BY <1>8 DEF Fallen
  <2>2. s \notin Fallen'
    BY <1>1, <1>4, <1>7, <1>10 DEF Fallen
  <2>3. ASSUME NEW r, r # s PROVE r \in Fallen' <=> r \in Fallen
    BY <1>1, <1>3, <1>10, <1>w, <2>3 DEF Fallen
  <2> QED BY <2>1, <2>2, <2>3
<1>15. Served' = Served \cup {s} /\ s \notin Served
  BY <1>3, <1>8, <1>14 DEF Served, Fallen
<1>16. ASSUME NEW t \in {"gpu", "cpu"}
       PROVE  Total(Found', ServedFrom(t)')
                = Total(Found, ServedFrom(t)) + (IF tier = t THEN k ELSE 0)
  <2>1. /\ \A i \in ServedFrom(t) : Found[i] \in Int /\ Found[i] = Found'[i]
        /\ Found'[s] = k
    <3>1. Found'[s] = k
      BY <1>1, <1>10 DEF Found
    <3>2. ASSUME NEW i \in ServedFrom(t) PROVE i \in Seqs /\ i # s
      BY <1>15, <1>w DEF ServedFrom
    <3>3. ASSUME NEW i \in Seqs, i # s PROVE Found[i] \in Int /\ Found[i] = Found'[i]
      <4>1. lookup'[i] = lookup[i]
        BY <1>10, <3>3
      <4> QED BY <1>w, <4>1 DEF Found
    <3> QED BY <3>1, <3>2, <3>3
  <2>2. ServedFrom(t)' = IF tier = t THEN ServedFrom(t) \cup {s} ELSE ServedFrom(t)
    BY <1>10, <1>15, <1>w DEF ServedFrom, Served
  <2>3. s \notin ServedFrom(t) /\ IsFiniteSet(ServedFrom(t))
    BY <1>15, <1>w DEF ServedFrom
  <2>4. Total(Found, ServedFrom(t)) = Total(Found', ServedFrom(t))
    BY <2>1, <2>3, TotalSame
  <2>5. Total(Found, ServedFrom(t)) \in Int
    BY <2>1, <2>3, TotalFacts
  <2>6. CASE tier = t
    <3>1. \A i \in ServedFrom(t) \cup {s} : Found'[i] \in Int
      BY <1>7, <2>1
    <3>2. Total(Found', ServedFrom(t) \cup {s}) = Total(Found', ServedFrom(t)) + Found'[s]
      BY <2>3, <3>1, TotalMore
    <3> QED BY <2>1, <2>2, <2>4, <2>6, <3>2
  <2>7. CASE tier # t
    BY <2>2, <2>4, <2>5, <2>7
  <2> QED BY <2>6, <2>7
<1>17. Cardinality(Hitting') = IF k > 0 THEN Cardinality(Hitting) + 1 ELSE Cardinality(Hitting)
  <2>1. Hitting' = IF k > 0 THEN Hitting \cup {s} ELSE Hitting
    BY <1>10, <1>15, <1>w DEF Hitting, Served
  <2>2. s \notin Hitting
    BY <1>15 DEF Hitting
  <2> QED BY <1>w, <2>1, <2>2, FS_AddElement
<1>18. HitsCounted'
  <2>1. StrayFallbacks' = StrayFallbacks
    BY <1>9, <1>14 DEF StrayFallbacks
  <2>2. /\ Total(Found', ServedFrom("gpu")')
              = Total(Found, ServedFrom("gpu")) + (IF tier = "gpu" THEN k ELSE 0)
        /\ Total(Found', ServedFrom("cpu")')
              = Total(Found, ServedFrom("cpu")) + (IF tier = "cpu" THEN k ELSE 0)
    BY <1>16
  <2>3. /\ Total(Found, ServedFrom("gpu")) \in Int
        /\ Total(Found, ServedFrom("cpu")) \in Int
    BY <1>w, TotalFacts DEF ServedFrom
  <2>4. /\ metrics.gpuHitBlocks \in Int /\ metrics.cpuHitBlocks \in Int
        /\ StrayFallbacks \in Int
    BY <1>m, <1>w DEF CountersOK, Accounted, StrayFallbacks
  <2>5. HitsCounted
    BY DEF MInv
  <2>6. m.hits = Cardinality(Hitting') - StrayFallbacks
    BY <1>9, <1>17, <1>w, <2>4, <2>5 DEF HitsCounted
  <2>7. m.gpuHitBlocks = Total(Found', ServedFrom("gpu")')
    BY <1>9, <2>2, <2>3, <2>4, <2>5 DEF HitsCounted
  <2>8. m.cpuHitBlocks <= Total(Found', ServedFrom("cpu")') - StrayFallbacks
    BY <1>7, <1>9, <2>2, <2>3, <2>4, <2>5 DEF HitsCounted
  <2>9. StrayFallbacks = 0 => m.cpuHitBlocks = Total(Found', ServedFrom("cpu")')
    BY <1>7, <1>9, <2>2, <2>3, <2>4, <2>5 DEF HitsCounted
  <2> QED BY <2>1, <2>5, <2>6, <2>7, <2>8, <2>9 DEF HitsCounted
<1> QED BY <1>11, <1>12, <1>13, <1>18 DEF MInv


\* What waits for a restore has blocks, belongs to the window and has handles.
LEMMA PendingRecorded ==
  ASSUME SInv, MInv, NEW s \in Pending, pc = "dispatch"
  PROVE  /\ s \in Seqs /\ s \in window /\ lookup[s].tier \in {"gpu", "cpu"}
         /\ cpuHandles[s] \in Nat /\ cpuHandles[s] > 0
<1>1. s \in Seqs /\ restorePending[s] /\ s \in Range(batch)
  BY PendingOne DEF Pending
<1>2. BMTypeOK /\ IInv
  BY SInvTypes DEF SInv
<1>3. blockTable[s] # <<>>
  <2>1. BlockSize <= Len(blockTable[s]) * BlockSize
    BY <1>1, <1>2, BlockSizeAssumption DEF IInv, TablesCover, TablesSound, BMTypeOK
  <2> QED BY <2>1, EmptySeq, BlockSizeAssumption
<1>4. lookup[s].tier # "none" /\ lookup[s].tier \in {"none", "gpu", "cpu"}
  BY <1>1, <1>3 DEF MInv, MTypeOK, LookupRight, Lookups
<1>5. status[s] # "FINISHED"
  <2>1. s \in Range(running) \/ s \in Range(waiting)
    BY <1>1, TailOrdered, SInvTypes DEF SInv, BatchInv, HeadOf
  <2> QED BY <2>1 DEF SInv, StatusInv, Finishing
<1>6. s \in window
  BY <1>1, <1>4, <1>5 DEF MInv, LookupRight
<1>7. cpuHandles[s] \in Nat /\ cpuHandles[s] > 0
  BY <1>1, SInvTypes DEF MInv, LookupRight, STypeOK
<1> QED BY <1>1, <1>4, <1>6, <1>7

\* A restore that fails takes back the hit, if the hit was in the CPU tier.
LEMMA FallbackStep ==
  ASSUME SInv, MInv, RollbackCpuRestore, RecordFallback
  PROVE  MInv'
<1>0. [Next]_vars /\ pc = "dispatch" /\ ~Admit
  BY DEF Next, RollbackCpuRestore, Admit
<1>1. PICK s \in Pending : metrics' = Fallback(metrics, cpuHandles[s])
  BY DEF RecordFallback
<1> DEFINE k == cpuHandles[s]
           m == metrics'
<1>2. /\ s \in Seqs /\ s \in window /\ lookup[s].tier \in {"gpu", "cpu"}
      /\ k \in Nat /\ k > 0
  BY <1>0, PendingRecorded
<1>3. lookup' = lookup /\ window' = window /\ numPrompt' = numPrompt
  BY DEF RecordFallback, RollbackCpuRestore
<1>4. cpuHandles' = [cpuHandles EXCEPT ![s] = 0]
  <2>1. PICK r \in Pending : cpuHandles' = [cpuHandles EXCEPT ![r] = 0]
    BY DEF RollbackCpuRestore, HandlesAfterRollback
  <2>2. r = s
    BY <1>2, PendingOne
  <2> QED BY <2>1, <2>2
<1>5. cpuHandles \in [Seqs -> Nat]
  BY SInvTypes DEF STypeOK
<1>w. /\ window \subseteq Seqs /\ IsFiniteSet(window)
      /\ Fallen \subseteq Seqs /\ IsFiniteSet(Fallen) /\ Cardinality(Fallen) \in Nat
      /\ IsFiniteSet(Hitting) /\ Cardinality(Hitting) \in Nat /\ Hitting \subseteq Seqs
      /\ \A t : ServedFrom(t) \subseteq Seqs /\ IsFiniteSet(ServedFrom(t))
      /\ \A r \in Seqs : numPrompt[r] \in Int /\ Found[r] \in Int
  BY WindowFacts
<1>m. CountersOK(metrics) /\ lookup \in Lookups /\ \A c \in Accounted : metrics[c] \in Int
  BY DEF MInv, MTypeOK, CountersOK
<1>6. /\ CountersOK(m)
      /\ m.requests = metrics.requests
      /\ m.reusedTokens = metrics.reusedTokens - k * BlockSize
      /\ m.recomputedTokens = metrics.recomputedTokens + k * BlockSize
      /\ m.hits = metrics.hits - 1 /\ m.misses = metrics.misses + 1
      /\ m.gpuHitBlocks = metrics.gpuHitBlocks
      /\ m.cpuHitBlocks = metrics.cpuHitBlocks - k
      /\ m.cpuLoadFailures = metrics.cpuLoadFailures + 1
  <2>1. m = Fallback(metrics, k)
    BY <1>1
  <2> HIDE DEF m, k
  <2> QED BY <2>1, <1>2, <1>m, FallbackEffect
<1> HIDE DEF m
<1>7. m = metrics'
  BY DEF m
<1>8. MTypeOK'
  BY <1>3, <1>6, <1>7, <1>m DEF MTypeOK, MInv
<1>9. \A r \in Seqs : LookupRight(r)'
  BY <1>0, <1>3, LookupKept DEF MInv
<1>10. Balanced'
  <2>1. metrics'.requests = Cardinality(window')
    BY <1>3, <1>6, <1>7 DEF MInv, Balanced
  <2>2. metrics'.hits + metrics'.misses = metrics'.requests
    <3>1. metrics.hits \in Int /\ metrics.misses \in Int
      BY <1>m DEF Accounted
    <3>2. metrics.hits + metrics.misses = metrics.requests
      BY DEF MInv, Balanced
    <3>3. m.hits + m.misses = metrics.hits + metrics.misses
      BY <1>6, <3>1
    <3> QED BY <1>6, <1>7, <3>2, <3>3
  <2>3. metrics'.reusedTokens = (metrics'.gpuHitBlocks + metrics'.cpuHitBlocks) * BlockSize
    <3> DEFINE a == metrics.gpuHitBlocks + metrics.cpuHitBlocks
    <3>1. a \in Int /\ BlockSize \in Nat
      BY <1>m, BlockSizeAssumption DEF Accounted
    <3>2. m.gpuHitBlocks + m.cpuHitBlocks = a - k
      BY <1>2, <1>6, <1>m DEF Accounted
    <3>3. metrics.reusedTokens = a * BlockSize
      BY DEF MInv, Balanced
    <3>4. m.reusedTokens = metrics.reusedTokens - k * BlockSize /\ k \in Nat
      BY <1>2, <1>6
    <3> HIDE DEF a, k
    <3>5. (a - k) * BlockSize = a * BlockSize - k * BlockSize
      BY ONLY <3>1, <3>4
    <3> QED BY <1>7, <3>2, <3>3, <3>4, <3>5
  <2>4. metrics'.reusedTokens + metrics'.recomputedTokens = Total(numPrompt', window')
    <3> DEFINE d == k * BlockSize
    <3>1. d \in Nat
      BY <1>2, MulType
    <3>2. metrics.reusedTokens + metrics.recomputedTokens = Total(numPrompt, window)
      BY DEF MInv, Balanced
    <3>3. metrics.reusedTokens \in Int /\ metrics.recomputedTokens \in Int
      BY <1>m DEF Accounted
    <3>4. /\ m.reusedTokens = metrics.reusedTokens - d
          /\ m.recomputedTokens = metrics.recomputedTokens + d
      BY <1>6
    <3> HIDE DEF d
    <3>5. m.reusedTokens + m.recomputedTokens
            = metrics.reusedTokens + metrics.recomputedTokens
      BY ONLY <3>1, <3>3, <3>4
    <3> QED BY <1>3, <1>7, <3>2, <3>5
  <2> QED BY <2>1, <2>2, <2>3, <2>4 DEF Balanced
<1>11. /\ metrics.cpuLoadFailures \in Int /\ StrayFallbacks \in Int /\ HitsCounted
       /\ StrayFallbacks = metrics.cpuLoadFailures - Cardinality(Fallen)
       /\ StrayFallbacks' = metrics'.cpuLoadFailures - Cardinality(Fallen')
  BY <1>m, <1>w DEF MInv, Accounted, StrayFallbacks
<1>12. CASE lookup[s].tier = "gpu"
  <2>1. Fallen' = Fallen
    BY <1>3, <1>4, <1>5, <1>12, <1>w DEF Fallen
  <2>2. StrayFallbacks' = StrayFallbacks + 1
    BY <1>6, <1>7, <1>11, <1>w, <2>1
  <2>3. /\ Hitting' = Hitting /\ Found' = Found
        /\ ServedFrom("gpu")' = ServedFrom("gpu") /\ ServedFrom("cpu")' = ServedFrom("cpu")
    BY <1>3, <2>1 DEF Hitting, Found, ServedFrom, Served
  <2>4. Total(Found, ServedFrom("cpu")) \in Int
    BY <1>w, TotalFacts DEF ServedFrom
  <2>5. HitsCounted'
    <3>1. StrayFallbacks' >= 0 /\ StrayFallbacks' # 0
      BY <1>11, <2>2 DEF HitsCounted
    <3>2. metrics'.hits = Cardinality(Hitting') - StrayFallbacks'
      BY <1>6, <1>7, <1>11, <1>w, <2>2, <2>3 DEF HitsCounted
    <3>3. metrics'.gpuHitBlocks = Total(Found', ServedFrom("gpu")')
      BY <1>6, <1>7, <1>11, <2>3 DEF HitsCounted
    <3>4. metrics'.cpuHitBlocks <= Total(Found', ServedFrom("cpu")') - StrayFallbacks'
      <4>1. metrics.cpuHitBlocks \in Int
        BY <1>m DEF Accounted
      <4> QED BY <1>2, <1>6, <1>7, <1>11, <2>2, <2>3, <2>4, <4>1 DEF HitsCounted
    <3> QED BY <3>1, <3>2, <3>3, <3>4 DEF HitsCounted
  <2> QED BY <1>8, <1>9, <1>10, <2>5 DEF MInv
<1>13. CASE lookup[s].tier = "cpu"
  <2>1. lookup[s].blocks = k
    BY <1>2, <1>13 DEF MInv, LookupRight
  <2>2. Fallen' = Fallen \cup {s} /\ s \notin Fallen
    BY <1>2, <1>3, <1>4, <1>5, <1>13, <1>w DEF Fallen
  <2>3. Cardinality(Fallen') = Cardinality(Fallen) + 1
    BY <1>w, <2>2, FS_AddElement
  <2>4. Served' = Served \ {s} /\ s \in Served
    BY <1>2, <1>3, <2>2 DEF Served
  <2>5. Found' = Found /\ Found[s] = k
    BY <1>2, <1>3, <2>1 DEF Found
  <2>6. ServedFrom("gpu")' = ServedFrom("gpu")
    BY <1>3, <1>13, <2>4 DEF ServedFrom
  <2>7. ServedFrom("cpu")' = ServedFrom("cpu") \ {s} /\ s \in ServedFrom("cpu")
    BY <1>3, <1>13, <2>4 DEF ServedFrom
  <2>8. Hitting' = Hitting \ {s} /\ s \in Hitting
    BY <1>2, <1>3, <2>1, <2>4 DEF Hitting
  <2>9. Cardinality(Hitting') = Cardinality(Hitting) - 1
    BY <1>w, <2>8, FS_RemoveElement
  <2>10. Total(Found, ServedFrom("cpu")) = k + Total(Found', ServedFrom("cpu")')
    <3>1. \A i \in ServedFrom("cpu") : Found[i] \in Int
      BY <1>w
    <3>2. Total(Found, ServedFrom("cpu"))
            = Found[s] + Total(Found, ServedFrom("cpu") \ {s})
      BY <1>w, <2>7, <3>1, TotalFacts
    <3> QED BY <2>5, <2>7, <3>2
  <2>11. Total(Found', ServedFrom("cpu")') \in Int
    <3>1. /\ \A i \in ServedFrom("cpu") \ {s} : Found[i] \in Int
          /\ IsFiniteSet(ServedFrom("cpu") \ {s})
      BY <1>w, FS_RemoveElement
    <3>2. Total(Found, ServedFrom("cpu") \ {s}) \in Int
      BY <3>1, TotalFacts
    <3> QED BY <2>5, <2>7, <3>2
  <2>12. StrayFallbacks' = StrayFallbacks
    BY <1>6, <1>7, <1>11, <1>w, <2>3
  <2>13. HitsCounted'
    <3>1. metrics'.hits = Cardinality(Hitting') - StrayFallbacks'
      BY <1>6, <1>7, <1>11, <1>w, <2>9, <2>12 DEF HitsCounted
    <3>2. metrics'.gpuHitBlocks = Total(Found', ServedFrom("gpu")')
      BY <1>6, <1>7, <1>11, <2>5, <2>6 DEF HitsCounted
    <3>3. metrics.cpuHitBlocks \in Int
      BY <1>m DEF Accounted
    <3>4. metrics'.cpuHitBlocks <= Total(Found', ServedFrom("cpu")') - StrayFallbacks'
      BY <1>2, <1>6, <1>7, <1>11, <2>10, <2>11, <2>12, <3>3 DEF HitsCounted
    <3>5. StrayFallbacks' = 0 => metrics'.cpuHitBlocks = Total(Found', ServedFrom("cpu")')
      BY <1>2, <1>6, <1>7, <1>11, <2>10, <2>11, <2>12, <3>3 DEF HitsCounted
    <3> QED BY <1>11, <2>12, <3>1, <3>2, <3>4, <3>5 DEF HitsCounted
  <2> QED BY <1>8, <1>9, <1>10, <2>13 DEF MInv
<1> QED BY <1>2, <1>12, <1>13


\* Every step of the measured engine is one of the scheduler, or leaves it alone.
LEMMA MeasuredEngine == [MetricsNext]_measuredVars => [Next]_vars
<1>1. MetricsNext => [Next]_vars
  BY SchedulerStep DEF MetricsNext, MeasuredStep, EngineNext, DenseStep, RestoreStep,
     RestoreBlock, engineVars, Next
<1> QED BY <1>1 DEF measuredVars, engineVars

LEMMA MetricsStep == SInv /\ MInv /\ [MetricsNext]_measuredVars => MInv'
<1> SUFFICES ASSUME SInv, MInv, [MetricsNext]_measuredVars PROVE MInv'
  OBVIOUS
<1>1. [Next]_vars
  BY MeasuredEngine
<1>2. /\ CountersOK(metrics) /\ DOMAIN metrics = Counters
  BY DEF MInv, MTypeOK, CountersOK
<1>3. ASSUME UNCHANGED metricVars, ~RollbackCpuRestore,
             \A s \in Seqs : Admit /\ s = Head(waiting) /\ blockTable[s] = <<>>
                               => lookup[s].tier # "none"
      PROVE  MInv'
  <2>1. lookup' = lookup /\ window' = window /\ metrics' = metrics
    BY <1>3 DEF metricVars
  <2> QED BY <1>1, <1>2, <1>3, <2>1, QuietStep
<1>4. CASE Arrivals /\ Window /\ lookup' = lookup
  <2>1. CASE waiting \o running = <<>>
    BY <1>4, <2>1, ResetStep DEF Window
  <2>2. CASE waiting \o running # <<>>
    <3>1. ~Admit /\ ~RollbackCpuRestore
      BY <1>4 DEF Arrivals, AddRequest, Admit, RollbackCpuRestore
    <3> QED BY <1>3, <1>4, <2>2, <3>1 DEF Window, metricVars
  <2> QED BY <2>1, <2>2
<1>5. CASE ClearGpuPrefixCache /\ UNCHANGED metricVars
  <2>1. ~Admit /\ ~RollbackCpuRestore
    BY <1>5 DEF ClearGpuPrefixCache, Admit, RollbackCpuRestore
  <2> QED BY <1>3, <1>5, <2>1
<1>6. CASE StepControl /\ LooksUp /\ RecordLookup
  BY <1>6, RecordStep
<1>7. CASE StepControl /\ ~LooksUp /\ UNCHANGED metricVars
  <2>1. ~RollbackCpuRestore
    BY <1>7 DEF StepControl, StartStep, Admit, EndPrefill, ScheduleDecode, PreemptOther,
       PreemptSelf, CanDecode, EndDecode, NothingScheduled, Hash, Sample, Finish, EndStep,
       RollbackCpuRestore
  <2>2. ASSUME NEW s \in Seqs, Admit, s = Head(waiting), blockTable[s] = <<>>
        PROVE  lookup[s].tier # "none"
    <3>1. lookup[s] # NoLookup
      BY <1>7, <2>2 DEF LooksUp, Admit, CanAdmit
    <3> QED BY <3>1 DEF MInv, LookupRight
  <2> QED BY <1>3, <1>7, <2>1, <2>2
<1>8. CASE (RestoreBlock \/ RestoreDone) /\ UNCHANGED metricVars
  <2>1. ~Admit /\ ~RollbackCpuRestore
    <3>1. UNCHANGED vars \/ ConfirmCpuRestore
      BY <1>8 DEF RestoreBlock, RestoreDone
    <3>2. pc = "dispatch" /\ pc' = "dispatch"
      BY <1>8 DEF RestoreBlock, RestoreDone, ConfirmCpuRestore, vars, stepVars
    <3> QED BY <3>2 DEF Admit, RollbackCpuRestore
  <2> QED BY <1>3, <1>8, <2>1
<1>9. CASE RestoreFails /\ RecordFallback
  BY <1>9, FallbackStep DEF RestoreFails
<1>10. CASE Run /\ RecordExecuted
  <2>1. lookup' = lookup /\ window' = window /\ ~Admit /\ ~RollbackCpuRestore
    BY <1>10 DEF RecordExecuted, Run, Admit, RollbackCpuRestore
  <2>2. \/ metrics' = [metrics EXCEPT !.prefillExecuted = @ + TotalScheduled(batch)]
        \/ metrics' = [metrics EXCEPT !.decodeExecuted = @ + TotalScheduled(batch)]
    BY <1>10 DEF RecordExecuted
  <2>3. \A c \in Accounted : metrics'[c] = metrics[c] /\ metrics'[c] \in Int
    BY <1>2, <2>2 DEF Accounted, Counters, CountersOK
  <2>4. metrics' = [c \in Counters |-> metrics'[c]]
    BY <1>2, <2>2 DEF CountersOK
  <2>5. CountersOK(metrics')
    BY <2>3, <2>4 DEF CountersOK
  <2> QED BY <1>1, <2>1, <2>3, <2>5, QuietStep
<1>11. CASE UNCHANGED measuredVars
  <2>1. UNCHANGED metricVars /\ pc' = pc /\ batch' = batch
    BY <1>11 DEF measuredVars, engineVars, vars, stepVars
  <2>2. ~Admit
    <3>1. batch \in Seq(Seqs)
      BY SInvTypes
    <3> QED BY <2>1, <3>1, AppendProperties DEF Admit, AdmitFromGpu, AdmitFromCpu, ContinueChunk,
          ScheduleChunk
  <2>3. ~RollbackCpuRestore
    BY <2>1 DEF RollbackCpuRestore
  <2> QED BY <1>3, <2>1, <2>2, <2>3
<1> QED BY <1>4, <1>5, <1>6, <1>7, <1>8, <1>9, <1>10, <1>11 DEF MetricsNext, MeasuredStep

LEMMA InitMInv == MetricsInit => MInv
<1> SUFFICES ASSUME MetricsInit PROVE MInv
  OBVIOUS
<1>1. /\ metrics = NoMetrics /\ lookup = [s \in Seqs |-> NoLookup] /\ window = {}
      /\ Init
  BY DEF MetricsInit, EngineInit
<1>2. MTypeOK
  <2>1. CountersOK(NoMetrics)
    BY DEF CountersOK, NoMetrics, Counters, Accounted
  <2> QED BY <1>1, <2>1 DEF MTypeOK, Lookups, NoLookup
<1>3. ASSUME NEW s \in Seqs PROVE LookupRight(s)
  <2>1. tokens[s] = <<>> /\ numPrompt[s] = 0 /\ blockTable[s] = <<>> /\ ~restorePending[s]
    BY <1>1 DEF Init, BMInit
  <2> QED BY <1>1, <2>1, EmptySeq DEF LookupRight, NoLookup
<1>4. /\ Cardinality({}) = 0 /\ \A k : Total(k, {}) = 0
  <2>1. Cardinality({}) = 0 /\ IsFiniteSet({})
    BY FS_EmptySet
  <2>2. ASSUME NEW k PROVE Total(k, {}) = 0
    <3>1. \A i \in {} : k[i] \in Int
      OBVIOUS
    <3> QED BY <2>1, <3>1, TotalFacts
  <2> QED BY <2>1, <2>2
<1>5. /\ metrics.requests = 0 /\ metrics.hits = 0 /\ metrics.misses = 0
      /\ metrics.gpuHitBlocks = 0 /\ metrics.cpuHitBlocks = 0
      /\ metrics.reusedTokens = 0 /\ metrics.recomputedTokens = 0
      /\ metrics.cpuLoadFailures = 0
  BY <1>1 DEF NoMetrics
<1>6. Balanced
  BY <1>1, <1>4, <1>5, BlockSizeAssumption DEF Balanced
<1>7. Fallen = {} /\ Hitting = {} /\ ServedFrom("gpu") = {} /\ ServedFrom("cpu") = {}
  BY <1>1 DEF Fallen, Hitting, ServedFrom, Served
<1>8. HitsCounted
  <2>1. StrayFallbacks = 0
    BY <1>4, <1>5, <1>7 DEF StrayFallbacks
  <2> QED BY <1>4, <1>5, <1>7, <2>1 DEF HitsCounted
<1> QED BY <1>2, <1>3, <1>6, <1>8 DEF MInv

\* The measured engine is the scheduler with something that counts.
LEMMA MeasuredScheduler == MetricsSpec => []SInv
<1>1. MetricsInit => SInv
  BY InitSInv DEF MetricsInit, EngineInit
<1>2. SInv /\ [MetricsNext]_measuredVars => SInv'
  BY MeasuredEngine, NextSInv
<1> QED BY <1>1, <1>2, PTL DEF MetricsSpec

\* record_lookup and record_cpu_restore_fallback keep the counters in balance
\* with the requests of the window, each counted once, and a fallback takes back
\* the hit of its own request.  A stray fallback, after a first lookup that did
\* not choose the CPU tier, takes a hit that was the GPU's and blocks that nobody
\* had added; hits and CPU blocks are wrong by no more than that.
THEOREM MetricsAreHonest == MetricsSpec => []MetricsHonest
BY InitMInv, MetricsStep, MeasuredScheduler, CountersHonest, PTL DEF MetricsSpec

==============================================================================
