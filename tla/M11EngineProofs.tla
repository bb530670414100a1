--------------------------- MODULE M11EngineProofs ---------------------------
(***************************************************************************)
(* The M11 engine decodes over the running request's own history and graph.*)
(*                                                                         *)
(* First the Block-DIPRS search, for every graph, every score and every    *)
(* beta, l0 and budget.  Its invariant says what the walk still owes: a    *)
(* scored block that is not expanded is queued or was pruned, a neighbour  *)
(* of an expanded block is scored or queued unless it is still to be       *)
(* looked at or the budget is gone, and the best score is the maximum of   *)
(* the scored blocks, so that it only grows and pruning stays justified.   *)
(*                                                                         *)
(* Then data: what prefill freezes (representatives, similarities,         *)
(* neighbour lists) has the shape that a search relies on.  None of it is  *)
(* an induction over data in the prover's sense: a sum, a rank order or a  *)
(* chain of representatives is followed to its least counterexample        *)
(* (LeastNatural).                                                         *)
(*                                                                         *)
(* Then M11Inv, the invariant of the engine together with that of the      *)
(* search it runs: the history is the request's own, what is frozen is its *)
(* prompt, a graph that exists is one over frozen keys, and over this      *)
(* request's unless the selector was changed.                              *)
(***************************************************************************)
EXTENDS M11Engine, FiniteSetTheorems, TLAPS, WellFoundedInduction

-----------------------------------------------------------------------------
(* The search *)

\* The neighbours of block b that are accounted for.
Reached(b) ==
  \A i \in 1 .. Len(index.adj[b]) :
    \/ index.adj[b][i] \in Seen \cup queued
    \/ b = current /\ i >= next
    \/ truncated

Bookkeeping ==
  /\ queued \subseteq {queue[i] : i \in 1 .. Len(queue)}
  /\ expanded \subseteq Seen
  /\ current # NoBlock => current \in expanded /\ stage = "walk"
  /\ truncated => Len(scored) = MaxScored

BestIsMaximum ==
  /\ scored = <<>> \/ \E b \in Seen : index.rep[b] = best
  /\ \A b \in Seen : index.rep[b] <= best

Owed ==
  /\ stage # "idle" => \A i \in 1 .. Len(Entries(index.n)) :
                         Entries(index.n)[i] \in Seen \cup queued
  /\ \A b \in Seen \ expanded : b \in queued \/ index.rep[b] < best - Beta
  /\ \A b \in expanded : Reached(b)

Outcome ==
  /\ Ranked =>
       /\ truncated \/ queue = <<>>
       /\ scored # <<>>
       /\ cand = {b \in Seen : index.rep[b] >= best - Beta}
  /\ stage = "done" =>
       final = {b \in cand : \A c \in cand :
                  index.exact[b] >= index.exact[c] - Beta}

SearchInv ==
  SearchTypeOK /\ ScoredOnce /\ Bookkeeping /\ BestIsMaximum /\ Owed /\ Outcome

\* The members of C below m.
Below(C, m) == {c \in C : c < m}

HasGreatest(f, C) == \E b \in C : \A c \in C : f[b] >= f[c]

-----------------------------------------------------------------------------
\* What an index is.
LEMMA IndexFacts ==
  ASSUME NEW ix \in Indexes
  PROVE  /\ ix.n \in Nat \ {0}
         /\ ix.adj \in [Blocks(ix) -> Seq(Blocks(ix))]
         /\ ix.rep \in [Blocks(ix) -> Int]
         /\ ix.exact \in [Blocks(ix) -> Int]
<1>1. PICK n \in Nat \ {0} :
        ix \in [n : {n}, adj : [0 .. n - 1 -> Seq(0 .. n - 1)],
                rep : [0 .. n - 1 -> Int], exact : [0 .. n - 1 -> Int]]
  BY DEF Indexes
<1>2. ix.n = n
  BY <1>1
<1>. QED
  BY <1>1, <1>2 DEF Blocks

\* The index between two searches is one.
LEMMA NoIndexFacts == NoIndex \in Indexes
<1>1. (0 .. 0) = {0}
  OBVIOUS
<1>2. NoIndex \in [n : {1}, adj : [0 .. 0 -> Seq(0 .. 0)],
                   rep : [0 .. 0 -> Int], exact : [0 .. 0 -> Int]]
  <2>1. [b \in {0} |-> <<>>] \in [0 .. 0 -> Seq(0 .. 0)]
    BY <1>1
  <2>2. [b \in {0} |-> 0] \in [0 .. 0 -> Int]
    BY <1>1
  <2>. QED
    BY <2>1, <2>2 DEF NoIndex
<1>3. 1 \in Nat \ {0} /\ 1 - 1 = 0
  OBVIOUS
<1>. QED
  BY <1>2, <1>3 DEF Indexes

\* The entry blocks are blocks, and there is at least one.
LEMMA EntriesFacts ==
  ASSUME NEW n \in Nat \ {0}
  PROVE  /\ Entries(n) \in Seq(0 .. n - 1)
         /\ Entries(n) # <<>>
         /\ Len(Entries(n)) >= 1
<1>1. n \div 2 \in 0 .. n - 1 /\ n - 1 \in 0 .. n - 1 /\ 0 \in 0 .. n - 1
  OBVIOUS
<1>2. \A x, y, z \in 0 .. n - 1 :
        /\ <<x>> \in Seq(0 .. n - 1) /\ Len(<<x>>) = 1
        /\ <<x, y>> \in Seq(0 .. n - 1) /\ Len(<<x, y>>) = 2
        /\ <<x, y, z>> \in Seq(0 .. n - 1) /\ Len(<<x, y, z>>) = 3
  OBVIOUS
<1>3. Entries(n) \in Seq(0 .. n - 1) /\ Len(Entries(n)) >= 1
  <2>1. CASE n = 1
    BY <1>1, <1>2, <2>1 DEF Entries
  <2>2. CASE n # 1 /\ n \div 2 = n - 1
    BY ONLY <1>1, <1>2, <2>2 DEF Entries
  <2>3. CASE n # 1 /\ n \div 2 # n - 1
    BY ONLY <1>1, <1>2, <2>3 DEF Entries
  <2>. QED
    BY <2>1, <2>2, <2>3
<1>. QED
  BY <1>3

\* Scoring one more block adds it to what is seen.
LEMMA SeenAppend ==
  ASSUME NEW S, NEW s \in Seq(S), NEW b \in S
  PROVE  /\ {Append(s, b)[i] : i \in 1 .. Len(Append(s, b))}
              = {s[i] : i \in 1 .. Len(s)} \cup {b}
         /\ Len(Append(s, b)) = Len(s) + 1
         /\ Append(s, b) # <<>>
<1>1. /\ Len(Append(s, b)) = Len(s) + 1 /\ Len(s) \in Nat
      /\ \A i \in 1 .. Len(s) : Append(s, b)[i] = s[i]
      /\ Append(s, b)[Len(s) + 1] = b
  OBVIOUS
<1>2. 1 .. Len(s) + 1 = (1 .. Len(s)) \cup {Len(s) + 1}
  BY <1>1
<1>. QED
  BY <1>1, <1>2

\* A set of blocks that has a greatest score below m has one below m + 1.
LEMMA GreatestStep ==
  ASSUME NEW n \in Nat, NEW f \in [0 .. n - 1 -> Int],
         NEW C \in SUBSET (0 .. n - 1), NEW m \in Nat \ {0},
         Below(C, m - 1) = {} \/ HasGreatest(f, Below(C, m - 1)),
         Below(C, m) # {}
  PROVE  HasGreatest(f, Below(C, m))
<1>0. \A c \in C : /\ c \in Int
                     /\ c < m <=> c < m - 1 \/ c = m - 1
  OBVIOUS
<1>1. CASE m - 1 \notin C
  <2>1. Below(C, m) = Below(C, m - 1)
    <3>1. \A c \in C : c < m <=> c < m - 1
      BY ONLY <1>0, <1>1
    <3>. QED
      BY ONLY <3>1, Zenon DEF Below
  <2>. QED
    BY <2>1
<1>2. CASE m - 1 \in C
  <2>1. Below(C, m) = Below(C, m - 1) \cup {m - 1}
    <3>1. \A c \in C : c < m <=> c < m - 1 \/ c = m - 1
      BY ONLY <1>0
    <3>. QED
      BY ONLY <1>2, <3>1, Zenon DEF Below
  <2>2. f[m - 1] \in Int
    BY <1>2
  <2>3. CASE Below(C, m - 1) = {}
    BY <2>1, <2>2, <2>3 DEF HasGreatest
  <2>4. CASE HasGreatest(f, Below(C, m - 1))
    <3>1. PICK b \in Below(C, m - 1) :
            \A c \in Below(C, m - 1) : f[b] >= f[c]
      BY <2>4 DEF HasGreatest
    <3>2. /\ f[b] \in Int
          /\ \A c \in Below(C, m - 1) : f[c] \in Int
      BY DEF Below
    <3>3. CASE f[b] >= f[m - 1]
      BY <3>1, <3>2, <3>3, <2>1 DEF HasGreatest
    <3>4. CASE f[m - 1] >= f[b]
      <4>1. \A c \in Below(C, m) : f[m - 1] >= f[c]
        BY <3>1, <3>2, <3>4, <2>1, <2>2
      <4>. QED
        BY <4>1, <2>1 DEF HasGreatest
    <3>. QED
      BY <3>2, <3>3, <3>4, <2>2
  <2>. QED
    BY <2>3, <2>4
<1>. QED
  BY <1>1, <1>2

\* A set of natural numbers that is not empty has a least member.
LEMMA LeastNatural ==
  ASSUME NEW T \in SUBSET Nat, T # {}
  PROVE  \E m \in T : \A k \in Nat : k < m => k \notin T
<1>. DEFINE R == {ss \in Nat \X Nat : ss[1] < ss[2]}
<1>1. IsWellFoundedOn(R, Nat)
  BY NatLessThanWellFounded, Zenon DEF OpToRel
<1>. HIDE DEF R
<1>2. \E m \in T : \A k \in T : ~ (<<k, m>> \in R)
  BY <1>1, WFMin, Zenon
<1>. USE DEF R
<1>3. \A k, m \in Nat : k < m => <<k, m>> \in R
  OBVIOUS
<1>. QED
  BY <1>2, <1>3

\* A finite family of scores that is not empty has a greatest member.
LEMMA FiniteMaximum ==
  ASSUME NEW n \in Nat, NEW f \in [0 .. n - 1 -> Int],
         NEW C \in SUBSET (0 .. n - 1), C # {}
  PROVE  \E b \in C : \A c \in C : f[b] >= f[c]
<1>. DEFINE Bad == {m \in Nat : /\ Below(C, m) # {}
                                /\ ~ HasGreatest(f, Below(C, m))}
<1>1. ASSUME Bad # {} PROVE FALSE
  <2>1. PICK m \in Bad : \A k \in Nat : k < m => k \notin Bad
    <3>1. Bad \in SUBSET Nat
      OBVIOUS
    <3>. HIDE DEF Bad
    <3>. QED
      BY <1>1, <3>1, LeastNatural
  <2>2. m \in Nat /\ Below(C, m) # {} /\ ~ HasGreatest(f, Below(C, m))
    OBVIOUS
  <2>3. m # 0
    <3>1. \A c \in C : ~ (c < 0)
      <4>1. \A c \in C : c \in 0 .. n - 1
        OBVIOUS
      <4>. QED
        BY <4>1
    <3>. QED
      BY <2>2, <3>1 DEF Below
  <2>4. m - 1 \in Nat /\ m - 1 < m /\ m \in Nat \ {0}
    BY <2>2, <2>3
  <2>5. Below(C, m - 1) = {} \/ HasGreatest(f, Below(C, m - 1))
    BY <2>1, <2>4
  <2>. QED
    BY <2>2, <2>4, <2>5, GreatestStep
<1>2. Below(C, n) = C
  <2>1. \A c \in C : c \in 0 .. n - 1
    OBVIOUS
  <2>2. \A c \in C : c < n
    BY <2>1
  <2>. QED
    BY <2>2, Zenon DEF Below
<1>3. n \notin Bad
  BY <1>1
<1>. QED
  BY <1>2, <1>3 DEF HasGreatest
-----------------------------------------------------------------------------
\* A block that is scored for the first time: the best score is still the
\* greatest one, and what was pruned stays pruned.
LEMMA ScoreFacts ==
  ASSUME SearchTypeOK, ScoredOnce, BestIsMaximum, ~Full,
         NEW b \in Blocks(index), b \notin Seen, Score(b)
  PROVE  /\ scored' \in Seq(Blocks(index)) /\ best' \in Int
         /\ Seen' = Seen \cup {b}
         /\ ScoredOnce'
         /\ scored' # <<>>
         /\ \E c \in Seen' : index.rep[c] = best'
         /\ \A c \in Seen' : index.rep[c] <= best'
         /\ \A c \in Seen : index.rep[c] < best - Beta
                            => index.rep[c] < best' - Beta
<1>1. /\ index \in Indexes /\ scored \in Seq(Blocks(index)) /\ best \in Int
  BY DEF SearchTypeOK
<1>2. index.rep \in [Blocks(index) -> Int]
  BY <1>1, IndexFacts
<1>3. /\ scored' = Append(scored, b) /\ best' = BestWith(index.rep[b])
  BY DEF Score
<1>4. index.rep[b] \in Int
  BY <1>2
<1>5. /\ scored' \in Seq(Blocks(index)) /\ best' \in Int
      /\ best' >= index.rep[b]
      /\ best' = index.rep[b] \/ (scored # <<>> /\ best' = best)
      /\ scored # <<>> => best' >= best
  BY <1>1, <1>3, <1>4 DEF BestWith
<1>6. /\ Seen' = Seen \cup {b}
      /\ Len(scored') = Len(scored) + 1 /\ scored' # <<>>
  BY <1>1, <1>3, SeenAppend DEF Seen
<1>7. Seen \subseteq Blocks(index) /\ (scored = <<>> => Seen = {})
  BY <1>1 DEF Seen
<1>8. ScoredOnce'
  <2>1. Len(scored) \in Nat /\ MaxScored \in Nat /\ Len(scored') <= MaxScored
    BY <1>1, <1>6, SearchAssumption DEF Full
  <2>2. /\ \A i \in 1 .. Len(scored) : scored'[i] = scored[i]
        /\ scored'[Len(scored) + 1] = b
    BY <1>1, <1>3
  <2>3. \A i \in 1 .. Len(scored) : scored[i] # b
    BY DEF Seen
  <2>4. ASSUME NEW i \in 1 .. Len(scored'), NEW j \in 1 .. Len(scored'),
               scored'[i] = scored'[j]
        PROVE  i = j
    <3>1. /\ i \in 1 .. Len(scored) \/ i = Len(scored) + 1
          /\ j \in 1 .. Len(scored) \/ j = Len(scored) + 1
      BY <1>6, <2>1
    <3>. QED
      BY <2>2, <2>3, <2>4, <3>1 DEF ScoredOnce
  <2>. QED
    BY <2>1, <2>4 DEF ScoredOnce
<1>9. \E c \in Seen' : index.rep[c] = best'
  BY <1>5, <1>6 DEF BestIsMaximum
<1>10. \A c \in Seen : index.rep[c] \in Int /\ index.rep[c] <= best
                       /\ best' >= best
  BY <1>2, <1>5, <1>7 DEF BestIsMaximum
<1>11. \A c \in Seen' : index.rep[c] <= best'
  BY <1>1, <1>4, <1>5, <1>6, <1>10
<1>12. \A c \in Seen : index.rep[c] < best - Beta
                       => index.rep[c] < best' - Beta
  BY <1>1, <1>5, <1>10, SearchAssumption
<1>. QED
  BY <1>5, <1>6, <1>8, <1>9, <1>11, <1>12

\* What is left of a queue without its first block.
LEMMA TailFacts ==
  ASSUME NEW S, NEW q \in Seq(S), q # <<>>
  PROVE  /\ Head(q) \in S /\ Tail(q) \in Seq(S)
         /\ {q[i] : i \in 1 .. Len(q)} \ {Head(q)}
              \subseteq {Tail(q)[i] : i \in 1 .. Len(Tail(q))}
<1>1. /\ Head(q) \in S /\ Tail(q) \in Seq(S) /\ Head(q) = q[1]
      /\ Len(q) \in Nat \ {0} /\ Len(Tail(q)) = Len(q) - 1
      /\ \A i \in 1 .. Len(Tail(q)) : Tail(q)[i] = q[i + 1]
  OBVIOUS
<1>2. ASSUME NEW i \in 1 .. Len(q), q[i] # Head(q)
      PROVE  \E k \in 1 .. Len(Tail(q)) : Tail(q)[k] = q[i]
  <2>1. i - 1 \in 1 .. Len(Tail(q)) /\ (i - 1) + 1 = i
    BY <1>1, <1>2
  <2>2. Tail(q)[i - 1] = q[i]
    BY <1>1, <2>1
  <2>. QED
    BY <2>1, <2>2
<1>. QED
  BY <1>1, <1>2

\* The types of the values a search starts with.
LEMMA Typed ==
  /\ \A S : <<>> \in Seq(S)
  /\ 0 \in Int /\ 1 \in Nat \ {0}
  OBVIOUS

\* A search starts with its entry blocks queued and nothing scored.
LEMMA SearchStarts ==
  ASSUME SearchInv, NEW ix \in Indexes, Search(ix)
  PROVE  SearchInv'
<1>1. /\ ix.n \in Nat \ {0} /\ Entries(ix.n) \in Seq(Blocks(ix))
  BY IndexFacts, EntriesFacts DEF Blocks
<1>2. /\ index' = ix /\ queue' = Entries(ix.n)
      /\ queued' = {Entries(ix.n)[i] : i \in 1 .. Len(Entries(ix.n))}
      /\ expanded' = {} /\ scored' = <<>> /\ best' = 0 /\ truncated' = FALSE
      /\ current' = NoBlock /\ next' = 1 /\ cand' = {} /\ final' = {}
      /\ stage' = "walk"
  BY DEF Search
<1>3. queued' \subseteq Blocks(ix)
  BY <1>1, <1>2
<1>4. Seen' = {}
  BY <1>2 DEF Seen
<1>5. SearchTypeOK'
  BY <1>1, <1>2, <1>3, Typed, Zenon DEF SearchTypeOK
<1>6. ScoredOnce' /\ Bookkeeping' /\ BestIsMaximum' /\ Outcome'
  BY <1>2, <1>4, SearchAssumption
     DEF ScoredOnce, Bookkeeping, BestIsMaximum, Outcome, Ranked
<1>7. Owed'
  BY <1>2, <1>4 DEF Owed
<1>. QED
  BY <1>5, <1>6, <1>7 DEF SearchInv

\* Between two searches there is nothing to keep.
LEMMA SearchIdle ==
  ASSUME SearchInit
  PROVE  SearchInv
<1>1. /\ index = NoIndex /\ queue = <<>> /\ queued = {} /\ expanded = {}
      /\ scored = <<>> /\ best = 0 /\ truncated = FALSE
      /\ current = NoBlock /\ next = 1 /\ cand = {} /\ final = {}
      /\ stage = "idle"
  BY DEF SearchInit
<1>2. SearchTypeOK
  BY <1>1, NoIndexFacts, Typed, Zenon DEF SearchTypeOK
<1>3. Seen = {}
  BY <1>1 DEF Seen
<1>4. ScoredOnce /\ Bookkeeping /\ BestIsMaximum /\ Owed /\ Outcome
  BY <1>1, <1>3, SearchAssumption
     DEF ScoredOnce, Bookkeeping, BestIsMaximum, Owed, Outcome, Ranked
<1>. QED
  BY <1>2, <1>4 DEF SearchInv

\* The result is taken: the locals of the search are gone.
LEMMA CollectedKeeps ==
  ASSUME Collected
  PROVE  SearchInv'
<1>1. /\ index' = NoIndex /\ queue' = <<>> /\ queued' = {} /\ expanded' = {}
      /\ scored' = <<>> /\ best' = 0 /\ truncated' = FALSE
      /\ current' = NoBlock /\ next' = 1 /\ cand' = {} /\ final' = {}
      /\ stage' = "idle"
  BY DEF Collected
<1>2. SearchTypeOK'
  BY <1>1, NoIndexFacts, Typed, Zenon DEF SearchTypeOK
<1>3. Seen' = {}
  BY <1>1 DEF Seen
<1>4. /\ ScoredOnce' /\ Bookkeeping' /\ BestIsMaximum' /\ Owed' /\ Outcome'
  BY <1>1, <1>3, SearchAssumption
     DEF ScoredOnce, Bookkeeping, BestIsMaximum, Owed, Outcome, Ranked
<1>. QED
  BY <1>2, <1>4 DEF SearchInv
-----------------------------------------------------------------------------
\* Taking a block from the queue: it is scored at the latest now, and none of
\* its neighbours has been looked at.
LEMMA DequeueKeeps ==
  ASSUME SearchInv, Dequeue
  PROVE  SearchInv'
<1>. DEFINE h == Head(queue)
<1>1. SearchTypeOK /\ ScoredOnce /\ Bookkeeping /\ BestIsMaximum /\ Owed
  BY DEF SearchInv
<1>2. /\ stage = "walk" /\ current = NoBlock /\ queue # <<>> /\ ~Full
      /\ queue' = Tail(queue) /\ queued' = queued \ {h}
      /\ expanded' = expanded \cup {h}
      /\ current' = (IF h \in expanded THEN NoBlock ELSE h) /\ next' = 1
      /\ index' = index /\ truncated' = truncated /\ cand' = cand
      /\ final' = final /\ stage' = stage
  BY DEF Dequeue
<1>3. \/ h \in Seen /\ scored' = scored /\ best' = best
      \/ h \notin Seen /\ Score(h)
  BY DEF Dequeue
<1>4. /\ h \in Blocks(index) /\ Tail(queue) \in Seq(Blocks(index))
      /\ queued \ {h} \subseteq {Tail(queue)[i] : i \in 1 .. Len(Tail(queue))}
  <2>1. queue \in Seq(Blocks(index))
    BY <1>1 DEF SearchTypeOK
  <2>. QED
    BY <1>1, <1>2, <2>1, TailFacts DEF Bookkeeping
<1>5. /\ scored' \in Seq(Blocks(index)) /\ best' \in Int
      /\ Seen' = Seen \cup {h} /\ ScoredOnce'
      /\ \E c \in Seen' : index.rep[c] = best'
      /\ \A c \in Seen' : index.rep[c] <= best'
      /\ \A c \in Seen : index.rep[c] < best - Beta
                         => index.rep[c] < best' - Beta
  <2>1. CASE h \in Seen /\ scored' = scored /\ best' = best
    <3>1. Seen' = Seen /\ ScoredOnce'
      BY <1>1, <2>1 DEF Seen, ScoredOnce
    <3>2. scored # <<>>
      <4>1. ASSUME scored = <<>> PROVE Seen = {}
        BY <4>1 DEF Seen
      <4>. QED
        BY <4>1, <2>1
    <3>. QED
      BY <1>1, <2>1, <3>1, <3>2 DEF SearchTypeOK, BestIsMaximum
  <2>2. CASE h \notin Seen /\ Score(h)
    BY <1>1, <1>2, <1>4, <2>2, ScoreFacts
  <2>. QED
    BY <1>3, <2>1, <2>2
<1>6. SearchTypeOK'
  <2>1. /\ index \in Indexes /\ queued \subseteq Blocks(index)
        /\ expanded \subseteq Blocks(index) /\ truncated \in BOOLEAN
        /\ cand \subseteq Blocks(index) /\ final \subseteq Blocks(index)
        /\ stage \in {"idle", "walk", "refine", "done"}
    BY <1>1, Zenon DEF SearchTypeOK
  <2>2. queued' \subseteq Blocks(index) /\ expanded' \subseteq Blocks(index)
    BY <1>2, <1>4, <2>1
  <2>3. current' \in Blocks(index) \cup {NoBlock}
    BY <1>2, <1>4
  <2>. QED
    BY <1>2, <1>4, <1>5, <2>1, <2>2, <2>3, Typed, Zenon DEF SearchTypeOK
<1>7. Bookkeeping'
  <2>1. ~ truncated
    <3>1. Len(scored) \in Nat /\ MaxScored \in Nat
      BY <1>1, SearchAssumption DEF SearchTypeOK
    <3>. QED
      BY <1>1, <1>2, <3>1 DEF Bookkeeping, Full
  <2>2. expanded \subseteq Seen
    BY <1>1 DEF Bookkeeping
  <2>. QED
    BY <1>2, <1>4, <1>5, <2>1, <2>2 DEF Bookkeeping
<1>8. BestIsMaximum'
  BY <1>2, <1>5 DEF BestIsMaximum
<1>9. Owed'
  <2>1. \A i \in 1 .. Len(Entries(index.n)) :
          Entries(index.n)[i] \in Seen' \cup queued'
    BY <1>1, <1>2, <1>5 DEF Owed
  <2>2. \A b \in Seen' \ expanded' :
          b \in queued' \/ index.rep[b] < best' - Beta
    BY <1>1, <1>2, <1>5 DEF Owed
  <2>3. ASSUME NEW b \in expanded', NEW i \in 1 .. Len(index.adj[b])
        PROVE  \/ index.adj[b][i] \in Seen' \cup queued'
               \/ b = current' /\ i >= next'
               \/ truncated'
    <3>1. CASE b \in expanded
      <4>1. b # current
        <5>1. b \in Blocks(index)
          BY <1>1, <3>1 DEF SearchTypeOK
        <5>2. -1 \notin Blocks(index)
          BY DEF Blocks
        <5>. QED
          BY <1>2, <5>1, <5>2 DEF NoBlock
      <4>2. index.adj[b][i] \in Seen \cup queued \/ truncated
        BY <1>1, <3>1, <4>1 DEF Owed, Reached
      <4>. QED
        BY <1>2, <1>5, <4>2
    <3>2. CASE b \notin expanded
      <4>1. b = current' /\ next' = 1
        BY <1>2, <3>2
      <4>. QED
        BY <4>1
    <3>. QED
      BY <3>1, <3>2
  <2>. QED
    BY <1>2, <2>1, <2>2, <2>3 DEF Owed, Reached
<1>10. Outcome'
  BY <1>2 DEF Outcome, Ranked
<1>. QED
  BY <1>5, <1>6, <1>7, <1>8, <1>9, <1>10 DEF SearchInv

\* A neighbour that is known already is scored or queued.
LEMMA SkipKnownKeeps ==
  ASSUME SearchInv, SkipKnown
  PROVE  SearchInv'
<1>1. SearchTypeOK /\ ScoredOnce /\ Bookkeeping /\ BestIsMaximum /\ Owed
  BY DEF SearchInv
<1>2. /\ stage = "walk" /\ Known(Neighbour) /\ next' = next + 1
      /\ next <= Len(index.adj[current])
      /\ UNCHANGED <<index, queue, queued, expanded, scored, best, truncated,
                     current, cand, final, stage>>
  BY DEF SkipKnown, Expanding
<1>3. Seen' = Seen
  BY <1>2 DEF Seen
<1>4. next \in Nat \ {0} /\ next' \in Nat \ {0}
  BY <1>1, <1>2 DEF SearchTypeOK
<1>5. SearchTypeOK' /\ ScoredOnce' /\ Bookkeeping' /\ BestIsMaximum'
  <2>1. SearchTypeOK'
    BY <1>1, <1>2, <1>4, Zenon DEF SearchTypeOK
  <2>2. ScoredOnce' /\ BestIsMaximum'
    BY <1>1, <1>2, <1>3 DEF ScoredOnce, BestIsMaximum
  <2>3. Bookkeeping'
    BY <1>1, <1>2, <1>3 DEF Bookkeeping
  <2>. QED
    BY <2>1, <2>2, <2>3
<1>6. Owed'
  <2>1. ASSUME NEW b \in expanded, NEW i \in 1 .. Len(index.adj[b])
        PROVE  \/ index.adj[b][i] \in Seen \cup queued
               \/ b = current /\ i >= next + 1
               \/ truncated
    <3>1. CASE b = current /\ i = next
      <4>1. index.adj[b][i] = Neighbour
        BY <3>1 DEF Neighbour
      <4>2. Neighbour \in Seen \cup queued
        BY <1>1, <1>2 DEF Known, Bookkeeping
      <4>. QED
        BY <4>1, <4>2
    <3>2. CASE ~ (b = current /\ i = next)
      <4>1. \/ index.adj[b][i] \in Seen \cup queued
            \/ b = current /\ i >= next
            \/ truncated
        BY <1>1 DEF Owed, Reached
      <4>. QED
        BY <1>4, <3>2, <4>1
    <3>. QED
      BY <3>1, <3>2
  <2>. QED
    BY <1>1, <1>2, <1>3, <2>1 DEF Owed, Reached
<1>7. Outcome'
  BY <1>2 DEF Outcome, Ranked
<1>. QED
  BY <1>5, <1>6, <1>7 DEF SearchInv
\* A new neighbour is scored, and queued or pruned for good.
LEMMA DiscoverKeeps ==
  ASSUME SearchInv, Discover
  PROVE  SearchInv'
<1>. DEFINE nb == Neighbour
<1>1. SearchTypeOK /\ ScoredOnce /\ Bookkeeping /\ BestIsMaximum /\ Owed
  BY DEF SearchInv
<1>2. /\ stage = "walk" /\ current # NoBlock
      /\ ~ Known(nb) /\ ~ Full /\ Score(nb)
      /\ next <= Len(index.adj[current]) /\ next' = next + 1
      /\ index' = index /\ expanded' = expanded /\ truncated' = truncated
      /\ current' = current /\ cand' = cand /\ final' = final
      /\ stage' = stage
  BY DEF Discover, Expanding
<1>3. \/ queue' = Append(queue, nb) /\ queued' = queued \cup {nb}
      \/ /\ index.rep[nb] < best' - Beta
         /\ queue' = queue /\ queued' = queued
  BY DEF Discover
<1>4. nb \in Blocks(index)
  <2>1. current \in Blocks(index) /\ next \in Nat \ {0} /\ index \in Indexes
    BY <1>1, <1>2 DEF SearchTypeOK
  <2>2. index.adj[current] \in Seq(Blocks(index))
    BY <2>1, IndexFacts
  <2>. QED
    BY <1>2, <2>1, <2>2 DEF Neighbour
<1>5. /\ scored' \in Seq(Blocks(index)) /\ best' \in Int
      /\ Seen' = Seen \cup {nb} /\ ScoredOnce'
      /\ \E c \in Seen' : index.rep[c] = best'
      /\ \A c \in Seen' : index.rep[c] <= best'
      /\ \A c \in Seen : index.rep[c] < best - Beta
                         => index.rep[c] < best' - Beta
  <2>1. nb \notin Seen
    BY <1>2 DEF Known
  <2>. QED
    BY <1>1, <1>2, <1>4, <2>1, ScoreFacts
<1>6. /\ queue' \in Seq(Blocks(index)) /\ queued' \subseteq Blocks(index)
      /\ queued' \subseteq {queue'[i] : i \in 1 .. Len(queue')}
      /\ queued \subseteq queued' /\ queued' \subseteq queued \cup {nb}
      /\ nb \in queued' \/ index.rep[nb] < best' - Beta
  <2>1. /\ queue \in Seq(Blocks(index)) /\ queued \subseteq Blocks(index)
        /\ queued \subseteq {queue[i] : i \in 1 .. Len(queue)}
    BY <1>1 DEF SearchTypeOK, Bookkeeping
  <2>2. CASE queue' = Append(queue, nb) /\ queued' = queued \cup {nb}
    <3>1. queue' \in Seq(Blocks(index))
      BY <1>4, <2>1, <2>2
    <3>2. {queue'[i] : i \in 1 .. Len(queue')}
            = {queue[i] : i \in 1 .. Len(queue)} \cup {nb}
      BY <1>4, <2>1, <2>2, SeenAppend
    <3>. QED
      BY <1>4, <2>1, <2>2, <3>1, <3>2
  <2>3. CASE /\ index.rep[nb] < best' - Beta
             /\ queue' = queue /\ queued' = queued
    BY <2>1, <2>3
  <2>. QED
    BY <1>3, <2>2, <2>3
<1>7. SearchTypeOK'
  <2>1. next' \in Nat \ {0}
    BY <1>1, <1>2 DEF SearchTypeOK
  <2>. QED
    BY <1>1, <1>2, <1>5, <1>6, <2>1, Zenon DEF SearchTypeOK
<1>8. Bookkeeping'
  <2>1. ~ truncated
    <3>1. Len(scored) \in Nat /\ MaxScored \in Nat
      BY <1>1, SearchAssumption DEF SearchTypeOK
    <3>. QED
      BY <1>1, <1>2, <3>1 DEF Bookkeeping, Full
  <2>. QED
    BY <1>1, <1>2, <1>5, <1>6, <2>1 DEF Bookkeeping
<1>9. BestIsMaximum'
  BY <1>2, <1>5 DEF BestIsMaximum
<1>10. Owed'
  <2>1. \A i \in 1 .. Len(Entries(index.n)) :
          Entries(index.n)[i] \in Seen' \cup queued'
    BY <1>1, <1>2, <1>5, <1>6 DEF Owed
  <2>2. \A b \in Seen' \ expanded' :
          b \in queued' \/ index.rep[b] < best' - Beta
    BY <1>1, <1>2, <1>5, <1>6 DEF Owed
  <2>3. ASSUME NEW b \in expanded, NEW i \in 1 .. Len(index.adj[b])
        PROVE  \/ index.adj[b][i] \in Seen' \cup queued'
               \/ b = current /\ i >= next + 1
               \/ truncated
    <3>1. CASE b = current /\ i = next
      <4>1. index.adj[b][i] = nb
        BY <3>1 DEF Neighbour
      <4>. QED
        BY <1>5, <4>1
    <3>2. CASE ~ (b = current /\ i = next)
      <4>1. \/ index.adj[b][i] \in Seen \cup queued
            \/ b = current /\ i >= next
            \/ truncated
        BY <1>1 DEF Owed, Reached
      <4>2. next \in Nat
        BY <1>1 DEF SearchTypeOK
      <4>. QED
        BY <1>5, <1>6, <3>2, <4>1, <4>2
    <3>. QED
      BY <3>1, <3>2
  <2>. QED
    BY <1>1, <1>2, <2>1, <2>2, <2>3 DEF Owed, Reached
<1>11. Outcome'
  BY <1>2 DEF Outcome, Ranked
<1>. QED
  BY <1>5, <1>7, <1>8, <1>9, <1>10, <1>11 DEF SearchInv

\* The budget is used up: what is left of the block's neighbours is reported.
LEMMA CutShortKeeps ==
  ASSUME SearchInv, CutShort
  PROVE  SearchInv'
<1>1. SearchTypeOK /\ ScoredOnce /\ Bookkeeping /\ BestIsMaximum /\ Owed
  BY DEF SearchInv
<1>2. /\ stage = "walk" /\ Full /\ truncated' = TRUE /\ current' = NoBlock
      /\ UNCHANGED <<index, queue, queued, expanded, scored, best, next,
                     cand, final, stage>>
  BY DEF CutShort, Expanding
<1>3. Seen' = Seen
  BY <1>2 DEF Seen
<1>4. SearchTypeOK'
  BY <1>1, <1>2, Zenon DEF SearchTypeOK
<1>5. ScoredOnce' /\ BestIsMaximum'
  BY <1>1, <1>2, <1>3 DEF ScoredOnce, BestIsMaximum
<1>6. Bookkeeping'
  <2>1. Len(scored) = MaxScored
    BY <1>1, <1>2, SearchAssumption DEF SearchTypeOK, ScoredOnce, Full
  <2>. QED
    BY <1>1, <1>2, <1>3, <2>1 DEF Bookkeeping
<1>7. Owed'
  BY <1>1, <1>2, <1>3 DEF Owed, Reached
<1>8. Outcome'
  BY <1>2 DEF Outcome, Ranked
<1>. QED
  BY <1>4, <1>5, <1>6, <1>7, <1>8 DEF SearchInv

\* All neighbours of the block are accounted for.
LEMMA ExpandedKeeps ==
  ASSUME SearchInv, Expanded
  PROVE  SearchInv'
<1>1. SearchTypeOK /\ ScoredOnce /\ Bookkeeping /\ BestIsMaximum /\ Owed
  BY DEF SearchInv
<1>2. /\ stage = "walk" /\ current' = NoBlock
      /\ next > Len(index.adj[current])
      /\ current # NoBlock
      /\ UNCHANGED <<index, queue, queued, expanded, scored, best, truncated,
                     next, cand, final, stage>>
  BY DEF Expanded, Expanding
<1>3. Seen' = Seen
  BY <1>2 DEF Seen
<1>4. SearchTypeOK'
  BY <1>1, <1>2, Zenon DEF SearchTypeOK
<1>5. ScoredOnce' /\ BestIsMaximum' /\ Bookkeeping'
  BY <1>1, <1>2, <1>3 DEF ScoredOnce, BestIsMaximum, Bookkeeping
<1>6. Owed'
  <2>1. next \in Nat /\ Len(index.adj[current]) \in Nat
    <3>1. current \in Blocks(index) /\ index \in Indexes /\ next \in Nat
      BY <1>1, <1>2 DEF SearchTypeOK
    <3>2. index.adj[current] \in Seq(Blocks(index))
      BY <3>1, IndexFacts
    <3>. QED
      BY <3>1, <3>2
  <2>2. ASSUME NEW b \in expanded, NEW i \in 1 .. Len(index.adj[b])
        PROVE  index.adj[b][i] \in Seen \cup queued \/ truncated
    <3>1. \/ index.adj[b][i] \in Seen \cup queued
          \/ b = current /\ i >= next
          \/ truncated
      BY <1>1 DEF Owed, Reached
    <3>. QED
      BY <1>2, <2>1, <3>1
  <2>. QED
    BY <1>1, <1>2, <1>3, <2>2 DEF Owed, Reached
<1>7. Outcome'
  BY <1>2 DEF Outcome, Ranked
<1>. QED
  BY <1>4, <1>5, <1>6, <1>7 DEF SearchInv
\* The walk ends with something scored, and its queue is empty or reported.
LEMMA RankKeeps ==
  ASSUME SearchInv, Rank
  PROVE  SearchInv'
<1>1. SearchTypeOK /\ ScoredOnce /\ Bookkeeping /\ BestIsMaximum /\ Owed
  BY DEF SearchInv
<1>2. /\ stage = "walk" /\ current = NoBlock /\ (queue = <<>> \/ Full)
      /\ truncated' = (truncated \/ queue # <<>>)
      /\ cand' = {b \in Seen : index.rep[b] >= best - Beta}
      /\ stage' = "refine"
      /\ UNCHANGED <<index, queue, queued, expanded, scored, best, current,
                     next, final>>
  BY DEF Rank, CutOff
<1>3. Seen' = Seen
  BY <1>2 DEF Seen
<1>4. Seen \subseteq Blocks(index)
  BY <1>1 DEF SearchTypeOK, Seen
<1>5. SearchTypeOK'
  <2>1. truncated' \in BOOLEAN /\ cand' \subseteq Blocks(index)
    BY <1>2, <1>4
  <2>. QED
    BY <1>1, <1>2, <2>1, Zenon DEF SearchTypeOK
<1>6. ScoredOnce' /\ BestIsMaximum'
  BY <1>1, <1>2, <1>3 DEF ScoredOnce, BestIsMaximum
<1>7. Full => Len(scored) = MaxScored
  BY <1>1, SearchAssumption DEF SearchTypeOK, ScoredOnce, Full
<1>8. Bookkeeping'
  BY <1>1, <1>2, <1>3, <1>7 DEF Bookkeeping
<1>9. Owed'
  BY <1>1, <1>2, <1>3 DEF Owed, Reached
<1>10. scored # <<>>
  <2>1. CASE queue = <<>>
    <3>1. queued = {}
      BY <1>1, <2>1 DEF Bookkeeping
    <3>2. 1 \in 1 .. Len(Entries(index.n))
      <4>1. index.n \in Nat \ {0}
        BY <1>1, IndexFacts DEF SearchTypeOK
      <4>2. /\ Entries(index.n) \in Seq(0 .. index.n - 1)
            /\ Len(Entries(index.n)) >= 1
        BY <4>1, EntriesFacts
      <4>3. Len(Entries(index.n)) \in Nat
        BY <4>2
      <4>. QED
        BY <4>2, <4>3
    <3>3. Entries(index.n)[1] \in Seen
      BY <1>1, <1>2, <3>1, <3>2 DEF Owed
    <3>4. ASSUME scored = <<>> PROVE Seen = {}
      BY <3>4 DEF Seen
    <3>. QED
      BY <3>3, <3>4
  <2>2. CASE Full
    <3>1. Len(scored) = MaxScored /\ MaxScored \in Nat \ {0}
      BY <1>7, <2>2, SearchAssumption
    <3>. QED
      BY <3>1
  <2>. QED
    BY <1>2, <2>1, <2>2
<1>11. Outcome'
  BY <1>2, <1>3, <1>10 DEF Outcome, Ranked
<1>. QED
  BY <1>5, <1>6, <1>8, <1>9, <1>11 DEF SearchInv

\* The exact scores choose among the candidates.
LEMMA RefineKeeps ==
  ASSUME SearchInv, Refine
  PROVE  SearchInv'
<1>1. /\ SearchTypeOK /\ ScoredOnce /\ Bookkeeping /\ BestIsMaximum /\ Owed
      /\ Outcome
  BY DEF SearchInv
<1>2. /\ stage = "refine" /\ stage' = "done"
      /\ final' = {b \in cand : \A c \in cand :
                     index.exact[b] >= index.exact[c] - Beta}
      /\ UNCHANGED <<index, queue, queued, expanded, scored, best, truncated,
                     current, next, cand>>
  BY DEF Refine
<1>3. Seen' = Seen
  BY <1>2 DEF Seen
<1>4. SearchTypeOK'
  <2>1. cand \subseteq Blocks(index)
    BY <1>1 DEF SearchTypeOK
  <2>2. final' \subseteq Blocks(index)
    BY <1>2, <2>1
  <2>. QED
    BY <1>1, <1>2, <2>2, Zenon DEF SearchTypeOK
<1>5. ScoredOnce' /\ BestIsMaximum' /\ Bookkeeping'
  BY <1>1, <1>2, <1>3 DEF ScoredOnce, BestIsMaximum, Bookkeeping
<1>6. Owed'
  BY <1>1, <1>2, <1>3 DEF Owed, Reached
<1>7. Outcome'
  BY <1>1, <1>2, <1>3 DEF Outcome, Ranked
<1>. QED
  BY <1>4, <1>5, <1>6, <1>7 DEF SearchInv

\* No step disturbs the invariant.
LEMMA SearchKeeps == SearchInv /\ [SearchNext]_searchVars => SearchInv'
<1>. SUFFICES ASSUME SearchInv, [SearchNext]_searchVars PROVE SearchInv'
  OBVIOUS
<1>1. CASE \E ix \in Indexes : Search(ix)
  BY <1>1, SearchStarts
<1>2. CASE Dequeue
  BY <1>2, DequeueKeeps
<1>3. CASE SkipKnown
  BY <1>3, SkipKnownKeeps
<1>4. CASE Discover
  BY <1>4, DiscoverKeeps
<1>5. CASE CutShort
  BY <1>5, CutShortKeeps
<1>6. CASE Expanded
  BY <1>6, ExpandedKeeps
<1>7. CASE Rank
  BY <1>7, RankKeeps
<1>8. CASE Refine
  BY <1>8, RefineKeeps
<1>9. CASE Collected
  BY <1>9, CollectedKeeps
<1>10. CASE UNCHANGED searchVars
  <2>1. /\ index' = index /\ queue' = queue /\ queued' = queued
        /\ expanded' = expanded /\ scored' = scored /\ best' = best
        /\ truncated' = truncated /\ current' = current /\ next' = next
        /\ cand' = cand /\ final' = final /\ stage' = stage
    BY <1>10 DEF searchVars
  <2>2. Seen' = Seen
    BY <2>1 DEF Seen
  <2>3. SearchTypeOK'
    BY <2>1, Zenon DEF SearchInv, SearchTypeOK
  <2>4. ScoredOnce' /\ BestIsMaximum' /\ Bookkeeping'
    BY <2>1, <2>2
       DEF SearchInv, ScoredOnce, BestIsMaximum, Bookkeeping
  <2>5. Owed' /\ Outcome'
    BY <2>1, <2>2 DEF SearchInv, Owed, Reached, Outcome, Ranked
  <2>. QED
    BY <2>3, <2>4, <2>5 DEF SearchInv
<1>. QED
  BY <1>1, <1>2, <1>3, <1>4, <1>5, <1>6, <1>7, <1>8, <1>9, <1>10
     DEF SearchNext, SearchStep

\* The invariant holds throughout.
LEMMA SearchAlways == SearchSpec => []SearchInv
<1>1. SearchInit => SearchInv
  BY SearchIdle
<1>. QED
  BY <1>1, SearchKeeps, PTL DEF SearchSpec

-----------------------------------------------------------------------------
\* The walk ends complete or says that it did not.
LEMMA CompleteFromInv ==
  ASSUME SearchInv
  PROVE  SearchComplete
<1>1. SearchTypeOK /\ Bookkeeping /\ Owed /\ Outcome
  BY DEF SearchInv
<1>. SUFFICES ASSUME Ranked, ~ truncated
              PROVE  /\ \A i \in 1 .. Len(Entries(index.n)) :
                          Entries(index.n)[i] \in Seen
                     /\ \A b \in cand :
                          /\ b \in expanded
                          /\ \A i \in 1 .. Len(index.adj[b]) :
                               index.adj[b][i] \in Seen
  BY DEF SearchComplete
<1>2. queued = {} /\ cand = {b \in Seen : index.rep[b] >= best - Beta}
  BY <1>1 DEF Outcome, Bookkeeping
<1>3. current = NoBlock /\ stage # "idle"
  BY <1>1 DEF Bookkeeping, Ranked
<1>4. \A i \in 1 .. Len(Entries(index.n)) : Entries(index.n)[i] \in Seen
  BY <1>1, <1>2, <1>3 DEF Owed
<1>5. ASSUME NEW b \in cand
      PROVE  /\ b \in expanded
             /\ \A i \in 1 .. Len(index.adj[b]) : index.adj[b][i] \in Seen
  <2>1. b \in Blocks(index) /\ index \in Indexes /\ best \in Int
    BY <1>1 DEF SearchTypeOK
  <2>2. index.rep[b] \in Int
    BY <2>1, IndexFacts
  <2>3. b \in expanded
    BY <1>1, <1>2, <2>1, <2>2, SearchAssumption DEF Owed
  <2>4. b # current
    <3>1. -1 \notin Blocks(index)
      BY DEF Blocks
    <3>. QED
      BY <1>3, <2>1, <3>1 DEF NoBlock
  <2>. QED
    BY <1>1, <1>2, <2>3, <2>4 DEF Owed, Reached
<1>. QED
  BY <1>4, <1>5

\* The best representative is a candidate and the best candidate a result.
LEMMA SoundFromInv ==
  ASSUME SearchInv
  PROVE  ResultSound
<1>1. /\ SearchTypeOK /\ Bookkeeping /\ BestIsMaximum /\ Outcome
  BY DEF SearchInv
<1>2. /\ index \in Indexes /\ best \in Int /\ Seen \subseteq Blocks(index)
      /\ cand \subseteq Blocks(index)
  BY <1>1 DEF SearchTypeOK, Seen
<1>3. /\ index.n \in Nat \ {0}
      /\ index.rep \in [Blocks(index) -> Int]
      /\ index.exact \in [Blocks(index) -> Int]
  BY <1>2, IndexFacts
<1>4. \A b \in Seen : index.rep[b] \in Int
  BY <1>2, <1>3
<1>5. ASSUME Ranked
      PROVE  /\ \E b \in cand : \A c \in Seen : index.rep[b] >= index.rep[c]
             /\ \A b \in cand, c \in Seen :
                  index.rep[b] >= index.rep[c] - Beta
             /\ truncated => Len(scored) = MaxScored
  <2>1. /\ cand = {b \in Seen : index.rep[b] >= best - Beta}
        /\ \A c \in Seen : index.rep[c] <= best
    BY <1>1, <1>5 DEF Outcome, BestIsMaximum
  <2>2. PICK b \in Seen : index.rep[b] = best
    BY <1>1, <1>5 DEF Outcome, BestIsMaximum
  <2>3. b \in cand
    BY <1>2, <2>1, <2>2, SearchAssumption
  <2>4. \A c \in Seen : index.rep[b] >= index.rep[c]
    BY <1>2, <1>4, <2>1, <2>2
  <2>5. \A d \in cand, c \in Seen : index.rep[d] >= index.rep[c] - Beta
    BY <1>2, <1>4, <2>1, SearchAssumption
  <2>. QED
    BY <1>1, <2>3, <2>4, <2>5 DEF Bookkeeping
<1>6. ASSUME stage = "done"
      PROVE  \E b \in final : \A c \in cand : index.exact[b] >= index.exact[c]
  <2>1. Ranked
    BY <1>6 DEF Ranked
  <2>2. cand # {}
    BY <1>5, <2>1
  <2>3. /\ cand \in SUBSET (0 .. index.n - 1)
        /\ index.exact \in [0 .. index.n - 1 -> Int]
    BY <1>2, <1>3 DEF Blocks
  <2>4. PICK b \in cand : \A c \in cand : index.exact[b] >= index.exact[c]
    BY <1>3, <2>2, <2>3, FiniteMaximum
  <2>5. \A c \in cand : index.exact[c] \in Int
    BY <1>2, <1>3
  <2>6. \A c \in cand : index.exact[b] >= index.exact[c] - Beta
    BY <2>4, <2>5, SearchAssumption
  <2>7. b \in final
    BY <1>1, <1>6, <2>6 DEF Outcome
  <2>. QED
    BY <2>4, <2>7
<1>. QED
  BY <1>5, <1>6 DEF ResultSound

\* Every variable of a search keeps its type.
THEOREM SearchTypeCorrect == SearchSpec => []SearchTypeOK
<1>1. SearchInv => SearchTypeOK
  BY DEF SearchInv
<1>. QED
  BY <1>1, SearchAlways, PTL

\* A search that does not report truncation has followed every edge of every
\* candidate, whatever beta, l0 and the scores (traverse, graph_diprs.py).
THEOREM SearchIsComplete == SearchSpec => []SearchComplete
<1>1. SearchInv => SearchComplete
  BY CompleteFromInv
<1>. QED
  BY <1>1, SearchAlways, PTL

\* Whatever the graph, a search scores a block once and no more blocks than
\* its budget, the best scored representative is a candidate and the best
\* candidate is returned (traverse and refine_candidates, graph_diprs.py).
THEOREM SearchIsSound == SearchSpec => []SearchSound
<1>1. SearchInv => ScoredOnce
  BY DEF SearchInv
<1>2. SearchInv => ResultSound
  BY SoundFromInv
<1>3. SearchInv => SearchSound
  BY <1>1, <1>2 DEF SearchSound
<1>. QED
  BY <1>3, SearchAlways, PTL

-----------------------------------------------------------------------------
(* The lengths *)

\* The lengths of the text, as natural numbers.
LEMMA SizesNat ==
  /\ RBS \in Nat /\ RBS > 0 /\ Degree \in Nat /\ Beta \in Nat
  /\ NumHeads \in Nat /\ NumHeads > 0 /\ Capacity \in Nat /\ Capacity > 0
  /\ MaxTokens \in Nat /\ MaxTokens > 0 /\ FirstTokens \in Nat
  /\ NumRequests \in Nat /\ QuerySamples \in Nat /\ QuerySamples > 0
  /\ Representatives \in Nat /\ Representatives > 0
BY BlockGraphAssumption, M11Assumption, SearchAssumption

-----------------------------------------------------------------------------
(* Blocks *)

\* Where the blocks of t tokens lie.
LEMMA BlockFacts ==
  ASSUME NEW t \in Nat, t > 0
  PROVE  /\ NumBlocks(t) \in Nat /\ NumBlocks(t) > 0
         /\ \A i \in 0 .. t - 1 : i \div RBS \in BlockIds(t)
         /\ \A b \in BlockIds(t) :
              /\ b \in Nat /\ b * RBS \in 0 .. t - 1
              /\ (b * RBS) \div RBS = b
<1>1. NumBlocks(t) \in Nat /\ NumBlocks(t) > 0
  BY SizesNat DEF NumBlocks
<1>2. ASSUME NEW i \in 0 .. t - 1
      PROVE  i \div RBS \in BlockIds(t)
  <2>1. i \div RBS \in Nat
    BY SizesNat
  <2>2. i \div RBS <= NumBlocks(t) - 1
    BY SizesNat DEF NumBlocks
  <2> QED BY <1>1, <2>1, <2>2 DEF BlockIds
<1>3. ASSUME NEW b \in BlockIds(t)
      PROVE  b \in Nat /\ b * RBS \in 0 .. t - 1 /\ (b * RBS) \div RBS = b
  <2>1. b \in Nat /\ b < NumBlocks(t)
    BY <1>1 DEF BlockIds
  <2>2. b * RBS < t
    BY <2>1, SizesNat DEF NumBlocks
  <2>3. b * RBS \in Nat /\ (b * RBS) \div RBS = b
    BY <2>1, SizesNat
  <2> QED BY <2>1, <2>2, <2>3
<1> QED BY <1>1, <1>2, <1>3

LEMMA TokensFacts ==
  ASSUME NEW t \in Nat, NEW k, DOMAIN k = 0 .. t - 1
  PROVE  Tokens(k) = t
<1>1. Cardinality(0 .. t - 1) = t
  BY FS_Interval
<1> QED BY <1>1 DEF Tokens

LEMMA BlockCount ==
  ASSUME NEW t \in Nat, t > 0
  PROVE  IsFiniteSet(BlockIds(t)) /\ Cardinality(BlockIds(t)) = NumBlocks(t)
<1>1. \A n \in Nat : IsFiniteSet(0 .. n - 1) /\ Cardinality(0 .. n - 1) = n
  BY FS_Interval
<1>2. NumBlocks(t) \in Nat
  BY BlockFacts
<1> QED BY <1>1, <1>2 DEF BlockIds

-----------------------------------------------------------------------------
(* The greatest of finitely many values *)

\* A value that is the greatest of S is Max(S).
LEMMA MaxIs ==
  ASSUME NEW S, NEW m \in S, \A y \in S : m >= y
  PROVE  Max(S) \in S /\ \A y \in S : Max(S) >= y
BY Zenon DEF Max

LEMMA MaxOver ==
  ASSUME NEW t \in Nat, NEW f \in [0 .. t - 1 -> Int],
         NEW C \in SUBSET (0 .. t - 1), C # {}, NEW S, S = {f[i] : i \in C}
  PROVE  /\ Max(S) \in Int /\ Max(S) \in S
         /\ \A i \in C : Max(S) >= f[i]
<1>1. PICK b \in C : \A c \in C : f[b] >= f[c]
  BY FiniteMaximum
<1>2. f[b] \in S /\ \A y \in S : f[b] >= y
  BY <1>1
<1>3. Max(S) \in S /\ \A y \in S : Max(S) >= y
  BY <1>2, MaxIs
<1>4. S \subseteq Int
  OBVIOUS
<1>5. \A i \in C : f[i] \in S
  OBVIOUS
<1> QED BY <1>3, <1>4, <1>5

-----------------------------------------------------------------------------
(* Scores *)

\* The frozen keys of t tokens and their representatives.
Frozen(keys, chosen, t) ==
  /\ keys \in [0 .. t - 1 -> Int]
  /\ chosen \in [BlockIds(t) -> SUBSET (0 .. t - 1)]
  /\ \A b \in BlockIds(t) : chosen[b] # {}

LEMMA RepScoresType ==
  ASSUME NEW t \in Nat, NEW k, NEW chosen, Frozen(k, chosen, t), NEW q \in Int
  PROVE  RepScores(k, chosen, q) \in [BlockIds(t) -> Int]
<1> DEFINE f == [i \in 0 .. t - 1 |-> q * k[i]]
<1>1. k \in [0 .. t - 1 -> Int] /\ DOMAIN chosen = BlockIds(t)
  BY DEF Frozen
<1>2. f \in [0 .. t - 1 -> Int]
  BY <1>1
<1>3. ASSUME NEW b \in BlockIds(t)
      PROVE  Max({q * k[i] : i \in chosen[b]}) \in Int
  <2>1. chosen[b] \in SUBSET (0 .. t - 1) /\ chosen[b] # {}
    BY DEF Frozen
  <2>2. {q * k[i] : i \in chosen[b]} = {f[i] : i \in chosen[b]}
    BY <2>1
  <2> HIDE DEF f
  <2> QED BY ONLY <1>2, <2>1, <2>2, MaxOver, t \in Nat
<1> QED BY <1>1, <1>3 DEF RepScores

\* The exact score of a block is that of its best token.
LEMMA ExactScoresFacts ==
  ASSUME NEW t \in Nat, t > 0, NEW k \in [0 .. t - 1 -> Int], NEW q \in Int
  PROVE  /\ ExactScores(k, q) \in [BlockIds(t) -> Int]
         /\ \A i \in 0 .. t - 1 : /\ i \div RBS \in BlockIds(t)
                                  /\ ExactScores(k, q)[i \div RBS] >= q * k[i]
         /\ \A b \in BlockIds(t) : \E i \in 0 .. t - 1 :
              ExactScores(k, q)[b] = q * k[i]
<1> DEFINE f == [i \in 0 .. t - 1 |-> q * k[i]]
           score == ExactScores(k, q)
<1>1. Tokens(k) = t
  BY TokensFacts
<1>2. f \in [0 .. t - 1 -> Int] /\ \A i \in 0 .. t - 1 : f[i] = q * k[i]
  OBVIOUS
<1>3. score = [b \in BlockIds(t) |-> Max({q * k[i] : i \in BlockTokens(b, t)})]
  BY <1>1 DEF ExactScores
<1>4. ASSUME NEW b \in BlockIds(t)
      PROVE  /\ score[b] \in Int
             /\ \E i \in 0 .. t - 1 : score[b] = q * k[i]
             /\ \A i \in BlockTokens(b, t) : score[b] >= q * k[i]
  <2>1. BlockTokens(b, t) \in SUBSET (0 .. t - 1) /\ BlockTokens(b, t) # {}
    <3>1. b * RBS \in BlockTokens(b, t)
      BY BlockFacts DEF BlockTokens
    <3> QED BY <3>1 DEF BlockTokens
  <2>2. {q * k[i] : i \in BlockTokens(b, t)} = {f[i] : i \in BlockTokens(b, t)}
    BY <2>1
  <2>3. score[b] = Max({f[i] : i \in BlockTokens(b, t)})
    BY <1>3, <2>2
  <2> HIDE DEF f, score
  <2>4. /\ score[b] \in Int /\ score[b] \in {f[i] : i \in BlockTokens(b, t)}
        /\ \A i \in BlockTokens(b, t) : score[b] >= f[i]
    BY ONLY <1>2, <2>1, <2>3, MaxOver, t \in Nat
  <2> QED BY <1>2, <2>1, <2>4
<1>5. ASSUME NEW i \in 0 .. t - 1
      PROVE  i \div RBS \in BlockIds(t) /\ score[i \div RBS] >= q * k[i]
  <2>1. i \div RBS \in BlockIds(t)
    BY BlockFacts
  <2>2. i \in BlockTokens(i \div RBS, t)
    BY DEF BlockTokens
  <2> HIDE DEF score
  <2> QED BY <1>4, <2>1, <2>2
<1> HIDE DEF score
<1>6. score \in [BlockIds(t) -> Int]
  BY <1>3, <1>4
<1> QED BY <1>4, <1>5, <1>6 DEF score

-----------------------------------------------------------------------------
(* Orders *)

\* What ByCost puts before b.
Earlier(S, cost, b) ==
  {a \in S : cost[a] < cost[b] \/ (cost[a] = cost[b] /\ a < b)}

\* Every rank is taken by one member: the ranks of n members are different
\* and less than n.
LEMMA EveryRank ==
  ASSUME NEW S, S \subseteq Int, IsFiniteSet(S), NEW cost \in [S -> Int],
         NEW m \in 0 .. Cardinality(S) - 1
  PROVE  \E b \in S : Cardinality(Earlier(S, cost, b)) = m
<1> DEFINE n == Cardinality(S)
           rank == [b \in S |-> Cardinality(Earlier(S, cost, b))]
<1>1. n \in Nat
  BY FS_CardinalityType
<1>2. ASSUME NEW b \in S
      PROVE  /\ IsFiniteSet(Earlier(S, cost, b)) /\ Cardinality(Earlier(S, cost, b)) \in Nat
             /\ Cardinality(Earlier(S, cost, b)) <= n - 1
  <2>1. Earlier(S, cost, b) \in SUBSET (S \ {b})
    BY DEF Earlier
  <2>2. IsFiniteSet(S \ {b}) /\ Cardinality(S \ {b}) = n - 1
    BY FS_RemoveElement
  <2>3. /\ IsFiniteSet(Earlier(S, cost, b))
        /\ Cardinality(Earlier(S, cost, b)) <= Cardinality(S \ {b})
    BY <2>1, <2>2, FS_Subset
  <2> QED BY <2>2, <2>3, FS_CardinalityType
<1>3. ASSUME NEW a \in S, NEW b \in S, a \in Earlier(S, cost, b)
      PROVE  Cardinality(Earlier(S, cost, a)) < Cardinality(Earlier(S, cost, b))
  <2>1. a \notin Earlier(S, cost, a)
    BY DEF Earlier
  <2>2. Earlier(S, cost, a) \cup {a} \in SUBSET Earlier(S, cost, b)
    <3>1. cost[a] < cost[b] \/ (cost[a] = cost[b] /\ a < b)
      BY <1>3 DEF Earlier
    <3>2. \A c \in S : cost[c] \in Int /\ c \in Int
      OBVIOUS
    <3>3. ASSUME NEW c \in S, cost[c] < cost[a] \/ (cost[c] = cost[a] /\ c < a)
          PROVE  cost[c] < cost[b] \/ (cost[c] = cost[b] /\ c < b)
      BY ONLY <3>1, <3>2, <3>3, a \in S, b \in S
    <3> QED BY <1>3, <3>3 DEF Earlier
  <2>3. Cardinality(Earlier(S, cost, a) \cup {a}) = Cardinality(Earlier(S, cost, a)) + 1
    BY <1>2, <2>1, FS_AddElement
  <2>4. Cardinality(Earlier(S, cost, a) \cup {a}) <= Cardinality(Earlier(S, cost, b))
    BY <1>2, <2>2, FS_Subset
  <2> QED BY <1>2, <2>3, <2>4
<1>4. ASSUME NEW a \in S, NEW b \in S, a # b
      PROVE  Cardinality(Earlier(S, cost, a)) # Cardinality(Earlier(S, cost, b))
  <2>1. a \in Earlier(S, cost, b) \/ b \in Earlier(S, cost, a)
    <3>1. a \in Int /\ b \in Int /\ cost[a] \in Int /\ cost[b] \in Int
      OBVIOUS
    <3> QED BY <1>4, <3>1 DEF Earlier
  <2> QED BY <1>2, <1>3, <2>1
<1>5. rank \in [S -> 0 .. n - 1]
  BY <1>1, <1>2
<1>6. rank \in Injection(S, 0 .. n - 1)
  BY <1>4, <1>5 DEF Injection, IsInjective
<1>7. IsFiniteSet(0 .. n - 1) /\ Cardinality(0 .. n - 1) = n
  <2>1. \A k \in Nat : IsFiniteSet(0 .. k - 1) /\ Cardinality(0 .. k - 1) = k
    BY FS_Interval
  <2> QED BY <1>1, <2>1
<1>8. rank \in Surjection(S, 0 .. n - 1)
  <2> HIDE DEF rank
  <2> QED BY <1>6, <1>7, FS_Injection
<1>9. \E b \in S : rank[b] = m
  BY <1>8 DEF Surjection
<1> QED BY <1>9

\* ByCost lists the members of a set.
LEMMA ByCostFacts ==
  ASSUME NEW S, S \subseteq Int, IsFiniteSet(S), NEW cost \in [S -> Int]
  PROVE  /\ ByCost(S, cost) \in [1 .. Cardinality(S) -> S]
         /\ ByCost(S, cost) \in Seq(S)
         /\ DOMAIN ByCost(S, cost) = 1 .. Cardinality(S)
         /\ S # {} => ByCost(S, cost)[1] \in S
<1>1. ByCost(S, cost) = [n \in 1 .. Cardinality(S) |->
                          CHOOSE b \in S : Cardinality(Earlier(S, cost, b)) = n - 1]
  BY DEF ByCost, Earlier
<1>2. Cardinality(S) \in Nat
  BY FS_CardinalityType
<1>3. ASSUME NEW n \in 1 .. Cardinality(S)
      PROVE  (CHOOSE b \in S : Cardinality(Earlier(S, cost, b)) = n - 1) \in S
  <2>1. n - 1 \in 0 .. Cardinality(S) - 1
    BY <1>2
  <2>2. \E b \in S : Cardinality(Earlier(S, cost, b)) = n - 1
    BY <2>1, EveryRank
  <2> QED BY <2>2
<1>4. ByCost(S, cost) \in [1 .. Cardinality(S) -> S]
  BY <1>1, <1>3
<1>5. S # {} => 1 \in 1 .. Cardinality(S)
  BY <1>2, FS_EmptySet
<1>6. ByCost(S, cost) \in Seq(S)
  BY <1>2, <1>4
<1> QED BY <1>4, <1>5, <1>6

LEMMA SeqWithin ==
  ASSUME NEW T, NEW S, S \subseteq T, NEW s \in Seq(S)
  PROVE  s \in Seq(T)
OBVIOUS

LEMMA FirstOfType ==
  ASSUME NEW S, NEW s \in Seq(S), NEW n \in Nat
  PROVE  FirstOf(s, n) \in Seq(S)
<1>1. Len(s) \in Nat
  OBVIOUS
<1>2. Min({n, Len(s)}) \in {n, Len(s)} /\ \A y \in {n, Len(s)} : Min({n, Len(s)}) <= y
  <2>1. \E x \in {n, Len(s)} : \A y \in {n, Len(s)} : x <= y
    BY <1>1
  <2> QED BY <2>1, Zenon DEF Min
<1>3. Min({n, Len(s)}) \in Nat /\ Min({n, Len(s)}) <= Len(s)
  BY <1>1, <1>2
<1>4. \A m \in Nat : m <= Len(s) => SubSeq(s, 1, m) \in Seq(S)
  OBVIOUS
<1> QED BY <1>3, <1>4 DEF FirstOf

\* What fills up a list are members of the list it is taken from.
LEMMA FillType ==
  ASSUME NEW S, NEW list \in Seq(S), NEW guided
  PROVE  Fill(list, guided) \in Seq(S)
<1> DEFINE kept == {i \in DOMAIN list : ~Contains(guided, list[i])}
           cost == [i \in kept |-> i]
           order == ByCost(kept, cost)
<1>1. kept \subseteq 1 .. Len(list) /\ Len(list) \in Nat
  OBVIOUS
<1>2. kept \subseteq Int /\ IsFiniteSet(kept) /\ cost \in [kept -> Int]
  <2>1. IsFiniteSet(1 .. Len(list))
    BY <1>1, FS_Interval
  <2>2. IsFiniteSet(kept)
    BY <1>1, <2>1, FS_Subset
  <2> QED BY <1>1, <2>2
<1>3. Fill(list, guided) = [n \in DOMAIN order |-> list[order[n]]]
  BY DEF Fill
<1> HIDE DEF kept, cost, order
<1>4. order \in [1 .. Cardinality(kept) -> kept] /\ Cardinality(kept) \in Nat
  BY <1>2, ByCostFacts, FS_CardinalityType DEF order
<1>5. \A i \in 1 .. Len(list) : list[i] \in S
  OBVIOUS
<1>6. \A n \in 1 .. Cardinality(kept) : list[order[n]] \in S
  <2>1. \A n \in 1 .. Cardinality(kept) : order[n] \in 1 .. Len(list)
    BY ONLY <1>1, <1>4
  <2> QED BY ONLY <1>5, <2>1
<1>7. Fill(list, guided) \in [1 .. Cardinality(kept) -> S]
  BY <1>3, <1>4, <1>6
<1> QED BY <1>4, <1>7

-----------------------------------------------------------------------------
(* Recursion *)

\* F is defined by recursion over 0 .. m.
ByRecursion(F, m, S, base, G) ==
  /\ F \in [0 .. m -> S]
  /\ F[0] = base
  /\ \A i \in 1 .. m : F[i] = G[<<i, F[i - 1]>>]

\* There is such a function.
LEMMA Recursion ==
  ASSUME NEW m \in Nat, NEW S, NEW base \in S, NEW G \in [(1 .. m) \X S -> S]
  PROVE  \E F : ByRecursion(F, m, S, base, G)
<1> DEFINE Defined(j) == \E F \in [0 .. j -> S] :
                           /\ F[0] = base
                           /\ \A i \in 1 .. j : F[i] = G[<<i, F[i - 1]>>]
           T == {j \in 0 .. m : ~Defined(j)}
<1>1. Defined(0)
  <2>1. [i \in 0 .. 0 |-> base] \in [0 .. 0 -> S]
    OBVIOUS
  <2>2. \A i \in 1 .. 0 : FALSE
    OBVIOUS
  <2>3. [i \in 0 .. 0 |-> base][0] = base
    OBVIOUS
  <2> QED BY <2>1, <2>2, <2>3
<1>2. ASSUME NEW j \in 1 .. m, Defined(j - 1)
      PROVE  Defined(j)
  <2>1. PICK F \in [0 .. j - 1 -> S] :
          /\ F[0] = base
          /\ \A i \in 1 .. j - 1 : F[i] = G[<<i, F[i - 1]>>]
    BY <1>2
  <2> DEFINE H == [i \in 0 .. j |-> IF i = j THEN G[<<j, F[j - 1]>>] ELSE F[i]]
  <2>2. F[j - 1] \in S /\ G[<<j, F[j - 1]>>] \in S
    <3>1. j - 1 \in 0 .. j - 1
      OBVIOUS
    <3>2. F[j - 1] \in S
      BY <3>1
    <3>3. <<j, F[j - 1]>> \in (1 .. m) \X S
      BY <3>2
    <3> QED BY <3>2, <3>3
  <2>3. H \in [0 .. j -> S]
    BY <2>2
  <2>4. \A i \in 0 .. j - 1 : H[i] = F[i]
    OBVIOUS
  <2>5. H[0] = base
    BY <2>1, <2>4
  <2>6. H[j] = G[<<j, H[j - 1]>>]
    <3>1. j \in 0 .. j /\ j - 1 \in 0 .. j - 1
      OBVIOUS
    <3>2. H[j] = G[<<j, F[j - 1]>>]
      BY <3>1
    <3>3. H[j - 1] = F[j - 1]
      BY <2>4, <3>1
    <3> QED BY <3>2, <3>3
  <2>7. \A i \in 1 .. j - 1 : H[i] = G[<<i, H[i - 1]>>]
    <3>1. \A i \in 1 .. j - 1 : i \in 0 .. j - 1 /\ i - 1 \in 0 .. j - 1
      OBVIOUS
    <3> HIDE DEF H
    <3> QED BY <2>1, <2>4, <3>1
  <2> HIDE DEF H
  <2>8. \A i \in 1 .. j : i = j \/ i \in 1 .. j - 1
    OBVIOUS
  <2> QED BY <2>3, <2>5, <2>6, <2>7, <2>8
<1> HIDE DEF Defined
<1>3. T = {}
  <2>1. SUFFICES ASSUME T # {} PROVE FALSE
    OBVIOUS
  <2>2. PICK j \in T : \A i \in Nat : i < j => i \notin T
    <3>1. T \in SUBSET Nat
      OBVIOUS
    <3> HIDE DEF T
    <3> QED BY <2>1, <3>1, LeastNatural
  <2>3. j \in 0 .. m /\ ~Defined(j)
    OBVIOUS
  <2>4. j # 0
    BY <1>1, <2>3
  <2>5. Defined(j - 1)
    <3>1. j - 1 \in 0 .. m /\ j - 1 \in Nat /\ j - 1 < j
      BY <2>3, <2>4
    <3> QED BY <2>2, <3>1
  <2> QED BY <1>2, <2>3, <2>4, <2>5
<1>4. Defined(m)
  <2>1. m \in 0 .. m
    OBVIOUS
  <2> QED BY <1>3, <2>1
<1> QED BY <1>4 DEF Defined, ByRecursion

\* A member of a set that is not empty.
Pick(s) == CHOOSE x \in s : TRUE

\* s without it.
Rest(s) == s \ {Pick(s)}

LEMMA RestFacts ==
  ASSUME NEW S, IsFiniteSet(S), NEW s \in SUBSET S
  PROVE  /\ Cardinality(s) \in 0 .. Cardinality(S)
         /\ s = {} <=> Cardinality(s) = 0
         /\ s # {} => /\ Pick(s) \in s /\ Rest(s) \in SUBSET S
                      /\ Cardinality(Rest(s)) = Cardinality(s) - 1
<1>1. IsFiniteSet(s) /\ Cardinality(s) <= Cardinality(S)
  BY FS_Subset
<1>2. Cardinality(s) \in Nat /\ Cardinality(S) \in Nat /\ (Cardinality(s) = 0 <=> s = {})
  BY <1>1, FS_CardinalityType, FS_EmptySet
<1>3. s # {} => Pick(s) \in s
  BY DEF Pick
<1>4. s # {} => Cardinality(Rest(s)) = Cardinality(s) - 1
  BY <1>1, <1>3, FS_RemoveElement DEF Rest
<1> QED BY <1>1, <1>2, <1>3, <1>4 DEF Rest

\* The equation of the fold that sums k over the subsets of S.
Sums(k, S, it) ==
  it = [s \in SUBSET S |-> IF s = {} THEN 0 ELSE k[Pick(s)] + it[Rest(s)]]

LEMMA SumsExist ==
  ASSUME NEW S, IsFiniteSet(S), NEW k, \A i \in S : k[i] \in Int
  PROVE  \E it : Sums(k, S, it)
<1> DEFINE Space == [SUBSET S -> Int]
           size == Cardinality(S)
           Step(f) == [s \in SUBSET S |-> IF s = {} THEN 0 ELSE k[Pick(s)] + f[Rest(s)]]
           zero == [s \in SUBSET S |-> 0]
           step == [p \in (1 .. size) \X Space |-> Step(p[2])]
<1>1. \A f \in Space : Step(f) \in Space
  <2> SUFFICES ASSUME NEW f \in Space, NEW s \in SUBSET S, s # {}
               PROVE  k[Pick(s)] + f[Rest(s)] \in Int
    OBVIOUS
  <2>1. Pick(s) \in S /\ Rest(s) \in SUBSET S
    BY RestFacts
  <2> QED BY <2>1
<1>2. size \in Nat /\ zero \in Space
  BY FS_CardinalityType
<1>3. step \in [(1 .. size) \X Space -> Space]
  <2> HIDE DEF Step, Space
  <2> QED BY <1>1
<1>4. \A i \in 1 .. size, f \in Space : step[<<i, f>>] = Step(f)
  <2> HIDE DEF Step, Space
  <2> QED OBVIOUS
<1>5. PICK F \in [0 .. size -> Space] :
        /\ F[0] = zero
        /\ \A i \in 1 .. size : F[i] = step[<<i, F[i - 1]>>]
  <2> HIDE DEF step, Space, size, zero
  <2>1. \E F : ByRecursion(F, size, Space, zero, step)
    BY <1>2, <1>3, Recursion
  <2> QED BY <2>1 DEF ByRecursion
<1> DEFINE it == [s \in SUBSET S |-> F[Cardinality(s)][s]]
<1>6. ASSUME NEW s \in SUBSET S
      PROVE  it[s] = IF s = {} THEN 0 ELSE k[Pick(s)] + it[Rest(s)]
  <2>1. CASE s = {}
    <3>1. Cardinality(s) = 0
      BY <2>1, RestFacts
    <3> QED BY <1>5, <2>1, <3>1
  <2>2. CASE s # {}
    <3>1. /\ Cardinality(s) \in 1 .. size /\ Rest(s) \in SUBSET S
          /\ Cardinality(Rest(s)) = Cardinality(s) - 1
      BY <1>2, <2>2, RestFacts
    <3> DEFINE c == Cardinality(s)
    <3>2. F[c] = step[<<c, F[c - 1]>>] /\ F[c - 1] \in Space
      <4> HIDE DEF step, Space, size
      <4> QED BY <1>2, <1>5, <3>1
    <3>3. F[c] = Step(F[c - 1])
      <4> HIDE DEF step, Space, size, Step
      <4> QED BY <1>4, <3>1, <3>2
    <3>4. F[c][s] = k[Pick(s)] + F[c - 1][Rest(s)]
      BY <2>2, <3>3
    <3>5. it[s] = F[c][s] /\ it[Rest(s)] = F[c - 1][Rest(s)]
      BY <3>1
    <3> QED BY <2>2, <3>4, <3>5
  <2> QED BY <2>1, <2>2
<1>7. it = [s \in SUBSET S |-> it[s]]
  OBVIOUS
<1>8. Sums(k, S, it)
  <2> HIDE DEF it
  <2> QED BY <1>6, <1>7 DEF Sums
<1> QED BY <1>8

LEMMA SumsType ==
  ASSUME NEW S, IsFiniteSet(S), NEW k, \A i \in S : k[i] \in Int,
         NEW it, Sums(k, S, it)
  PROVE  it[S] \in Int
<1> DEFINE T == {c \in Nat : \E s \in SUBSET S : Cardinality(s) = c /\ it[s] \notin Int}
<1>1. T = {}
  <2>1. SUFFICES ASSUME T # {} PROVE FALSE
    OBVIOUS
  <2>2. PICK c \in T : \A d \in Nat : d < c => d \notin T
    <3>1. T \in SUBSET Nat
      OBVIOUS
    <3> HIDE DEF T
    <3> QED BY <2>1, <3>1, LeastNatural
  <2>3. PICK s \in SUBSET S : Cardinality(s) = c /\ it[s] \notin Int
    BY <2>2
  <2>4. it[s] = IF s = {} THEN 0 ELSE k[Pick(s)] + it[Rest(s)]
    BY DEF Sums
  <2>5. s # {}
    BY <2>3, <2>4
  <2>6. /\ Pick(s) \in S /\ Rest(s) \in SUBSET S
        /\ Cardinality(Rest(s)) = c - 1 /\ c - 1 \in Nat
    BY <2>2, <2>3, <2>5, RestFacts
  <2>7. it[Rest(s)] \in Int
    BY <2>2, <2>6
  <2> QED BY <2>3, <2>4, <2>5, <2>6, <2>7
<1>2. Cardinality(S) \in Nat
  BY FS_CardinalityType
<1> QED BY <1>1, <1>2

\* The mean key of a block is an integer.
LEMMA MeanKeyType ==
  ASSUME NEW t \in Nat, t > 0, NEW k \in [0 .. t - 1 -> Int], NEW b \in BlockIds(t)
  PROVE  MeanKey(k, b) \in Int
<1> DEFINE S == BlockTokens(b, t)
           sum == CHOOSE it : Sums(k, S, it)
<1>1. Tokens(k) = t
  BY TokensFacts
<1>2. S \subseteq 0 .. t - 1 /\ b * RBS \in S
  BY BlockFacts DEF BlockTokens
<1>3. IsFiniteSet(S) /\ Cardinality(S) \in Nat /\ Cardinality(S) > 0
  <2>1. IsFiniteSet(0 .. t - 1)
    BY FS_Interval
  <2>2. IsFiniteSet(S)
    BY <1>2, <2>1, FS_Subset
  <2> QED BY <1>2, <2>2, FS_CardinalityType, FS_EmptySet
<1>4. \A i \in S : k[i] \in Int
  BY <1>2
<1>5. MeanKey(k, b) = sum[S] \div Cardinality(S)
  BY <1>1 DEF MeanKey, MapThenSumSet, MapThenFoldSet, Sums, Pick, Rest
<1> HIDE DEF S
<1>6. Sums(k, S, sum)
  BY <1>3, <1>4, SumsExist
<1> HIDE DEF sum
<1>7. sum[S] \in Int
  BY <1>3, <1>4, <1>6, SumsType
<1> QED BY <1>3, <1>5, <1>7

-----------------------------------------------------------------------------
(* Representatives *)

\* How far token i is from the nearest of the chosen ones.
Gap(k, i, chosen) == Min({Square(k[i] - k[j]) : j \in chosen})

\* The token that FarthestPointReps begins with, and the one it goes on with.
FirstRep(k, b, tokens) ==
  ByCost(tokens, [i \in tokens |-> Square(k[i] - MeanKey(k, b))])[1]

NextRep(k, tokens, chosen) ==
  ByCost(tokens \ chosen, [i \in tokens \ chosen |-> - Gap(k, i, chosen)])[1]

LEMMA GapType ==
  ASSUME NEW t \in Nat, NEW k \in [0 .. t - 1 -> Int],
         NEW chosen \in SUBSET (0 .. t - 1), chosen # {}, NEW i \in 0 .. t - 1
  PROVE  Gap(k, i, chosen) \in Int
<1> DEFINE f == [j \in 0 .. t - 1 |-> - Square(k[i] - k[j])]
           S == {Square(k[i] - k[j]) : j \in chosen}
<1>1. \A x \in Int : Square(x) \in Int
  BY DEF Square
<1>2. \A j \in 0 .. t - 1 : Square(k[i] - k[j]) \in Int
  BY <1>1
<1>3. f \in [0 .. t - 1 -> Int]
  BY <1>2
<1>4. PICK b \in chosen : \A c \in chosen : f[b] >= f[c]
  <2> HIDE DEF f
  <2> QED BY <1>3, FiniteMaximum
<1>5. \A c \in chosen : Square(k[i] - k[b]) <= Square(k[i] - k[c])
  <2>1. \A j \in chosen : f[j] = - Square(k[i] - k[j]) /\ Square(k[i] - k[j]) \in Int
    BY <1>2
  <2> HIDE DEF f
  <2> QED BY <1>4, <2>1
<1>6. S \subseteq Int /\ \E x \in S : \A y \in S : x <= y
  BY <1>2, <1>5
<1>7. Min(S) \in S
  <2> HIDE DEF S
  <2> QED BY <1>6, Zenon DEF Min
<1> QED BY <1>6, <1>7 DEF Gap

\* The members of the chain r of sets of tokens, in which each set has one more.
LEMMA ChainFacts ==
  ASSUME NEW tokens, IsFiniteSet(tokens), NEW first \in tokens,
         NEW m \in Nat, m > 0, NEW r, NEW far,
         \A c \in SUBSET tokens : c # {} /\ c # tokens => far[c] \in tokens,
         r[1] = {first},
         \A n \in 2 .. m :
           r[n - 1] \in SUBSET tokens /\ r[n - 1] # {} /\ r[n - 1] # tokens =>
             r[n] = r[n - 1] \cup {far[r[n - 1]]},
         m <= Cardinality(tokens)
  PROVE  \A n \in 1 .. m : /\ r[n] \in SUBSET tokens /\ r[n] # {}
                           /\ Cardinality(r[n]) <= n
<1> DEFINE Good(n) == /\ r[n] \in SUBSET tokens /\ r[n] # {}
                      /\ Cardinality(r[n]) <= n
           T == {n \in 1 .. m : ~Good(n)}
<1>1. Good(1)
  <2>1. Cardinality({first}) = 1
    BY FS_Singleton
  <2> QED BY <2>1
<1>2. ASSUME NEW n \in 2 .. m, Good(n - 1)
      PROVE  Good(n)
  <2>1. /\ r[n - 1] \in SUBSET tokens /\ r[n - 1] # {}
        /\ Cardinality(r[n - 1]) <= n - 1
    BY <1>2
  <2>2. IsFiniteSet(r[n - 1]) /\ Cardinality(r[n - 1]) \in Nat
    BY <2>1, FS_Subset, FS_CardinalityType
  <2>3. r[n - 1] # tokens
    BY <2>1, <2>2
  <2>4. r[n] = r[n - 1] \cup {far[r[n - 1]]} /\ far[r[n - 1]] \in tokens
    BY <2>1, <2>3
  <2>5. \A A, x : IsFiniteSet(A) /\ Cardinality(A) \in Nat =>
          Cardinality(A \cup {x}) <= Cardinality(A) + 1
    <3> SUFFICES ASSUME NEW A, NEW x, IsFiniteSet(A), Cardinality(A) \in Nat
                 PROVE  Cardinality(A \cup {x}) <= Cardinality(A) + 1
      OBVIOUS
    <3>1. Cardinality(A \cup {x}) = IF x \in A THEN Cardinality(A) ELSE Cardinality(A) + 1
      BY FS_AddElement
    <3> QED BY <3>1
  <2>6. Cardinality(r[n]) <= Cardinality(r[n - 1]) + 1
    BY <2>2, <2>4, <2>5
  <2>7. Cardinality(r[n]) \in Nat
    <3>1. r[n] \in SUBSET tokens
      BY <2>1, <2>4
    <3> QED BY <3>1, FS_Subset, FS_CardinalityType
  <2>8. r[n] \in SUBSET tokens /\ r[n] # {}
    BY <2>1, <2>4
  <2>9. Cardinality(r[n]) <= n
    BY <2>1, <2>2, <2>6, <2>7
  <2> QED BY <2>8, <2>9
<1> HIDE DEF Good
<1>3. T = {}
  <2>1. SUFFICES ASSUME T # {} PROVE FALSE
    OBVIOUS
  <2>2. PICK n \in T : \A d \in Nat : d < n => d \notin T
    <3>1. T \in SUBSET Nat
      OBVIOUS
    <3> HIDE DEF T
    <3> QED BY <2>1, <3>1, LeastNatural
  <2>3. n \in 2 .. m /\ ~Good(n)
    BY <1>1
  <2>4. n - 1 \in Nat /\ n - 1 < n /\ n - 1 \in 1 .. m
    BY <2>3
  <2>5. Good(n - 1)
    BY <2>2, <2>4
  <2> QED BY <1>2, <2>3, <2>5
<1>4. \A n \in 1 .. m : Good(n)
  BY <1>3
<1> QED BY <1>4 DEF Good

\* The equation of the sets that FarthestPointReps goes through.
Chain(k, b, tokens, m, r) ==
  r = [n \in 1 .. m |->
         IF n = 1 THEN {FirstRep(k, b, tokens)}
         ELSE r[n - 1] \cup {NextRep(k, tokens, r[n - 1])}]

LEMMA RepsFacts ==
  ASSUME NEW t \in Nat, t > 0, NEW k \in [0 .. t - 1 -> Int], NEW b \in BlockIds(t)
  PROVE  /\ FarthestPointReps(k, b) \in SUBSET (0 .. t - 1)
         /\ FarthestPointReps(k, b) # {}
<1> DEFINE tokens == BlockTokens(b, t)
           m == Min({Representatives, Cardinality(tokens)})
           grown == CHOOSE r : Chain(k, b, tokens, m, r)
           first == FirstRep(k, b, tokens)
           far == [c \in SUBSET tokens |-> NextRep(k, tokens, c)]
<1>1. Tokens(k) = t
  BY TokensFacts
<1>2. FarthestPointReps(k, b) = grown[m]
  BY <1>1 DEF FarthestPointReps, Chain, FirstRep, NextRep, Gap
<1>3. /\ tokens \in SUBSET (0 .. t - 1) /\ tokens # {} /\ tokens \subseteq Int
      /\ IsFiniteSet(tokens) /\ Cardinality(tokens) \in Nat /\ Cardinality(tokens) > 0
  <2>1. tokens \in SUBSET (0 .. t - 1) /\ b * RBS \in tokens
    BY BlockFacts DEF BlockTokens
  <2>2. IsFiniteSet(0 .. t - 1)
    BY FS_Interval
  <2>3. IsFiniteSet(tokens)
    BY <2>1, <2>2, FS_Subset
  <2> HIDE DEF tokens
  <2> QED BY <2>1, <2>3, FS_CardinalityType, FS_EmptySet
<1> HIDE DEF tokens
<1>4. m \in Nat /\ m > 0 /\ m <= Cardinality(tokens)
  <2> DEFINE two == {Representatives, Cardinality(tokens)}
  <2>1. \E x \in two : \A y \in two : x <= y
    BY <1>3, SizesNat
  <2>2. Min(two) \in two /\ \A y \in two : Min(two) <= y
    <3> HIDE DEF two
    <3> QED BY <2>1, Zenon DEF Min
  <2> QED BY <1>3, <2>2, SizesNat
<1> HIDE DEF m
<1>5. first \in tokens
  <2>1. \A i \in tokens : Square(k[i] - MeanKey(k, b)) \in Int
    <3>1. MeanKey(k, b) \in Int
      BY MeanKeyType
    <3> QED BY <1>3, <3>1 DEF Square
  <2>2. [i \in tokens |-> Square(k[i] - MeanKey(k, b))] \in [tokens -> Int]
    BY <2>1
  <2> QED BY <1>3, <2>2, ByCostFacts DEF FirstRep
<1>6. \A c \in SUBSET tokens : c # {} /\ c # tokens => far[c] \in tokens
  <2> SUFFICES ASSUME NEW c \in SUBSET tokens, c # {}, c # tokens
               PROVE  NextRep(k, tokens, c) \in tokens \ c
    OBVIOUS
  <2> DEFINE S == tokens \ c
             cost == [i \in S |-> - Gap(k, i, c)]
  <2>1. S # {} /\ S \subseteq Int /\ IsFiniteSet(S)
    BY <1>3, FS_Subset
  <2>2. \A i \in S : Gap(k, i, c) \in Int
    BY <1>3, GapType
  <2>3. cost \in [S -> Int]
    BY <2>2
  <2> HIDE DEF S, cost
  <2>4. ByCost(S, cost)[1] \in S
    BY <2>1, <2>3, ByCostFacts
  <2> QED BY <2>4 DEF S, cost, NextRep
<1>7. \E r : Chain(k, b, tokens, m, r)
  <2> HIDE DEF far, first
  <2> DEFINE Space == SUBSET tokens
             step == [p \in (1 .. m) \X Space |->
                        IF p[1] = 1 THEN {first}
                        ELSE IF p[2] # {} /\ p[2] # tokens THEN p[2] \cup {far[p[2]]}
                        ELSE p[2]]
  <2>1. step \in [(1 .. m) \X Space -> Space]
    <3> QED BY <1>5, <1>6
  <2>2. {} \in Space
    OBVIOUS
  <2>3. \A n \in 1 .. m, c \in Space :
          step[<<n, c>>] = IF n = 1 THEN {first}
                           ELSE IF c # {} /\ c # tokens THEN c \cup {far[c]} ELSE c
    OBVIOUS
  <2> HIDE DEF step, Space
  <2>4. PICK F : ByRecursion(F, m, Space, {}, step)
    BY <1>4, <2>1, <2>2, Recursion
  <2> DEFINE r == [n \in 1 .. m |-> F[n]]
  <2>5. \A n \in 1 .. m : /\ F[n] = step[<<n, F[n - 1]>>] /\ F[n - 1] \in Space
                          /\ r[n] = F[n]
    BY <1>4, <2>4 DEF ByRecursion
  <2>6. 1 \in 1 .. m /\ r[1] = {first}
    <3>1. 1 \in 1 .. m
      BY <1>4
    <3> HIDE DEF r
    <3> QED BY <2>3, <2>5, <3>1
  <2>7. ASSUME NEW n \in 2 .. m
        PROVE  /\ r[n - 1] = F[n - 1] /\ r[n] = step[<<n, r[n - 1]>>]
               /\ r[n - 1] \in Space /\ n \in 1 .. m /\ n # 1
    BY <1>4, <2>5
  <2> HIDE DEF r
  <2>8. \A n \in 2 .. m :
          r[n - 1] \in SUBSET tokens /\ r[n - 1] # {} /\ r[n - 1] # tokens =>
            r[n] = r[n - 1] \cup {far[r[n - 1]]}
    <3> SUFFICES ASSUME NEW n \in 2 .. m, r[n - 1] # {}, r[n - 1] # tokens
                 PROVE  r[n] = r[n - 1] \cup {far[r[n - 1]]}
      OBVIOUS
    <3>1. r[n] = step[<<n, r[n - 1]>>] /\ r[n - 1] \in Space /\ n \in 1 .. m /\ n # 1
      BY <2>7
    <3> QED BY <2>3, <3>1
  <2>9. \A n \in 1 .. m : /\ r[n] \in SUBSET tokens /\ r[n] # {}
                          /\ Cardinality(r[n]) <= n
    <3>1. r[1] = {first}
      BY <2>6
    <3> QED BY ONLY <1>3, <1>4, <1>5, <1>6, <3>1, <2>8, ChainFacts
  <2>10. ASSUME NEW n \in 2 .. m
         PROVE  r[n] = r[n - 1] \cup {NextRep(k, tokens, r[n - 1])}
    <3>1. n - 1 \in 1 .. m /\ n - 1 < m
      BY <1>4
    <3>2. /\ r[n - 1] \in SUBSET tokens /\ r[n - 1] # {}
          /\ Cardinality(r[n - 1]) <= n - 1
      BY <2>9, <3>1
    <3>3. r[n - 1] # tokens
      BY <1>3, <1>4, <3>1, <3>2
    <3>4. far[r[n - 1]] = NextRep(k, tokens, r[n - 1])
      BY <3>2 DEF far
    <3> QED BY <2>8, <3>2, <3>3, <3>4
  <2>11. r = [n \in 1 .. m |-> r[n]]
    BY DEF r
  <2>12. \A n \in 1 .. m :
           r[n] = IF n = 1 THEN {FirstRep(k, b, tokens)}
                  ELSE r[n - 1] \cup {NextRep(k, tokens, r[n - 1])}
    <3>1. \A n \in 1 .. m : n = 1 \/ n \in 2 .. m
      BY <1>4
    <3> QED BY <2>6, <2>10, <3>1 DEF first
  <2>13. Chain(k, b, tokens, m, r)
    BY ONLY <2>11, <2>12 DEF Chain
  <2> QED BY <2>13
<1>8. Chain(k, b, tokens, m, grown)
  BY <1>7
<1> HIDE DEF grown
<1>9. \A n \in 1 .. m :
        grown[n] = IF n = 1 THEN {first} ELSE grown[n - 1] \cup {NextRep(k, tokens, grown[n - 1])}
  BY <1>8 DEF Chain
<1>a. \A c \in SUBSET tokens : far[c] = NextRep(k, tokens, c)
  OBVIOUS
<1> HIDE DEF far, first
<1>10. \A n \in 2 .. m :
         grown[n - 1] \in SUBSET tokens /\ grown[n - 1] # {} /\ grown[n - 1] # tokens =>
           grown[n] = grown[n - 1] \cup {far[grown[n - 1]]}
  <2>1. \A n \in 2 .. m : n \in 1 .. m /\ n # 1
    BY <1>4
  <2> QED BY <1>9, <1>a, <2>1
<1>11. grown[1] = {first}
  <2>1. 1 \in 1 .. m
    BY <1>4
  <2> QED BY <1>9, <2>1
<1>12. grown[m] \in SUBSET tokens /\ grown[m] # {}
  <2>1. \A n \in 1 .. m : /\ grown[n] \in SUBSET tokens /\ grown[n] # {}
                          /\ Cardinality(grown[n]) <= n
    BY <1>3, <1>4, <1>5, <1>6, <1>10, <1>11, ChainFacts
  <2> QED BY <1>4, <2>1
<1> QED BY <1>2, <1>3, <1>12

-----------------------------------------------------------------------------
(* Graphs *)

\* The representatives of frozen keys.
LEMMA FrozenReps ==
  ASSUME NEW t \in Nat, t > 0, NEW k \in [0 .. t - 1 -> Int]
  PROVE  Frozen(k, BlockReps(k), t)
<1>1. Tokens(k) = t
  BY TokensFacts
<1>2. BlockReps(k) = [b \in BlockIds(t) |-> FarthestPointReps(k, b)]
  BY <1>1 DEF BlockReps
<1>3. \A b \in BlockIds(t) : /\ FarthestPointReps(k, b) \in SUBSET (0 .. t - 1)
                             /\ FarthestPointReps(k, b) # {}
  BY RepsFacts
<1> QED BY <1>2, <1>3 DEF Frozen

LEMMA SimilarityType ==
  ASSUME NEW t \in Nat, NEW k, NEW chosen, Frozen(k, chosen, t),
         NEW a \in BlockIds(t), NEW b \in BlockIds(t)
  PROVE  Similarity(k, chosen, a, b) \in Int
<1> DEFINE A == chosen[a]
           B == chosen[b]
           row(i) == [j \in 0 .. t - 1 |-> k[i] * k[j]]
           top == [i \in 0 .. t - 1 |-> Max({row(i)[j] : j \in B})]
           S == {k[i] * k[j] : i \in A, j \in B}
<1>1. /\ k \in [0 .. t - 1 -> Int]
      /\ A \in SUBSET (0 .. t - 1) /\ B \in SUBSET (0 .. t - 1) /\ A # {} /\ B # {}
  BY DEF Frozen
<1> HIDE DEF A, B
<1>2. \A i, j \in 0 .. t - 1 : row(i)[j] = k[i] * k[j] /\ k[i] * k[j] \in Int
  BY <1>1
<1>3. ASSUME NEW i \in 0 .. t - 1
      PROVE  /\ top[i] \in Int
             /\ \E j \in B : top[i] = k[i] * k[j]
             /\ \A j \in B : top[i] >= k[i] * k[j]
  <2>1. row(i) \in [0 .. t - 1 -> Int]
    BY <1>1
  <2>2. top[i] = Max({row(i)[j] : j \in B})
    OBVIOUS
  <2> HIDE DEF row, top
  <2>3. /\ top[i] \in Int /\ top[i] \in {row(i)[j] : j \in B}
        /\ \A j \in B : top[i] >= row(i)[j]
    BY ONLY <1>1, <2>1, <2>2, MaxOver, t \in Nat
  <2> QED BY <1>1, <1>2, <2>3
<1>4. top \in [0 .. t - 1 -> Int]
  <2>1. top = [i \in 0 .. t - 1 |-> top[i]]
    OBVIOUS
  <2> HIDE DEF top
  <2> QED BY <1>3, <2>1
<1> HIDE DEF top
<1>5. PICK i \in A : \A c \in A : top[i] >= top[c]
  BY <1>1, <1>4, FiniteMaximum
<1>6. PICK j \in B : top[i] = k[i] * k[j]
  BY <1>1, <1>3
<1>7. k[i] * k[j] \in S
  BY <1>1
<1>8. \A y \in S : k[i] * k[j] >= y
  <2> SUFFICES ASSUME NEW c \in A, NEW d \in B
               PROVE  k[i] * k[j] >= k[c] * k[d]
    OBVIOUS
  <2>1. top[c] >= k[c] * k[d] /\ top[i] >= top[c]
    BY <1>1, <1>3, <1>5
  <2>2. top[c] \in Int /\ top[i] \in Int /\ k[c] * k[d] \in Int
    BY <1>1, <1>2, <1>3
  <2> QED BY <1>6, <2>1, <2>2
<1>9. Max(S) \in S
  <2> HIDE DEF S
  <2> QED BY <1>7, <1>8, MaxIs
<1>10. S \subseteq Int
  BY <1>1, <1>2
<1> QED BY <1>9, <1>10 DEF Similarity, A, B

LEMMA KnnGraphType ==
  ASSUME NEW t \in Nat, t > 0, NEW k, NEW chosen, Frozen(k, chosen, t)
  PROVE  KnnGraph(k, chosen) \in [BlockIds(t) -> Seq(BlockIds(t))]
<1>1. DOMAIN chosen = BlockIds(t)
  BY DEF Frozen
<1>2. IsFiniteSet(BlockIds(t)) /\ BlockIds(t) \subseteq Int
  BY BlockCount, BlockFacts
<1>3. ASSUME NEW a \in BlockIds(t)
      PROVE  FirstOf(ByCost(BlockIds(t) \ {a},
                            [b \in BlockIds(t) \ {a} |-> - Similarity(k, chosen, a, b)]),
                     Degree) \in Seq(BlockIds(t))
  <2> DEFINE S == BlockIds(t) \ {a}
             cost == [b \in S |-> - Similarity(k, chosen, a, b)]
  <2>1. S \subseteq Int /\ IsFiniteSet(S) /\ S \subseteq BlockIds(t)
    BY <1>2, FS_Subset
  <2>2. \A b \in S : Similarity(k, chosen, a, b) \in Int
    BY SimilarityType
  <2>3. cost \in [S -> Int]
    BY <2>2
  <2>4. ByCost(S, cost) \in Seq(S)
    <3> HIDE DEF S, cost
    <3> QED BY <2>1, <2>3, ByCostFacts
  <2>5. FirstOf(ByCost(S, cost), Degree) \in Seq(S)
    <3> HIDE DEF S, cost
    <3> QED BY <2>4, FirstOfType, SizesNat
  <2>6. FirstOf(ByCost(S, cost), Degree) \in Seq(BlockIds(t))
    <3> HIDE DEF S, cost
    <3> QED BY <2>1, <2>5, SeqWithin
  <2> QED BY <2>6
<1> QED BY <1>1, <1>3 DEF KnnGraph

\* The graph that sampled queries guide has the blocks of the KNN graph.
LEMMA QueryGuidedType ==
  ASSUME NEW t \in Nat, t > 0, NEW knn \in [BlockIds(t) -> Seq(BlockIds(t))],
         NEW projection, IsFiniteSet(DOMAIN projection)
  PROVE  QueryGuidedGraph(knn, projection) \in [BlockIds(t) -> Seq(BlockIds(t))]
<1> DEFINE weight(a, b) == Cardinality({s \in DOMAIN projection : {a, b} \subseteq projection[s]})
           partners(a) == {b \in BlockIds(t) \ {a} : weight(a, b) > 0}
           cost(a) == [b \in partners(a) |-> - weight(a, b)]
           guided(a) == FirstOf(ByCost(partners(a), cost(a)), Degree)
           more(a) == Max({0, Degree - Len(guided(a))})
           list(a) == guided(a) \o FirstOf(Fill(knn[a], guided(a)), more(a))
<1>1. IsFiniteSet(BlockIds(t)) /\ BlockIds(t) \subseteq Int
  BY BlockCount, BlockFacts
<1>2. \A a, b : weight(a, b) \in Nat
  <2> SUFFICES ASSUME NEW a, NEW b PROVE weight(a, b) \in Nat
    OBVIOUS
  <2>1. {s \in DOMAIN projection : {a, b} \subseteq projection[s]} \in SUBSET (DOMAIN projection)
    OBVIOUS
  <2> QED BY <2>1, FS_Subset, FS_CardinalityType
<1> HIDE DEF weight
<1>3. ASSUME NEW a \in BlockIds(t)
      PROVE  list(a) \in Seq(BlockIds(t))
  <2>1. /\ partners(a) \subseteq BlockIds(t) /\ partners(a) \subseteq Int
        /\ IsFiniteSet(partners(a))
    <3>1. partners(a) \subseteq BlockIds(t)
      OBVIOUS
    <3> HIDE DEF partners
    <3> QED BY <1>1, <3>1, FS_Subset
  <2>2. cost(a) \in [partners(a) -> Int]
    BY <1>2
  <2> HIDE DEF partners, cost
  <2>3. ByCost(partners(a), cost(a)) \in Seq(BlockIds(t))
    <3>1. ByCost(partners(a), cost(a)) \in Seq(partners(a))
      BY <2>1, <2>2, ByCostFacts
    <3> QED BY <2>1, <3>1
  <2>4. guided(a) \in Seq(BlockIds(t))
    BY <2>3, FirstOfType, SizesNat
  <2> HIDE DEF guided
  <2>5. more(a) \in Nat
    <3> DEFINE two == {0, Degree - Len(guided(a))}
    <3>1. Len(guided(a)) \in Nat
      BY <2>4
    <3>2. two \subseteq Int /\ \E x \in two : \A y \in two : x >= y
      BY <3>1, SizesNat
    <3>3. Max(two) \in two /\ \A y \in two : Max(two) >= y
      <4> HIDE DEF two
      <4> QED BY <3>2, MaxIs
    <3> QED BY <3>2, <3>3
  <2> HIDE DEF more
  <2>6. Fill(knn[a], guided(a)) \in Seq(BlockIds(t))
    BY FillType
  <2>7. FirstOf(Fill(knn[a], guided(a)), more(a)) \in Seq(BlockIds(t))
    BY <2>5, <2>6, FirstOfType
  <2> QED BY <2>4, <2>7
<1>4. QueryGuidedGraph(knn, projection) = [a \in BlockIds(t) |-> list(a)]
  BY DEF QueryGuidedGraph, weight
<1> HIDE DEF list
<1> QED BY <1>3, <1>4

\* What prefill builds when the selector needs a graph.
LEMMA BuiltGraphType ==
  ASSUME NEW t \in Nat, t > 1, Frozen(reps.keys, reps.chosen, t),
         sequence \in Seq(Vocabulary), Len(sequence) = t,
         NeedsGraph(selector), NEW g \in BuiltGraphs
  PROVE  /\ g.of = reps
         /\ g.adj \in [BlockIds(t) -> Seq(BlockIds(t))]
<1> DEFINE knn == KnnGraph(reps.keys, reps.chosen)
           queries == SampledQueries(sequence)
<1>1. knn \in [BlockIds(t) -> Seq(BlockIds(t))]
  BY KnnGraphType
<1>2. IsFiniteSet(Samples(t))
  <2> DEFINE n == Min({QuerySamples, t - 1})
             f == [i \in 0 .. n - 1 |-> Rounded(i * (t - 2), n - 1)]
             S == {Rounded(i * (t - 2), n - 1) : i \in 0 .. n - 1}
  <2>1. n \in Nat
    <3> DEFINE two == {QuerySamples, t - 1}
    <3>1. two \subseteq Nat /\ \E x \in two : \A y \in two : x <= y
      BY SizesNat
    <3>2. Min(two) \in two
      <4> HIDE DEF two
      <4> QED BY <3>1, Zenon DEF Min
    <3> QED BY <3>1, <3>2
  <2>2. f \in Surjection(0 .. n - 1, S)
    BY DEF Surjection
  <2>3. \A m \in Nat : IsFiniteSet(0 .. m - 1)
    BY FS_Interval
  <2>4. IsFiniteSet(S)
    <3> HIDE DEF n, f, S
    <3> QED BY <2>1, <2>2, <2>3, FS_Surjection
  <2>5. Samples(t) = IF n = 1 THEN {0} ELSE S
    BY DEF Samples
  <2> HIDE DEF n, S
  <2> QED BY <2>4, <2>5, FS_Singleton
<1>3. DOMAIN queries = Samples(t) \X Heads
  BY DEF SampledQueries
<1>4. IsFiniteSet(DOMAIN queries)
  <2>1. IsFiniteSet(Heads)
    BY FS_Interval, SizesNat DEF Heads
  <2> QED BY <1>2, <1>3, <2>1, FS_Product
<1> HIDE DEF knn, queries
<1>5. CASE selector = "knn_graph"
  <2>1. g = [of |-> reps, adj |-> knn]
    BY <1>5 DEF BuiltGraphs, NeedsGraph, GraphSelectors, knn
  <2> QED BY <1>1, <2>1
<1>6. CASE selector # "knn_graph"
  <2>1. PICK projection \in Projections(reps.keys, reps.chosen, queries) :
          g = [of |-> reps, adj |-> QueryGuidedGraph(knn, projection)]
    BY <1>6 DEF BuiltGraphs, NeedsGraph, GraphSelectors, knn, queries
  <2>2. DOMAIN projection = DOMAIN queries
    BY DEF Projections, OneOfEach
  <2>3. QueryGuidedGraph(knn, projection) \in [BlockIds(t) -> Seq(BlockIds(t))]
    BY <1>1, <1>4, <2>2, QueryGuidedType
  <2> QED BY <2>1, <2>3
<1> QED BY <1>5, <1>6

-----------------------------------------------------------------------------
(* The invariant of the engine *)

Working == {"index", "running", "select", "search", "gather"}

M11Types ==
  /\ DOMAIN rows = 0 .. Capacity - 1
  /\ {validLen, prefillLen, promptLen, req, switches, recent} \subseteq Nat
  /\ sequence \in Seq(Vocabulary)
  /\ pc \in Working \cup {"idle", "raised"}

\* The first validLen rows are the running request's own tokens.
HistoryOwn ==
  pc # "raised" =>
    /\ validLen <= Capacity /\ validLen <= Len(sequence)
    /\ \A i \in 0 .. validLen - 1 :
         rows[i] = [req |-> req, pos |-> i, token |-> sequence[i + 1]]

\* A request that runs has at least two prompt tokens and may get one more
\* token; the last token that was sampled is not yet in the history.
LengthsRight ==
  /\ pc \in Working =>
       /\ prefillLen = promptLen /\ promptLen > 1 /\ promptLen <= validLen
       /\ Len(sequence) < promptLen + MaxTokens
       /\ Len(sequence) = IF pc = "running" THEN validLen + 1 ELSE validLen
       /\ req > 0
  /\ pc = "index" => validLen = promptLen
  /\ pc = "idle" /\ attended # {} => Len(sequence) = validLen + 1

\* What is frozen is the prompt of the request that runs.
FrozenRight ==
  pc \in Working =>
    /\ reps.req = req
    /\ reps.keys = [i \in 0 .. prefillLen - 1 |-> Key[sequence[i + 1]]]
    /\ Frozen(reps.keys, reps.chosen, prefillLen)

GraphOf(g) ==
  LET t == Tokens(g.of.keys)
  IN  /\ t \in Nat /\ t > 0
      /\ Frozen(g.of.keys, g.of.chosen, t)
      /\ g.adj \in [BlockIds(t) -> Seq(BlockIds(t))]

\* A graph that exists is a graph over frozen keys, and over those of the
\* request that runs as long as nobody changes the selector.
GraphRight ==
  /\ graph = NoGraph \/ GraphOf(graph)
  /\ pc \in Working \ {"index"} /\ switches = 0 /\ selector \in GraphSelectors =>
       graph.of = reps /\ DOMAIN graph.adj = BlockIds(prefillLen)

\* A search is one of the graph at hand, for a query head.
SearchRight ==
  /\ pc \notin {"gather", "raised"} => head \in Heads
  /\ pc = "search" =>
       /\ selector \in GraphSelectors /\ graph # NoGraph
       /\ index.n = Cardinality(DOMAIN graph.adj)

\* Token i is within beta of the best for query head h.
Critical(h, i) ==
  \A j \in DOMAIN CurrentKeys :
    CurrentQuery[h] * CurrentKeys[i] >= CurrentQuery[h] * CurrentKeys[j] - Beta

\* The exact selector found the block of every critical token.
UnionRight ==
  /\ pc \in {"select", "search", "gather"} => mode = selector
  /\ pc = "gather" /\ mode = "exact_dipr" =>
       \A h \in Heads, i \in DOMAIN CurrentKeys :
         Critical(h, i) => i \div RBS \in union

AttendedRight ==
  /\ pc = "index" => attended = {}
  /\ GathersOwnRows
  /\ CriticalCovered

ErrorRight ==
  /\ pc # "raised" => error = "none"
  /\ RaisesOnlyAvoidably

M11State ==
  /\ M11Types /\ HistoryOwn /\ LengthsRight /\ FrozenRight /\ GraphRight
  /\ SearchRight /\ UnionRight /\ AttendedRight /\ ErrorRight

M11Inv == SearchInv /\ M11State

-----------------------------------------------------------------------------
(* Steps *)

LEMMA TypesFacts ==
  ASSUME M11Types
  PROVE  /\ DOMAIN rows = 0 .. Capacity - 1
         /\ validLen \in Nat /\ prefillLen \in Nat /\ promptLen \in Nat /\ req \in Nat
         /\ switches \in Nat /\ recent \in Nat
         /\ sequence \in Seq(Vocabulary) /\ Len(sequence) \in Nat
         /\ pc \in Working \cup {"idle", "raised"}
<1>1. sequence \in Seq(Vocabulary)
  BY DEF M11Types
<1>2. Len(sequence) \in Nat
  BY <1>1
<1> QED BY <1>1, <1>2 DEF M11Types

\* A raise for an avoidable reason.
LEMMA RaiseStep ==
  ASSUME M11State, pc # "raised", NEW what, Raise(what),
         what \in {"no graph", "mask"} => switches > 0,
         what = "window" => recent = 0,
         what = "capacity" => promptLen + MaxTokens > Capacity + 1,
         UNCHANGED <<rows, validLen, prefillLen, reps, graph, selector, recent, req,
                     sequence, promptLen, switches, attended, mode>>
  PROVE  M11State'
<1>1. pc' = "raised" /\ error' = what
  BY DEF Raise
<1>2. M11Types'
  BY <1>1 DEF M11State, M11Types
<1>3. /\ HistoryOwn' /\ LengthsRight' /\ FrozenRight' /\ SearchRight' /\ UnionRight'
      /\ AttendedRight'
  BY <1>1 DEF HistoryOwn, LengthsRight, FrozenRight, SearchRight, UnionRight, Working,
              AttendedRight, GathersOwnRows, CriticalCovered, Answered
<1>4. GraphRight'
  BY <1>1 DEF M11State, GraphRight, Working
<1>5. ErrorRight'
  BY <1>1 DEF ErrorRight, RaisesOnlyAvoidably
<1> QED BY <1>2, <1>3, <1>4, <1>5 DEF M11State

LEMMA EngineInit ==
  ASSUME M11Init
  PROVE  M11Inv
<1>1. SearchInv
  BY SearchIdle DEF M11Init
<1>2. /\ pc = "idle" /\ validLen = 0 /\ attended = {} /\ graph = NoGraph /\ error = "none"
      /\ head = 1 /\ prefillLen = 0 /\ req = 0 /\ sequence = <<>> /\ promptLen = 0
      /\ switches = 0 /\ recent \in Nat /\ DOMAIN rows = 0 .. Capacity - 1
  BY M11Assumption DEF M11Init
<1>3. M11Types
  BY <1>2 DEF M11Types
<1>4. HistoryOwn
  BY <1>2, SizesNat DEF HistoryOwn
<1>5. LengthsRight /\ FrozenRight /\ GraphRight /\ UnionRight
  BY <1>2 DEF LengthsRight, FrozenRight, GraphRight, UnionRight, Working
<1>6. SearchRight
  BY <1>2, SizesNat DEF SearchRight, Heads
<1>7. AttendedRight /\ ErrorRight
  BY <1>2 DEF AttendedRight, GathersOwnRows, CriticalCovered, Answered, ErrorRight,
              RaisesOnlyAvoidably
<1> QED BY <1>1, <1>3, <1>4, <1>5, <1>6, <1>7 DEF M11Inv, M11State

\* Nothing of the engine changes while a search runs.
LEMMA RunStep ==
  ASSUME M11State, UNCHANGED m11Vars, index' = index
  PROVE  M11State'
<1>1. CurrentKeys' = CurrentKeys /\ CurrentQuery' = CurrentQuery
  BY DEF m11Vars, CurrentKeys, CurrentQuery
<1>2. AttendedRight'
  BY <1>1 DEF M11State, m11Vars, AttendedRight, GathersOwnRows, CriticalCovered, Answered
<1>3. UnionRight'
  BY <1>1 DEF M11State, m11Vars, UnionRight, Critical
<1>4. M11Types' /\ HistoryOwn' /\ LengthsRight' /\ FrozenRight' /\ GraphRight' /\ ErrorRight'
  BY DEF M11State, m11Vars, M11Types, HistoryOwn, LengthsRight, FrozenRight, GraphRight,
         ErrorRight, RaisesOnlyAvoidably
<1>5. SearchRight'
  BY DEF M11State, m11Vars, SearchRight
<1> QED BY <1>2, <1>3, <1>4, <1>5 DEF M11State

LEMMA PrefillStep ==
  ASSUME M11State, NEW p \in Prompts, Prefill(p)
  PROVE  M11State'
<1> DEFINE keys == [i \in 0 .. Len(p) - 1 |-> Key[p[i + 1]]]
<1>1. /\ pc = "idle" /\ Len(p) \in 2 .. Capacity /\ req' = req + 1
      /\ rows' = [i \in DOMAIN rows |->
                    IF i < Len(p) THEN [req |-> req + 1, pos |-> i, token |-> p[i + 1]]
                    ELSE rows[i]]
      /\ validLen' = Len(p) /\ prefillLen' = Len(p) /\ sequence' = p /\ promptLen' = Len(p)
      /\ reps' = [req |-> req + 1, keys |-> keys, chosen |-> BlockReps(keys)]
      /\ switches' = 0 /\ attended' = {} /\ mode' = selector /\ pc' = "index"
      /\ UNCHANGED <<graph, selector, recent, head, union, error>>
  BY DEF Prefill
<1>2. p \in Seq(Vocabulary) /\ Len(p) \in Nat /\ Len(p) > 1 /\ Len(p) <= Capacity
  BY <1>1, M11Assumption
<1>3. /\ DOMAIN rows = 0 .. Capacity - 1 /\ req \in Nat /\ recent \in Nat
  BY TypesFacts DEF M11State
<1>4. M11Types'
  BY <1>1, <1>2, <1>3 DEF M11Types, Working
<1>5. HistoryOwn'
  <2>1. ASSUME NEW i \in 0 .. Len(p) - 1
        PROVE  rows'[i] = [req |-> req + 1, pos |-> i, token |-> p[i + 1]]
    <3>1. i \in DOMAIN rows /\ i < Len(p)
      BY <1>2, <1>3, SizesNat
    <3> QED BY <1>1, <3>1
  <2>2. \A i \in 0 .. validLen' - 1 :
          rows'[i] = [req |-> req', pos |-> i, token |-> sequence'[i + 1]]
    BY <1>1, <2>1
  <2>3. validLen' <= Capacity /\ validLen' <= Len(sequence')
    BY <1>1, <1>2
  <2> QED BY <2>2, <2>3 DEF HistoryOwn
<1>6. LengthsRight'
  BY <1>1, <1>2, <1>3, SizesNat DEF LengthsRight
<1>7. FrozenRight'
  <2>1. keys \in [0 .. Len(p) - 1 -> Int]
    <3>1. \A i \in 0 .. Len(p) - 1 : p[i + 1] \in Vocabulary
      BY <1>2
    <3> QED BY <3>1, M11Assumption
  <2>2. Frozen(keys, BlockReps(keys), Len(p))
    <3> HIDE DEF keys
    <3> QED BY <1>2, <2>1, FrozenReps
  <2> QED BY <1>1, <2>2 DEF FrozenRight
<1>8. GraphRight' /\ UnionRight'
  BY <1>1 DEF M11State, GraphRight, UnionRight
<1>9. SearchRight'
  BY <1>1 DEF M11State, SearchRight
<1>10. AttendedRight' /\ ErrorRight'
  BY <1>1 DEF M11State, AttendedRight, GathersOwnRows, CriticalCovered, Answered, ErrorRight,
              RaisesOnlyAvoidably
<1> QED BY <1>4, <1>5, <1>6, <1>7, <1>8, <1>9, <1>10 DEF M11State

\* The next token of the running request.
LEMMA Sampling ==
  ASSUME M11Types, NEW t \in Sampled, sequence' = Append(sequence, t)
  PROVE  /\ sequence' \in Seq(Vocabulary) /\ Len(sequence') = Len(sequence) + 1
         /\ \A i \in 1 .. Len(sequence) : sequence'[i] = sequence[i]
<1>1. t \in Vocabulary /\ sequence \in Seq(Vocabulary)
  BY TypesFacts, M11Assumption
<1> QED BY <1>1

LEMMA BuildIndexStep ==
  ASSUME M11State, BuildIndex
  PROVE  M11State'
<1>1. /\ pc = "index" /\ graph' \in BuiltGraphs /\ pc' \in AfterToken(1)
      /\ UNCHANGED <<rows, validLen, prefillLen, reps, selector, recent, req, promptLen,
                     switches, head, union, attended, mode, error>>
  BY DEF BuildIndex
<1>2. PICK t \in Sampled : sequence' = Append(sequence, t)
  BY DEF BuildIndex
<1>3. M11Types
  BY DEF M11State
<1>4. /\ sequence' \in Seq(Vocabulary) /\ Len(sequence') = Len(sequence) + 1
      /\ \A i \in 1 .. Len(sequence) : sequence'[i] = sequence[i]
  BY <1>2, <1>3, Sampling
<1>5. /\ prefillLen = promptLen /\ promptLen > 1 /\ validLen = promptLen
      /\ Len(sequence) = validLen /\ req > 0 /\ reps.req = req /\ attended = {}
      /\ reps.keys = [i \in 0 .. prefillLen - 1 |-> Key[sequence[i + 1]]]
      /\ Frozen(reps.keys, reps.chosen, prefillLen)
  BY <1>1 DEF M11State, LengthsRight, FrozenRight, AttendedRight, Working
<1>6. /\ pc' = "idle" \/ (pc' = "running" /\ 1 < MaxTokens)
      /\ validLen \in Nat /\ Len(sequence) \in Nat
  BY <1>1, <1>3, TypesFacts DEF AfterToken
<1>7. M11Types'
  BY <1>1, <1>3, <1>4, <1>6 DEF M11Types, Working
<1>8. HistoryOwn'
  <2>1. \A i \in 0 .. validLen - 1 : sequence'[i + 1] = sequence[i + 1]
    BY <1>4, <1>5, <1>6
  <2>2. validLen <= Capacity
        /\ \A i \in 0 .. validLen - 1 :
             rows[i] = [req |-> req, pos |-> i, token |-> sequence[i + 1]]
    BY <1>1 DEF M11State, HistoryOwn
  <2> QED BY <1>1, <1>4, <1>5, <1>6, <2>1, <2>2 DEF HistoryOwn
<1>9. LengthsRight'
  BY <1>1, <1>4, <1>5, <1>6, SizesNat DEF LengthsRight, Working
<1>10. FrozenRight'
  <2>1. \A i \in 0 .. prefillLen - 1 : sequence'[i + 1] = sequence[i + 1]
    BY <1>4, <1>5, <1>6
  <2>2. reps.keys = [i \in 0 .. prefillLen - 1 |-> Key[sequence'[i + 1]]]
    BY <1>5, <2>1
  <2> QED BY <1>1, <1>5, <2>2 DEF FrozenRight
<1>11. GraphRight'
  <2>1. CASE ~NeedsGraph(selector)
    <3>1. graph' = graph /\ selector \notin GraphSelectors
      BY <1>1, <2>1 DEF BuiltGraphs, NeedsGraph
    <3> QED BY <1>1, <3>1 DEF M11State, GraphRight
  <2>2. CASE NeedsGraph(selector)
    <3>1. /\ graph'.of = reps
          /\ graph'.adj \in [BlockIds(prefillLen) -> Seq(BlockIds(prefillLen))]
      <4>1. prefillLen \in Nat /\ prefillLen > 1 /\ Len(sequence) = prefillLen
            /\ sequence \in Seq(Vocabulary)
        BY <1>3, <1>5, TypesFacts
      <4> QED BY <1>1, <1>5, <2>2, <4>1, BuiltGraphType
    <3>2. Tokens(graph'.of.keys) = prefillLen /\ prefillLen \in Nat /\ prefillLen > 0
      <4>1. prefillLen \in Nat /\ DOMAIN reps.keys = 0 .. prefillLen - 1
        BY <1>3, <1>5, TypesFacts
      <4>2. Tokens(reps.keys) = prefillLen
        BY <4>1, TokensFacts
      <4> QED BY <1>5, <3>1, <4>1, <4>2
    <3>3. GraphOf(graph')
      BY <1>5, <3>1, <3>2 DEF GraphOf
    <3> QED BY <1>1, <3>1, <3>3 DEF GraphRight
  <2> QED BY <2>1, <2>2
<1>12. SearchRight' /\ UnionRight'
  BY <1>1, <1>6 DEF M11State, SearchRight, UnionRight
<1>13. AttendedRight' /\ ErrorRight'
  BY <1>1, <1>5, <1>6 DEF M11State, AttendedRight, GathersOwnRows, CriticalCovered, Answered,
                    ErrorRight, RaisesOnlyAvoidably
<1> QED BY <1>7, <1>8, <1>9, <1>10, <1>11, <1>12, <1>13 DEF M11State

\* The rows of the running request are real tokens.
LEMMA KeysType ==
  ASSUME M11Types, HistoryOwn, pc # "raised", validLen > 0
  PROVE  /\ CurrentKeys \in [0 .. validLen - 1 -> Int]
         /\ \A h \in Heads : CurrentQuery[h] \in Int
<1>1. validLen \in Nat /\ sequence \in Seq(Vocabulary) /\ Len(sequence) \in Nat
  BY TypesFacts
<1>2. ASSUME NEW i \in 0 .. validLen - 1
      PROVE  rows[i].token \in Vocabulary
  <2>1. rows[i] = [req |-> req, pos |-> i, token |-> sequence[i + 1]]
    BY DEF HistoryOwn
  <2>2. i + 1 \in 1 .. Len(sequence)
    BY <1>1 DEF HistoryOwn
  <2>3. sequence[i + 1] \in Vocabulary
    BY <1>1, <2>2
  <2> QED BY <2>1, <2>3
<1>3. validLen - 1 \in 0 .. validLen - 1
  BY <1>1
<1>4. CurrentKeys \in [0 .. validLen - 1 -> Int]
  BY <1>2, M11Assumption DEF CurrentKeys
<1>5. CurrentQuery \in [Heads -> Int]
  BY <1>2, <1>3, M11Assumption DEF CurrentQuery, Heads
<1> QED BY <1>4, <1>5

LEMMA DecodeStep ==
  ASSUME M11State, Decode
  PROVE  M11State'
<1>1. /\ pc = "running" /\ validLen + 1 <= Capacity
      /\ rows' = [rows EXCEPT ![validLen] = [req |-> req, pos |-> validLen,
                                             token |-> sequence[validLen + 1]]]
      /\ validLen' = validLen + 1 /\ mode' = selector /\ pc' = "select"
      /\ UNCHANGED <<prefillLen, reps, graph, selector, recent, req, sequence, promptLen,
                     switches, head, union, attended, error>>
  <2>1. validLen \in Nat
    BY TypesFacts DEF M11State
  <2> QED BY <2>1, SizesNat DEF Decode, HistoryFull
<1>2. /\ DOMAIN rows = 0 .. Capacity - 1 /\ validLen \in Nat /\ Len(sequence) \in Nat
      /\ promptLen \in Nat
  BY TypesFacts DEF M11State
<1>3. /\ prefillLen = promptLen /\ promptLen > 1 /\ promptLen <= validLen
      /\ Len(sequence) < promptLen + MaxTokens /\ Len(sequence) = validLen + 1 /\ req > 0
  BY <1>1 DEF M11State, LengthsRight, Working
<1>4. M11Types'
  BY <1>1, <1>2 DEF M11State, M11Types, Working
<1>5. HistoryOwn'
  <2>1. ASSUME NEW i \in 0 .. validLen
        PROVE  rows'[i] = [req |-> req, pos |-> i, token |-> sequence[i + 1]]
    <3>1. CASE i = validLen
      <4>1. validLen \in DOMAIN rows
        BY <1>1, <1>2, SizesNat
      <4> QED BY <1>1, <3>1, <4>1
    <3>2. CASE i # validLen
      <4>1. i \in 0 .. validLen - 1 /\ i \in DOMAIN rows
        BY <1>1, <1>2, <3>2, SizesNat
      <4> QED BY <1>1, <3>2, <4>1 DEF M11State, HistoryOwn
    <3> QED BY <3>1, <3>2
  <2>2. \A i \in 0 .. validLen' - 1 :
          rows'[i] = [req |-> req', pos |-> i, token |-> sequence'[i + 1]]
    BY <1>1, <1>2, <2>1
  <2>3. validLen' <= Capacity /\ validLen' <= Len(sequence')
    BY <1>1, <1>2, <1>3
  <2> QED BY <2>2, <2>3 DEF HistoryOwn
<1>6. LengthsRight'
  BY <1>1, <1>2, <1>3 DEF LengthsRight
<1>7. FrozenRight' /\ GraphRight' /\ SearchRight' /\ UnionRight'
  BY <1>1 DEF M11State, FrozenRight, GraphRight, SearchRight, UnionRight, Working
<1>8. AttendedRight' /\ ErrorRight'
  BY <1>1 DEF M11State, AttendedRight, GathersOwnRows, CriticalCovered, Answered, ErrorRight,
              RaisesOnlyAvoidably
<1> QED BY <1>4, <1>5, <1>6, <1>7, <1>8 DEF M11State

\* The exact selector takes the block of every token that is within beta of the
\* best: the best block score is the score of the best token, and a token's score
\* is no better than that of its block.
LEMMA ExactCovers ==
  ASSUME NEW t \in Nat, t > 0, NEW k \in [0 .. t - 1 -> Int], NEW q \in Int,
         NEW i \in 0 .. t - 1,
         \A j \in 0 .. t - 1 : q * k[i] >= q * k[j] - Beta
  PROVE  i \div RBS \in DiprBlocks(ExactScores(k, q), Beta)
<1> DEFINE score == ExactScores(k, q)
           top == Max(Range(score))
<1>1. /\ score \in [BlockIds(t) -> Int]
      /\ i \div RBS \in BlockIds(t) /\ score[i \div RBS] >= q * k[i]
      /\ \A b \in BlockIds(t) : \E j \in 0 .. t - 1 : score[b] = q * k[j]
  BY ExactScoresFacts
<1> HIDE DEF score
<1>2. PICK b \in BlockIds(t) : top = score[b]
  <2> DEFINE n == NumBlocks(t)
  <2>1. n \in Nat /\ BlockIds(t) = 0 .. n - 1
    BY BlockFacts DEF BlockIds
  <2>2. /\ score \in [0 .. n - 1 -> Int] /\ BlockIds(t) \in SUBSET (0 .. n - 1)
        /\ BlockIds(t) # {}
    BY <1>1, <2>1
  <2> HIDE DEF n
  <2>3. Range(score) = {score[b] : b \in BlockIds(t)}
    BY <1>1 DEF Range
  <2>4. top \in Range(score)
    BY <2>1, <2>2, <2>3, MaxOver
  <2> QED BY <2>3, <2>4
<1> HIDE DEF top
<1>3. PICK j \in 0 .. t - 1 : score[b] = q * k[j]
  BY <1>1
<1>4. q * k[i] >= q * k[j] - Beta /\ q * k[i] \in Int /\ q * k[j] \in Int
  OBVIOUS
<1>5. score[i \div RBS] >= top - Beta
  <2>1. \A s, x, y, d \in Int : s >= x /\ x >= y - d => s >= y - d
    OBVIOUS
  <2>2. score[i \div RBS] \in Int /\ Beta \in Int
    BY <1>1, SizesNat
  <2>3. /\ score[i \div RBS] >= q * k[i] /\ q * k[i] >= q * k[j] - Beta
        /\ q * k[i] \in Int /\ q * k[j] \in Int /\ top = q * k[j]
    BY <1>1, <1>2, <1>3, <1>4
  <2>4. score[i \div RBS] >= q * k[j] - Beta
    BY ONLY <2>1, <2>2, <2>3
  <2> QED BY <2>3, <2>4
<1> QED BY <1>1, <1>5 DEF DiprBlocks, score, top

LEMMA SelectStep ==
  ASSUME M11State, Select
  PROVE  M11State'
<1>1. /\ pc = "select" /\ union' \in Selections /\ pc' = "gather"
      /\ UNCHANGED <<rows, validLen, prefillLen, reps, graph, selector, recent, req, sequence,
                     promptLen, switches, head, attended, mode, error>>
  BY DEF Select
<1>2. M11Types'
  BY <1>1 DEF M11State, M11Types, Working
<1>3. HistoryOwn' /\ LengthsRight' /\ FrozenRight' /\ GraphRight' /\ SearchRight' /\ ErrorRight'
  BY <1>1 DEF M11State, HistoryOwn, LengthsRight, FrozenRight, GraphRight, SearchRight,
              ErrorRight, RaisesOnlyAvoidably, Working
<1>4. AttendedRight'
  BY <1>1 DEF M11State, AttendedRight, GathersOwnRows, CriticalCovered, Answered
<1>5. UnionRight'
  <2>1. mode = selector /\ mode' = mode
    BY <1>1 DEF M11State, UnionRight
  <2>2. CurrentKeys' = CurrentKeys /\ CurrentQuery' = CurrentQuery
    BY <1>1 DEF CurrentKeys, CurrentQuery
  <2>3. ASSUME selector = "exact_dipr", NEW h \in Heads, NEW i \in DOMAIN CurrentKeys,
               Critical(h, i)
        PROVE  i \div RBS \in union'
    <3>1. union' = UNION {DiprBlocks(ExactScores(CurrentKeys, CurrentQuery[g]), Beta) : g \in Heads}
      BY <1>1, <2>3 DEF Selections
    <3>2. validLen \in Nat /\ validLen > 0
      BY <1>1, TypesFacts DEF M11State, LengthsRight, Working
    <3>3. /\ CurrentKeys \in [0 .. validLen - 1 -> Int] /\ CurrentQuery[h] \in Int
          /\ DOMAIN CurrentKeys = 0 .. validLen - 1
      BY <1>1, <3>2, KeysType DEF M11State
    <3>4. \A j \in 0 .. validLen - 1 :
            CurrentQuery[h] * CurrentKeys[i] >= CurrentQuery[h] * CurrentKeys[j] - Beta
      BY <2>3, <3>3 DEF Critical
    <3>5. i \div RBS \in DiprBlocks(ExactScores(CurrentKeys, CurrentQuery[h]), Beta)
      BY <2>3, <3>2, <3>3, <3>4, ExactCovers
    <3> QED BY <3>1, <3>5
  <2>4. \A h \in Heads, i \in DOMAIN CurrentKeys : Critical(h, i)' <=> Critical(h, i)
    BY <2>2 DEF Critical
  <2> QED BY <1>1, <2>1, <2>2, <2>3, <2>4 DEF UnionRight
<1> QED BY <1>2, <1>3, <1>4, <1>5 DEF M11State

\* What a decode step asks of the graph is a search that GraphDIPRS knows.
LEMMA StartStep ==
  ASSUME M11Inv, StartSearch
  PROVE  SearchInv' /\ M11State'
<1>1. /\ pc = "select" /\ selector \in GraphSelectors /\ graph # NoGraph /\ pc' = "search"
      /\ UNCHANGED <<rows, validLen, prefillLen, reps, graph, selector, recent, req, sequence,
                     promptLen, switches, head, union, attended, mode, error>>
  BY DEF StartSearch
<1> DEFINE t == Tokens(graph.of.keys)
           q == CurrentQuery[head]
           rep == RepScores(graph.of.keys, graph.of.chosen, q)
           exact == ExactScores(graph.of.keys, q)
           ix == [n |-> Cardinality(DOMAIN graph.adj), adj |-> graph.adj, rep |-> rep,
                  exact |-> exact]
<1>2. Search(ix)
  BY DEF StartSearch
<1>3. M11State /\ SearchInv
  BY DEF M11Inv
<1>4. /\ t \in Nat /\ t > 0
      /\ Frozen(graph.of.keys, graph.of.chosen, t)
      /\ graph.adj \in [BlockIds(t) -> Seq(BlockIds(t))]
  BY <1>1, <1>3 DEF M11State, GraphRight, GraphOf
<1> HIDE DEF t
<1>5. q \in Int
  <2>1. validLen \in Nat /\ validLen > 0 /\ head \in Heads
    BY <1>1, <1>3, TypesFacts DEF M11State, LengthsRight, Working, SearchRight
  <2> QED BY <1>1, <1>3, <2>1, KeysType DEF M11State
<1> HIDE DEF q
<1>6. rep \in [BlockIds(t) -> Int]
  BY <1>4, <1>5, RepScoresType
<1>7. exact \in [BlockIds(t) -> Int]
  <2>1. graph.of.keys \in [0 .. t - 1 -> Int]
    BY <1>4 DEF Frozen
  <2> QED BY <1>4, <1>5, <2>1, ExactScoresFacts
<1> HIDE DEF rep, exact
<1>8. ix \in Indexes
  <2> DEFINE n == NumBlocks(t)
  <2>1. n \in Nat \ {0} /\ BlockIds(t) = 0 .. n - 1
    BY <1>4, BlockFacts DEF BlockIds
  <2>2. Cardinality(DOMAIN graph.adj) = n
    BY <1>4, BlockCount
  <2>3. /\ graph.adj \in [0 .. n - 1 -> Seq(0 .. n - 1)]
        /\ rep \in [0 .. n - 1 -> Int] /\ exact \in [0 .. n - 1 -> Int]
    BY <1>4, <1>6, <1>7, <2>1
  <2>4. ix = [n |-> n, adj |-> graph.adj, rep |-> rep, exact |-> exact]
    BY <2>2
  <2> HIDE DEF n, ix
  <2>5. ix \in [n : {n}, adj : [0 .. n - 1 -> Seq(0 .. n - 1)], rep : [0 .. n - 1 -> Int],
                exact : [0 .. n - 1 -> Int]]
    BY <2>3, <2>4
  <2> QED BY <2>1, <2>5 DEF Indexes
<1>9. SearchInv'
  <2> HIDE DEF ix
  <2> QED BY <1>2, <1>3, <1>8, SearchStarts
<1>10. index' = ix
  BY <1>2 DEF Search
<1>11. M11Types' /\ HistoryOwn' /\ LengthsRight' /\ FrozenRight' /\ GraphRight' /\ ErrorRight'
  BY <1>1, <1>3 DEF M11State, M11Types, HistoryOwn, LengthsRight, FrozenRight, GraphRight,
                    ErrorRight, RaisesOnlyAvoidably, Working
<1>12. SearchRight'
  BY <1>1, <1>3, <1>10 DEF M11State, SearchRight
<1>13. UnionRight' /\ AttendedRight'
  BY <1>1, <1>3 DEF M11State, UnionRight, AttendedRight, GathersOwnRows, CriticalCovered,
                    Answered
<1> QED BY <1>9, <1>11, <1>12, <1>13 DEF M11State

LEMMA SearchGoesOn ==
  ASSUME M11Inv, RunSearch
  PROVE  SearchInv' /\ M11State'
<1>1. SearchStep /\ UNCHANGED m11Vars /\ SearchInv /\ M11State
  BY DEF RunSearch, M11Inv
<1>2. SearchInv'
  BY <1>1, SearchKeeps DEF SearchNext
<1>3. index' = index
  BY <1>1 DEF SearchStep, Dequeue, SkipKnown, Discover, CutShort, Expanded, Rank, Refine
<1> QED BY <1>1, <1>2, <1>3, RunStep

\* The blocks a search finds are those of the mask, unless the graph is one
\* that a changed selector left behind.
LEMMA CollectStep ==
  ASSUME M11Inv, CollectSearch
  PROVE  SearchInv' /\ M11State'
<1>1. /\ pc = "search" /\ Collected
      /\ UNCHANGED <<rows, validLen, prefillLen, reps, graph, selector, recent, req, sequence,
                     promptLen, switches, attended, mode>>
  BY DEF CollectSearch
<1>2. M11State /\ SearchInv
  BY DEF M11Inv
<1>3. SearchInv'
  BY <1>1, CollectedKeeps
<1>4. selector \in GraphSelectors /\ mode = selector
  BY <1>1, <1>2 DEF M11State, SearchRight, UnionRight
<1>5. CASE /\ ~(final \subseteq BlockIds(prefillLen)) /\ Raise("mask")
  <2>1. switches > 0
    <3>1. SUFFICES ASSUME switches = 0 PROVE FALSE
      BY <1>2, TypesFacts DEF M11State
    <3>2. DOMAIN graph.adj = BlockIds(prefillLen) /\ index.n = Cardinality(DOMAIN graph.adj)
      BY <1>1, <1>2, <1>4, <3>1 DEF M11State, GraphRight, SearchRight, Working
    <3>3. prefillLen \in Nat /\ prefillLen > 0
      BY <1>1, <1>2, TypesFacts DEF M11State, LengthsRight, Working
    <3>4. Blocks(index) = BlockIds(prefillLen)
      BY <3>2, <3>3, BlockCount DEF Blocks, BlockIds
    <3>5. final \subseteq Blocks(index)
      BY <1>2 DEF SearchInv, SearchTypeOK
    <3> QED BY <1>5, <3>4, <3>5
  <2> QED BY <1>1, <1>2, <1>3, <1>5, <2>1, RaiseStep
<1>6. CASE /\ head' = NextHead /\ error' = error
           /\ pc' = (IF NextHead \in Heads THEN "select" ELSE "gather")
  <2>1. M11Types' /\ HistoryOwn' /\ LengthsRight' /\ FrozenRight' /\ GraphRight' /\ ErrorRight'
    BY <1>1, <1>2, <1>6 DEF M11State, M11Types, HistoryOwn, LengthsRight, FrozenRight,
                      GraphRight, ErrorRight, RaisesOnlyAvoidably, Working
  <2>2. SearchRight'
    BY <1>6 DEF SearchRight
  <2>3. UnionRight'
    BY <1>1, <1>4, <1>6 DEF UnionRight, GraphSelectors
  <2>4. AttendedRight'
    BY <1>6 DEF AttendedRight, GathersOwnRows, CriticalCovered, Answered
  <2> QED BY <1>3, <2>1, <2>2, <2>3, <2>4 DEF M11State
<1> QED BY <1>5, <1>6 DEF CollectSearch

LEMMA RaiseSteps ==
  ASSUME M11State,
         \/ SelectWithoutGraph \/ DecodeBeyondCapacity \/ AssertCurrent
         \/ \E p \in Prompts : RejectPrompt(p)
  PROVE  M11State'
<1>1. CASE SelectWithoutGraph
  <2>1. /\ pc = "select" /\ selector \in GraphSelectors /\ graph = NoGraph
    BY <1>1 DEF SelectWithoutGraph
  <2>2. switches > 0
    <3>1. SUFFICES ASSUME switches = 0 PROVE FALSE
      BY TypesFacts DEF M11State
    <3>2. graph.of = reps /\ reps.req = req /\ req > 0
      BY <2>1, <3>1 DEF M11State, GraphRight, FrozenRight, LengthsRight, Working
    <3> QED BY <2>1, <3>2 DEF NoGraph, NoReps
  <2> QED BY <1>1, <2>1, <2>2, RaiseStep DEF SelectWithoutGraph
<1>2. CASE DecodeBeyondCapacity
  <2>1. pc = "running" /\ validLen + 1 > Capacity
    BY <1>2 DEF DecodeBeyondCapacity, HistoryFull
  <2>2. /\ Len(sequence) = validLen + 1 /\ Len(sequence) < promptLen + MaxTokens
        /\ validLen \in Nat /\ promptLen \in Nat
    BY <2>1, TypesFacts DEF M11State, LengthsRight, Working
  <2>3. promptLen + MaxTokens > Capacity + 1
    BY <2>1, <2>2, SizesNat
  <2> QED BY <1>2, <2>1, <2>3, RaiseStep DEF DecodeBeyondCapacity
<1>3. CASE AssertCurrent
  <2>1. pc = "gather" /\ validLen - 1 \notin Selected
    BY <1>3 DEF AssertCurrent
  <2>2. validLen \in Nat /\ validLen > 0 /\ recent \in Nat
    BY <2>1, TypesFacts DEF M11State, LengthsRight, Working
  <2>3. recent = 0
    BY <2>1, <2>2 DEF Selected, SelectedTokens
  <2> QED BY <1>3, <2>1, <2>3, RaiseStep DEF AssertCurrent
<1>4. CASE \E p \in Prompts : RejectPrompt(p)
  <2>1. /\ pc = "idle" /\ Raise("prompt")
        /\ UNCHANGED <<rows, validLen, prefillLen, reps, graph, selector, recent, req,
                       sequence, promptLen, switches, attended, mode>>
    BY <1>4 DEF RejectPrompt, Raise
  <2> QED BY <2>1, RaiseStep
<1> QED BY <1>1, <1>2, <1>3, <1>4

\* The rows that are gathered are rows of the request, and the selection has
\* both windows and every critical token.
LEMMA AttendStep ==
  ASSUME M11State, Attend
  PROVE  M11State'
<1>1. /\ pc = "gather" /\ validLen - 1 \in Selected /\ attended' = Selected
      /\ pc' \in AfterToken(Len(sequence) + 1 - promptLen) /\ head' = 1
      /\ UNCHANGED <<rows, validLen, prefillLen, reps, graph, selector, recent, req, promptLen,
                     switches, mode, error>>
  BY DEF Attend
<1>2. PICK t \in Sampled : sequence' = Append(sequence, t)
  BY DEF Attend
<1>3. M11Types
  BY DEF M11State
<1>4. /\ sequence' \in Seq(Vocabulary) /\ Len(sequence') = Len(sequence) + 1
      /\ \A i \in 1 .. Len(sequence) : sequence'[i] = sequence[i]
  BY <1>2, <1>3, Sampling
<1>5. /\ prefillLen = promptLen /\ promptLen > 1 /\ promptLen <= validLen
      /\ Len(sequence) = validLen /\ req > 0 /\ reps.req = req
      /\ reps.keys = [i \in 0 .. prefillLen - 1 |-> Key[sequence[i + 1]]]
      /\ Frozen(reps.keys, reps.chosen, prefillLen)
  BY <1>1 DEF M11State, LengthsRight, FrozenRight, Working
<1>6. /\ validLen \in Nat /\ promptLen \in Nat /\ prefillLen \in Nat /\ recent \in Nat
      /\ Len(sequence) \in Nat
  BY <1>3, TypesFacts
<1>7. pc' = "idle" \/ (pc' = "running" /\ Len(sequence) + 1 - promptLen < MaxTokens)
  BY <1>1 DEF AfterToken
<1>8. /\ validLen <= Capacity
      /\ \A i \in 0 .. validLen - 1 :
           rows[i] = [req |-> req, pos |-> i, token |-> sequence[i + 1]]
  BY <1>1 DEF M11State, HistoryOwn
<1>9. \A i \in 0 .. validLen - 1 : sequence'[i + 1] = sequence[i + 1]
  BY <1>4, <1>5, <1>6
<1>10. M11Types'
  BY <1>1, <1>3, <1>4, <1>7 DEF M11Types, Working
<1>11. \A i \in 0 .. validLen - 1 :
         rows[i] = [req |-> req, pos |-> i, token |-> sequence'[i + 1]]
  BY <1>8, <1>9
<1>12. HistoryOwn'
  BY <1>1, <1>4, <1>5, <1>6, <1>8, <1>11 DEF HistoryOwn
<1>13. LengthsRight'
  <2>1. pc' = "running" => Len(sequence') < promptLen + MaxTokens
    BY <1>4, <1>6, <1>7, SizesNat
  <2> QED BY <1>1, <1>4, <1>5, <1>6, <1>7, <2>1 DEF LengthsRight, Working
<1>14. FrozenRight'
  <2>1. \A i \in 0 .. prefillLen - 1 : sequence'[i + 1] = sequence[i + 1]
    BY <1>5, <1>6, <1>9
  <2>2. reps.keys = [i \in 0 .. prefillLen - 1 |-> Key[sequence'[i + 1]]]
    BY <1>5, <2>1
  <2> QED BY <1>1, <1>5, <2>2 DEF FrozenRight
<1>15. GraphRight'
  BY <1>1, <1>7 DEF M11State, GraphRight, Working
<1>16. SearchRight' /\ UnionRight'
  BY <1>1, <1>7, SizesNat DEF SearchRight, UnionRight, Heads
<1>17. GathersOwnRows'
  <2>1. \A i \in Selected : i \in 0 .. validLen - 1
    BY DEF Selected, SelectedTokens
  <2>2. Len(sequence') - 2 = validLen - 1
    BY <1>4, <1>5, <1>6
  <2>3. \A i \in 0 .. validLen - 1 :
          i < FirstTokens \/ i > validLen - 1 - recent => i \in Selected
    BY <1>6, SizesNat DEF Selected, SelectedTokens
  <2> QED BY <1>1, <1>11, <2>1, <2>2, <2>3 DEF GathersOwnRows
<1>18. CriticalCovered'
  <2>1. CurrentKeys' = CurrentKeys /\ CurrentQuery' = CurrentQuery
    BY <1>1 DEF CurrentKeys, CurrentQuery
  <2>2. ASSUME mode = "exact_dipr", NEW h \in Heads, NEW i \in DOMAIN CurrentKeys,
               \A j \in DOMAIN CurrentKeys :
                 CurrentQuery[h] * CurrentKeys[i] >= CurrentQuery[h] * CurrentKeys[j] - Beta
        PROVE  i \in Selected
    <3>1. i \div RBS \in union
      BY <1>1, <2>2 DEF M11State, UnionRight, Critical
    <3>2. i \in 0 .. validLen - 1
      BY DEF CurrentKeys
    <3> QED BY <3>1, <3>2 DEF Selected, SelectedTokens
  <2> QED BY <1>1, <2>1, <2>2 DEF CriticalCovered
<1>19. AttendedRight' /\ ErrorRight'
  BY <1>1, <1>7, <1>17, <1>18 DEF M11State, AttendedRight, ErrorRight, RaisesOnlyAvoidably
<1> QED BY <1>10, <1>12, <1>13, <1>14, <1>15, <1>16, <1>19 DEF M11State

\* What the engine's owner does between two requests or two steps.
LEMMA OwnerStep ==
  ASSUME M11State, Reset \/ \E name \in Selectors : SetSelector(name)
  PROVE  M11State'
<1>1. CASE Reset
  <2>1. /\ pc = "idle" /\ validLen' = 0 /\ prefillLen' = 0 /\ graph' = NoGraph
        /\ attended' = {}
        /\ UNCHANGED <<rows, selector, recent, req, sequence, promptLen, switches, head, mode,
                       pc, error>>
    BY <1>1 DEF Reset
  <2>2. M11Types'
    BY <2>1 DEF M11State, M11Types
  <2>3. HistoryOwn'
    <3>1. Len(sequence) \in Nat
      BY TypesFacts DEF M11State
    <3> QED BY <2>1, <3>1, SizesNat DEF HistoryOwn
  <2>4. /\ LengthsRight' /\ FrozenRight' /\ GraphRight' /\ UnionRight'
    BY <2>1 DEF LengthsRight, FrozenRight, GraphRight, UnionRight, Working
  <2>5. SearchRight' /\ AttendedRight' /\ ErrorRight'
    BY <2>1 DEF M11State, SearchRight, AttendedRight, GathersOwnRows, CriticalCovered,
                Answered, ErrorRight, RaisesOnlyAvoidably
  <2> QED BY <2>2, <2>3, <2>4, <2>5 DEF M11State
<1>2. CASE \E name \in Selectors : SetSelector(name)
  <2>1. /\ pc \in {"idle", "running"}
        /\ switches' = (IF pc = "running" THEN switches + 1 ELSE switches)
        /\ UNCHANGED <<rows, validLen, prefillLen, reps, graph, recent, req, sequence,
                       promptLen, head, union, attended, mode, pc, error>>
    BY <1>2 DEF SetSelector
  <2>2. switches \in Nat
    BY TypesFacts DEF M11State
  <2>3. M11Types'
    BY <2>1, <2>2 DEF M11State, M11Types
  <2>4. HistoryOwn' /\ LengthsRight' /\ FrozenRight'
    BY <2>1 DEF M11State, HistoryOwn, LengthsRight, FrozenRight, Working
  <2>5. GraphRight'
    BY <2>1, <2>2 DEF M11State, GraphRight, Working
  <2>6. SearchRight' /\ UnionRight'
    BY <2>1 DEF M11State, SearchRight, UnionRight
  <2>7. CurrentKeys' = CurrentKeys /\ CurrentQuery' = CurrentQuery
    BY <2>1 DEF CurrentKeys, CurrentQuery
  <2>8. AttendedRight'
    BY <2>1, <2>7 DEF M11State, AttendedRight, GathersOwnRows, CriticalCovered, Answered
  <2>9. ErrorRight'
    BY <2>1 DEF M11State, ErrorRight, RaisesOnlyAvoidably
  <2> QED BY <2>3, <2>4, <2>5, <2>6, <2>8, <2>9 DEF M11State
<1> QED BY <1>1, <1>2

LEMMA M11Keeps == M11Inv /\ [M11Next]_allVars => M11Inv'
<1> SUFFICES ASSUME M11Inv, [M11Next]_allVars PROVE M11Inv'
  OBVIOUS
<1>1. M11State /\ SearchInv
  BY DEF M11Inv
<1>2. CASE SearchWork
  BY <1>2, StartStep, SearchGoesOn, CollectStep DEF SearchWork, M11Inv
<1>3. CASE \/ \E p \in Prompts : Prefill(p) \/ RejectPrompt(p)
           \/ BuildIndex \/ Decode \/ DecodeBeyondCapacity \/ Select \/ SelectWithoutGraph
           \/ Attend \/ AssertCurrent \/ Reset \/ \E name \in Selectors : SetSelector(name)
  <2>1. UNCHANGED searchVars
    BY <1>3 DEF Prefill, RejectPrompt, BuildIndex, Decode, DecodeBeyondCapacity, Select,
                SelectWithoutGraph, Attend, AssertCurrent, Reset, SetSelector
  <2>2. SearchInv'
    BY <1>1, <2>1, SearchKeeps
  <2>3. M11State'
    BY <1>1, <1>3, PrefillStep, BuildIndexStep, DecodeStep, SelectStep, RaiseSteps, AttendStep,
       OwnerStep
  <2> QED BY <2>2, <2>3 DEF M11Inv
<1>4. CASE UNCHANGED allVars
  <2>1. UNCHANGED searchVars /\ UNCHANGED m11Vars /\ index' = index
    BY <1>4 DEF allVars, searchVars
  <2> QED BY <1>1, <2>1, SearchKeeps, RunStep DEF M11Inv
<1> QED BY <1>2, <1>3, <1>4 DEF M11Next

LEMMA M11Always == M11Spec => []M11Inv
<1>1. M11Init => M11Inv
  BY EngineInit
<1> QED BY <1>1, M11Keeps, PTL DEF M11Spec

-----------------------------------------------------------------------------
(* Theorems *)

\* Whatever the selector and however it is changed, a decode step attends to
\* rows of the request that runs, each at its own position, to the current
\* token and to both windows (decode, sparse/engine_runtime.py).
THEOREM AttendsToOwnRows == M11Spec => []GathersOwnRows
<1>1. M11Inv => GathersOwnRows
  BY DEF M11Inv, M11State, AttendedRight
<1> QED BY <1>1, M11Always, PTL

\* The exact selector attends to every token within beta of the best of some
\* query head, for all keys, queries, block sizes and beta (select_dipr_blocks
\* over exact_block_scores, sparse/block_sparse.py).
THEOREM ExactSelectorCovers == M11Spec => []CriticalCovered
<1>1. M11Inv => CriticalCovered
  BY DEF M11Inv, M11State, AttendedRight
<1> QED BY <1>1, M11Always, PTL

\* A search is one of the graph over the prompt of the request that runs, as
\* long as nobody changes the selector while it runs (prefill and
\* _run_selector, sparse/engine_runtime.py).
THEOREM SearchesOwnGraph == M11Spec => []IndexOfThisRequest
<1>1. M11Inv => IndexOfThisRequest
  <2> SUFFICES ASSUME M11Inv, pc = "search", switches = 0
               PROVE  /\ graph.of.req = req
                      /\ DOMAIN graph.adj = BlockIds(prefillLen)
                      /\ graph.of.keys = [i \in 0 .. prefillLen - 1 |-> Key[rows[i].token]]
    BY DEF IndexOfThisRequest
  <2>1. M11State
    BY DEF M11Inv
  <2>2. graph.of = reps /\ DOMAIN graph.adj = BlockIds(prefillLen)
    BY <2>1 DEF M11State, GraphRight, SearchRight, Working
  <2>3. /\ reps.req = req
        /\ reps.keys = [i \in 0 .. prefillLen - 1 |-> Key[sequence[i + 1]]]
    BY <2>1 DEF M11State, FrozenRight, Working
  <2>4. ASSUME NEW i \in 0 .. prefillLen - 1
        PROVE  rows[i].token = sequence[i + 1]
    <3>1. prefillLen \in Nat /\ validLen \in Nat /\ prefillLen <= validLen
      BY <2>1, TypesFacts DEF M11State, LengthsRight, Working
    <3>2. i \in 0 .. validLen - 1
      BY <3>1
    <3>3. rows[i] = [req |-> req, pos |-> i, token |-> sequence[i + 1]]
      BY <2>1, <3>2 DEF M11State, HistoryOwn
    <3> QED BY <3>3
  <2> QED BY <2>2, <2>3, <2>4
<1> QED BY <1>1, M11Always, PTL

\* The engine raises for no reason but a prompt outside the limits, a request
\* beyond max_model_len, no recent window or a selector changed while the
\* request runs (the checks and assertions of sparse/engine_runtime.py).
THEOREM FailsOnlyAvoidably == M11Spec => []RaisesOnlyAvoidably
<1>1. M11Inv => RaisesOnlyAvoidably
  BY DEF M11Inv, M11State, ErrorRight
<1> QED BY <1>1, M11Always, PTL

\* A search that the engine starts follows every edge of every candidate
\* unless it reports truncation (traverse, sparse/graph_diprs.py).
THEOREM EngineSearchComplete == M11Spec => []SearchComplete
<1>1. M11Inv => SearchComplete
  BY CompleteFromInv DEF M11Inv
<1> QED BY <1>1, M11Always, PTL

\* A search that the engine starts stays within its budget and keeps the best
\* (traverse and refine_candidates, sparse/graph_diprs.py).
THEOREM EngineSearchSound == M11Spec => []SearchSound
<1>1. M11Inv => SearchSound
  BY SoundFromInv DEF M11Inv, SearchInv, SearchSound
<1> QED BY <1>1, M11Always, PTL
=============================================================================
