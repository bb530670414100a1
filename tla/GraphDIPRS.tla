----------------------------- MODULE GraphDIPRS -----------------------------
(***************************************************************************)
(* One Block-DIPRS search over a directed block graph (BlockGraphIndex.    *)
(* traverse and refine_candidates in sparse/graph_diprs.py): a breadth-    *)
(* first walk that scores a block when it discovers it, queues it while    *)
(* few blocks are scored or its score is close enough to the best one, and *)
(* gives up once a number of blocks are scored; the candidates that remain *)
(* are then scored exactly.                                                *)
(*                                                                         *)
(* index says what the search reads: the number of blocks, the neighbours  *)
(* of every block, the score of its representatives and its exact score    *)
(* for the query.  A step is one iteration of the loop over the queue, or  *)
(* of the loop over the neighbours of the block taken from it.             *)
(***************************************************************************)
EXTENDS Integers, Sequences, FiniteSets

CONSTANTS
  Beta,      \* beta_raw
  L0,        \* graph_l0
  MaxScored  \* graph_max_scored_blocks

ASSUME SearchAssumption ==
  /\ Beta \in Nat
  /\ L0 \in Nat \ {0}
  /\ MaxScored \in Nat \ {0}

VARIABLES
  index,     \* what is searched, and for which query
  queue, queued, expanded, scored, best, truncated, \* the locals of traverse
  current,   \* the block being expanded, or NoBlock between two blocks
  next,      \* the position of the next neighbour of current
  cand,      \* rep_candidate_blocks
  final,     \* final_blocks
  stage      \* "idle", "walk", "refine" or "done"

searchVars == <<index, queue, queued, expanded, scored, best, truncated,
                current, next, cand, final, stage>>

NoBlock == -1

Blocks(ix) == 0 .. ix.n - 1

\* Every index a search may be given: a block has a representative.
Indexes ==
  UNION {[n : {n},
          adj : [0 .. n - 1 -> Seq(0 .. n - 1)],
          rep : [0 .. n - 1 -> Int],
          exact : [0 .. n - 1 -> Int]] : n \in Nat \ {0}}

\* scored_set.
Seen == {scored[i] : i \in 1 .. Len(scored)}

Full == Len(scored) >= MaxScored

\* Mutated form: a block that was scored and pruned counts as new.
KnownUnlessPruned(b) == b \in expanded \/ b \in queued

\* nb in expanded or nb in queued or nb in scored_set.
Known(b) == b \in expanded \/ b \in queued \/ b \in Seen

\* Mutated form: the best score starts at zero.
BestWithZero(s) == IF s > best THEN s ELSE best

\* best_rep after a block of score s: the first one beats minus infinity.
BestWith(s) == IF scored = <<>> \/ s > best THEN s ELSE best

Entries(n) ==
  IF n = 1 THEN <<0>>
  ELSE IF n \div 2 = n - 1 THEN <<0, n - 1>>
  ELSE <<0, n \div 2, n - 1>>

-----------------------------------------------------------------------------
\* An index of one block, between two searches.
NoIndex == [n |-> 1, adj |-> [b \in {0} |-> <<>>],
            rep |-> [b \in {0} |-> 0], exact |-> [b \in {0} |-> 0]]

SearchInit ==
  /\ index = NoIndex
  /\ queue = <<>> /\ queued = {} /\ expanded = {} /\ scored = <<>>
  /\ best = 0 /\ truncated = FALSE
  /\ current = NoBlock /\ next = 1
  /\ cand = {} /\ final = {}
  /\ stage = "idle"

\* search(q_vec, g, ...): the entry blocks are queued.
Search(ix) ==
  /\ stage = "idle"
  /\ index' = ix
  /\ queue' = Entries(ix.n)
  /\ queued' = {Entries(ix.n)[i] : i \in 1 .. Len(Entries(ix.n))}
  /\ expanded' = {} /\ scored' = <<>> /\ best' = 0 /\ truncated' = FALSE
  /\ current' = NoBlock /\ next' = 1
  /\ cand' = {} /\ final' = {}
  /\ stage' = "walk"

\* The score of block b is looked up and remembered.
Score(b) ==
  /\ scored' = Append(scored, b)
  /\ best' = BestWith(index.rep[b])

\* One iteration of the outer loop, up to the loop over the neighbours.
Dequeue ==
  /\ stage = "walk" /\ current = NoBlock
  /\ queue # <<>> /\ ~Full
  /\ queue' = Tail(queue)
  /\ queued' = queued \ {Head(queue)}
  /\ expanded' = expanded \cup {Head(queue)}
  /\ \/ /\ Head(queue) \in Seen
        /\ UNCHANGED <<scored, best>>
     \/ /\ Head(queue) \notin Seen
        /\ Score(Head(queue))
  /\ current' = (IF Head(queue) \in expanded THEN NoBlock ELSE Head(queue))
  /\ next' = 1
  /\ UNCHANGED <<index, truncated, cand, final, stage>>

Expanding == stage = "walk" /\ current # NoBlock

Neighbour == index.adj[current][next]

SkipKnown ==
  /\ Expanding
  /\ next <= Len(index.adj[current])
  /\ Known(Neighbour)
  /\ next' = next + 1
  /\ UNCHANGED <<index, queue, queued, expanded, scored, best, truncated,
                 current, cand, final, stage>>

\* A new neighbour is scored, and queued unless it is pruned.
Discover ==
  /\ Expanding
  /\ next <= Len(index.adj[current])
  /\ ~Known(Neighbour) /\ ~Full
  /\ Score(Neighbour)
  /\ \/ /\ Len(scored') <= L0 \/ index.rep[Neighbour] >= best' - Beta
        /\ queue' = Append(queue, Neighbour)
        /\ queued' = queued \cup {Neighbour}
     \/ /\ Len(scored') > L0 /\ index.rep[Neighbour] < best' - Beta
        /\ UNCHANGED <<queue, queued>>
  /\ next' = next + 1
  /\ UNCHANGED <<index, expanded, truncated, current, cand, final, stage>>

\* The budget ends the loop over the neighbours, and only that loop.
CutShort ==
  /\ Expanding
  /\ next <= Len(index.adj[current])
  /\ ~Known(Neighbour) /\ Full
  /\ truncated' = TRUE
  /\ current' = NoBlock
  /\ UNCHANGED <<index, queue, queued, expanded, scored, best, next, cand,
                 final, stage>>

Expanded ==
  /\ Expanding
  /\ next > Len(index.adj[current])
  /\ current' = NoBlock
  /\ UNCHANGED <<index, queue, queued, expanded, scored, best, truncated,
                 next, cand, final, stage>>

\* Mutated form: a queue that is left over is not reported.
CutOffUnreported == truncated

\* truncated when the loop over the queue ends.
CutOff == truncated \/ queue # <<>>

\* The queue is empty or the budget is used: the candidates are what was
\* scored within beta of the best representative.
Rank ==
  /\ stage = "walk" /\ current = NoBlock
  /\ queue = <<>> \/ Full
  /\ truncated' = CutOff
  /\ cand' = {b \in Seen : index.rep[b] >= best - Beta}
  /\ stage' = "refine"
  /\ UNCHANGED <<index, queue, queued, expanded, scored, best, current, next,
                 final>>

\* refine_candidates: the candidates within beta of the best exact score.
Refine ==
  /\ stage = "refine"
  /\ final' = {b \in cand : \A c \in cand :
                 index.exact[b] >= index.exact[c] - Beta}
  /\ stage' = "done"
  /\ UNCHANGED <<index, queue, queued, expanded, scored, best, truncated,
                 current, next, cand>>

\* The caller has taken the result, and the locals of the search are gone.
Collected ==
  /\ stage = "done"
  /\ index' = NoIndex
  /\ queue' = <<>> /\ queued' = {} /\ expanded' = {} /\ scored' = <<>>
  /\ best' = 0 /\ truncated' = FALSE
  /\ current' = NoBlock /\ next' = 1
  /\ cand' = {} /\ final' = {}
  /\ stage' = "idle"

SearchStep ==
  Dequeue \/ SkipKnown \/ Discover \/ CutShort \/ Expanded \/ Rank \/ Refine

SearchNext == (\E ix \in Indexes : Search(ix)) \/ SearchStep \/ Collected

SearchSpec == SearchInit /\ [][SearchNext]_searchVars

-----------------------------------------------------------------------------
SearchTypeOK ==
  /\ index \in Indexes
  /\ queue \in Seq(Blocks(index))
  /\ queued \subseteq Blocks(index) /\ expanded \subseteq Blocks(index)
  /\ scored \in Seq(Blocks(index))
  /\ best \in Int /\ truncated \in BOOLEAN
  /\ current \in Blocks(index) \cup {NoBlock} /\ next \in Nat \ {0}
  /\ cand \subseteq Blocks(index) /\ final \subseteq Blocks(index)
  /\ stage \in {"idle", "walk", "refine", "done"}

Ranked == stage \in {"refine", "done"}

\* Work is bounded: a block is scored at most once in a search however many
\* edges lead to it and whether it was an entry or a neighbour first, and
\* never more than max_scored_blocks of them.
ScoredOnce ==
  /\ Len(scored) <= MaxScored
  /\ \A i, j \in 1 .. Len(scored) : scored[i] = scored[j] => i = j

\* Pruning loses nothing that was reached: a search that does not report
\* truncation has scored every entry block, and it has expanded every
\* candidate and scored all of its neighbours, although a block is pruned
\* against the best score known when it was discovered and the candidates
\* are chosen with the best score of the whole search.
SearchComplete ==
  Ranked /\ ~truncated =>
    /\ \A i \in 1 .. Len(Entries(index.n)) : Entries(index.n)[i] \in Seen
    /\ \A b \in cand :
         /\ b \in expanded
         /\ \A i \in 1 .. Len(index.adj[b]) : index.adj[b][i] \in Seen

\* The result is never empty, keeps the scored block with the best
\* representative as a candidate and the best exact candidate as a result;
\* truncation is reported only when the budget was used up.
ResultSound ==
  /\ Ranked =>
       /\ \E b \in cand : \A c \in Seen : index.rep[b] >= index.rep[c]
       /\ \A b \in cand, c \in Seen : index.rep[b] >= index.rep[c] - Beta
       /\ truncated => Len(scored) = MaxScored
  /\ stage = "done" =>
       \E b \in final : \A c \in cand : index.exact[b] >= index.exact[c]

\* traverse and refine_candidates stay within their budget and keep the best.
SearchSound == ScoredOnce /\ ResultSound
=============================================================================
