----------------------------- MODULE BlockGraph -----------------------------
(***************************************************************************)
(* The retrieval blocks of one layer and what is computed from their keys: *)
(* representatives (sparse/representatives.py), the two block graphs       *)
(* (sparse/graph_diprs.py), block scores, block selections and the tokens  *)
(* a selection stands for (sparse/block_sparse.py).                        *)
(*                                                                         *)
(* A key and a query are integers, one per token, and their product stands *)
(* for the inner product; k is a function from the positions 0 .. t - 1 to *)
(* keys.  There is one KV head, shared by all the query heads.             *)
(***************************************************************************)
EXTENDS Integers, Sequences, FiniteSets, FiniteSetsExt, SequencesExt

CONSTANTS
  RBS,             \* retrieval_block_size
  Representatives, \* num_representatives
  Degree,          \* graph_degree
  ProjectionTopK   \* graph_projection_topk

ASSUME BlockGraphAssumption ==
  {RBS, Representatives, Degree, ProjectionTopK} \subseteq Nat \ {0}

NumBlocks(t) == (t + RBS - 1) \div RBS

BlockIds(t) == 0 .. NumBlocks(t) - 1

Tokens(k) == Cardinality(DOMAIN k)

\* The positions of block b; the last block may be partial.
BlockTokens(b, t) == {i \in 0 .. t - 1 : i \div RBS = b}

Square(x) == x * x

\* The members of S from the least cost to the greatest, equal ones by id.
ByCost(S, cost) ==
  LET before(b) ==
        {a \in S : cost[a] < cost[b] \/ (cost[a] = cost[b] /\ a < b)}
  IN  [n \in 1 .. Cardinality(S) |->
         CHOOSE b \in S : Cardinality(before(b)) = n - 1]

FirstOf(s, n) == SubSeq(s, 1, Min({n, Len(s)}))

-----------------------------------------------------------------------------
\* Representatives.

\* The mean key of block b.  It is exact for the keys the models use.
MeanKey(k, b) ==
  LET tokens == BlockTokens(b, Tokens(k))
  IN  MapThenSumSet(LAMBDA i : k[i], tokens) \div Cardinality(tokens)

\* _farthest_point_reps: the token nearest to the mean, then again and again
\* the token farthest from the chosen ones; ties keep the lower offset.
FarthestPointReps(k, b) ==
  LET tokens == BlockTokens(b, Tokens(k))
      first == ByCost(tokens,
                 [i \in tokens |-> Square(k[i] - MeanKey(k, b))])[1]
      gap(i, chosen) == Min({Square(k[i] - k[j]) : j \in chosen})
      farthest(chosen) ==
        ByCost(tokens \ chosen,
               [i \in tokens \ chosen |-> - gap(i, chosen)])[1]
      reps[n \in 1 .. Min({Representatives, Cardinality(tokens)})] ==
        IF n = 1 THEN {first}
        ELSE reps[n - 1] \cup {farthest(reps[n - 1])}
  IN  reps[Min({Representatives, Cardinality(tokens)})]

BlockReps(k) == [b \in BlockIds(Tokens(k)) |-> FarthestPointReps(k, b)]

\* real_score_block and real_block_scores, mean_block_scores, and
\* exact_block_scores of one query head.
RepScores(k, reps, q) ==
  [b \in DOMAIN reps |-> Max({q * k[i] : i \in reps[b]})]

MeanScores(k, q) == [b \in BlockIds(Tokens(k)) |-> q * MeanKey(k, b)]

ExactScores(k, q) ==
  [b \in BlockIds(Tokens(k)) |->
     Max({q * k[i] : i \in BlockTokens(b, Tokens(k))})]

-----------------------------------------------------------------------------
\* Graphs.

\* _pairwise_sim: the best product of a representative of each block.
Similarity(k, reps, a, b) ==
  Max({k[i] * k[j] : i \in reps[a], j \in reps[b]})

\* build_knn: the most similar other blocks.
KnnGraph(k, reps) ==
  [a \in DOMAIN reps |->
     LET others == DOMAIN reps \ {a}
     IN  FirstOf(ByCost(others,
           [b \in others |-> - Similarity(k, reps, a, b)]), Degree)]

\* The n best blocks of a score; torch leaves the choice among equals open.
TopBlocks(score, n) ==
  LET ids == DOMAIN score
      size == Min({n, Cardinality(ids)})
      sure == {b \in ids : Cardinality({a \in ids : score[a] >= score[b]}) <= size}
      open == {b \in ids \ sure :
                 Cardinality({a \in ids : score[a] > score[b]}) < size}
  IN  {sure \cup T : T \in kSubset(size - Cardinality(sure), open)}

\* One member of every set of a function.
OneOfEach(sets) ==
  {c \in [DOMAIN sets -> UNION Range(sets)] :
     \A x \in DOMAIN sets : c[x] \in sets[x]}

\* The projection of every sampled query: a choice of its best blocks.
Projections(k, reps, samples) ==
  OneOfEach([s \in DOMAIN samples |->
             TopBlocks(RepScores(k, reps, samples[s]), ProjectionTopK)])

\* What the KNN list can fill up, in the order of the list.
Fill(list, guided) ==
  LET kept == {i \in DOMAIN list : ~Contains(guided, list[i])}
      order == ByCost(kept, [i \in kept |-> i])
  IN  [n \in DOMAIN order |-> list[order[n]]]

\* build_query_guided: blocks that sampled queries project to together, by
\* how many do, and the KNN list where these are too few.
QueryGuidedGraph(knn, projection) ==
  LET weight(a, b) ==
        Cardinality({s \in DOMAIN projection : {a, b} \subseteq projection[s]})
      partners(a) == {b \in DOMAIN knn \ {a} : weight(a, b) > 0}
      guided(a) == FirstOf(ByCost(partners(a),
                     [b \in partners(a) |-> - weight(a, b)]), Degree)
  IN  [a \in DOMAIN knn |->
         guided(a) \o FirstOf(Fill(knn[a], guided(a)),
                             Max({0, Degree - Len(guided(a))}))]

-----------------------------------------------------------------------------
\* Selections.

\* Mutated form: a block exactly beta below the best is left out.
DiprBlocksStrict(score, beta) ==
  {b \in DOMAIN score : score[b] > Max(Range(score)) - beta}

\* select_dipr_blocks.
DiprBlocks(score, beta) ==
  {b \in DOMAIN score : score[b] >= Max(Range(score)) - beta}

\* _flat_selector for one query head: the blocks whose representatives are
\* within beta of the best, then those of them that are so exactly.
FlatBlocks(approximate, exact, beta) ==
  LET cands == DiprBlocks(approximate, beta)
  IN  DiprBlocks([b \in cands |-> exact[b]], beta)

\* Mutated form: the padded end of a partial block is not cut off.
SelectedTokensPadded(blocks, t, first, recent) ==
  {i \in 0 .. NumBlocks(t) * RBS - 1 :
     \/ i \div RBS \in blocks
     \/ i < first
     \/ i >= t - recent}

\* selected_token_indices: the tokens of the blocks and the two windows.
SelectedTokens(blocks, t, first, recent) ==
  {i \in 0 .. t - 1 :
     \/ i \div RBS \in blocks
     \/ i < first
     \/ i >= t - recent}
=============================================================================
