------------------------------ MODULE M11Engine ------------------------------
(***************************************************************************)
(* The M11 sparse layer runtime (sparse/engine_runtime.py) under the engine*)
(* that serves one request at a time: prefill stores the keys and values   *)
(* of the prompt in a CPU history and freezes an index over them, a decode *)
(* step appends one row, selects blocks with the configured selector,      *)
(* gathers the selected rows and attends to them.  With a graph selector   *)
(* the step runs one search of GraphDIPRS per query head.                  *)
(*                                                                         *)
(* A row of the history records whose it is: the request, the position and *)
(* the token.  A raise ends the engine's life here.                        *)
(***************************************************************************)
EXTENDS GraphDIPRS, BlockGraph

CONSTANTS
  Vocabulary,   \* tokens
  Sampled,      \* those that the model samples (a bound)
  NumHeads,     \* num_attention_heads; there is one KV head
  Key, Query,   \* the key of a token, its queries by query head
  Prompts,      \* the prompts a caller may submit
  NumRequests,  \* how many it submits
  MaxTokens,    \* sampling_params.max_tokens
  Capacity,     \* max_model_len
  Selectors,    \* the values of sparse_selector in use
  MaxSwitches,  \* selector changes while a request runs, at most
  TopK, FirstTokens, QuerySamples, \* sparse_top_k and so on
  RecentWindows \* the values of sparse_recent_tokens in use

ASSUME M11Assumption ==
  /\ Key \in [Vocabulary -> Int]
  /\ Query \in [Vocabulary -> [1 .. NumHeads -> Int]]
  /\ Sampled \subseteq Vocabulary
  /\ Prompts \subseteq Seq(Vocabulary) \ {<<>>}
  /\ {NumHeads, NumRequests, MaxTokens, Capacity, QuerySamples} \subseteq Nat \ {0}
  /\ {TopK, FirstTokens, MaxSwitches} \subseteq Nat
  /\ RecentWindows \subseteq Nat
  /\ Selectors \subseteq {"full", "exact_dipr", "top_k", "mean", "real",
                          "knn_graph", "query_guided"}

VARIABLES
  rows,        \* k_cpu and v_cpu
  validLen, prefillLen,
  reps,        \* the frozen representatives: request, keys and choice
  graph,       \* the frozen graph, or NoGraph
  selector,
  recent,      \* sparse_recent_tokens, fixed
  req,         \* the number of the last request
  sequence,    \* its tokens, the prompt first
  promptLen,
  switches,    \* selector changes since its prefill
  head, union, \* the locals of a decode step that searches
  attended,    \* the positions of the last selection, {} before there is one
  mode,        \* the selector that made it
  pc,          \* where the engine is
  error

m11Vars == <<rows, validLen, prefillLen, reps, graph, selector, recent, req,
             sequence, promptLen, switches, head, union, attended, mode, pc,
             error>>

allVars == <<searchVars, m11Vars>>

GraphSelectors == {"knn_graph", "query_guided"}

NoRow == [req |-> 0, pos |-> 0, token |-> 0]

NoReps == [req |-> 0, keys |-> <<>>, chosen |-> <<>>]
NoGraph == [of |-> NoReps, adj |-> <<>>]

Heads == 1 .. NumHeads

\* _current_k_f32.
CurrentKeys == [i \in 0 .. validLen - 1 |-> Key[rows[i].token]]

\* The queries of the token being decoded, by head.
CurrentQuery == Query[rows[validLen - 1].token]

\* Where the engine is after the n-th token of a request: an end token may
\* finish it early.
AfterToken(n) == IF n < MaxTokens THEN {"running", "idle"} ELSE {"idle"}

-----------------------------------------------------------------------------
\* Prefill.

\* round() of x / d: the nearest integer, of two equally near the even one.
Rounded(x, d) ==
  LET low == x \div d
      rest == 2 * (x % d)
  IN  IF rest < d \/ (rest = d /\ low % 2 = 0) THEN low ELSE low + 1

\* _sample_queries: positions spread evenly over all but the last one.
Samples(t) ==
  LET n == Min({QuerySamples, t - 1})
  IN  IF n = 1 THEN {0}
      ELSE {Rounded(i * (t - 2), n - 1) : i \in 0 .. n - 1}

\* The queries of the sampled positions, of every head.
SampledQueries(p) ==
  [s \in Samples(Len(p)) \X Heads |-> Query[p[s[1] + 1]][s[2]]]

\* Mutated form: a graph that exists is kept.
BuiltGraphsOnce ==
  IF selector \in GraphSelectors /\ graph = NoGraph
  THEN {[of |-> reps, adj |-> KnnGraph(reps.keys, reps.chosen)]}
  ELSE {graph}

\* Mutated form: one of the graph selectors gets no graph.
NeedsGraphKnn(name) == name = "knn_graph"

NeedsGraph(name) == name \in GraphSelectors

\* The graphs prefill may build for the selector in force.
BuiltGraphs ==
  LET knn == KnnGraph(reps.keys, reps.chosen)
  IN  IF ~NeedsGraph(selector) THEN {graph}
      ELSE IF selector = "knn_graph" THEN {[of |-> reps, adj |-> knn]}
      ELSE {[of |-> reps, adj |-> QueryGuidedGraph(knn, projection)] :
              projection \in Projections(reps.keys, reps.chosen,
                                         SampledQueries(sequence))}

\* SparseLayerRuntime.prefill for the next request: the rows of the prompt
\* overwrite the first rows, the later rows of an earlier request stay, and
\* the keys of the prompt are frozen with their representatives.
Prefill(p) ==
  /\ pc = "idle" /\ req < NumRequests
  /\ Len(p) \in 2 .. Capacity
  /\ req' = req + 1
  /\ rows' = [i \in DOMAIN rows |->
                IF i < Len(p)
                THEN [req |-> req + 1, pos |-> i, token |-> p[i + 1]]
                ELSE rows[i]]
  /\ validLen' = Len(p) /\ prefillLen' = Len(p)
  /\ LET keys == [i \in 0 .. Len(p) - 1 |-> Key[p[i + 1]]]
     IN  reps' = [req |-> req + 1, keys |-> keys, chosen |-> BlockReps(keys)]
  /\ sequence' = p /\ promptLen' = Len(p) /\ switches' = 0
  /\ attended' = {} /\ mode' = selector
  /\ pc' = "index"
  /\ UNCHANGED <<searchVars, graph, selector, recent, head, union, error>>

\* The end of prefill: the graph is built over the frozen keys if the
\* selector needs one, otherwise the graph of an earlier request stays; the
\* first token is sampled.
BuildIndex ==
  /\ pc = "index"
  /\ graph' \in BuiltGraphs
  /\ \E t \in Sampled : sequence' = Append(sequence, t)
  /\ pc' \in AfterToken(1)
  /\ UNCHANGED <<searchVars, rows, validLen, prefillLen, reps, selector,
                 recent, req, promptLen, switches, head, union, attended,
                 mode, error>>

\* The assertion on a prompt of one token, and the capacity check.
RejectPrompt(p) ==
  /\ pc = "idle" /\ req < NumRequests
  /\ Len(p) \notin 2 .. Capacity
  /\ pc' = "raised" /\ error' = "prompt"
  /\ UNCHANGED <<searchVars, rows, validLen, prefillLen, reps, graph,
                 selector, recent, req, sequence, promptLen, switches, head,
                 union, attended, mode>>

-----------------------------------------------------------------------------
\* Decode.

Raise(what) == pc' = "raised" /\ error' = what

\* The selectors that need no search: the masks they may give.  full takes
\* the blocks of the prefill, exact_dipr and top_k score all the rows, mean
\* and real only the frozen ones.
Selections ==
  LET exact(h) == ExactScores(CurrentKeys, CurrentQuery[h])
      flat(h) ==
        LET q == CurrentQuery[h]
        IN  FlatBlocks(IF selector = "mean" THEN MeanScores(reps.keys, q)
                       ELSE RepScores(reps.keys, reps.chosen, q),
                       ExactScores(reps.keys, q), Beta)
  IN  CASE selector = "full" -> {BlockIds(prefillLen)}
        [] selector = "exact_dipr" ->
             {UNION {DiprBlocks(exact(h), Beta) : h \in Heads}}
        [] selector = "top_k" ->
             {UNION Range(choice) : choice \in
                OneOfEach([h \in Heads |-> TopBlocks(exact(h), TopK)])}
        [] OTHER -> {UNION {flat(h) : h \in Heads}}

HistoryFull == validLen + 1 > Capacity

\* decode for the last token of the sequence: its row is appended.
Decode ==
  /\ pc = "running" /\ ~HistoryFull
  /\ rows' = [rows EXCEPT ![validLen] =
                [req |-> req, pos |-> validLen,
                 token |-> sequence[validLen + 1]]]
  /\ validLen' = validLen + 1
  /\ mode' = selector
  /\ pc' = "select"
  /\ UNCHANGED <<searchVars, prefillLen, reps, graph, selector, recent, req,
                 sequence, promptLen, switches, head, union, attended, error>>

\* _run_selector, for a selector that needs no graph.
Select ==
  /\ pc = "select" /\ selector \notin GraphSelectors
  /\ union' \in Selections
  /\ pc' = "gather"
  /\ UNCHANGED <<searchVars, rows, validLen, prefillLen, reps, graph,
                 selector, recent, req, sequence, promptLen, switches, head,
                 attended, mode, error>>

\* An AttributeError: the selector became a graph selector after a prefill
\* that built no graph.  The row stays appended.
SelectWithoutGraph ==
  /\ pc = "select" /\ selector \in GraphSelectors
  /\ graph = NoGraph
  /\ Raise("no graph")
  /\ UNCHANGED <<searchVars, rows, validLen, prefillLen, reps, graph,
                 selector, recent, req, sequence, promptLen, switches, head,
                 union, attended, mode>>

\* The capacity check, before anything is written.
DecodeBeyondCapacity ==
  /\ pc = "running" /\ HistoryFull
  /\ Raise("capacity")
  /\ UNCHANGED <<searchVars, rows, validLen, prefillLen, reps, graph,
                 selector, recent, req, sequence, promptLen, switches, head,
                 union, attended, mode>>

\* graph.search for the next query head.
StartSearch ==
  /\ pc = "select" /\ selector \in GraphSelectors
  /\ graph # NoGraph
  /\ LET frozen == graph.of
         q == CurrentQuery[head]
     IN  Search([n |-> Cardinality(DOMAIN graph.adj),
                 adj |-> graph.adj,
                 rep |-> RepScores(frozen.keys, frozen.chosen, q),
                 exact |-> ExactScores(frozen.keys, q)])
  /\ pc' = "search"
  /\ UNCHANGED <<rows, validLen, prefillLen, reps, graph, selector, recent,
                 req, sequence, promptLen, switches, head, union, attended,
                 mode, error>>

RunSearch ==
  /\ pc = "search" /\ SearchStep
  /\ UNCHANGED m11Vars

\* Mutated form: the loop stays at one query head.
NextHeadSame == head

NextHead == head + 1

\* The blocks found are marked in a mask of the blocks of this prefill.
CollectSearch ==
  /\ pc = "search" /\ Collected
  /\ \/ /\ final \subseteq BlockIds(prefillLen)
        /\ union' = union \cup final
        /\ head' = NextHead
        /\ pc' = (IF NextHead \in Heads THEN "select" ELSE "gather")
        /\ UNCHANGED error
     \/ /\ ~(final \subseteq BlockIds(prefillLen))
        /\ Raise("mask")
        /\ UNCHANGED <<union, head>>
  /\ UNCHANGED <<rows, validLen, prefillLen, reps, graph, selector, recent,
                 req, sequence, promptLen, switches, attended, mode>>

Selected == SelectedTokens(union, validLen, FirstTokens, recent)

\* The selected rows are gathered and attended to, and a token is sampled.
Attend ==
  /\ pc = "gather"
  /\ validLen - 1 \in Selected
  /\ attended' = Selected
  /\ \E t \in Sampled : sequence' = Append(sequence, t)
  /\ pc' \in AfterToken(Len(sequence) + 1 - promptLen)
  /\ head' = 1 /\ union' = {}
  /\ UNCHANGED <<searchVars, rows, validLen, prefillLen, reps, graph,
                 selector, recent, req, promptLen, switches, mode, error>>

\* assert indices[-1] == valid_len - 1.
AssertCurrent ==
  /\ pc = "gather"
  /\ validLen - 1 \notin Selected
  /\ Raise("window")
  /\ UNCHANGED <<searchVars, rows, validLen, prefillLen, reps, graph,
                 selector, recent, req, sequence, promptLen, switches, head,
                 union, attended, mode>>

-----------------------------------------------------------------------------
\* The calls of the engine's owner: sparse_reset between two requests, and
\* sparse_set_selector between two steps.
Reset ==
  /\ pc = "idle"
  /\ validLen' = 0 /\ prefillLen' = 0
  /\ reps' = NoReps /\ graph' = NoGraph
  /\ attended' = {}
  /\ UNCHANGED <<searchVars, rows, selector, recent, req, sequence,
                 promptLen, switches, head, union, mode, pc, error>>

SetSelector(name) ==
  /\ pc \in {"idle", "running"}
  /\ pc = "running" => switches < MaxSwitches
  /\ name # selector
  /\ selector' = name
  /\ switches' = (IF pc = "running" THEN switches + 1 ELSE switches)
  /\ UNCHANGED <<searchVars, rows, validLen, prefillLen, reps, graph, recent,
                 req, sequence, promptLen, head, union, attended, mode, pc,
                 error>>

M11Init ==
  /\ SearchInit
  /\ rows = [i \in 0 .. Capacity - 1 |-> NoRow]
  /\ validLen = 0 /\ prefillLen = 0
  /\ reps = NoReps /\ graph = NoGraph
  /\ selector \in Selectors
  /\ recent \in RecentWindows
  /\ req = 0 /\ sequence = <<>> /\ promptLen = 0 /\ switches = 0
  /\ head = 1 /\ union = {} /\ attended = {} /\ mode = selector
  /\ pc = "idle" /\ error = "none"

\* The searches of a decode step, one query head after the other.
SearchWork == StartSearch \/ RunSearch \/ CollectSearch

M11Next ==
  \/ \E p \in Prompts : Prefill(p) \/ RejectPrompt(p)
  \/ BuildIndex
  \/ Decode \/ DecodeBeyondCapacity
  \/ Select \/ SelectWithoutGraph \/ SearchWork
  \/ Attend \/ AssertCurrent
  \/ Reset
  \/ \E name \in Selectors : SetSelector(name)

\* The loops of a decode step run on until they end.
M11Spec == M11Init /\ [][M11Next]_allVars /\ WF_allVars(SearchWork)

-----------------------------------------------------------------------------
\* After an attention, before the next step.
Answered == pc \in {"running", "idle"} /\ attended # {}

\* What a decode step attends to is the running request's own history,
\* position by position: no row that a longer earlier request left in the
\* history, none that is not yet written, and the current token with the
\* first and the most recent tokens whatever blocks the selector chose.
GathersOwnRows ==
  Answered =>
    /\ \A i \in attended : rows[i] = [req |-> req, pos |-> i,
                                      token |-> sequence[i + 1]]
    /\ Len(sequence) - 2 \in attended
    /\ \A i \in 0 .. Len(sequence) - 2 :
         i < FirstTokens \/ i > Len(sequence) - 2 - recent => i \in attended

\* The exact selector has recall one: whichever query head finds a token of
\* the history within beta of its best, prompt or generated, the token is
\* attended to (critical_token_recall), although whole blocks are selected
\* and the last block is partial.
CriticalCovered ==
  Answered /\ mode = "exact_dipr" =>
    \A h \in Heads, i \in DOMAIN CurrentKeys :
      (\A j \in DOMAIN CurrentKeys :
         CurrentQuery[h] * CurrentKeys[i]
           >= CurrentQuery[h] * CurrentKeys[j] - Beta) => i \in attended

\* A search walks the graph of the request that is running: its blocks are
\* those of the prompt at hand and its frozen keys are the keys in the
\* history now, unless the selector was changed since the prefill (which
\* leaves the graph of an earlier request in place).
IndexOfThisRequest ==
  pc = "search" /\ switches = 0 =>
    /\ graph.of.req = req
    /\ DOMAIN graph.adj = BlockIds(prefillLen)
    /\ graph.of.keys = [i \in 0 .. prefillLen - 1 |-> Key[rows[i].token]]

\* A request fails only for a reason its owner can avoid: a prompt outside
\* the limits, a prompt and max_tokens beyond max_model_len, no recent
\* window, or a selector changed while it runs.
RaisesOnlyAvoidably ==
  /\ error \in {"no graph", "mask"} => switches > 0
  /\ error = "window" => recent = 0
  /\ error = "capacity" => promptLen + MaxTokens > Capacity + 1

\* The searches of a decode step end, whatever cycles the graph has: all the
\* query heads are served and the step goes on to gather, unless the graph is
\* one that a changed selector left behind.
SearchesEnd == pc = "search" ~> pc \in {"gather", "raised"}

=============================================================================
