---------------------------- MODULE EngineMetrics ----------------------------
(***************************************************************************)
(* The cache metrics (kvdb/metrics.py) at the places from which the        *)
(* scheduler, the model runner and generate() call them.  Timings and      *)
(* transfer bytes are left out.                                            *)
(***************************************************************************)
EXTENDS Engine

VARIABLES
  metrics,  \* the counters of CacheMetrics
  lookup,   \* what record_lookup was told of a request; NoLookup while
            \* seq.metrics_lookup_recorded is not set
  window    \* the requests recorded since the last reset

metricVars == <<metrics, lookup, window>>

NoLookup == [blocks |-> 0, tier |-> "none"]

NoMetrics ==
  [requests |-> 0, hits |-> 0, misses |-> 0, gpuHitBlocks |-> 0,
   cpuHitBlocks |-> 0, reusedTokens |-> 0, recomputedTokens |-> 0,
   prefillExecuted |-> 0, decodeExecuted |-> 0, cpuLoadFailures |-> 0]

MetricsInit ==
  /\ EngineInit
  /\ metrics = NoMetrics /\ lookup = [s \in Seqs |-> NoLookup] /\ window = {}

-----------------------------------------------------------------------------
(* CacheMetrics *)

\* record_lookup.
Recorded(m, k, total, tier) ==
  [m EXCEPT !.requests = @ + 1,
            !.reusedTokens = @ + k * BlockSize,
            !.recomputedTokens = @ + total - k * BlockSize,
            !.hits = IF k > 0 THEN @ + 1 ELSE @,
            !.misses = IF k > 0 THEN @ ELSE @ + 1,
            !.gpuHitBlocks = IF tier = "gpu" THEN @ + k ELSE @,
            !.cpuHitBlocks = IF tier = "cpu" THEN @ + k ELSE @]

\* Mutated form: the blocks are taken from the other tier.
FallbackFromGpu(m, k) ==
  [m EXCEPT !.cpuLoadFailures = @ + 1,
            !.hits = @ - 1, !.misses = @ + 1, !.gpuHitBlocks = @ - k,
            !.reusedTokens = @ - k * BlockSize,
            !.recomputedTokens = @ + k * BlockSize]

\* record_cpu_restore_fallback.
Fallback(m, k) ==
  [m EXCEPT !.cpuLoadFailures = @ + 1,
            !.hits = @ - 1, !.misses = @ + 1, !.cpuHitBlocks = @ - k,
            !.reusedTokens = @ - k * BlockSize,
            !.recomputedTokens = @ + k * BlockSize]

\* Mutated form: a lookup is recorded each time a request is admitted.
LooksUpAgain ==
  /\ pc = "prefill" /\ waiting # <<>> /\ Len(batch) < MaxNumSeqs /\ budget > 0
  /\ LET s == Head(waiting)
     IN  blockTable[s] = <<>> /\ HitBlocksOf(s) # -1

\* schedule() records the first lookup of a request, and it does so before it
\* knows whether the request fits what is left of the budget.
LooksUp ==
  /\ pc = "prefill" /\ waiting # <<>> /\ Len(batch) < MaxNumSeqs /\ budget > 0
  /\ LET s == Head(waiting)
     IN  blockTable[s] = <<>> /\ HitBlocksOf(s) # -1 /\ lookup[s] = NoLookup

RecordLookup ==
  LET s == Head(waiting)
      tier == IF UseCpu(s) THEN "cpu" ELSE "gpu"
  IN  /\ metrics' = Recorded(metrics, HitBlocksOf(s), Len(tokens[s]), tier)
      /\ lookup' = [lookup EXCEPT ![s] =
                      [blocks |-> HitBlocksOf(s), tier |-> tier]]
      /\ window' = window \cup {s}

RecordFallback ==
  /\ \E s \in Pending : metrics' = Fallback(metrics, cpuHandles[s])
  /\ UNCHANGED <<lookup, window>>

TotalScheduled(seqs) == FoldSeq(LAMBDA s, n : scheduled[s] + n, 0, seqs)

\* record_executed_tokens.
RecordExecuted ==
  /\ metrics' =
       (IF prefillStep
        THEN [metrics EXCEPT !.prefillExecuted = @ + TotalScheduled(batch)]
        ELSE [metrics EXCEPT !.decodeExecuted = @ + TotalScheduled(batch)])
  /\ UNCHANGED <<lookup, window>>

\* generate() resets the metrics: a request that finds the engine empty opens
\* a window of its own.
Window ==
  IF waiting \o running = <<>>
  THEN metrics' = NoMetrics /\ window' = {}
  ELSE UNCHANGED <<metrics, window>>

-----------------------------------------------------------------------------
\* The steps of generate(), with what is counted in each.
MeasuredStep ==
  \/ /\ StepControl /\ UNCHANGED <<kv, restored>>
     /\ IF LooksUp THEN RecordLookup ELSE UNCHANGED metricVars
  \/ (RestoreBlock \/ RestoreDone) /\ UNCHANGED metricVars
  \/ RestoreFails /\ RecordFallback
  \/ Run /\ StoreKV /\ UNCHANGED restored /\ RecordExecuted

MetricsNext ==
  \/ Arrivals /\ Window /\ UNCHANGED <<kv, restored, lookup>>
  \/ ClearGpuPrefixCache /\ UNCHANGED <<kv, restored, metricVars>>
  \/ MeasuredStep

measuredVars == <<engineVars, metricVars>>

\* generate() keeps stepping.
MetricsSpec ==
  MetricsInit /\ [][MetricsNext]_measuredVars /\ WF_measuredVars(MeasuredStep)

-----------------------------------------------------------------------------
(* Properties *)

TotalPrompt(seqs) == FoldSet(LAMBDA s, n : numPrompt[s] + n, 0, seqs)

\* The counters of a window describe its requests, each of them once, however
\* often they were preempted, looked up again or rolled back: hits and misses
\* add up to the requests, the blocks hit in either tier to the tokens reused,
\* and the tokens reused or recomputed to the prompts.
MetricsBalance ==
  /\ metrics.requests = Cardinality(window)
  /\ metrics.hits + metrics.misses = metrics.requests
  /\ metrics.reusedTokens
       = (metrics.gpuHitBlocks + metrics.cpuHitBlocks) * BlockSize
  /\ metrics.reusedTokens + metrics.recomputedTokens = TotalPrompt(window)

\* The requests of the window whose restore has failed: the CPU tier is closed
\* for them.
Fallen == {s \in window : lookup[s].tier = "cpu" /\ cpuHandles[s] = 0}

BlocksFound(tier, seqs) ==
  FoldSet(LAMBDA s, n : lookup[s].blocks + n, 0,
          {s \in seqs : lookup[s].tier = tier})

\* The fallbacks that were not of a hit in the CPU tier: the request's first
\* lookup had found blocks on the GPU, the request was preempted, and it was a
\* second lookup, which is not recorded, that chose the CPU tier.
StrayFallbacks == metrics.cpuLoadFailures - Cardinality(Fallen)

\* A fallback takes back the hit of its own request and of no other.  The
\* requests that did not fall back account for the hits and for the blocks hit
\* in either tier, except for what the stray fallbacks took: one hit each, and
\* blocks that the CPU tier had never been credited with.
HitsAccounted ==
  LET served == window \ Fallen
  IN  /\ StrayFallbacks >= 0
      /\ metrics.hits
           = Cardinality({s \in served : lookup[s].blocks > 0}) - StrayFallbacks
      /\ metrics.gpuHitBlocks = BlocksFound("gpu", served)
      /\ metrics.cpuHitBlocks <= BlocksFound("cpu", served) - StrayFallbacks
      /\ StrayFallbacks = 0 => metrics.cpuHitBlocks = BlocksFound("cpu", served)

\* record_lookup and record_cpu_restore_fallback together keep the counters in
\* balance with the requests of the window, and wrong in one place only, by as
\* much as the stray fallbacks took.
MetricsHonest == MetricsBalance /\ HitsAccounted

\* docs/end_to_end_reuse.md: a restore that fails changes the metrics from a
\* CPU hit to a miss.  The blocks hit in the CPU tier are then those of the
\* requests whose hit stands.  Stray fallbacks violate this, and can take the
\* counter below zero.
FallbackTakesCpuHit ==
  metrics.cpuHitBlocks = BlocksFound("cpu", window \ Fallen)
=============================================================================
