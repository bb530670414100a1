------------------------------ MODULE MCMetrics ------------------------------
(* The engine with a CPU tier and its metrics.                               *)
EXTENDS EngineMetrics

CONSTANTS b1, b2, b3, x, y

\* One complete block, which a completion outgrows, and a prompt that shares it.
\* Together they outgrow three blocks, and so does the longer one with its
\* completion.
MCPrompts == {<<x, x>>, <<x, x, x, x, x>>}
=============================================================================
