--------------------------- MODULE MCSparseEngine ---------------------------
(* Model-checking instances of the sparse engine.                           *)
EXTENDS SparseEngine

\* Each selector and each rule, in pairs.
MCConfigs ==
  {[selector |-> "eager", rule |-> "fixed"],
   [selector |-> "eager", rule |-> "relative"],
   [selector |-> "eager", rule |-> "union"],
   [selector |-> "graph", rule |-> "dynamic"],
   [selector |-> "static", rule |-> "fixed"]}

MCPlainConfig == {[selector |-> "eager", rule |-> "fixed"]}
=============================================================================
