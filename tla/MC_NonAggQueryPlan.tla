------------------------ MODULE MC_NonAggQueryPlan ------------------------
(* Model-checking instance of NonAggQueryPlan: three datanodes, up to two  *)
(* rows each, three attempts per node, and the limits that exercise the   *)
(* unlimited path, limit 0, truncation inside a partial, and a limit no   *)
(* run of partials reaches.                                               *)
EXTENDS NonAggQueryPlan

MCLimits == {-1, 0, 2, 4}
MCMaxRows == 2
MCRpcRetries == 3
=============================================================================
