------------------------- MODULE MC_AggQueryPlan -------------------------
(* Three workers; partial trees of depth 2 as in result_merge_test.go: an  *)
(* optional dimension "1234", any of the measures "foo" and "bar", and     *)
(* two leaf values (numbers, or sketches for Hll).                         *)
EXTENDS AggQueryPlan, ResultMergeTests

MCOps == Lenient
MCDepth == 2

MCLeaves(o) == IF o = "Hll" THEN {{"h1"}, {"h2"}} ELSE {1, 2}

MCPartials(o) ==
  UNION {[D -> UNION {[M -> MCLeaves(o)] : M \in SUBSET {"foo", "bar"}}]
           : D \in SUBSET {"1234"}}

(* The merge engine passes the cases of result_merge_test.go.              *)
MergeMatchesTests == \A c \in MergeTestCases : Passes(c)
=============================================================================
