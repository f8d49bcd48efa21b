------------------------- MODULE ResultMergeTests -------------------------
(***************************************************************************)
(* The cases of src/broker/result_merge_test.go as data: each is the op,   *)
(* the two trees the test unmarshals and what it expects, a tree or the    *)
(* shape-mismatch error ("error calculating avg").  The test trees have    *)
(* depth 2: a dimension key, then measure keys, then leaves.               *)
(***************************************************************************)
EXTENDS ResultMerge

(* {"1234": m}                                                             *)
Dim(m) == "1234" :> m

Case(op, lhs, rhs, expect) == [op |-> op, lhs |-> lhs, rhs |-> rhs, expect |-> expect]

(* "sum/count should work same shape" and "... different shape": the two  *)
(* additive operators get the same cases.                                  *)
AdditiveCases(op) ==
  { Case(op, Dim("foo" :> 123 @@ "bar" :> 2), Dim("foo" :> 1 @@ "bar" :> 1),
         Dim("foo" :> 124 @@ "bar" :> 3)),
    Case(op, EmptyTree, EmptyTree, EmptyTree),
    Case(op, Dim("foo" :> 123), Dim("foo" :> 1 @@ "bar" :> 1),
         Dim("foo" :> 124 @@ "bar" :> 1)),
    Case(op, EmptyTree, Dim("foo" :> 1 @@ "bar" :> 1), Dim("foo" :> 1 @@ "bar" :> 1)),
    Case(op, Dim("foo" :> 123), EmptyTree, Dim("foo" :> 123)) }

SumCases == AdditiveCases("Sum")

CountCases == AdditiveCases("Count")

(* "max should work same shape" and "... different shape".                 *)
MaxCases ==
  { Case("Max", Dim("foo" :> 2 @@ "bar" :> 1), Dim("foo" :> 1 @@ "bar" :> 2),
         Dim("foo" :> 2 @@ "bar" :> 2)),
    Case("Max", EmptyTree, EmptyTree, EmptyTree),
    Case("Max", Dim("foo" :> 2), Dim("foo" :> 1 @@ "bar" :> 1),
         Dim("foo" :> 2 @@ "bar" :> 1)),
    Case("Max", EmptyTree, Dim("foo" :> 1 @@ "bar" :> 1), Dim("foo" :> 1 @@ "bar" :> 1)),
    Case("Max", Dim("foo" :> 123), EmptyTree, Dim("foo" :> 123)) }

(* "min should work same shape" and "... different shape".                 *)
MinCases ==
  { Case("Min", Dim("foo" :> 2 @@ "bar" :> 1), Dim("foo" :> 1 @@ "bar" :> 2),
         Dim("foo" :> 1 @@ "bar" :> 1)),
    Case("Min", EmptyTree, EmptyTree, EmptyTree),
    Case("Min", Dim("foo" :> 2), Dim("foo" :> 1 @@ "bar" :> 1),
         Dim("foo" :> 1 @@ "bar" :> 1)),
    Case("Min", EmptyTree, Dim("foo" :> 1 @@ "bar" :> 1), Dim("foo" :> 1 @@ "bar" :> 1)),
    Case("Min", Dim("foo" :> 123), EmptyTree, Dim("foo" :> 123)) }

(* "avg should error different shape": unequal key sets at any level,      *)
(* the empty tree included.                                                *)
AvgErrorCases ==
  { Case("Avg", Dim("foo" :> 2), Dim("foo" :> 1 @@ "bar" :> 1), ShapeMismatch),
    Case("Avg", EmptyTree, Dim("foo" :> 1 @@ "bar" :> 1), ShapeMismatch),
    Case("Avg", Dim("foo" :> 123), EmptyTree, ShapeMismatch) }

(* "hll should work same shape": a result merged with itself is itself.    *)
(* The sketches of the test data are abstracted to sets of hashes.         *)
HllCases ==
  LET x == Dim("foo" :> {"h1"} @@ "bar" :> {"h1", "h2"})
  IN  { Case("Hll", x, x, x) }

MergeTestCases == SumCases \cup CountCases \cup MaxCases \cup MinCases
                    \cup AvgErrorCases \cup HllCases

(* runTests: run the merge; an expected error must be the error, otherwise *)
(* there must be no error and the result must equal the expected tree.     *)
Passes(c) == Merge(c.op, 2, c.lhs, c.rhs) = c.expect
=============================================================================
