---------------------------- MODULE ResultMerge ----------------------------
(***************************************************************************)
(* The result merge engine (C5): merge(lhs, rhs, op) of two aggregate      *)
(* result trees.  result_merge.go is not in the repository; the engine is *)
(* modelled from spec.md 4.4 and checked against the cases of              *)
(* src/broker/result_merge_test.go.                                         *)
(*                                                                         *)
(* A tree of depth d > 0 is a function from keys to trees of depth d - 1;  *)
(* a tree of depth 0 is a leaf: a number, a [sum, count] pair for Avg, a   *)
(* sketch (the set of hashed values it has seen) for Hll.  The empty tree *)
(* is the function with an empty domain.                                   *)
(***************************************************************************)
EXTENDS Integers, FiniteSets, TLC

CONSTANT ShapeMismatch   \* the error of a strict operator on unequal key sets

Lenient == {"Sum", "Count", "Min", "Max", "Hll"}
Strict == {"Avg"}

EmptyTree == [k \in {} |-> 0]

(* The leaf combiner of each operator (spec.md 4.4, table).               *)
Combine(op, a, b) ==
  CASE op \in {"Sum", "Count"} -> a + b
    [] op = "Min"              -> IF a <= b THEN a ELSE b
    [] op = "Max"              -> IF a >= b THEN a ELSE b
    [] op = "Avg"              -> <<a[1] + b[1], a[2] + b[2]>>
    [] op = "Hll"              -> a \cup b

(* The merged interior node, or the first error of a child.                *)
Join(l, r, kids) ==
  IF \E k \in DOMAIN kids : kids[k] = ShapeMismatch THEN ShapeMismatch
  ELSE [k \in DOMAIN l \cup DOMAIN r |->
          IF k \in DOMAIN kids THEN kids[k]
          ELSE IF k \in DOMAIN l THEN l[k] ELSE r[k]]

(* Mutant of MergeAt: a lenient merge keeps only the keys of lhs.          *)
RECURSIVE MergeAtLhsKeys(_, _, _, _)
MergeAtLhsKeys(op, d, l, r) ==
  IF d = 0 THEN Combine(op, l, r)
  ELSE IF op \in Strict /\ DOMAIN l # DOMAIN r THEN ShapeMismatch
  ELSE LET both == DOMAIN l \cap DOMAIN r
           kids == [k \in both |-> MergeAtLhsKeys(op, d - 1, l[k], r[k])]
       IN  Join(l, [k \in DOMAIN r \cap DOMAIN l |-> r[k]], kids)

(* The structure-directed walk: at an interior node a strict operator      *)
(* requires equal key sets, a lenient one takes their union and keeps a    *)
(* subtree present on one side unchanged; matched children are merged and *)
(* the first error short-circuits the result.                              *)
RECURSIVE MergeAt(_, _, _, _)
MergeAt(op, d, l, r) ==
  IF d = 0 THEN Combine(op, l, r)
  ELSE IF op \in Strict /\ DOMAIN l # DOMAIN r THEN ShapeMismatch
  ELSE LET both == DOMAIN l \cap DOMAIN r
           kids == [k \in both |-> MergeAt(op, d - 1, l[k], r[k])]
       IN  Join(l, r, kids)

(* newResultMergeContext(op).run(lhs, rhs) on trees of depth d.            *)
Merge(op, d, lhs, rhs) == MergeAt(op, d, lhs, rhs)
=============================================================================
