------------------------- MODULE StreamingScanNode -------------------------
(***************************************************************************)
(* StreamingScanNode.Execute (src/broker/query_plan_non_agg.go): up to     *)
(* rpcRetries calls of DataNodeQueryClient.QueryRaw for one host, as a     *)
(* pure function of the calls' outcomes.  A byte slice is abstracted to    *)
(* Nil or its number of rows.                                              *)
(***************************************************************************)
EXTENDS Naturals, Sequences

CONSTANTS
  MaxRows,     \* bound on the rows one datanode returns
  RpcRetries,  \* rpcRetries: attempts of QueryRaw per node
  Nil          \* a nil []byte

ASSUME /\ MaxRows \in Nat
       /\ RpcRetries \in Nat \ {0}

(* DataNodeQueryClient.QueryRaw: any byte slice (nil, or some rows) with   *)
(* or without an error; the client interface does not exclude bytes       *)
(* together with an error, and the mock returns both values as given.      *)
Outcome == [bs : {Nil} \cup 0..MaxRows, fail : BOOLEAN]

(* StreamingScanNode.Execute: the retry loop over the attempts' outcomes.  *)
(* bs is overwritten by every attempt, err is set by every failed attempt  *)
(* and never reset by a later success; the loop stops at the first success.*)
RECURSIVE ScanLoop(_, _)
ScanLoop(attempts, st) ==
  IF attempts = <<>> THEN st
  ELSE LET a == Head(attempts) IN
       IF a.fail THEN ScanLoop(Tail(attempts), [bs |-> a.bs, err |-> TRUE])
                 ELSE [bs |-> a.bs, err |-> st.err]

(* After the loop: `if bs != nil { err = nil }`.                           *)
ExecuteResult(attempts) ==
  LET st == ScanLoop(attempts, [bs |-> Nil, err |-> FALSE])
  IN  [rows |-> st.bs, err |-> st.err /\ st.bs = Nil]

(* Every result a StreamingScanNode can produce in RpcRetries attempts.    *)
ScanResults == {ExecuteResult(a) : a \in [1..RpcRetries -> Outcome]}

=============================================================================
