---------------------------- MODULE AggQueryPlan ----------------------------
(***************************************************************************)
(* The aggregate query plan (C6), spec.md 4.5 and 5; its code is not in    *)
(* the repository.  One worker per host runs the datanode client's Query   *)
(* and pushes (result, err) onto a channel with room for every worker.     *)
(* The reducer starts from the empty tree, merges each successful partial *)
(* in arrival order with ResultMerge, and on the first error (a worker's   *)
(* or the merge's) cancels the query context, drains the remaining         *)
(* results without merging them and returns the error.                     *)
(*                                                                         *)
(* A worker whose context is cancelled returns Cancelled.                  *)
(***************************************************************************)
EXTENDS Integers, Sequences, FiniteSetsExt, Functions, ResultMerge

CONSTANTS
  Nodes,        \* the hosts of the shard assignment, one worker each
  Ops,          \* the aggregation operators a query may use
  Depth,        \* the depth of the result trees
  Partials(_),  \* the result trees a datanode may return for an operator
  TransportErr, \* Query failed after its retries
  Cancelled,    \* Query aborted by the cancelled context
  NoErr         \* no error

VARIABLES
  op,         \* the query's operator
  wpc,        \* each worker's program counter
  wres,       \* what each worker's Query returned
  chan,       \* the result channel: (node, result) in send order
  cancelled,  \* the query context is cancelled
  acc,        \* the reducer's accumulated tree
  err,        \* the first error the reducer met
  recvd,      \* results received so far
  rpc,        \* the reducer's program counter
  returned    \* what Execute returned

vars == <<op, wpc, wres, chan, cancelled, acc, err, recvd, rpc, returned>>

N == Cardinality(Nodes)

Errors == {TransportErr, Cancelled, ShapeMismatch}

-----------------------------------------------------------------------------
(* The workers are spawned; acc is the operator's identity, the empty tree. *)
Init ==
  /\ op \in Ops
  /\ wpc = [n \in Nodes |-> "query"]
  /\ wres = [n \in Nodes |-> NoErr]
  /\ chan = <<>>
  /\ cancelled = FALSE
  /\ acc = EmptyTree
  /\ err = NoErr
  /\ recvd = 0
  /\ rpc = "loop"
  /\ returned = NoErr

(* DataNodeQueryClient.Query as mocked: whatever (result, error) pair the  *)
(* test gives it.  A result paired with an error is the error to the       *)
(* worker, a nil result with no error the empty tree.                      *)
QueryOutcomes(o) == Partials(o) \cup {TransportErr}

(* Worker n: Query(ctx, host, query) and the send of its outcome; the      *)
(* channel has room for every worker, so the send never blocks.            *)
Worker(n) ==
  /\ wpc[n] = "query"
  /\ \E r \in IF cancelled THEN {Cancelled} ELSE QueryOutcomes(op) :
       /\ wres' = [wres EXCEPT ![n] = r]
       /\ chan' = Append(chan, <<n, r>>)
  /\ wpc' = [wpc EXCEPT ![n] = "done"]
  /\ UNCHANGED <<op, cancelled, acc, err, recvd, rpc, returned>>

(* The first error: cancel the context and drain.                          *)
Fail(e) ==
  /\ err' = e
  /\ cancelled' = TRUE
  /\ rpc' = "drain"
  /\ UNCHANGED acc

(* Receive a result; merge a partial into acc, or fail on an error of the  *)
(* worker or of the merge.                                                 *)
Receive ==
  /\ rpc = "loop" /\ chan # <<>>
  /\ chan' = Tail(chan)
  /\ recvd' = recvd + 1
  /\ LET r == Head(chan)[2] IN
       IF r \in Errors THEN Fail(r)
       ELSE LET m == Merge(op, Depth, acc, r) IN
            IF m = ShapeMismatch THEN Fail(ShapeMismatch)
            ELSE /\ acc' = m
                 /\ UNCHANGED <<err, cancelled, rpc>>
  /\ UNCHANGED <<op, wpc, wres, returned>>

(* Mutant of Drain: a drained result is not counted.                       *)
DrainUncounted ==
  /\ rpc = "drain" /\ chan # <<>>
  /\ chan' = Tail(chan)
  /\ UNCHANGED <<op, wpc, wres, cancelled, acc, err, recvd, rpc, returned>>

(* Receive a result after the first error and drop it.                     *)
Drain ==
  /\ rpc = "drain" /\ chan # <<>>
  /\ chan' = Tail(chan)
  /\ recvd' = recvd + 1
  /\ UNCHANGED <<op, wpc, wres, cancelled, acc, err, rpc, returned>>

(* Mutant of Finish: the reducer stops one result early.                   *)
FinishEarly ==
  /\ rpc \in {"loop", "drain"} /\ recvd >= N - 1
  /\ rpc' = "done"
  /\ returned' = IF rpc = "drain" THEN err ELSE acc
  /\ UNCHANGED <<op, wpc, wres, chan, cancelled, acc, err, recvd>>

(* Every worker's result received: return the error, or the tree.          *)
Finish ==
  /\ rpc \in {"loop", "drain"} /\ recvd = N
  /\ rpc' = "done"
  /\ returned' = IF rpc = "drain" THEN err ELSE acc
  /\ UNCHANGED <<op, wpc, wres, chan, cancelled, acc, err, recvd>>

Next ==
  \/ \E n \in Nodes : Worker(n)
  \/ Receive \/ Drain \/ Finish

(* The workers and the reducer are goroutines the runtime schedules.       *)
Fairness == (\A n \in Nodes : WF_vars(Worker(n))) /\ WF_vars(Receive \/ Drain \/ Finish)

Spec == Init /\ [][Next]_vars /\ Fairness

-----------------------------------------------------------------------------
(* The aggregation of a dataset on one node (spec.md 8): partial trees     *)
(* given as a function on the nodes that hold them, keys the union of     *)
(* theirs, each leaf the operator over every leaf present at its path.     *)
CombineAll(o, f) ==
  CASE o \in {"Sum", "Count"} -> SumFunction(f)
    [] o = "Min"              -> Min(Range(f))
    [] o = "Max"              -> Max(Range(f))
    [] o = "Hll"              -> UNION Range(f)

RECURSIVE Aggregate(_, _, _)
Aggregate(o, d, f) ==
  IF d = 0 THEN CombineAll(o, f)
  ELSE [k \in UNION {DOMAIN f[n] : n \in DOMAIN f} |->
          Aggregate(o, d - 1, [n \in {m \in DOMAIN f : k \in DOMAIN f[m]} |-> f[n][k]])]

(* Whatever order the partials arrive in and whenever a worker fails, a    *)
(* query that returns gives the single-node aggregation of all partials   *)
(* when every worker succeeded, and otherwise the transport error: never   *)
(* the Cancelled error of a worker aborted because of it.                  *)
ResultIsAggregate ==
  rpc = "done" =>
    IF \E n \in Nodes : wres[n] \in Errors THEN returned = TransportErr
    ELSE /\ \A n \in Nodes : wres[n] # NoErr
         /\ returned = Aggregate(op, Depth, wres)

(* Every query returns and every worker goroutine ends: the channel has    *)
(* room for all results and the reducer drains after an error.             *)
QueryCompletes == <>(rpc = "done" /\ \A n \in Nodes : wpc[n] = "done")
=============================================================================
