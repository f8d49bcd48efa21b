-------------------------- MODULE NonAggQueryPlan --------------------------
(***************************************************************************)
(* The streaming (non-aggregate) query plan of the broker,                 *)
(* src/broker/query_plan_non_agg.go.                                       *)
(*                                                                         *)
(* NonAggQueryPlan.Execute writes the response prefix, starts one          *)
(* goroutine per StreamingScanNode, and then reduces: it receives the      *)
(* partial results from an unbuffered channel in arrival order, writes     *)
(* their rows into the response (truncating to the row limit) and a comma  *)
(* between partials, and finally writes the suffix.                        *)
(*                                                                         *)
(* Each worker goroutine runs StreamingScanNode.Execute (bounded retries   *)
(* of DataNodeQueryClient.QueryRaw) and assigns the outcome to `err`,      *)
(* which is NOT a local of the goroutine but the named result of           *)
(* NonAggQueryPlan.Execute: it is shared, unsynchronised, with the         *)
(* reducer.  The model keeps that variable shared.  A worker writes it    *)
(* when its fetch returns and reads it again when it evaluates the value   *)
(* it sends (`err: err`), one step later: what it sends is whatever err    *)
(* holds then, possibly another worker's error or the nil another worker   *)
(* or the reducer wrote.  Writes and reads of err are separate steps, so   *)
(* TLC explores every interleaving of the race.                            *)
(*                                                                         *)
(* Data abstraction: a row is represented by the node that produced it, a  *)
(* partial result by its number of rows (or Nil for a nil byte slice), an  *)
(* error by the node whose fetch failed.  The response body is the         *)
(* sequence of tokens written: Open (the headers prefix), rows, Comma, and *)
(* Close (the "]}" suffix).  JSON encoding round-trips rows unchanged, so  *)
(* unmarshal and marshal succeed and are modelled by what they produce.    *)
(***************************************************************************)
EXTENDS Integers, Sequences, SequencesExt, FiniteSets, StreamingScanNode

CONSTANTS
  Nodes,       \* the StreamingScanNodes, one per host of the shard assignment
  Limits,      \* the row limits a query may carry (negative = unlimited)
  NoErr,       \* a nil error
  WriteErr,    \* the error of a failed http.ResponseWriter.Write
  Open, Comma, Close  \* the non-row tokens written to the response

ASSUME /\ Nodes # {}
       /\ Limits \subseteq Int

VARIABLES
  limit,     \* nqp.limit
  flushed,   \* nqp.flushed
  i,         \* the reducer's loop index
  res,       \* the result the reducer received last
  err,       \* the named result `err` of NonAggQueryPlan.Execute (shared)
  body,      \* what has been written to the http.ResponseWriter
  rpc,       \* the reducer's program counter
  wpc,       \* each worker goroutine's program counter
  wres,      \* each worker's result: bs, whether its own fetch failed, and
             \* the err it sends (read from the shared err)
  consumed,  \* history: the results received, in arrival order
  returned,  \* the value NonAggQueryPlan.Execute returned
  wfail,     \* the connection to the client is broken: every write fails
  suffixed   \* history: the reducer wrote the "]}" suffix (reached or not)

vars == <<limit, flushed, i, res, err, body, rpc, wpc, wres, consumed, returned,
          wfail, suffixed>>

N == Cardinality(Nodes)

-----------------------------------------------------------------------------
RowCount(r) == IF r = Nil THEN 0 ELSE r

(* The rows of node n's partial, as written to the response.               *)
RowsOf(n, k) == [j \in 1..k |-> n]

(* Mutant of RowsWanted: the operands swapped.                            *)
RowsWantedSwapped == flushed - limit

(* nqp.w.Write(toks): nothing reaches the client once the connection is    *)
(* broken.                                                                 *)
Write(toks) == body' = IF wfail THEN body ELSE body \o toks

(* nqp.getRowsWanted()                                                     *)
RowsWanted == limit - flushed

-----------------------------------------------------------------------------
(* NewNonAggQueryPlan: one node per host, limit from the query; nothing    *)
(* written yet.                                                            *)
Init ==
  /\ limit \in Limits
  /\ flushed = 0
  /\ i = 0
  /\ res = [node |-> CHOOSE n \in Nodes : TRUE, rows |-> Nil, err |-> NoErr,
            failed |-> FALSE]
  /\ err = NoErr
  /\ body = <<>>
  /\ rpc = "headers"
  /\ wpc = [n \in Nodes |-> "idle"]
  /\ wres = [n \in Nodes |-> [rows |-> Nil, err |-> NoErr, failed |-> FALSE]]
  /\ consumed = <<>>
  /\ returned = NoErr
  /\ wfail = FALSE
  /\ suffixed = FALSE

(* Marshal and write the headers prefix (three writes, each returning on  *)
(* error), then start every worker.                                        *)
WriteHeaders ==
  /\ rpc = "headers"
  /\ \/ /\ ~wfail
        /\ body' = <<Open>>
        /\ wpc' = [n \in Nodes |-> "exec"]
        /\ rpc' = "loop"
        /\ UNCHANGED err
     \/ /\ wfail
        /\ err' = WriteErr
        /\ rpc' = "ret"
        /\ UNCHANGED <<body, wpc>>
  /\ UNCHANGED <<limit, flushed, i, res, wres, consumed, returned, wfail, suffixed>>

(* The client disconnects: from now on every write fails.                  *)
ConnectionLost ==
  /\ ~wfail
  /\ wfail' = TRUE
  /\ UNCHANGED <<limit, flushed, i, res, err, body, rpc, wpc, wres, consumed, returned, suffixed>>

(* Worker n: `bs, err = n.Execute(ctx)` keeps bs in the goroutine and     *)
(* writes the shared err (a failed fetch's error is identified by n).      *)
WorkerExecute(n) ==
  /\ wpc[n] = "exec"
  /\ \E r \in ScanResults :
       /\ wres' = [wres EXCEPT ![n] = [rows |-> r.rows, err |-> NoErr,
                                       failed |-> r.err]]
       /\ err' = IF r.err THEN n ELSE NoErr
  /\ wpc' = [wpc EXCEPT ![n] = "load"]
  /\ UNCHANGED <<limit, flushed, i, res, body, rpc, consumed, returned, wfail, suffixed>>

(* Worker n evaluates `streamingScanNoderesult{data: bs, err: err}`,      *)
(* reading the shared err as it is now, then blocks sending it on the     *)
(* unbuffered channel until the reducer receives.                          *)
WorkerSend(n) ==
  /\ wpc[n] = "load"
  /\ wres' = [wres EXCEPT ![n].err = err]
  /\ wpc' = [wpc EXCEPT ![n] = "send"]
  /\ UNCHANGED <<limit, flushed, i, res, err, body, rpc, consumed, returned, wfail, suffixed>>

(* Mutant of LoopExit: the loop stops one node early.                     *)
LoopExitEarly ==
  /\ rpc = "loop"
  /\ i >= N - 1 \/ RowsWanted = 0
  /\ rpc' = "close"
  /\ UNCHANGED <<limit, flushed, i, res, err, body, wpc, wres, consumed, returned, wfail, suffixed>>

(* Mutant of LoopExit: the loop waits for one node more than there are.   *)
LoopExitLate ==
  /\ rpc = "loop"
  /\ i > N \/ RowsWanted = 0
  /\ rpc' = "close"
  /\ UNCHANGED <<limit, flushed, i, res, err, body, wpc, wres, consumed, returned, wfail, suffixed>>

(* Loop head: leave the loop after the last node or once no row is wanted. *)
LoopExit ==
  /\ rpc = "loop"
  /\ i >= N \/ RowsWanted = 0
  /\ rpc' = "close"
  /\ UNCHANGED <<limit, flushed, i, res, err, body, wpc, wres, consumed, returned, wfail, suffixed>>

(* Mutant of Receive: the sender is not released, so the same result can *)
(* be received again.                                                      *)
ReceiveTwice(n) ==
  /\ rpc = "loop"
  /\ i < N /\ RowsWanted # 0
  /\ wpc[n] = "send"
  /\ LET r == [node |-> n] @@ wres[n] IN
     /\ res' = r
     /\ consumed' = Append(consumed, r)
     /\ \/ /\ r.err # NoErr
           /\ err' = r.err
           /\ rpc' = "ret"
           /\ UNCHANGED body
        \/ /\ r.err = NoErr /\ limit < 0
           /\ Write(RowsOf(n, RowCount(r.rows)))
           /\ rpc' = "sep"
           /\ UNCHANGED err
        \/ /\ r.err = NoErr /\ limit >= 0
           /\ err' = NoErr
           /\ rpc' = "unmarshalChk"
           /\ UNCHANGED body
  /\ UNCHANGED <<limit, flushed, i, wpc, wres, returned, wfail, suffixed>>

(* Loop body up to the first read of err: receive a result from whichever  *)
(* worker is sending; an error is assigned to err and returned; without a  *)
(* limit the bytes are written directly; with one they are unmarshalled,   *)
(* which assigns err.                                                      *)
Receive(n) ==
  /\ rpc = "loop"
  /\ i < N /\ RowsWanted # 0
  /\ wpc[n] = "send"
  /\ LET r == [node |-> n] @@ wres[n] IN
     /\ res' = r
     /\ consumed' = Append(consumed, r)
     /\ wpc' = [wpc EXCEPT ![n] = "done"]
     /\ \/ /\ r.err # NoErr
           /\ err' = r.err
           /\ rpc' = "ret"
           /\ UNCHANGED body
        \/ /\ r.err = NoErr /\ limit < 0
           /\ Write(RowsOf(n, RowCount(r.rows)))
           /\ rpc' = "sep"
           /\ UNCHANGED err
        \/ /\ r.err = NoErr /\ limit >= 0
           /\ err' = NoErr
           /\ rpc' = "unmarshalChk"
           /\ UNCHANGED body
  /\ UNCHANGED <<limit, flushed, i, wres, returned, wfail, suffixed>>

(* Mutant of UnmarshalCheck: a partial of one row more than wanted is     *)
(* still written whole.                                                    *)
UnmarshalCheckOffByOne ==
  /\ rpc = "unmarshalChk"
  /\ LET k == RowCount(res.rows) IN
     \/ /\ err # NoErr
        /\ rpc' = "ret"
        /\ UNCHANGED <<flushed, err, body>>
     \/ /\ err = NoErr /\ k <= RowsWanted + 1
        /\ Write(RowsOf(res.node, k))
        /\ flushed' = flushed + k
        /\ rpc' = "sep"
        /\ UNCHANGED err
     \/ /\ err = NoErr /\ k > RowsWanted + 1
        /\ err' = NoErr
        /\ rpc' = "marshalChk"
        /\ UNCHANGED <<flushed, body>>
  /\ UNCHANGED <<limit, i, res, wpc, wres, consumed, returned, wfail, suffixed>>

(* `if err != nil { return }` after json.Unmarshal; then either write the  *)
(* whole partial, or marshal the rows still wanted (assigning err).        *)
UnmarshalCheck ==
  /\ rpc = "unmarshalChk"
  /\ LET k == RowCount(res.rows) IN
     \/ /\ err # NoErr
        /\ rpc' = "ret"
        /\ UNCHANGED <<flushed, err, body>>
     \/ /\ err = NoErr /\ k <= RowsWanted
        /\ Write(RowsOf(res.node, k))
        /\ flushed' = flushed + k
        /\ rpc' = "sep"
        /\ UNCHANGED err
     \/ /\ err = NoErr /\ k > RowsWanted
        /\ err' = NoErr
        /\ rpc' = "marshalChk"
        /\ UNCHANGED <<flushed, body>>
  /\ UNCHANGED <<limit, i, res, wpc, wres, consumed, returned, wfail, suffixed>>

(* `if err != nil { return }` after json.Marshal; write the first          *)
(* RowsWanted rows.                                                        *)
MarshalCheck ==
  /\ rpc = "marshalChk"
  /\ \/ /\ err # NoErr
        /\ rpc' = "ret"
        /\ UNCHANGED <<flushed, body>>
     \/ /\ err = NoErr
        /\ Write(RowsOf(res.node, RowsWanted))
        /\ flushed' = flushed + RowsWanted
        /\ rpc' = "sep"
  /\ UNCHANGED <<limit, i, res, err, wpc, wres, consumed, returned, wfail, suffixed>>

(* Mutant of Separator: the comma is also written after the last node.    *)
SeparatorAlways ==
  /\ rpc = "sep"
  /\ IF RowsWanted # 0 THEN Write(<<Comma>>) ELSE UNCHANGED body
  /\ i' = i + 1
  /\ rpc' = "loop"
  /\ UNCHANGED <<limit, flushed, res, err, wpc, wres, consumed, returned, wfail, suffixed>>

(* Write a comma if rows are still wanted and this is not the last node.   *)
Separator ==
  /\ rpc = "sep"
  /\ IF RowsWanted # 0 /\ i # N - 1 THEN Write(<<Comma>>) ELSE UNCHANGED body
  /\ i' = i + 1
  /\ rpc' = "loop"
  /\ UNCHANGED <<limit, flushed, res, err, wpc, wres, consumed, returned, wfail, suffixed>>

(* `_, err = nqp.w.Write([]byte("]}"))`.  The writes inside the loop      *)
(* ignore their errors; this one is returned.                              *)
WriteSuffix ==
  /\ rpc = "close"
  /\ Write(<<Close>>)
  /\ err' = IF wfail THEN WriteErr ELSE NoErr
  /\ rpc' = "ret"
  /\ suffixed' = TRUE
  /\ UNCHANGED <<limit, flushed, i, res, wpc, wres, consumed, returned, wfail>>

(* `return`: the caller receives the value err has now.                    *)
Return ==
  /\ rpc = "ret"
  /\ returned' = err
  /\ rpc' = "done"
  /\ UNCHANGED <<limit, flushed, i, res, err, body, wpc, wres, consumed, wfail, suffixed>>

Next ==
  \/ WriteHeaders
  \/ ConnectionLost
  \/ \E n \in Nodes : WorkerExecute(n)
  \/ \E n \in Nodes : WorkerSend(n)
  \/ LoopExit
  \/ \E n \in Nodes : Receive(n)
  \/ UnmarshalCheck
  \/ MarshalCheck
  \/ Separator
  \/ WriteSuffix
  \/ Return

(* Goroutines that can run are eventually scheduled by the Go runtime, and *)
(* every datanode call returns (success or transport error).               *)
Fairness ==
  /\ \A n \in Nodes : WF_vars(WorkerExecute(n)) /\ WF_vars(WorkerSend(n))
  /\ WF_vars(WriteHeaders \/ LoopExit \/ \E n \in Nodes : Receive(n)
             \/ UnmarshalCheck \/ MarshalCheck \/ Separator \/ WriteSuffix
             \/ Return)

Spec == Init /\ [][Next]_vars /\ Fairness

-----------------------------------------------------------------------------
(* Views of the response body.                                             *)
Rows(b) == SelectSeq(b, LAMBDA t : t \in Nodes)
Closed == Len(body) > 0 /\ Last(body) = Close
(* The tokens inside the matrixData array.                                 *)
Matrix == SelectSeq(body, LAMBDA t : t \notin {Open, Close})
(* The array is valid JSON: no leading, trailing or doubled comma.         *)
WellFormedMatrix ==
  \A j \in 1..Len(Matrix) :
    Matrix[j] = Comma => /\ j > 1 /\ j < Len(Matrix) /\ Matrix[j + 1] # Comma
(* The rows of the received partials concatenated in arrival order.       *)
ArrivedRows ==
  FoldLeft(LAMBDA acc, r : acc \o RowsOf(r.node, RowCount(r.rows)), <<>>, consumed)

TypeOK ==
  /\ limit \in Limits
  /\ flushed \in 0..(N * MaxRows)
  /\ i \in 0..N
  /\ err \in Nodes \cup {NoErr, WriteErr}
  /\ returned \in Nodes \cup {NoErr, WriteErr}
  /\ wfail \in BOOLEAN /\ suffixed \in BOOLEAN
  /\ body \in Seq(Nodes \cup {Open, Comma, Close})
  /\ rpc \in {"headers", "loop", "unmarshalChk", "marshalChk", "sep",
              "close", "ret", "done"}
  /\ wpc \in [Nodes -> {"idle", "exec", "load", "send", "done"}]
  /\ wres \in [Nodes -> [rows : {Nil} \cup 0..MaxRows,
                         err : Nodes \cup {NoErr, WriteErr}, failed : BOOLEAN]]

(* With a limit, the response never carries more than `limit` rows, and    *)
(* nqp.flushed counts the rows written, across the whole-partial and the   *)
(* truncating branches of the reducer (after a disconnect the writes       *)
(* counted in flushed no longer reach the client).                         *)
LimitHonoured ==
  limit >= 0 => /\ Len(Rows(body)) <= flushed
                /\ ~wfail => Len(Rows(body)) = flushed
                /\ flushed <= limit

(* A response that was closed carries exactly the rows of the partials, in *)
(* arrival order, truncated to the limit; and it was closed only after all *)
(* partials arrived or the limit was reached (no partial dropped).         *)
NoRowsLost ==
  Closed =>
    /\ Len(consumed) = N \/ (limit >= 0 /\ flushed = limit)
    /\ Rows(body) = IF limit < 0 THEN ArrivedRows
                    ELSE SubSeq(ArrivedRows, 1, Min({limit, Len(ArrivedRows)}))

(* When no datanode returned an empty partial, a closed response is a      *)
(* well-formed JSON array: the comma logic of the reducer never leaves a   *)
(* leading, trailing or doubled separator.                                 *)
SeparatorsWellFormed ==
  (Closed /\ \A j \in 1..Len(consumed) : RowCount(consumed[j].rows) > 0)
    => WellFormedMatrix

(* The same without the assumption: the reducer writes a comma after a     *)
(* partial whatever its size (query_plan_non_agg.go:201).                  *)
BodyWellFormed == Closed => WellFormedMatrix

(* When Execute returns nil the response is complete (closed): no worker   *)
(* error is swallowed.                                                     *)
NilMeansComplete == (rpc = "done" /\ returned = NoErr) => Closed

(* When Execute returns an error, either the client connection broke and  *)
(* the error is the write's, or some datanode's partial that the reducer   *)
(* received had failed: a completed query is not reported as failed.       *)
ErrorMeansFailure ==
  (rpc = "done" /\ returned # NoErr) =>
    \/ returned = WriteErr /\ wfail
    \/ \E j \in 1..Len(consumed) : consumed[j].failed

(* NonAggQueryPlan.Execute always returns.                                 *)
ReducerTerminates == <>(rpc = "done")

(* Every worker goroutine that Execute started eventually exits: none is   *)
(* left blocked sending on the result channel.  (Workers are never started *)
(* when writing the headers fails.)                                        *)
WorkersExit == \A n \in Nodes : (wpc[n] # "idle") ~> (wpc[n] = "done")

-----------------------------------------------------------------------------
(* Refinement mapping onto the client-facing contract StreamingResponse.   *)
(* A partial counts as taken once its rows are written: the first i        *)
(* received, and the one just written while the reducer is at the          *)
(* separator.  The response is closed when the reducer returns after the   *)
(* suffix was written, and abandoned when it returns from anywhere else.   *)
WrittenPartials == SubSeq(consumed, 1, IF rpc = "sep" THEN i + 1 ELSE i)
ResponseState ==
  CASE rpc = "headers"         -> "init"
    [] rpc \in {"ret", "done"} -> IF suffixed THEN "closed" ELSE "abandoned"
    [] OTHER                   -> "streaming"

SR == INSTANCE StreamingResponse WITH
        state     <- ResponseState,
        arrived   <- [j \in 1..Len(WrittenPartials) |-> WrittenPartials[j].node],
        delivered <- Rows(body),
        taken     <- flushed,
        lost      <- wfail

(* NonAggQueryPlan.Execute implements the streaming contract: every step   *)
(* of the reducer, the workers and the connection is a step of             *)
(* StreamingResponse or leaves its view unchanged, and the reducer serves  *)
(* the query to an end.  This covers, step by step, the arrival order, the *)
(* truncation at the limit, and closing only after every partial or once   *)
(* the limit is met.                                                       *)
ImplementsStreamingResponse == SR!ASpec
=============================================================================
