--------------------------- MODULE ScanNodeRetry ---------------------------
(***************************************************************************)
(* StreamingScanNode.Execute (src/broker/query_plan_non_agg.go) step by    *)
(* step, against the caller's context.  NonAggQueryPlan passes its ctx to  *)
(* every attempt; a QueryRaw made on a cancelled context fails at once     *)
(* with no bytes.  Nothing else in the loop looks at ctx.                  *)
(***************************************************************************)
EXTENDS Naturals, StreamingScanNode

VARIABLES
  spc,      \* "loop" (in the retry loop) or "done" (Execute returned)
  trial,    \* attempts made
  bs,       \* the named result bs
  err,      \* the named result err is non-nil
  ctxDone   \* ctx has been cancelled

svars == <<spc, trial, bs, err, ctxDone>>

(* The outcomes QueryRaw can have on a context that is or is not done.     *)
Outcomes(cancelled) ==
  IF cancelled THEN {o \in Outcome : o.fail /\ o.bs = Nil} ELSE Outcome

(* Leaving the loop: `if bs != nil { err = nil }; return`.                 *)
ReturnWith(b, e) ==
  /\ spc' = "done"
  /\ err' = (e /\ b = Nil)

SInit ==
  /\ spc = "loop"
  /\ trial = 0
  /\ bs = Nil
  /\ err = FALSE
  /\ ctxDone = FALSE

(* `trial++; bs, fetchErr = QueryRaw(ctx, ...)`: a failure records err and *)
(* continues, a success breaks out of the loop.                            *)
Attempt ==
  /\ spc = "loop" /\ trial < RpcRetries
  /\ trial' = trial + 1
  /\ \E o \in Outcomes(ctxDone) :
       /\ bs' = o.bs
       /\ IF o.fail THEN err' = TRUE /\ UNCHANGED spc
                     ELSE ReturnWith(o.bs, err)
  /\ UNCHANGED ctxDone

(* `for trial < rpcRetries` fails: every attempt was made.                 *)
LoopEnd ==
  /\ spc = "loop" /\ trial >= RpcRetries
  /\ ReturnWith(bs, err)
  /\ UNCHANGED <<trial, bs, ctxDone>>

(* The caller cancels ctx (client gone, limit met, another worker failed). *)
CancelCtx ==
  /\ ~ctxDone
  /\ ctxDone' = TRUE
  /\ UNCHANGED <<spc, trial, bs, err>>

SNext == Attempt \/ LoopEnd \/ CancelCtx

SSpec == SInit /\ [][SNext]_svars /\ WF_svars(Attempt \/ LoopEnd)

-----------------------------------------------------------------------------
(* Once the caller's context is cancelled, Execute retries no QueryRaw     *)
(* call: at most the first attempt is made on a cancelled context          *)
(* (spec.md 4.2, "the caller's context cancellation aborts retries"; 5,    *)
(* "Cancellation MUST abort pending transport retries").                   *)
CancelAbortsRetries == [][ctxDone /\ trial >= 1 => trial' = trial]_svars
=============================================================================
