------------------------- MODULE StreamingResponse -------------------------
(***************************************************************************)
(* What a non-aggregate query promises its client (spec.md 4.6, 4.7): the  *)
(* response is opened, then the partials of the datanodes are taken one at *)
(* a time in arrival order, each node at most once; a partial contributes  *)
(* its rows, cut to the rows the limit still allows; the response is       *)
(* closed only once every partial was taken or the limit is met, and it    *)
(* may be abandoned (an error return) at any point.  A broken connection   *)
(* loses whatever is written after it.                                     *)
(*                                                                         *)
(* A row is the node that produced it.  `taken` counts the rows counted    *)
(* against the limit, whether or not they still reached the client.        *)
(***************************************************************************)
EXTENDS Integers, Sequences, SequencesExt, FiniteSets

CONSTANTS Nodes, Limits, MaxRows

VARIABLES
  limit,      \* the query's row limit (negative = unlimited)
  state,      \* "init", "streaming", "closed" or "abandoned"
  arrived,    \* the nodes whose partials were taken, in order
  delivered,  \* the rows the client received, in order
  taken,      \* rows counted against the limit
  lost        \* the connection to the client is broken

avars == <<limit, state, arrived, delivered, taken, lost>>

(* The rows of a k-row partial that the limit still admits.                *)
Admitted(k) == IF limit < 0 THEN k ELSE IF k <= limit - taken THEN k ELSE limit - taken

Send(rows) == delivered' = IF lost THEN delivered ELSE delivered \o rows

AInit ==
  /\ limit \in Limits
  /\ state = "init"
  /\ arrived = <<>>
  /\ delivered = <<>>
  /\ taken = 0
  /\ lost = FALSE

Start ==
  /\ state = "init" /\ ~lost
  /\ state' = "streaming"
  /\ UNCHANGED <<limit, arrived, delivered, taken, lost>>

Take(n, k) ==
  /\ state = "streaming"
  /\ n \notin ToSet(arrived)
  /\ limit < 0 \/ taken < limit
  /\ arrived' = Append(arrived, n)
  /\ Send([j \in 1..Admitted(k) |-> n])
  /\ taken' = IF limit < 0 THEN taken ELSE taken + Admitted(k)
  /\ UNCHANGED <<limit, state, lost>>

Finish ==
  /\ state = "streaming"
  /\ Len(arrived) = Cardinality(Nodes) \/ (limit >= 0 /\ taken = limit)
  /\ state' = "closed"
  /\ UNCHANGED <<limit, arrived, delivered, taken, lost>>

Abandon ==
  /\ state \in {"init", "streaming"}
  /\ state' = "abandoned"
  /\ UNCHANGED <<limit, arrived, delivered, taken, lost>>

Disconnect ==
  /\ ~lost
  /\ lost' = TRUE
  /\ UNCHANGED <<limit, state, arrived, delivered, taken>>

Reduce == Start \/ (\E n \in Nodes, k \in 0..MaxRows : Take(n, k)) \/ Finish \/ Abandon

ANext == Reduce \/ Disconnect

(* The query is served to an end: the reducer never stops half way.        *)
ASpec == AInit /\ [][ANext]_avars /\ WF_avars(Reduce)
=============================================================================
