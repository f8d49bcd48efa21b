----------------------- MODULE MC_StreamingScanNode -----------------------
(* Checks StreamingScanNode.Execute against every sequence of RpcRetries  *)
(* QueryRaw outcomes (the attempts after a success are never made).       *)
EXTENDS StreamingScanNode

MCMaxRows == 2
MCRpcRetries == 3

(* The attempt at which the loop stops: the first success, or the last.   *)
FinalAttempt(tries) ==
  LET ok == {j \in DOMAIN tries : ~tries[j].fail}
  IN  tries[IF ok = {} THEN Len(tries)
                 ELSE CHOOSE j \in ok : \A k \in ok : j <= k]

VARIABLE attempts

Init == attempts \in [1..RpcRetries -> Outcome]
Next == UNCHANGED attempts
Spec == Init /\ [][Next]_attempts

(* Execute returns an error exactly when the last QueryRaw it made failed *)
(* (spec 9, "any error on the final attempt should surface"): neither an  *)
(* error with bytes on the final attempt nor an error of an earlier       *)
(* attempt after a later success changes the outcome.                     *)
FinalErrorSurfaces ==
  ExecuteResult(attempts).err = FinalAttempt(attempts).fail
=============================================================================
