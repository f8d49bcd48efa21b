------------------------- MODULE ShardAssignment -------------------------
(***************************************************************************)
(* The shard assignment planner (spec.md 4.2), used by NewNonAggQueryPlan  *)
(* through util.CalculateShardAssignment, whose source is not in this      *)
(* repository: this module follows the specification.                      *)
(*                                                                         *)
(* Every shard in [0, N) goes to exactly one host among the instances that *)
(* hold it Available (other states are ignored, spec.md 3); any covering   *)
(* choice is allowed.  Without one the planner fails with                  *)
(* IncompleteCoverage.                                                     *)
(***************************************************************************)
EXTENDS TopologyValidation

(* The instances serving shard id: those holding it Available.            *)
AvailableHosts(svc, id) ==
  {x \in Instances : svc.shards[x] # NoShards /\ svc.shards[x][id] = "Available"}

(* The covering choices: a host for every shard of the keyspace.           *)
Covers(svc) ==
  {a \in [0..svc.numShards - 1 -> Instances] :
     \A id \in DOMAIN a : a[id] \in AvailableHosts(svc, id)}

(* assign(snapshot): host -> shard set, or IncompleteCoverage.             *)
CalculateShardAssignment(svc) ==
  IF Covers(svc) = {} THEN "IncompleteCoverage"
  ELSE LET a == CHOOSE a \in Covers(svc) : TRUE
       IN [x \in Instances |-> {id \in DOMAIN a : a[id] = x}]
=============================================================================
