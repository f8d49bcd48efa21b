------------------------ MODULE MC_ShardAssignment ------------------------
(* Validation, and the planner against the Maps the topology accepts,     *)
(* over every service with two instances, one or two shards, one or two   *)
(* replicas and shard IDs 0..2.                                           *)
EXTENDS MC_TopologyValidation, ShardAssignment

(* A placement in steady state: no shard is Initializing or Leaving.       *)
Steady(s) ==
  \A x \in Instances :
    s.shards[x] # NoShards =>
      \A id \in Declared(s, x) : s.shards[x][id] = "Available"

=============================================================================
