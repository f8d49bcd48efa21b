---------------------- MODULE MC_TopologyValidation ----------------------
(* Checks the validation of placement updates against the placement      *)
(* invariants of the data model, over every service with two instances,  *)
(* one or two shards, one or two replicas, and shard IDs 0..2 (so that an *)
(* instance can declare a shard outside the keyspace).                    *)
EXTENDS TopologyValidation

MCShardIDs == 0..2

VARIABLE svc

Init == svc \in Service({1, 2}, {1, 2}) \cup {NilService}
Next == UNCHANGED svc
Spec == Init /\ [][Next]_svc

(* The placement invariants of the data model: every shard in [0, N) on  *)
(* at least r instances, no instance declaring a shard outside [0, N),    *)
(* no instance without a shard list.                                      *)
PlacementInvariants(s) ==
  /\ s # NilService
  /\ \A x \in Instances : s.shards[x] # NoShards
  /\ \A id \in 0..s.numShards - 1 : ReplicaCount(s, id) >= s.replicas
  /\ \A x \in Instances : Declared(s, x) \subseteq 0..s.numShards - 1

(* getMapFromUpdate accepts exactly the placements that satisfy the       *)
(* invariants, and each error it returns names a defect the placement     *)
(* really has (the first one in the order validateInstances checks).      *)
ValidationMatchesSpec ==
  LET r == GetMapFromUpdate(svc) IN
  /\ (r = "ok") <=> PlacementInvariants(svc)
  /\ r = "InstanceHasNoShardsAssignment" =>
       \E x \in Instances : svc.shards[x] = NoShards
  /\ r = "MissingShard" =>
       \E id \in 0..svc.numShards - 1 : ReplicaCount(svc, id) = 0
  /\ r = "NotEnoughReplicas" =>
       \E id \in 0..svc.numShards - 1 : 0 < ReplicaCount(svc, id)
                                        /\ ReplicaCount(svc, id) < svc.replicas
  /\ r = "UnexpectedShard" =>
       \E x \in Instances : ~(Declared(svc, x) \subseteq 0..svc.numShards - 1)
=============================================================================
