------------------------ MODULE TopologyValidation ------------------------
(***************************************************************************)
(* Turning a placement read from the config service into a topology Map,  *)
(* src/cluster/topology/dynamic.go: getMapFromUpdate, getStaticOptions and *)
(* validateInstances.                                                      *)
(*                                                                         *)
(* A service is NilService (the service, its replication, sharding or      *)
(* instance list is nil) or a record of its replica count, shard count and *)
(* the shards of each instance: NoShards for a nil shard list, otherwise a *)
(* function from shard ID to the shard's state, Absent where the instance  *)
(* does not hold the shard.                                                *)
(***************************************************************************)
EXTENDS Integers, FiniteSets

CONSTANTS
  Instances,   \* the service instances
  ShardIDs,    \* shard IDs an instance may declare (may exceed numShards)
  NilService,  \* service == nil or one of its parts nil
  NoShards     \* instance.Shards() == nil

(* shard.State, and Absent for a shard the instance does not hold.        *)
ShardStates == {"Initializing", "Available", "Leaving"}
Absent == "Absent"

Service(replicaCounts, shardCounts) ==
  [replicas : replicaCounts, numShards : shardCounts,
   shards : [Instances -> [ShardIDs -> ShardStates \cup {Absent}] \cup {NoShards}]]

(* The IDs instance x declares.                                            *)
Declared(svc, x) == {s \in ShardIDs : svc.shards[x][s] # Absent}

(* m[id] in validateInstances: on how many instances the shard appears.    *)
ReplicaCount(svc, id) ==
  Cardinality({x \in Instances : id \in Declared(svc, x)})

(* Mutant of ValidateInstances: the residual map is not checked, so a     *)
(* shard outside [0, numShards) is accepted.                               *)
ValidateInstancesNoResidual(svc) ==
  LET RECURSIVE Expect(_)
      Expect(id) ==
        IF id = svc.numShards THEN "ok"
        ELSE IF ReplicaCount(svc, id) = 0 THEN "MissingShard"
        ELSE IF ReplicaCount(svc, id) < svc.replicas THEN "NotEnoughReplicas"
        ELSE Expect(id + 1)
  IN IF \E x \in Instances : svc.shards[x] = NoShards
     THEN "InstanceHasNoShardsAssignment"
     ELSE Expect(0)

ValidateInstances(svc) ==
  LET RECURSIVE Expect(_)
      Expect(id) ==
        IF id = svc.numShards
        THEN IF \E x \in Instances : Declared(svc, x) \ (0..svc.numShards - 1) # {}
             THEN "UnexpectedShard" ELSE "ok"
        ELSE IF ReplicaCount(svc, id) = 0 THEN "MissingShard"
        ELSE IF ReplicaCount(svc, id) < svc.replicas THEN "NotEnoughReplicas"
        ELSE Expect(id + 1)
  IN IF \E x \in Instances : svc.shards[x] = NoShards
     THEN "InstanceHasNoShardsAssignment"
     ELSE Expect(0)

(* getMapFromUpdate / getStaticOptions: the nil checks, then validation.   *)
(* On success the Map carries the replica count, the shard set 0..N-1 and  *)
(* the instances' host shard sets with their states: the service itself.   *)
GetMapFromUpdate(svc) ==
  IF svc = NilService THEN "InvalidService" ELSE ValidateInstances(svc)

IsValidUpdate(svc) == GetMapFromUpdate(svc) = "ok"
=============================================================================
