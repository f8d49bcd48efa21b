\* validateInstances against the placement invariants and the planner, over all small placements.
CONSTANTS
  Instances = {i1, i2}
  ShardIDs <- MCShardIDs
  NilService = NilService
  NoShards = NoShards
SPECIFICATION Spec
INVARIANTS
  ValidationMatchesSpec
  
