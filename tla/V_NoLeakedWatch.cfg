\* A failed Init leaves its watch open.
CONSTANTS
  i1 = i1
  i2 = i2
  Instances <- MCInstances
  ShardIDs <- MCShardIDs
  NilService = NilService
  NoShards = NoShards
  Callers = {c1, c2}
  Services <- MCServices
  Unset = Unset
  NoOwner = NoOwner
  NoTopo = NoTopo
  Err = Err
  MaxUpdates <- MCMaxUpdates
SPECIFICATION Spec
\* Every caller ends in "done"; the final states are real ends, and Init
\* really blocks while no placement is stored.
CHECK_DEADLOCK FALSE
INVARIANTS
  NoLeakedWatch
