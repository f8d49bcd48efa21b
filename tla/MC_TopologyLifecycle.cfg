\* Init, the topology it creates and the topology's run loop, together.
CONSTANTS
  i1 = i1
  i2 = i2
  Instances <- MCInstances
  ShardIDs <- MCShardIDs
  NilService = NilService
  NoShards = NoShards
  Callers = {c1, c2}
  Closers = {k1, k2}
  Services <- MCServices
  Unset = Unset
  NoOwner = NoOwner
  NoTopo = NoTopo
  Err = Err
  MaxUpdates <- MCMaxUpdates
SPECIFICATION Spec
\* Init really blocks while no placement is stored, callers really end, and
\* run() really blocks on an idle watch.
CHECK_DEADLOCK FALSE
INVARIANTS
  OneTopology
  IdleIsCurrent
PROPERTIES
  InitCompletes
  RunExitsAfterClose
  WatchEndClosesTopology
  CloseIsFinal
  ImplementsTopologyWatcher
