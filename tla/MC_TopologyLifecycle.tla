----------------------- MODULE MC_TopologyLifecycle -----------------------
(* Two goroutines calling Init and two calling Close(), against a store   *)
(* that is empty or holds a valid placement (with Initializing replicas  *)
(* MarkShardsAvailable can flip), one with a missing shard, or nil,      *)
(* changing up to twice.                                                 *)
EXTENDS TopologyLifecycle, MC_Placements

MCServices == {Spread, Mirrored, MissingOne, NilService}
MCMaxUpdates == 2
=============================================================================
