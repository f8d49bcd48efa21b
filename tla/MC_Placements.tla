--------------------------- MODULE MC_Placements ---------------------------
(* Placements of two instances over a two-shard keyspace (shard IDs up to *)
(* 2, so that one can fall outside it), shared by the model-checking      *)
(* instances of the topology modules.                                     *)
EXTENDS TopologyValidation, TLC

CONSTANTS i1, i2

MCInstances == {i1, i2}
MCShardIDs == 0..2

Holds(a0, a1, a2) == 0 :> a0 @@ 1 :> a1 @@ 2 :> a2

\* r = 1: i1 serves shard 0, i2 shard 1, i1 is initializing shard 1.
Spread == [replicas |-> 1, numShards |-> 2,
           shards |-> i1 :> Holds("Available", "Initializing", Absent)
                   @@ i2 :> Holds(Absent, "Available", Absent)]
\* r = 2: every shard on both instances, one replica of each initializing.
Mirrored == [replicas |-> 2, numShards |-> 2,
             shards |-> i1 :> Holds("Available", "Initializing", Absent)
                     @@ i2 :> Holds("Initializing", "Available", Absent)]
\* shard 1 on no instance.
MissingOne == [replicas |-> 1, numShards |-> 2,
               shards |-> i1 :> Holds("Available", Absent, Absent)
                       @@ i2 :> Holds("Available", Absent, Absent)]
\* i2 declares shard 2 of a two-shard keyspace.
OutOfRange == [replicas |-> 1, numShards |-> 2,
               shards |-> i1 :> Holds("Available", "Available", Absent)
                       @@ i2 :> Holds(Absent, Absent, "Initializing")]

=============================================================================
