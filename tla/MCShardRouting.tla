--------------------------- MODULE MCShardRouting ---------------------------
(* One bucket that the control plane may move from shard A to shard B. *)
EXTENDS ShardRouting

RoutingIdOf == [k \in Keys |-> k]

RoutingRank == [k \in Keys |-> 0]

BucketOn(s) == BucketDef(s, NoShard, "unset")

CutOver == BucketDef("A", "B", "CUTOVER")

RoutingDefs == {ShardDef(s, "ACTIVE", NoReader) : s \in ShardIds}
                 \cup {BucketOn(s) : s \in ShardIds} \cup {CutOver}

(* Bucket ids are not part of these records, and all name their shards. *)
RoutingCompleted == [i \in Ids |-> [d \in RoutingDefs |-> d]]
=============================================================================
