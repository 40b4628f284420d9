---------------------------- MODULE ShardRouting ----------------------------
(***************************************************************************)
(* The registry and the router together: requests are resolved against     *)
(* whatever mapping the registry's loops have put in the store, while a    *)
(* healthy control plane edits the key-space.  Healthy means that at every *)
(* revision each bucket record names registered shards only.               *)
(***************************************************************************)
EXTENDS EtcdRegistry

CONSTANTS ShardIds, BucketIds, NoShard, NoReader    \* see Router

INSTANCE Router

ASSUME RoutingAssumption == Ids = ShardIds \cup BucketIds

(* The shards a bucket's requests may be sent to: the source, which Resolve *)
(* always looks up, and the destination once the bucket is cut over.        *)
References(bucket) ==
    {bucket.shardID} \cup IF bucket.state \in DestStates THEN {bucket.destShardID} ELSE {}

(* Shard records describe their shard and bucket records refer to          *)
(* registered shards.                                                      *)
Integrity(map) ==
    /\ \A s \in ShardIds : map[s] # Absent => map[s].shardID = s /\ "status" \in DOMAIN map[s]
    /\ \A b \in BucketIds :
          map[b] # Absent =>
              /\ "state" \in DOMAIN map[b]
              /\ \A s \in References(map[b]) : s \in ShardIds /\ map[s] # Absent

(* etcd and a control plane that only makes healthy writes (external). *)
HealthyWrite ==
    /\ Put \/ Delete
    /\ \E map \in {LoadMap(Len(log))'} : Integrity(map)

HealthyNext == HealthyWrite \/ Compact \/ RegistryNext

HealthySpec == Init /\ [][HealthyNext]_vars

-----------------------------------------------------------------------------
(* Properties. *)

(***************************************************************************)
(* ErrUnknownShard "should never happen in a healthy system": if no        *)
(* revision of the key-space has a dangling reference, no mapping that     *)
(* serves requests has one.                                                *)
(***************************************************************************)
HealthyResolves ==
    \A b \in BucketIds : Resolve(store, b).err # "ErrUnknownShard"
=============================================================================
