----------------------------- MODULE Migration ------------------------------
(***************************************************************************)
(* Routing while the control plane changes the shard map.  The operator    *)
(* and the migration orchestrator are not part of the repository: they     *)
(* drive the shard and bucket records directly, one write at a time, in    *)
(* the order of the states of internal/model/types.go.  They keep the      *)
(* shard that serves a bucket's reads registered; a destination may be     *)
(* missing before the cutover and the source after it, and any shard may   *)
(* change its status at any time.                                          *)
(***************************************************************************)
EXTENDS Router

CONSTANTS
    Replicated,    \* the shards that have a reader endpoint
    SetStatuses    \* the statuses the operator gives to shards

ASSUME MigrationAssumption ==
    /\ NoMapping \notin [rev: {0}, map: [ShardIds \cup BucketIds -> ShardDefs \cup BucketDefs \cup {Absent}]]
    /\ SetStatuses \subseteq Statuses

VARIABLE shardMap    \* the definitions of every shard id and bucket id

mapping == [rev |-> 0, map |-> shardMap]

(***************************************************************************)
(* README's table of the read and the write path of a bucket, row by row.  *)
(***************************************************************************)
DualRows == {"DUAL_WRITE", "CDC_CATCHUP", "VERIFYING"}

DestRows == {"CUTOVER", "DRAINING_SOURCE", "ACTIVE_DEST"}

TableRead(bucket) == IF bucket.state \in DestRows THEN bucket.destShardID ELSE bucket.shardID

TableWrites(bucket) ==
    CASE bucket.state \in DestRows -> {bucket.destShardID}
      [] bucket.state \in DualRows -> {bucket.shardID, bucket.destShardID}
      [] OTHER                     -> {bucket.shardID}

Init == shardMap = [i \in ShardIds \cup BucketIds |-> Absent]

SetDef(i, def) == shardMap' = [shardMap EXCEPT ![i] = def]

-----------------------------------------------------------------------------
(* Shard records. *)

ReaderOf(s) == IF s \in Replicated THEN <<s, "ro">> ELSE NoReader

RegisterShard(s) ==
    /\ shardMap[s] = Absent
    /\ SetDef(s, ShardDef(s, "ACTIVE", ReaderOf(s)))

SetStatus(s, status) ==
    /\ shardMap[s] # Absent
    /\ status # shardMap[s].status
    /\ SetDef(s, [shardMap[s] EXCEPT !.status = status])

(* Not while buckets are read from it: a source that was cut over may go. *)
UnregisterShard(s) ==
    /\ shardMap[s] # Absent
    /\ \A b \in BucketIds : shardMap[b] # Absent => TableRead(shardMap[b]) # s
    /\ SetDef(s, Absent)

(* Bucket records. *)

AssignBucket(b, s) ==
    /\ shardMap[b] = Absent
    /\ Registered(mapping, s)
    /\ SetDef(b, BucketDef(s, NoShard, "unset"))

(* The destination need not be registered yet. *)
StartMigration(b, d) ==
    /\ shardMap[b] # Absent
    /\ shardMap[b].state = "unset"
    /\ d # shardMap[b].shardID
    /\ SetDef(b, BucketDef(shardMap[b].shardID, d, MigrationOrder[1]))

AdvanceMigration(b) ==
    /\ shardMap[b] # Absent
    /\ \E n \in 1 .. Len(MigrationOrder) - 1 :
          /\ shardMap[b].state = MigrationOrder[n]
          /\ SetDef(b, [shardMap[b] EXCEPT !.state = MigrationOrder[n + 1]])

(* A migration may be given up as long as the source is authoritative. *)
AbortMigration(b) ==
    /\ shardMap[b] # Absent
    /\ shardMap[b].state \notin DestStates \cup {"unset"}
    /\ SetDef(b, BucketDef(shardMap[b].shardID, NoShard, "unset"))

(* The destination becomes the bucket's shard. *)
FinishMigration(b) ==
    /\ shardMap[b] # Absent
    /\ shardMap[b].state = "ACTIVE_DEST"
    /\ Registered(mapping, shardMap[b].destShardID)
    /\ SetDef(b, BucketDef(shardMap[b].destShardID, NoShard, "unset"))

-----------------------------------------------------------------------------
ShardNext ==
    \E s \in ShardIds :
        \/ RegisterShard(s)
        \/ \E status \in SetStatuses : SetStatus(s, status)
        \/ UnregisterShard(s)

BucketNext ==
    \E b \in BucketIds :
        \/ \E s \in ShardIds : AssignBucket(b, s) \/ StartMigration(b, s)
        \/ AdvanceMigration(b) \/ AbortMigration(b) \/ FinishMigration(b)

Next == ShardNext \/ BucketNext

Spec == Init /\ [][Next]_shardMap

-----------------------------------------------------------------------------
(* Properties. *)

(* Type correctness of the shard map. *)
TypeOK ==
    /\ shardMap \in [ShardIds \cup BucketIds -> ShardDefs \cup BucketDefs \cup {Absent}]
    /\ \A s \in ShardIds :
          shardMap[s] # Absent => shardMap[s] \in ShardDefs /\ shardMap[s].shardID = s
    /\ \A b \in BucketIds :
          shardMap[b] # Absent => shardMap[b] \in BucketDefs

(***************************************************************************)
(* A request resolves once and executes later, so a write may be routed by *)
(* the map before a publication and the next read by the map after it.     *)
(* Whatever one publication changes, if both are routed then the shard     *)
(* that serves the read was among those that took the write: the hand-over *)
(* goes through a state in which both shards are written.                  *)
(***************************************************************************)
HandoverKeepsWriter ==
    [][\A b \in BucketIds :
          Routes(mapping, b) /\ Routes(mapping, b)'
            => Resolve(mapping, b)'.read.shardID
                  \in {w.shardID : w \in WriteShards(Resolve(mapping, b))}]_shardMap

(***************************************************************************)
(* What is routed is routed as README's table says, with a missing         *)
(* destination: writes degrade to the source while it is authoritative,    *)
(* and a bucket that was cut over is never routed to its source ("avoid    *)
(* unsafe cutover").                                                       *)
(***************************************************************************)
FollowsMigrationTable ==
    \A b \in BucketIds :
        Routes(mapping, b) =>
            LET res    == Resolve(mapping, b)
                bucket == shardMap[b]
            IN  /\ res.read.shardID = TableRead(bucket)
                /\ PrimaryWriteShard(res) = res.read
                /\ {w.shardID : w \in WriteShards(res)}
                      = {s \in TableWrites(bucket) : Registered(mapping, s)}

(***************************************************************************)
(* Exactly when an assigned bucket is routed: its source is registered,    *)
(* though after CUTOVER nothing is sent there; so is its destination from  *)
(* CUTOVER on; and of the shards the table writes to, those registered are *)
(* ACTIVE.  So a bucket that was cut over is served whatever the status of *)
(* its source, and a destination that is down before CUTOVER refuses what  *)
(* a missing one would not.                                                *)
(***************************************************************************)
ServesThroughoutMigration ==
    \A b \in BucketIds :
        shardMap[b] # Absent =>
            (Routes(mapping, b) <=>
                /\ Registered(mapping, shardMap[b].shardID)
                /\ shardMap[b].state \in DestRows => Registered(mapping, shardMap[b].destShardID)
                /\ \A s \in TableWrites(shardMap[b]) :
                      Registered(mapping, s) => shardMap[s].status = "ACTIVE")

(***************************************************************************)
(* "A MAINTENANCE/DRAINING source during an active migration is expected   *)
(* and handled by the state machine above, not treated as an outage": with *)
(* its destination registered and ACTIVE, a bucket that is being moved is  *)
(* not answered ErrShardUnavailable because its source is drained.         *)
(***************************************************************************)
DrainingSourceServes ==
    \A b \in BucketIds :
        /\ shardMap[b] # Absent
        /\ shardMap[b].state \notin {"unset", "ACTIVE_SOURCE"}
        /\ Registered(mapping, shardMap[b].shardID)
        /\ shardMap[shardMap[b].shardID].status \in {"MAINTENANCE", "DRAINING"}
        /\ Registered(mapping, shardMap[b].destShardID)
        /\ shardMap[shardMap[b].destShardID].status = "ACTIVE"
        => Resolve(mapping, b).err # "ErrShardUnavailable"

(***************************************************************************)
(* A read that is not EVENTUAL goes to the very endpoint that takes the    *)
(* authoritative write; an EVENTUAL read stays on the same shard.          *)
(***************************************************************************)
ReadsSeePrimary ==
    \A b \in BucketIds :
        Routes(mapping, b) =>
            LET res == Resolve(mapping, b)
            IN  /\ \A c \in {"STRONG", "READ_YOUR_WRITES", "unset"} :
                      ReadEndpoint(res, c) = PrimaryWriteShard(res).writer
                /\ ReadEndpoint(res, "EVENTUAL")[1] = PrimaryWriteShard(res).shardID
=============================================================================
