------------------------------- MODULE Router -------------------------------
(***************************************************************************)
(* The routing decision: internal/router/router.go over the definitions of *)
(* internal/model/types.go.  Resolve is a pure function of a mapping and a *)
(* bucket, so this module declares no variables.                           *)
(*                                                                         *)
(* A mapping is what cache.Store holds: a revision and a map from shard    *)
(* ids and bucket ids to their definitions, Absent where there is none.    *)
(***************************************************************************)
EXTENDS Integers, Sequences

CONSTANTS
    ShardIds,     \* the shard ids that may occur in the key-space
    BucketIds,    \* the virtual buckets shard keys are hashed to
    NoShard,      \* the empty dest_shard_id
    NoReader,     \* the nil Reader of a shard without replica endpoint
    Absent,       \* an id without definition
    NoMapping     \* the nil *Mapping of a store that was never loaded

Statuses == {"ACTIVE", "MAINTENANCE", "DRAINING", "RETIRED"}

(* The migration states in the order a migration goes through them. *)
MigrationOrder ==
    <<"ACTIVE_SOURCE", "COPYING", "DUAL_WRITE", "CDC_CATCHUP", "VERIFYING",
      "CUTOVER", "DRAINING_SOURCE", "ACTIVE_DEST">>

(* Faulty: the destination is no longer written while it is verified. *)
DualWriteStatesUnverified == {"DUAL_WRITE", "CDC_CATCHUP"}

DualWriteStates == {"DUAL_WRITE", "CDC_CATCHUP", "VERIFYING"}

DestStates == {"CUTOVER", "DRAINING_SOURCE", "ACTIVE_DEST"}

(* "unset" is the omitted state of a bucket that is not being moved. *)
MigrationStates == {MigrationOrder[n] : n \in 1 .. Len(MigrationOrder)} \cup {"unset"}

(* A writer endpoint is named after its shard, a reader may be missing. *)
ShardDef(s, status, reader) ==
    [shardID |-> s, status |-> status, writer |-> <<s, "rw">>, reader |-> reader]

BucketDef(src, dst, state) == [shardID |-> src, destShardID |-> dst, state |-> state]

ShardDefs == [shardID: ShardIds, status: Statuses, writer: ShardIds \X {"rw"},
              reader: {NoReader} \cup (ShardIds \X {"ro"})]

BucketDefs == [shardID: ShardIds, destShardID: ShardIds \cup {NoShard},
               state: MigrationStates]

ASSUME RouterAssumption ==
    /\ ShardIds \cap BucketIds = {}
    /\ NoShard \notin ShardIds
    /\ Absent \notin ShardDefs \cup BucketDefs

Registered(m, s) == s \in ShardIds /\ m.map[s] # Absent

(***************************************************************************)
(* Resolve.  An outcome carries the error ("nil" for none), otherwise the  *)
(* shard that serves reads and the sequence of shards that get the write,  *)
(* whose head is the authoritative one.                                    *)
(***************************************************************************)
Refuse(error) == [err |-> error, read |-> Absent, write |-> <<>>]

(* The refusal loop at the end of Resolve. *)
IfAllActive(read, write) ==
    IF \A n \in 1 .. Len(write) : write[n].status = "ACTIVE" /\ read.status = "ACTIVE"
    THEN [err |-> "nil", read |-> read, write |-> write]
    ELSE Refuse("ErrShardUnavailable")

(* Faulty: a bucket whose destination is missing goes back to its source. *)
ResolveBucketFallsBack(m, bucket) ==
    LET source    == m.map[bucket.shardID]
        dest      == m.map[bucket.destShardID]
        destKnown == Registered(m, bucket.destShardID)
    IN  IF bucket.state \in DualWriteStates /\ destKnown
        THEN IfAllActive(source, <<source, dest>>)
        ELSE IF bucket.state \in DestStates /\ destKnown
        THEN IfAllActive(dest, <<dest>>)
        ELSE IfAllActive(source, <<source>>)

(* Faulty: the source's status is checked in every migration state. *)
ResolveBucketChecksSource(m, bucket) ==
    LET source    == m.map[bucket.shardID]
        dest      == m.map[bucket.destShardID]
        destKnown == Registered(m, bucket.destShardID)
    IN  IF source.status # "ACTIVE"
        THEN Refuse("ErrShardUnavailable")
        ELSE IF bucket.state \in DualWriteStates /\ destKnown
        THEN IfAllActive(source, <<source, dest>>)
        ELSE IF bucket.state \notin DestStates
        THEN IfAllActive(source, <<source>>)
        ELSE IF destKnown
        THEN IfAllActive(dest, <<dest>>)
        ELSE Refuse("ErrUnknownShard")

(* The switch over the bucket's migration state. *)
ResolveBucket(m, bucket) ==
    LET source    == m.map[bucket.shardID]
        dest      == m.map[bucket.destShardID]
        destKnown == Registered(m, bucket.destShardID)
    IN  IF bucket.state \in DualWriteStates /\ destKnown
        THEN IfAllActive(source, <<source, dest>>)
        ELSE IF bucket.state \notin DestStates
        THEN IfAllActive(source, <<source>>)
        ELSE IF destKnown
        THEN IfAllActive(dest, <<dest>>)
        ELSE Refuse("ErrUnknownShard")

Resolve(m, b) ==
    IF m = NoMapping THEN Refuse("ErrNoMapping")
    ELSE IF m.map[b] = Absent THEN Refuse("ErrUnknownBucket")
    ELSE IF ~Registered(m, m.map[b].shardID) THEN Refuse("ErrUnknownShard")
    ELSE ResolveBucket(m, m.map[b])

Routes(m, b) == Resolve(m, b).err = "nil"

PrimaryWriteShard(res) == Head(res.write)

WriteShards(res) == {res.write[n] : n \in 1 .. Len(res.write)}

(***************************************************************************)
(* The endpoint a read goes to.  ParseReadConsistency turns every unknown  *)
(* consistency into STRONG; only EVENTUAL may use the replica.             *)
(***************************************************************************)
ParseReadConsistency(s) == IF s \in {"READ_YOUR_WRITES", "EVENTUAL"} THEN s ELSE "STRONG"

(* Faulty: READ_YOUR_WRITES may use the replica, too. *)
ReadEndpointLags(res, consistency) ==
    IF ParseReadConsistency(consistency) # "STRONG" /\ res.read.reader # NoReader
    THEN res.read.reader
    ELSE res.read.writer

ReadEndpoint(res, consistency) ==
    IF ParseReadConsistency(consistency) = "EVENTUAL" /\ res.read.reader # NoReader
    THEN res.read.reader
    ELSE res.read.writer
=============================================================================
