-------------------------- MODULE MigrationProofs ---------------------------
(***************************************************************************)
(* What routing guarantees while the control plane changes the shard map,  *)
(* for any number of shards and buckets.                                   *)
(***************************************************************************)
EXTENDS Migration, TLAPS

(* Resolve's sets of states are the rows of README's table. *)
LEMMA TableRows == DestRows = DestStates /\ DualRows = DualWriteStates
BY DEF DestRows, DestStates, DualRows, DualWriteStates

(* A shard map starts empty. *)
LEMMA InitTypeOK == Init => TypeOK
BY RouterAssumption DEF Init, TypeOK

(* The states of a migration are among the states a bucket may have. *)
LEMMA OrderIsTyped ==
    ASSUME NEW n \in 1 .. Len(MigrationOrder)
    PROVE  MigrationOrder[n] \in MigrationStates
BY DEF MigrationStates

(* Steps on shard records keep the types. *)
LEMMA ShardStepTypeOK ==
    ASSUME TypeOK, ShardNext
    PROVE  TypeOK'
<1> USE RouterAssumption, MigrationAssumption DEF TypeOK, SetDef
<1>1. ASSUME NEW s \in ShardIds, RegisterShard(s)
      PROVE  TypeOK'
  <2>1. /\ ShardDef(s, "ACTIVE", ReaderOf(s)) \in ShardDefs
        /\ ShardDef(s, "ACTIVE", ReaderOf(s)).shardID = s
    BY DEF ShardDef, ShardDefs, Statuses, ReaderOf
  <2>2. QED
    BY <1>1, <2>1 DEF RegisterShard
<1>2. ASSUME NEW s \in ShardIds, NEW status \in SetStatuses, SetStatus(s, status)
      PROVE  TypeOK'
  <2> DEFINE def == [shardMap[s] EXCEPT !.status = status]
  <2>1. def \in ShardDefs /\ def.shardID = s
    BY <1>2 DEF SetStatus, ShardDefs
  <2>2. shardMap' = [shardMap EXCEPT ![s] = def]
    BY <1>2 DEF SetStatus
  <2> HIDE DEF def
  <2>3. QED
    BY <2>1, <2>2
<1>3. ASSUME NEW s \in ShardIds, UnregisterShard(s)
      PROVE  TypeOK'
  BY <1>3 DEF UnregisterShard
<1>4. QED
  BY <1>1, <1>2, <1>3 DEF ShardNext

(* Steps on bucket records keep the types. *)
LEMMA BucketStepTypeOK ==
    ASSUME TypeOK, BucketNext
    PROVE  TypeOK'
<1> USE RouterAssumption DEF TypeOK
<1>1. ASSUME NEW b \in BucketIds, NEW def \in BucketDefs, SetDef(b, def)
      PROVE  TypeOK'
  BY <1>1 DEF SetDef
<1>2. ASSUME NEW b \in BucketIds, NEW s \in ShardIds, AssignBucket(b, s)
      PROVE  TypeOK'
  <2>1. BucketDef(s, NoShard, "unset") \in BucketDefs
    BY DEF BucketDef, BucketDefs, MigrationStates
  <2>2. QED
    BY <1>1, <1>2, <2>1 DEF AssignBucket
<1>3. ASSUME NEW b \in BucketIds, NEW d \in ShardIds, StartMigration(b, d)
      PROVE  TypeOK'
  <2> DEFINE def == BucketDef(shardMap[b].shardID, d, MigrationOrder[1])
  <2>1. MigrationOrder[1] \in MigrationStates
    BY OrderIsTyped DEF MigrationOrder
  <2>2. def \in BucketDefs
    BY <1>3, <2>1 DEF StartMigration, BucketDef, BucketDefs
  <2>3. SetDef(b, def)
    BY <1>3, <2>2 DEF StartMigration
  <2> HIDE DEF def
  <2>4. QED
    BY <1>1, <2>2, <2>3
<1>4. ASSUME NEW b \in BucketIds, AdvanceMigration(b)
      PROVE  TypeOK'
  <2>1. PICK n \in 1 .. Len(MigrationOrder) - 1 :
               SetDef(b, [shardMap[b] EXCEPT !.state = MigrationOrder[n + 1]])
    BY <1>4 DEF AdvanceMigration
  <2> DEFINE def == [shardMap[b] EXCEPT !.state = MigrationOrder[n + 1]]
  <2>2. MigrationOrder[n + 1] \in MigrationStates
    BY OrderIsTyped DEF MigrationOrder
  <2>3. def \in BucketDefs
    BY <1>4, <2>2 DEF AdvanceMigration, BucketDefs
  <2>4. SetDef(b, def)
    BY <1>4, <2>1, <2>3 DEF AdvanceMigration
  <2> HIDE DEF def
  <2>5. QED
    BY <1>1, <2>3, <2>4
<1>5. ASSUME NEW b \in BucketIds, AbortMigration(b)
      PROVE  TypeOK'
  <2> DEFINE def == BucketDef(shardMap[b].shardID, NoShard, "unset")
  <2>1. def \in BucketDefs
    BY <1>5 DEF AbortMigration, BucketDef, BucketDefs, MigrationStates
  <2>2. SetDef(b, def)
    BY <1>5, <2>1 DEF AbortMigration
  <2> HIDE DEF def
  <2>3. QED
    BY <1>1, <2>1, <2>2
<1>6. ASSUME NEW b \in BucketIds, FinishMigration(b)
      PROVE  TypeOK'
  <2> DEFINE def == BucketDef(shardMap[b].destShardID, NoShard, "unset")
  <2>1. def \in BucketDefs
    BY <1>6 DEF FinishMigration, Registered, BucketDef, BucketDefs, MigrationStates
  <2>2. SetDef(b, def)
    BY <1>6, <2>1 DEF FinishMigration
  <2> HIDE DEF def
  <2>3. QED
    BY <1>1, <2>1, <2>2
<1>7. QED
  BY <1>2, <1>3, <1>4, <1>5, <1>6 DEF BucketNext

(* Every publication keeps the types. *)
LEMMA NextTypeOK == TypeOK /\ [Next]_shardMap => TypeOK'
<1>1. ASSUME TypeOK, UNCHANGED shardMap PROVE TypeOK'
  BY <1>1 DEF TypeOK
<1>2. QED
  BY <1>1, ShardStepTypeOK, BucketStepTypeOK DEF Next

(* The shard map has its type. *)
LEMMA MigrationTypeCorrect == Spec => []TypeOK
BY InitTypeOK, NextTypeOK, PTL DEF Spec

-----------------------------------------------------------------------------
(* The read and the write path of a bucket that is routed. *)

WriteIds(b) == {w.shardID : w \in WriteShards(Resolve(mapping, b))}

(* The last check of Resolve keeps the paths it lets through. *)
LEMMA ActivePaths ==
    ASSUME NEW read, NEW write, IfAllActive(read, write).err = "nil"
    PROVE  IfAllActive(read, write) = [err |-> "nil", read |-> read, write |-> write]
BY DEF IfAllActive, Refuse

(***************************************************************************)
(* What Resolve returns when it returns no error: the read shard and the   *)
(* write shards as definitions of the map, all of them registered.         *)
(***************************************************************************)
LEMMA RoutedPaths ==
    ASSUME TypeOK, NEW b \in BucketIds, Routes(mapping, b)
    PROVE  /\ shardMap[b] # Absent
           /\ Registered(mapping, TableRead(shardMap[b]))
           /\ Resolve(mapping, b).read = shardMap[TableRead(shardMap[b])]
           /\ Resolve(mapping, b).write =
                 IF /\ shardMap[b].state \in DualWriteStates
                    /\ Registered(mapping, shardMap[b].destShardID)
                 THEN <<shardMap[shardMap[b].shardID], shardMap[shardMap[b].destShardID]>>
                 ELSE <<shardMap[TableRead(shardMap[b])]>>
<1>1. mapping.map = shardMap
  BY DEF mapping
<1>2. mapping # NoMapping /\ shardMap[b] # Absent /\ Registered(mapping, shardMap[b].shardID)
  BY <1>1 DEF Routes, Resolve, Refuse
<1>3. Resolve(mapping, b) = ResolveBucket(mapping, shardMap[b])
  BY <1>1, <1>2 DEF Resolve
<1>4. ResolveBucket(mapping, shardMap[b]).err = "nil"
  BY <1>3 DEF Routes
<1>5. DualWriteStates \cap DestStates = {}
  BY DEF DualWriteStates, DestStates
<1> DEFINE bucket    == shardMap[b]
           source    == shardMap[bucket.shardID]
           dest      == shardMap[bucket.destShardID]
           destKnown == Registered(mapping, bucket.destShardID)
<1>6. CASE bucket.state \in DualWriteStates /\ destKnown
  <2>1. ResolveBucket(mapping, bucket) = IfAllActive(source, <<source, dest>>)
    BY <1>1, <1>6 DEF ResolveBucket
  <2>2. TableRead(bucket) = bucket.shardID
    BY <1>5, <1>6, TableRows DEF TableRead
  <2>3. QED
    BY <1>2, <1>3, <1>4, <1>6, <2>1, <2>2, ActivePaths
<1>7. CASE ~(bucket.state \in DualWriteStates /\ destKnown) /\ bucket.state \notin DestStates
  <2>1. ResolveBucket(mapping, bucket) = IfAllActive(source, <<source>>)
    BY <1>1, <1>7 DEF ResolveBucket
  <2>2. TableRead(bucket) = bucket.shardID
    BY <1>7, TableRows DEF TableRead
  <2>3. QED
    BY <1>2, <1>3, <1>4, <1>7, <2>1, <2>2, ActivePaths
<1>8. CASE bucket.state \in DestStates
  <2>1. destKnown
    BY <1>1, <1>4, <1>5, <1>8 DEF ResolveBucket, Refuse
  <2>2. ResolveBucket(mapping, bucket) = IfAllActive(dest, <<dest>>)
    BY <1>1, <1>5, <1>8, <2>1 DEF ResolveBucket
  <2>3. TableRead(bucket) = bucket.destShardID
    BY <1>8, TableRows DEF TableRead
  <2>4. QED
    BY <1>2, <1>3, <1>4, <1>5, <1>8, <2>1, <2>2, <2>3, ActivePaths
<1>9. QED
  BY <1>6, <1>7, <1>8

(* The shards a routed write goes to are those of README's table. *)
LEMMA RoutedWrites ==
    ASSUME TypeOK, NEW b \in BucketIds, Routes(mapping, b)
    PROVE  /\ Resolve(mapping, b).read.shardID = TableRead(shardMap[b])
           /\ PrimaryWriteShard(Resolve(mapping, b)) = Resolve(mapping, b).read
           /\ WriteIds(b) = {s \in TableWrites(shardMap[b]) : Registered(mapping, s)}
<1> DEFINE bucket == shardMap[b]
           res    == Resolve(mapping, b)
<1>1. \A s : Registered(mapping, s) => shardMap[s].shardID = s
  BY DEF TypeOK, Registered, mapping
<1>2. bucket \in BucketDefs /\ Registered(mapping, bucket.shardID)
  BY RoutedPaths DEF TypeOK, Routes, Resolve, Refuse, mapping
<1>3. DualWriteStates \cap DestStates = {}
  BY DEF DualWriteStates, DestStates
<1>4. /\ Registered(mapping, TableRead(bucket))
      /\ res.read = shardMap[TableRead(bucket)]
      /\ res.read.shardID = TableRead(bucket)
  BY <1>1, RoutedPaths
<1>5. CASE bucket.state \in DualWriteStates /\ Registered(mapping, bucket.destShardID)
  <2>1. TableRead(bucket) = bucket.shardID
        /\ TableWrites(bucket) = {bucket.shardID, bucket.destShardID}
    BY <1>3, <1>5, TableRows DEF TableRead, TableWrites
  <2>2. res.write = <<shardMap[bucket.shardID], shardMap[bucket.destShardID]>>
    BY <1>5, RoutedPaths
  <2>3. WriteShards(res) = {shardMap[bucket.shardID], shardMap[bucket.destShardID]}
    BY <2>2 DEF WriteShards
  <2>4. WriteIds(b) = {bucket.shardID, bucket.destShardID}
    BY <1>1, <1>2, <1>5, <2>3 DEF WriteIds
  <2>5. PrimaryWriteShard(res) = res.read
    BY <1>4, <2>1, <2>2 DEF PrimaryWriteShard
  <2>6. {s \in TableWrites(bucket) : Registered(mapping, s)} = {bucket.shardID, bucket.destShardID}
    BY <1>2, <1>5, <2>1
  <2>7. QED
    BY <1>4, <2>4, <2>5, <2>6
<1>6. CASE ~(bucket.state \in DualWriteStates /\ Registered(mapping, bucket.destShardID))
  <2>1. {s \in TableWrites(bucket) : Registered(mapping, s)} = {TableRead(bucket)}
    BY <1>2, <1>3, <1>4, <1>6, TableRows DEF TableRead, TableWrites
  <2>2. res.write = <<shardMap[TableRead(bucket)]>>
    BY <1>6, RoutedPaths
  <2>3. WriteShards(res) = {shardMap[TableRead(bucket)]}
    BY <2>2 DEF WriteShards
  <2>4. WriteIds(b) = {TableRead(bucket)}
    BY <1>1, <1>4, <2>3 DEF WriteIds
  <2>5. PrimaryWriteShard(res) = res.read
    BY <1>4, <2>2 DEF PrimaryWriteShard
  <2>6. QED
    BY <1>4, <2>1, <2>4, <2>5
<1>7. QED
  BY <1>5, <1>6

(***************************************************************************)
(* Resolve follows README's table for every bucket in every reachable map, *)
(* and never routes a bucket that was cut over to its source.              *)
(***************************************************************************)
THEOREM MigrationTableFollowed == Spec => []FollowsMigrationTable
<1>1. TypeOK => FollowsMigrationTable
  BY RoutedWrites DEF FollowsMigrationTable, WriteIds
<1>2. QED
  BY <1>1, MigrationTypeCorrect, PTL

(* Resolve's last check: the shards of the paths are ACTIVE. *)
LEMMA SourceAndDestActive ==
    ASSUME NEW read, NEW dest
    PROVE  /\ IfAllActive(read, <<read, dest>>).err = "nil"
                 <=> read.status = "ACTIVE" /\ dest.status = "ACTIVE"
           /\ IfAllActive(read, <<read>>).err = "nil" <=> read.status = "ACTIVE"
BY DEF IfAllActive, Refuse

(* When the table lets a bucket be routed. *)
Servable(b) ==
    /\ Registered(mapping, shardMap[b].shardID)
    /\ shardMap[b].state \in DestRows => Registered(mapping, shardMap[b].destShardID)
    /\ \A s \in TableWrites(shardMap[b]) :
          Registered(mapping, s) => shardMap[s].status = "ACTIVE"

(* Resolve routes exactly the buckets that the table lets be routed. *)
LEMMA RoutesExactly ==
    ASSUME TypeOK, NEW b \in BucketIds, shardMap[b] # Absent
    PROVE  Routes(mapping, b) <=> Servable(b)
<1> DEFINE bucket == shardMap[b]
           source == shardMap[bucket.shardID]
           dest   == shardMap[bucket.destShardID]
<1>1. mapping.map = shardMap /\ mapping # NoMapping
  BY MigrationAssumption DEF mapping, TypeOK
<1>2. CASE ~Registered(mapping, bucket.shardID)
  BY <1>1, <1>2 DEF Routes, Resolve, Refuse, Servable
<1>3. CASE Registered(mapping, bucket.shardID)
  <2>1. Resolve(mapping, b) = ResolveBucket(mapping, bucket)
    BY <1>1, <1>3 DEF Resolve
  <2>2. DualWriteStates \cap DestStates = {}
    BY DEF DualWriteStates, DestStates
  <2>3. CASE bucket.state \in DualWriteStates
    <3>1. TableWrites(bucket) = {bucket.shardID, bucket.destShardID} /\ bucket.state \notin DestRows
      BY <2>2, <2>3, TableRows DEF TableWrites
    <3>2. ResolveBucket(mapping, bucket) =
             IF Registered(mapping, bucket.destShardID)
             THEN IfAllActive(source, <<source, dest>>)
             ELSE IfAllActive(source, <<source>>)
      BY <1>1, <2>2, <2>3 DEF ResolveBucket
    <3>3. QED
      BY <1>3, <2>1, <3>1, <3>2, SourceAndDestActive DEF Routes, Servable
  <2>4. CASE bucket.state \in DestStates
    <3>1. TableWrites(bucket) = {bucket.destShardID} /\ bucket.state \in DestRows
      BY <2>2, <2>4, TableRows DEF TableWrites
    <3>2. ResolveBucket(mapping, bucket) =
             IF Registered(mapping, bucket.destShardID)
             THEN IfAllActive(dest, <<dest>>)
             ELSE Refuse("ErrUnknownShard")
      BY <1>1, <2>2, <2>4 DEF ResolveBucket
    <3>3. Refuse("ErrUnknownShard").err # "nil"
      BY DEF Refuse
    <3>4. Routes(mapping, b) <=>
             Registered(mapping, bucket.destShardID) /\ dest.status = "ACTIVE"
      BY <2>1, <3>2, <3>3, SourceAndDestActive DEF Routes
    <3>5. QED
      BY <1>3, <3>1, <3>4 DEF Servable
  <2>5. CASE bucket.state \notin DualWriteStates \cup DestStates
    <3>1. TableWrites(bucket) = {bucket.shardID} /\ bucket.state \notin DestRows
      BY <2>5, TableRows DEF TableWrites
    <3>2. ResolveBucket(mapping, bucket) = IfAllActive(source, <<source>>)
      BY <1>1, <2>5 DEF ResolveBucket
    <3>3. Routes(mapping, b) <=> source.status = "ACTIVE"
      BY <2>1, <3>2, SourceAndDestActive DEF Routes
    <3>4. QED
      BY <1>3, <3>1, <3>3 DEF Servable
  <2>6. QED
    BY <2>3, <2>4, <2>5
<1>4. QED
  BY <1>2, <1>3

(***************************************************************************)
(* Exactly which buckets Resolve routes, for every combination of missing  *)
(* and inactive sources and destinations and every migration state.        *)
(***************************************************************************)
THEOREM MigrationServes == Spec => []ServesThroughoutMigration
<1>1. TypeOK => ServesThroughoutMigration
  BY RoutesExactly DEF ServesThroughoutMigration, Servable
<1>2. QED
  BY <1>1, MigrationTypeCorrect, PTL

(* The endpoints of a shard record are its shard's own. *)
OwnEndpoints ==
    \A s \in ShardIds : shardMap[s] # Absent =>
        shardMap[s].writer = <<s, "rw">> /\ shardMap[s].reader \in {NoReader, <<s, "ro">>}

(* Registering or changing a shard gives it endpoints of its own. *)
LEMMA ShardStepOwnEndpoints ==
    ASSUME TypeOK, OwnEndpoints, ShardNext
    PROVE  OwnEndpoints'
<1> USE RouterAssumption DEF TypeOK, OwnEndpoints, SetDef
<1>1. ASSUME NEW s \in ShardIds, RegisterShard(s)
      PROVE  OwnEndpoints'
  BY <1>1 DEF RegisterShard, ReaderOf, ShardDef
<1>2. ASSUME NEW s \in ShardIds, NEW status \in SetStatuses, SetStatus(s, status)
      PROVE  OwnEndpoints'
  <2> DEFINE def == [shardMap[s] EXCEPT !.status = status]
  <2>1. def.writer = shardMap[s].writer /\ def.reader = shardMap[s].reader
    BY <1>2 DEF SetStatus, ShardDefs
  <2>2. shardMap' = [shardMap EXCEPT ![s] = def] /\ shardMap[s] # Absent
    BY <1>2 DEF SetStatus
  <2> HIDE DEF def
  <2>3. QED
    BY <2>1, <2>2
<1>3. ASSUME NEW s \in ShardIds, UnregisterShard(s)
      PROVE  OwnEndpoints'
  BY <1>3 DEF UnregisterShard
<1>4. QED
  BY <1>1, <1>2, <1>3 DEF ShardNext

(* A shard's endpoints are its own in every reachable state. *)
LEMMA AlwaysOwnEndpoints == Spec => []OwnEndpoints
<1>1. Init => OwnEndpoints
  BY DEF Init, OwnEndpoints
<1>2. ASSUME TypeOK, OwnEndpoints, BucketNext PROVE OwnEndpoints'
  <2>1. PICK b \in BucketIds : \E def : SetDef(b, def)
    BY <1>2 DEF BucketNext, AssignBucket, StartMigration, AdvanceMigration, AbortMigration,
       FinishMigration
  <2>2. \A s \in ShardIds : shardMap'[s] = shardMap[s]
    BY <1>2, <2>1, RouterAssumption DEF SetDef, TypeOK
  <2>3. QED
    BY <1>2, <2>2 DEF OwnEndpoints
<1>3. TypeOK /\ OwnEndpoints /\ [Next]_shardMap => OwnEndpoints'
  BY <1>2, ShardStepOwnEndpoints DEF Next, OwnEndpoints
<1>4. QED
  BY <1>1, <1>3, MigrationTypeCorrect, PTL DEF Spec

(* Reads find the endpoint of the authoritative write, or at least its     *)
(* shard if they asked for no more.                                        *)
THEOREM MigrationReadsSeePrimary == Spec => []ReadsSeePrimary
<1>1. ASSUME TypeOK, OwnEndpoints, NEW b \in BucketIds, Routes(mapping, b)
      PROVE  LET res == Resolve(mapping, b)
             IN  /\ \A c \in {"STRONG", "READ_YOUR_WRITES", "unset"} :
                       ReadEndpoint(res, c) = PrimaryWriteShard(res).writer
                 /\ ReadEndpoint(res, "EVENTUAL")[1] = PrimaryWriteShard(res).shardID
  <2> DEFINE res == Resolve(mapping, b)
  <2>1. PrimaryWriteShard(res) = res.read
    BY <1>1, RoutedWrites
  <2>2. PICK s \in ShardIds : s = TableRead(shardMap[b]) /\ res.read = shardMap[s] /\ shardMap[s] # Absent
    BY <1>1, RoutedPaths DEF Registered, mapping
  <2>3. /\ res.read.shardID = s /\ res.read.writer = <<s, "rw">>
        /\ res.read.reader \in {NoReader, <<s, "ro">>}
    BY <1>1, <2>2 DEF TypeOK, OwnEndpoints
  <2> HIDE DEF res
  <2>4. \A c \in {"STRONG", "READ_YOUR_WRITES", "unset"} : ReadEndpoint(res, c) = res.read.writer
    BY DEF ReadEndpoint, ParseReadConsistency
  <2>5. ReadEndpoint(res, "EVENTUAL")[1] = res.read.shardID
    BY <2>3 DEF ReadEndpoint, ParseReadConsistency
  <2>6. QED
    BY <2>1, <2>4, <2>5 DEF res
<1>2. TypeOK /\ OwnEndpoints => ReadsSeePrimary
  BY <1>1 DEF ReadsSeePrimary
<1>3. QED
  BY <1>2, MigrationTypeCorrect, AlwaysOwnEndpoints, PTL

-----------------------------------------------------------------------------
(* The hand-over. *)

(* A publication leaves the read path of b alone, or moves it to a shard   *)
(* that the table wrote before, without touching any shard record.         *)
LEMMA ReadPathMoves ==
    ASSUME TypeOK, Next, NEW b \in BucketIds,
           shardMap[b] # Absent, shardMap'[b] # Absent
    PROVE  \/ TableRead(shardMap'[b]) = TableRead(shardMap[b])
           \/ /\ TableRead(shardMap'[b]) \in TableWrites(shardMap[b])
              /\ \A s \in ShardIds : shardMap'[s] = shardMap[s]
<1> USE RouterAssumption DEF TypeOK
<1>1. ASSUME ShardNext PROVE shardMap'[b] = shardMap[b]
  BY <1>1 DEF ShardNext, RegisterShard, SetStatus, UnregisterShard, SetDef
<1>2. ASSUME NEW c \in BucketIds, c # b, NEW def, SetDef(c, def) PROVE shardMap'[b] = shardMap[b]
  BY <1>2 DEF SetDef
<1>3. ASSUME NEW def, SetDef(b, def) PROVE shardMap'[b] = def
  BY <1>3 DEF SetDef
<1>4. "unset" \notin DestStates \cup DualWriteStates
  BY DEF DestStates, DualWriteStates
<1>5. ASSUME NEW d \in ShardIds, StartMigration(b, d)
      PROVE  TableRead(shardMap'[b]) = TableRead(shardMap[b])
  <2>1. MigrationOrder[1] \notin DestStates
    BY DEF MigrationOrder, DestStates
  <2>2. QED
    BY <1>3, <1>4, <1>5, <2>1, TableRows DEF StartMigration, BucketDef, TableRead
<1>6. ASSUME AdvanceMigration(b)
      PROVE  \/ TableRead(shardMap'[b]) = TableRead(shardMap[b])
             \/ /\ TableRead(shardMap'[b]) \in TableWrites(shardMap[b])
                /\ \A s \in ShardIds : shardMap'[s] = shardMap[s]
  <2>1. PICK n \in 1 .. Len(MigrationOrder) - 1 :
             /\ shardMap[b].state = MigrationOrder[n]
             /\ SetDef(b, [shardMap[b] EXCEPT !.state = MigrationOrder[n + 1]])
    BY <1>6 DEF AdvanceMigration
  <2>2. n \in 1 .. 7
    BY DEF MigrationOrder
  <2>3. /\ shardMap'[b].state = MigrationOrder[n + 1]
        /\ shardMap'[b].shardID = shardMap[b].shardID
        /\ shardMap'[b].destShardID = shardMap[b].destShardID
    BY <1>3, <2>1 DEF BucketDefs
  <2>4. \/ MigrationOrder[n] \in DestStates <=> MigrationOrder[n + 1] \in DestStates
        \/ MigrationOrder[n] \in DualWriteStates
    BY <2>2 DEF MigrationOrder, DestStates, DualWriteStates
  <2>5. DualWriteStates \cap DestStates = {}
    BY DEF DualWriteStates, DestStates
  <2>6. \A s \in ShardIds : shardMap'[s] = shardMap[s]
    BY <2>1 DEF SetDef
  <2>7. QED
    BY <2>1, <2>3, <2>4, <2>5, <2>6, TableRows DEF TableRead, TableWrites
<1>7. ASSUME AbortMigration(b)
      PROVE  TableRead(shardMap'[b]) = TableRead(shardMap[b])
  BY <1>3, <1>4, <1>7, TableRows DEF AbortMigration, BucketDef, TableRead
<1>8. ASSUME FinishMigration(b)
      PROVE  TableRead(shardMap'[b]) = TableRead(shardMap[b])
  <2>1. "ACTIVE_DEST" \in DestStates
    BY DEF DestStates
  <2>2. QED
    BY <1>3, <1>4, <1>8, <2>1, TableRows DEF FinishMigration, BucketDef, TableRead
<1>9. ASSUME NEW s \in ShardIds PROVE ~AssignBucket(b, s)
  BY DEF AssignBucket
<1>10. ASSUME BucketNext, shardMap'[b] # shardMap[b]
       PROVE  \/ \E d \in ShardIds : StartMigration(b, d)
              \/ AdvanceMigration(b) \/ AbortMigration(b) \/ FinishMigration(b)
  <2>1. PICK c \in BucketIds :
             \/ \E s \in ShardIds : AssignBucket(c, s) \/ StartMigration(c, s)
             \/ AdvanceMigration(c) \/ AbortMigration(c) \/ FinishMigration(c)
    BY <1>10 DEF BucketNext
  <2>2. \E def : SetDef(c, def)
    BY <2>1 DEF AssignBucket, StartMigration, AdvanceMigration, AbortMigration, FinishMigration
  <2>3. c = b
    BY <1>2, <1>10, <2>2
  <2>4. QED
    BY <1>9, <2>1, <2>3
<1>11. QED
  BY <1>1, <1>5, <1>6, <1>7, <1>8, <1>10 DEF Next

(* A routed bucket is assigned and its read shard is registered. *)
ReadsRegistered ==
    \A b \in BucketIds :
        Routes(mapping, b) =>
            /\ shardMap[b] # Absent
            /\ Registered(mapping, TableRead(shardMap[b]))
            /\ Resolve(mapping, b).read.shardID = TableRead(shardMap[b])

(***************************************************************************)
(* For every number of shards and buckets: a write routed just before a    *)
(* publication reaches the shard that serves reads just after it.  The     *)
(* argument: the read shard moves only to one of the table's write shards, *)
(* and a write shard that is missing before the step is missing after it.  *)
(***************************************************************************)
THEOREM MigrationHandover == Spec => HandoverKeepsWriter
<1>1. TypeOK => ReadsRegistered
  BY RoutedPaths, RoutedWrites DEF ReadsRegistered
<1>2. (TypeOK => ReadsRegistered)'
  BY <1>1, PTL
<1>3. ASSUME TypeOK, TypeOK', Next, NEW b \in BucketIds,
             Routes(mapping, b), Routes(mapping, b)'
      PROVE  Resolve(mapping, b)'.read.shardID \in WriteIds(b)
  <2> DEFINE readNext == TableRead(shardMap'[b])
  <2>1. /\ shardMap[b] # Absent /\ Registered(mapping, TableRead(shardMap[b]))
    BY <1>1, <1>3 DEF ReadsRegistered
  <2>2. /\ shardMap'[b] # Absent /\ Registered(mapping, TableRead(shardMap[b]))'
        /\ Resolve(mapping, b)'.read.shardID = readNext
    BY <1>2, <1>3 DEF ReadsRegistered
  <2>3. Registered(mapping, readNext) /\ readNext \in TableWrites(shardMap[b])
    BY <1>3, <2>1, <2>2, ReadPathMoves, TableRows DEF Registered, mapping, TableRead, TableWrites
  <2>4. QED
    BY <1>3, <2>2, <2>3, RoutedWrites
<1>4. TypeOK /\ TypeOK' /\ [Next]_shardMap =>
        [\A b \in BucketIds :
            Routes(mapping, b) /\ Routes(mapping, b)'
              => Resolve(mapping, b)'.read.shardID
                    \in {w.shardID : w \in WriteShards(Resolve(mapping, b))}]_shardMap
  BY <1>3 DEF WriteIds
<1>5. QED
  BY <1>4, MigrationTypeCorrect, PTL DEF Spec, HandoverKeepsWriter
=============================================================================
