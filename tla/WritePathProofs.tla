-------------------------- MODULE WritePathProofs ---------------------------
(***************************************************************************)
(* What the API guarantees about a bucket's rows while the bucket moves,   *)
(* for any number of shards, buckets, writers and readers.                 *)
(***************************************************************************)
EXTENDS WritePath, MigrationProofs

-----------------------------------------------------------------------------
(* The write path runs beside the migration and does not disturb it. *)

(* A step of the API or of CDC leaves the shard map alone. *)
LEMMA WriteStepIsNext == [WriteNext]_allVars => [Next]_shardMap
<1> SUFFICES ASSUME WriteNext, ~Publish PROVE shardMap' = shardMap
  BY DEF allVars, Publish
<1>1. QED
  BY DEF WriteNext, HandleQuery, HandleRead, WriteFails, HandleWrite, WriteReplyLost,
         SecondaryExecutes, SecondaryFails, CatchUp

(***************************************************************************)
(* Every behaviour of the API is one of the migration's: what is proved of *)
(* Resolve and of the hand-over in MigrationProofs holds while requests    *)
(* are in flight.                                                          *)
(***************************************************************************)
THEOREM WriteImplementsMigration == WriteSpec => Spec
<1>1. WriteInit => Init
  BY DEF WriteInit
<1>2. QED
  BY <1>1, WriteStepIsNext, PTL DEF WriteSpec, Spec

-----------------------------------------------------------------------------
(* Failed writes. *)

(* Types of the requests and the rows. *)
RowTypeOK ==
    /\ request \in [Requests -> {"new", "resolved", "done", "failed"}]
    /\ DOMAIN res = Requests
    /\ row \in [ShardIds -> Writers \cup {NoWrite}]

(* Only a write whose primary executed it is found on a shard or on its    *)
(* way to one.                                                             *)
Traceless(q) == (\A s \in ShardIds : row[s] # q) /\ (\A d \in pending : d[1] # q)

TraceInv ==
    /\ RowTypeOK
    /\ \A q \in Writers : request[q] # "done" => Traceless(q)

(* Initially nothing was written. *)
LEMMA InitTraceInv == WriteInit => TraceInv
BY WritePathAssumption DEF WriteInit, TraceInv, RowTypeOK, Traceless, Requests

(* A request ends. *)
LEMMA EndsType ==
    ASSUME RowTypeOK, NEW q \in Requests, NEW outcome \in {"new", "done", "failed"},
           Ends(q, outcome)
    PROVE  /\ request' \in [Requests -> {"new", "resolved", "done", "failed"}]
           /\ DOMAIN res' = Requests
           /\ \A p \in Requests : request'[p] = IF p = q THEN outcome ELSE request[p]
BY DEF RowTypeOK, Ends

(* The primary executes a write: the write may be found from then on. *)
LEMMA PrimaryTraceInv ==
    ASSUME TraceInv, NEW q \in Writers, Ends(q, "done"), PrimaryExecutes(q),
           \A d \in pending' : d \in pending \/ d[1] = q
    PROVE  TraceInv'
<1> USE DEF TraceInv
<1>1. q \in Requests
  BY DEF Requests
<1>2. /\ request' \in [Requests -> {"new", "resolved", "done", "failed"}]
      /\ DOMAIN res' = Requests
      /\ \A p \in Requests : request'[p] = IF p = q THEN "done" ELSE request[p]
  BY <1>1, EndsType
<1>3. PICK x : row' = [row EXCEPT ![x] = q]
  BY DEF PrimaryExecutes
<1>4. row' \in [ShardIds -> Writers \cup {NoWrite}]
  BY <1>3 DEF RowTypeOK
<1>5. ASSUME NEW p \in Writers, request'[p] # "done" PROVE Traceless(p)'
  <2>1. p # q /\ request[p] # "done"
    BY <1>2, <1>5 DEF Requests
  <2>2. Traceless(p)
    BY <2>1
  <2>3. \A s \in ShardIds : row'[s] # p
    BY <1>3, <2>1, <2>2 DEF Traceless, RowTypeOK
  <2>4. \A d \in pending' : d[1] # p
    BY <2>1, <2>2 DEF Traceless
  <2>5. QED
    BY <2>3, <2>4 DEF Traceless
<1>6. QED
  BY <1>2, <1>4, <1>5 DEF RowTypeOK

(* Every step keeps the invariant. *)
LEMMA NextTraceInv == TypeOK /\ TraceInv /\ [WriteNext]_allVars => TraceInv'
<1> SUFFICES ASSUME TypeOK, TraceInv, [WriteNext]_allVars PROVE TraceInv'
  OBVIOUS
<1> USE DEF TraceInv
<1>1. ASSUME NEW q \in Requests, HandleQuery(q) PROVE TraceInv'
  <2>1. request[q] = "new" /\ UNCHANGED <<row, pending>>
    BY <1>1 DEF HandleQuery, dataVars
  <2>2. RowTypeOK' /\ \A p \in Requests : request'[p] = IF p = q THEN "resolved" ELSE request[p]
    BY <1>1, <2>1 DEF HandleQuery, RowTypeOK
  <2>3. QED
    BY <2>1, <2>2 DEF Traceless, Requests
<1>2. ASSUME NEW q \in Requests, HandleRead(q) PROVE TraceInv'
  <2>1. q \in Readers /\ UNCHANGED <<row, pending>>
    BY <1>2 DEF HandleRead, dataVars
  <2>2. RowTypeOK' /\ \A p \in Requests : request'[p] = IF p = q THEN "new" ELSE request[p]
    BY <1>2, <2>1, EndsType DEF HandleRead, RowTypeOK
  <2>3. QED
    BY <2>1, <2>2, WritePathAssumption DEF Traceless, Requests
<1>3. ASSUME NEW q \in Writers, WriteFails(q) PROVE TraceInv'
  <2>1. request[q] = "resolved" /\ UNCHANGED <<row, pending>>
    BY <1>3 DEF WriteFails, Ends, dataVars
  <2>2. RowTypeOK' /\ \A p \in Requests : request'[p] = IF p = q THEN "failed" ELSE request[p]
    BY <1>3, <2>1, EndsType DEF WriteFails, RowTypeOK, Requests
  <2>3. QED
    BY <2>1, <2>2 DEF Traceless, Requests
<1>4. ASSUME NEW q \in Writers, HandleWrite(q) PROVE TraceInv'
  <2>1. \A d \in Secondaries(q) : d[1] = q
    BY DEF Secondaries
  <2>2. QED
    BY <1>4, <2>1, PrimaryTraceInv DEF HandleWrite
<1>5. ASSUME NEW q \in Writers, WriteReplyLost(q) PROVE TraceInv'
  BY <1>5, PrimaryTraceInv DEF WriteReplyLost
<1>6. ASSUME NEW q \in Writers, NEW s \in ShardIds, SecondaryExecutes(<<q, s>>) PROVE TraceInv'
  <2>1. /\ <<q, s>> \in pending /\ row' = [row EXCEPT ![s] = q]
        /\ pending' = pending \ {<<q, s>>} /\ UNCHANGED <<request, res>>
    BY <1>6 DEF SecondaryExecutes, reqVars
  <2>2. request[q] = "done"
    BY <2>1 DEF Traceless
  <2>3. RowTypeOK'
    BY <2>1 DEF RowTypeOK
  <2>4. QED
    BY <2>1, <2>2, <2>3 DEF Traceless, RowTypeOK
<1>7. ASSUME NEW q \in Writers, NEW s \in ShardIds, SecondaryFails(<<q, s>>) PROVE TraceInv'
  BY <1>7 DEF SecondaryFails, reqVars, RowTypeOK, Traceless
<1>8. CASE CatchUp
  <2>1. PICK source \in ShardIds : source = shardMap[Bucket].shardID
    BY <1>8, WritePathAssumption DEF CatchUp, TypeOK, BucketDefs
  <2>2. PICK d : row' = [row EXCEPT ![d] = row[source]]
    BY <1>8, <2>1 DEF CatchUp
  <2>3. UNCHANGED <<request, res, pending>>
    BY <1>8 DEF CatchUp, reqVars
  <2>4. \A s \in ShardIds : row'[s] \in {row[s], row[source]}
    BY <2>2 DEF RowTypeOK
  <2>5. RowTypeOK'
    BY <2>2, <2>3 DEF RowTypeOK
  <2>6. QED
    BY <2>3, <2>4, <2>5 DEF Traceless
<1>9. CASE Publish \/ UNCHANGED allVars
  BY <1>9 DEF Publish, allVars, reqVars, dataVars, RowTypeOK, Traceless
<1>10. QED
  BY <1>1, <1>2, <1>3, <1>4, <1>5, <1>6, <1>7, <1>8, <1>9 DEF WriteNext

(***************************************************************************)
(* A write that failed on its primary is on no shard and on its way to     *)
(* none, however requests, secondaries, CDC and publications interleave:   *)
(* handleWrite starts the secondaries only after the primary's success.    *)
(***************************************************************************)
THEOREM WriteFailuresLeaveNoTrace == WriteSpec => []FailedWritesLeaveNoTrace
<1>1. TraceInv => FailedWritesLeaveNoTrace
  BY DEF TraceInv, Traceless, FailedWritesLeaveNoTrace
<1>2. QED
  BY <1>1, InitTraceInv, NextTraceInv, WriteImplementsMigration, MigrationTypeCorrect, PTL
     DEF WriteSpec

-----------------------------------------------------------------------------
(* The authoritative copy. *)

(* The bucket's record in the shard map. *)
record == shardMap[Bucket]

(* A bucket that is being moved moves to another shard. *)
MovesAway ==
    record # Absent /\ record.state # "unset"
        => record.destShardID \in ShardIds /\ record.destShardID # record.shardID

(* Before the bucket is assigned nothing was written. *)
NothingYet ==
    record = Absent =>
        /\ latest = NoWrite /\ \A s \in ShardIds : row[s] = NoWrite
        /\ InFlight = {} /\ pending = {}

(* The shard that serves reads has the latest write, unless overtaken. *)
HomeIsLatest == record # Absent /\ overtaken = {} => row[Home] = latest

HomeInv == MovesAway /\ NothingYet /\ HomeIsLatest

(* The shard that serves reads is one of the shards. *)
LEMMA HomeIsShard ==
    ASSUME TypeOK, MovesAway, record # Absent
    PROVE  Home \in ShardIds
<1>1. record \in BucketDefs
  BY WritePathAssumption DEF TypeOK, record
<1>2. "unset" \notin DestStates
  BY DEF DestStates
<1>3. QED
  BY <1>1, <1>2, TableRows DEF Home, TableRead, MovesAway, BucketDefs, record

(* The steps that change the record of a bucket. *)
LEMMA RecordSteps ==
    ASSUME TypeOK, Next, shardMap'[Bucket] # shardMap[Bucket]
    PROVE  \/ \E s \in ShardIds : AssignBucket(Bucket, s) \/ StartMigration(Bucket, s)
           \/ AdvanceMigration(Bucket) \/ AbortMigration(Bucket) \/ FinishMigration(Bucket)
<1> USE WritePathAssumption, RouterAssumption DEF TypeOK
<1>1. ~ShardNext
  BY DEF ShardNext, RegisterShard, SetStatus, UnregisterShard, SetDef
<1>2. PICK b \in BucketIds :
           \/ \E s \in ShardIds : AssignBucket(b, s) \/ StartMigration(b, s)
           \/ AdvanceMigration(b) \/ AbortMigration(b) \/ FinishMigration(b)
  BY <1>1 DEF Next, BucketNext
<1>3. PICK def : SetDef(b, def)
  BY <1>2 DEF AssignBucket, StartMigration, AdvanceMigration, AbortMigration, FinishMigration
<1>4. b = Bucket
  BY <1>3 DEF SetDef
<1>5. QED
  BY <1>2, <1>4

(***************************************************************************)
(* What a publication does to the bucket's home: nothing, or it assigns    *)
(* one, or it is the cutover.                                              *)
(***************************************************************************)
LEMMA HomeMoves ==
    ASSUME TypeOK, MovesAway, Next
    PROVE  /\ MovesAway'
           /\ \/ record' = Absent /\ record = Absent
              \/ record = Absent /\ record' # Absent /\ Home' \in ShardIds
              \/ record # Absent /\ record' # Absent /\ Home' = Home
              \/ /\ record # Absent /\ record' # Absent /\ CutsOver
                 /\ Home = record.shardID /\ Home' = record.destShardID
<1> USE WritePathAssumption, RouterAssumption DEF record
<1>1. CASE shardMap'[Bucket] = shardMap[Bucket]
  BY <1>1 DEF MovesAway, Home
<1>2. ASSUME NEW def, SetDef(Bucket, def) PROVE record' = def
  BY <1>2 DEF SetDef, TypeOK
<1>3. "unset" \notin DestStates
  BY DEF DestStates
<1>4. \A src, dst, state : /\ BucketDef(src, dst, state).shardID = src
                           /\ BucketDef(src, dst, state).destShardID = dst
                           /\ BucketDef(src, dst, state).state = state
  BY DEF BucketDef
<1>5. ASSUME NEW s \in ShardIds, AssignBucket(Bucket, s)
      PROVE  record = Absent /\ record' # Absent /\ Home' = s /\ MovesAway'
  <2>1. record = Absent /\ record' = BucketDef(s, NoShard, "unset")
    BY <1>2, <1>5 DEF AssignBucket
  <2>2. BucketDef(s, NoShard, "unset") \in BucketDefs
    BY DEF BucketDef, BucketDefs, MigrationStates
  <2>3. QED
    BY <1>3, <1>4, <2>1, <2>2, TableRows DEF Home, TableRead, MovesAway
<1>6. ASSUME NEW d \in ShardIds, StartMigration(Bucket, d)
      PROVE  record # Absent /\ record' # Absent /\ Home' = Home /\ MovesAway'
  <2>1. /\ record # Absent /\ record.state = "unset" /\ d # record.shardID
        /\ record' = BucketDef(record.shardID, d, MigrationOrder[1])
    BY <1>2, <1>6 DEF StartMigration
  <2>2. MigrationOrder[1] = "ACTIVE_SOURCE" /\ "ACTIVE_SOURCE" \notin DestStates
    BY DEF MigrationOrder, DestStates
  <2>3. record \in BucketDefs
    BY <2>1 DEF TypeOK
  <2>4. MigrationOrder[1] \in MigrationStates
    BY OrderIsTyped DEF MigrationOrder
  <2>5. BucketDef(record.shardID, d, MigrationOrder[1]) \in BucketDefs
    BY <2>3, <2>4 DEF BucketDef, BucketDefs
  <2>6. record' # Absent
    BY <2>1, <2>5
  <2>7. QED
    BY <1>3, <1>4, <2>1, <2>2, <2>6, TableRows DEF Home, TableRead, MovesAway
<1>7. ASSUME AdvanceMigration(Bucket)
      PROVE  /\ record # Absent /\ record' # Absent /\ MovesAway'
             /\ \/ Home' = Home
                \/ CutsOver /\ Home = record.shardID /\ Home' = record.destShardID
  <2>1. PICK n \in 1 .. Len(MigrationOrder) - 1 :
             /\ record # Absent /\ record.state = MigrationOrder[n]
             /\ record' = [record EXCEPT !.state = MigrationOrder[n + 1]]
    BY <1>2, <1>7 DEF AdvanceMigration
  <2>2. n \in 1 .. 7
    BY DEF MigrationOrder
  <2>3. record \in BucketDefs
    BY <2>1 DEF TypeOK
  <2>4. /\ record'.state = MigrationOrder[n + 1]
        /\ record'.shardID = record.shardID /\ record'.destShardID = record.destShardID
    BY <2>1, <2>3 DEF BucketDefs
  <2>5. MigrationOrder[n + 1] \in MigrationStates
    BY <2>2, OrderIsTyped DEF MigrationOrder
  <2>6. record' \in BucketDefs
    BY <2>1, <2>3, <2>5 DEF BucketDefs
  <2>7. /\ MigrationOrder[n] # "unset"
        /\ \/ MigrationOrder[n] \in DestStates <=> MigrationOrder[n + 1] \in DestStates
           \/ /\ MigrationOrder[n] = "VERIFYING" /\ MigrationOrder[n + 1] = "CUTOVER"
              /\ "VERIFYING" \notin DestStates /\ "CUTOVER" \in DestStates
    BY <2>2 DEF MigrationOrder, DestStates
  <2>8. record' # Absent
    BY <2>6
  <2>9. MovesAway'
    BY <2>1, <2>4, <2>7 DEF MovesAway
  <2>10. \/ Home' = Home
         \/ CutsOver /\ Home = record.shardID /\ Home' = record.destShardID
    BY <2>1, <2>4, <2>7, TableRows DEF Home, TableRead, CutsOver
  <2>11. QED
    BY <2>1, <2>8, <2>9, <2>10
<1>8. ASSUME AbortMigration(Bucket)
      PROVE  record # Absent /\ record' # Absent /\ Home' = Home /\ MovesAway'
  <2>1. /\ record # Absent /\ record.state \notin DestStates
        /\ record' = BucketDef(record.shardID, NoShard, "unset")
    BY <1>2, <1>8 DEF AbortMigration
  <2>2. record \in BucketDefs
    BY <2>1 DEF TypeOK
  <2>3. BucketDef(record.shardID, NoShard, "unset") \in BucketDefs
    BY <2>2 DEF BucketDef, BucketDefs, MigrationStates
  <2>4. record' # Absent
    BY <2>1, <2>3
  <2>5. QED
    BY <1>3, <1>4, <2>1, <2>4, TableRows DEF Home, TableRead, MovesAway
<1>9. ASSUME FinishMigration(Bucket)
      PROVE  record # Absent /\ record' # Absent /\ Home' = Home /\ MovesAway'
  <2>1. /\ record # Absent /\ record.state = "ACTIVE_DEST"
        /\ record.destShardID \in ShardIds
        /\ record' = BucketDef(record.destShardID, NoShard, "unset")
    BY <1>2, <1>9 DEF FinishMigration, Registered
  <2>2. BucketDef(record.destShardID, NoShard, "unset") \in BucketDefs
    BY <2>1 DEF BucketDef, BucketDefs, MigrationStates
  <2>3. record' # Absent /\ "ACTIVE_DEST" \in DestStates
    BY <2>1, <2>2 DEF DestStates
  <2>4. QED
    BY <1>3, <1>4, <2>1, <2>3, TableRows DEF Home, TableRead, MovesAway
<1>10. QED
  BY <1>1, <1>5, <1>6, <1>7, <1>8, <1>9, RecordSteps

(* Initially the bucket is not assigned. *)
LEMMA InitHomeInv == WriteInit => HomeInv
<1> SUFFICES ASSUME WriteInit PROVE HomeInv
  OBVIOUS
<1>1. record = Absent
  BY WritePathAssumption DEF WriteInit, Init, record
<1>2. InFlight = {} /\ pending = {} /\ latest = NoWrite /\ \A s \in ShardIds : row[s] = NoWrite
  BY DEF WriteInit, InFlight
<1>3. QED
  BY <1>1, <1>2 DEF HomeInv, MovesAway, NothingYet, HomeIsLatest

(* A publication: the home stays, is first assigned, or is cut over with   *)
(* equal copies.                                                           *)
LEMMA PublishHomeInv ==
    ASSUME TypeOK, HomeInv, Publish
    PROVE  HomeInv'
<1> USE DEF HomeInv
<1>1. UNCHANGED <<request, row, pending, latest, overtaken>>
  BY DEF Publish, reqVars, dataVars
<1>2. InFlight' = InFlight
  BY <1>1 DEF InFlight
<1>3. MovesAway'
  BY HomeMoves DEF Publish
<1>4. CASE record' = Absent /\ record = Absent
  BY <1>1, <1>2, <1>3, <1>4 DEF NothingYet, HomeIsLatest
<1>5. CASE record = Absent /\ record' # Absent /\ Home' \in ShardIds
  <2>1. latest = NoWrite /\ \A s \in ShardIds : row[s] = NoWrite
    BY <1>5 DEF NothingYet
  <2>2. QED
    BY <1>1, <1>3, <1>5, <2>1 DEF NothingYet, HomeIsLatest
<1>6. CASE record # Absent /\ record' # Absent /\ Home' = Home
  BY <1>1, <1>3, <1>6 DEF NothingYet, HomeIsLatest
<1>7. CASE /\ record # Absent /\ record' # Absent /\ CutsOver
           /\ Home = record.shardID /\ Home' = record.destShardID
  <2>1. Verified
    BY <1>7 DEF Publish
  <2>2. row[Home] = row[Home']
    BY <1>7, <2>1 DEF Verified, record
  <2>3. QED
    BY <1>1, <1>3, <1>7, <2>2 DEF NothingYet, HomeIsLatest
<1>8. QED
  BY <1>4, <1>5, <1>6, <1>7, HomeMoves DEF Publish

(* The other steps leave the home where it is. *)
LEMMA HomeStays ==
    ASSUME shardMap' = shardMap
    PROVE  record' = record /\ Home' = Home /\ (MovesAway => MovesAway')
<1>1. record' = record /\ Home' = Home
  BY DEF record, Home
<1>2. QED
  BY <1>1 DEF MovesAway

(* The primary executes a write: at home, and then it is what reads find,  *)
(* or on a shard that is no longer home, and then it is noted.             *)
LEMMA PrimaryHomeInv ==
    ASSUME TypeOK, RowTypeOK, HomeInv, shardMap' = shardMap, NEW q \in Writers,
           Ends(q, "done"), PrimaryExecutes(q), NoteWrite(q)
    PROVE  HomeInv'
<1> USE DEF HomeInv
<1>1. q \in InFlight
  BY DEF Ends, InFlight, Requests
<1>2. record # Absent
  BY <1>1 DEF NothingYet
<1>3. record' = record /\ Home' = Home /\ MovesAway'
  BY HomeStays
<1>4. Home \in ShardIds
  BY <1>2, HomeIsShard
<1>5. PICK x : x = PrimaryWriteShard(res[q]).shardID
  OBVIOUS
<1>6. /\ row' = [row EXCEPT ![x] = q] /\ latest' = q
      /\ overtaken' = IF x = Home THEN {} ELSE overtaken \cup {"write"}
  BY <1>5 DEF PrimaryExecutes, NoteWrite
<1>7. HomeIsLatest'
  <2>1. CASE x = Home
    BY <1>3, <1>4, <1>6, <2>1 DEF HomeIsLatest, RowTypeOK
  <2>2. CASE x # Home
    BY <1>6, <2>2 DEF HomeIsLatest
  <2>3. QED
    BY <2>1, <2>2
<1>8. QED
  BY <1>2, <1>3, <1>7 DEF NothingYet

(* Every step keeps the invariant. *)
LEMMA NextHomeInv ==
    ASSUME TypeOK, RowTypeOK, HomeInv, [WriteNext]_allVars
    PROVE  HomeInv'
<1> USE DEF HomeInv
<1>1. ASSUME shardMap' = shardMap, UNCHANGED <<latest, overtaken>>, record # Absent,
             row'[Home] = row[Home]
      PROVE  HomeInv'
  BY <1>1, HomeStays DEF NothingYet, HomeIsLatest
<1>2. ASSUME NEW q \in Requests, HandleQuery(q) PROVE HomeInv'
  <2>1. shardMap' = shardMap /\ UNCHANGED <<row, latest, overtaken>> /\ Routes(mapping, Bucket)
    BY <1>2 DEF HandleQuery, dataVars
  <2>2. record # Absent
    BY <2>1, RoutedPaths, WritePathAssumption DEF record
  <2>3. QED
    BY <1>1, <2>1, <2>2
<1>3. ASSUME NEW q \in Requests, HandleRead(q) \/ WriteFails(q) PROVE HomeInv'
  <2>1. shardMap' = shardMap /\ UNCHANGED <<row, latest, overtaken>> /\ q \in InFlight
    BY <1>3 DEF HandleRead, WriteFails, Ends, InFlight, dataVars
  <2>2. record # Absent
    BY <2>1 DEF NothingYet
  <2>3. QED
    BY <1>1, <2>1, <2>2
<1>4. ASSUME NEW q \in Writers, HandleWrite(q) \/ WriteReplyLost(q) PROVE HomeInv'
  BY <1>4, PrimaryHomeInv DEF HandleWrite, WriteReplyLost
<1>5. ASSUME NEW q \in Writers, NEW s \in ShardIds, SecondaryExecutes(<<q, s>>) PROVE HomeInv'
  <2>1. /\ shardMap' = shardMap /\ UNCHANGED latest /\ <<q, s>> \in pending
        /\ row' = [row EXCEPT ![s] = q]
        /\ overtaken' = IF s = Home THEN overtaken \cup {"secondary"} ELSE overtaken
    BY <1>5 DEF SecondaryExecutes
  <2>2. record # Absent
    BY <2>1 DEF NothingYet
  <2>3. CASE s = Home
    <3>1. overtaken' # {}
      BY <2>1, <2>3
    <3>2. QED
      BY <2>1, <2>2, <3>1, HomeStays DEF NothingYet, HomeIsLatest
  <2>4. CASE s # Home
    <3>1. row'[Home] = row[Home]
      BY <2>1, <2>2, <2>4, HomeIsShard DEF RowTypeOK
    <3>2. QED
      BY <1>1, <2>1, <2>2, <2>4, <3>1
  <2>5. QED
    BY <2>3, <2>4
<1>6. ASSUME NEW q \in Writers, NEW s \in ShardIds, SecondaryFails(<<q, s>>) PROVE HomeInv'
  <2>1. shardMap' = shardMap /\ UNCHANGED <<row, latest, overtaken>> /\ <<q, s>> \in pending
    BY <1>6 DEF SecondaryFails
  <2>2. record # Absent
    BY <2>1 DEF NothingYet
  <2>3. QED
    BY <1>1, <2>1, <2>2
<1>7. CASE CatchUp
  <2>1. /\ shardMap' = shardMap /\ UNCHANGED <<latest, overtaken>>
        /\ record # Absent /\ record.state \in {"COPYING"} \cup DualWriteStates
        /\ row' = [row EXCEPT ![record.destShardID] = row[record.shardID]]
    BY <1>7 DEF CatchUp, record
  <2>2. record.state \notin DestStates /\ record.state # "unset"
    BY <2>1 DEF DualWriteStates, DestStates
  <2>3. record.destShardID # Home
    BY <2>1, <2>2, TableRows DEF Home, TableRead, MovesAway, record
  <2>4. row'[Home] = row[Home]
    BY <2>1, <2>3, HomeIsShard DEF RowTypeOK
  <2>5. QED
    BY <1>1, <2>1, <2>4
<1>8. CASE Publish
  BY <1>8, PublishHomeInv
<1>9. CASE UNCHANGED allVars
  <2>1. shardMap' = shardMap /\ UNCHANGED <<request, row, pending, latest, overtaken>>
    BY <1>9 DEF allVars, reqVars, dataVars
  <2>2. InFlight' = InFlight
    BY <2>1 DEF InFlight
  <2>3. QED
    BY <2>1, <2>2, HomeStays DEF NothingYet, HomeIsLatest
<1>10. QED
  BY <1>2, <1>3, <1>4, <1>5, <1>6, <1>7, <1>8, <1>9 DEF WriteNext, Requests

(***************************************************************************)
(* "The primary shard's result is authoritative", for any number of        *)
(* requests and of migrations one after the other, finished or given up:   *)
(* reads find the last write a primary executed unless, since the last     *)
(* write at home, a CUTOVER has overtaken a write in flight or a secondary *)
(* (both can happen).  It rests on CUTOVER being published with equal      *)
(* copies and on nothing else.  The argument: apart from those two, only   *)
(* primaries and the cutover touch what reads see, since secondaries and   *)
(* CDC write to other shards than the bucket's home.                       *)
(***************************************************************************)
THEOREM WritePrimaryIsAuthoritative == WriteSpec => []PrimaryIsAuthoritative
<1>1. TypeOK /\ TraceInv /\ HomeInv /\ [WriteNext]_allVars => HomeInv'
  BY NextHomeInv DEF TraceInv
<1>2. TypeOK /\ HomeInv => PrimaryIsAuthoritative
  <2> SUFFICES ASSUME TypeOK, HomeInv, overtaken = {} PROVE ReadsFindLatest
    BY DEF PrimaryIsAuthoritative
  <2> USE DEF HomeInv
  <2>1. ASSUME Routes(mapping, Bucket)
        PROVE  row[Resolve(mapping, Bucket).read.shardID] = latest
    <3>1. record # Absent /\ Resolve(mapping, Bucket).read.shardID = Home
      BY <2>1, RoutedPaths, RoutedWrites, WritePathAssumption DEF record, Home
    <3>2. QED
      BY <3>1 DEF HomeIsLatest
  <2>2. \A q \in InFlight : res[q].read.shardID = Home => row[res[q].read.shardID] = latest
    BY DEF NothingYet, HomeIsLatest
  <2>3. QED
    BY <2>1, <2>2 DEF ReadsFindLatest
<1>3. QED
  BY <1>1, <1>2, InitHomeInv, InitTraceInv, NextTraceInv, WriteImplementsMigration,
     MigrationTypeCorrect, PTL DEF WriteSpec
=============================================================================
