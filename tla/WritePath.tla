----------------------------- MODULE WritePath ------------------------------
(***************************************************************************)
(* handleQuery, handleRead and handleWrite of internal/api/server.go while *)
(* the bucket is being moved.  A request resolves once, against the map of *)
(* that moment, and executes later; the secondaries of a dual write run in *)
(* goroutines of their own, in any order and without deadline.  The        *)
(* requests all concern one row of one bucket, whose value on each shard   *)
(* is the last write executed there.                                       *)
(*                                                                         *)
(* The orchestrator is external.  What handleWrite expects of it is        *)
(* modelled: CDC copies the source's row, and CUTOVER is published only    *)
(* when the copies agree.  It cannot see the requests that are in flight   *)
(* then, nor the secondaries.                                              *)
(***************************************************************************)
EXTENDS Migration

CONSTANTS
    Bucket,            \* the bucket whose row is followed
    Writers, Readers,  \* one write request each, any number of reads
    NoWrite            \* the value of the row before the first write

ASSUME WritePathAssumption ==
    /\ Bucket \in BucketIds
    /\ Writers \cap Readers = {}
    /\ NoWrite \notin Writers

VARIABLES
    row,       \* the row's value on each shard
    request,   \* of each request: "new", "resolved", "done", "failed"
    res,       \* the Resolved of a request in flight
    pending,   \* secondaries in flight: pairs of a write and its shard
    latest,    \* the last write that a primary executed
    overtaken  \* history: what CUTOVER overtook since the last write at home

reqVars == <<request, res>>
dataVars == <<row, pending, latest, overtaken>>
allVars == <<shardMap, reqVars, dataVars>>

Requests == Writers \cup Readers

WriteInit ==
    /\ Init
    /\ row = [s \in ShardIds |-> NoWrite]
    /\ request = [q \in Requests |-> "new"]
    /\ res = [q \in Requests |-> Refuse("nil")]
    /\ pending = {}
    /\ latest = NoWrite
    /\ overtaken = {}

-----------------------------------------------------------------------------
(* The API. *)

(* The shard that serves the bucket's reads by the current map. *)
Home == TableRead(shardMap[Bucket])

InFlight == {q \in Requests : request[q] = "resolved"}

Ends(q, outcome) ==
    /\ request[q] = "resolved"
    /\ request' = [request EXCEPT ![q] = outcome]
    /\ res' = [res EXCEPT ![q] = Refuse("nil")]

(* A request that does not resolve is answered with an error. *)
HandleQuery(q) ==
    /\ request[q] = "new"
    /\ Routes(mapping, Bucket)
    /\ request' = [request EXCEPT ![q] = "resolved"]
    /\ res' = [res EXCEPT ![q] = Resolve(mapping, Bucket)]
    /\ UNCHANGED <<shardMap, dataVars>>

(* The read returns row[res[q].read.shardID]; its slot is used again. *)
HandleRead(q) ==
    /\ q \in Readers
    /\ Ends(q, "new")
    /\ UNCHANGED <<shardMap, dataVars>>

(* One goroutine for each of WriteShards[1:]. *)
Secondaries(q) == {<<q, res[q].write[n].shardID>> : n \in 2 .. Len(res[q].write)}

(* Faulty: the secondaries are started before the primary is known to work. *)
WriteFailsLate(q) ==
    /\ q \in Writers
    /\ Ends(q, "failed")
    /\ pending' = pending \cup Secondaries(q)
    /\ UNCHANGED <<shardMap, row, latest, overtaken>>

(* Acquire or Exec fails and the primary has not executed the write. *)
WriteFails(q) ==
    /\ q \in Writers
    /\ Ends(q, "failed")
    /\ UNCHANGED <<shardMap, dataVars>>

(* Faulty: the last of the write shards is taken for the primary. *)
PrimaryExecutesLast(q) ==
    /\ row' = [row EXCEPT ![res[q].write[Len(res[q].write)].shardID] = q]
    /\ latest' = q

PrimaryExecutes(q) ==
    /\ row' = [row EXCEPT ![PrimaryWriteShard(res[q]).shardID] = q]
    /\ latest' = q

(* A write resolved before the cutover may find its shard no longer home. *)
NoteWrite(q) ==
    overtaken' = IF PrimaryWriteShard(res[q]).shardID = Home THEN {}
                 ELSE overtaken \cup {"write"}

HandleWrite(q) ==
    /\ q \in Writers
    /\ Ends(q, "done")
    /\ PrimaryExecutes(q) /\ NoteWrite(q)
    /\ pending' = pending \cup Secondaries(q)
    /\ UNCHANGED shardMap

(* The primary executes the write, but Exec returns an error. *)
WriteReplyLost(q) ==
    /\ q \in Writers
    /\ Ends(q, "done")
    /\ PrimaryExecutes(q) /\ NoteWrite(q)
    /\ UNCHANGED <<shardMap, pending>>

SecondaryExecutes(d) ==
    /\ d \in pending
    /\ row' = [row EXCEPT ![d[2]] = d[1]]
    /\ pending' = pending \ {d}
    /\ overtaken' = IF d[2] = Home THEN overtaken \cup {"secondary"} ELSE overtaken
    /\ UNCHANGED <<shardMap, reqVars, latest>>

(* Logged, not surfaced. *)
SecondaryFails(d) ==
    /\ d \in pending
    /\ pending' = pending \ {d}
    /\ UNCHANGED <<shardMap, reqVars, row, latest, overtaken>>

-----------------------------------------------------------------------------
(* The orchestrator (external). *)

CatchUp ==
    /\ shardMap[Bucket] # Absent
    /\ shardMap[Bucket].state \in {"COPYING"} \cup DualWriteStates
    /\ row' = [row EXCEPT ![shardMap[Bucket].destShardID] = row[shardMap[Bucket].shardID]]
    /\ UNCHANGED <<shardMap, reqVars, pending, latest, overtaken>>

CutsOver ==
    /\ shardMap[Bucket] # Absent
    /\ shardMap[Bucket].state = "VERIFYING" /\ shardMap'[Bucket].state = "CUTOVER"

Verified == row[shardMap[Bucket].shardID] = row[shardMap[Bucket].destShardID]

Publish ==
    /\ Next
    /\ CutsOver => Verified
    /\ UNCHANGED <<reqVars, dataVars>>

-----------------------------------------------------------------------------
WriteNext ==
    \/ \E q \in Requests : HandleQuery(q) \/ HandleRead(q)
    \/ \E q \in Writers : WriteFails(q) \/ HandleWrite(q) \/ WriteReplyLost(q)
    \/ \E q \in Writers, s \in ShardIds : SecondaryExecutes(<<q, s>>) \/ SecondaryFails(<<q, s>>)
    \/ CatchUp \/ Publish

WriteSpec == WriteInit /\ [][WriteNext]_allVars

-----------------------------------------------------------------------------
(* Properties. *)

(* The shard that serves reads has the last write that a primary executed, *)
(* for a request resolved now and for one in flight that is routed there.  *)
ReadsFindLatest ==
    /\ Routes(mapping, Bucket) => row[Resolve(mapping, Bucket).read.shardID] = latest
    /\ \A q \in InFlight : res[q].read.shardID = Home => row[res[q].read.shardID] = latest

(***************************************************************************)
(* "The primary shard's result is authoritative": through any number of    *)
(* migrations reads find the last write a primary executed, unless, since  *)
(* the last write at home, a CUTOVER has overtaken a write in flight, which*)
(* then executed on the old source, or a secondary, which then executed on *)
(* what had become the home.  Nothing else can break it: secondaries that  *)
(* are lost, late or reordered otherwise, failures, statuses.              *)
(***************************************************************************)
PrimaryIsAuthoritative == overtaken = {} => ReadsFindLatest

(***************************************************************************)
(* The same without excepting secondaries, whose outcome "is logged": what *)
(* a best-effort secondary does never decides what reads find.             *)
(***************************************************************************)
AuthoritativeDespiteSecondaries == "write" \notin overtaken => ReadsFindLatest

(***************************************************************************)
(* A write that its primary did not execute leaves no trace: no secondary  *)
(* has executed it and none still will.                                    *)
(***************************************************************************)
FailedWritesLeaveNoTrace ==
    \A q \in Writers : request[q] = "failed" =>
        /\ \A s \in ShardIds : row[s] # q
        /\ \A d \in pending : d[1] # q
=============================================================================
