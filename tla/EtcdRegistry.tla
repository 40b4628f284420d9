---------------------------- MODULE EtcdRegistry ----------------------------
(***************************************************************************)
(* The etcd-backed registry: internal/registry/etcd.go, the watch half of  *)
(* internal/registry/etcdhttp.go and internal/cache/mapping.go.            *)
(*                                                                         *)
(* Three goroutines share the cache.Store.  Start runs loadAll once and    *)
(* then launches watchLoop and reconcileLoop.  watchLoop opens a stream,   *)
(* whose producer goroutine decodes messages and hands them over an        *)
(* unbuffered channel; for each batch it Loads the store, applies the      *)
(* events to a Clone and Swaps the clone in.  reconcileLoop re-runs        *)
(* loadAll on every tick.  Load and Swap are atomic, the pair is not.      *)
(*                                                                         *)
(* etcd is external: an append-only log of writes whose length is the      *)
(* store revision, of which a prefix may have been compacted.              *)
(***************************************************************************)
EXTENDS Integers, Sequences, FiniteSetsExt

CONSTANTS
    Keys,            \* the keys under /sharding/
    Foreign,         \* stands for every key outside /sharding/
    Ids,             \* shard ids and bucket ids, the domain of the local map
    NoId,            \* the id of a key applyKV ignores (version, migrations, ...)
    IdOf,            \* [Keys -> Ids \cup {NoId}]: two keys may share an id (0527, 527)
    KeyRank,         \* [Keys -> Nat]: how far from the end a Range response lists a key
    Defs,            \* values that decode to a ShardDef or BucketDef
    Completed,       \* [Ids -> [Defs -> Defs]]: a decoded record with its id filled in
    Malformed,       \* a value that json.Unmarshal rejects
    Values,          \* the values the control plane writes
    Absent,          \* no value: a deleted or never written key, an id not in the map
    NoMapping,       \* the nil *Mapping of a fresh cache.Store
    Reconciling,     \* does ReconcileInterval elapse within the behaviour?
    DelayedHeaders,  \* may a watch response carry a revision newer than its events?
    Compacting,      \* does etcd compact its history?
    MaxRev           \* bound on the number of writes to etcd

(* A cache.Mapping's content, and the cache.Mapping itself. *)
Maps == [Ids -> Defs \cup {Absent}]

Mappings == [rev: Nat, map: Maps]

ASSUME ConstantsAssumption ==
    /\ Foreign \notin Keys
    /\ NoId \notin Ids
    /\ IdOf \in [Keys -> Ids \cup {NoId}]
    /\ KeyRank \in [Keys -> Nat]
    /\ Completed \in [Ids -> [Defs -> Defs]]
    /\ Malformed \notin Defs
    /\ Absent \notin Defs \cup {Malformed}
    /\ Values \subseteq Defs \cup {Malformed}
    /\ NoMapping \notin Mappings
    /\ Reconciling \in BOOLEAN
    /\ DelayedHeaders \in BOOLEAN
    /\ Compacting \in BOOLEAN
    /\ MaxRev \in Nat

VARIABLES
    log,          \* etcd: log[r] is the write that created revision r
    compacted,    \* etcd: the compaction revision
    store,        \* cache.Store: the current *Mapping
    lpc, built,   \* the caller of loadAll (Start, then reconcileLoop), its mapping m
    wpc,          \* watchLoop's control state
    fromRevision, \* watchLoop's argument
    watchRev,     \* watchLoop's resume revision
    cur, batch,   \* watchLoop's locals between Load and Swap
    prod, msg,    \* the stream's producer goroutine, the message it is sending
    sent,         \* etcd: last revision whose events the open stream has carried
    ctxDone       \* is the registry's context canceled?

etcdVars   == <<log, compacted>>
loadVars   == <<lpc, built>>
watchVars  == <<wpc, fromRevision, watchRev, cur, batch>>
streamVars == <<prod, msg, sent>>
vars == <<etcdVars, store, loadVars, watchVars, streamVars, ctxDone>>

-----------------------------------------------------------------------------
(* etcd's key-value store at revision n. *)

WritesTo(k, n) == {r \in 1..n : log[r].key = k}

ValueAt(k, n) ==
    LET ws == WritesTo(k, n)
    IN  IF ws = {} THEN Absent ELSE log[Max(ws)].val

(***************************************************************************)
(* What applyKV stores for an id: the decoded record, whose bucket_id it   *)
(* sets, and whose shard_id it sets if the record leaves it empty.         *)
(***************************************************************************)
Stored(i, v) == IF v \in Defs THEN Completed[i][v] ELSE v

(***************************************************************************)
(* loadAll applies the pairs of one Range response in key order to an      *)
(* empty mapping and skips what does not decode: an id ends up with the    *)
(* value of its last key that decodes.                                     *)
(***************************************************************************)
DecodableKeys(i, n) == {k \in Keys : IdOf[k] = i /\ ValueAt(k, n) \in Defs}

(* Faulty: the first key of an id wins. *)
LastListedFirst(ks) == CHOOSE k \in ks : \A q \in ks : KeyRank[k] >= KeyRank[q]

LastListed(ks) == CHOOSE k \in ks : \A q \in ks : KeyRank[k] <= KeyRank[q]

LoadMap(n) ==
    [i \in Ids |-> LET ks == DecodableKeys(i, n)
                   IN  IF ks = {} THEN Absent
                       ELSE Stored(i, ValueAt(LastListed(ks), n))]

Snapshot(n) == [rev |-> n, map |-> LoadMap(n)]

(***************************************************************************)
(* applyKV on one watch event: a DELETE (val = Absent) removes the id, a   *)
(* PUT sets it, a PUT that does not decode leaves the previous definition, *)
(* and keys that are neither shards nor buckets are ignored.               *)
(***************************************************************************)
(* Faulty: a value that does not decode is stored. *)
AppliesMalformed(ev, i) == ev.key \in Keys /\ IdOf[ev.key] = i

(* Faulty: DELETE events are ignored. *)
AppliesPutsOnly(ev, i) ==
    ev.key \in Keys /\ IdOf[ev.key] = i /\ ev.val \notin {Malformed, Absent}

Applies(ev, i) == ev.key \in Keys /\ IdOf[ev.key] = i /\ ev.val # Malformed

ApplyKV(map, ev) ==
    [i \in Ids |-> IF Applies(ev, i) THEN Stored(i, ev.val) ELSE map[i]]

(* The loop over batch.Events: the last event that applies to an id wins. *)
AppliedTo(i, first, last) == {r \in first..last : Applies(log[r], i)}

ApplyEvents(map, first, last) ==
    [i \in Ids |-> LET rs == AppliedTo(i, first, last)
                   IN  IF rs = {} THEN map[i] ELSE Stored(i, log[Max(rs)].val)]

EmptyMapping == [rev |-> 0, map |-> [i \in Ids |-> Absent]]

(* Faulty: the clone keeps the revision it was cloned with. *)
NextMappingKeepsRevision ==
    LET base == IF cur = NoMapping THEN EmptyMapping ELSE cur
    IN  [rev |-> base.rev, map |-> ApplyEvents(base.map, batch.first, batch.last)]

(* What watchLoop swaps in: a clone of cur with the batch applied. *)
NextMapping ==
    LET base == IF cur = NoMapping THEN EmptyMapping ELSE cur
    IN  [rev |-> IF batch.rev > 0 THEN batch.rev ELSE base.rev,
         map |-> ApplyEvents(base.map, batch.first, batch.last)]

(***************************************************************************)
(* A watch message: header revision, the range of revisions whose events   *)
(* it carries, and whether the server canceled the watch.  ZeroMsg is what *)
(* the producer decodes from a gateway message that has no "result".       *)
(***************************************************************************)
ZeroMsg == [rev |-> 0, first |-> 1, last |-> 0, canceled |-> FALSE]

Messages == [rev: Nat, first: Nat, last: Nat, canceled: BOOLEAN]

Init ==
    /\ log = <<>>
    /\ compacted = 0
    /\ store = NoMapping
    /\ lpc = "start" /\ built = NoMapping
    /\ wpc = "off" /\ fromRevision = 0 /\ watchRev = 0
    /\ cur = NoMapping /\ batch = ZeroMsg
    /\ prod = "none" /\ msg = ZeroMsg /\ sent = 0
    /\ ctxDone = FALSE

-----------------------------------------------------------------------------
(* etcd and the control plane that writes to it (external). *)

Write(k, v) ==
    /\ Len(log) < MaxRev
    /\ log' = Append(log, [key |-> k, val |-> v])
    /\ UNCHANGED <<compacted, store, loadVars, watchVars, streamVars, ctxDone>>

Put == \E k \in Keys, v \in Values : Write(k, v)

Delete == \E k \in Keys : ValueAt(k, Len(log)) # Absent /\ Write(k, Absent)

WriteForeign == Write(Foreign, Absent)

Compact ==
    /\ Compacting
    /\ \E r \in compacted + 1 .. Len(log) : compacted' = r
    /\ UNCHANGED <<log, store, loadVars, watchVars, streamVars, ctxDone>>

-----------------------------------------------------------------------------
(* loadAll, called by Start and then by reconcileLoop. *)

(* The Range request is served: m is built from etcd's current revision. *)
LoadAllRange ==
    /\ lpc \in {"start", "due"}
    /\ ~ctxDone
    /\ built' = Snapshot(Len(log))
    /\ lpc' = IF lpc = "start" THEN "startSwap" ELSE "swap"
    /\ UNCHANGED <<etcdVars, store, watchVars, streamVars, ctxDone>>

(* authenticate or the initial load fails: Start returns the error. *)
StartFails ==
    /\ lpc = "start"
    /\ lpc' = "failed"
    /\ UNCHANGED <<etcdVars, store, built, watchVars, streamVars, ctxDone>>

(* Faulty: watchLoop watches from the first revision. *)
FirstWatchedIsFirst(rev) == 1

(* The first revision watchLoop asks for. *)
FirstWatched(rev) == rev + 1

(* Start's loadAll swaps its mapping in, then both loops are launched. *)
StartSwap ==
    /\ lpc = "startSwap"
    /\ store' = built
    /\ fromRevision' = built.rev
    /\ watchRev' = FirstWatched(built.rev)
    /\ wpc' = "open"
    /\ lpc' = "wait" /\ built' = NoMapping
    /\ UNCHANGED <<etcdVars, cur, batch, streamVars, ctxDone>>

ReconcileTick ==
    /\ Reconciling
    /\ lpc = "wait"
    /\ lpc' = "due"
    /\ UNCHANGED <<etcdVars, store, built, watchVars, streamVars, ctxDone>>

(* The periodic Range fails: logged, the old mapping keeps serving. *)
ReconcileFails ==
    /\ lpc = "due"
    /\ lpc' = "wait"
    /\ UNCHANGED <<etcdVars, store, built, watchVars, streamVars, ctxDone>>

(* Faulty: a load is dropped unless its revision is a later one. *)
ReconcileSwapIfNewer ==
    /\ lpc = "swap"
    /\ store' = IF built.rev > store.rev THEN built ELSE store
    /\ lpc' = "wait" /\ built' = NoMapping
    /\ UNCHANGED <<etcdVars, watchVars, streamVars, ctxDone>>

ReconcileSwap ==
    /\ lpc = "swap"
    /\ store' = built
    /\ lpc' = "wait" /\ built' = NoMapping
    /\ UNCHANGED <<etcdVars, watchVars, streamVars, ctxDone>>

ReconcileReturns ==
    /\ lpc = "wait" /\ ctxDone
    /\ lpc' = "done"
    /\ UNCHANGED <<etcdVars, store, built, watchVars, streamVars, ctxDone>>

-----------------------------------------------------------------------------
(* watchPrefix and its producer goroutine. *)

(* The request is answered 200: a producer starts reading the stream. *)
WatchOpens ==
    /\ wpc = "open" /\ ~ctxDone
    /\ wpc' = "recv"
    /\ prod' = "reading" /\ sent' = watchRev - 1 /\ msg' = ZeroMsg
    /\ UNCHANGED <<etcdVars, store, loadVars, fromRevision, watchRev, cur, batch, ctxDone>>

WatchOpenFails ==
    /\ wpc = "open"
    /\ wpc' = "sleep"
    /\ UNCHANGED <<etcdVars, store, loadVars, fromRevision, watchRev, cur, batch,
                   streamVars, ctxDone>>

(* The producer decodes m (already buffered, perhaps, when the context is  *)
(* canceled) and blocks on the channel send.                               *)
ProducerDecodes(m) ==
    /\ prod = "reading"
    /\ prod' = "sending" /\ msg' = m
    /\ UNCHANGED <<etcdVars, store, loadVars, watchVars, ctxDone>>

(***************************************************************************)
(* etcd sends the events sent+1..e.  The header's revision is that of the  *)
(* last event, or, for a watcher that etcd is still catching up, the       *)
(* revision the store has reached by then.                                 *)
(***************************************************************************)
ServerSendsEvents ==
    /\ sent + 1 >= compacted
    /\ \E e \in sent + 1 .. Len(log) :
          /\ log[e].key \in Keys
          /\ \E h \in (IF DelayedHeaders THEN e .. Len(log) ELSE {e}) :
                ProducerDecodes([rev |-> h, first |-> sent + 1, last |-> e,
                                 canceled |-> FALSE])
          /\ sent' = e

(* The watch needs revisions that were compacted: etcd cancels it. *)
ServerCancels ==
    /\ sent + 1 < compacted
    /\ ProducerDecodes([rev |-> Len(log), first |-> 1, last |-> 0, canceled |-> TRUE])
    /\ UNCHANGED sent

GatewayError == ProducerDecodes(ZeroMsg) /\ UNCHANGED sent

(* Decode error, 30s client timeout or canceled request: the producer      *)
(* closes the channel.                                                     *)
StreamEnds ==
    /\ prod = "reading"
    /\ prod' = "none" /\ sent' = 0
    /\ UNCHANGED <<etcdVars, store, loadVars, watchVars, msg, ctxDone>>

(* The select in the producer takes ctx.Done instead of the send. *)
ProducerReturns ==
    /\ prod = "sending" /\ ctxDone
    /\ prod' = "none" /\ msg' = ZeroMsg /\ sent' = 0
    /\ UNCHANGED <<etcdVars, store, loadVars, watchVars, ctxDone>>

-----------------------------------------------------------------------------
(* watchLoop. *)

(* Faulty: the producer reads on after a cancellation. *)
ProducerReadsOn(m) == "reading"

(* After a send the producer returns if the batch was a cancellation. *)
ProducerAfterSend(m) == IF m.canceled THEN "none" ELSE "reading"

(* A batch arrives: a cancellation leaves the loop over the channel, any   *)
(* other batch makes watchLoop Load the store.                             *)
WatchReceives ==
    /\ wpc = "recv" /\ prod = "sending"
    /\ \/ /\ msg.canceled
          /\ wpc' = "sleep" /\ sent' = 0
          /\ UNCHANGED <<cur, batch>>
       \/ /\ ~msg.canceled
          /\ wpc' = "apply"
          /\ cur' = store /\ batch' = msg
          /\ UNCHANGED sent
    /\ prod' = ProducerAfterSend(msg) /\ msg' = ZeroMsg
    /\ UNCHANGED <<etcdVars, store, loadVars, fromRevision, watchRev, ctxDone>>

(* Faulty: the revision after the next one. *)
ResumeRevisionSkips == IF batch.rev > 0 THEN batch.rev + 2 ELSE watchRev

(* Faulty: batches do not move the resume revision. *)
ResumeRevisionStuck == watchRev

ResumeRevision == IF batch.rev > 0 THEN batch.rev + 1 ELSE watchRev

WatchSwap ==
    /\ wpc = "apply"
    /\ store' = NextMapping
    /\ watchRev' = ResumeRevision
    /\ wpc' = "recv" /\ cur' = NoMapping /\ batch' = ZeroMsg
    /\ UNCHANGED <<etcdVars, loadVars, fromRevision, streamVars, ctxDone>>

WatchChannelClosed ==
    /\ wpc = "recv" /\ prod = "none"
    /\ wpc' = "sleep"
    /\ UNCHANGED <<etcdVars, store, loadVars, fromRevision, watchRev, cur, batch,
                   streamVars, ctxDone>>

WatchWakes ==
    /\ wpc = "sleep"
    /\ wpc' = "open"
    /\ UNCHANGED <<etcdVars, store, loadVars, fromRevision, watchRev, cur, batch,
                   streamVars, ctxDone>>

(* Faulty: the context is only looked at before a stream is opened, and    *)
(* the result of sleepOrDone is taken for a reason to go on.               *)
WatchReturnsLate ==
    /\ wpc = "sleep" /\ ctxDone
    /\ wpc' = "open"
    /\ UNCHANGED <<etcdVars, store, loadVars, fromRevision, watchRev, cur, batch,
                   streamVars, ctxDone>>

WatchReturns ==
    /\ wpc \in {"open", "sleep"} /\ ctxDone
    /\ wpc' = "done"
    /\ UNCHANGED <<etcdVars, store, loadVars, fromRevision, watchRev, cur, batch,
                   streamVars, ctxDone>>

(* SIGTERM reaches run's context, or Close cancels the watch context. *)
CancelContext ==
    /\ ~ctxDone
    /\ ctxDone' = TRUE
    /\ UNCHANGED <<etcdVars, store, loadVars, watchVars, streamVars>>

-----------------------------------------------------------------------------
EtcdNext == Put \/ Delete \/ WriteForeign \/ Compact

LoadNext ==
    \/ LoadAllRange \/ StartFails \/ StartSwap
    \/ ReconcileTick \/ ReconcileFails \/ ReconcileSwap \/ ReconcileReturns

StreamNext ==
    \/ ServerSendsEvents \/ ServerCancels \/ GatewayError
    \/ StreamEnds \/ ProducerReturns

WatchNext ==
    \/ WatchOpens \/ WatchOpenFails \/ WatchReceives \/ WatchSwap
    \/ WatchChannelClosed \/ WatchWakes \/ WatchReturns

RegistryNext == LoadNext \/ StreamNext \/ WatchNext \/ CancelContext

Next == EtcdNext \/ RegistryNext

Spec == Init /\ [][Next]_vars

(***************************************************************************)
(* Fairness.  A goroutine that can take a step takes it; the ticker fires. *)
(* A request to etcd may fail any number of times but not forever (an      *)
(* outage is temporary), the http.Client's 30s timeout ends every stream,  *)
(* and a select that finds ctx.Done ready again and again takes it once.   *)
(* The control plane and the signal owe nothing.                           *)
(***************************************************************************)
LoadFairness ==
    /\ WF_vars(StartFails) /\ WF_vars(StartSwap)
    /\ WF_vars(ReconcileTick) /\ WF_vars(ReconcileFails) /\ WF_vars(ReconcileSwap)
    /\ SF_vars(LoadAllRange) /\ SF_vars(ReconcileReturns)

WatchFairness ==
    /\ SF_vars(WatchOpens) /\ SF_vars(ServerSendsEvents)
    /\ SF_vars(StreamEnds) /\ WF_vars(ProducerReturns)
    /\ WF_vars(WatchReceives) /\ WF_vars(WatchSwap)
    /\ WF_vars(WatchChannelClosed) /\ WF_vars(WatchWakes) /\ WF_vars(WatchReturns)

(* Only loadAll's callers are fair: the watch may be stuck for good. *)
ReconcileSpec == Spec /\ LoadFairness

(* Everyone is, and etcd gets to tell a watcher that it is compacted. *)
FairSpec == Spec /\ LoadFairness /\ WatchFairness /\ SF_vars(ServerCancels)

-----------------------------------------------------------------------------
(* Properties. *)

Writes == [key: Keys \cup {Foreign}, val: Values \cup {Absent}]

(* Type correctness of the registry's state. *)
TypeOK ==
    /\ log \in Seq(Writes)
    /\ compacted \in Nat
    /\ store \in Mappings \cup {NoMapping}
    /\ lpc \in {"start", "startSwap", "wait", "due", "swap", "done", "failed"}
    /\ built \in Mappings \cup {NoMapping}
    /\ wpc \in {"off", "open", "recv", "apply", "sleep", "done"}
    /\ fromRevision \in Nat /\ watchRev \in Nat
    /\ cur \in Mappings \cup {NoMapping}
    /\ batch \in Messages
    /\ prod \in {"none", "reading", "sending"}
    /\ msg \in Messages
    /\ sent \in Nat
    /\ ctxDone \in BOOLEAN

(***************************************************************************)
(* A stream's producer goroutine never outlives watchLoop's interest in    *)
(* it: while it runs, watchLoop is still ranging over its channel, so it   *)
(* can neither leak nor run beside the producer of a reopened stream.      *)
(***************************************************************************)
ProducerNotOrphaned == prod # "none" => wpc \in {"recv", "apply"}

(***************************************************************************)
(* The served mapping is etcd's content at the revision it carries, what   *)
(* cache.Mapping says of Revision.  It holds while watchLoop is the only   *)
(* writer of the store.                                                    *)
(***************************************************************************)
SnapshotExact == store # NoMapping => store = Snapshot(store.rev)

(***************************************************************************)
(* While watchLoop is the only writer, the store implements the abstract   *)
(* view: every Swap installs the content of one revision, none goes back.  *)
(***************************************************************************)
View == INSTANCE ShardMapView WITH
            Maps     <- Maps,
            FirstMap <- EmptyMapping.map,
            revision <- Len(log),
            contents <- [n \in 0 .. Len(log) |-> LoadMap(n)],
            view     <- store

ImplementsView == View!Spec

(***************************************************************************)
(* Whatever the two loops overwrite of each other, every entry the router  *)
(* can read is one that a full load at some revision since Start's own     *)
(* load would have given: no invented definition, nothing older than what  *)
(* Start loaded.                                                           *)
(***************************************************************************)
NeverBehindStart ==
    store # NoMapping =>
        \A i \in Ids : \E n \in fromRevision .. Len(log) :
            store.map[i] = LoadMap(n)[i]

(***************************************************************************)
(* Once etcd stops changing, the local map ends up equal to it and stays   *)
(* so, in spite of lost updates, compaction, skipped events and malformed  *)
(* values, and even if the watch never works again: reconcileLoop's        *)
(* promise that a dropped watch "can't leave the local map stale forever". *)
(* Messages without events must stop arriving: each one makes watchLoop    *)
(* swap a clone in, and one at every reconciliation could undo them all.   *)
(***************************************************************************)
Converges ==
    <>[][~GatewayError]_vars
        => <>[](store = Snapshot(Len(log)) \/ ctxDone \/ lpc = "failed")

(***************************************************************************)
(* watchLoop "applies incremental updates from the given revision onward": *)
(* again and again no event under the prefix is left before its cursor.    *)
(***************************************************************************)
NothingUnwatched ==
    wpc # "off" /\ \A r \in watchRev .. Len(log) : log[r].key \notin Keys

WatchKeepsUp == []<>(NothingUnwatched \/ ctxDone \/ lpc = "failed")

(* With fair goroutines, the watch keeps up unless a compaction has        *)
(* overtaken its cursor.                                                   *)
WatchKeepsUpUncompacted ==
    WatchFairness =>
        []<>(NothingUnwatched \/ compacted >= watchRev \/ ctxDone \/ lpc = "failed")

(***************************************************************************)
(* After the context is canceled both loops return and no producer is left *)
(* blocked on the channel, if the watch's goroutines are fair.             *)
(***************************************************************************)
ShutsDown ==
    WatchFairness =>
        (ctxDone ~> /\ lpc \in {"done", "failed"}
                    /\ wpc \in {"off", "done"}
                    /\ prod = "none")
=============================================================================
