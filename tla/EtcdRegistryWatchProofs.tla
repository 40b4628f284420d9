---------------------- MODULE EtcdRegistryWatchProofs -----------------------
(***************************************************************************)
(* The registry with a single writer: while watchLoop is the only writer   *)
(* of the store, the store is at every moment etcd's content at the        *)
(* revision it carries, the registry implements the abstract view, and the *)
(* router meets no dangling reference.                                     *)
(***************************************************************************)
EXTENDS ShardRouting, EtcdRegistryProofs

(***************************************************************************)
(* The conditions under which the watch alone keeps the store exact: no    *)
(* reconciliation overwrites it, headers carry the revision of their last  *)
(* event, every value decodes, and no two keys stand for the same id.      *)
(* Compaction, gateway errors, reconnects and shutdown are unrestricted.   *)
(***************************************************************************)
WatchOnly ==
    /\ ~Reconciling
    /\ ~DelayedHeaders
    /\ Values \subseteq Defs
    /\ OneKeyPerId

-----------------------------------------------------------------------------
(* The content of a revision. *)

(* With decodable values only, a key holds a definition or nothing. *)
LEMMA ValueAtType ==
    ASSUME WatchOnly, log \in Seq(Writes), NEW n \in 0 .. Len(log), NEW k
    PROVE  ValueAt(k, n) \in Defs \cup {Absent}
BY ValueWritten DEF WatchOnly

(* An id that has a key is loaded with the value of that key, completed. *)
LEMMA LoadedValue ==
    ASSUME WatchOnly, log \in Seq(Writes), NEW n \in 0 .. Len(log),
           NEW k \in Keys, IdOf[k] \in Ids
    PROVE  LoadMap(n)[IdOf[k]] = Stored(IdOf[k], ValueAt(k, n))
<1> DEFINE ks == DecodableKeys(IdOf[k], n)
<1>1. ks \subseteq {k} /\ (k \in ks <=> ValueAt(k, n) \in Defs)
  BY DEF DecodableKeys, WatchOnly, OneKeyPerId
<1>2. CASE ks = {}
  <2>1. ValueAt(k, n) = Absent
    BY <1>1, <1>2, ValueAtType
  <2>2. QED
    BY <1>2, <2>1, StoredType DEF LoadMap
<1>3. CASE ks # {}
  <2>1. ks = {k}
    BY <1>1, <1>3
  <2>2. LastListed(ks) = k
    BY <2>1, LastListedIsListed
  <2>3. QED
    BY <1>3, <2>2 DEF LoadMap
<1>4. QED
  BY <1>2, <1>3

(* An id without key is never loaded. *)
LEMMA UnkeyedId ==
    ASSUME NEW n, NEW i \in Ids, \A k \in Keys : IdOf[k] # i
    PROVE  LoadMap(n)[i] = Absent
BY DEF LoadMap, DecodableKeys

(***************************************************************************)
(* Watching is as good as loading: the events of revisions p+1 to e turn   *)
(* the content of revision p into that of revision e.                      *)
(***************************************************************************)
LEMMA EventsAdvance ==
    ASSUME WatchOnly, log \in Seq(Writes), NEW p \in 0 .. Len(log), NEW e \in p .. Len(log)
    PROVE  ApplyEvents(LoadMap(p), p + 1, e) = LoadMap(e)
<1> USE DEF WatchOnly, OneKeyPerId
<1>1. e \in 0 .. Len(log) /\ e \in Nat /\ p \in Nat
  OBVIOUS
<1>2. ASSUME NEW i \in Ids
      PROVE  ApplyEvents(LoadMap(p), p + 1, e)[i] = LoadMap(e)[i]
  <2> DEFINE A == AppliedTo(i, p + 1, e)
  <2>1. ApplyEvents(LoadMap(p), p + 1, e)[i]
          = IF A = {} THEN LoadMap(p)[i] ELSE Stored(i, log[Max(A)].val)
    BY DEF ApplyEvents
  <2>2. CASE \A k \in Keys : IdOf[k] # i
    <3>1. A = {}
      BY <2>2 DEF AppliedTo, Applies
    <3>2. QED
      BY <2>1, <2>2, <3>1, UnkeyedId
  <2>3. ASSUME NEW k \in Keys, IdOf[k] = i
        PROVE  ApplyEvents(LoadMap(p), p + 1, e)[i] = LoadMap(e)[i]
    <3>1. /\ LoadMap(p)[i] = Stored(i, ValueAt(k, p))
          /\ LoadMap(e)[i] = Stored(i, ValueAt(k, e))
      BY <1>1, <2>3, LoadedValue
    <3>2. \A r \in 1 .. Len(log) : Applies(log[r], i) <=> log[r].key = k
      <4> TAKE r \in 1 .. Len(log)
      <4>1. log[r] \in Writes
        OBVIOUS
      <4>2. log[r].val # Malformed
        BY <4>1, ConstantsAssumption DEF Writes
      <4>3. QED
        BY <2>3, <4>1, <4>2 DEF Applies, Writes
    <3>3. A = {r \in p + 1 .. e : log[r].key = k}
      BY <1>1, <3>2 DEF AppliedTo
    <3>4. A \subseteq WritesTo(k, e) /\ WritesTo(k, p) = WritesTo(k, e) \ A
      BY <1>1, <3>3 DEF WritesTo
    <3>5. CASE A = {}
      <4>1. ValueAt(k, p) = ValueAt(k, e)
        BY <3>4, <3>5 DEF ValueAt
      <4>2. QED
        BY <2>1, <3>1, <3>5, <4>1
    <3>6. CASE A # {}
      <4> DEFINE a == Max(A)
                 w == Max(WritesTo(k, e))
      <4>1. A \subseteq 0 .. e
        BY <1>1, <3>3
      <4>2. a \in A /\ \A r \in A : r <= a
        BY <1>1, <3>6, <4>1, MaxOfBounded
      <4>3. w \in WritesTo(k, e) /\ \A r \in WritesTo(k, e) : r <= w
        BY <1>1, <3>4, <3>6, LastWrite
      <4>4. a \in p + 1 .. e /\ w \in 1 .. e /\ a <= w
        BY <3>3, <3>4, <4>2, <4>3 DEF WritesTo
      <4> HIDE DEF a, w
      <4>5. w \in A
        BY <1>1, <3>3, <4>3, <4>4 DEF WritesTo
      <4>6. a = w
        BY <1>1, <4>2, <4>4, <4>5
      <4>7. ValueAt(k, e) = log[w].val
        BY <3>4, <3>6 DEF ValueAt, w
      <4>8. QED
        BY <2>1, <3>1, <3>6, <4>6, <4>7 DEF a
    <3>7. QED
      BY <3>5, <3>6
  <2>4. QED
    BY <2>2, <2>3
<1>3. LoadMap(e) = [i \in Ids |-> LoadMap(e)[i]]
  BY DEF LoadMap
<1>4. ApplyEvents(LoadMap(p), p + 1, e)
        = [i \in Ids |-> ApplyEvents(LoadMap(p), p + 1, e)[i]]
  BY DEF ApplyEvents
<1>5. QED
  BY <1>2, <1>3, <1>4

(* A batch without events changes nothing. *)
LEMMA NoEvents ==
    ASSUME NEW map \in Maps
    PROVE  ApplyEvents(map, 1, 0) = map
<1>1. \A i \in Ids : AppliedTo(i, 1, 0) = {}
  BY DEF AppliedTo
<1>2. QED
  BY <1>1 DEF ApplyEvents, Maps

-----------------------------------------------------------------------------
(* The inductive invariant behind SnapshotExact. *)

(* A message is either without events and revision, or carries exactly the *)
(* events after revision p, up to the revision of its header.              *)
Continues(m, p) ==
    \/ m.rev = 0 /\ m.first = 1 /\ m.last = 0
    \/ m.first = p + 1 /\ m.last = m.rev /\ p < m.rev /\ m.rev <= Len(log)

Reached(p, m) == IF m.rev > 0 THEN m.rev ELSE p

(* The revision the store will have once watchLoop is ready to receive. *)
Consumed == IF wpc = "apply" THEN Reached(store.rev, batch) ELSE store.rev

StoreExact == store # NoMapping => Exact(store)

LoadExact ==
    /\ lpc \notin {"due", "swap"}
    /\ lpc = "startSwap" => Exact(built)

CursorExact == wpc # "off" => store # NoMapping /\ watchRev = store.rev + 1

BatchExact == wpc = "apply" => cur = store /\ Continues(batch, store.rev)

StreamExact ==
    /\ prod = "reading" => sent = Consumed
    /\ prod = "sending" =>
          msg.canceled \/ (Continues(msg, Consumed) /\ sent = Reached(Consumed, msg))

ExactInv == StoreExact /\ LoadExact /\ CursorExact /\ BatchExact /\ StreamExact

(* A step that leaves the store alone leaves it exact. *)
LEMMA StoreKept ==
    ASSUME TypeInv, StoreExact, Extends, store' = store
    PROVE  StoreExact'
<1>1. CASE store = NoMapping
  BY <1>1 DEF StoreExact
<1>2. CASE store # NoMapping
  <2>1. PICK m \in Mappings : m = store
    BY <1>2 DEF TypeInv, TypeOK
  <2>2. Exact(m)'
    BY <1>2, <2>1, ExactIsStable DEF StoreExact, TypeInv, TypeOK
  <2>3. QED
    BY <2>1, <2>2 DEF StoreExact
<1>3. QED
  BY <1>1, <1>2

(* The same for the mapping Start is about to swap in. *)
LEMMA LoadKept ==
    ASSUME TypeInv, LoadExact, Extends, UNCHANGED loadVars
    PROVE  LoadExact'
<1> USE DEF LoadExact, loadVars
<1>1. CASE lpc # "startSwap"
  BY <1>1
<1>2. CASE lpc = "startSwap"
  <2>1. PICK m \in Mappings : m = built
    BY <1>2 DEF TypeInv
  <2>2. Exact(m)'
    BY <1>2, <2>1, ExactIsStable DEF TypeInv, TypeOK
  <2>3. QED
    BY <1>2, <2>1, <2>2
<1>3. QED
  BY <1>1, <1>2

(* A step of etcd, of the signal handler, or none. *)
LEMMA OutsideExactInv ==
    ASSUME TypeInv, ExactInv, Extends, UNCHANGED <<store, loadVars, watchVars, streamVars>>
    PROVE  ExactInv'
<1>1. StoreExact' /\ LoadExact'
  BY StoreKept, LoadKept DEF ExactInv
<1>2. CursorExact'
  BY DEF ExactInv, CursorExact, watchVars
<1>3. Len(log) \in Nat /\ Len(log') \in Nat /\ Len(log) <= Len(log')
  BY DEF Extends, TypeInv, TypeOK
<1>4. ASSUME NEW m \in Messages, NEW p \in Nat, Continues(m, p)
      PROVE  Continues(m, p)'
  BY <1>3, <1>4 DEF Continues, Messages
<1>5. PICK b \in Messages, m \in Messages : b = batch /\ m = msg
  BY DEF TypeInv, TypeOK
<1>6. wpc # "off" => store.rev \in Nat
  BY DEF ExactInv, CursorExact, TypeInv, TypeOK, Mappings
<1>7. BatchExact'
  <2> SUFFICES ASSUME wpc = "apply" PROVE Continues(batch, store.rev)'
    BY DEF ExactInv, BatchExact, watchVars
  <2>1. PICK p \in Nat : p = store.rev
    BY <1>6
  <2>2. Continues(b, p)
    BY <1>5, <2>1 DEF ExactInv, BatchExact
  <2>3. Continues(b, p)'
    BY <1>4, <2>2
  <2>4. QED
    BY <1>5, <2>1, <2>3 DEF watchVars
<1>8. Consumed' = Consumed
  BY DEF Consumed, Reached, watchVars
<1>9. StreamExact'
  <2>1. CASE prod # "sending" \/ msg.canceled
    BY <1>8, <2>1 DEF ExactInv, StreamExact, streamVars
  <2>2. CASE prod = "sending" /\ ~msg.canceled
    <3>1. Continues(msg, Consumed) /\ sent = Reached(Consumed, msg)
      BY <2>2 DEF ExactInv, StreamExact
    <3>2. QED
      BY <1>3, <1>5, <1>8, <2>2, <3>1
         DEF StreamExact, streamVars, Continues, Reached, Messages
  <2>3. QED
    BY <2>1, <2>2
<1>10. QED
  BY <1>1, <1>2, <1>7, <1>9 DEF ExactInv

(* Start's load; reconcileLoop only returns. *)
LEMMA LoadExactInv ==
    ASSUME WatchOnly, TypeInv, StreamInv, ExactInv, LoadNext
    PROVE  ExactInv'
<1> USE DEF ExactInv
<1>1. Extends
  BY DEF Extends, LoadNext, LoadAllRange, StartFails, StartSwap, ReconcileTick,
         ReconcileFails, ReconcileSwap, ReconcileReturns, etcdVars
<1>2. CASE LoadAllRange
  <2>1. lpc = "start" /\ lpc' = "startSwap"
    BY <1>2 DEF LoadAllRange, LoadExact
  <2>2. PICK m \in Mappings : m = Snapshot(Len(log))
    BY SnapshotType DEF TypeInv, TypeOK
  <2>3. m.rev = Len(log)
    BY <2>2 DEF Snapshot
  <2>4. Exact(m)
    BY <2>2, <2>3 DEF Exact, TypeInv, TypeOK
  <2>5. Exact(m)'
    BY <1>1, <2>4, ExactIsStable DEF TypeInv, TypeOK
  <2>6. LoadExact'
    BY <1>2, <2>1, <2>2, <2>5 DEF LoadExact, LoadAllRange
  <2>7. StoreExact'
    BY <1>1, <1>2, StoreKept DEF LoadAllRange
  <2>8. wpc = "off" /\ wpc' = "off" /\ prod' = "none"
    BY <1>2, <2>1 DEF StreamInv, NotLaunched, ProducerNotOrphaned, LoadAllRange,
                      watchVars, streamVars, TypeInv, TypeOK
  <2>9. QED
    BY <2>6, <2>7, <2>8 DEF CursorExact, BatchExact, StreamExact
<1>3. CASE StartSwap
  <2>1. wpc = "off" /\ prod' = "none"
    BY <1>3 DEF StreamInv, NotLaunched, ProducerNotOrphaned, StartSwap, streamVars
  <2>2. PICK m \in Mappings : m = built
    BY <1>3 DEF TypeInv, StartSwap
  <2>3. Exact(m)
    BY <1>3, <2>2 DEF StartSwap, LoadExact
  <2>4. Exact(m)'
    BY <1>1, <2>3, ExactIsStable DEF TypeInv, TypeOK
  <2>5. store' = m /\ m # NoMapping
    BY <1>3, <2>2, ConstantsAssumption DEF StartSwap
  <2>6. StoreExact'
    BY <2>4, <2>5 DEF StoreExact
  <2>7. LoadExact' /\ BatchExact' /\ StreamExact'
    BY <1>3, <2>1 DEF StartSwap, LoadExact, BatchExact, StreamExact
  <2>8. CursorExact'
    BY <1>3, <2>2, <2>5 DEF CursorExact, StartSwap, FirstWatched
  <2>9. QED
    BY <2>6, <2>7, <2>8
<1>4. CASE StartFails \/ ReconcileReturns
  <2>1. /\ UNCHANGED <<store, watchVars, streamVars>>
        /\ lpc' \in {"failed", "done"}
    BY <1>4 DEF StartFails, ReconcileReturns
  <2>2. StoreExact'
    BY <1>1, <2>1, StoreKept
  <2>3. LoadExact'
    BY <2>1 DEF LoadExact
  <2>4. log' = log
    BY <1>4 DEF StartFails, ReconcileReturns, etcdVars
  <2>5. CursorExact' /\ BatchExact'
    BY <2>1, <2>4 DEF CursorExact, BatchExact, Continues, watchVars
  <2>6. StreamExact'
    BY <2>1, <2>4 DEF StreamExact, Continues, Consumed, Reached, watchVars, streamVars
  <2>7. QED
    BY <2>2, <2>3, <2>5, <2>6
<1>5. ~(ReconcileTick \/ ReconcileFails \/ ReconcileSwap)
  BY DEF WatchOnly, ReconcileTick, ReconcileFails, ReconcileSwap, LoadExact
<1>6. QED
  BY <1>2, <1>3, <1>4, <1>5 DEF LoadNext

(* The stream delivers the revisions in order, without a gap. *)
LEMMA StreamExactInv ==
    ASSUME WatchOnly, TypeInv, StreamInv, ExactInv, StreamNext
    PROVE  ExactInv'
<1> USE DEF ExactInv
<1>1. UNCHANGED <<log, store, loadVars, watchVars>>
  BY DEF StreamNext, ServerSendsEvents, ServerCancels, GatewayError, ProducerDecodes,
         StreamEnds, ProducerReturns, etcdVars
<1>2. StoreExact' /\ LoadExact'
  BY <1>1, StoreKept, LoadKept DEF Extends
<1>3. CursorExact' /\ BatchExact'
  BY <1>1 DEF CursorExact, BatchExact, Continues, watchVars
<1>4. Consumed' = Consumed
  BY <1>1 DEF Consumed, Reached, watchVars
<1>5. CASE ServerSendsEvents
  <2>1. PICK e \in sent + 1 .. Len(log) :
             /\ ProducerDecodes([rev |-> e, first |-> sent + 1, last |-> e,
                                 canceled |-> FALSE])
             /\ sent' = e
    BY <1>5 DEF ServerSendsEvents, WatchOnly
  <2>2. prod = "reading" /\ prod' = "sending" /\ sent = Consumed
    BY <2>1 DEF ProducerDecodes, StreamExact
  <2>3. msg' = [rev |-> e, first |-> sent + 1, last |-> e, canceled |-> FALSE]
    BY <2>1 DEF ProducerDecodes
  <2>4. msg'.rev = e /\ msg'.first = sent + 1 /\ msg'.last = e
    BY <2>3
  <2>5. sent \in Nat /\ Len(log) \in Nat /\ e \in Nat /\ sent < e /\ e <= Len(log)
    BY DEF TypeInv, TypeOK
  <2>6. Continues(msg, Consumed)' /\ sent' = Reached(Consumed, msg)'
    BY <1>1, <1>4, <2>1, <2>2, <2>4, <2>5 DEF Continues, Reached
  <2>7. QED
    BY <1>2, <1>3, <2>2, <2>6 DEF StreamExact
<1>6. CASE ServerCancels
  <2>1. prod' = "sending"
    BY <1>6 DEF ServerCancels, ProducerDecodes
  <2>2. msg' = [rev |-> Len(log), first |-> 1, last |-> 0, canceled |-> TRUE]
    BY <1>6 DEF ServerCancels, ProducerDecodes
  <2>3. msg'.canceled
    BY <2>2
  <2>4. QED
    BY <1>2, <1>3, <2>1, <2>3 DEF StreamExact
<1>7. CASE GatewayError
  <2>1. prod = "reading" /\ prod' = "sending" /\ msg' = ZeroMsg /\ sent' = sent
    BY <1>7 DEF GatewayError, ProducerDecodes
  <2>2. msg'.rev = 0 /\ msg'.first = 1 /\ msg'.last = 0
    BY <2>1 DEF ZeroMsg
  <2>3. sent' = Consumed'
    BY <1>4, <2>1 DEF StreamExact
  <2>4. Continues(msg, Consumed)' /\ sent' = Reached(Consumed, msg)'
    BY <2>2, <2>3 DEF Continues, Reached
  <2>5. QED
    BY <1>2, <1>3, <2>1, <2>4 DEF StreamExact
<1>8. CASE StreamEnds \/ ProducerReturns
  BY <1>2, <1>3, <1>8 DEF StreamEnds, ProducerReturns, StreamExact
<1>9. QED
  BY <1>5, <1>6, <1>7, <1>8 DEF StreamNext

(***************************************************************************)
(* watchLoop's Load, Clone, apply, Swap: the heart of the argument.  The   *)
(* batch continues the store's own revision, so that the swapped mapping   *)
(* is the content of the revision the batch ends with.                     *)
(***************************************************************************)
LEMMA SwapExact ==
    ASSUME WatchOnly, TypeInv, ExactInv, wpc = "apply"
    PROVE  /\ NextMapping \in Mappings
           /\ Exact(NextMapping)
           /\ NextMapping.rev = Consumed
           /\ ResumeRevision = Consumed + 1
<1> USE DEF ExactInv
<1>1. /\ store # NoMapping /\ cur = store /\ Exact(store)
      /\ watchRev = store.rev + 1 /\ Continues(batch, store.rev)
  BY DEF CursorExact, BatchExact, StoreExact
<1>2. /\ store \in Mappings /\ batch \in Messages /\ log \in Seq(Writes)
      /\ store.rev \in 0 .. Len(log) /\ store.rev \in Nat /\ store.map \in Maps
  BY <1>1 DEF TypeInv, TypeOK, Mappings, Exact
<1>3. store.map = LoadMap(store.rev)
  BY <1>1 DEF Exact, Snapshot
<1>4. NextMapping = [rev |-> Reached(store.rev, batch),
                     map |-> ApplyEvents(store.map, batch.first, batch.last)]
  BY <1>1 DEF NextMapping, Reached
<1>5. /\ NextMapping.rev = Reached(store.rev, batch)
      /\ NextMapping.map = ApplyEvents(store.map, batch.first, batch.last)
  BY <1>4
<1>6. CASE batch.rev = 0 /\ batch.first = 1 /\ batch.last = 0
  <2>1. ApplyEvents(store.map, 1, 0) = store.map
    BY <1>2, NoEvents
  <2>2. NextMapping = store
    BY <1>2, <1>4, <1>6, <2>1 DEF Reached, Mappings
  <2>3. ResumeRevision = watchRev /\ Consumed = store.rev
    BY <1>6 DEF ResumeRevision, Consumed, Reached
  <2>4. QED
    BY <1>1, <1>2, <2>2, <2>3
<1>7. CASE /\ batch.first = store.rev + 1 /\ batch.last = batch.rev
           /\ store.rev < batch.rev /\ batch.rev <= Len(log)
  <2>1. batch.rev \in store.rev .. Len(log) /\ batch.rev \in Nat /\ batch.rev > 0
    BY <1>2, <1>7 DEF Messages
  <2>2. ApplyEvents(LoadMap(store.rev), store.rev + 1, batch.rev) = LoadMap(batch.rev)
    BY <1>2, <2>1, EventsAdvance
  <2>3. NextMapping = Snapshot(batch.rev)
    BY <1>3, <1>4, <1>7, <2>1, <2>2 DEF Reached, Snapshot
  <2>4. NextMapping.rev = batch.rev /\ Consumed = batch.rev
    BY <1>5, <2>1 DEF Reached, Consumed
  <2>5. Exact(NextMapping)
    BY <1>7, <2>3, <2>4 DEF Exact
  <2>6. ResumeRevision = batch.rev + 1
    BY <2>1 DEF ResumeRevision
  <2>7. QED
    BY <2>4, <2>5, <2>6, NextMappingType
<1>8. QED
  BY <1>1, <1>6, <1>7 DEF Continues

(* watchLoop. *)
LEMMA WatchExactInv ==
    ASSUME WatchOnly, TypeInv, StreamInv, ExactInv, WatchNext
    PROVE  ExactInv'
<1> USE DEF ExactInv
<1>1. UNCHANGED <<log, loadVars>>
  BY DEF WatchNext, WatchOpens, WatchOpenFails, WatchReceives, WatchSwap,
         WatchChannelClosed, WatchWakes, WatchReturns, etcdVars
<1>2. LoadExact' /\ Extends
  BY <1>1, LoadKept DEF Extends
<1>3. CASE WatchOpens
  <2>1. StoreExact'
    BY <1>2, <1>3, StoreKept DEF WatchOpens
  <2>2. CursorExact' /\ BatchExact'
    BY <1>3 DEF WatchOpens, CursorExact, BatchExact
  <2>3. store.rev \in Nat /\ watchRev = store.rev + 1
    BY <1>3 DEF WatchOpens, CursorExact, TypeInv, TypeOK, Mappings
  <2>4. StreamExact'
    BY <1>3, <2>3 DEF WatchOpens, StreamExact, Consumed
  <2>5. QED
    BY <1>2, <2>1, <2>2, <2>4
<1>4. CASE WatchOpenFails \/ WatchChannelClosed \/ WatchWakes \/ WatchReturns
  <2>1. /\ prod = "none" /\ wpc # "off" /\ wpc' \in {"sleep", "open", "done"}
        /\ UNCHANGED <<store, watchRev, prod>>
    BY <1>4 DEF WatchOpenFails, WatchChannelClosed, WatchWakes, WatchReturns, streamVars,
                StreamInv, ProducerNotOrphaned
  <2>2. StoreExact'
    BY <1>2, <2>1, StoreKept
  <2>3. CursorExact' /\ BatchExact' /\ StreamExact'
    BY <2>1 DEF CursorExact, BatchExact, StreamExact
  <2>4. QED
    BY <1>2, <2>2, <2>3
<1>5. CASE WatchReceives
  <2>1. wpc = "recv" /\ prod = "sending" /\ UNCHANGED <<store, watchRev>>
    BY <1>5 DEF WatchReceives
  <2>2. StoreExact' /\ CursorExact'
    BY <1>2, <1>5, <2>1, StoreKept DEF CursorExact
  <2>3. CASE msg.canceled
    <3>1. wpc' = "sleep" /\ prod' = "none"
      BY <1>5, <2>3 DEF WatchReceives, ProducerAfterSend
    <3>2. QED
      BY <1>2, <2>2, <3>1 DEF BatchExact, StreamExact
  <2>4. CASE ~msg.canceled
    <3>1. /\ wpc' = "apply" /\ cur' = store /\ batch' = msg /\ sent' = sent
          /\ prod' = "reading"
      BY <1>5, <2>4 DEF WatchReceives, ProducerAfterSend
    <3>2. Continues(msg, store.rev) /\ sent = Reached(store.rev, msg)
      BY <2>1, <2>4 DEF StreamExact, Consumed
    <3>3. BatchExact' /\ StreamExact'
      BY <1>1, <2>1, <3>1, <3>2 DEF BatchExact, StreamExact, Consumed, Continues, Reached
    <3>4. QED
      BY <1>2, <2>2, <3>3
  <2>5. QED
    BY <2>3, <2>4
<1>6. CASE WatchSwap
  <2>1. /\ wpc = "apply" /\ wpc' = "recv" /\ UNCHANGED streamVars
        /\ store' = NextMapping /\ watchRev' = ResumeRevision
    BY <1>6 DEF WatchSwap
  <2>2. PICK m \in Mappings : m = NextMapping
    BY <2>1, SwapExact
  <2>3. Exact(m) /\ m.rev = Consumed /\ ResumeRevision = m.rev + 1
    BY <2>1, <2>2, SwapExact
  <2>4. Exact(m)' /\ m # NoMapping
    BY <1>2, <2>3, ExactIsStable, ConstantsAssumption DEF TypeInv, TypeOK
  <2>5. StoreExact' /\ CursorExact' /\ BatchExact'
    BY <2>1, <2>2, <2>3, <2>4 DEF StoreExact, CursorExact, BatchExact
  <2>6. Consumed' = Consumed
    BY <2>1, <2>2, <2>3 DEF Consumed
  <2>7. StreamExact'
    BY <1>1, <2>1, <2>6 DEF StreamExact, Continues, Reached, streamVars
  <2>8. QED
    BY <1>2, <2>5, <2>7
<1>7. QED
  BY <1>3, <1>4, <1>5, <1>6 DEF WatchNext

(* Every step keeps the invariant. *)
LEMMA NextExactInv ==
    ASSUME WatchOnly, TypeInv, StreamInv, ExactInv, [Next]_vars
    PROVE  ExactInv'
<1>1. CASE EtcdNext \/ CancelContext \/ UNCHANGED vars
  <2>1. ASSUME NEW k \in Keys \cup {Foreign}, NEW v \in Values \cup {Absent}, Write(k, v)
        PROVE  Extends
    BY <2>1 DEF Write, Extends, Writes
  <2>2. Extends
    BY <1>1, <2>1 DEF EtcdNext, Put, Delete, WriteForeign, Compact, CancelContext, vars,
                      etcdVars, Extends
  <2>3. UNCHANGED <<store, loadVars, watchVars, streamVars>>
    BY <1>1 DEF EtcdNext, Put, Delete, WriteForeign, Write, Compact, CancelContext, vars
  <2>4. QED
    BY <2>2, <2>3, OutsideExactInv
<1>2. QED
  BY <1>1, LoadExactInv, StreamExactInv, WatchExactInv DEF Next, RegistryNext

(***************************************************************************)
(* While watchLoop is the only writer of the store, the mapping requests   *)
(* are routed with is etcd's content at the revision it carries, through   *)
(* any number of writes, reconnects, cancellations, gateway errors and     *)
(* compactions: what cache.Mapping says of Revision.                       *)
(***************************************************************************)
THEOREM RegistrySnapshotExact == ASSUME WatchOnly PROVE Spec => []SnapshotExact
<1>1. Init => ExactInv
  BY DEF Init, ExactInv, StoreExact, LoadExact, CursorExact, BatchExact, StreamExact
<1>2. Init => StreamInv
  BY DEF Init, StreamInv, ProducerNotOrphaned, NotLaunched
<1>3. TypeInv /\ StreamInv /\ ExactInv /\ [Next]_vars => ExactInv'
  BY NextExactInv
<1>4. ExactInv => SnapshotExact
  BY DEF ExactInv, StoreExact, Exact, SnapshotExact
<1>5. QED
  BY <1>1, <1>2, <1>3, <1>4, NextStreamInv, RegistryTypeInv, PTL DEF Spec
-----------------------------------------------------------------------------
(* The refinement of the abstract view. *)

(* At revision 0 nothing is loaded. *)
LEMMA FirstContent == LoadMap(0) = EmptyMapping.map
<1>1. \A k : ValueAt(k, 0) = Absent
  BY DEF ValueAt, WritesTo
<1>2. \A i : DecodableKeys(i, 0) = {}
  BY <1>1, ConstantsAssumption DEF DecodableKeys
<1>3. QED
  BY <1>2 DEF LoadMap, EmptyMapping

(* The view's initial state. *)
LEMMA InitView == Init => View!Init
<1> SUFFICES ASSUME Init PROVE View!Init
  OBVIOUS
<1>1. log = <<>> /\ Len(log) = 0 /\ store = NoMapping
  BY DEF Init
<1>2. [n \in 0 .. Len(log) |-> LoadMap(n)] = [n \in {0} |-> EmptyMapping.map]
  <2>1. 0 .. Len(log) = {0}
    BY <1>1
  <2>2. QED
    BY <2>1, FirstContent
<1>3. QED
  BY <1>1, <1>2 DEF View!Init

(* A write to etcd publishes a revision and leaves the earlier ones. *)
LEMMA WritePublishes ==
    ASSUME TypeInv, NEW w \in Writes, log' = Append(log, w), store' = store
    PROVE  View!Publish
<1>1. log \in Seq(Writes) /\ Len(log) \in Nat /\ Len(log') = Len(log) + 1
  BY DEF TypeInv, TypeOK
<1>2. ASSUME NEW n \in 0 .. Len(log) PROVE LoadMap(n)' = LoadMap(n)
  <2>1. Snapshot(n)' = Snapshot(n)
    BY <1>1, HistoryIsStable DEF Extends
  <2>2. QED
    BY <2>1 DEF Snapshot
<1>3. \A n : LoadMap(n)' \in Maps
  <2>1. (\A n : LoadMap(n) \in Maps)'
    BY LoadMapTypes, PTL
  <2>2. QED
    BY <2>1
<1> DEFINE contents == [n \in 0 .. Len(log) |-> LoadMap(n)]
           next     == [n \in 0 .. Len(log') |-> LoadMap(n)']
<1>4. next[Len(log')] \in Maps
  BY <1>1, <1>3
<1>5. ASSUME NEW n \in 0 .. Len(log')
      PROVE  next[n] = IF n = Len(log') THEN next[n] ELSE contents[n]
  BY <1>1, <1>2
<1>6. next = [n \in 0 .. Len(log') |-> IF n = Len(log') THEN next[n] ELSE contents[n]]
  BY <1>5
<1>7. QED
  BY <1>1, <1>4, <1>6 DEF View!Publish

(* A swap installs the content of a revision that is not older. *)
LEMMA SwapAdvances ==
    ASSUME TypeInv, log' = log, NEW m \in Mappings, Exact(m), store' = m,
           store \in Mappings => store.rev <= m.rev
    PROVE  [View!Next]_(View!vars)
<1>1. PICK n \in Nat : n = m.rev
  BY DEF Mappings
<1>2. n <= Len(log) /\ m = [rev |-> n, map |-> LoadMap(n)] /\ Len(log) \in Nat
  BY <1>1 DEF Exact, Snapshot, TypeInv, TypeOK
<1>3. n \in (IF store = NoMapping THEN 0 ELSE store.rev) .. Len(log)
  <2>1. store # NoMapping => store.rev \in Nat /\ store.rev <= n
    BY <1>1 DEF TypeInv, TypeOK, Mappings
  <2>2. QED
    BY <1>2, <2>1
<1>4. m = [rev |-> n, map |-> [k \in 0 .. Len(log) |-> LoadMap(k)][n]]
  BY <1>2
<1>5. [k \in 0 .. Len(log) |-> LoadMap(k)]' = [k \in 0 .. Len(log) |-> LoadMap(k)]
  BY DEF LoadMap, DecodableKeys, ValueAt, WritesTo
<1>6. CASE store' = store
  BY <1>5, <1>6 DEF View!vars
<1>7. CASE store' # store
  <2>1. View!Advance
    BY <1>3, <1>4, <1>5, <1>7 DEF View!Advance
  <2>2. QED
    BY <2>1 DEF View!Next
<1>8. QED
  BY <1>6, <1>7

(* A step that touches neither etcd's log nor the store is a stutter. *)
LEMMA OthersStutter == UNCHANGED <<log, store>> => UNCHANGED View!vars
BY DEF View!vars, LoadMap, DecodableKeys, ValueAt, WritesTo

(* Every step of the system is a step of the view, or none. *)
LEMMA NextView ==
    ASSUME WatchOnly, TypeInv, StreamInv, ExactInv, [Next]_vars
    PROVE  [View!Next]_(View!vars)
<1>1. CASE Put \/ Delete \/ WriteForeign
  <2>1. PICK k \in Keys \cup {Foreign}, v \in Values \cup {Absent} : Write(k, v)
    BY <1>1 DEF Put, Delete, WriteForeign
  <2>2. PICK w \in Writes : log' = Append(log, w) /\ store' = store
    BY <2>1 DEF Write, Writes
  <2>3. QED
    BY <2>2, WritePublishes DEF View!Next
<1>2. CASE StartSwap
  <2>1. lpc = "startSwap" /\ store' = built /\ log' = log
    BY <1>2 DEF StartSwap, etcdVars
  <2>2. PICK m \in Mappings : m = built
    BY <2>1 DEF TypeInv
  <2>3. Exact(m)
    BY <2>1, <2>2 DEF ExactInv, LoadExact
  <2>4. store = NoMapping
    BY <2>1 DEF StreamInv, NotLaunched
  <2>5. QED
    BY <2>1, <2>2, <2>3, <2>4, SwapAdvances, ConstantsAssumption
<1>3. CASE WatchSwap
  <2>1. wpc = "apply" /\ store' = NextMapping /\ log' = log
    BY <1>3 DEF WatchSwap, etcdVars
  <2>2. PICK m \in Mappings : m = NextMapping
    BY <2>1, SwapExact
  <2>3. Exact(m) /\ m.rev = Consumed
    BY <2>1, <2>2, SwapExact
  <2>4. store # NoMapping /\ Continues(batch, store.rev)
    BY <2>1 DEF ExactInv, CursorExact, BatchExact
  <2>5. store.rev \in Nat /\ batch.rev \in Nat
    BY <2>4 DEF TypeInv, TypeOK, Mappings, Messages
  <2>6. store.rev <= Consumed
    BY <2>1, <2>4, <2>5 DEF Consumed, Reached, Continues
  <2>7. QED
    BY <2>1, <2>2, <2>3, <2>6, SwapAdvances
<1>4. CASE UNCHANGED <<log, store>>
  BY <1>4, OthersStutter
<1>5. ~ReconcileSwap
  BY DEF ReconcileSwap, ExactInv, LoadExact
<1>6. \/ Put \/ Delete \/ WriteForeign \/ StartSwap \/ WatchSwap
      \/ UNCHANGED <<log, store>>
  <2>1. CASE EtcdNext
    BY <2>1 DEF EtcdNext, Compact
  <2>2. CASE LoadNext
    BY <1>5, <2>2 DEF LoadNext, LoadAllRange, StartFails, ReconcileTick, ReconcileFails,
                      ReconcileReturns, etcdVars
  <2>3. CASE StreamNext
    BY <2>3 DEF StreamNext, ServerSendsEvents, ServerCancels, GatewayError, ProducerDecodes,
                StreamEnds, ProducerReturns, etcdVars
  <2>4. CASE WatchNext
    BY <2>4 DEF WatchNext, WatchOpens, WatchOpenFails, WatchReceives, WatchChannelClosed,
                WatchWakes, WatchReturns, etcdVars
  <2>5. CASE CancelContext \/ UNCHANGED vars
    BY <2>5 DEF CancelContext, vars, etcdVars
  <2>6. QED
    BY <2>1, <2>2, <2>3, <2>4, <2>5 DEF Next, RegistryNext
<1>7. QED
  BY <1>1, <1>2, <1>3, <1>4, <1>6

(***************************************************************************)
(* While watchLoop is the only writer, etcd, the loops and the store       *)
(* implement the abstract view: requests are routed by the content of one  *)
(* revision at a time, and no Swap, reconnect or replayed batch ever takes *)
(* the router back to an older one.                                        *)
(***************************************************************************)
THEOREM RegistryImplementsView == ASSUME WatchOnly PROVE Spec => ImplementsView
<1>1. Init => ExactInv
  BY DEF Init, ExactInv, StoreExact, LoadExact, CursorExact, BatchExact, StreamExact
<1>2. Init => StreamInv
  BY DEF Init, StreamInv, ProducerNotOrphaned, NotLaunched
<1>3. TypeInv /\ StreamInv /\ ExactInv /\ [Next]_vars => ExactInv'
  BY NextExactInv
<1>4. TypeInv /\ StreamInv /\ ExactInv /\ [Next]_vars => [View!Next]_(View!vars)
  BY NextView
<1>5. QED
  BY <1>1, <1>2, <1>3, <1>4, InitView, NextStreamInv, RegistryTypeInv, PTL
     DEF Spec, ImplementsView, View!Spec

-----------------------------------------------------------------------------
(* What the registry's exactness is worth to the router: under a healthy   *)
(* control plane no request meets a dangling reference.                    *)


(* No revision of etcd has ever had a dangling reference. *)
HealthyHistory == \A n \in 0 .. Len(log) : Integrity(LoadMap(n))

(* A healthy control plane is a control plane. *)
LEMMA HealthyIsNext == [HealthyNext]_vars => [Next]_vars
BY DEF HealthyNext, HealthyWrite, Next, EtcdNext

(* Revision 0 is empty. *)
LEMMA InitHealthyHistory == Init => HealthyHistory
<1> SUFFICES ASSUME Init PROVE HealthyHistory
  OBVIOUS
<1>1. Len(log) = 0 /\ 0 .. Len(log) = {0}
  BY DEF Init
<1>2. \A i \in Ids : LoadMap(0)[i] = Absent
  BY FirstContent DEF EmptyMapping
<1>3. Integrity(LoadMap(0))
  BY <1>2, RoutingAssumption DEF Integrity
<1>4. QED
  BY <1>1, <1>3 DEF HealthyHistory

(* What was published stays, what is published next is healthy. *)
LEMMA NextHealthyHistory ==
    ASSUME TypeInv, HealthyHistory, [HealthyNext]_vars
    PROVE  HealthyHistory'
<1>1. log \in Seq(Writes) /\ Len(log) \in Nat
  BY DEF TypeInv, TypeOK
<1>2. CASE HealthyWrite
  <2>1. PICK k \in Keys \cup {Foreign}, v \in Values \cup {Absent} : Write(k, v)
    BY <1>2 DEF HealthyWrite, Put, Delete
  <2>2. Extends /\ Len(log') = Len(log) + 1
    BY <1>1, <2>1 DEF Write, Extends, Writes
  <2>3. ASSUME NEW n \in 0 .. Len(log) PROVE Integrity(LoadMap(n))'
    <3>1. Snapshot(n)' = Snapshot(n)
      BY <1>1, <2>2, HistoryIsStable
    <3>2. LoadMap(n)' = LoadMap(n)
      BY <3>1 DEF Snapshot
    <3>3. Integrity(LoadMap(n))
      BY DEF HealthyHistory
    <3>4. QED
      BY <3>2, <3>3 DEF Integrity
  <2>4. Integrity(LoadMap(Len(log)))'
    BY <1>2 DEF HealthyWrite, Integrity
  <2>5. ASSUME NEW n \in 0 .. Len(log') PROVE Integrity(LoadMap(n))'
    <3>1. CASE n \in 0 .. Len(log)
      BY <2>3, <3>1
    <3>2. CASE n = Len(log')
      BY <2>4, <3>2
    <3>3. QED
      BY <1>1, <2>2, <3>1, <3>2
  <2>6. QED
    BY <2>5 DEF HealthyHistory
<1>3. CASE ~HealthyWrite
  <2>1. log' = log
    <3>1. CASE Compact \/ CancelContext \/ UNCHANGED vars
      BY <3>1 DEF Compact, CancelContext, vars, etcdVars
    <3>2. CASE LoadNext
      BY <3>2 DEF LoadNext, LoadAllRange, StartFails, StartSwap, ReconcileTick,
                  ReconcileFails, ReconcileSwap, ReconcileReturns, etcdVars
    <3>3. CASE StreamNext
      BY <3>3 DEF StreamNext, ServerSendsEvents, ServerCancels, GatewayError,
                  ProducerDecodes, StreamEnds, ProducerReturns, etcdVars
    <3>4. CASE WatchNext
      BY <3>4 DEF WatchNext, WatchOpens, WatchOpenFails, WatchReceives, WatchSwap,
                  WatchChannelClosed, WatchWakes, WatchReturns, etcdVars
    <3>5. QED
      BY <1>3, <3>1, <3>2, <3>3, <3>4 DEF HealthyNext, RegistryNext
  <2>2. ASSUME NEW n \in 0 .. Len(log) PROVE Integrity(LoadMap(n))'
    <3>1. LoadMap(n)' = LoadMap(n)
      BY <2>1 DEF LoadMap, DecodableKeys, ValueAt, WritesTo
    <3>2. Integrity(LoadMap(n))
      BY DEF HealthyHistory
    <3>3. QED
      BY <3>1, <3>2 DEF Integrity
  <2>3. QED
    BY <2>1, <2>2 DEF HealthyHistory
<1>4. QED
  BY <1>2, <1>3

(* A mapping without dangling reference is never refused for one. *)
LEMMA IntegrityResolves ==
    ASSUME NEW m, Integrity(m.map), NEW b \in BucketIds
    PROVE  Resolve(m, b).err # "ErrUnknownShard"
<1>1. \A e : Refuse(e).err = e
  BY DEF Refuse
<1>2. \A read, write : IfAllActive(read, write).err \in {"nil", "ErrShardUnavailable"}
  BY <1>1 DEF IfAllActive
<1>3. CASE m = NoMapping \/ m.map[b] = Absent
  BY <1>1, <1>3 DEF Resolve
<1>4. CASE m # NoMapping /\ m.map[b] # Absent
  <2> DEFINE bucket == m.map[b]
  <2>1. \A s \in References(bucket) : Registered(m, s)
    BY <1>4 DEF Integrity, Registered
  <2>2. Registered(m, bucket.shardID)
    BY <2>1 DEF References
  <2>3. bucket.state \in DestStates => Registered(m, bucket.destShardID)
    BY <2>1 DEF References
  <2>4. Resolve(m, b) = ResolveBucket(m, bucket)
    BY <1>4, <2>2 DEF Resolve
  <2> HIDE DEF bucket
  <2>5. ResolveBucket(m, bucket).err \in {"nil", "ErrShardUnavailable"}
    BY <1>2, <2>3 DEF ResolveBucket
  <2>6. QED
    BY <2>4, <2>5
<1>5. QED
  BY <1>3, <1>4

(***************************************************************************)
(* ErrUnknownShard "should never happen in a healthy system", for any      *)
(* key-space and any number of writes: while watchLoop is the only writer  *)
(* of the store, reconnects, cancellations, compactions, gateway errors    *)
(* and shutdown never show the router half of a change.                    *)
(***************************************************************************)
THEOREM RoutingHealthyResolves == ASSUME WatchOnly PROVE HealthySpec => []HealthyResolves
<1>1. Init => ExactInv /\ StreamInv
  BY DEF Init, ExactInv, StoreExact, LoadExact, CursorExact, BatchExact, StreamExact,
         StreamInv, ProducerNotOrphaned, NotLaunched
<1>2. TypeInv /\ StreamInv /\ ExactInv /\ [Next]_vars => ExactInv'
  BY NextExactInv
<1>3. TypeInv /\ HealthyHistory /\ [HealthyNext]_vars => HealthyHistory'
  BY NextHealthyHistory
<1>4. TypeInv /\ ExactInv /\ HealthyHistory => HealthyResolves
  <2> SUFFICES ASSUME TypeInv, ExactInv, HealthyHistory, NEW b \in BucketIds
               PROVE  Resolve(store, b).err # "ErrUnknownShard"
    BY DEF HealthyResolves
  <2>1. CASE store = NoMapping
    BY <2>1 DEF Resolve, Refuse
  <2>2. CASE store # NoMapping
    <3>1. store.rev \in Nat /\ store.rev <= Len(log) /\ store = Snapshot(store.rev)
      BY <2>2 DEF TypeInv, TypeOK, Mappings, ExactInv, StoreExact, Exact
    <3>2. store.map = LoadMap(store.rev)
      BY <3>1 DEF Snapshot
    <3>3. store.rev \in 0 .. Len(log)
      BY <3>1 DEF TypeInv, TypeOK
    <3>4. Integrity(store.map)
      BY <3>2, <3>3 DEF HealthyHistory
    <3>5. QED
      BY <3>4, IntegrityResolves
  <2>3. QED
    BY <2>1, <2>2
<1>5. QED
  BY <1>1, <1>2, <1>3, <1>4, HealthyIsNext, InitHealthyHistory, InitTypeInv, NextTypeInv,
     NextStreamInv, PTL DEF HealthySpec
=============================================================================
