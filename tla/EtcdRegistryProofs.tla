------------------------- MODULE EtcdRegistryProofs -------------------------
(***************************************************************************)
(* What holds of the etcd registry for any key-space, any number of writes *)
(* and with both loops writing the store: type correctness, the producer   *)
(* goroutine's end, and freshness.  Of the store's exactness this survives *)
(* when watchLoop and reconcileLoop overwrite each other: every entry is   *)
(* one that a full load at some revision since Start's own load would have *)
(* given.                                                                  *)
(***************************************************************************)
EXTENDS EtcdRegistry, TLAPS, WellFoundedInduction

-----------------------------------------------------------------------------
(* Least and greatest elements. *)

(* A non-empty set of naturals has a least element. *)
LEMMA LeastNatural ==
    ASSUME NEW T, T \subseteq Nat, T # {}
    PROVE  \E x \in T : \A y \in T : x <= y
<1> DEFINE R == OpToRel(<, Nat)
<1>1. IsWellFoundedOn(R, Nat)
  BY NatLessThanWellFounded, Zenon
<1>2. \A x, y \in Nat : <<y, x>> \in R <=> y < x
  BY DEF OpToRel
<1> HIDE DEF R
<1>3. PICK x \in T : \A y \in T : ~(<<y, x>> \in R)
  BY <1>1, WFMin, Zenon
<1>4. ASSUME NEW y \in T PROVE x <= y
  <2>1. x \in Nat /\ y \in Nat
    OBVIOUS
  <2>2. ~(y < x)
    BY <1>2, <1>3, <2>1
  <2>3. QED
    BY <2>1, <2>2
<1>5. QED
  BY <1>3, <1>4

(* Max is the greatest element of a non-empty bounded set of naturals. *)
LEMMA MaxOfBounded ==
    ASSUME NEW n \in Nat, NEW T, T \subseteq 0 .. n, T # {}
    PROVE  Max(T) \in T /\ \A y \in T : y <= Max(T)
<1> DEFINE U == {n - x : x \in T}
<1>1. U \subseteq Nat /\ U # {}
  <2>1. \A x \in T : x \in 0 .. n
    OBVIOUS
  <2>2. \A x \in T : n - x \in Nat
    BY <2>1
  <2>3. QED
    BY <2>2
<1>2. PICK u \in U : \A y \in U : u <= y
  BY <1>1, LeastNatural
<1>3. PICK x \in T : u = n - x
  OBVIOUS
<1>4. ASSUME NEW y \in T PROVE y <= x
  <2>1. n - x <= n - y
    BY <1>2, <1>3
  <2>2. QED
    BY <2>1
<1>5. \E z \in T : \A y \in T : z >= y
  BY <1>4
<1>6. Max(T) \in T /\ \A y \in T : Max(T) >= y
  BY <1>5 DEF Max
<1>7. QED
  BY <1>6

(* The last listed of some keys is one of them, and none is listed behind. *)
LEMMA LastListedIsListed ==
    ASSUME NEW ks, ks \subseteq Keys, ks # {}
    PROVE  LastListed(ks) \in ks /\ \A q \in ks : KeyRank[LastListed(ks)] <= KeyRank[q]
<1> DEFINE T == {KeyRank[k] : k \in ks}
<1>1. T \subseteq Nat /\ T # {}
  BY ConstantsAssumption
<1>2. PICK x \in T : \A y \in T : x <= y
  BY <1>1, LeastNatural
<1>3. \E k \in ks : \A q \in ks : KeyRank[k] <= KeyRank[q]
  BY <1>2
<1>4. QED
  BY <1>3 DEF LastListed

-----------------------------------------------------------------------------
(* Types of what the loops compute. *)

(* Filling in the id of a definition gives one, and there is none in what  *)
(* is not a definition.                                                    *)
LEMMA StoredType ==
    ASSUME NEW i \in Ids
    PROVE  /\ \A v \in Defs : Stored(i, v) \in Defs
           /\ Stored(i, Absent) = Absent
BY ConstantsAssumption DEF Stored

(* A full load gives every id a definition or none. *)
LEMMA LoadMapType == ASSUME NEW n PROVE LoadMap(n) \in Maps
<1>1. ASSUME NEW i \in Ids, DecodableKeys(i, n) # {}
      PROVE  ValueAt(LastListed(DecodableKeys(i, n)), n) \in Defs
  <2>1. DecodableKeys(i, n) \subseteq Keys
    BY DEF DecodableKeys
  <2>2. LastListed(DecodableKeys(i, n)) \in DecodableKeys(i, n)
    BY <1>1, <2>1, LastListedIsListed
  <2>3. QED
    BY <2>2 DEF DecodableKeys
<1>2. QED
  BY <1>1, StoredType DEF LoadMap, Maps

(* Applying a batch to a map gives a map: events that carry no definition  *)
(* do not apply.                                                           *)
LEMMA ApplyEventsType ==
    ASSUME log \in Seq(Writes), NEW map \in Maps, NEW first \in Nat \ {0}, NEW last \in Nat,
           last <= Len(log)
    PROVE  ApplyEvents(map, first, last) \in Maps
<1>1. ASSUME NEW i \in Ids, AppliedTo(i, first, last) # {}
      PROVE  log[Max(AppliedTo(i, first, last))].val \in Defs \cup {Absent}
  <2> DEFINE r == Max(AppliedTo(i, first, last))
  <2>1. AppliedTo(i, first, last) \subseteq 0 .. Len(log)
    BY DEF AppliedTo
  <2>2. r \in AppliedTo(i, first, last)
    BY <1>1, <2>1, MaxOfBounded
  <2>3. r \in 1 .. Len(log) /\ Applies(log[r], i)
    BY <2>2 DEF AppliedTo
  <2>4. log[r] \in Writes
    BY <2>3
  <2>5. QED
    BY <2>3, <2>4, ConstantsAssumption DEF Writes, Applies
<1>2. QED
  BY <1>1, StoredType DEF ApplyEvents, Maps

-----------------------------------------------------------------------------
(* The inductive invariant behind TypeOK. *)

(* A message carries events that are in the log. *)
InLog(m) == m.first > 0 /\ m.last <= Len(log)

TypeInv ==
    /\ TypeOK
    /\ InLog(msg) /\ InLog(batch)
    /\ lpc \in {"startSwap", "swap"} => built \in Mappings
    /\ wpc # "off" => watchRev > 0

(* The initial state. *)
LEMMA InitTypeInv == Init => TypeInv
<1> SUFFICES ASSUME Init PROVE TypeInv
  OBVIOUS
<1>1. log \in Seq(Writes) /\ Len(log) = 0
  BY DEF Init
<1>2. ZeroMsg \in Messages /\ ZeroMsg.first > 0 /\ ZeroMsg.last <= 0
  BY DEF ZeroMsg, Messages
<1>3. QED
  BY <1>1, <1>2 DEF Init, TypeInv, TypeOK, InLog

(* A snapshot of the current revision is a mapping. *)
LEMMA SnapshotType == ASSUME NEW n \in Nat PROVE Snapshot(n) \in Mappings
BY LoadMapType DEF Snapshot, Mappings

(* A write to etcd. *)
LEMMA WriteTypeInv ==
    ASSUME TypeInv, NEW k \in Keys \cup {Foreign}, NEW v \in Values \cup {Absent}, Write(k, v)
    PROVE  TypeInv'
<1>1. log' \in Seq(Writes) /\ Len(log') = Len(log) + 1
  BY DEF TypeInv, TypeOK, Write, Writes
<1>2. InLog(msg)' /\ InLog(batch)'
  BY <1>1 DEF TypeInv, TypeOK, Messages, InLog, Write, watchVars, streamVars
<1>3. QED
  BY <1>1, <1>2
     DEF TypeInv, TypeOK, Write, loadVars, watchVars, streamVars

(* etcd and the control plane. *)
LEMMA EtcdTypeInv == TypeInv /\ EtcdNext => TypeInv'
<1> SUFFICES ASSUME TypeInv, EtcdNext PROVE TypeInv'
  OBVIOUS
<1>1. CASE Put
  BY <1>1, WriteTypeInv, ConstantsAssumption DEF Put
<1>2. CASE Delete
  BY <1>2, WriteTypeInv DEF Delete
<1>3. CASE WriteForeign
  BY <1>3, WriteTypeInv DEF WriteForeign
<1>4. CASE Compact
  <2>1. compacted' \in Nat
    BY <1>4 DEF Compact, TypeInv, TypeOK
  <2>2. QED
    BY <1>4, <2>1 DEF Compact, TypeInv, TypeOK, InLog, loadVars, watchVars, streamVars
<1>5. QED
  BY <1>1, <1>2, <1>3, <1>4 DEF EtcdNext

(* Start and reconcileLoop. *)
LEMMA LoadTypeInv == TypeInv /\ LoadNext => TypeInv'
<1> SUFFICES ASSUME TypeInv, LoadNext PROVE TypeInv'
  OBVIOUS
<1> USE DEF TypeInv, TypeOK, InLog, etcdVars, watchVars, streamVars
<1>1. CASE LoadAllRange
  <2>1. Snapshot(Len(log)) \in Mappings
    BY SnapshotType
  <2>2. QED
    BY <1>1, <2>1 DEF LoadAllRange
<1>2. CASE StartFails
  BY <1>2 DEF StartFails
<1>3. CASE StartSwap
  BY <1>3 DEF StartSwap, FirstWatched, Mappings
<1>4. CASE ReconcileTick
  BY <1>4 DEF ReconcileTick
<1>5. CASE ReconcileFails
  BY <1>5 DEF ReconcileFails
<1>6. CASE ReconcileSwap
  BY <1>6 DEF ReconcileSwap
<1>7. CASE ReconcileReturns
  BY <1>7 DEF ReconcileReturns
<1>8. QED
  BY <1>1, <1>2, <1>3, <1>4, <1>5, <1>6, <1>7 DEF LoadNext

(* The watch stream. *)
LEMMA StreamTypeInv == TypeInv /\ StreamNext => TypeInv'
<1> SUFFICES ASSUME TypeInv, StreamNext PROVE TypeInv'
  OBVIOUS
<1> USE DEF TypeInv, TypeOK, InLog, etcdVars, loadVars, watchVars
<1>1. ASSUME NEW m \in Messages, InLog(m), ProducerDecodes(m), sent' \in Nat PROVE TypeInv'
  BY <1>1 DEF ProducerDecodes
<1>2. ZeroMsg \in Messages /\ InLog(ZeroMsg)
  BY DEF ZeroMsg, Messages
<1>3. CASE ServerSendsEvents
  <2>1. PICK e \in sent + 1 .. Len(log) :
             /\ \E h \in (IF DelayedHeaders THEN e .. Len(log) ELSE {e}) :
                   ProducerDecodes([rev |-> h, first |-> sent + 1, last |-> e,
                                    canceled |-> FALSE])
             /\ sent' = e
    BY <1>3 DEF ServerSendsEvents
  <2>2. (IF DelayedHeaders THEN e .. Len(log) ELSE {e}) \subseteq e .. Len(log)
    OBVIOUS
  <2>3. PICK h \in e .. Len(log) :
             ProducerDecodes([rev |-> h, first |-> sent + 1, last |-> e, canceled |-> FALSE])
    BY <2>1, <2>2, Zenon
  <2> DEFINE m == [rev |-> h, first |-> sent + 1, last |-> e, canceled |-> FALSE]
  <2>4. m \in Messages /\ InLog(m)
    BY DEF Messages
  <2>5. sent' \in Nat
    BY <2>1
  <2>6. ProducerDecodes(m)
    BY <2>3
  <2> HIDE DEF m
  <2>7. QED
    BY <1>1, <2>4, <2>5, <2>6
<1>4. CASE ServerCancels
  <2> DEFINE m == [rev |-> Len(log), first |-> 1, last |-> 0, canceled |-> TRUE]
  <2>1. m \in Messages /\ InLog(m)
    BY DEF Messages
  <2>2. ProducerDecodes(m) /\ sent' \in Nat
    BY <1>4 DEF ServerCancels
  <2> HIDE DEF m
  <2>3. QED
    BY <1>1, <2>1, <2>2
<1>5. CASE GatewayError
  BY <1>1, <1>2, <1>5 DEF GatewayError
<1>6. CASE StreamEnds
  BY <1>6 DEF StreamEnds
<1>7. CASE ProducerReturns
  BY <1>2, <1>7 DEF ProducerReturns
<1>8. QED
  BY <1>3, <1>4, <1>5, <1>6, <1>7 DEF StreamNext

(* What watchLoop swaps in is a mapping. *)
LEMMA NextMappingType == ASSUME TypeInv PROVE NextMapping \in Mappings
<1> DEFINE base == IF cur = NoMapping THEN EmptyMapping ELSE cur
<1>1. base \in Mappings
  BY DEF TypeInv, TypeOK, EmptyMapping, Mappings, Maps
<1>2. /\ batch \in Messages /\ InLog(batch) /\ log \in Seq(Writes)
  BY DEF TypeInv, TypeOK
<1>3. base.map \in Maps /\ base.rev \in Nat
  BY <1>1 DEF Mappings
<1>4. ApplyEvents(base.map, batch.first, batch.last) \in Maps
  BY <1>2, <1>3, ApplyEventsType DEF Messages, InLog
<1>5. (IF batch.rev > 0 THEN batch.rev ELSE base.rev) \in Nat
  BY <1>2, <1>3 DEF Messages
<1> HIDE DEF base
<1>6. [rev |-> IF batch.rev > 0 THEN batch.rev ELSE base.rev,
       map |-> ApplyEvents(base.map, batch.first, batch.last)] \in Mappings
  BY <1>4, <1>5 DEF Mappings
<1>7. QED
  BY <1>6 DEF NextMapping, base

(* watchLoop. *)
LEMMA WatchTypeInv == TypeInv /\ WatchNext => TypeInv'
<1> SUFFICES ASSUME TypeInv, WatchNext PROVE TypeInv'
  OBVIOUS
<1> USE DEF TypeInv, TypeOK, InLog, etcdVars, loadVars, streamVars
<1>1. ZeroMsg \in Messages /\ ZeroMsg.first > 0 /\ ZeroMsg.last <= Len(log)
  BY DEF ZeroMsg, Messages
<1>2. CASE WatchOpens
  BY <1>1, <1>2 DEF WatchOpens
<1>3. CASE WatchOpenFails
  BY <1>3 DEF WatchOpenFails
<1>4. CASE WatchReceives
  BY <1>1, <1>4 DEF WatchReceives, ProducerAfterSend
<1>5. CASE WatchSwap
  <2>1. NextMapping \in Mappings
    BY NextMappingType
  <2>2. ResumeRevision \in Nat /\ ResumeRevision > 0
    BY <1>5 DEF ResumeRevision, WatchSwap, Messages
  <2>3. QED
    BY <1>1, <1>5, <2>1, <2>2 DEF WatchSwap
<1>6. CASE WatchChannelClosed
  BY <1>6 DEF WatchChannelClosed
<1>7. CASE WatchWakes
  BY <1>7 DEF WatchWakes
<1>8. CASE WatchReturns
  BY <1>8 DEF WatchReturns
<1>9. QED
  BY <1>2, <1>3, <1>4, <1>5, <1>6, <1>7, <1>8 DEF WatchNext

(* Every step of the registry and of etcd keeps the invariant. *)
LEMMA NextTypeInv == TypeInv /\ [Next]_vars => TypeInv'
<1> SUFFICES ASSUME TypeInv, [Next]_vars PROVE TypeInv'
  OBVIOUS
<1>1. CASE CancelContext
  BY <1>1 DEF CancelContext, TypeInv, TypeOK, InLog, etcdVars, loadVars, watchVars, streamVars
<1>2. CASE UNCHANGED vars
  BY <1>2 DEF vars, TypeInv, TypeOK, InLog, etcdVars, loadVars, watchVars, streamVars
<1>3. QED
  BY <1>1, <1>2, EtcdTypeInv, LoadTypeInv, StreamTypeInv, WatchTypeInv DEF Next, RegistryNext

(* The registry's state has its type, and messages refer to the log only. *)
THEOREM RegistryTypeInv == Spec => []TypeInv
BY InitTypeInv, NextTypeInv, PTL DEF Spec

(* Type correctness. *)
THEOREM RegistryTypeCorrect == Spec => []TypeOK
<1>1. TypeInv => TypeOK
  BY DEF TypeInv
<1>2. QED
  BY <1>1, RegistryTypeInv, PTL

-----------------------------------------------------------------------------
(* The producer goroutine. *)

(* Until Start has launched the loops there is no watchLoop and no mapping. *)
NotLaunched ==
    lpc \in {"start", "startSwap", "failed"} => wpc = "off" /\ store = NoMapping

StreamInv == ProducerNotOrphaned /\ NotLaunched

(* Every step keeps the invariant. *)
LEMMA NextStreamInv == StreamInv /\ [Next]_vars => StreamInv'
<1> SUFFICES ASSUME StreamInv, [Next]_vars PROVE StreamInv'
  OBVIOUS
<1> USE DEF StreamInv, ProducerNotOrphaned, NotLaunched
<1>1. CASE EtcdNext
  BY <1>1 DEF EtcdNext, Put, Delete, WriteForeign, Write, Compact, loadVars, watchVars,
              streamVars
<1>2. CASE LoadNext
  BY <1>2 DEF LoadNext, LoadAllRange, StartFails, StartSwap, ReconcileTick, ReconcileFails,
              ReconcileSwap, ReconcileReturns, watchVars, streamVars
<1>3. CASE StreamNext
  BY <1>3 DEF StreamNext, ServerSendsEvents, ServerCancels, GatewayError, ProducerDecodes,
              StreamEnds, ProducerReturns, loadVars, watchVars
<1>4. CASE WatchNext
  BY <1>4 DEF WatchNext, WatchOpens, WatchOpenFails, WatchReceives, ProducerAfterSend,
              WatchSwap, WatchChannelClosed, WatchWakes, WatchReturns, loadVars, streamVars
<1>5. CASE CancelContext
  BY <1>5 DEF CancelContext, loadVars, watchVars, streamVars
<1>6. CASE UNCHANGED vars
  BY <1>6 DEF vars, loadVars, watchVars, streamVars
<1>7. QED
  BY <1>1, <1>2, <1>3, <1>4, <1>5, <1>6 DEF Next, RegistryNext

(***************************************************************************)
(* No producer goroutine outlives watchLoop's interest in its stream, in   *)
(* any order of cancellations, errors, reconnects and shutdown.            *)
(***************************************************************************)
THEOREM RegistryProducerNotOrphaned == Spec => []ProducerNotOrphaned
<1>1. Init => StreamInv
  BY DEF Init, StreamInv, ProducerNotOrphaned, NotLaunched
<1>2. StreamInv => ProducerNotOrphaned
  BY DEF StreamInv
<1>3. QED
  BY <1>1, <1>2, NextStreamInv, PTL DEF Spec

-----------------------------------------------------------------------------
(* The content of a revision. *)

(* LoadMapType for a state and its successor. *)
LEMMA LoadMapTypes == \A n : LoadMap(n) \in Maps
BY LoadMapType

(* The last write to a key among the first n. *)
LEMMA LastWrite ==
    ASSUME log \in Seq(Writes), NEW n \in 0 .. Len(log), NEW k, WritesTo(k, n) # {}
    PROVE  /\ Max(WritesTo(k, n)) \in 1 .. n
           /\ Max(WritesTo(k, n)) \in WritesTo(k, n)
           /\ \A r \in WritesTo(k, n) : r <= Max(WritesTo(k, n))
<1>1. WritesTo(k, n) \subseteq 1 .. n
  BY DEF WritesTo
<1>2. WritesTo(k, n) \subseteq 0 .. n /\ n \in Nat
  BY <1>1
<1>3. QED
  BY <1>1, <1>2, MaxOfBounded

(* A key has the value of one of its writes, or none. *)
LEMMA ValueWritten ==
    ASSUME log \in Seq(Writes), NEW n \in 0 .. Len(log), NEW k
    PROVE  ValueAt(k, n) \in Values \cup {Absent}
<1>1. CASE WritesTo(k, n) = {}
  BY <1>1 DEF ValueAt
<1>2. CASE WritesTo(k, n) # {}
  <2>1. Max(WritesTo(k, n)) \in 1 .. Len(log)
    BY <1>2, LastWrite
  <2>2. log[Max(WritesTo(k, n))] \in Writes
    BY <2>1
  <2>3. QED
    BY <1>2, <2>2 DEF ValueAt, Writes
<1>3. QED
  BY <1>1, <1>2

(* etcd's log never shrinks and never changes what it holds. *)
Extends == log' = log \/ \E w \in Writes : log' = Append(log, w)

(* What etcd contained at a revision does not depend on later writes. *)
LEMMA HistoryIsStable ==
    ASSUME log \in Seq(Writes), Extends, NEW n \in 0 .. Len(log)
    PROVE  Snapshot(n)' = Snapshot(n)
<1>1. \A r \in 1 .. n : log'[r] = log[r]
  BY DEF Extends
<1>2. ASSUME NEW k PROVE ValueAt(k, n)' = ValueAt(k, n)
  <2>1. WritesTo(k, n)' = WritesTo(k, n)
    BY <1>1 DEF WritesTo
  <2>2. CASE WritesTo(k, n) = {}
    BY <2>1, <2>2 DEF ValueAt
  <2>3. CASE WritesTo(k, n) # {}
    <3>1. log'[Max(WritesTo(k, n))] = log[Max(WritesTo(k, n))]
      BY <1>1, <2>3, LastWrite
    <3>2. QED
      BY <2>1, <2>3, <3>1 DEF ValueAt
  <2>4. QED
    BY <2>2, <2>3
<1>3. ASSUME NEW i PROVE DecodableKeys(i, n)' = DecodableKeys(i, n)
  BY <1>2 DEF DecodableKeys
<1>4. LoadMap(n)' = LoadMap(n)
  BY <1>2, <1>3 DEF LoadMap
<1>5. QED
  BY <1>4 DEF Snapshot

(* A mapping that is the content of a revision etcd has reached. *)
Exact(m) == m.rev <= Len(log) /\ m = Snapshot(m.rev)

(* What was exact stays exact. *)
LEMMA ExactIsStable ==
    ASSUME log \in Seq(Writes), Extends, NEW m \in Mappings, Exact(m)
    PROVE  Exact(m)'
<1>1. m.rev \in 0 .. Len(log)
  BY DEF Exact, Mappings
<1>2. PICK n \in 0 .. Len(log) : n = m.rev
  BY <1>1
<1>3. Snapshot(n)' = Snapshot(n)
  BY HistoryIsStable
<1>4. n <= Len(log')
  BY DEF Extends
<1>5. QED
  BY <1>2, <1>3, <1>4 DEF Exact

-----------------------------------------------------------------------------
(* Freshness.  Reconciliations, late headers, values that do not decode    *)
(* and compaction are unrestricted.                                        *)

(* No two keys stand for the same id (as buckets/527 and buckets/0527 do). *)
OneKeyPerId == \A k, q \in Keys : IdOf[k] = IdOf[q] /\ IdOf[k] \in Ids => k = q

(* The inductive invariant behind NeverBehindStart. *)

(* Every entry of the mapping is that of a load since Start's own. *)
FreshMap(m) ==
    \A i \in Ids : \E n \in fromRevision .. Len(log) : m.map[i] = LoadMap(n)[i]

(* A message that carries no event and no revision up to Start's load. *)
Late(m) ==
    /\ m.rev = 0 \/ m.rev > fromRevision
    /\ m.last < m.first \/ m.first > fromRevision

StoreFresh == store # NoMapping => FreshMap(store)

LoadFresh ==
    /\ lpc = "startSwap" => Exact(built)
    /\ lpc = "swap" => FreshMap(built)

WatchFresh ==
    /\ wpc # "off" => store # NoMapping /\ watchRev > fromRevision
    /\ wpc = "apply" => cur # NoMapping /\ FreshMap(cur) /\ Late(batch)

StreamFresh ==
    /\ prod # "none" => sent >= fromRevision
    /\ prod = "sending" => msg.canceled \/ Late(msg)

FreshInv ==
    /\ fromRevision <= Len(log)
    /\ StoreFresh /\ LoadFresh /\ WatchFresh /\ StreamFresh

-----------------------------------------------------------------------------
(* Freshness of what the loops compute. *)

(* An event that applies sets the entry a load at its revision would give. *)
LEMMA EventLoaded ==
    ASSUME OneKeyPerId, log \in Seq(Writes), NEW r \in 1 .. Len(log), NEW i \in Ids,
           Applies(log[r], i)
    PROVE  LoadMap(r)[i] = Stored(i, log[r].val)
<1> DEFINE k == log[r].key
           v == log[r].val
<1>1. log[r] \in Writes /\ r \in 0 .. Len(log) /\ r \in Nat
  OBVIOUS
<1>2. k \in Keys /\ IdOf[k] = i /\ v \in Defs \cup {Absent}
  BY <1>1, ConstantsAssumption DEF Applies, Writes
<1>3. ValueAt(k, r) = v
  <2>1. r \in WritesTo(k, r)
    BY <1>1 DEF WritesTo
  <2>2. Max(WritesTo(k, r)) \in 1 .. r /\ r <= Max(WritesTo(k, r))
    BY <1>1, <2>1, LastWrite
  <2>3. Max(WritesTo(k, r)) = r
    BY <1>1, <2>2
  <2>4. QED
    BY <2>1, <2>3 DEF ValueAt
<1> DEFINE ks == DecodableKeys(i, r)
<1>4. ks \subseteq {k} /\ (k \in ks <=> v \in Defs)
  BY <1>2, <1>3 DEF DecodableKeys, OneKeyPerId
<1>5. LoadMap(r)[i] = IF ks = {} THEN Absent
                        ELSE Stored(i, ValueAt(LastListed(ks), r))
  BY DEF LoadMap
<1>6. ks # {} => LastListed(ks) = k
  BY <1>2, <1>4, LastListedIsListed
<1> HIDE DEF ks, k, v
<1>7. LoadMap(r)[i] = Stored(i, v)
  BY <1>2, <1>3, <1>4, <1>5, <1>6, StoredType
<1>8. QED
  BY <1>7 DEF v

(* A load of the current revision is fresh. *)
LEMMA LoadIsFresh ==
    ASSUME NEW m, NEW n \in fromRevision .. Len(log), m = Snapshot(n)
    PROVE  FreshMap(m)
<1>1. m.map = LoadMap(n)
  BY DEF Snapshot
<1>2. QED
  BY <1>1 DEF FreshMap

(* What was fresh stays fresh when etcd's log grows. *)
LEMMA FreshIsStable ==
    ASSUME TypeInv, Extends, fromRevision' = fromRevision, NEW m, FreshMap(m)
    PROVE  FreshMap(m)'
<1>1. log \in Seq(Writes) /\ Len(log) \in Nat /\ fromRevision \in Nat
  BY DEF TypeInv, TypeOK
<1>2. Len(log') \in Nat /\ Len(log) <= Len(log')
  BY <1>1 DEF Extends
<1>3. ASSUME NEW i \in Ids
      PROVE  \E n \in fromRevision .. Len(log') : m.map[i] = LoadMap(n)'[i]
  <2>1. PICK n \in fromRevision .. Len(log) : m.map[i] = LoadMap(n)[i]
    BY DEF FreshMap
  <2>2. Snapshot(n)' = Snapshot(n)
    BY <1>1, HistoryIsStable
  <2>3. LoadMap(n)' = LoadMap(n)
    BY <2>2 DEF Snapshot
  <2>4. n \in fromRevision .. Len(log')
    BY <1>1, <1>2
  <2>5. QED
    BY <2>1, <2>3, <2>4
<1>4. QED
  BY <1>3 DEF FreshMap

(* Events after Start's load turn a fresh mapping into a fresh one. *)
LEMMA SwapIsFresh ==
    ASSUME OneKeyPerId, TypeInv, FreshInv, wpc = "apply"
    PROVE  FreshMap(NextMapping)
<1>1. /\ log \in Seq(Writes) /\ Len(log) \in Nat /\ fromRevision \in Nat
      /\ batch \in Messages /\ InLog(batch)
  BY DEF TypeInv, TypeOK
<1>2. cur # NoMapping /\ FreshMap(cur) /\ Late(batch)
  BY DEF FreshInv, WatchFresh
<1>3. NextMapping.map = ApplyEvents(cur.map, batch.first, batch.last)
  BY <1>2 DEF NextMapping
<1>4. ASSUME NEW i \in Ids
      PROVE  \E n \in fromRevision .. Len(log) : NextMapping.map[i] = LoadMap(n)[i]
  <2> DEFINE rs == AppliedTo(i, batch.first, batch.last)
  <2>1. NextMapping.map[i] = IF rs = {} THEN cur.map[i] ELSE Stored(i, log[Max(rs)].val)
    BY <1>3 DEF ApplyEvents
  <2>2. CASE rs = {}
    BY <1>2, <2>1, <2>2 DEF FreshMap
  <2>3. CASE rs # {}
    <3>1. rs \subseteq 0 .. Len(log)
      BY <1>1 DEF AppliedTo, Messages, InLog
    <3>2. Max(rs) \in rs
      BY <1>1, <2>3, <3>1, MaxOfBounded
    <3>3. PICK r \in rs : r = Max(rs)
      BY <3>2
    <3>4. r \in batch.first .. batch.last /\ Applies(log[r], i)
      BY DEF AppliedTo
    <3>5. r \in 1 .. Len(log) /\ r \in fromRevision .. Len(log)
      BY <1>1, <1>2, <3>4 DEF Messages, InLog, Late
    <3>6. LoadMap(r)[i] = Stored(i, log[r].val)
      BY <1>1, <3>4, <3>5, EventLoaded
    <3>7. QED
      BY <2>1, <2>3, <3>3, <3>5, <3>6
  <2>4. QED
    BY <2>2, <2>3
<1>5. QED
  BY <1>4 DEF FreshMap

-----------------------------------------------------------------------------
(* The steps. *)

(* What loadAll has built stays fresh until it is swapped in. *)
LEMMA LoadFreshKept ==
    ASSUME TypeInv, LoadFresh, Extends, UNCHANGED <<lpc, built, fromRevision>>
    PROVE  LoadFresh'
<1>1. CASE lpc = "startSwap"
  <2>1. PICK m \in Mappings : m = built
    BY <1>1 DEF TypeInv
  <2>2. Exact(m)'
    BY <1>1, <2>1, ExactIsStable DEF LoadFresh, TypeInv, TypeOK
  <2>3. QED
    BY <1>1, <2>1, <2>2 DEF LoadFresh
<1>2. CASE lpc = "swap"
  BY <1>2, FreshIsStable DEF LoadFresh
<1>3. CASE lpc \notin {"startSwap", "swap"}
  BY <1>3 DEF LoadFresh
<1>4. QED
  BY <1>1, <1>2, <1>3

(* A step that only lets etcd's log grow, or only moves control. *)
LEMMA OutsideFreshInv ==
    ASSUME TypeInv, FreshInv, Extends, UNCHANGED <<store, loadVars, watchVars, streamVars>>
    PROVE  FreshInv'
<1> USE DEF FreshInv
<1>1. Len(log) \in Nat /\ Len(log') \in Nat /\ Len(log) <= Len(log') /\ fromRevision \in Nat
  BY DEF TypeInv, TypeOK, Extends
<1>2. UNCHANGED <<store, lpc, built, wpc, fromRevision, watchRev, cur, batch, prod, msg, sent>>
  BY DEF loadVars, watchVars, streamVars
<1>3. StoreFresh'
  BY <1>2, FreshIsStable DEF StoreFresh
<1>4. LoadFresh'
  BY <1>2, LoadFreshKept
<1>5. WatchFresh'
  BY <1>2, FreshIsStable DEF WatchFresh, Late
<1>6. StreamFresh'
  BY <1>2 DEF StreamFresh, Late
<1>7. QED
  BY <1>1, <1>2, <1>3, <1>4, <1>5, <1>6

(* Start and reconcileLoop. *)
LEMMA LoadFreshInv ==
    ASSUME TypeInv, StreamInv, FreshInv, LoadNext
    PROVE  FreshInv'
<1> USE DEF FreshInv
<1>1. log' = log /\ Extends /\ UNCHANGED <<cur, batch, prod, msg, sent>>
  BY DEF LoadNext, LoadAllRange, StartFails, StartSwap, ReconcileTick, ReconcileFails,
         ReconcileSwap, ReconcileReturns, etcdVars, watchVars, streamVars, Extends
<1>2. Len(log) \in Nat /\ fromRevision \in Nat
  BY DEF TypeInv, TypeOK
<1>3. ASSUME UNCHANGED <<store, watchVars>> PROVE StoreFresh' /\ WatchFresh' /\ StreamFresh'
  <2>1. UNCHANGED <<wpc, fromRevision, watchRev>>
    BY <1>3 DEF watchVars
  <2>2. StoreFresh'
    BY <1>1, <1>3, <2>1, FreshIsStable DEF StoreFresh
  <2>3. WatchFresh'
    BY <1>1, <1>3, <2>1, FreshIsStable DEF WatchFresh, Late
  <2>4. StreamFresh'
    BY <1>1, <2>1 DEF StreamFresh, Late
  <2>5. QED
    BY <2>2, <2>3, <2>4
<1>4. CASE LoadAllRange
  <2>1. /\ UNCHANGED <<store, watchVars>> /\ UNCHANGED fromRevision
        /\ lpc' \in {"startSwap", "swap"} /\ built' = Snapshot(Len(log))
    BY <1>4 DEF LoadAllRange, watchVars
  <2>2. PICK m \in Mappings : m = Snapshot(Len(log))
    BY <1>2, SnapshotType
  <2>3. m.rev = Len(log) /\ Exact(m)
    BY <1>2, <2>2 DEF Snapshot, Exact
  <2>4. Len(log) \in fromRevision .. Len(log)
    BY <1>2
  <2>5. FreshMap(m)
    BY <2>2, <2>4, LoadIsFresh
  <2>6. Exact(m)' /\ FreshMap(m)'
    BY <1>1, <2>1, <2>3, <2>5, ExactIsStable, FreshIsStable DEF TypeInv, TypeOK
  <2>7. LoadFresh'
    BY <2>1, <2>2, <2>6 DEF LoadFresh
  <2>8. QED
    BY <1>1, <1>3, <2>1, <2>7
<1>5. CASE StartSwap
  <2>1. /\ lpc = "startSwap" /\ store' = built /\ fromRevision' = built.rev
        /\ watchRev' = built.rev + 1 /\ wpc' = "open" /\ lpc' = "wait"
    BY <1>5 DEF StartSwap, FirstWatched
  <2>2. prod' = "none"
    BY <1>1, <2>1 DEF StreamInv, NotLaunched, ProducerNotOrphaned
  <2>3. PICK m \in Mappings : m = built
    BY <2>1 DEF TypeInv
  <2>4. m.rev \in Nat /\ m.rev <= Len(log) /\ m = Snapshot(m.rev)
    BY <2>1, <2>3 DEF LoadFresh, Exact, Mappings
  <2>5. m.map = LoadMap(m.rev)
    BY <2>4 DEF Snapshot
  <2>6. LoadMap(m.rev)' = LoadMap(m.rev)
    BY <1>1 DEF LoadMap, DecodableKeys, ValueAt, WritesTo
  <2>7. FreshMap(m)'
    <3>1. m.rev \in m.rev .. Len(log)
      BY <1>2, <2>4
    <3>2. QED
      BY <1>1, <2>1, <2>3, <2>5, <2>6, <3>1 DEF FreshMap
  <2>8. m # NoMapping
    BY ConstantsAssumption
  <2>9. QED
    BY <1>1, <2>1, <2>2, <2>3, <2>4, <2>7, <2>8
       DEF StoreFresh, LoadFresh, WatchFresh, StreamFresh
<1>6. CASE ReconcileSwap
  <2>1. /\ lpc = "swap" /\ store' = built /\ lpc' = "wait"
        /\ UNCHANGED <<wpc, fromRevision, watchRev>>
    BY <1>6 DEF ReconcileSwap, watchVars
  <2>2. FreshMap(built) /\ built # NoMapping
    BY <2>1, ConstantsAssumption DEF LoadFresh, TypeInv
  <2>3. PICK m : m = built
    OBVIOUS
  <2>4. FreshMap(m)'
    BY <1>1, <2>1, <2>2, <2>3, FreshIsStable
  <2>5. StoreFresh' /\ LoadFresh'
    BY <2>1, <2>3, <2>4 DEF StoreFresh, LoadFresh
  <2>6. WatchFresh'
    BY <1>1, <2>1, <2>2, FreshIsStable DEF WatchFresh, Late
  <2>7. StreamFresh'
    BY <1>1, <2>1 DEF StreamFresh, Late
  <2>8. QED
    BY <1>1, <2>1, <2>5, <2>6, <2>7
<1>7. CASE StartFails \/ ReconcileTick \/ ReconcileFails \/ ReconcileReturns
  <2>1. /\ UNCHANGED <<store, watchVars>> /\ UNCHANGED fromRevision
        /\ lpc' \in {"failed", "due", "wait", "done"}
    BY <1>7 DEF StartFails, ReconcileTick, ReconcileFails, ReconcileReturns, watchVars
  <2>2. LoadFresh'
    BY <2>1 DEF LoadFresh
  <2>3. QED
    BY <1>1, <1>3, <2>1, <2>2
<1>8. QED
  BY <1>4, <1>5, <1>6, <1>7 DEF LoadNext
(* The stream asks for revisions after Start's load only. *)
LEMMA StreamFreshInv ==
    ASSUME TypeInv, FreshInv, StreamNext
    PROVE  FreshInv'
<1> USE DEF FreshInv
<1>1. /\ UNCHANGED <<log, store, lpc, built, wpc, fromRevision, watchRev, cur, batch>>
      /\ Extends
  BY DEF StreamNext, ServerSendsEvents, ServerCancels, GatewayError, ProducerDecodes,
         StreamEnds, ProducerReturns, etcdVars, loadVars, watchVars, Extends
<1>2. Len(log) \in Nat /\ fromRevision \in Nat /\ sent \in Nat
  BY DEF TypeInv, TypeOK
<1>3. StoreFresh' /\ WatchFresh'
  BY <1>1, FreshIsStable DEF StoreFresh, WatchFresh, Late
<1>4. LoadFresh'
  BY <1>1, LoadFreshKept
<1>5. CASE ServerSendsEvents
  <2>1. PICK e \in sent + 1 .. Len(log) :
             /\ \E h \in (IF DelayedHeaders THEN e .. Len(log) ELSE {e}) :
                   ProducerDecodes([rev |-> h, first |-> sent + 1, last |-> e,
                                    canceled |-> FALSE])
             /\ sent' = e
    BY <1>5 DEF ServerSendsEvents
  <2>2. (IF DelayedHeaders THEN e .. Len(log) ELSE {e}) \subseteq e .. Len(log)
    BY <1>2
  <2>3. PICK h \in e .. Len(log) :
             ProducerDecodes([rev |-> h, first |-> sent + 1, last |-> e, canceled |-> FALSE])
    BY <2>1, <2>2, Zenon
  <2>4. prod = "reading" /\ msg' = [rev |-> h, first |-> sent + 1, last |-> e,
                                    canceled |-> FALSE]
    BY <2>3 DEF ProducerDecodes
  <2>5. msg'.rev = h /\ msg'.first = sent + 1
    BY <2>4
  <2>6. sent >= fromRevision
    BY <2>4 DEF StreamFresh
  <2>7. Late(msg)' /\ sent' >= fromRevision'
    BY <1>1, <1>2, <2>1, <2>3, <2>5, <2>6 DEF Late
  <2>8. QED
    BY <1>1, <1>3, <1>4, <2>7 DEF StreamFresh
<1>6. CASE ServerCancels
  <2>1. /\ prod = "reading" /\ sent' = sent
        /\ msg' = [rev |-> Len(log), first |-> 1, last |-> 0, canceled |-> TRUE]
    BY <1>6 DEF ServerCancels, ProducerDecodes
  <2>2. msg'.canceled
    BY <2>1
  <2>3. QED
    BY <1>1, <1>3, <1>4, <2>1, <2>2 DEF StreamFresh
<1>7. CASE GatewayError
  <2>1. prod = "reading" /\ sent' = sent /\ msg' = ZeroMsg
    BY <1>7 DEF GatewayError, ProducerDecodes
  <2>2. Late(msg)'
    BY <2>1 DEF Late, ZeroMsg
  <2>3. QED
    BY <1>1, <1>3, <1>4, <2>1, <2>2 DEF StreamFresh
<1>8. CASE StreamEnds \/ ProducerReturns
  BY <1>1, <1>3, <1>4, <1>8 DEF StreamEnds, ProducerReturns, StreamFresh
<1>9. QED
  BY <1>5, <1>6, <1>7, <1>8 DEF StreamNext

(* watchLoop. *)
LEMMA WatchFreshInv ==
    ASSUME OneKeyPerId, TypeInv, StreamInv, FreshInv, WatchNext
    PROVE  FreshInv'
<1> USE DEF FreshInv
<1>1. UNCHANGED <<log, lpc, built, fromRevision>> /\ Extends
  BY DEF WatchNext, WatchOpens, WatchOpenFails, WatchReceives, WatchSwap,
         WatchChannelClosed, WatchWakes, WatchReturns, etcdVars, loadVars, Extends
<1>2. fromRevision \in Nat /\ watchRev \in Nat /\ sent \in Nat /\ batch.rev \in Nat
  BY DEF TypeInv, TypeOK, Messages
<1>3. LoadFresh'
  BY <1>1, LoadFreshKept
<1>4. store' = store => StoreFresh'
  BY <1>1, FreshIsStable DEF StoreFresh
<1>5. CASE WatchOpens
  <2>1. /\ wpc = "open" /\ wpc' = "recv" /\ prod' = "reading" /\ sent' = watchRev - 1
        /\ UNCHANGED <<store, watchRev>>
    BY <1>5 DEF WatchOpens
  <2>2. WatchFresh' /\ StreamFresh'
    BY <1>1, <1>2, <2>1 DEF WatchFresh, StreamFresh
  <2>3. QED
    BY <1>1, <1>3, <1>4, <2>1, <2>2
<1>6. CASE WatchOpenFails \/ WatchChannelClosed \/ WatchWakes \/ WatchReturns
  <2>1. /\ wpc # "off" /\ wpc' \in {"sleep", "open", "done"}
        /\ UNCHANGED <<store, watchRev, prod, msg, sent>>
    BY <1>6 DEF WatchOpenFails, WatchChannelClosed, WatchWakes, WatchReturns, streamVars
  <2>2. WatchFresh' /\ StreamFresh'
    BY <1>1, <2>1 DEF WatchFresh, StreamFresh, Late
  <2>3. QED
    BY <1>1, <1>3, <1>4, <2>1, <2>2
<1>7. CASE WatchReceives
  <2>1. wpc = "recv" /\ prod = "sending" /\ UNCHANGED <<store, watchRev>>
    BY <1>7 DEF WatchReceives
  <2>2. CASE msg.canceled
    <3>1. wpc' = "sleep" /\ prod' = "none"
      BY <1>7, <2>2 DEF WatchReceives, ProducerAfterSend
    <3>2. QED
      BY <1>1, <1>3, <1>4, <2>1, <3>1 DEF WatchFresh, StreamFresh
  <2>3. CASE ~msg.canceled
    <3>1. wpc' = "apply" /\ cur' = store /\ batch' = msg /\ sent' = sent /\ prod' = "reading"
      BY <1>7, <2>3 DEF WatchReceives, ProducerAfterSend
    <3>2. store # NoMapping /\ watchRev > fromRevision /\ FreshMap(store) /\ Late(msg)
      BY <2>1, <2>3 DEF WatchFresh, StoreFresh, StreamFresh
    <3>3. FreshMap(cur)' /\ Late(batch)'
      <4>1. PICK m : m = store
        OBVIOUS
      <4>2. FreshMap(m)'
        BY <1>1, <3>2, <4>1, FreshIsStable
      <4>3. QED
        BY <1>1, <3>1, <3>2, <4>1, <4>2 DEF Late
    <3>4. WatchFresh' /\ StreamFresh'
      BY <1>1, <2>1, <3>1, <3>2, <3>3 DEF WatchFresh, StreamFresh
    <3>5. QED
      BY <1>1, <1>3, <1>4, <2>1, <3>4
  <2>4. QED
    BY <2>2, <2>3
<1>8. CASE WatchSwap
  <2>1. /\ wpc = "apply" /\ wpc' = "recv" /\ store' = NextMapping
        /\ watchRev' = ResumeRevision /\ UNCHANGED <<prod, msg, sent>>
    BY <1>8 DEF WatchSwap, streamVars
  <2>2. PICK m \in Mappings : m = NextMapping
    BY NextMappingType
  <2>3. m # NoMapping /\ FreshMap(m)
    BY <2>1, <2>2, SwapIsFresh, ConstantsAssumption
  <2>4. FreshMap(m)'
    BY <1>1, <2>3, FreshIsStable
  <2>5. StoreFresh' /\ StreamFresh'
    BY <1>1, <2>1, <2>2, <2>4 DEF StoreFresh, StreamFresh, Late
  <2>6. ResumeRevision > fromRevision
    BY <1>2, <2>1 DEF ResumeRevision, WatchFresh, Late
  <2>7. WatchFresh'
    BY <1>1, <2>1, <2>2, <2>3, <2>6 DEF WatchFresh
  <2>8. QED
    BY <1>1, <1>3, <2>5, <2>7
<1>9. QED
  BY <1>5, <1>6, <1>7, <1>8 DEF WatchNext

(* Every step keeps the invariant. *)
LEMMA NextFreshInv ==
    ASSUME OneKeyPerId, TypeInv, StreamInv, FreshInv, [Next]_vars
    PROVE  FreshInv'
<1>1. CASE EtcdNext \/ CancelContext \/ UNCHANGED vars
  <2>1. ASSUME NEW k \in Keys \cup {Foreign}, NEW v \in Values \cup {Absent}, Write(k, v)
        PROVE  Extends
    BY <2>1 DEF Write, Extends, Writes
  <2>2. Extends
    BY <1>1, <2>1 DEF EtcdNext, Put, Delete, WriteForeign, Compact, CancelContext, vars,
                      etcdVars, Extends
  <2>3. UNCHANGED <<store, loadVars, watchVars, streamVars>>
    BY <1>1 DEF EtcdNext, Put, Delete, WriteForeign, Write, Compact, CancelContext, vars
  <2>4. QED
    BY <2>2, <2>3, OutsideFreshInv
<1>2. QED
  BY <1>1, LoadFreshInv, StreamFreshInv, WatchFreshInv DEF Next, RegistryNext

(***************************************************************************)
(* The two loops may overwrite each other, replay batches, skip revisions  *)
(* behind a late header and keep a definition that no longer decodes: the  *)
(* router still never reads an entry that a full load since Start's own    *)
(* would not have given, be it an invented definition or one that was      *)
(* already replaced when the process started.                              *)
(***************************************************************************)
THEOREM RegistryNeverBehindStart == ASSUME OneKeyPerId PROVE Spec => []NeverBehindStart
<1>1. Init => FreshInv /\ StreamInv
  BY DEF Init, FreshInv, StoreFresh, LoadFresh, WatchFresh, StreamFresh, StreamInv,
         ProducerNotOrphaned, NotLaunched
<1>2. TypeInv /\ StreamInv /\ FreshInv /\ [Next]_vars => FreshInv'
  BY NextFreshInv
<1>3. FreshInv => NeverBehindStart
  BY DEF FreshInv, StoreFresh, FreshMap, NeverBehindStart
<1>4. QED
  BY <1>1, <1>2, <1>3, NextStreamInv, RegistryTypeInv, PTL DEF Spec
=============================================================================
