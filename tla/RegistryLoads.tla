---------------------------- MODULE RegistryLoads ---------------------------
(***************************************************************************)
(* What the registries compute from a key-space: the loops of loadAll and  *)
(* watchLoop, the file registry's Start, and the range of keys that        *)
(* rangePrefix and watchPrefix ask etcd for.                               *)
(***************************************************************************)
EXTENDS EtcdRegistry, SequencesExt

CONSTANTS
    MaxByte, MaxKeyLen,    \* see KeyRange
    BytesOf,               \* the bytes of every key in etcd
    ShardIds,              \* the shard ids among Ids
    BucketKeys,            \* the keys under /sharding/buckets/
    ParsedId               \* the id that the file registry reads from a key

INSTANCE KeyRange

ASSUME BytesAssumption ==
    /\ MaxByte \in Nat
    /\ BytesOf \in [Keys \cup {Foreign} -> Seq(Bytes)]

(* etcd lists keys one after the other. *)
ASSUME OrderAssumption == \A k, q \in Keys : KeyRank[k] = KeyRank[q] => k = q

(***************************************************************************)
(* A bucket key is read with Atoi from etcd and with Sscanf from a file.   *)
(* Sscanf takes whatever Atoi takes for the same number, and digits with   *)
(* other text behind them as well.                                         *)
(***************************************************************************)
ASSUME FileAssumption ==
    /\ ShardIds \subseteq Ids
    /\ BucketKeys \subseteq Keys
    /\ ParsedId \in [Keys -> Ids \cup {NoId}]
    /\ \A k \in BucketKeys : ParsedId[k] \notin ShardIds
    /\ \A k \in Keys :
          IdOf[k] # NoId =>
              /\ ParsedId[k] = IdOf[k]
              /\ k \in BucketKeys <=> IdOf[k] \notin ShardIds

(* Only the key-space changes: enough to compare what is computed from it. *)
LogSpec == Init /\ [][Put \/ Delete \/ WriteForeign]_vars

(***************************************************************************)
(* The Range responses at revision n: every key that has a value, in key   *)
(* order, with its value.                                                  *)
(***************************************************************************)
LiveKeys(n) == {k \in Keys : ValueAt(k, n) # Absent}

Listings(n) ==
    {ks \in [1 .. Cardinality(LiveKeys(n)) -> LiveKeys(n)] :
        /\ \A j, m \in DOMAIN ks : j < m => KeyRank[ks[j]] > KeyRank[ks[m]]
        /\ LiveKeys(n) \subseteq {ks[j] : j \in DOMAIN ks}}

Pairs(ks, n) == [j \in DOMAIN ks |-> [key |-> ks[j], val |-> ValueAt(ks[j], n)]]

(***************************************************************************)
(* The loops of the code agree with their closed forms: applying a Range   *)
(* response pair by pair to an empty mapping gives LoadMap, and applying a *)
(* batch event by event gives ApplyEvents.                                 *)
(***************************************************************************)
LoopsAgree ==
    \A n \in 0 .. Len(log) :
        /\ {FoldLeft(ApplyKV, EmptyMapping.map, Pairs(ks, n)) : ks \in Listings(n)}
              = {LoadMap(n)}
        /\ \A f \in 1 .. n + 1 :
              ApplyEvents(LoadMap(f - 1), f, n)
                = FoldLeft(ApplyKV, LoadMap(f - 1), SubSeq(log, f, n))

(***************************************************************************)
(* The shard and bucket records as a document of the file registry, and    *)
(* the bucket keys in it that only the file registry takes for a bucket.   *)
(***************************************************************************)
File == INSTANCE FileRegistry

Document ==
    [k \in {q \in Keys : /\ q \in BucketKeys \/ IdOf[q] \in ShardIds
                         /\ ValueAt(q, Len(log)) # Absent}
        |-> ValueAt(k, Len(log))]

OnlyInFile(i) == \E k \in DOMAIN Document : ParsedId[k] = i /\ IdOf[k] = NoId

HasAliases == \E k, q \in DOMAIN Document : k # q /\ ParsedId[k] = ParsedId[q]

(***************************************************************************)
(* How far both registries serve the same map for the same records.  If    *)
(* the file registry starts, one of its possible results (the only one,    *)
(* without aliases) has the bucket records loadAll makes of them, and its  *)
(* shard records once an empty shard_id is filled in, which only applyKV   *)
(* does; buckets with a key that only Sscanf reads are excepted.           *)
(***************************************************************************)
RegistriesAgree ==
    LET maps == {m.map : m \in File!Start(Document)}
        Same(m, i) ==
            LoadMap(Len(log))[i] = IF i \in ShardIds THEN Stored(i, m[i]) ELSE m[i]
    IN  maps # {} => /\ \E m \in maps : \A i \in Ids : OnlyInFile(i) \/ Same(m, i)
                     /\ ~HasAliases => Cardinality(maps) = 1

(***************************************************************************)
(* For every prefix, the range that getPrefixRangeEnd makes of it selects  *)
(* exactly the stored keys that share the prefix: no record of the shard   *)
(* map is left out and no other user's key is taken in, also for prefixes  *)
(* that end in 0xff bytes.                                                 *)
(***************************************************************************)
StoredKeys == {log[n].key : n \in 1 .. Len(log)}

RangeIsPrefix ==
    \A prefix \in ByteKeys, k \in StoredKeys :
        InRange(BytesOf[k], prefix, GetPrefixRangeEnd(prefix)) <=> HasPrefix(BytesOf[k], prefix)
=============================================================================
