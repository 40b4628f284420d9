------------------------ MODULE RegistryLoadsProofs -------------------------
(***************************************************************************)
(* What a load reads and computes, for keys of any length over any bytes   *)
(* and for any history: the requested range is the prefix, the two         *)
(* registries agree, and a batch is applied event by event.                *)
(***************************************************************************)
EXTENDS RegistryLoads, EtcdRegistryProofs, SequenceTheorems, FiniteSetTheorems

-----------------------------------------------------------------------------
(* The range of a prefix. *)

(* Two sequences start alike if they agree at every position. *)
LEMMA StartAlike ==
    ASSUME NEW S, NEW a \in Seq(S), NEW b \in Seq(S), NEW n \in Nat, n <= Len(a), n <= Len(b)
    PROVE  SubSeq(a, 1, n) = SubSeq(b, 1, n) <=> \A j \in 1 .. n : a[j] = b[j]
<1> DEFINE u == SubSeq(a, 1, n)
           v == SubSeq(b, 1, n)
<1>1. /\ u \in Seq(S) /\ Len(u) = n /\ \A j \in 1 .. n : u[j] = a[j]
      /\ v \in Seq(S) /\ Len(v) = n /\ \A j \in 1 .. n : v[j] = b[j]
  OBVIOUS
<1> HIDE DEF u, v
<1>2. ASSUME \A j \in 1 .. n : a[j] = b[j] PROVE u = v
  BY <1>1, <1>2, SeqEqual
<1>3. ASSUME u = v PROVE \A j \in 1 .. n : a[j] = b[j]
  BY <1>1, <1>3
<1>4. QED
  BY <1>2, <1>3 DEF u, v

(* etcd's order, position by position. *)
LEMMA KeyLessAt ==
    ASSUME NEW a \in Seq(Bytes), NEW b \in Seq(Bytes)
    PROVE  KeyLess(a, b) <=>
               \E n \in 0 .. Len(a) :
                  /\ n < Len(b) /\ \A j \in 1 .. n : a[j] = b[j]
                  /\ n = Len(a) \/ a[n + 1] < b[n + 1]
<1>1. ASSUME NEW n \in 0 .. Len(a), n < Len(b)
      PROVE  SubSeq(a, 1, n) = SubSeq(b, 1, n) <=> \A j \in 1 .. n : a[j] = b[j]
  <2>1. n \in Nat /\ n <= Len(a) /\ n <= Len(b)
    BY <1>1
  <2>2. QED
    BY <2>1, StartAlike
<1>2. QED
  BY <1>1, Zenon DEF KeyLess

(* A prefix, position by position. *)
LEMMA HasPrefixAt ==
    ASSUME NEW key \in Seq(Bytes), NEW prefix \in Seq(Bytes)
    PROVE  HasPrefix(key, prefix) <=>
               /\ Len(prefix) <= Len(key)
               /\ \A j \in 1 .. Len(prefix) : key[j] = prefix[j]
<1>1. SubSeq(prefix, 1, Len(prefix)) = prefix
  <2>1. /\ SubSeq(prefix, 1, Len(prefix)) \in Seq(Bytes)
        /\ Len(SubSeq(prefix, 1, Len(prefix))) = Len(prefix)
        /\ \A j \in 1 .. Len(prefix) : SubSeq(prefix, 1, Len(prefix))[j] = prefix[j]
    OBVIOUS
  <2>2. QED
    BY <2>1, SeqEqual
<1>2. ASSUME Len(prefix) <= Len(key)
      PROVE  SubSeq(key, 1, Len(prefix)) = prefix
                <=> \A j \in 1 .. Len(prefix) : key[j] = prefix[j]
  <2>1. Len(prefix) \in Nat /\ Len(prefix) <= Len(prefix)
    OBVIOUS
  <2>2. QED
    BY <1>1, <1>2, <2>1, StartAlike
<1>3. Len(key) >= Len(prefix) <=> Len(prefix) <= Len(key)
  OBVIOUS
<1>4. QED
  BY <1>2, <1>3, Zenon DEF HasPrefix

(* The bytes of a key are numbers. *)
LEMMA BytesAt ==
    ASSUME NEW key \in Seq(Bytes)
    PROVE  Len(key) \in Nat /\ \A j \in 1 .. Len(key) : key[j] \in Nat /\ key[j] <= MaxByte
<1>1. Len(key) \in Nat /\ \A j \in 1 .. Len(key) : key[j] \in Bytes
  OBVIOUS
<1>2. \A x \in Bytes : x \in Nat /\ x <= MaxByte
  BY BytesAssumption DEF Bytes
<1>3. QED
  BY <1>1, <1>2

(* The modulo of the byte's width leaves what is below it alone. *)
LEMMA ModuloBelow == ASSUME NEW x \in Nat, NEW y \in Nat, x < y PROVE x % y = x
OBVIOUS

(***************************************************************************)
(* The range end: nothing, if every byte of the prefix is 0xff; otherwise  *)
(* the prefix up to its last byte that is not, that byte incremented.      *)
(***************************************************************************)
LEMMA RangeEndAt ==
    ASSUME NEW prefix \in Seq(Bytes), Incrementable(prefix) # {}
    PROVE  \E i \in Incrementable(prefix) :
              /\ \A k \in Incrementable(prefix) : k <= i
              /\ GetPrefixRangeEnd(prefix) \in Seq(Bytes)
              /\ Len(GetPrefixRangeEnd(prefix)) = i
              /\ GetPrefixRangeEnd(prefix)[i] = prefix[i] + 1
              /\ \A j \in 1 .. i - 1 : GetPrefixRangeEnd(prefix)[j] = prefix[j]
<1> DEFINE T == Incrementable(prefix)
           i == CHOOSE n \in T : \A k \in T : k <= n
           end == [SubSeq(prefix, 1, i) EXCEPT ![i] = (prefix[i] + 1) % (MaxByte + 1)]
<1>1. T \subseteq 0 .. Len(prefix) /\ T # {} /\ Len(prefix) \in Nat
  BY DEF Incrementable
<1>2. i \in T /\ \A k \in T : k <= i
  <2>1. Max(T) \in T /\ \A k \in T : k <= Max(T)
    BY <1>1, MaxOfBounded
  <2>2. QED
    BY <2>1
<1>3. GetPrefixRangeEnd(prefix) = end
  BY <1>1 DEF GetPrefixRangeEnd
<1> HIDE DEF i
<1>4. i \in 1 .. Len(prefix) /\ prefix[i] \in Bytes /\ prefix[i] < MaxByte
  BY <1>2 DEF Incrementable
<1>5. (prefix[i] + 1) % (MaxByte + 1) = prefix[i] + 1
  <2>1. /\ prefix[i] + 1 \in Nat /\ MaxByte + 1 \in Nat
        /\ prefix[i] + 1 < MaxByte + 1
    BY <1>4, BytesAssumption DEF Bytes
  <2>2. QED
    BY <2>1, ModuloBelow
<1>6. prefix[i] + 1 \in Bytes
  BY <1>4, BytesAssumption DEF Bytes
<1>7. /\ SubSeq(prefix, 1, i) \in Seq(Bytes) /\ Len(SubSeq(prefix, 1, i)) = i
      /\ \A j \in 1 .. i : SubSeq(prefix, 1, i)[j] = prefix[j]
  BY <1>4
<1>8. /\ end \in Seq(Bytes) /\ Len(end) = i /\ end[i] = prefix[i] + 1
      /\ \A j \in 1 .. i - 1 : end[j] = prefix[j]
  <2> DEFINE s == SubSeq(prefix, 1, i)
             e == prefix[i] + 1
  <2>1. /\ s \in Seq(Bytes) /\ e \in Bytes /\ i \in 1 .. Len(s)
        /\ end = [s EXCEPT ![i] = e] /\ Len(s) = i
        /\ \A j \in 1 .. i - 1 : j \in 1 .. i /\ j # i /\ s[j] = prefix[j]
    BY <1>4, <1>5, <1>6, <1>7
  <2> HIDE DEF s, e, end
  <2>2. /\ [s EXCEPT ![i] = e] \in Seq(Bytes)
        /\ Len([s EXCEPT ![i] = e]) = Len(s)
        /\ \A j \in 1 .. Len(s) : [s EXCEPT ![i] = e][j] = IF j = i THEN e ELSE s[j]
    BY <2>1
  <2>3. QED
    BY <2>1, <2>2, Zenon DEF e
<1>9. QED
  BY <1>2, <1>3, <1>8 DEF T

(* A key with the prefix is in the range. *)
LEMMA PrefixInRange ==
    ASSUME NEW key \in Seq(Bytes), NEW prefix \in Seq(Bytes), HasPrefix(key, prefix)
    PROVE  InRange(key, prefix, GetPrefixRangeEnd(prefix))
<1> DEFINE end == GetPrefixRangeEnd(prefix)
<1>1. /\ Len(prefix) <= Len(key) /\ \A j \in 1 .. Len(prefix) : key[j] = prefix[j]
      /\ Len(prefix) \in Nat /\ Len(key) \in Nat
      /\ \A j \in 1 .. Len(key) : key[j] \in Nat
  BY HasPrefixAt, BytesAt
<1>2. ~KeyLess(key, prefix)
  <2> SUFFICES ASSUME NEW n \in 0 .. Len(key), n < Len(prefix),
                      n = Len(key) \/ key[n + 1] < prefix[n + 1]
               PROVE  FALSE
    BY KeyLessAt
  <2>1. n + 1 \in 1 .. Len(prefix) /\ n + 1 \in 1 .. Len(key) /\ n # Len(key)
    BY <1>1
  <2>2. QED
    BY <1>1, <2>1
<1>3. CASE Incrementable(prefix) = {}
  BY <1>2, <1>3 DEF InRange, GetPrefixRangeEnd
<1>4. CASE Incrementable(prefix) # {}
  <2>1. PICK i \in Incrementable(prefix) :
             /\ end \in Seq(Bytes) /\ Len(end) = i /\ end[i] = prefix[i] + 1
             /\ \A j \in 1 .. i - 1 : end[j] = prefix[j]
    BY <1>4, RangeEndAt
  <2> HIDE DEF end
  <2>2. i \in 1 .. Len(prefix) /\ i \in 1 .. Len(key) /\ key[i] = prefix[i]
    BY <1>1 DEF Incrementable
  <2>3. i - 1 \in 0 .. Len(key) /\ i - 1 < Len(end) /\ (i - 1) + 1 = i
    BY <2>1, <2>2
  <2>4. key[i] < end[i]
    BY <1>1, <2>1, <2>2
  <2>5. \A j \in 1 .. i - 1 : key[j] = end[j]
    BY <1>1, <2>1, <2>2
  <2>6. KeyLess(key, end)
    BY <2>1, <2>3, <2>4, <2>5, KeyLessAt
  <2>7. QED
    BY <1>2, <2>6 DEF InRange, end
<1>5. QED
  BY <1>3, <1>4

(***************************************************************************)
(* A key without the prefix is not.  At the first position d where it      *)
(* departs from the prefix it ends or is smaller, and comes before the     *)
(* prefix, or it is larger: then d's byte can be incremented, the range    *)
(* end is not past d, and the key is not before it.                        *)
(***************************************************************************)
LEMMA RangeHasPrefix ==
    ASSUME NEW key \in Seq(Bytes), NEW prefix \in Seq(Bytes), ~HasPrefix(key, prefix)
    PROVE  ~InRange(key, prefix, GetPrefixRangeEnd(prefix))
<1> DEFINE end == GetPrefixRangeEnd(prefix)
           D == {j \in 1 .. Len(prefix) : j <= Len(key) => key[j] # prefix[j]}
<1>1. /\ Len(prefix) \in Nat /\ Len(key) \in Nat
      /\ \A j \in 1 .. Len(key) : key[j] \in Nat /\ key[j] <= MaxByte
      /\ \A j \in 1 .. Len(prefix) : prefix[j] \in Nat /\ prefix[j] <= MaxByte
  BY BytesAt
<1>2. D # {}
  <2> SUFFICES ASSUME D = {} PROVE FALSE
    OBVIOUS
  <2>1. \A j \in 1 .. Len(prefix) : j <= Len(key) /\ key[j] = prefix[j]
    OBVIOUS
  <2>2. Len(prefix) <= Len(key)
    BY <1>1, <2>1
  <2>3. QED
    BY <2>1, <2>2, HasPrefixAt
<1>3. PICK d \in D : \A j \in D : d <= j
  <2>1. D \subseteq Nat
    OBVIOUS
  <2>2. QED
    BY <1>2, <2>1, LeastNatural
<1>4. /\ d \in 1 .. Len(prefix)
      /\ d <= Len(key) => key[d] # prefix[d]
      /\ \A j \in 1 .. d - 1 : j <= Len(key) /\ key[j] = prefix[j]
  BY <1>1, <1>3
<1> HIDE DEF D
<1>5. d - 1 \in 0 .. Len(key) /\ d - 1 < Len(prefix) /\ (d - 1) + 1 = d
  BY <1>1, <1>4
<1>6. CASE d > Len(key) \/ key[d] < prefix[d]
  <2>1. d - 1 = Len(key) \/ key[(d - 1) + 1] < prefix[(d - 1) + 1]
    BY <1>1, <1>5, <1>6
  <2>2. KeyLess(key, prefix)
    BY <1>4, <1>5, <2>1, KeyLessAt
  <2>3. QED
    BY <2>2 DEF InRange
<1>7. CASE d <= Len(key) /\ prefix[d] < key[d]
  <2>1. d \in Incrementable(prefix)
    BY <1>1, <1>4, <1>7, BytesAssumption DEF Incrementable
  <2>2. PICK i \in Incrementable(prefix) :
             /\ \A k \in Incrementable(prefix) : k <= i
             /\ end \in Seq(Bytes) /\ Len(end) = i /\ end[i] = prefix[i] + 1
             /\ \A j \in 1 .. i - 1 : end[j] = prefix[j]
    BY <2>1, RangeEndAt
  <2> HIDE DEF end
  <2>3. i \in 1 .. Len(prefix) /\ d <= i
    BY <2>1, <2>2 DEF Incrementable
  <2>4. end # <<0>>
    <3>1. end[i] # 0
      BY <1>1, <2>2, <2>3
    <3>2. QED
      BY <2>2, <2>3, <3>1
  <2>5. ~KeyLess(key, end)
    <3> SUFFICES ASSUME NEW n \in 0 .. Len(key), n < i, \A j \in 1 .. n : key[j] = end[j],
                        n = Len(key) \/ key[n + 1] < end[n + 1]
                 PROVE  FALSE
      BY <2>2, KeyLessAt
    <3>1. CASE d <= n
      BY <1>4, <1>7, <2>2, <2>3, <3>1, <1>1
    <3>2. CASE n + 1 < d
      BY <1>1, <1>4, <1>7, <2>2, <2>3, <3>2
    <3>3. CASE n + 1 = d
      BY <1>1, <1>4, <1>7, <2>2, <2>3, <3>3
    <3>4. QED
      BY <1>4, <3>1, <3>2, <3>3
  <2>6. QED
    BY <2>4, <2>5 DEF InRange, end
<1>8. QED
  BY <1>1, <1>4, <1>6, <1>7

(***************************************************************************)
(* The range [prefix, getPrefixRangeEnd(prefix)) is the set of keys with   *)
(* that prefix, for prefixes and keys of any length and for bytes of any   *)
(* width, prefixes that end in 0xff or consist of nothing else included.   *)
(***************************************************************************)
THEOREM PrefixRangeExact ==
    \A key, prefix \in Seq(Bytes) :
        InRange(key, prefix, GetPrefixRangeEnd(prefix)) <=> HasPrefix(key, prefix)
BY PrefixInRange, RangeHasPrefix

(* In every reachable state the request selects exactly the stored keys    *)
(* that share the prefix it is made for.                                   *)
THEOREM RegistryRangeIsPrefix == Spec => []RangeIsPrefix
<1>1. TypeInv => RangeIsPrefix
  <2> SUFFICES ASSUME TypeInv, NEW prefix \in ByteKeys, NEW k \in StoredKeys
               PROVE  InRange(BytesOf[k], prefix, GetPrefixRangeEnd(prefix))
                         <=> HasPrefix(BytesOf[k], prefix)
    BY DEF RangeIsPrefix
  <2>1. PICK n \in 1 .. Len(log) : k = log[n].key
    BY DEF StoredKeys
  <2>2. log \in Seq(Writes)
    BY DEF TypeInv, TypeOK
  <2>3. log[n] \in Writes
    BY <2>2
  <2>4. BytesOf[k] \in Seq(Bytes)
    BY <2>1, <2>3, BytesAssumption DEF Writes
  <2>5. PICK m \in 1 .. MaxKeyLen : prefix \in [1 .. m -> Bytes]
    BY DEF ByteKeys
  <2>6. prefix \in Seq(Bytes)
    BY <2>5
  <2>7. QED
    BY <2>4, <2>6, PrefixRangeExact
<1>2. QED
  BY <1>1, RegistryTypeInv, PTL

-----------------------------------------------------------------------------
(* The two registries. *)

(* Of a document that the file registry accepts, both registries take the  *)
(* same keys for an id, unless one of them is for Sscanf only.             *)
LEMMA SameKeys ==
    ASSUME log \in Seq(Writes), ~File!StartFails(Document), NEW i \in Ids, ~OnlyInFile(i)
    PROVE  /\ File!KeysOf(Document, i) = DecodableKeys(i, Len(log))
           /\ \A k \in DecodableKeys(i, Len(log)) :
                 Document[k] = ValueAt(k, Len(log)) /\ ValueAt(k, Len(log)) \in Defs
<1> DEFINE n == Len(log)
           D == {q \in Keys : /\ q \in BucketKeys \/ IdOf[q] \in ShardIds
                              /\ ValueAt(q, n) # Absent}
<1>1. DOMAIN Document = D /\ \A k \in D : Document[k] = ValueAt(k, n)
  BY DEF Document
<1>2. i # NoId
  BY ConstantsAssumption
<1>3. \A k \in D : ValueAt(k, n) # Malformed
  BY <1>1 DEF File!StartFails
<1>4. ASSUME NEW k \in D PROVE ValueAt(k, n) \in Defs
  BY <1>3, ValueWritten, ConstantsAssumption
<1>5. ASSUME NEW k \in DecodableKeys(i, n) PROVE k \in D /\ ParsedId[k] = i
  BY <1>2, ConstantsAssumption, FileAssumption DEF DecodableKeys
<1>6. ASSUME NEW k \in D, ParsedId[k] = i PROVE k \in DecodableKeys(i, n)
  <2>1. IdOf[k] # NoId
    BY <1>1, <1>6 DEF OnlyInFile
  <2>2. QED
    BY <1>4, <1>6, <2>1, FileAssumption DEF DecodableKeys
<1>7. File!KeysOf(Document, i) = {k \in D : ParsedId[k] = i}
  BY <1>1 DEF File!KeysOf
<1> HIDE DEF D
<1>8. QED
  BY <1>1, <1>4, <1>5, <1>6, <1>7

(***************************************************************************)
(* If the file registry starts on the records etcd holds, one of its       *)
(* possible results, the only one without aliases, has the buckets that    *)
(* loadAll serves and, up to an empty shard_id, its shards; except for the *)
(* buckets with a key that Atoi refuses.                                   *)
(***************************************************************************)
THEOREM RegistryLoadsAgree == Spec => []RegistriesAgree
<1> DEFINE n == Len(log)
           Of(i) == File!KeysOf(Document, i)
           Served(last) == [i \in Ids |-> IF Of(i) = {} THEN Absent
                                          ELSE File!Taken(i, Document[last[i]])]
           Lasts == {l \in File!LastIterated(Document) : ~File!StartFails(Document)}
           maps == {m.map : m \in File!Start(Document)}
           Same(m, i) ==
               LoadMap(n)[i] = IF i \in ShardIds THEN Stored(i, m[i]) ELSE m[i]
<1>1. ASSUME log \in Seq(Writes) PROVE RegistriesAgree
  <2>1. maps = {Served(last) : last \in Lasts}
    <3>1. File!Start(Document) = {[rev |-> 1, map |-> Served(last)] : last \in Lasts}
      BY Zenon DEF File!Start
    <3> HIDE DEF Served, Lasts
    <3>2. ASSUME NEW x \in maps PROVE \E last \in Lasts : x = Served(last)
      <4>1. PICK m \in File!Start(Document) : x = m.map
        OBVIOUS
      <4>2. PICK last \in Lasts : m = [rev |-> 1, map |-> Served(last)]
        BY <3>1, <4>1
      <4>3. QED
        BY <4>1, <4>2
    <3>3. ASSUME NEW last \in Lasts PROVE Served(last) \in maps
      <4>1. [rev |-> 1, map |-> Served(last)] \in File!Start(Document)
        BY <3>1
      <4>2. [rev |-> 1, map |-> Served(last)].map = Served(last)
        OBVIOUS
      <4>3. QED
        BY <4>1, <4>2, Zenon
    <3>4. QED
      BY <3>2, <3>3, Zenon
  <2> HIDE DEF maps
  <2> SUFFICES ASSUME ~File!StartFails(Document)
               PROVE  /\ \E m \in maps : \A i \in Ids : OnlyInFile(i) \/ Same(m, i)
                      /\ ~HasAliases => Cardinality(maps) = 1
    BY <2>1 DEF RegistriesAgree, maps
  <2>2. ASSUME NEW i \in Ids, ~OnlyInFile(i)
        PROVE  /\ Of(i) = DecodableKeys(i, n)
               /\ \A k \in Of(i) : Document[k] = ValueAt(k, n) /\ ValueAt(k, n) \in Defs
    BY <1>1, <2>2, SameKeys
  <2>3. ASSUME NEW i \in Ids, ~OnlyInFile(i), Of(i) # {}
        PROVE  LastListed(Of(i)) \in Of(i)
    <3>1. Of(i) \subseteq Keys
      BY <2>2, <2>3 DEF DecodableKeys
    <3>2. QED
      BY <2>3, <3>1, LastListedIsListed
  <2> DEFINE l0 == [i \in Ids |-> CASE Of(i) = {} -> NoId
                                   [] Of(i) # {} /\ OnlyInFile(i) -> CHOOSE k \in Of(i) : TRUE
                                   [] OTHER -> LastListed(Of(i))]
  <2>4. \A i \in Ids : Of(i) # {} => l0[i] \in Of(i)
    BY <2>3
  <2>5. \A i \in Ids : Of(i) = {} => l0[i] = NoId
    OBVIOUS
  <2>6. \A i \in Ids : Of(i) # {} /\ ~OnlyInFile(i) => l0[i] = LastListed(Of(i))
    OBVIOUS
  <2>7. l0 = [i \in Ids |-> l0[i]]
    OBVIOUS
  <2>8. \A i \in Ids : Of(i) \subseteq DOMAIN Document
    BY DEF File!KeysOf
  <2> HIDE DEF l0, Of
  <2>9. l0 \in File!LastIterated(Document)
    BY <2>4, <2>5, <2>7, <2>8 DEF File!LastIterated, Of
  <2>10. Served(l0) \in maps
    BY <2>1, <2>9
  <2>11. ASSUME NEW i \in Ids, ~OnlyInFile(i) PROVE Same(Served(l0), i)
    <3>1. CASE Of(i) = {}
      <4>1. LoadMap(n)[i] = Absent
        BY <2>2, <2>11, <3>1 DEF LoadMap
      <4>2. Served(l0)[i] = Absent
        BY <3>1
      <4>3. QED
        BY <4>1, <4>2, StoredType
    <3>2. CASE Of(i) # {}
      <4> DEFINE v == ValueAt(LastListed(Of(i)), n)
      <4>1. v \in Defs /\ Document[l0[i]] = v
        BY <2>2, <2>3, <2>6, <2>11, <3>2
      <4>2. LoadMap(n)[i] = Stored(i, v)
        BY <2>2, <2>11, <3>2 DEF LoadMap
      <4>3. Served(l0)[i] = File!Taken(i, v)
        BY <3>2, <4>1
      <4> HIDE DEF v, Served
      <4>4. QED
        BY <4>1, <4>2, <4>3 DEF File!Taken, Stored
    <3>3. QED
      BY <3>1, <3>2
  <2>12. ASSUME ~HasAliases PROVE Cardinality(maps) = 1
    <3>1. ASSUME NEW last \in File!LastIterated(Document) PROVE Served(last) = Served(l0)
      <4>1. ASSUME NEW i \in Ids, Of(i) # {} PROVE last[i] = l0[i]
        <5>1. last[i] \in Of(i)
          BY <3>1, <4>1 DEF File!LastIterated, Of
        <5>2. l0[i] \in Of(i)
          BY <2>4, <4>1
        <5>3. \A k \in Of(i) : k \in DOMAIN Document /\ ParsedId[k] = i
          BY DEF Of, File!KeysOf
        <5>4. QED
          BY <2>12, <5>1, <5>2, <5>3 DEF HasAliases
      <4>2. QED
        BY <4>1
    <3>2. maps = {Served(l0)}
      BY <2>1, <2>10, <3>1
    <3>3. QED
      BY <3>2, FS_Singleton
  <2>13. QED
    BY <2>10, <2>11, <2>12
<1>2. TypeInv => RegistriesAgree
  BY <1>1 DEF TypeInv, TypeOK
<1>3. QED
  BY <1>2, RegistryTypeInv, PTL

-----------------------------------------------------------------------------
(* The loops over a Range response and over a batch. *)

(* The closed form of applying those of the events evs that s selects: the *)
(* last one that applies to an id wins.                                    *)
Folded(map, evs, s) ==
    [i \in Ids |-> LET rs == {j \in s : Applies(evs[j], i)}
                   IN  IF rs = {} THEN map[i] ELSE Stored(i, evs[Max(rs)].val)]

(* One more event is one more applyKV. *)
LEMMA FoldedStep ==
    ASSUME NEW map, NEW evs, NEW n \in Nat, NEW s, s \subseteq 1 .. n, s # {}
    PROVE  Folded(map, evs, s) = ApplyKV(Folded(map, evs, s \ {Max(s)}), evs[Max(s)])
<1> DEFINE x == Max(s)
           rs(i) == {j \in s : Applies(evs[j], i)}
<1>1. s \subseteq 0 .. n /\ \A y \in s : y \in Nat
  OBVIOUS
<1>2. x \in s /\ \A y \in s : y <= x
  BY <1>1, MaxOfBounded
<1> HIDE DEF x
<1>3. ASSUME NEW i \in Ids, Applies(evs[x], i)
      PROVE  Folded(map, evs, s)[i] = Stored(i, evs[x].val)
  <2>1. rs(i) \subseteq 0 .. n /\ rs(i) # {} /\ x \in rs(i)
    <3>1. x \in rs(i) /\ rs(i) \subseteq s
      BY <1>2, <1>3
    <3>2. QED
      BY <1>1, <3>1
  <2>2. Max(rs(i)) \in rs(i) /\ \A y \in rs(i) : y <= Max(rs(i))
    BY <2>1, MaxOfBounded
  <2>3. Max(rs(i)) \in s /\ x <= Max(rs(i))
    BY <2>1, <2>2
  <2>4. Max(rs(i)) = x
    <3>1. Max(rs(i)) <= x /\ Max(rs(i)) \in Nat /\ x \in Nat
      BY <1>1, <1>2, <2>3
    <3>2. QED
      BY <2>3, <3>1
  <2>5. QED
    BY <2>1, <2>4 DEF Folded
<1>4. ASSUME NEW i \in Ids, ~Applies(evs[x], i)
      PROVE  Folded(map, evs, s)[i] = Folded(map, evs, s \ {x})[i]
  <2>1. rs(i) = {j \in s \ {x} : Applies(evs[j], i)}
    BY <1>4
  <2>2. QED
    BY <2>1 DEF Folded
<1>5. QED
  BY <1>3, <1>4 DEF ApplyKV, Folded, x

(***************************************************************************)
(* The loop of the code, a fold of applyKV over the events in order, has   *)
(* this closed form.  The fold is the function that satisfies Recursion;   *)
(* the closed form does, and nothing else can: at the set with the least   *)
(* maximum where another function differed, it would agree without that    *)
(* maximum.                                                                *)
(***************************************************************************)
LEMMA LoopIsFolded ==
    ASSUME NEW map, map = [i \in Ids |-> map[i]], NEW n \in Nat, NEW evs,
           DOMAIN evs = 1 .. n
    PROVE  FoldLeft(ApplyKV, map, evs) = Folded(map, evs, 1 .. n)
<1> DEFINE Recursion(h) ==
               h = [s \in SUBSET DOMAIN evs |->
                       IF s = {} THEN map ELSE ApplyKV(h[s \ {Max(s)}], evs[Max(s)])]
           loop == CHOOSE h : Recursion(h)
           closed == [s \in SUBSET DOMAIN evs |-> Folded(map, evs, s)]
<1>1. Folded(map, evs, {}) = map
  BY DEF Folded
<1>2. ASSUME NEW s \in SUBSET (1 .. n), s # {}
      PROVE  Folded(map, evs, s) = ApplyKV(Folded(map, evs, s \ {Max(s)}), evs[Max(s)])
  BY <1>2, FoldedStep
<1>3. Recursion(closed)
  <2>1. ASSUME NEW s \in SUBSET (1 .. n)
        PROVE  Folded(map, evs, s) = IF s = {} THEN map
                                     ELSE ApplyKV(closed[s \ {Max(s)}], evs[Max(s)])
    BY <1>1, <1>2
  <2>2. QED
    BY <2>1
<1>4. Recursion(loop)
  BY <1>3, Zenon
<1>5. FoldLeft(ApplyKV, map, evs) = loop[DOMAIN evs]
  BY Zenon DEF FoldLeft, MapThenFoldSet
<1>6. ASSUME NEW s \in SUBSET (1 .. n)
      PROVE  loop[s] = IF s = {} THEN map ELSE ApplyKV(loop[s \ {Max(s)}], evs[Max(s)])
  <2> HIDE DEF loop
  <2>1. QED
    BY <1>4
<1> HIDE DEF loop
<1>7. \A s \in SUBSET (1 .. n) : loop[s] = Folded(map, evs, s)
  <2> DEFINE Bad == {s \in SUBSET (1 .. n) : loop[s] # Folded(map, evs, s)}
             Tops == {Max(s) : s \in Bad}
  <2> SUFFICES ASSUME Bad # {} PROVE FALSE
    OBVIOUS
  <2>1. \A s \in Bad : s \subseteq 1 .. n /\ s # {}
    BY <1>1, <1>6
  <2>2. ASSUME NEW s \in SUBSET (1 .. n), s # {}
        PROVE  Max(s) \in s /\ Max(s) \in Nat /\ \A y \in s : y <= Max(s)
    <3>1. s \subseteq 0 .. n
      OBVIOUS
    <3>2. Max(s) \in s /\ \A y \in s : y <= Max(s)
      BY <2>2, <3>1, MaxOfBounded
    <3>3. QED
      BY <3>1, <3>2
  <2>3. Tops \subseteq Nat /\ Tops # {}
    <3>1. \A s \in Bad : Max(s) \in Nat
      BY <2>1, <2>2
    <3> HIDE DEF Bad
    <3>2. QED
      BY <3>1
  <2>4. PICK m \in Tops : \A y \in Tops : m <= y
    BY <2>3, LeastNatural
  <2>5. PICK s \in Bad : m = Max(s)
    OBVIOUS
  <2> DEFINE t == s \ {Max(s)}
  <2>6. s \in SUBSET (1 .. n) /\ s # {} /\ t \in SUBSET (1 .. n)
    BY <2>1
  <2>7. t \notin Bad
    <3> SUFFICES ASSUME t \in Bad PROVE FALSE
      OBVIOUS
    <3>1. t # {} /\ Max(t) \in Tops
      BY <2>1
    <3>2. Max(t) \in t /\ Max(t) \in Nat
      BY <2>2, <2>6, <3>1
    <3>3. Max(t) \in s /\ Max(t) # Max(s)
      BY <3>2
    <3>4. Max(t) <= Max(s) /\ Max(s) \in Nat
      BY <2>2, <2>6, <3>3
    <3>5. Max(s) <= Max(t)
      BY <2>4, <2>5, <3>1
    <3>6. QED
      BY <3>2, <3>3, <3>4, <3>5
  <2>8. loop[t] = Folded(map, evs, t)
    BY <2>6, <2>7
  <2>9. loop[s] = ApplyKV(loop[t], evs[Max(s)])
    BY <1>6, <2>6
  <2>10. Folded(map, evs, s) = ApplyKV(Folded(map, evs, t), evs[Max(s)])
    BY <1>2, <2>6
  <2>11. QED
    BY <2>5, <2>8, <2>9, <2>10, Zenon
<1>8. QED
  BY <1>5, <1>7

(* watchLoop's loop over batch.Events. *)
LEMMA BatchLoop ==
    ASSUME log \in Seq(Writes), NEW map \in Maps, NEW n \in 0 .. Len(log), NEW f \in 1 .. n + 1
    PROVE  ApplyEvents(map, f, n) = FoldLeft(ApplyKV, map, SubSeq(log, f, n))
<1> DEFINE evs == SubSeq(log, f, n)
           m == n - f + 1
<1>1. m \in Nat /\ n \in Nat /\ f \in Nat /\ f > 0
  OBVIOUS
<1>2. DOMAIN evs = 1 .. m /\ \A j \in 1 .. m : evs[j] = log[f + j - 1]
  OBVIOUS
<1> HIDE DEF evs
<1>3. map = [i \in Ids |-> map[i]]
  BY DEF Maps
<1>4. FoldLeft(ApplyKV, map, evs) = Folded(map, evs, 1 .. m)
  BY <1>1, <1>2, <1>3, LoopIsFolded
<1>5. ASSUME NEW i \in Ids
      PROVE  ApplyEvents(map, f, n)[i] = Folded(map, evs, 1 .. m)[i]
  <2> DEFINE rs == {j \in 1 .. m : Applies(evs[j], i)}
             as == AppliedTo(i, f, n)
  <2>1. \A j \in rs : f + j - 1 \in as
    BY <1>1, <1>2 DEF AppliedTo
  <2>2. \A r \in as : r - f + 1 \in rs
    <3> SUFFICES ASSUME NEW r \in as PROVE r - f + 1 \in rs
      OBVIOUS
    <3>1. r \in f .. n /\ Applies(log[r], i)
      BY DEF AppliedTo
    <3>2. r - f + 1 \in 1 .. m /\ f + (r - f + 1) - 1 = r
      BY <1>1, <3>1
    <3>3. QED
      BY <1>2, <3>1, <3>2
  <2>3. CASE rs = {}
    <3>1. as = {}
      BY <2>2, <2>3
    <3>2. QED
      BY <2>3, <3>1 DEF ApplyEvents, Folded
  <2>4. CASE rs # {}
    <3>1. as # {} /\ as \subseteq 0 .. n /\ rs \subseteq 0 .. m /\ as \subseteq f .. n
      BY <1>1, <2>1, <2>4 DEF AppliedTo
    <3>2. Max(rs) \in rs /\ \A y \in rs : y <= Max(rs)
      BY <1>1, <2>4, <3>1, MaxOfBounded
    <3>3. Max(as) \in as /\ \A y \in as : y <= Max(as)
      BY <1>1, <3>1, MaxOfBounded
    <3>4. f + Max(rs) - 1 <= Max(as) /\ Max(as) - f + 1 <= Max(rs)
      BY <2>1, <2>2, <3>2, <3>3
    <3>5. Max(rs) \in 1 .. m /\ Max(as) \in f .. n
      BY <3>1, <3>2, <3>3
    <3>6. Max(as) = f + Max(rs) - 1
      BY <1>1, <3>4, <3>5
    <3>7. evs[Max(rs)] = log[Max(as)]
      BY <1>2, <3>5, <3>6
    <3>8. QED
      BY <2>4, <3>1, <3>7 DEF ApplyEvents, Folded
  <2>5. QED
    BY <2>3, <2>4
<1>6. QED
  BY <1>4, <1>5 DEF ApplyEvents, Folded, evs

(* Finitely many keys have a value. *)
LEMMA LiveKeysFinite ==
    ASSUME log \in Seq(Writes), NEW n \in 0 .. Len(log)
    PROVE  IsFiniteSet(LiveKeys(n))
<1> DEFINE written == {log[r].key : r \in 1 .. n}
           f == [r \in 1 .. n |-> log[r].key]
<1>1. f \in Surjection(1 .. n, written)
  BY DEF Surjection
<1>2. IsFiniteSet(1 .. n)
  BY FS_Interval
<1>3. IsFiniteSet(written)
  BY <1>1, <1>2, FS_Surjection
<1>4. LiveKeys(n) \subseteq written
  <2> SUFFICES ASSUME NEW k \in LiveKeys(n) PROVE k \in written
    OBVIOUS
  <2>1. WritesTo(k, n) # {}
    BY DEF LiveKeys, ValueAt
  <2>2. QED
    BY <2>1 DEF WritesTo
<1>5. QED
  BY <1>3, <1>4, FS_Subset

(* loadAll's loop over the pairs of a Range response. *)
LEMMA LoadLoop ==
    ASSUME log \in Seq(Writes), NEW n \in 0 .. Len(log), NEW ks \in Listings(n)
    PROVE  FoldLeft(ApplyKV, EmptyMapping.map, Pairs(ks, n)) = LoadMap(n)
<1> DEFINE c == Cardinality(LiveKeys(n))
           evs == Pairs(ks, n)
           none == EmptyMapping.map
<1>1. c \in Nat
  BY LiveKeysFinite, FS_CardinalityType
<1> HIDE DEF c
<1>2. /\ ks \in [1 .. c -> LiveKeys(n)]
      /\ \A j, m \in 1 .. c : j < m => KeyRank[ks[j]] > KeyRank[ks[m]]
      /\ \A k \in LiveKeys(n) : \E j \in 1 .. c : k = ks[j]
  BY DEF Listings, c
<1>3. /\ DOMAIN evs = 1 .. c
      /\ \A j \in 1 .. c : evs[j].key = ks[j] /\ evs[j].val = ValueAt(ks[j], n)
  BY <1>2 DEF Pairs
<1> HIDE DEF evs
<1>4. none = [i \in Ids |-> none[i]] /\ \A i \in Ids : none[i] = Absent
  BY DEF EmptyMapping
<1> HIDE DEF none
<1>5. FoldLeft(ApplyKV, none, evs) = Folded(none, evs, 1 .. c)
  BY <1>1, <1>3, <1>4, LoopIsFolded
<1>6. ASSUME NEW i \in Ids PROVE Folded(none, evs, 1 .. c)[i] = LoadMap(n)[i]
  <2> DEFINE rs == {j \in 1 .. c : Applies(evs[j], i)}
             dk == DecodableKeys(i, n)
  <2>1. \A j \in 1 .. c : ks[j] \in Keys /\ ValueAt(ks[j], n) # Absent
    BY <1>2 DEF LiveKeys
  <2>2. \A j \in 1 .. c : Applies(evs[j], i) <=> ks[j] \in dk
    <3> SUFFICES ASSUME NEW j \in 1 .. c PROVE Applies(evs[j], i) <=> ks[j] \in dk
      OBVIOUS
    <3>1. ValueAt(ks[j], n) \in Values /\ ks[j] \in Keys
      BY <2>1, ValueWritten
    <3>2. ValueAt(ks[j], n) # Malformed <=> ValueAt(ks[j], n) \in Defs
      BY <3>1, ConstantsAssumption
    <3>3. QED
      BY <1>3, <3>1, <3>2 DEF Applies, DecodableKeys
  <2>3. \A k \in dk : \E j \in rs : k = ks[j]
    <3> SUFFICES ASSUME NEW k \in dk PROVE \E j \in rs : k = ks[j]
      OBVIOUS
    <3>1. k \in LiveKeys(n)
      BY ConstantsAssumption DEF DecodableKeys, LiveKeys
    <3>2. QED
      BY <1>2, <2>2, <3>1
  <2>4. CASE rs = {}
    <3>1. dk = {}
      BY <2>3, <2>4
    <3>2. QED
      BY <1>4, <2>4, <3>1 DEF Folded, LoadMap
  <2>5. CASE rs # {}
    <3>1. rs \subseteq 0 .. c /\ rs \subseteq 1 .. c
      BY <1>1
    <3>2. Max(rs) \in rs /\ \A y \in rs : y <= Max(rs)
      BY <1>1, <2>5, <3>1, MaxOfBounded
    <3>3. ks[Max(rs)] \in dk /\ dk # {} /\ dk \subseteq Keys
      BY <2>2, <3>2 DEF DecodableKeys
    <3>4. ASSUME NEW q \in dk PROVE KeyRank[ks[Max(rs)]] <= KeyRank[q]
      <4>1. PICK j \in rs : q = ks[j]
        BY <2>3
      <4>2. j \in 1 .. c /\ Max(rs) \in 1 .. c /\ j <= Max(rs)
        BY <3>1, <3>2
      <4>3. KeyRank[q] \in Nat /\ KeyRank[ks[Max(rs)]] \in Nat
        BY <3>3, ConstantsAssumption
      <4>4. CASE j = Max(rs)
        BY <4>1, <4>3, <4>4
      <4>5. CASE j < Max(rs)
        BY <1>2, <4>1, <4>2, <4>3, <4>5
      <4>6. QED
        BY <4>2, <4>4, <4>5
    <3>5. LastListed(dk) = ks[Max(rs)]
      <4>1. LastListed(dk) \in dk /\ \A q \in dk : KeyRank[LastListed(dk)] <= KeyRank[q]
        BY <3>3, LastListedIsListed
      <4>2. KeyRank[LastListed(dk)] \in Nat /\ KeyRank[ks[Max(rs)]] \in Nat
        BY <3>3, <4>1, ConstantsAssumption
      <4>3. KeyRank[LastListed(dk)] = KeyRank[ks[Max(rs)]]
        <5>1. KeyRank[LastListed(dk)] <= KeyRank[ks[Max(rs)]]
          BY <3>3, <4>1
        <5>2. KeyRank[ks[Max(rs)]] <= KeyRank[LastListed(dk)]
          BY <3>4, <4>1
        <5> HIDE DEF rs, dk
        <5>3. QED
          BY <4>2, <5>1, <5>2
      <4>4. QED
        BY <3>3, <4>1, <4>3, OrderAssumption
    <3>6. evs[Max(rs)].val = ValueAt(ks[Max(rs)], n)
      BY <1>3, <3>1, <3>2
    <3>7. QED
      BY <2>5, <3>3, <3>5, <3>6 DEF Folded, LoadMap
  <2>6. QED
    BY <2>4, <2>5
<1>7. QED
  BY <1>5, <1>6 DEF Folded, LoadMap, evs, none

(***************************************************************************)
(* Any finite set of keys can be listed in key order: the last key of a    *)
(* set goes behind a listing of the others.  So Listings is never empty.   *)
(***************************************************************************)
InOrder(T, ks) ==
    /\ ks \in [1 .. Cardinality(T) -> T]
    /\ \A j, m \in DOMAIN ks : j < m => KeyRank[ks[j]] > KeyRank[ks[m]]
    /\ T \subseteq {ks[j] : j \in DOMAIN ks}

(* The step: a listing of the keys before the last one extends to all. *)
LEMMA ListedBehind ==
    ASSUME NEW T \in SUBSET Keys, IsFiniteSet(T), T # {},
           NEW ks, InOrder(T \ {LastListed(T)}, ks)
    PROVE  \E all : InOrder(T, all)
<1> DEFINE x == LastListed(T)
           U == T \ {x}
           d == Cardinality(U)
           all == [j \in 1 .. d + 1 |-> IF j = d + 1 THEN x ELSE ks[j]]
<1>1. x \in T /\ \A q \in T : KeyRank[x] <= KeyRank[q]
  BY LastListedIsListed
<1> HIDE DEF x
<1>2. d \in Nat /\ Cardinality(T) = d + 1
  <2>1. IsFiniteSet(U) /\ Cardinality(U) = Cardinality(T) - 1
    BY <1>1, FS_RemoveElement
  <2>2. Cardinality(U) \in Nat /\ Cardinality(T) \in Nat
    BY <2>1, FS_CardinalityType
  <2>3. QED
    BY <2>1, <2>2
<1>3. /\ ks \in [1 .. d -> U]
      /\ \A j, m \in 1 .. d : j < m => KeyRank[ks[j]] > KeyRank[ks[m]]
      /\ \A k \in U : \E j \in 1 .. d : k = ks[j]
  BY DEF InOrder, x
<1> HIDE DEF d
<1>4. all \in [1 .. d + 1 -> T] /\ DOMAIN all = 1 .. d + 1
  BY <1>1, <1>2, <1>3
<1>5. ASSUME NEW j \in 1 .. d + 1, NEW m \in 1 .. d + 1, j < m
      PROVE  KeyRank[all[j]] > KeyRank[all[m]]
  <2>1. j \in 1 .. d /\ all[j] = ks[j] /\ ks[j] \in U
    BY <1>2, <1>3, <1>5
  <2>2. CASE m = d + 1
    <3>1. all[m] = x /\ KeyRank[x] <= KeyRank[ks[j]] /\ ks[j] # x
      BY <1>1, <1>2, <2>1, <2>2
    <3>2. KeyRank[x] \in Nat /\ KeyRank[ks[j]] \in Nat
      BY <1>1, <2>1, ConstantsAssumption
    <3>3. KeyRank[x] # KeyRank[ks[j]]
      BY <1>1, <2>1, <3>1, OrderAssumption
    <3> HIDE DEF all, U
    <3>4. QED
      BY <2>1, <3>1, <3>2, <3>3
  <2>3. CASE m # d + 1
    <3>1. m \in 1 .. d /\ all[m] = ks[m]
      BY <1>2, <2>3
    <3>2. QED
      BY <1>3, <1>5, <2>1, <3>1
  <2>4. QED
    BY <2>2, <2>3
<1>6. ASSUME NEW k \in T PROVE \E j \in 1 .. d + 1 : k = all[j]
  <2>1. CASE k = x
    BY <1>2, <2>1
  <2>2. CASE k # x
    <3>1. PICK j \in 1 .. d : k = ks[j]
      BY <1>3, <2>2
    <3>2. j \in 1 .. d + 1 /\ all[j] = ks[j]
      BY <1>2
    <3>3. QED
      BY <3>1, <3>2
  <2>3. QED
    BY <2>1, <2>2
<1>7. InOrder(T, all)
  <2> HIDE DEF all, U
  <2>1. QED
    BY <1>2, <1>4, <1>5, <1>6 DEF InOrder
<1>8. QED
  BY <1>7

(* Every finite set of keys has a listing: a least one without would have  *)
(* a last key, and the keys before it a listing.                           *)
LEMMA ListingExists ==
    ASSUME NEW S \in SUBSET Keys, IsFiniteSet(S)
    PROVE  \E ks : InOrder(S, ks)
<1> DEFINE Bad == {T \in SUBSET S : ~ \E ks : InOrder(T, ks)}
           Sizes == {Cardinality(T) : T \in Bad}
<1> SUFFICES ASSUME S \in Bad PROVE FALSE
  OBVIOUS
<1>1. \A T \in SUBSET S : IsFiniteSet(T) /\ Cardinality(T) \in Nat
  BY FS_Subset, FS_CardinalityType
<1>2. Sizes \subseteq Nat /\ Sizes # {}
  BY <1>1
<1>3. PICK c \in Sizes : \A d \in Sizes : c <= d
  BY <1>2, LeastNatural
<1>4. PICK T \in Bad : c = Cardinality(T)
  OBVIOUS
<1>5. T # {}
  <2> SUFFICES ASSUME T = {} PROVE FALSE
    OBVIOUS
  <2>1. Cardinality(T) = 0
    BY FS_EmptySet
  <2>2. [j \in 1 .. 0 |-> 0] \in [1 .. Cardinality(T) -> T]
    BY <2>1
  <2>3. InOrder(T, [j \in 1 .. 0 |-> 0])
    BY <2>1, <2>2 DEF InOrder
  <2>4. QED
    BY <2>3
<1>6. T \in SUBSET Keys /\ IsFiniteSet(T)
  BY <1>1
<1> DEFINE x == LastListed(T)
           U == T \ {x}
<1>7. x \in T
  BY <1>5, <1>6, LastListedIsListed
<1> HIDE DEF x
<1>8. Cardinality(U) = Cardinality(T) - 1 /\ U \in SUBSET S
  BY <1>6, <1>7, FS_RemoveElement
<1>9. U \notin Bad
  <2>1. U \in Bad => Cardinality(T) <= Cardinality(U)
    BY <1>3, <1>4
  <2>2. Cardinality(T) \in Nat /\ Cardinality(U) \in Nat
    BY <1>1, <1>8
  <2> HIDE DEF U, Bad
  <2>3. QED
    BY <1>8, <2>1, <2>2
<1>10. PICK ks : InOrder(U, ks)
  BY <1>8, <1>9
<1>11. \E all : InOrder(T, all)
  BY <1>5, <1>6, <1>10, ListedBehind DEF x
<1>12. QED
  BY <1>11

(***************************************************************************)
(* In every reachable state the loops of the code compute the closed forms *)
(* the model uses for them, at every revision: the loop of loadAll over    *)
(* the pairs of a Range response computes LoadMap, and the loop of         *)
(* watchLoop over a batch computes ApplyEvents.                            *)
(***************************************************************************)
THEOREM RegistryLoopsAgree == Spec => []LoopsAgree
<1>1. ASSUME log \in Seq(Writes), NEW n \in 0 .. Len(log)
      PROVE  {FoldLeft(ApplyKV, EmptyMapping.map, Pairs(ks, n)) : ks \in Listings(n)}
                = {LoadMap(n)}
  <2>1. \A ks \in Listings(n) :
           FoldLeft(ApplyKV, EmptyMapping.map, Pairs(ks, n)) = LoadMap(n)
    BY <1>1, LoadLoop
  <2>2. \E ks : InOrder(LiveKeys(n), ks)
    BY <1>1, LiveKeysFinite, ListingExists DEF LiveKeys
  <2>3. Listings(n) # {}
    BY <2>2 DEF InOrder, Listings
  <2>4. QED
    BY <2>1, <2>3
<1>2. ASSUME log \in Seq(Writes), NEW n \in 0 .. Len(log), NEW f \in 1 .. n + 1
      PROVE  ApplyEvents(LoadMap(f - 1), f, n)
                = FoldLeft(ApplyKV, LoadMap(f - 1), SubSeq(log, f, n))
  BY <1>2, LoadMapTypes, BatchLoop
<1>3. TypeInv => LoopsAgree
  BY <1>1, <1>2 DEF TypeInv, TypeOK, LoopsAgree
<1>4. QED
  BY <1>3, RegistryTypeInv, PTL
=============================================================================
