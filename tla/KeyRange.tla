------------------------------ MODULE KeyRange ------------------------------
(***************************************************************************)
(* getPrefixRangeEnd of internal/registry/etcdhttp.go: the end of the key  *)
(* range that Range and Watch ask etcd for.  A key is a sequence of bytes. *)
(***************************************************************************)
EXTENDS Integers, Sequences

CONSTANTS
    MaxByte,     \* 0xff
    MaxKeyLen    \* bound on the keys that are looked at

Bytes == 0 .. MaxByte

ByteKeys == UNION {[1 .. n -> Bytes] : n \in 1 .. MaxKeyLen}

(* Faulty: the last byte is incremented whatever it is. *)
IncrementableAny(prefix) == DOMAIN prefix

(* The positions of bytes that can be incremented. *)
Incrementable(prefix) == {n \in DOMAIN prefix : prefix[n] < MaxByte}

GetPrefixRangeEnd(prefix) ==
    IF Incrementable(prefix) = {} THEN <<0>>
    ELSE LET i == CHOOSE n \in Incrementable(prefix) :
                      \A k \in Incrementable(prefix) : k <= n
         IN  [SubSeq(prefix, 1, i) EXCEPT ![i] = (prefix[i] + 1) % (MaxByte + 1)]

(* etcd orders keys bytewise; the range end <<0>> stands for no end. *)
KeyLess(a, b) ==
    \E n \in 0 .. Len(a) :
        /\ n < Len(b) /\ SubSeq(a, 1, n) = SubSeq(b, 1, n)
        /\ n = Len(a) \/ a[n + 1] < b[n + 1]

InRange(key, first, end) == ~KeyLess(key, first) /\ (end = <<0>> \/ KeyLess(key, end))

HasPrefix(key, prefix) ==
    Len(key) >= Len(prefix) /\ SubSeq(key, 1, Len(prefix)) = prefix
=============================================================================
