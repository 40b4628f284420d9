--------------------------- MODULE MCEtcdRegistry ---------------------------
(* Small instances of EtcdRegistry for TLC. *)
EXTENDS EtcdRegistry

(* Two ids with one key each and a key that applyKV ignores. *)
PlainIdOf == [k \in Keys |-> CASE k = "shards/s" -> "s"
                               [] k = "buckets/1" -> "b"
                               [] OTHER -> NoId]

(* d1 leaves its id empty. *)
FilledIn == [i \in Ids |-> [d \in Defs |-> IF d = "d1" THEN "d1 filled in" ELSE d]]

(* buckets/1 precedes shards/s in a Range response. *)
RangeOrder == [k \in Keys |-> CASE k = "buckets/1" -> 2
                                [] k = "shards/s" -> 1
                                [] OTHER -> 0]
=============================================================================
