--------------------------- MODULE MCRegistryLoads --------------------------
(***************************************************************************)
(* What the registries compute from a key-space, for every short history.  *)
(***************************************************************************)
EXTENDS RegistryLoads

(* buckets/01 and buckets/1 are two keys of the same bucket to Atoi. *)
AliasIdOf == [k \in Keys |-> CASE k = "shards/s" -> "s"
                               [] k \in {"buckets/01", "buckets/1"} -> "b"
                               [] OTHER -> NoId]

(* Sscanf reads buckets/1x as well. *)
FileId == [k \in Keys |-> IF k = "buckets/1x" THEN "b" ELSE AliasIdOf[k]]

(* d1 leaves its ids empty, d2 names its shard. *)
FilledIn == [i \in Ids |-> [d \in Defs |-> CASE i = "s" /\ d = "d1" -> "d1 of s"
                                              [] i = "b" /\ d = "d1" -> "d1 of b"
                                              [] i = "b" /\ d = "d2" -> "d2 of b"
                                              [] OTHER -> d]]

RangeOrder == [k \in Keys |-> CASE k = "buckets/01" -> 4
                                [] k = "buckets/1" -> 3
                                [] k = "buckets/1x" -> 2
                                [] k = "shards/s" -> 1
                                [] OTHER -> 0]

(* Keys on both sides of, and right at, the limits of possible prefixes. *)
StoredBytes ==
    [k \in Keys \cup {Foreign} |->
        CASE k = "shards/s"   -> <<1, MaxByte>>
          [] k = "buckets/1"  -> <<1, MaxByte, MaxByte>>
          [] k = "buckets/01" -> <<1, MaxByte, 0>>
          [] k = "buckets/1x" -> <<1, MaxByte, MaxByte, 0>>
          [] k = "version"    -> <<MaxByte, MaxByte>>
          [] OTHER            -> <<MaxByte>>]
=============================================================================
