CONSTANTS
    Keys = {"buckets/01", "buckets/1", "buckets/1x", "shards/s", "version"}
    Foreign = "elsewhere"
    Ids = {"s", "b"}
    ShardIds = {"s"}
    BucketKeys = {"buckets/01", "buckets/1", "buckets/1x"}
    NoId = "none"
    IdOf <- AliasIdOf
    ParsedId <- FileId
    KeyRank <- RangeOrder
    Defs = {"d1", "d2", "d1 of s", "d1 of b", "d2 of b"}
    Completed <- FilledIn
    Malformed = "malformed"
    Values = {"d1", "d2", "malformed"}
    Absent = "absent"
    NoMapping = NoMapping
    Reconciling = FALSE
    DelayedHeaders = FALSE
    Compacting = FALSE
    MaxByte = 2
    MaxKeyLen = 3
    BytesOf <- StoredBytes
    MaxRev = 4
SPECIFICATION LogSpec
CHECK_DEADLOCK FALSE
INVARIANTS
    LoopsAgree
    RegistriesAgree
    RangeIsPrefix
