CONSTANTS
    Keys = {"shards/s"}
    Foreign = "elsewhere"
    Ids = {"s", "b"}
    NoId = "none"
    IdOf <- PlainIdOf
    KeyRank <- RangeOrder
    Defs = {"d1", "d1 filled in"}
    Completed <- FilledIn
    Malformed = "malformed"
    Values = {"d1"}
    Absent = "absent"
    NoMapping = NoMapping
    Reconciling = TRUE
    DelayedHeaders = FALSE
    Compacting = TRUE
    MaxRev = 2
SPECIFICATION FairSpec
CHECK_DEADLOCK FALSE
PROPERTY WatchKeepsUp
