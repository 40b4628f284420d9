CONSTANTS
    Keys = {"buckets/1"}
    Foreign = "elsewhere"
    Ids = {"b"}
    NoId = "none"
    IdOf <- PlainIdOf
    KeyRank <- RangeOrder
    Defs = {"d1", "d1 filled in"}
    Completed <- FilledIn
    Malformed = "malformed"
    Values = {"d1", "malformed"}
    Absent = "absent"
    NoMapping = NoMapping
    Reconciling = TRUE
    DelayedHeaders = TRUE
    Compacting = TRUE
    MaxRev = 2
SPECIFICATION ReconcileSpec
CHECK_DEADLOCK FALSE
INVARIANTS
    TypeOK
    NeverBehindStart
PROPERTIES
    Converges
    WatchKeepsUpUncompacted
    ShutsDown
