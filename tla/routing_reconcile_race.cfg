CONSTANTS
    Keys = {"A", "B", "b1"}
    Foreign = "elsewhere"
    Ids = {"A", "B", "b1"}
    ShardIds = {"A", "B"}
    BucketIds = {"b1"}
    NoId = NoId
    NoShard = NoShard
    NoReader = NoReader
    IdOf <- RoutingIdOf
    KeyRank <- RoutingRank
    Defs <- RoutingDefs
    Completed <- RoutingCompleted
    Values <- RoutingDefs
    Malformed = Malformed
    Absent = Absent
    NoMapping = NoMapping
    Reconciling = TRUE
    DelayedHeaders = FALSE
    Compacting = FALSE
    MaxRev = 2
SPECIFICATION HealthySpec
CHECK_DEADLOCK FALSE
INVARIANT HealthyResolves
