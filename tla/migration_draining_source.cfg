CONSTANTS
    ShardIds = {s1, s2}
    BucketIds = {"b1"}
    Replicated = {s2}
    SetStatuses = {"ACTIVE", "MAINTENANCE", "DRAINING", "RETIRED"}
    NoShard = NoShard
    NoReader = NoReader
    Absent = Absent
    NoMapping = NoMapping
SPECIFICATION Spec
CHECK_DEADLOCK FALSE
INVARIANT DrainingSourceServes
