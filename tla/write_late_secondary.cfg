CONSTANTS
    ShardIds = {s1, s2}
    BucketIds = {"b1"}
    Bucket = "b1"
    Replicated = {s2}
    SetStatuses = {"ACTIVE", "DRAINING"}
    NoShard = NoShard
    NoReader = NoReader
    Absent = Absent
    NoMapping = NoMapping
    Writers = {w1, w2}
    Readers = {r1}
    NoWrite = NoWrite
SPECIFICATION WriteSpec
INVARIANT
    AuthoritativeDespiteSecondaries
