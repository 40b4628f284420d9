CONSTANTS
    Calls = {c1, c2, c3}
    Detached = {c2}
    Endpoints = {"rw", "ro"}
    EndpointOf <- CallEndpoints
    PoolIds = {1, 2, 3}
    NoPool = 0
    MaxConns = 1
    c1 = c1
    c2 = c2
    c3 = c3
SPECIFICATION FairSpec
INVARIANTS
    NoPoolLeaks
    MappedPoolsOpen
    ConnsBounded
PROPERTIES
    IdlePoolsClosed
    CloseReturns
