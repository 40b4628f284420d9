CONSTANTS
    Calls = {c1, c2, c3, c4}
    Detached = {c4}
    FailureThreshold = 3
    ResetTimeout = 2
SPECIFICATION FairSpec
INVARIANTS
    ClosedIffBelowThreshold
PROPERTIES
    CooldownHonoured
    Recovers
