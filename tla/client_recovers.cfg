CONSTANTS
    NumEndpoints = 3
    MaxExpiries = 2
SPECIFICATION FairSpec
INVARIANT
    RecoversByTheSecond
PROPERTIES
    ReconcileRecovers
    WatchRecovers
