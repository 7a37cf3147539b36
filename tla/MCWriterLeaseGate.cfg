CONSTANTS
    w1 = w1
    w2 = w2
    Writers = {w1, w2}
    Waiters = {w2}
    Mutators = {}
    LeaseDuration = 3
    StaleMs = 1
    MaxWaitMs = 2
    StartTime = 1
    MaxTime = 4
    MaxLag = 0
    MaxEpoch = 2
    MaxCrashes = 1
    NoWriter = NoWriter
    NoLease = NoLease
    NoBeat = NoBeat
    NoBound = NoBound
SPECIFICATION FairSpec
PROPERTY GateEnds
PROPERTY Failover
CHECK_DEADLOCK FALSE
