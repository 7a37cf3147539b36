CONSTANTS
    w1 = w1
    w2 = w2
    Writers = {w1, w2}
    Waiters = {}
    Mutators = {w1, w2}
    LeaseDuration = 3
    StaleMs = 1
    MaxWaitMs = 2
    StartTime = 1
    MaxTime = 5
    MaxLag = 1
    MaxEpoch = 3
    MaxCrashes = 1
    NoWriter = NoWriter
    NoLease = NoLease
    NoBeat = NoBeat
    NoBound = NoBound
SPECIFICATION Spec
SYMMETRY WriterSymmetry
INVARIANT EpochHasOneWriter
INVARIANT GracefulHandoff
PROPERTY LiveOwnerKeepsLease
PROPERTY RefinesFencedRole
CHECK_DEADLOCK FALSE
