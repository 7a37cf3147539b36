CONSTANTS
    w1 = w1
    w2 = w2
    Workers = {w1, w2}
    Nobody = Nobody
    EditValues <- Edits
    MaxEdits = 1
    MaxCrashes = 2
    LateWrites = FALSE
    MaxSeq = 2
    MaxAttempts <- Claims
    MaxEpoch = 2
SPECIFICATION DeliverySpec
SYMMETRY WorkerSymmetry
INVARIANT LandsOnceInOrder
INVARIANT PreparedPlanIsCurrent
INVARIANT AppliedHasReceipt
PROPERTY RefinesOutbox
CHECK_DEADLOCK FALSE
