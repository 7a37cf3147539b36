CONSTANTS
    w1 = w1
    w2 = w2
    Workers = {w1, w2}
    Nobody = Nobody
    EditValues <- Edits
    MaxEdits = 0
    MaxCrashes = 1
    LateWrites = TRUE
    MaxSeq = 2
    MaxAttempts <- Claims
    MaxEpoch = 2
SPECIFICATION FairDeliverySpec
PROPERTY ClaimsEnd
CHECK_DEADLOCK FALSE
