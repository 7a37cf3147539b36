CONSTANTS
    MaxSeq = 3
    MaxAttempts <- Attempts
    MaxEpoch = 2
SPECIFICATION OutboxSpec
INVARIANT InOrder
INVARIANT StaleClaimsAreDead
PROPERTY UncertaintyIsContinuous
PROPERTY RefinesEffectStream
CHECK_DEADLOCK FALSE
