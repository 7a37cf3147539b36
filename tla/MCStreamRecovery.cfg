CONSTANTS
    Projections = {"user_input", "system_state"}
    SharedLoop = TRUE
    FullScans = TRUE
    Values = {1, 2}
    MaxSeq = 5
    MaxFlushes = 2
    Backlog = 2
    MaxEdits = 1
    MaxFaults = 1
SPECIFICATION FairSpec
INVARIANTS QueuedGuardsMatch ConfirmedIsVisible RevisionsChain
PROPERTY DriftIsRepaired
CHECK_DEADLOCK FALSE
