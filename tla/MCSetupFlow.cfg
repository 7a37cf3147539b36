CONSTANTS
    p1 = p1
    p2 = p2
    Processes = {p1, p2}
    Nobody = Nobody
    Partial = Partial
    MaxChecks = 2
    MaxStarts = 3
    MaxCrashes = 2
SPECIFICATION Spec
SYMMETRY Whoever
INVARIANT KeyCreatedOnce
INVARIANT SpreadsheetCreatedOnce
INVARIANT CrashStrandsNoKey
INVARIANT FreshnessKept
INVARIANT EnvIsBacked
PROPERTY CopyStaysInReach
CHECK_DEADLOCK FALSE
