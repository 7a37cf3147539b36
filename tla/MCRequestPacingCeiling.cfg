CONSTANTS
    r1 = r1  r2 = r2  r3 = r3  r4 = r4
    Requests <- FourRequests
    Mixes <- AllWrites
    SlotCount = 1
    Interval = 1
    MaxWait = 4
    ReadBudget = 2
    WriteBudget = 2
    Window = 4
    Growth = 2
    MaxMult = 4
    StepFactor = 2
    QuietStarts = 2
    QuietMs = 2
    LastBegin = 6
    MaxClock = 10
    MaxLate = 0
SPECIFICATION Spec
SYMMETRY Symmetric
INVARIANTS PerWindowCeiling
CHECK_DEADLOCK FALSE
