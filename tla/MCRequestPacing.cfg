CONSTANTS
    r1 = r1  r2 = r2  r3 = r3  r4 = r4
    Requests <- FourRequests
    Mixes <- Bursts
    SlotCount = 2
    Interval = 2
    MaxWait = 2
    ReadBudget = 2
    WriteBudget = 1
    Window = 3
    Growth = 2
    MaxMult = 2
    StepFactor = 2
    QuietStarts = 2
    QuietMs = 3
    LastBegin = 1
    MaxClock = 5
    MaxLate = 0
SPECIFICATION Spec
SYMMETRY Symmetric
INVARIANTS WindowBudget ReservationsAreStarts WaitBounded StartsSpaced NoLostWaiter
CHECK_DEADLOCK FALSE
