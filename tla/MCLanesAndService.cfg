CONSTANTS
    Calls = {c1, c2, c3}
    NLanes = 3
    Closers = {k1, k2}
    MaxFlushes = 1
SPECIFICATION PartsSpec
INVARIANTS LaneHasOneHolder CloseInOrder
PROPERTIES CallsEnd CloseEnds WorkGoesOn
CHECK_DEADLOCK FALSE
