CONSTANTS
    Fields = {f1, f2}
    Values = {a, b}
    FullScans = FALSE
    MaxFlushes = 2
    MaxEdits = 2
    MaxConflicts = 2
    MaxFaults = 0
SYMMETRY Symmetry
SPECIFICATION Spec
PROPERTIES EditsReplaceWhatTheyShow
CHECK_DEADLOCK FALSE
