CONSTANTS
    Fields = {f1, f2}
    Values = {a, b}
    FullScans = TRUE
    MaxFlushes = 2
    MaxEdits = 2
    MaxConflicts = 3
    MaxFaults = 1
SYMMETRY Symmetry
SPECIFICATION Spec
INVARIANTS ConflictTracksCanonical NewestRowIsCurrent
PROPERTIES EditsReplaceWhatTheyShowUnlessOvertaken FlushesOverwriteRecordedCells CellsNeverGoBack
CHECK_DEADLOCK FALSE
