SPECIFICATION Spec
CONSTANTS
    Views = {v1, v2}
    Waiters = {w1}
    Cards = {}
    Rows = {}
    Emits <- PlainFrames
    Outcomes = {"succeeded"}
    MaxEvents = 2
    MaxId = 4
    MaxRuns = 2
    MaxUnlinks = 1
    Persist = FALSE
    MayRestart = FALSE
    DiskFails = FALSE
    RecordsExit = TRUE
INVARIANTS
    NoMissedRecord
    ExactlyOnce
    NobodyHangs
    RingBounded
SYMMETRY ViewSymmetry
CHECK_DEADLOCK FALSE
