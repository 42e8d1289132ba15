SPECIFICATION Spec
CONSTANTS
    Views = {}
    Waiters = {}
    Cards = {c1}
    Rows = {r1}
    Emits <- CardFrames
    Outcomes = {"succeeded"}
    MaxEvents = 3
    MaxId = 4
    MaxRuns = 2
    MaxUnlinks = 0
    Persist = TRUE
    MayRestart = TRUE
    DiskFails = FALSE
    RecordsExit = FALSE
PROPERTIES
    EndsSettled
    EndsOnce
CHECK_DEADLOCK FALSE
