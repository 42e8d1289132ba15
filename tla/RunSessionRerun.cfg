SPECIFICATION FairSpec
CONSTANTS
    MaxPipes = 2
    MaxRuns = 3
    Persist = FALSE
    HasCwd = TRUE
    MayExpire = FALSE
    MayRestart = FALSE
    MayRerun = TRUE
INVARIANTS
    OneSpender
    OwnFrames
PROPERTIES
    ExecutesOnce
    RunsEnd
CHECK_DEADLOCK FALSE
