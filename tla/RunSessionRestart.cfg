SPECIFICATION FairSpec
CONSTANTS
    MaxPipes = 2
    MaxRuns = 3
    Persist = TRUE
    HasCwd = FALSE
    MayExpire = TRUE
    MayRestart = TRUE
    MayRerun = FALSE
PROPERTY
    IndexSettles
