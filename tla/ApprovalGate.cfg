SPECIFICATION FairSpec
CONSTANTS
    Nodes = {x}
    MaxRounds = 3
    MaxAsks = 2
    None = None
INVARIANTS
    OneLiveRound
    RegisteredOpen
    LoneAskKept
PROPERTY LoneAskAnswered
CHECK_DEADLOCK FALSE
