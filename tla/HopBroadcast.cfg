SPECIFICATION HopSpec
CONSTANTS
    Hops = {h1, h2}
    Outcomes = {"done", "aborted"}
    MaxCalls = 2
INVARIANTS
    FrameFirst
    NothingLeftOpen
PROPERTY
    SettledShown
CHECK_DEADLOCK FALSE
