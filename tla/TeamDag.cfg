SPECIFICATION Spec
CONSTANTS
    dev = dev
    qa = qa
    sec = sec
    ops = ops
    None = None
    Members <- FourMembers
    Teams <- SmallTeams
    Limit = 2
    MaxFaults = 1
INVARIANTS
    ReworkBounded
    HandoversSettled
PROPERTIES
    DoneMeansOk
    NoCallAfterCancel
    RunEnds
CHECK_DEADLOCK FALSE
