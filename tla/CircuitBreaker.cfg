SPECIFICATION BreakerSpec
CONSTANTS
    Callers = {c1, c2, c3}
    Timeout = 2
    Window = 3
INVARIANTS
    ProbesAlone
    SlotInUse
PROPERTY
    KeepsTrying
CHECK_DEADLOCK FALSE
