SPECIFICATION Spec
CONSTANTS
    Turns = {t1, t2}
    Sessions = {s1, s2}
    Requests = {r1, r2, r3}
    None = None
    MaxRounds = 2
    MaxCalls = 2
SYMMETRY Symmetry
INVARIANTS
    SettledOnce
    AbortAnswers
    HistoryPaired
PROPERTY
    OnlyApproved
CHECK_DEADLOCK FALSE
