SPECIFICATION Spec
CONSTANTS
    a = a
    b = b
    c = c
    d = d
    Nodes = {a, b, c, d}
    Workflows <- SmallWorkflows
    MaxChunks = 2
INVARIANTS
    TypeOK
    RunsInOrder
    NothingForgotten
PROPERTY
    StreamEnds
CHECK_DEADLOCK FALSE
