SPECIFICATION Spec
CONSTANTS
    MaxSaves = 3
    MaxRemoves = 2
    MayCrash = TRUE
    Writes = {w1}
    Inode = {i1, i2, i3}
    NoSnap = NoSnap
    NoInode = NoInode
    DiskFails = TRUE
INVARIANT
    FileWhole
PROPERTY
    ImplementsCell
CHECK_DEADLOCK FALSE
