\* A checkpoint pass over a freshly opened file.
CONSTANTS
    PageShift = 1
    LmdShift = 2
    FileSize = 4
    MaxLen = 1
    MaxOps = 1
    MaxPasses = 1
    EpochBits = 2
    DefaultPolicy = 0
    t1 = t1
    t2 = t2
    Threads <- MCOneThread
    Ckpt = Ckpt
    None = None
    NoRec = NoRec
    Junk = Junk
    InitFsize = {0}
SPECIFICATION Spec
INVARIANTS CheckpointNeverScansUnsizedTable
CHECK_DEADLOCK FALSE
