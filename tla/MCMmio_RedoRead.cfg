\* One thread, REDO policy: two writes then a read.
CONSTANTS
    PageShift = 1
    LmdShift = 2
    FileSize = 4
    MaxLen = 2
    MaxOps = 3
    MaxPasses = 0
    EpochBits = 2
    DefaultPolicy = 1
    t1 = t1
    t2 = t2
    Threads <- MCOneThread
    Ckpt = Ckpt
    None = None
    NoRec = NoRec
    Junk = Junk
    InitFsize = {0}
SPECIFICATION Spec
INVARIANTS ReadSeesLatestWrites
CHECK_DEADLOCK FALSE
