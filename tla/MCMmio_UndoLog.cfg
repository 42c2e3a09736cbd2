\* One thread, two one-byte writes, UNDO policy.
CONSTANTS
    PageShift = 1
    LmdShift = 2
    FileSize = 4
    MaxLen = 1
    MaxOps = 2
    MaxPasses = 0
    EpochBits = 2
    DefaultPolicy = 0
    t1 = t1
    t2 = t2
    Threads <- MCOneThread
    Ckpt = Ckpt
    None = None
    NoRec = NoRec
    Junk = Junk
    InitFsize = {0}
SPECIFICATION Spec
INVARIANTS UndoLogHoldsCommittedBytes
CHECK_DEADLOCK FALSE
