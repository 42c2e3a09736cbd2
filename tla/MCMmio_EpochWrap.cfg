\* A 1-bit epoch field: two fsyncs wrap it.
CONSTANTS
    PageShift = 1
    LmdShift = 2
    FileSize = 4
    MaxLen = 1
    MaxOps = 3
    MaxPasses = 1
    EpochBits = 1
    DefaultPolicy = 0
    t1 = t1
    t2 = t2
    Threads <- MCOneThread
    Ckpt = Ckpt
    None = None
    NoRec = NoRec
    Junk = Junk
    InitFsize = {0}
SPECIFICATION Spec
PROPERTIES CheckpointSparesCurrentEpoch
CHECK_DEADLOCK FALSE
