\* Liveness: every read and write returns; two descriptors on a 4-byte file, UNDO, 2 calls of up to 2 bytes.
CONSTANTS
    PageShift = 1
    LmdShift = 2
    FileSize = 4
    MaxLen = 2
    MaxOps = 2
    MaxPasses = 1
    EpochBits = 2
    DefaultPolicy = 0
    t1 = t1
    t2 = t2
    Threads <- MCThreads
    Ckpt = Ckpt
    None = None
    NoRec = NoRec
    Junk = Junk
    InitFsize = {4}
SPECIFICATION Spec
PROPERTIES IoCompletes
CHECK_DEADLOCK FALSE
