\* Safety: two descriptors, UNDO logging, 4 calls of up to 2 bytes, one checkpoint pass.
CONSTANTS
    PageShift = 1
    LmdShift = 2
    FileSize = 4
    MaxLen = 2
    MaxOps = 4
    MaxPasses = 1
    EpochBits = 2
    DefaultPolicy = 0
    t1 = t1
    t2 = t2
    Threads <- MCThreads
    Ckpt = Ckpt
    None = None
    NoRec = NoRec
    Junk = Junk
    InitFsize = {0}
SPECIFICATION Spec
INVARIANTS TypeOK HeldEntriesLocked
PROPERTIES NoUnlockedModification CheckpointSparesCurrentEpoch FsizeNeverShrinks
CHECK_DEADLOCK FALSE
SYMMETRY ThreadSymmetry
