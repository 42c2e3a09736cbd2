\* Two descriptors on one inode; NR_MMIO_FILL = 2, MAX_SKIP_NODES = 1.
CONSTANTS
    t1 = t1
    t2 = t2
    i1 = i1
    Pool = Pool
    NoIno = NoIno
    NULL = NULL
    Threads <- MCThreads
    Inos <- MCInos
    NrObjs = 4
    SkipUnit = 2
    MaxSkipNodes = 1
    MmapSize = 1

SPECIFICATION Spec

INVARIANTS
    OpenFilesUseLiveMmio

SYMMETRY Symmetry

\* The process exits when get_new_mmio finds the pool empty.
CHECK_DEADLOCK FALSE
