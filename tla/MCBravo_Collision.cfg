CONSTANTS
    t1 = t1
    t2 = t2
    t3 = t3
    l1 = l1
    l2 = l2
    NULL = NULL
    Threads <- MCThreads
    Locks <- MCLocks
    NrSlots = 3
    Hash <- CollidingHash

SPECIFICATION Spec



PROPERTY ImplementsRWLock
