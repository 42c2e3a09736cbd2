\* Two threads, a pool of 3 batches of 2 objects, MAX_SKIP_NODES = 2.
CONSTANTS t1 = t1
t2 = t2
Pool = Pool
Threads <- MCThreads
NrObjs = 6
SkipUnit = 2
MaxSkipNodes = 2
SPECIFICATION Spec
INVARIANTS TypeOK OwnedOnce SkipMarksBatches CollectorRetention
SYMMETRY ThreadSymmetry
CHECK_DEADLOCK FALSE
