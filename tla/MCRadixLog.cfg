\* Two threads, calls at offsets in three leaf tables (two under one LMD),
\* lengths of one or two bytes; 2 chain tables + 2 LMD + 3 TABLE + 2 losers.
CONSTANTS
    PageShift = 0
    LmdShift = 1
    IndexBits = 1
    FileSize = 8
    Offsets = {0, 2, 4}
    Lens = {1, 2}
    MaxTables = 9
    MaxCalls = 2
    t1 = t1
    t2 = t2
    Threads <- MCThreads
SPECIFICATION Spec
INVARIANTS TypeOK HeldTablesLinked LogSizeAgreed
SYMMETRY ThreadSymmetry
\* Each thread stops after MaxCalls calls.
CHECK_DEADLOCK FALSE
