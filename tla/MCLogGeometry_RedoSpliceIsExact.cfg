CONSTANTS
    PageShift = 1
    LmdShift = 3
SPECIFICATION Spec
INVARIANT RedoSpliceIsExact
