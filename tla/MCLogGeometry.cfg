\* Every input of a geometry with 2-, 4-, 8-byte granules in an 8-byte table.
CONSTANTS
    PageShift = 1
    LmdShift = 3
SPECIFICATION Spec
INVARIANTS SetLogSizeMinimal CheckLogMatchesTable MergeIsHull
