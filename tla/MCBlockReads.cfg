SPECIFICATION Spec
CONSTANTS
    Keys <- MCKeys
    Values <- MCValues
    Readers = {r1, r2}
    FlushThreshold = 2
    CompactThreshold = 2
    BlockSize = 5
    Capacity = 4
    PageLimit = 1
    Start <- MCStart
    End <- MCEnd
    Together = FALSE
    MaxWrites = 3
SYMMETRY Symmetry
INVARIANTS
    ReadsLatest
    PagedScan
CHECK_DEADLOCK FALSE
