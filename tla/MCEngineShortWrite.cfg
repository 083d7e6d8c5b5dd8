SPECIFICATION Spec
CONSTANTS
    Keys = {k1}
    FlushThreshold = 2
    CompactThreshold = 1
    Faults = {"short_write"}
    OrderedDir = TRUE
    NoFile = NoFile
    MaxOps = 2
    MaxSsts = 5
INVARIANTS
    OkIsDurable
