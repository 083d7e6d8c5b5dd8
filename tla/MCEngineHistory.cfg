SPECIFICATION FairSpec
CONSTANTS
    Keys = {k1}
    FlushThreshold = 1
    CompactThreshold = 1
    Faults = {"io", "last_short_write"}
    OrderedDir = TRUE
    NoFile = NoFile
    MaxOps = 3
    MaxSsts = 4
PROPERTIES
    IsDurableMap
    CallReturns
