SPECIFICATION Spec
CONSTANTS
    Keys = {k1, k2}
    FlushThreshold = 2
    CompactThreshold = 1
    Faults = {"io", "last_short_write"}
    OrderedDir = TRUE
    NoFile = NoFile
    MaxOps = 2
    MaxSsts = 5
SYMMETRY Symmetry
INVARIANTS
    Durable
    ReadsExplained
    LiveFiles
PROPERTIES
    LiveFilesImmutable
    MaintenanceInvisible
