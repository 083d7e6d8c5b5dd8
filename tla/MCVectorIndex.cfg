SPECIFICATION Spec
CONSTANTS
    VecIds = {0, 1, 2}
    MaxDegrees = {1, 2}
    Chunk = 1
    GroupSize = 2
    Faults = {"rejected"}
    NoBlock = NoBlock
    NoId = NoId
    NoMeta = NoMeta
INVARIANTS
    ResultsAreLive
    OpensCleanly
    NoDangling
PROPERTIES
    OnlyCallsChangeLive
