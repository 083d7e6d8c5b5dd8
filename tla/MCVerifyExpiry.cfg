SPECIFICATION Spec
CONSTANTS
    U16 = 3
    U32 = 63
    MAX_BATCH_OPS = 2
    CodecSamples <- Values
    LogSamples <- Logs
    LockSamples <- LockFiles
    SstSamples <- Files
    SstKeys <- Keys
    SstLimits = {0, 1, 2}
    StoreSamples <- Stores
    HealthySamples <- Healthy
    FtsNames = {"fts e"}
    MetaNames = {"vector index metadata"}
    ImageSamples <- Images
    KeySamples <- Names
    HIGH_BYTE = 2
    I64_MAX = 2
    GraphSamples <- Graphs
    Forever = Forever
    RecallSamples <- Names
    MAX_TERMS = 3
    OVERSAMPLE = 2
    RRF_K = 60
INVARIANTS
    NoFalseAlarm
