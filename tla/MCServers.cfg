SPECIFICATION AllSpec
CONSTANTS
    Agents = {a1, a2}
    Allowed = {a1}
    Requests = {r1, r2, r3}
    REMEMBER_RATE_LIMIT = 1
    REMEMBER_RATE_WINDOW = 1
    EVENT_CAPACITY = 1
    MaxTime = 2
    None = None
    Server = server
    Programs = {server, cli, setup}
    FILES = 1
    PIECES = 2
    Consent = {cli, setup}
    NoFile = NoFile
SYMMETRY Symmetry
INVARIANTS
    RateBound
    WatchersTold
    CacheWhole
CHECK_DEADLOCK FALSE
