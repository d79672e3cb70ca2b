SPECIFICATION LimitedFairSpec
CONSTANTS
    p1 = p1
    p2 = p2
    Process = {p1, p2}
    Limit = 2
    Window = 2
    Second = 1
    UseRedis = TRUE
    Outages = TRUE
    MaxBurst = 4
INVARIANTS
    MemoryLimits
    RedisWindow
PROPERTIES
    AskersGetIn
