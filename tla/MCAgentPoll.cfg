SPECIFICATION PollFairSpec
CONSTANTS
    w1 = w1
    w2 = w2
    Worker = {w1, w2}
    Interval = 4
    LockTtl = 3
    Faults = {"restart", "kill", "redis", "database"}
    MaxDisturbances = 3
INVARIANTS
    LockIsSound
PROPERTIES
    PollsGoOn
    PollsMerge
