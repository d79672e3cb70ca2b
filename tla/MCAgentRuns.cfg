SPECIFICATION FairSpec
CONSTANTS
    p1 = p1
    p2 = p2
    Process = {p1, p2}
    Period = 2
    MaxRequests = 2
    MaxFaults = 1
    MaxJobs = 1
INVARIANTS
    TimedHasNext
    RunsAreSound
PROPERTIES
    TimedAgentsRun
    OthersComeToRest
