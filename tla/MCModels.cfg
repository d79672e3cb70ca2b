SPECIFICATION Spec
CONSTANTS
    k1 = k1
    k2 = k2
    k3 = k3
    None = None
    Call = {k1, k2, k3}
    Conf <- SmallConf
    Tag = {"llama3:latest", "llama3:8b", "mistral"}
    Requested = "llama3:latest"
    Base <- SmallBase
    MaxFaults = 1
    MaxChanges = 2
SYMMETRY Symmetry
CONSTRAINT ThirdCall
INVARIANTS
    UsageIsOwn
    CallIsRecorded
    RoutesAreSound
CHECK_DEADLOCK FALSE
