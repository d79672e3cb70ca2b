SPECIFICATION Spec
CONSTANTS
    p1 = p1
    p2 = p2
    Slot = {p1, p2}
    Scenes <- SmallScenes
    MaxRequests = 3
    MaxFaults = 1
INVARIANTS
    LibraryIsWhole
    TurnsAreKept
    TitleIsKept
SYMMETRY Symmetry
CHECK_DEADLOCK FALSE
