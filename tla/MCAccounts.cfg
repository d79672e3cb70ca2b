SPECIFICATION Spec
CONSTANTS
    c1 = c1
    c2 = c2
    p1 = p1
    p2 = p2
    Slot = {p1, p2}
    Client = {c1, c2}
    MaxRequests = 4
    MaxFaults = 1
INVARIANTS
    SessionsHold
    SettingsAgree
    DeletedLeavesNothing
PROPERTIES
    RevokedForGood
SYMMETRY Symmetry
CHECK_DEADLOCK FALSE
