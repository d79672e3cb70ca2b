SPECIFICATION Spec
CONSTANTS
    d1 = d1
    d2 = d2
    d3 = d3
    s1 = s1
    s2 = s2
    c1 = c1
    c2 = c2
    None = None
    Document = {d1, d2, d3}
    Session = {s1, s2}
    Place = {c1, c2}
    Text = {"a", "b", "c"}
    Body <- SmallBody
    Home <- SmallHome
    Mine = {d1, d2, d3}
    Taste <- SmallTaste
    RRFK = 60
    SearchK = 2
    SourceK = 2
    RerankK = 2
    SessionMax = 3
    SessionTop = 2
    Few = 1
    PerDocument = 1
    Enough = 2
    Attempts = 2
    MaxFaults = 2
    MaxChanges = 2
CONSTRAINT Unanswered
INVARIANTS
    AnswerIsHeld
    FoundIsAnswered
    FusionIsFair
    IndexIsSound
CHECK_DEADLOCK FALSE
