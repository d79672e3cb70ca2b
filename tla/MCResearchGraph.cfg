SPECIFICATION Spec
CONSTANTS
    w1 = w1
    w2 = w2
    w3 = w3
    d1 = d1
    d2 = d2
    d3 = d3
    s1 = s1
    s2 = s2
    None = None
    Worker = {w1, w2, w3}
    Document = {d1, d2, d3}
    Session = {s1, s2}
    Name = {"x", "y", "z"}
    Home <- SmallHome
    Names <- SmallNames
    Scene <- SmallScene
    KnowledgeGraph = TRUE
    GraphRag = TRUE
    Remembered = TRUE
    Workflows = TRUE
    MultiAgent = TRUE
    DeepResearch = TRUE
    PerAnalysis = 2
    MaxFaults = 2
    MaxChanges = 2
INVARIANT
    GraphFollowsInsights
CHECK_DEADLOCK FALSE
