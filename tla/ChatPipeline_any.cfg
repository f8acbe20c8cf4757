SPECIFICATION FairSpec
CONSTANTS
    Requests = {r1, r2}
    hello = hello
    yes = yes
    no = no
    NoTurn = NoTurn
    Asks <- MCAsks
    Texts <- MCTexts
    Valid <- MCValid
    Shapes <- MCShapes
    CacheOn = TRUE
    MaxChunks = 2
    MaxIters = 2
    MaxCalls = 2
    Layers = 2
    MaxRepairs = 2
    Samples = 3
    Quorum = 3
CHECK_DEADLOCK FALSE
INVARIANTS
    HitIsAnEarlierAnswer
    AgentProtocol
PROPERTIES
    TurnSpec
    RequestsEnd
