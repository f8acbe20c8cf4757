SPECIFICATION FairSpec
CONSTANTS
    NumOffers = 3
    MaxAttempts = 2
    MaxPolls = 1
CHECK_DEADLOCK FALSE
INVARIANTS
    NothingLeaks
PROPERTIES
    HardCap
    LaunchEnds
