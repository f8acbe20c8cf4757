SPECIFICATION Spec
CONSTANTS
    Replicas = {r1, r2}
    Limit = 2
    Window = 2
    MaxTime = 4
    MaxServed = 5
    MaxFailures = 1
CHECK_DEADLOCK FALSE
INVARIANTS
    WithinLimit
    DenialIsEarned
