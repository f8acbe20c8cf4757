SPECIFICATION Spec
CONSTANTS
    Callers = {c1, c2}
    Burst = 8
    Limit = 2
    Window = 2
    Costs = {1, 5}
    MaxTime = 10
    MaxRaces = 2
CHECK_DEADLOCK FALSE
INVARIANTS
    WithinRate
PROPERTIES
    DenialIsEarned
