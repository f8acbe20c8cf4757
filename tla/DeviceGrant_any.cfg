SPECIFICATION FairSpec
CONSTANTS
    Users = {u1, u2}
    NoUser = NoUser
    Approvers = {a1, a2}
    Deniers = {d1}
    Pollers = {p1, p2}
    MaxCrashes = 1
INVARIANTS
    ClaimedHasToken
PROPERTIES
    DeviceIsAnswered
    GrantAlone
