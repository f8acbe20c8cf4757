SPECIFICATION Spec
CONSTANTS
    Users = {u1, u2}
    Turns = {t1, t2}
    Deletes = {d1, d2}
    Ids = {i1, i2}
    NoId = none
CHECK_DEADLOCK FALSE
INVARIANTS
    RepliedTurnIsWhole
    AnswerFollowsQuestion
PROPERTIES
    DeleteRemovesEndedTurns
