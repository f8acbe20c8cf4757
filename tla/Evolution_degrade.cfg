SPECIFICATION Spec
CONSTANTS
    m0 = m0
    m1 = m1
    m2 = m2
    worse = worse
    a = a
    b = b
    c = c
    Models <- MCModels
    Initial = m0
    Quality <- MCQuality
    NoModel = NoModel
    Triggers = {t1}
    Loop = loop
    Rollbackers = {rb}
    Row <- MCRow
    Requests <- MCRequests
    InitialFit <- MCInitialFit
    NoFit = NoFit
    MinRows = 2
    MaxFit = 3
PROPERTIES
    NeverDegrade
