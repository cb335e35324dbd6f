SPECIFICATION Spec
CONSTANTS
    None = None
    p1 = p1
    p2 = p2
    u1 = u1
    u2 = u2
    o1 = o1
    o2 = o2
    Player = {p1, p2}
    Unit = {u1, u2}
    OptionId = {u1, u2, o1, o2}
    Forms <- FiniteForms
    Audiences <- MCAudiences
    NModels = 1
    MaxWay = 1
    MaxSpot = 1
    LogCap = 2
    MaxRequests = 3
    MaxEvents = 1
    MaxSends = 2
CHECK_DEADLOCK FALSE
INVARIANTS
    AdvancedIsContinued
