SPECIFICATION FairSpec
CONSTANTS
    Callers = {p1, p2}
    NoOne = NoOne
    Slots = 2
    MaxFaults = 2
INVARIANTS
    TypeOK
    ResetAtMostOnce
    SessionLeftByHandler
PROPERTIES
    StaleSessionHealed
    ErrorDropsSession
    CloseLeavesNoSession
    CallsReturn
