SPECIFICATION FairSpec
CONSTANTS
    Readers = {r1, r2}
    Actors = {a1}
    NoOne = NoOne
    Unreachable = Unreachable
    NoSensors = NoSensors
    MaxAge = 2
    MaxFetch = 1
    MaxEpoch = 2
INVARIANTS
    TypeOK
    FreshIsCurrent
    SensorsNotOlder
    StalenessBound
PROPERTIES
    OneFetchPerInterval
    ImplementsService
    GetReturns
    InvalidateReturns
