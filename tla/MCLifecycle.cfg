SPECIFICATION FairSpec
CONSTANTS
    Day = 2
    Year = 2
    MaxTime = 4
    Loopback = "loopback"
    Node <- MCNode
    Requests = {r1}
    Origins <- MCOrigins
    Past <- MCPast
    Impatient = {r1}
    Limit = 1
    NoOne = NoOne
    Main = Main
    Streams = {s1, s2}
    MaxStops = 2
    MaxFaults = 1
INVARIANTS
    TypeOK
    RecordedUnlessCut
    TrueRows
    RefreshShowsAction
PROPERTIES
    RetentionExact
    Stops
    Recovers
