SPECIFICATION Spec
CONSTANTS
    Day = 2
    Year = 2
    MaxTime = 4
    Loopback = "loopback"
    Node <- MCNode
    Requests = {r1}
    Origins <- MCOrigins
    Past <- MCPast
    Impatient = {}
    Limit = 1
    NoOne = NoOne
    Main = Main
    Streams = {s1, s2}
    MaxStops = 1
    MaxFaults = 0
INVARIANT
    EveryActionRecorded
