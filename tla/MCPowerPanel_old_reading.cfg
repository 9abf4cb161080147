SPECIFICATION SpecH
CONSTANTS
    Clients = {c1}
    Requests = {r1}
    NoOne = NoOne
    Offered = {"power_on", "power_off"}
    Flaky = {}
    Cooldown = 0
    BootTimeout = 1
    PollInterval = 1
    RestartGrace = 0
    MaxDrops = 1
PROPERTIES
    ConfirmedByLaterReading
