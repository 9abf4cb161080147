SPECIFICATION SpecH
CONSTANTS
    Clients = {c1}
    Requests = {r1}
    NoOne = NoOne
    Offered = {"power_on", "power_off", "power_cycle"}
    Flaky = {}
    Cooldown = 0
    BootTimeout = 2
    PollInterval = 1
    RestartGrace = 1
    MaxDrops = 0
PROPERTIES
    SeenOffConfirmsAtOn
