SPECIFICATION SpecH
CONSTANTS
    Clients = {c1, c2}
    Requests = {r1}
    NoOne = NoOne
    Offered = {"power_on", "power_off", "power_cycle"}
    Flaky = {c1, c2, r1}
    Cooldown = 0
    BootTimeout = 1
    PollInterval = 1
    RestartGrace = 0
    MaxDrops = 0
SYMMETRY Symmetry
INVARIANTS
    TypeOK
    FreshAfterAction
    FailureLoggedOncePerBrowser
