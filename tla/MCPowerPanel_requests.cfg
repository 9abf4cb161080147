SPECIFICATION Spec
CONSTANTS
    Clients = {c1}
    Requests = {r1, r2}
    NoOne = NoOne
    Offered = {"power_on", "power_off"}
    Flaky = {c1}
    Cooldown = 1
    BootTimeout = 1
    PollInterval = 1
    RestartGrace = 0
    MaxDrops = 0
SYMMETRY Symmetry
INVARIANTS
    TransitionCoherent
    FailureAttributed
