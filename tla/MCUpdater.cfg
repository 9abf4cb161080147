SPECIFICATION FairSpec
CONSTANTS
    Loop = Loop
    Browsers = {b1}
    Appliers = {a1}
    AutoApply = TRUE
    MaxVersion = 2
    MaxStops = 1
INVARIANTS
    TypeOK
    OneInstaller
    CheckingBacked
    SoundBinary
PROPERTIES
    EventuallyCurrent
    PagesSettle
