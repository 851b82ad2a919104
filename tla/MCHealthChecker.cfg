CONSTANTS
    Backends = {b1, b2}
    Trusted = {b1}
    FailThreshold = 3
    PassThreshold = 2
    MaxCount = 3
    MaxProbes = 2
    Latency = 5
    Unit = 1
    None = None
SPECIFICATION Spec
INVARIANTS
    BitFollowsStreaks
    GaugeAgrees
    CleanReturn
PROPERTIES
    FlipsNeedStreaks
    ImpostorStaysOut
    KeepsPoolRules
    Converges
