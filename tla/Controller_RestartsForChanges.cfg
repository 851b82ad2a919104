CONSTANTS
    k1 = k1
    k2 = k2
    None = None
    Resources <- MCResources
    Secrets <- MCSecrets
    Chart <- MCChart
    RedisInstalled = TRUE
    MaxEdits = 1
    MaxFaults = 1
SPECIFICATION Spec
PROPERTIES
    RestartsForChanges
