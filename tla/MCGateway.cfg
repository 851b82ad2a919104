CONSTANTS
    r1 = r1
    r2 = r2
    j1 = j1
    j2 = j2
    None = None
    Requests <- MCRequests
    Jtis = {j1, j2}
    Uses <- MCUses
    Files <- MCFiles
    Attempts = 2
    Grace = 2
    Works = {1, 2}
    MaxFaults = 2
SPECIFICATION Spec
INVARIANTS
    OncePerMemory
    QuickAnswered
PROPERTIES
    LoopsEnd
    Stops
    Recovers
