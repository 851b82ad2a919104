CONSTANTS
    Requests = {r1, r2, r3}
    Tokens <- MCTokens
    TTL = 2
    MaxNow = 4
SPECIFICATION Spec
INVARIANTS
    RememberedWhileGood
PROPERTIES
    ImplementsWindow
    Reclaimed
