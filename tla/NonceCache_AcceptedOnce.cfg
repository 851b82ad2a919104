CONSTANTS
    Requests = {r1, r2}
    Tokens <- MCTokens
    TTL = 2
    MaxNow = 4
SPECIFICATION Spec
INVARIANT AcceptedOnce
