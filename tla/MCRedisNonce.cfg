CONSTANTS
    Requests = {r1, r2}
    Tokens <- MCTokens
    Replicas = {g1, g2}
    MaxSkew = 1
    DefaultTTL = 2
    MaxNow = 4
SPECIFICATION Spec
INVARIANTS
    TypeOK
    RememberedLessSkew
PROPERTIES
    ImplementsWindow
    Answered
