CONSTANTS
    b1 = b1
    b2 = b2
    b3 = b3
    None = None
    Kids = {"alice", "bob"}
    Issuer = "issuer"
    Audience = "gw"
    ClockSkew = 1
    Now = 3
    Requests = {r1, r2}
    Inputs <- MCInputs
    Routes <- MCRoutes
    Matches <- MCMatches
    BadTargets <- MCBadTargets
    Pools <- MCPools
    Trusted = {b1, b2}
    StoreFails = TRUE
SPECIFICATION Spec
\* Every request has been served.
CHECK_DEADLOCK FALSE
INVARIANTS
    ExecutedOnlyAuthorised
    OneForwardPerJti
    InflightExact
    RetriedElsewhere
    BodyExecutedOnce
PROPERTIES
    AnsweredOnce
    Responds
