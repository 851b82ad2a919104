CONSTANTS
    b1 = b1
    b2 = b2
    None = None
    Unit = 1000
    Requests = {r1, r2}
    Order <- TwoBackends
    Latencies = {0, 3}
SPECIFICATION Spec
INVARIANTS
    FreshAfterReturn
