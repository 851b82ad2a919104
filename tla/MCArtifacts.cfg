CONSTANTS
    services <- MCservices
    clients <- MCclients
    Impostor = "llm-4"
    MaxRuns = 2
    MaxStops = 1
SPECIFICATION Spec
CHECK_DEADLOCK FALSE
INVARIANTS
    OneGeneration
    NotOlder
    Agree
PROPERTIES
    Starts
