SPECIFICATION Spec
CONSTANTS
    Events = {1}
    Channels = {1, 2}
    Types = {"failure", "completed"}
    Callers = {c1}
    Worker = w
    MaxAttempts = 2
    Limit = 1
    FaultKinds = {"db", "crash"}
    MaxFaults = 1
    MaxManual = 1
INVARIANTS SettledTruly SendsBounded
PROPERTY EventSettles
CHECK_DEADLOCK FALSE
