SPECIFICATION FairSpec
CONSTANTS
    Ops = {o1, o2}
    Workers = {w1, w2}
    Lease = 3
    WorkTime = 1
    Limit = 2
    B1 = 1
    B2 = 2
    B3 = 3
    B4 = 4
    FaultKinds = {"process", "db", "crash"}
    MaxFaults = 4
    NoWorker = NoWorker
    NoOp = NoOp
 
PROPERTIES ImplementsExclusiveWork NotStuck
CHECK_DEADLOCK FALSE
