SPECIFICATION RSSSpec
CONSTANTS
    Parts = {"items", "feeds"}
    Feeds = {1, 2}
    Subs = {1, 2}
    Urls = {u1, u2}
    u1 = u1
    u2 = u2
    Flaky = {u1}
    Documents <- ConstDocuments
    Callers = {c1}
    Refresher = r
    DegradedAt = 1
    CircuitAt = 2
    MaxTurns = 2
    Items = {i1}
    Tasks = {1, 2}
    Actors = {w, a1}
    Worker = w
    Requests = {"refresh", "run", "reprocess", "retry", "download", "ignore"}
    Links = {TRUE, FALSE}
    MaxRetry = 1
    Limit = 1
    FaultKinds = {"create", "crash"}
    MaxFaults = 1
    MaxAsks = 2
    NoItem = NoItem
    NoTask = NoTask
    NoActor = NoActor
INVARIANTS CompletedHasResult ConfigKept WorseHealthTold
PROPERTIES EnqueuedSettles  
