SPECIFICATION RSSSpec
CONSTANTS
    Parts = {"items"}
    Feeds = {1, 2}
    Subs = {1, 2}
    Urls = {u1, u2}
    u1 = u1
    u2 = u2
    Flaky = {u1}
    Documents <- ConstDocuments
    Callers = {c1}
    Refresher = r
    DegradedAt = 1
    CircuitAt = 2
    MaxTurns = 2
    Items = {i1}
    Tasks = {1, 2}
    Actors = {w, a1}
    Worker = w
    Requests = {"refresh"}
    Links = {TRUE}
    MaxRetry = 1
    Limit = 3
    FaultKinds = {}
    MaxFaults = 0
    MaxAsks = 1
    NoItem = NoItem
    NoTask = NoTask
    NoActor = NoActor
PROPERTIES AutoRetried
