CONSTANTS
    x = x
    y = y
    a = a
    b = b
    f1 = f1
    f2 = f2
    m = m
    Users = {f1, f2, m}
    Founders = {f1, f2}
    Member = m
    Workers = {1, 2}
    MaxTokens = 5
    MaxRequests = 2
    Sources = {1, 2}
    MaxRows = 6
    UrlTTL = 1
    MaxTime = 2
    MountPaths <- ConstMountPaths
    Local <- ConstLocal
    Names = {a, b}
    Shapes <- ConstShapes
    Asked <- ConstAsked
    MaxRules = 3
    MaxShares = 3
    MaxEdits = 3
    MaxFaults = 1
SPECIFICATION Spec
INVARIANTS SessionsEnd SuperAdminRemains DecisionsFollowRules  
CHECK_DEADLOCK FALSE
