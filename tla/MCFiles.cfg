CONSTANTS
    s1 = s1
    s2 = s2
    a = a
    b = b
    c1 = c1
    c2 = c2
    Sources = {s1, s2}
    Paths <- ConstPaths
    Contents = {c1, c2}
    MaxTrash = 2
    MaxRequests = 4
    BucketSets <- ConstBuckets
    MaxBucketRequests = 3
    FaultKinds = {"fs", "db", "journal", "crash", "outside"}
    MaxFaults = 1
SPECIFICATION Spec
INVARIANTS TreeWellFormed DownloadIsOwnFile PhantomExplained SuccessIsBoth
 
SYMMETRY Symmetry
CHECK_DEADLOCK FALSE
