SPECIFICATION Spec
CONSTANTS
    Slots = {r1, r2}
    Passwords = {TRUE, FALSE}
    MaxTokens = 3
    FaultKinds = {"db", "net", "lost", "captcha", "expire", "revoke", "edit", "crash", "outside", "ttl"}
    MaxFaults = 1
    MaxIds = 4
    Names = {"a", "b"}
    Ops <- MCOps
    MaxDepth = 2
    MaxRequests = 2
INVARIANTS CacheAgrees ActsOnNamedFile  StoredTokenLives
SYMMETRY MCSymmetry
CHECK_DEADLOCK FALSE
