SPECIFICATION ClientSpec
CONSTANTS
    Reqs = {r1, r2}
    Finishers = {r1, r2}
    Sessions = {s1, s2}
    Contents = {a}
    Hashes = {a}
    Content = a
    Lanes = {1, 2}
    NoHash = NoHash
    N = 2
    Drivers = {"import"}
    FaultKinds = {"crash", "write", "db", "commit", "timeout"}
    MaxFaults = 1
    NoFile = NoFile
    Torn = Torn
    Gap = Gap
    NoNode = NoNode
    NoSession = NoSession
INVARIANTS SuccessIsCommitted 
 
