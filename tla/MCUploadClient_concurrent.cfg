SPECIFICATION ClientSpec
CONSTANTS
    Reqs = {r1, r2}
    Finishers = {r1, r2}
    Sessions = {s1}
    Contents = {a}
    Hashes = {a}
    Content = a
    Lanes = {2}
    NoHash = NoHash
    N = 2
    Drivers = {"local"}
    FaultKinds = {}
    MaxFaults = 2
    NoFile = NoFile
    Torn = Torn
    Gap = Gap
    NoNode = NoNode
    NoSession = NoSession
PROPERTIES UploadCompletes
