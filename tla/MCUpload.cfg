SPECIFICATION Spec
CONSTANTS
    Reqs = {r1, r2}
    Finishers = {r1}
    Sessions = {s1}
    Contents = {a, b}
    Hashes = {a, NoHash}
    NoHash = NoHash
    N = 2
    Drivers = {"local", "import"}
    FaultKinds = {"write", "db", "commit", "journal", "crash"}
    MaxFaults = 1
    NoFile = NoFile
    Torn = Torn
    Gap = Gap
    NoNode = NoNode
    NoSession = NoSession
SYMMETRY Symmetry
INVARIANTS TypeOK ListedChunksOnDisk CommittedFileMatches
PROPERTIES DeletedStaysDeleted 
