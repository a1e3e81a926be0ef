SPECIFICATION FairSpec
CONSTANTS
    Tasks = {t1}
    Actors = {w, a1}
    Worker = w
    Files = {1, 2}
    Routes <- MCRoutes
    FaultKinds = {"commit", "crash", "db", "fs", "job", "rpc"}
    MaxFaults = 1
    NoTask = NoTask
INVARIANTS DownloadNotLost CompletedIsImported  OutcomeIsTold CanceledJobStops
PROPERTIES TaskSettles
CHECK_DEADLOCK FALSE
