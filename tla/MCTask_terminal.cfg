SPECIFICATION Spec
CONSTANTS
    Tasks = {t1}
    Actors = {w, a1}
    Worker = w
    Files = {1, 2}
    Routes <- MCRoutesAria2
    FaultKinds = {}
    MaxFaults = 0
    NoTask = NoTask
SYMMETRY Symmetry
PROPERTIES TerminalStays
CHECK_DEADLOCK FALSE
