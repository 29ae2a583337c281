SPECIFICATION Spec
CONSTANTS
    Returns = {r1}
    Rtos = {}
    Exchanges = {}
    Attempts = {1}
    Actors = {a1}
    OtherNotes = {byhand}
    None = None
    InitialStock = 1
    MaxOpen = 2
    MaxWork = 3
    MaxOverlaps = 1
    MaxRestocks = 2
    MaxFaults = 0
CHECK_DEADLOCK FALSE
INVARIANTS
    RestockedOnce
