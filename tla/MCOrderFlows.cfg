SPECIFICATION Spec
CONSTANTS
    Returns = {r1}
    Rtos = {o1}
    Exchanges = {e1}
    Attempts = {1, 2}
    Actors = {a1, a2}
    OtherNotes = {byhand}
    None = None
    InitialStock = 1
    MaxOpen = 2
    MaxWork = 3
    MaxOverlaps = 1
    MaxRestocks = 2
    MaxFaults = 2
CHECK_DEADLOCK FALSE
SYMMETRY ActorSymmetry
INVARIANTS
    TypeOK
    StockMovedOnce
    RestockNeedsPass
    RefundsBacked
    RefundedOncePerNote
    AnnouncedOnce
    ShownStatusIsAnIntents
    SellableNotNegative
    OpenWorkSeen
PROPERTIES
    LegalUnlessDisturbed
    FailedRequestStaysSeen
