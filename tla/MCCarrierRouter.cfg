SPECIFICATION Spec
CHECK_DEADLOCK FALSE
CONSTANTS
    c1 = c1
    c2 = c2
    None = None
    Calls = {c1, c2}
    Methods <- MCMethods
    Journey <- MCJourney
    RouterAttempts = 2
    AdapterAttempts = 2
    Threshold = 2
    Window = 1
    ErrorRate = 50
    OpenTicks = 1
    MaxLogins = 2
    MaxExpiries = 1
INVARIANTS
    TypeOK
    CancelledAtCarrier
    FreshToken
    SingleFlight
    RetryBudget
PROPERTIES
    ImplementsCall
