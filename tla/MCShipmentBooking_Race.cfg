SPECIFICATION Spec
CONSTANTS
    s1 = s1
    s2 = s2
    Shipments = {s1}
    Events <- IdEvents
    Bookers = {b1}
    Webhooks = {w1, w2}
    Replayers = {}
    Recoverers = {}
    Labels = {}
    Leftover = {}
    NoShipment = NoShipment
    NoEvent = NoEvent
    Limit = 2
    RecoveryLimit = 1
    Failing = {}
    Journey <- Middle
INVARIANT IngestionRaceSafe
CHECK_DEADLOCK FALSE
