SPECIFICATION FairSpec
CONSTANTS
    s1 = s1
    s2 = s2
    Shipments = {s1}
    Events <- ReferenceEvent
    Bookers = {b1}
    Webhooks = {w1}
    Replayers = {}
    Recoverers = {r1}
    Labels = {}
    Leftover = {}
    NoShipment = NoShipment
    NoEvent = NoEvent
    Limit = 2
    RecoveryLimit = 1
    Failing = {}
    Journey <- Short
PROPERTY BookingRecovered
CHECK_DEADLOCK FALSE
