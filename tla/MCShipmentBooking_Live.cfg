SPECIFICATION FairSpec
CONSTANTS
    s1 = s1
    s2 = s2
    Shipments = {s1, s2}
    Events <- QueuedEvents
    Bookers = {}
    Webhooks = {}
    Replayers = {p1}
    Recoverers = {r1}
    Labels = {}
    Leftover = {s1, s2}
    NoShipment = NoShipment
    NoEvent = NoEvent
    Limit = 2
    RecoveryLimit = 1
    Failing <- RefusedEvents
    Journey = {}
PROPERTY RecoveredUnlessCrowded
PROPERTY ReplayedUnlessHeldUp
CHECK_DEADLOCK FALSE
