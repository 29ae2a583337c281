SPECIFICATION Spec
CONSTANTS
    s1 = s1
    s2 = s2
    Shipments = {s1}
    Events <- TwoEvents
    Bookers = {b1, b2}
    Webhooks = {w1}
    Replayers = {p1}
    Recoverers = {}
    Labels = {l1}
    Leftover = {}
    NoShipment = NoShipment
    NoEvent = NoEvent
    Limit = 2
    RecoveryLimit = 1
    Failing = {}
    Journey <- Back
SYMMETRY Crowd
INVARIANT TypeOK
INVARIANT CarrierAskedOnce
INVARIANT ReflectedUnlessLost
PROPERTY RefsKept
PROPERTY ImplementsInbox
PROPERTY RegressesOnlyIfStale
CHECK_DEADLOCK FALSE
