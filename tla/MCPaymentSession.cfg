SPECIFICATION Spec
CONSTANTS
    s1 = s1
    s2 = s2
    p1 = p1
    p2 = p2
    Sessions = {s1}
    Attempts = {p1, p2}
    Owner <- OneSessionOwner
    Handlers = {h1, h2}
    Checkouts = {c1}
    HookEvents <- HookedCapture
    Recon = recon
    NoPay = NoPay
    NoSession = NoSession
    MaxSessions = 1
CHECK_DEADLOCK FALSE
SYMMETRY HandlerSymmetry
INVARIANTS
    TypeOK
    ReadersAgree
    PaidSessionNamesItsPayment
    EventAppliedAtMostOnce
PROPERTIES
    IllegalOnlyIfStale
