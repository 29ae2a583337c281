SPECIFICATION FairSpec
CONSTANTS
    s1 = s1
    s2 = s2
    p1 = p1
    p2 = p2
    Sessions = {s1, s2}
    Attempts = {p1}
    Owner <- TwoSessionOwner
    Handlers = {h1}
    Checkouts = {}
    HookEvents = {}
    Recon = recon
    NoPay = NoPay
    NoSession = NoSession
    MaxSessions = 2
CHECK_DEADLOCK FALSE
PROPERTIES
    CapturedEventually
