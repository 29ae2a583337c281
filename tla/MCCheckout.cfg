SPECIFICATION Spec
CHECK_DEADLOCK FALSE
SYMMETRY MCSymmetry
CONSTANTS
    r1 = r1
    r2 = r2
    None = None
    Requests = {r1, r2}
    Items <- MCItems
    Eligible = {"tee"}
    AutomaticFor = {{"tee", "bat"}}
    Coupons = {"small", "big"}
    Price <- MCPrice
    Discount <- MCDiscount
    Options = {"cod", "courier", "prepaid"}
    NamedCod = {"cod"}
    TypedCod = {"courier"}
    Fee <- MCFee
    AutoPlusManual = FALSE
    MaxSessions = 3
    MaxBegun = 4
    MaxMishaps = 1
    MaxRefunds = 2
INVARIANTS
    TypeOK
    SessionsChargeTotal
    OneSession
    OneCouponUnlessRaced
    PlacedAsChecked
    AuthorizedOnce
    CodItemsEligible
    RefundsOnRecord
PROPERTIES
    PaidSessionKept
