\* Three requests at a time behind one Idempotency-Key, two at a time on the
\* carts, two at a time on one customer's addresses, three checkouts that
\* share a coupon, a few thousand prices, and three calls at a time behind
\* each breaker.
SPECIFICATION Spec
CONSTANTS
    Attempts = {a1, a2, a3}
    Keys = {k}
    Bodies = {b1, b2}
    NoKey = NoKey
    LongKey = LongKey
    NoRecord = NoRecord
    Customers = {c1}
    Sessions = {s1}
    Variants = {x1}
    Visits = {v1, v2}
    CartRows = {r1, r2, r3}
    ItemRows = {i1, i2, i3}
    MaxQuantity = 1
    MaxVisits = 4
    Nothing = Nothing
    AddressOwners = {c1}
    AddressRows = {d1, d2, d3}
    AddressUsers = {u1, u2}
    MaxEdits = 5
    NoAddress = NoAddress
    Checkouts = {o1, o2, o3}
    Buyers = {c1}
    Guest = Guest
    Goods = {p1, p2}
    CouponUses = 2
    CustomerUses = 1
    PriceCases <- SomePrices
    RiskCases <- SomeRisks
    GatewayCalls = {o1, o2, o3}
    FailureThreshold = 2
    FailureWindow = 2
    GatewayOpenFor = 2
    MaxGatewayTime = 8
    Messages = {o1, o2, o3}
    MessageThreshold = 2
    MessageOpenFor = 2
    MaxMessageTime = 8
SYMMETRY Symmetric
INVARIANTS TypeOK RetryAfterReplyHarmless NoUnitsFromNothing ExactUnlessOverlap CouponCounterExact SharedGoodsKeepLimit PricingSound
PROPERTIES ImplementsReplays DefaultsKept BreakersKeepPromise
CHECK_DEADLOCK FALSE
