\* Three orders that compete for three units, so that two may be pending at a
\* time, a payment for the first, and an expiry job that takes one order a sweep
\* and may fail or stop halfway.
SPECIFICATION FairSpec
CONSTANTS
    first = o1
    Null = Null
    Orders = {o1, o2, o3}
    Products = {a}
    Payments = {y1}
    Hooks = {h1}
    Jobs = {j1}
    Staff = {}
    Quantity <- UnitsWanted
    InitialStock <- ThreeOfEach
    OrderOf <- PaysFirst
    Linked = {}
    BatchSize = 1
    Crashing = {j1}
    MaxFailures = 1
    MaxCrashes = 1
    MaxDuplicates = 0
    MaxRequests = 0
INVARIANTS SoldWithinStock ClaimNotLost
PROPERTIES PaymentTakesEffect OverdueEnds
CHECK_DEADLOCK FALSE
