\* One order and one delivery that may stop halfway.
SPECIFICATION Spec
CONSTANTS
    first = o1
    Null = Null
    Orders = {o1}
    Products = {a}
    Payments = {y1}
    Hooks = {h1}
    Jobs = {}
    Staff = {}
    Quantity <- UnitsWanted
    InitialStock <- TwoOfEach
    OrderOf <- PaysFirst
    Linked = {}
    BatchSize = 1
    Crashing = {h1}
    MaxFailures = 0
    MaxCrashes = 1
    MaxDuplicates = 0
    MaxRequests = 0
INVARIANTS ClaimNotLost
CHECK_DEADLOCK FALSE
