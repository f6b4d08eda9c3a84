\* One order and an expiry job that may stop halfway.
SPECIFICATION FairSpec
CONSTANTS
    first = o1
    Null = Null
    Orders = {o1}
    Products = {a}
    Payments = {y1}
    Hooks = {}
    Jobs = {j1}
    Staff = {}
    Quantity <- UnitsWanted
    InitialStock <- TwoOfEach
    OrderOf <- PaysFirst
    Linked = {}
    BatchSize = 1
    Crashing = {j1}
    MaxFailures = 0
    MaxCrashes = 1
    MaxDuplicates = 0
    MaxRequests = 0
PROPERTIES ExpiredFreesStock
CHECK_DEADLOCK FALSE
