\* One order, one event, and the expiry job: no failure, no crash, no staff.
SPECIFICATION Spec
CONSTANTS
    first = o1
    Null = Null
    Orders = {o1}
    Products = {a}
    Payments = {y1}
    Hooks = {h1}
    Jobs = {j1}
    Staff = {}
    Quantity <- UnitsWanted
    InitialStock <- TwoOfEach
    OrderOf <- PaysFirst
    Linked = {}
    BatchSize = 1
    Crashing = {}
    MaxFailures = 0
    MaxCrashes = 0
    MaxDuplicates = 0
    MaxRequests = 0
INVARIANTS PaidKeepsStock
CHECK_DEADLOCK FALSE
