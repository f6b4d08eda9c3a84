\* One order of two items, one payment, two deliveries at a time, the expiry
\* job and a member of the staff.
SPECIFICATION Spec
CONSTANTS
    first = o1
    Null = Null
    Orders = {o1}
    Products = {a, b}
    Payments = {y1}
    Hooks = {h1, h2}
    Jobs = {j1}
    Staff = {s1}
    Quantity <- UnitsWanted
    InitialStock <- TwoOfEach
    OrderOf <- PaysFirst
    Linked = {o1}
    BatchSize = 1
    Crashing = {h1, h2, j1, s1}
    MaxFailures = 1
    MaxCrashes = 1
    MaxDuplicates = 1
    MaxRequests = 1
SYMMETRY Symmetric
INVARIANTS TypeOK EventAppliedOnce OneGuardedTermination MarkerHonest ReleasesMatchEvents PendingKeepsReservation
PROPERTIES PaidLeftOnlyByWebhook
CHECK_DEADLOCK FALSE
