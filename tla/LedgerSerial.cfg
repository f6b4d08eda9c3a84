\* One request at a time, two clients and two sales: what the use cases' own
\* checks guarantee when nothing runs between a check and its transaction.
SPECIFICATION Spec
CONSTANTS
    Clients = {c1, c2}
    Sales = {s1, s2}
    Payments = {p1, p2}
    Workers = {w1}
    Null = Null
    CreditLimit = 3
    MaxAmount = 2
    MaxEntries = 5
    Operations = {"createSale", "deleteSale", "createPayment", "updatePayment", "deletePayment"}
SYMMETRY Symmetric
INVARIANTS BalanceExact PaidWithinTotal AuditMatchesBook
PROPERTIES PaymentsKeepTheirSale
CHECK_DEADLOCK FALSE
