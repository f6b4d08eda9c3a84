\* Two corrections of one payment at a time.
SPECIFICATION Spec
CONSTANTS
    Clients = {c1}
    Sales = {s1}
    Payments = {p1}
    Workers = {w1, w2}
    Null = Null
    CreditLimit = 2
    MaxAmount = 2
    MaxEntries = 4
    Operations = {"createSale", "createPayment", "updatePayment"}
INVARIANTS BalanceExact
CHECK_DEADLOCK FALSE
