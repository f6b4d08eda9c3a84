\* Two requests at a time on one client, every operation.
SPECIFICATION Spec
CONSTANTS
    Clients = {c1}
    Sales = {s1}
    Payments = {p1, p2}
    Workers = {w1, w2}
    Null = Null
    CreditLimit = 3
    MaxAmount = 2
    MaxEntries = 4
    Operations = {"createSale", "deleteSale", "createPayment", "updatePayment", "deletePayment", "deactivateClient"}
SYMMETRY Symmetric
INVARIANTS TypeOK LedgerChain SaleStatusAgrees TablesMatchBook ExactUntilAdjusted
PROPERTIES ImplementsAccount
CHECK_DEADLOCK FALSE
