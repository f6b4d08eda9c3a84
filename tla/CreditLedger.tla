---------------------------- MODULE CreditLedger ----------------------------
(***************************************************************************)
(* Credit sales, payments ("abonos") and the client balance they move.     *)
(*                                                                         *)
(* A worker is one HTTP request of the staff API.  Every use case works in *)
(* two parts: it reads the database with plain queries and validates (one  *)
(* action here), and then its datasource runs one prisma.$transaction (one *)
(* action here, or two when the transaction first reads a row it later     *)
(* writes).  Between the two parts other requests commit.  The database is *)
(* PostgreSQL under READ COMMITTED: every transaction below updates the    *)
(* client row before it computes the balance it books and the payment      *)
(* totals, so the row lock of that client makes its effect atomic at the   *)
(* commit.  A condition of a commit that does not hold (a foreign key, a   *)
(* row that is gone) rolls the transaction back: the request then ends by  *)
(* Abort, which also stands for a crash, a lost connection or a deadlock   *)
(* that PostgreSQL resolves.                                               *)
(*                                                                         *)
(* Amounts are whole units, the stock that a sale moves is not part of     *)
(* this module, and ids are never reused.                                  *)
(*                                                                         *)
(* Some definitions stand beside a variant that no action uses, such as    *)
(* RemainingUnpaid beside Remaining: the variant is the mistake that the   *)
(* properties at the end must tell from the code (see the README).         *)
(***************************************************************************)
EXTENDS Integers, Sequences, FiniteSets, Functions

CONSTANTS Clients, Sales, Payments, Workers,
          Null,          \* an absent id
          CreditLimit,   \* every client's credit limit
          MaxAmount,     \* bound: amounts of sales and payments are 1..MaxAmount
          MaxEntries,    \* bound: entries a client's book may hold
          Operations     \* the requests this instance issues

ASSUME BoundsAssumption ==
    /\ CreditLimit \in Nat
    /\ MaxAmount \in Nat
    /\ MaxEntries \in Nat

ASSUME NullAssumption == Null \notin Clients \cup Sales \cup Payments

ASSUME TablesFinite == IsFiniteSet(Sales) /\ IsFiniteSet(Payments)

VARIABLES active,    \* active[c]: Client.isActive
          balance,   \* balance[c]: Client.balance
          book,      \* book[c]: the LedgerEntry rows of c in commit order
          audit,     \* audit[c]: the AuditLog rows of c in commit order
          sale,      \* sale[s]: the Sale rows
          payment,   \* payment[p]: the Payment rows
          worker     \* worker[w]: what request w has read and will do next

vars == <<active, balance, book, audit, sale, payment, worker>>

Amounts == 1..MaxAmount
Deltas == (-MaxAmount)..MaxAmount

SaleTypes == {"CASH", "CREDIT"}
SaleStatuses == {"PENDING", "PARTIAL", "PAID"}
Kinds == {"CREDIT_SALE_OPENED", "CREDIT_SALE_REVERSED", "PAYMENT_RECEIVED",
          "PAYMENT_ADJUSTED", "PAYMENT_REMOVED"}
RowStates == {"unused", "live", "deleted"}

Accounts == INSTANCE Account

AuditRow == [before : Int, after : Int]
SaleRow == [state : RowStates, client : Clients \cup {Null}, type : SaleTypes,
            total : 0..MaxAmount, status : SaleStatuses]
PaymentRow == [state : RowStates, client : Clients \cup {Null},
               sale : Sales \cup {Null}, amount : 0..MaxAmount]

(***************************************************************************)
(* A request: pc is the step it takes next, before and after are the audit *)
(* values it computed when it validated, old is the amount of the payment  *)
(* its transaction has read.                                               *)
(***************************************************************************)
Steps == {"idle", "createSale", "initialPayment", "createPayment",
          "updatePayment", "updatePaymentTx", "deletePayment",
          "deletePaymentTx", "deleteSale"}
Request == [pc : Steps, client : Clients \cup {Null}, sale : Sales \cup {Null},
            payment : Payments \cup {Null}, type : SaleTypes,
            amount : 0..MaxAmount, initial : 0..MaxAmount, old : 0..MaxAmount,
            before : Int, after : Int]

Idle == [pc |-> "idle", client |-> Null, sale |-> Null, payment |-> Null,
         type |-> "CASH", amount |-> 0, initial |-> 0, old |-> 0,
         before |-> 0, after |-> 0]

TypeOK ==
    /\ active \in [Clients -> BOOLEAN]
    /\ balance \in [Clients -> Int]
    /\ book \in [Clients -> Seq(Accounts!Entry)]
    /\ audit \in [Clients -> Seq(AuditRow)]
    /\ sale \in [Sales -> SaleRow]
    /\ payment \in [Payments -> PaymentRow]
    /\ worker \in [Workers -> Request]

Init ==
    /\ active = [c \in Clients |-> TRUE]
    /\ balance = [c \in Clients |-> 0]
    /\ book = [c \in Clients |-> <<>>]
    /\ audit = [c \in Clients |-> <<>>]
    /\ sale = [s \in Sales |-> [state |-> "unused", client |-> Null,
                                type |-> "CASH", total |-> 0,
                                status |-> "PENDING"]]
    /\ payment = [p \in Payments |-> [state |-> "unused", client |-> Null,
                                      sale |-> Null, amount |-> 0]]
    /\ worker = [w \in Workers |-> Idle]

-----------------------------------------------------------------------------
(* Queries and the bookkeeping every transaction shares.                   *)

\* The live payments of a sale (findBySaleId).
PaymentsOf(s) == {p \in Payments : payment[p].state = "live" /\ payment[p].sale = s}

AmountOf == [p \in Payments |-> payment[p].amount]

\* What the payments of a sale add up to (the aggregate of the transactions).
Paid(s) == SumFunctionOnSet(AmountOf, PaymentsOf(s))

\* What is still owed on a sale, the bound of a payment for it.
RemainingUnpaid(s) == sale[s].total
Remaining(s) == sale[s].total - Paid(s)

\* The status a sale gets from the total of its payments.
StatusWithOverpaid(paid, total) ==
    IF paid > total THEN "OVERPAID" ELSE IF paid = total THEN "PAID" ELSE "PARTIAL"

StatusFor(paid, total) ==
    IF paid >= total THEN "PAID" ELSE IF paid > 0 THEN "PARTIAL" ELSE "PENDING"

\* One movement of a balance: the client row, its LedgerEntry and its AuditLog.
BookFromValidation(c, kind, delta, r) ==
    /\ Len(book[c]) < MaxEntries
    /\ balance' = [balance EXCEPT ![c] = @ + delta]
    /\ book' = [book EXCEPT ![c] =
                  Append(@, [kind |-> kind, delta |-> delta,
                             balanceAfter |-> r.after])]
    /\ audit' = audit

BookByOverwrite(c, kind, delta, r) ==
    /\ Len(book[c]) < MaxEntries
    /\ balance' = [balance EXCEPT ![c] = r.after]
    /\ book' = [book EXCEPT ![c] =
                  Append(@, [kind |-> kind, delta |-> delta,
                             balanceAfter |-> r.after])]
    /\ audit' = audit

Book(c, kind, delta, r) ==
    /\ Len(book[c]) < MaxEntries
    /\ balance' = [balance EXCEPT ![c] = @ + delta]
    /\ book' = [book EXCEPT ![c] =
                  Append(@, [kind |-> kind, delta |-> delta,
                             balanceAfter |-> balance[c] + delta])]
    /\ audit' = [audit EXCEPT ![c] =
                  Append(@, [before |-> r.before, after |-> r.after])]

\* A request that has validated: it holds r until its transaction.
Accept(w, r) ==
    /\ worker[w].pc = "idle"
    /\ r.pc \in Operations
    /\ worker' = [worker EXCEPT ![w] = r]
    /\ UNCHANGED <<active, balance, book, audit, sale, payment>>

-----------------------------------------------------------------------------
(* Sales.                                                                  *)

\* POST /sales up to the transaction: the credit limit is compared with the
\* balance read here.
ValidateSale(w, c, type, total, initial) ==
    /\ active[c]
    /\ type = "CREDIT" => CreditLimit - balance[c] >= total
    /\ initial > 0 => type = "CREDIT" /\ initial < total
    /\ Accept(w, [Idle EXCEPT !.pc = "createSale", !.client = c, !.type = type,
                              !.amount = total, !.initial = initial,
                              !.before = balance[c],
                              !.after = balance[c] + total])

\* The payment a new sale with an initial payment goes on with, in a transaction
\* of its own: its audit values derive from the balance read before the sale.
InitialPaymentFromRead(r, s) ==
    [Idle EXCEPT !.pc = "initialPayment", !.client = r.client, !.sale = s,
                 !.amount = r.initial, !.before = r.before,
                 !.after = r.before - r.initial]

InitialPayment(r, s) ==
    [Idle EXCEPT !.pc = "initialPayment", !.client = r.client, !.sale = s,
                 !.amount = r.initial, !.before = r.after,
                 !.after = r.after - r.initial]

\* The transaction of a sale.
CommitSale(w, s) ==
    LET r == worker[w]
    IN  /\ r.pc = "createSale"
        /\ sale[s].state = "unused"
        /\ sale' = [sale EXCEPT ![s] =
                      [state |-> "live", client |-> r.client, type |-> r.type,
                       total |-> r.amount,
                       status |-> IF r.type = "CASH" THEN "PAID" ELSE "PENDING"]]
        /\ IF r.type = "CREDIT"
           THEN Book(r.client, "CREDIT_SALE_OPENED", r.amount, r)
           ELSE UNCHANGED <<balance, book, audit>>
        /\ worker' = [worker EXCEPT ![w] =
                        IF r.initial = 0 THEN Idle ELSE InitialPayment(r, s)]
        /\ UNCHANGED <<active, payment>>

\* A sale with payments is not deleted.
DeletableUnlessPaid(s) == sale[s].status # "PAID"
Deletable(s) == PaymentsOf(s) = {}

\* DELETE /sales/:id up to the transaction.
ValidateDeleteSale(w, s) ==
    LET c == sale[s].client
    IN  /\ sale[s].state = "live"
        /\ Deletable(s)
        /\ sale[s].type = "CREDIT" => active[c]
        /\ Accept(w, [Idle EXCEPT !.pc = "deleteSale", !.client = c, !.sale = s,
                                  !.type = sale[s].type,
                                  !.amount = sale[s].total,
                                  !.before = balance[c],
                                  !.after = balance[c] - sale[s].total])

\* The transaction of a deletion.  A payment that was registered meanwhile
\* stays and loses its sale (ON DELETE SET NULL).
CommitDeleteSale(w) ==
    LET r == worker[w]
    IN  /\ r.pc = "deleteSale"
        /\ sale[r.sale].state = "live"
        /\ IF r.type = "CREDIT"
           THEN Book(r.client, "CREDIT_SALE_REVERSED", -r.amount, r)
           ELSE UNCHANGED <<balance, book, audit>>
        /\ sale' = [sale EXCEPT ![r.sale].state = "deleted"]
        /\ payment' = [p \in Payments |->
                         IF payment[p].sale = r.sale
                         THEN [payment[p] EXCEPT !.sale = Null]
                         ELSE payment[p]]
        /\ worker' = [worker EXCEPT ![w] = Idle]
        /\ UNCHANGED active

-----------------------------------------------------------------------------
(* Payments.                                                               *)

\* POST /payments up to the transaction: at most the balance, and for a sale of
\* this client that is not PAID at most what remains of it.
ValidatePayment(w, c, s, amount) ==
    /\ active[c]
    /\ amount <= balance[c]
    /\ s # Null =>
         /\ sale[s].state = "live"
         /\ sale[s].client = c
         /\ sale[s].status # "PAID"
         /\ amount <= Remaining(s)
    /\ Accept(w, [Idle EXCEPT !.pc = "createPayment", !.client = c, !.sale = s,
                              !.amount = amount, !.before = balance[c],
                              !.after = balance[c] - amount])

\* The transaction of a payment, also run for the initial payment of a sale.
CommitPayment(w, p) ==
    LET r == worker[w]
    IN  /\ r.pc \in {"createPayment", "initialPayment"}
        /\ payment[p].state = "unused"
        /\ r.sale # Null => sale[r.sale].state = "live"
        /\ payment' = [payment EXCEPT ![p] =
                         [state |-> "live", client |-> r.client,
                          sale |-> r.sale, amount |-> r.amount]]
        /\ Book(r.client, "PAYMENT_RECEIVED", -r.amount, r)
        /\ IF r.sale = Null
           THEN UNCHANGED sale
           ELSE sale' = [sale EXCEPT ![r.sale].status =
                           IF Paid(r.sale) + r.amount >= sale[r.sale].total
                           THEN "PAID" ELSE "PARTIAL"]
        /\ worker' = [worker EXCEPT ![w] = Idle]
        /\ UNCHANGED active

\* PUT /payments/:id with an amount, up to the transaction.
ValidateUpdatePayment(w, p, amount) ==
    LET c == payment[p].client
        s == payment[p].sale
        after == balance[c] + payment[p].amount - amount
    IN  /\ payment[p].state = "live"
        /\ active[c]
        /\ after >= 0
        /\ s # Null =>
             Paid(s) - payment[p].amount + amount <= sale[s].total
        /\ Accept(w, [Idle EXCEPT !.pc = "updatePayment", !.payment = p,
                                  !.amount = amount, !.before = balance[c],
                                  !.after = after])

\* DELETE /payments/:id up to the transaction.
ValidateDeletePayment(w, p) ==
    LET c == payment[p].client
    IN  /\ payment[p].state = "live"
        /\ active[c]
        /\ Accept(w, [Idle EXCEPT !.pc = "deletePayment", !.payment = p,
                                  !.before = balance[c],
                                  !.after = balance[c] + payment[p].amount])

\* Both transactions begin by reading the payment, without a lock on it.
ReadPayment(w) ==
    LET r == worker[w]
        existing == payment[r.payment]
    IN  /\ r.pc \in {"updatePayment", "deletePayment"}
        /\ existing.state = "live"
        /\ worker' = [worker EXCEPT ![w] =
                        [r EXCEPT !.pc = IF r.pc = "updatePayment"
                                         THEN "updatePaymentTx"
                                         ELSE "deletePaymentTx",
                                  !.client = existing.client,
                                  !.sale = existing.sale,
                                  !.old = existing.amount]]
        /\ UNCHANGED <<active, balance, book, audit, sale, payment>>

\* What a correction adds to the balance: the difference to the amount that was
\* read, not to the amount the row holds now.
AdjustmentReversed(r) == r.amount - r.old
Adjustment(r) == r.old - r.amount

\* The sale of a corrected payment gets the status of its new payment total.
RecomputeSkipped(s, paid) == UNCHANGED sale

Recompute(s, paid) ==
    IF s = Null
    THEN UNCHANGED sale
    ELSE /\ sale[s].state = "live"
         /\ sale' = [sale EXCEPT ![s].status = StatusFor(paid, sale[s].total)]

\* The rest of the update.
CommitUpdatePayment(w) ==
    LET r == worker[w]
    IN  /\ r.pc = "updatePaymentTx"
        /\ payment[r.payment].state = "live"
        /\ payment' = [payment EXCEPT ![r.payment].amount = r.amount]
        /\ Book(r.client, "PAYMENT_ADJUSTED", Adjustment(r), r)
        /\ Recompute(r.sale, Paid(r.sale) - payment[r.payment].amount + r.amount)
        /\ worker' = [worker EXCEPT ![w] = Idle]
        /\ UNCHANGED active

\* The rest of the deletion: the balance gets back the amount that was read, and
\* deleting a row that is gone fails (deleteMany would not).
CommitDeletePaymentMany(w) ==
    LET r == worker[w]
    IN  /\ r.pc = "deletePaymentTx"
        /\ payment' = [payment EXCEPT ![r.payment].state = "deleted"]
        /\ Book(r.client, "PAYMENT_REMOVED", r.old, r)
        /\ worker' = [worker EXCEPT ![w] = Idle]
        /\ UNCHANGED <<active, sale>>

CommitDeletePayment(w) ==
    LET r == worker[w]
    IN  /\ r.pc = "deletePaymentTx"
        /\ payment[r.payment].state = "live"
        /\ payment' = [payment EXCEPT ![r.payment].state = "deleted"]
        /\ Book(r.client, "PAYMENT_REMOVED", r.old, r)
        /\ Recompute(r.sale, Paid(r.sale) - payment[r.payment].amount)
        /\ worker' = [worker EXCEPT ![w] = Idle]
        /\ UNCHANGED active

-----------------------------------------------------------------------------
(* Clients and failures.                                                   *)

\* DELETE /clients/:id: a soft delete, whatever the client still owes.
DeactivateClient(c) ==
    /\ "deactivateClient" \in Operations
    /\ active[c]
    /\ active' = [active EXCEPT ![c] = FALSE]
    /\ UNCHANGED <<balance, book, audit, sale, payment, worker>>

\* The request fails: its open transaction leaves nothing behind.
AbortAfterBooking(w) ==
    LET r == worker[w]
    IN  /\ r.pc = "deletePaymentTx"
        /\ Book(r.client, "PAYMENT_REMOVED", r.old, r)
        /\ worker' = [worker EXCEPT ![w] = Idle]
        /\ UNCHANGED <<active, sale, payment>>

Abort(w) ==
    /\ worker[w].pc # "idle"
    /\ worker' = [worker EXCEPT ![w] = Idle]
    /\ UNCHANGED <<active, balance, book, audit, sale, payment>>

-----------------------------------------------------------------------------
SaleRequests(w) ==
    \/ \E c \in Clients, type \in SaleTypes, total \in Amounts, initial \in 0..MaxAmount :
         ValidateSale(w, c, type, total, initial)
    \/ \E s \in Sales : CommitSale(w, s)
    \/ \E s \in Sales : ValidateDeleteSale(w, s)
    \/ CommitDeleteSale(w)

PaymentRequests(w) ==
    \/ \E c \in Clients, s \in Sales \cup {Null}, amount \in Amounts :
         ValidatePayment(w, c, s, amount)
    \/ \E p \in Payments : CommitPayment(w, p)
    \/ \E p \in Payments, amount \in Amounts : ValidateUpdatePayment(w, p, amount)
    \/ \E p \in Payments : ValidateDeletePayment(w, p)
    \/ ReadPayment(w)
    \/ CommitUpdatePayment(w)
    \/ CommitDeletePayment(w)

Next ==
    \/ \E w \in Workers : SaleRequests(w) \/ PaymentRequests(w) \/ Abort(w)
    \/ \E c \in Clients : DeactivateClient(c)

Spec == Init /\ [][Next]_vars

-----------------------------------------------------------------------------
(* Properties.                                                             *)

Count(c, kind) == Cardinality({i \in DOMAIN book[c] : book[c][i].kind = kind})

CreditSalesOf(c) == {s \in Sales : sale[s].client = c /\ sale[s].type = "CREDIT"}

OpenSalesOf(c) == {s \in CreditSalesOf(c) : sale[s].state = "live"}
PaymentsBy(c) == {p \in Payments : payment[p].state = "live" /\ payment[p].client = c}
TotalOf == [s \in Sales |-> sale[s].total]

\* What client c should owe: the open credit sales less every payment kept.
Debt(c) ==
    SumFunctionOnSet(TotalOf, OpenSalesOf(c)) - SumFunctionOnSet(AmountOf, PaymentsBy(c))

\* The book of a client is a chain: every entry's balanceAfter is its
\* predecessor's plus its own delta, and the balance of the client row is where
\* the chain ends, although every request validated against a balance that
\* other requests have moved since.
LedgerChain ==
    \A c \in Clients :
      /\ \A i \in 1..Len(book[c]) :
            book[c][i].balanceAfter
              = (IF i = 1 THEN 0 ELSE book[c][i - 1].balanceAfter) + book[c][i].delta
      /\ balance[c] = IF book[c] = <<>> THEN 0
                      ELSE book[c][Len(book[c])].balanceAfter

\* Whatever payments are registered, corrected, deleted or lose their sale
\* meanwhile, a live credit sale shows the status its payments add up to.
SaleStatusAgrees ==
    \A s \in Sales :
      sale[s].state = "live" /\ sale[s].type = "CREDIT"
        => sale[s].status = StatusFor(Paid(s), sale[s].total)

\* Nothing is booked twice or forgotten: the entries of each kind are as many as
\* the rows that were created and deleted, although two requests may both have
\* validated the deletion of one row and a failed request may be repeated.
TablesMatchBook ==
    \A c \in Clients :
      /\ Count(c, "CREDIT_SALE_OPENED") = Cardinality(CreditSalesOf(c))
      /\ Count(c, "CREDIT_SALE_REVERSED")
           = Cardinality({s \in CreditSalesOf(c) : sale[s].state = "deleted"})
      /\ Count(c, "PAYMENT_RECEIVED")
           = Cardinality({p \in Payments : payment[p].client = c})
      /\ Count(c, "PAYMENT_REMOVED")
           = Cardinality({p \in Payments : /\ payment[p].client = c
                                           /\ payment[p].state = "deleted"})

\* As long as no payment amount of a client has been corrected, its balance is
\* exactly its open credit sales less its payments, under every interleaving.
ExactUntilAdjusted ==
    \A c \in Clients : Count(c, "PAYMENT_ADJUSTED") = 0 => balance[c] = Debt(c)

\* The balance is exactly the open credit sales less the payments, corrections
\* included: what PUT /payments/:id promises, and what one request at a time
\* keeps.
BalanceExact == \A c \in Clients : balance[c] = Debt(c)

\* No sale is paid more than its total (the checks of the payment use cases).
PaidWithinTotal ==
    \A s \in Sales : sale[s].state = "live" => Paid(s) <= sale[s].total

\* The audit trail tells the same story as the book: before and after of every
\* row are the balances around the entry of the same operation.
AuditMatchesBook ==
    \A c \in Clients :
      /\ Len(audit[c]) = Len(book[c])
      /\ \A i \in 1..Len(audit[c]) :
           /\ audit[c][i].after = book[c][i].balanceAfter
           /\ audit[c][i].before = book[c][i].balanceAfter - book[c][i].delta

\* A payment registered for a sale keeps it: deleting a sale is refused while it
\* has payments, so the SET NULL of the foreign key never takes effect.
PaymentsKeepTheirSale ==
    [][\A p \in Payments :
         payment[p].sale # Null /\ payment'[p].state = "live"
           => payment'[p].sale = payment[p].sale]_vars

\* The ledger implements the abstract account book.
ImplementsAccount == Accounts!Spec

=============================================================================
