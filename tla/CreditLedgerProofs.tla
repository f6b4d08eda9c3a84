------------------------- MODULE CreditLedgerProofs -------------------------
(***************************************************************************)
(* Theorems about CreditLedger, for any numbers of clients, sales,         *)
(* payments and concurrent requests, any credit limit and any bounds: the  *)
(* balance is what the book says and no step skips an entry; the status of *)
(* a sale is the one its payments add up to, the book has one entry for    *)
(* each row that was created or deleted, and until a payment is corrected  *)
(* the balance is what the open sales and the payments say.  At the end,   *)
(* what holds of requests that do not overlap.                             *)
(***************************************************************************)
EXTENDS CreditLedger, Sums

-----------------------------------------------------------------------------
(* Type correctness.                                                       *)

\* Booking a movement with a delta of the right type keeps the tables typed.
LEMMA BookType ==
    ASSUME TypeOK, NEW c \in Clients, NEW k \in Kinds, NEW d \in Deltas,
           NEW r \in Request, Book(c, k, d, r)
    PROVE  /\ balance' \in [Clients -> Int]
           /\ book' \in [Clients -> Seq(Accounts!Entry)]
           /\ audit' \in [Clients -> Seq(AuditRow)]
<1> USE BoundsAssumption
<1> DEFINE e == [kind |-> k, delta |-> d, balanceAfter |-> balance[c] + d]
           a == [before |-> r.before, after |-> r.after]
<1>1. d \in Int /\ balance[c] \in Int
  BY DEF TypeOK, Deltas
<1>2. e \in Accounts!Entry
  BY <1>1 DEF Accounts!Entry
<1>3. a \in AuditRow
  BY DEF AuditRow, Request
<1>4. balance' \in [Clients -> Int]
  BY <1>1 DEF Book, TypeOK
<1>5. Append(book[c], e) \in Seq(Accounts!Entry)
  BY <1>2 DEF TypeOK
<1>6. Append(audit[c], a) \in Seq(AuditRow)
  BY <1>3 DEF TypeOK
<1>7. book' = [book EXCEPT ![c] = Append(book[c], e)]
  BY DEF Book
<1>8. audit' = [audit EXCEPT ![c] = Append(audit[c], a)]
  BY DEF Book
<1> HIDE DEF e, a
<1> QED
  BY <1>4, <1>5, <1>6, <1>7, <1>8 DEF TypeOK

\* The idle request and the initial states are typed.
LEMMA IdleType == Idle \in Request
  BY BoundsAssumption DEF Idle, Request, Steps, SaleTypes

LEMMA InitType == Init => TypeOK
<1> SUFFICES ASSUME Init PROVE TypeOK
  OBVIOUS
<1>1. worker \in [Workers -> Request]
  BY IdleType DEF Init
<1>2. /\ active \in [Clients -> BOOLEAN]
      /\ balance \in [Clients -> Int]
      /\ book \in [Clients -> Seq(Accounts!Entry)]
      /\ audit \in [Clients -> Seq(AuditRow)]
  BY DEF Init
<1>3. sale \in [Sales -> SaleRow]
  BY BoundsAssumption DEF Init, SaleRow, RowStates, SaleTypes, SaleStatuses
<1>4. payment \in [Payments -> PaymentRow]
  BY BoundsAssumption DEF Init, PaymentRow, RowStates
<1> QED
  BY <1>1, <1>2, <1>3, <1>4 DEF TypeOK

\* A request that has validated is typed, and nothing else changes.
LEMMA AcceptType ==
    ASSUME TypeOK, NEW w \in Workers, NEW r \in Request, Accept(w, r)
    PROVE  TypeOK'
  BY DEF Accept, TypeOK

\* The rows and the requests refer to clients, sales and payments that exist:
\* the foreign keys of the tables, and what each step of a request has read.
References ==
    /\ \A s \in Sales : sale[s].state # "unused" => sale[s].client \in Clients
    /\ \A p \in Payments : payment[p].state # "unused" => payment[p].client \in Clients
    /\ \A w \in Workers :
         /\ worker[w].pc \in {"createSale", "initialPayment", "createPayment",
                              "updatePaymentTx", "deletePaymentTx"}
              => worker[w].client \in Clients
         /\ worker[w].pc \in {"updatePayment", "updatePaymentTx", "deletePayment",
                              "deletePaymentTx"}
              => worker[w].payment \in Payments
         /\ worker[w].pc = "deleteSale"
              => worker[w].client \in Clients /\ worker[w].sale \in Sales

TypeInv == TypeOK /\ References

\* Accepting a typed request whose references exist keeps the invariant.
LEMMA AcceptInv ==
    ASSUME TypeInv, NEW w \in Workers, NEW r \in Request, Accept(w, r),
           r.pc \in {"createSale", "createPayment", "deleteSale"}
             => r.client \in Clients,
           r.pc = "deleteSale" => r.sale \in Sales,
           r.pc \in {"updatePayment", "deletePayment"} => r.payment \in Payments,
           r.pc \in {"createSale", "createPayment", "deleteSale",
                     "updatePayment", "deletePayment"}
    PROVE  TypeInv'
<1>1. TypeOK'
  BY AcceptType DEF TypeInv
<1>2. /\ worker' = [worker EXCEPT ![w] = r]
      /\ UNCHANGED <<sale, payment>>
      /\ worker \in [Workers -> Request]
  BY DEF Accept, TypeInv, TypeOK
<1>3. References'
  BY <1>2 DEF TypeInv, References
<1> QED
  BY <1>1, <1>3 DEF TypeInv

\* The queries of the sale use cases.
LEMMA ValidateSaleInv ==
    ASSUME TypeInv, NEW w \in Workers, NEW c \in Clients, NEW type \in SaleTypes,
           NEW total \in Amounts, NEW initial \in 0..MaxAmount,
           ValidateSale(w, c, type, total, initial)
    PROVE  TypeInv'
<1> DEFINE before == balance[c]
           after == balance[c] + total
           r == [Idle EXCEPT !.pc = "createSale", !.client = c, !.type = type,
                             !.amount = total, !.initial = initial,
                             !.before = before, !.after = after]
<1>1. Accept(w, r)
  BY DEF ValidateSale
<1>2. /\ before \in Int /\ after \in Int
      /\ total \in 0..MaxAmount /\ "createSale" \in Steps
  BY BoundsAssumption DEF TypeInv, TypeOK, Amounts, Steps
<1> HIDE DEF before, after
<1>3. r \in Request
  BY <1>2, IdleType DEF Request
<1>4. r.pc = "createSale" /\ r.client = c
  BY IdleType DEF Request
<1> HIDE DEF r
<1> QED
  BY <1>1, <1>3, <1>4, AcceptInv

LEMMA ValidateDeleteSaleInv ==
    ASSUME TypeInv, NEW w \in Workers, NEW s \in Sales, ValidateDeleteSale(w, s)
    PROVE  TypeInv'
<1> DEFINE c == sale[s].client
           type == sale[s].type
           total == sale[s].total
           before == balance[c]
           after == balance[c] - total
           r == [Idle EXCEPT !.pc = "deleteSale", !.client = c, !.sale = s,
                             !.type = type, !.amount = total,
                             !.before = before, !.after = after]
<1>1. Accept(w, r)
  BY DEF ValidateDeleteSale
<1>2. /\ type \in SaleTypes /\ total \in 0..MaxAmount
      /\ c \in Clients /\ "deleteSale" \in Steps
  BY DEF TypeInv, TypeOK, SaleRow, References, ValidateDeleteSale, Steps
<1>3. before \in Int /\ after \in Int
  BY <1>2, BoundsAssumption DEF TypeInv, TypeOK
<1> HIDE DEF c, type, total, before, after
<1>4. r \in Request
  BY <1>2, <1>3, IdleType DEF Request
<1>5. r.pc = "deleteSale" /\ r.client = c /\ r.sale = s
  BY IdleType DEF Request
<1> HIDE DEF r
<1> QED
  BY <1>1, <1>2, <1>4, <1>5, AcceptInv

\* The queries of the payment use cases.
LEMMA ValidatePaymentInv ==
    ASSUME TypeInv, NEW w \in Workers, NEW c \in Clients,
           NEW s \in Sales \cup {Null}, NEW amount \in Amounts,
           ValidatePayment(w, c, s, amount)
    PROVE  TypeInv'
<1> DEFINE before == balance[c]
           after == balance[c] - amount
           r == [Idle EXCEPT !.pc = "createPayment", !.client = c, !.sale = s,
                             !.amount = amount, !.before = before,
                             !.after = after]
<1>1. Accept(w, r)
  BY DEF ValidatePayment
<1>2. /\ before \in Int /\ after \in Int
      /\ amount \in 0..MaxAmount /\ "createPayment" \in Steps
  BY BoundsAssumption DEF TypeInv, TypeOK, Amounts, Steps
<1> HIDE DEF before, after
<1>3. r \in Request
  BY <1>2, IdleType DEF Request
<1>4. r.pc = "createPayment" /\ r.client = c
  BY IdleType DEF Request
<1> HIDE DEF r
<1> QED
  BY <1>1, <1>3, <1>4, AcceptInv

LEMMA ValidateUpdatePaymentInv ==
    ASSUME TypeInv, NEW w \in Workers, NEW p \in Payments, NEW amount \in Amounts,
           ValidateUpdatePayment(w, p, amount)
    PROVE  TypeInv'
<1> DEFINE before == balance[payment[p].client]
           after == balance[payment[p].client] + payment[p].amount - amount
           r == [Idle EXCEPT !.pc = "updatePayment", !.payment = p,
                             !.amount = amount, !.before = before,
                             !.after = after]
<1>1. Accept(w, r)
  BY DEF ValidateUpdatePayment
<1>2. /\ payment[p].amount \in 0..MaxAmount /\ amount \in 0..MaxAmount
      /\ payment[p].client \in Clients /\ "updatePayment" \in Steps
  BY BoundsAssumption
     DEF TypeInv, TypeOK, PaymentRow, References, ValidateUpdatePayment, Amounts, Steps
<1>3. before \in Int /\ after \in Int
  BY <1>2, BoundsAssumption DEF TypeInv, TypeOK
<1> HIDE DEF before, after
<1>4. r \in Request
  BY <1>2, <1>3, IdleType DEF Request
<1>5. r.pc = "updatePayment" /\ r.payment = p
  BY IdleType DEF Request
<1> HIDE DEF r
<1> QED
  BY <1>1, <1>4, <1>5, AcceptInv

LEMMA ValidateDeletePaymentInv ==
    ASSUME TypeInv, NEW w \in Workers, NEW p \in Payments, ValidateDeletePayment(w, p)
    PROVE  TypeInv'
<1> DEFINE before == balance[payment[p].client]
           after == balance[payment[p].client] + payment[p].amount
           r == [Idle EXCEPT !.pc = "deletePayment", !.payment = p,
                             !.before = before, !.after = after]
<1>1. Accept(w, r)
  BY DEF ValidateDeletePayment
<1>2. /\ payment[p].amount \in 0..MaxAmount
      /\ payment[p].client \in Clients /\ "deletePayment" \in Steps
  BY DEF TypeInv, TypeOK, PaymentRow, References, ValidateDeletePayment, Steps
<1>3. before \in Int /\ after \in Int
  BY <1>2, BoundsAssumption DEF TypeInv, TypeOK
<1> HIDE DEF before, after
<1>4. r \in Request
  BY <1>2, <1>3, IdleType DEF Request
<1>5. r.pc = "deletePayment" /\ r.payment = p
  BY IdleType DEF Request
<1> HIDE DEF r
<1> QED
  BY <1>1, <1>4, <1>5, AcceptInv

-----------------------------------------------------------------------------
(* Every step either books one movement or leaves the accounts alone.      *)

Unmoved == UNCHANGED <<balance, book, audit>>

Movement ==
    Unmoved \/ \E c \in Clients, k \in Kinds, d \in Deltas, r \in Request :
                 Book(c, k, d, r)

LEMMA CommitSaleMoves ==
    ASSUME TypeInv, NEW w \in Workers, NEW s \in Sales, CommitSale(w, s)
    PROVE  Movement
<1> DEFINE r == worker[w]
<1>1. r \in Request /\ r.client \in Clients
  BY DEF TypeInv, TypeOK, References, CommitSale
<1>2. r.amount \in Deltas
  BY <1>1, BoundsAssumption DEF Request, Deltas
<1>3. CASE r.type = "CREDIT"
  <2>1. Book(r.client, "CREDIT_SALE_OPENED", r.amount, r)
    BY <1>3 DEF CommitSale
  <2> HIDE DEF r
  <2> QED
    BY <2>1, <1>1, <1>2 DEF Movement, Kinds
<1>4. CASE r.type # "CREDIT"
  BY <1>4 DEF CommitSale, Movement, Unmoved
<1> QED
  BY <1>3, <1>4

LEMMA CommitDeleteSaleMoves ==
    ASSUME TypeInv, NEW w \in Workers, CommitDeleteSale(w)
    PROVE  Movement
<1> DEFINE r == worker[w]
<1>1. r \in Request /\ r.client \in Clients
  BY DEF TypeInv, TypeOK, References, CommitDeleteSale
<1>2. -r.amount \in Deltas
  BY <1>1, BoundsAssumption DEF Request, Deltas
<1>3. CASE r.type = "CREDIT"
  <2>1. Book(r.client, "CREDIT_SALE_REVERSED", -r.amount, r)
    BY <1>3 DEF CommitDeleteSale
  <2> HIDE DEF r
  <2> QED
    BY <2>1, <1>1, <1>2 DEF Movement, Kinds
<1>4. CASE r.type # "CREDIT"
  BY <1>4 DEF CommitDeleteSale, Movement, Unmoved
<1> QED
  BY <1>3, <1>4

LEMMA CommitPaymentMoves ==
    ASSUME TypeInv, NEW w \in Workers, NEW p \in Payments, CommitPayment(w, p)
    PROVE  Movement
<1> DEFINE r == worker[w]
<1>1. r \in Request /\ r.client \in Clients
  BY DEF TypeInv, TypeOK, References, CommitPayment
<1>2. -r.amount \in Deltas
  BY <1>1, BoundsAssumption DEF Request, Deltas
<1>3. Book(r.client, "PAYMENT_RECEIVED", -r.amount, r)
  BY DEF CommitPayment
<1> HIDE DEF r
<1> QED
  BY <1>1, <1>2, <1>3 DEF Movement, Kinds

LEMMA CommitUpdatePaymentMoves ==
    ASSUME TypeInv, NEW w \in Workers, CommitUpdatePayment(w)
    PROVE  Movement
<1> DEFINE r == worker[w]
<1>1. r \in Request /\ r.client \in Clients
  BY DEF TypeInv, TypeOK, References, CommitUpdatePayment
<1>2. Adjustment(r) \in Deltas
  BY <1>1, BoundsAssumption DEF Request, Deltas, Adjustment
<1>3. Book(r.client, "PAYMENT_ADJUSTED", Adjustment(r), r)
  BY DEF CommitUpdatePayment
<1> HIDE DEF r
<1> QED
  BY <1>1, <1>2, <1>3 DEF Movement, Kinds

LEMMA CommitDeletePaymentMoves ==
    ASSUME TypeInv, NEW w \in Workers, CommitDeletePayment(w)
    PROVE  Movement
<1> DEFINE r == worker[w]
<1>1. r \in Request /\ r.client \in Clients
  BY DEF TypeInv, TypeOK, References, CommitDeletePayment
<1>2. r.old \in Deltas
  BY <1>1, BoundsAssumption DEF Request, Deltas
<1>3. Book(r.client, "PAYMENT_REMOVED", r.old, r)
  BY DEF CommitDeletePayment
<1> HIDE DEF r
<1> QED
  BY <1>1, <1>2, <1>3 DEF Movement, Kinds

\* Every step of the specification, the five commits and all the others.
LEMMA StepMoves ==
    ASSUME TypeInv, [Next]_vars
    PROVE  Movement
<1>1. CASE UNCHANGED vars
  BY <1>1 DEF vars, Movement, Unmoved
<1>2. ASSUME NEW w \in Workers, SaleRequests(w)
      PROVE  Movement
  <2>1. ASSUME NEW c \in Clients, NEW type \in SaleTypes, NEW total \in Amounts,
               NEW initial \in 0..MaxAmount, ValidateSale(w, c, type, total, initial)
        PROVE  Movement
    BY <2>1 DEF ValidateSale, Accept, Movement, Unmoved
  <2>2. ASSUME NEW s \in Sales, ValidateDeleteSale(w, s)
        PROVE  Movement
    BY <2>2 DEF ValidateDeleteSale, Accept, Movement, Unmoved
  <2> QED
    BY <1>2, <2>1, <2>2, CommitSaleMoves, CommitDeleteSaleMoves DEF SaleRequests
<1>3. ASSUME NEW w \in Workers, PaymentRequests(w)
      PROVE  Movement
  <2>1. ASSUME NEW c \in Clients, NEW s \in Sales \cup {Null},
               NEW amount \in Amounts, ValidatePayment(w, c, s, amount)
        PROVE  Movement
    BY <2>1 DEF ValidatePayment, Accept, Movement, Unmoved
  <2>2. ASSUME NEW p \in Payments, NEW amount \in Amounts,
               ValidateUpdatePayment(w, p, amount)
        PROVE  Movement
    BY <2>2 DEF ValidateUpdatePayment, Accept, Movement, Unmoved
  <2>3. ASSUME NEW p \in Payments, ValidateDeletePayment(w, p)
        PROVE  Movement
    BY <2>3 DEF ValidateDeletePayment, Accept, Movement, Unmoved
  <2>4. ASSUME ReadPayment(w) PROVE Movement
    BY <2>4 DEF ReadPayment, Movement, Unmoved
  <2> QED
    BY <1>3, <2>1, <2>2, <2>3, <2>4, CommitPaymentMoves,
       CommitUpdatePaymentMoves, CommitDeletePaymentMoves DEF PaymentRequests
<1>4. ASSUME NEW w \in Workers, Abort(w)
      PROVE  Movement
  BY <1>4 DEF Abort, Movement, Unmoved
<1>5. ASSUME NEW c \in Clients, DeactivateClient(c)
      PROVE  Movement
  BY <1>5 DEF DeactivateClient, Movement, Unmoved
<1> QED
  BY <1>1, <1>2, <1>3, <1>4, <1>5 DEF Next

-----------------------------------------------------------------------------
(* The invariant is inductive.                                             *)

AccountsTyped ==
    /\ balance \in [Clients -> Int]
    /\ book \in [Clients -> Seq(Accounts!Entry)]
    /\ audit \in [Clients -> Seq(AuditRow)]

\* Any step keeps the balances, the books and the audit trail typed.
LEMMA AccountsType ==
    ASSUME TypeInv, [Next]_vars
    PROVE  AccountsTyped'
<1>1. TypeOK
  BY DEF TypeInv
<1>2. CASE Unmoved
  BY <1>1, <1>2 DEF Unmoved, TypeOK, AccountsTyped
<1>3. ASSUME NEW c \in Clients, NEW k \in Kinds, NEW d \in Deltas,
             NEW r \in Request, Book(c, k, d, r)
      PROVE  AccountsTyped'
  BY <1>1, <1>3, BookType DEF AccountsTyped
<1> QED
  BY <1>2, <1>3, StepMoves DEF Movement

\* What is left of the invariant once the accounts are typed.
RowsTyped ==
    /\ active \in [Clients -> BOOLEAN]
    /\ sale \in [Sales -> SaleRow]
    /\ payment \in [Payments -> PaymentRow]
    /\ worker \in [Workers -> Request]

LEMMA TypeInvParts == TypeInv <=> AccountsTyped /\ RowsTyped /\ References
  BY DEF TypeInv, TypeOK, AccountsTyped, RowsTyped

LEMMA CommitSaleRows ==
    ASSUME TypeInv, NEW w \in Workers, NEW s \in Sales, CommitSale(w, s)
    PROVE  RowsTyped' /\ References'
<1> DEFINE r == worker[w]
           row == [state |-> "live", client |-> r.client, type |-> r.type,
                   total |-> r.amount,
                   status |-> IF r.type = "CASH" THEN "PAID" ELSE "PENDING"]
           next == IF r.initial = 0 THEN Idle ELSE InitialPayment(r, s)
           before == r.after
           after == r.after - r.initial
<1>1. r \in Request /\ r.client \in Clients
  BY DEF TypeInv, TypeOK, References, CommitSale
<1>2. /\ sale' = [sale EXCEPT ![s] = row]
      /\ worker' = [worker EXCEPT ![w] = next]
      /\ UNCHANGED <<active, payment>>
  BY DEF CommitSale
<1>3. row \in SaleRow /\ row.client \in Clients
  BY <1>1 DEF SaleRow, Request, RowStates, SaleStatuses
<1>4. InitialPayment(r, s)
        = [Idle EXCEPT !.pc = "initialPayment", !.client = r.client, !.sale = s,
                       !.amount = r.initial, !.before = before, !.after = after]
  BY DEF InitialPayment
<1>5. /\ before \in Int /\ after \in Int
      /\ r.initial \in 0..MaxAmount /\ "initialPayment" \in Steps
  BY <1>1, BoundsAssumption DEF Request, Steps
<1> HIDE DEF before, after, row
<1>6. InitialPayment(r, s) \in Request
  <2> DEFINE amount == r.initial
             client == r.client
  <2>1. InitialPayment(r, s)
          = [pc |-> "initialPayment", client |-> client, sale |-> s,
             payment |-> Null, type |-> "CASH", amount |-> amount, initial |-> 0,
             old |-> 0, before |-> before, after |-> after]
    BY <1>4 DEF Idle
  <2>2. /\ amount \in 0..MaxAmount /\ client \in Clients
        /\ 0 \in 0..MaxAmount /\ "CASH" \in SaleTypes
    BY <1>1, <1>5, BoundsAssumption DEF SaleTypes
  <2> HIDE DEF amount, client, r
  <2> QED
    BY <1>5, <2>1, <2>2 DEF Request
<1>7. /\ InitialPayment(r, s).pc = "initialPayment"
      /\ InitialPayment(r, s).client = r.client
  BY <1>4, IdleType DEF Request
<1>8. next \in Request /\ next.pc \in {"idle", "initialPayment"}
  BY <1>6, <1>7, IdleType DEF Idle
<1>9. next.pc = "initialPayment" => next.client \in Clients
  BY <1>1, <1>7 DEF Idle
<1> HIDE DEF r, next
<1> QED
  BY <1>2, <1>3, <1>8, <1>9 DEF TypeInv, TypeOK, RowsTyped, References

LEMMA CommitDeleteSaleRows ==
    ASSUME TypeInv, NEW w \in Workers, CommitDeleteSale(w)
    PROVE  RowsTyped' /\ References'
<1> DEFINE s == worker[w].sale
<1>1. s \in Sales
  BY DEF TypeInv, References, CommitDeleteSale
<1>2. /\ sale' = [sale EXCEPT ![s].state = "deleted"]
      /\ payment' = [p \in Payments |->
                       IF payment[p].sale = s
                       THEN [payment[p] EXCEPT !.sale = Null] ELSE payment[p]]
      /\ worker' = [worker EXCEPT ![w] = Idle]
      /\ UNCHANGED active
      /\ sale[s].state = "live"
  BY DEF CommitDeleteSale
<1>3. sale' \in [Sales -> SaleRow]
  <2> DEFINE row == [sale[s] EXCEPT !.state = "deleted"]
  <2>1. sale \in [Sales -> SaleRow]
    BY DEF TypeInv, TypeOK
  <2>2. row \in SaleRow
    BY <1>1, <2>1 DEF SaleRow, RowStates
  <2>3. sale' = [sale EXCEPT ![s] = row]
    BY <1>2
  <2> HIDE DEF row
  <2> QED
    BY <2>1, <2>2, <2>3
<1>4. payment' \in [Payments -> PaymentRow]
  <2>1. payment \in [Payments -> PaymentRow]
    BY DEF TypeInv, TypeOK
  <2>2. ASSUME NEW p \in Payments
        PROVE  [payment[p] EXCEPT !.sale = Null] \in PaymentRow
    BY <2>1 DEF PaymentRow
  <2> QED
    BY <1>2, <2>1, <2>2
<1>5. worker' \in [Workers -> Request] /\ active' \in [Clients -> BOOLEAN]
  BY <1>2, IdleType DEF TypeInv, TypeOK
<1>6. \A t \in Sales : sale'[t].state # "unused" => sale'[t].client \in Clients
  BY <1>1, <1>2 DEF TypeInv, TypeOK, References, SaleRow
<1>7. \A p \in Payments :
        payment'[p].state # "unused" => payment'[p].client \in Clients
  BY <1>2 DEF TypeInv, TypeOK, References, PaymentRow
<1> QED
  BY <1>2, <1>3, <1>4, <1>5, <1>6, <1>7
     DEF TypeInv, TypeOK, RowsTyped, References, Idle

\* The statuses a payment transaction writes are statuses.
LEMMA StatusForType == \A paid, total : StatusFor(paid, total) \in SaleStatuses
  BY DEF StatusFor, SaleStatuses

SalesTyped ==
    /\ sale \in [Sales -> SaleRow]
    /\ \A s \in Sales : sale[s].state # "unused" => sale[s].client \in Clients

PaymentsTyped ==
    /\ payment \in [Payments -> PaymentRow]
    /\ \A p \in Payments : payment[p].state # "unused" => payment[p].client \in Clients

LEMMA TablesTyped == TypeInv => SalesTyped /\ PaymentsTyped
  BY DEF TypeInv, TypeOK, References, SalesTyped, PaymentsTyped

\* Writing a status keeps the sales typed.
LEMMA StatusWritten ==
    ASSUME SalesTyped, NEW s, NEW status \in SaleStatuses,
           sale' = [sale EXCEPT ![s].status = status]
    PROVE  SalesTyped'
<1>1. CASE s \in Sales
  <2> DEFINE row == [sale[s] EXCEPT !.status = status]
  <2>1. row \in SaleRow
    BY <1>1 DEF SalesTyped, SaleRow
  <2>2. row.state = sale[s].state /\ row.client = sale[s].client
    BY <1>1 DEF SalesTyped, SaleRow
  <2>3. sale' = [sale EXCEPT ![s] = row]
    OBVIOUS
  <2> HIDE DEF row
  <2> QED
    BY <2>1, <2>2, <2>3, <1>1 DEF SalesTyped
<1>2. CASE s \notin Sales
  <2>1. sale' = sale
    BY <1>2 DEF SalesTyped
  <2> QED
    BY <2>1 DEF SalesTyped
<1> QED
  BY <1>1, <1>2

\* Writing a payment whose client exists keeps the payments typed.
LEMMA PaymentWritten ==
    ASSUME PaymentsTyped, NEW p \in Payments, NEW row \in PaymentRow,
           row.client \in Clients, payment' = [payment EXCEPT ![p] = row]
    PROVE  PaymentsTyped'
  BY DEF PaymentsTyped

\* An action that ends its request: the tables decide the rest.
LEMMA IdleWorker ==
    ASSUME TypeInv, NEW w \in Workers, worker' = [worker EXCEPT ![w] = Idle],
           UNCHANGED active, SalesTyped', PaymentsTyped'
    PROVE  RowsTyped' /\ References'
<1>1. worker' \in [Workers -> Request]
  BY IdleType DEF TypeInv, TypeOK
<1>2. Idle.pc = "idle"
  BY DEF Idle
<1> QED
  BY <1>1, <1>2
     DEF TypeInv, TypeOK, RowsTyped, References, SalesTyped, PaymentsTyped

LEMMA CommitPaymentRows ==
    ASSUME TypeInv, NEW w \in Workers, NEW p \in Payments, CommitPayment(w, p)
    PROVE  RowsTyped' /\ References'
<1> DEFINE r == worker[w]
           row == [state |-> "live", client |-> r.client, sale |-> r.sale,
                   amount |-> r.amount]
           status == IF Paid(r.sale) + r.amount >= sale[r.sale].total
                     THEN "PAID" ELSE "PARTIAL"
<1>1. r \in Request /\ r.client \in Clients
  BY DEF TypeInv, TypeOK, References, CommitPayment
<1>2. /\ payment' = [payment EXCEPT ![p] = row]
      /\ worker' = [worker EXCEPT ![w] = Idle]
      /\ UNCHANGED active
  BY DEF CommitPayment
<1>3. sale' = sale \/ sale' = [sale EXCEPT ![r.sale].status = status]
  BY DEF CommitPayment
<1>4. row \in PaymentRow /\ row.client \in Clients
  BY <1>1 DEF PaymentRow, Request, RowStates
<1>5. status \in SaleStatuses
  BY DEF SaleStatuses
<1> HIDE DEF r, row, status
<1>6. SalesTyped'
  BY <1>3, <1>5, TablesTyped, StatusWritten DEF SalesTyped
<1>7. PaymentsTyped'
  BY <1>2, <1>4, TablesTyped, PaymentWritten
<1> QED
  BY <1>2, <1>6, <1>7, IdleWorker

\* Recomputing the status of a sale keeps the sales typed.
LEMMA RecomputeType ==
    ASSUME SalesTyped, NEW s, NEW paid, Recompute(s, paid)
    PROVE  SalesTyped'
<1>1. CASE sale' = sale
  BY <1>1 DEF SalesTyped
<1>2. CASE sale' = [sale EXCEPT ![s].status = StatusFor(paid, sale[s].total)]
  BY <1>2, StatusWritten, StatusForType
<1> QED
  BY <1>1, <1>2 DEF Recompute

LEMMA ReadPaymentRows ==
    ASSUME TypeInv, NEW w \in Workers, ReadPayment(w)
    PROVE  RowsTyped' /\ References'
<1> DEFINE r == worker[w]
           p == r.payment
           c == payment[p].client
           s == payment[p].sale
           old == payment[p].amount
           pc == IF r.pc = "updatePayment" THEN "updatePaymentTx" ELSE "deletePaymentTx"
           next == [r EXCEPT !.pc = pc, !.client = c, !.sale = s, !.old = old]
<1>1. r \in Request /\ p \in Payments
  BY DEF TypeInv, TypeOK, References, ReadPayment
<1>2. /\ worker' = [worker EXCEPT ![w] = next]
      /\ UNCHANGED <<active, balance, book, audit, sale, payment>>
      /\ payment[p].state = "live"
  BY DEF ReadPayment
<1>3. /\ c \in Clients /\ s \in Sales \cup {Null} /\ old \in 0..MaxAmount
      /\ pc \in Steps /\ pc \in {"updatePaymentTx", "deletePaymentTx"}
  BY <1>1, <1>2 DEF TypeInv, TypeOK, References, PaymentRow, Steps
<1> HIDE DEF r, c, s, old, pc
<1>4. next \in Request
  BY <1>1, <1>3 DEF Request
<1>5. next.pc = pc /\ next.client = c /\ next.payment = p
  BY <1>1 DEF Request
<1> HIDE DEF next, p
<1> QED
  BY <1>1, <1>2, <1>3, <1>4, <1>5 DEF TypeInv, TypeOK, RowsTyped, References

LEMMA CommitUpdatePaymentRows ==
    ASSUME TypeInv, NEW w \in Workers, CommitUpdatePayment(w)
    PROVE  RowsTyped' /\ References'
<1> DEFINE r == worker[w]
           p == r.payment
           paid == Paid(r.sale) - payment[p].amount + r.amount
           row == [payment[p] EXCEPT !.amount = r.amount]
<1>1. r \in Request /\ p \in Payments
  BY DEF TypeInv, TypeOK, References, CommitUpdatePayment
<1>2. /\ payment' = [payment EXCEPT ![p] = row]
      /\ payment[p].state = "live"
      /\ worker' = [worker EXCEPT ![w] = Idle]
      /\ UNCHANGED active
  BY DEF CommitUpdatePayment
<1>3. Recompute(r.sale, paid)
  BY DEF CommitUpdatePayment
<1>4. row \in PaymentRow /\ row.client \in Clients
  BY <1>1, <1>2, TablesTyped DEF PaymentsTyped, PaymentRow, Request
<1> HIDE DEF r, p, paid, row
<1>5. SalesTyped'
  BY <1>3, RecomputeType, TablesTyped
<1>6. PaymentsTyped'
  BY <1>1, <1>2, <1>4, PaymentWritten, TablesTyped
<1> QED
  BY <1>2, <1>5, <1>6, IdleWorker

LEMMA CommitDeletePaymentRows ==
    ASSUME TypeInv, NEW w \in Workers, CommitDeletePayment(w)
    PROVE  RowsTyped' /\ References'
<1> DEFINE r == worker[w]
           p == r.payment
           paid == Paid(r.sale) - payment[p].amount
           row == [payment[p] EXCEPT !.state = "deleted"]
<1>1. r \in Request /\ p \in Payments
  BY DEF TypeInv, TypeOK, References, CommitDeletePayment
<1>2. /\ payment' = [payment EXCEPT ![p] = row]
      /\ payment[p].state = "live"
      /\ worker' = [worker EXCEPT ![w] = Idle]
      /\ UNCHANGED active
  BY DEF CommitDeletePayment
<1>3. Recompute(r.sale, paid)
  BY DEF CommitDeletePayment
<1>4. row \in PaymentRow /\ row.client \in Clients
  BY <1>1, <1>2, TablesTyped DEF PaymentsTyped, PaymentRow, RowStates
<1> HIDE DEF r, p, paid, row
<1>5. SalesTyped'
  BY <1>3, RecomputeType, TablesTyped
<1>6. PaymentsTyped'
  BY <1>1, <1>2, <1>4, PaymentWritten, TablesTyped
<1> QED
  BY <1>2, <1>5, <1>6, IdleWorker

\* An action that only accepts, aborts or deactivates.
LEMMA AbortRows ==
    ASSUME TypeInv, NEW w \in Workers, Abort(w)
    PROVE  RowsTyped' /\ References'
<1>1. SalesTyped' /\ PaymentsTyped'
  BY TablesTyped DEF Abort, SalesTyped, PaymentsTyped
<1> QED
  BY <1>1, IdleWorker DEF Abort

LEMMA DeactivateClientRows ==
    ASSUME TypeInv, NEW c \in Clients, DeactivateClient(c)
    PROVE  RowsTyped' /\ References'
  BY DEF DeactivateClient, TypeInv, TypeOK, RowsTyped, References

\* One step of the specification keeps the rows and the requests typed.
LEMMA RowsStep ==
    ASSUME TypeInv, [Next]_vars
    PROVE  RowsTyped' /\ References'
<1>1. CASE UNCHANGED vars
  BY <1>1 DEF vars, TypeInv, TypeOK, RowsTyped, References
<1>2. ASSUME NEW w \in Workers, SaleRequests(w)
      PROVE  RowsTyped' /\ References'
  BY <1>2, ValidateSaleInv, ValidateDeleteSaleInv, CommitSaleRows,
     CommitDeleteSaleRows DEF SaleRequests, TypeInv, TypeOK, RowsTyped
<1>3. ASSUME NEW w \in Workers, PaymentRequests(w)
      PROVE  RowsTyped' /\ References'
  BY <1>3, ValidatePaymentInv, ValidateUpdatePaymentInv,
     ValidateDeletePaymentInv, CommitPaymentRows, ReadPaymentRows,
     CommitUpdatePaymentRows, CommitDeletePaymentRows
     DEF PaymentRequests, TypeInv, TypeOK, RowsTyped
<1> QED
  BY <1>1, <1>2, <1>3, AbortRows, DeactivateClientRows DEF Next

\* The invariant holds initially and every step keeps it.
LEMMA InitInv == Init => TypeInv
<1> SUFFICES ASSUME Init PROVE References
  BY InitType DEF TypeInv
<1> QED
  BY DEF Init, References, Idle

LEMMA StepInv == TypeInv /\ [Next]_vars => TypeInv'
<1> SUFFICES ASSUME TypeInv, [Next]_vars PROVE TypeInv'
  OBVIOUS
<1> QED
  BY AccountsType, RowsStep DEF TypeInv, TypeOK, AccountsTyped, RowsTyped

\* Type correctness (TypeOK): in every reachable state the rows, the books, the
\* audit trail and the requests in flight have their types.
THEOREM TypeCorrect == Spec => []TypeOK
<1>1. TypeInv => TypeOK
  BY DEF TypeInv
<1> QED
  BY <1>1, InitInv, StepInv, PTL DEF Spec

-----------------------------------------------------------------------------
(* The books are chains that end in the balances.                          *)

\* A movement extends the chain of its client and leaves the others alone.
LEMMA BookChains ==
    ASSUME TypeInv, LedgerChain, NEW c \in Clients, NEW k \in Kinds,
           NEW d \in Deltas, NEW r \in Request, Book(c, k, d, r)
    PROVE  LedgerChain'
<1> DEFINE e == [kind |-> k, delta |-> d, balanceAfter |-> balance[c] + d]
<1>1. /\ balance' = [balance EXCEPT ![c] = balance[c] + d]
      /\ book' = [book EXCEPT ![c] = Append(book[c], e)]
  BY DEF Book
<1>2. /\ balance \in [Clients -> Int]
      /\ book \in [Clients -> Seq(Accounts!Entry)]
      /\ d \in Int
  BY BoundsAssumption DEF TypeInv, TypeOK, Deltas
<1>3. e.balanceAfter = balance[c] + d /\ e.delta = d /\ e \in Accounts!Entry
  BY <1>2 DEF Accounts!Entry
<1> HIDE DEF e
<1> DEFINE n == Len(book[c])
           q == Append(book[c], e)
<1>4. /\ n \in Nat /\ Len(q) = n + 1 /\ q[n + 1] = e
      /\ \A i \in 1..n : q[i] = book[c][i]
      /\ q # <<>> /\ (book[c] = <<>> <=> n = 0)
  <2>1. book[c] \in Seq(Accounts!Entry)
    BY <1>2
  <2>2. n \in Nat /\ (book[c] = <<>> <=> n = 0)
    BY <2>1
  <2>3. Len(q) = n + 1 /\ q[n + 1] = e
    BY <2>1, <1>3
  <2>4. \A i \in 1..n : q[i] = book[c][i]
    BY <2>1, <1>3
  <2>5. q # <<>>
    BY <2>1, <1>3
  <2> QED
    BY <2>2, <2>3, <2>4, <2>5
<1>5. balance[c] = IF n = 0 THEN 0 ELSE book[c][n].balanceAfter
  BY <1>4 DEF LedgerChain
<1>6. \A i \in 1..n :
        q[i].balanceAfter = (IF i = 1 THEN 0 ELSE q[i - 1].balanceAfter) + q[i].delta
  <2> SUFFICES ASSUME NEW i \in 1..n
               PROVE  q[i].balanceAfter
                        = (IF i = 1 THEN 0 ELSE q[i - 1].balanceAfter) + q[i].delta
    OBVIOUS
  <2>1. book[c][i].balanceAfter
          = (IF i = 1 THEN 0 ELSE book[c][i - 1].balanceAfter) + book[c][i].delta
    BY DEF LedgerChain
  <2>2. q[i] = book[c][i] /\ (i # 1 => q[i - 1] = book[c][i - 1])
    BY <1>4
  <2> HIDE DEF q
  <2> QED
    BY <2>1, <2>2
<1>7. q[n + 1].balanceAfter
        = (IF n + 1 = 1 THEN 0 ELSE q[n].balanceAfter) + q[n + 1].delta
  <2>1. n # 0 => q[n] = book[c][n]
    BY <1>4
  <2> HIDE DEF q
  <2> QED
    BY <2>1, <1>3, <1>4, <1>5
<1>8. book'[c] = q /\ balance'[c] = q[Len(q)].balanceAfter
  <2>1. book'[c] = q /\ balance'[c] = balance[c] + d
    BY <1>1, <1>2
  <2> HIDE DEF q
  <2> QED
    BY <2>1, <1>3, <1>4
<1>9. \A x \in Clients \ {c} : book'[x] = book[x] /\ balance'[x] = balance[x]
  BY <1>1, <1>2
<1>10. \A i \in 1..Len(q) :
         q[i].balanceAfter = (IF i = 1 THEN 0 ELSE q[i - 1].balanceAfter) + q[i].delta
  <2> HIDE DEF q
  <2>1. \A i \in 1..Len(q) : i \in 1..n \/ i = n + 1
    BY <1>4
  <2>2. (n + 1) - 1 = n
    BY <1>4
  <2> HIDE DEF n
  <2> QED
    BY <2>1, <2>2, <1>6, <1>7
<1> HIDE DEF q
<1>11. ASSUME NEW x \in Clients
       PROVE  /\ \A i \in 1..Len(book'[x]) :
                    book'[x][i].balanceAfter
                      = (IF i = 1 THEN 0 ELSE book'[x][i - 1].balanceAfter)
                          + book'[x][i].delta
              /\ balance'[x] = IF book'[x] = <<>> THEN 0
                               ELSE book'[x][Len(book'[x])].balanceAfter
  <2>1. CASE x = c
    BY <2>1, <1>4, <1>8, <1>10
  <2>2. CASE x # c
    BY <2>2, <1>9 DEF LedgerChain
  <2> QED
    BY <2>1, <2>2
<1> QED
  BY <1>11 DEF LedgerChain

\* The ledger is a chain (LedgerChain): every entry continues from the balance
\* its predecessor recorded, and the client row holds the last of them, for
\* every number of concurrent requests and although they validate on stale data.
THEOREM LedgerChained == Spec => []LedgerChain
<1>1. Init => TypeInv /\ LedgerChain
  BY InitInv DEF Init, LedgerChain
<1>2. TypeInv /\ LedgerChain /\ [Next]_vars => TypeInv' /\ LedgerChain'
  <2> SUFFICES ASSUME TypeInv, LedgerChain, [Next]_vars
               PROVE  LedgerChain'
    BY StepInv
  <2>1. CASE Unmoved
    BY <2>1 DEF Unmoved, LedgerChain
  <2>2. CASE Movement /\ ~Unmoved
    BY <2>2, BookChains DEF Movement
  <2> QED
    BY <2>1, <2>2, StepMoves
<1> QED
  BY <1>1, <1>2, PTL DEF Spec

-----------------------------------------------------------------------------
(* The ledger implements the abstract account book.                        *)

\* A movement of the ledger is an entry posted to the abstract book.
LEMMA BookPosts ==
    ASSUME NEW c \in Clients, NEW k \in Kinds, NEW d \in Deltas,
           NEW r \in Request, Book(c, k, d, r)
    PROVE  Accounts!Next
<1> DEFINE entry == [kind |-> k, delta |-> d, balanceAfter |-> balance[c] + d]
<1>1. entry.balanceAfter = balance[c] + d
  OBVIOUS
<1>2. /\ balance' = [balance EXCEPT ![c] = entry.balanceAfter]
      /\ book' = [book EXCEPT ![c] = Append(book[c], entry)]
  BY <1>1 DEF Book
<1>3. Accounts!Post(c, k, d)
  BY <1>2 DEF Accounts!Post
<1> QED
  BY <1>3 DEF Accounts!Next

\* Refinement (ImplementsAccount): every step of the ledger, whatever requests
\* are in flight, posts one entry to one client's book or touches no account.
THEOREM LedgerImplementsAccount == Spec => ImplementsAccount
<1>1. Init => Accounts!Init
  BY DEF Init, Accounts!Init
<1>2. TypeInv /\ [Next]_vars => [Accounts!Next]_(Accounts!vars)
  <2> SUFFICES ASSUME TypeInv, [Next]_vars
               PROVE  [Accounts!Next]_(Accounts!vars)
    OBVIOUS
  <2>1. CASE Unmoved
    BY <2>1 DEF Unmoved, Accounts!vars
  <2>2. CASE Movement /\ ~Unmoved
    BY <2>2, BookPosts DEF Movement
  <2> QED
    BY <2>1, <2>2, StepMoves
<1> QED
  BY <1>1, <1>2, InitInv, StepInv, PTL DEF Spec, ImplementsAccount, Accounts!Spec

-----------------------------------------------------------------------------
(* How the rows refer to each other, and what a request in flight still    *)
(* knows of the rows it has read.                                          *)

RowsLinked ==
    /\ \A s \in Sales :
         /\ sale[s].state = "unused" => sale[s].client = Null
         /\ sale[s].state = "live" => sale[s].total \in Amounts
    /\ \A p \in Payments :
         /\ payment[p].state = "unused" => payment[p].client = Null /\ payment[p].sale = Null
         /\ payment[p].sale # Null => sale[payment[p].sale].state = "live"

\* A correction or deletion in its transaction: the sale it has read is still
\* the sale of the payment, or is gone.
HasReadPayment(r) ==
    /\ payment[r.payment].state # "unused"
    /\ r.client = payment[r.payment].client
    /\ \/ r.sale = payment[r.payment].sale
       \/ r.sale # Null /\ sale[r.sale].state = "deleted"

HasReadSale(r) ==
    /\ sale[r.sale].state # "unused"
    /\ r.client = sale[r.sale].client
    /\ r.type = sale[r.sale].type
    /\ r.amount = sale[r.sale].total

KnowsRows(r) ==
    /\ r.pc \in {"createSale", "createPayment", "initialPayment"} => r.amount \in Amounts
    /\ r.pc = "deleteSale" => HasReadSale(r)
    /\ r.pc \in {"updatePaymentTx", "deletePaymentTx"} => HasReadPayment(r)

Linked == RowsLinked /\ \A w \in Workers : KnowsRows(worker[w])

LinkedInv == TypeInv /\ Linked

\* Accepting a request leaves the rows alone.
LEMMA AcceptLinked ==
    ASSUME LinkedInv, NEW w \in Workers, NEW r \in Request, Accept(w, r), KnowsRows(r)
    PROVE  Linked'
<1>1. worker' = [worker EXCEPT ![w] = r] /\ UNCHANGED <<sale, payment>>
  BY DEF Accept
<1>2. worker \in [Workers -> Request]
  BY DEF LinkedInv, TypeInv, TypeOK
<1>4. \A x \in Workers : worker'[x] = IF x = w THEN r ELSE worker[x]
  BY <1>1, <1>2
<1>5. \A x \in Workers : KnowsRows(worker[x])
  BY DEF LinkedInv, Linked
<1>6. ASSUME NEW x \in Workers PROVE KnowsRows(worker[x])'
  <2>1. CASE x = w
    BY <2>1, <1>1, <1>4 DEF KnowsRows, HasReadPayment, HasReadSale
  <2>2. CASE x # w
    BY <2>2, <1>1, <1>4, <1>5 DEF KnowsRows, HasReadPayment, HasReadSale
  <2> QED
    BY <2>1, <2>2
<1>7. RowsLinked'
  BY <1>1 DEF LinkedInv, Linked, RowsLinked
<1> QED
  BY <1>6, <1>7 DEF Linked

LEMMA ValidateSaleLinked ==
    ASSUME LinkedInv, NEW w \in Workers, NEW c \in Clients, NEW type \in SaleTypes,
           NEW total \in Amounts, NEW initial \in 0..MaxAmount,
           ValidateSale(w, c, type, total, initial)
    PROVE  Linked'
<1> DEFINE before == balance[c]
           after == balance[c] + total
           r == [Idle EXCEPT !.pc = "createSale", !.client = c, !.type = type,
                             !.amount = total, !.initial = initial,
                             !.before = before, !.after = after]
<1>1. Accept(w, r)
  BY DEF ValidateSale
<1>2. /\ before \in Int /\ after \in Int
      /\ total \in 0..MaxAmount /\ "createSale" \in Steps
  BY BoundsAssumption DEF LinkedInv, TypeInv, TypeOK, Amounts, Steps
<1> HIDE DEF before, after
<1>3. r \in Request
  BY <1>2, IdleType DEF Request
<1>4. r.pc = "createSale" /\ r.amount = total
  BY IdleType DEF Request
<1> HIDE DEF r
<1> QED
  BY <1>1, <1>3, <1>4, AcceptLinked DEF KnowsRows

LEMMA ValidateDeleteSaleLinked ==
    ASSUME LinkedInv, NEW w \in Workers, NEW s \in Sales, ValidateDeleteSale(w, s)
    PROVE  Linked'
<1> DEFINE c == sale[s].client
           type == sale[s].type
           total == sale[s].total
           before == balance[c]
           after == balance[c] - total
           r == [Idle EXCEPT !.pc = "deleteSale", !.client = c, !.sale = s,
                             !.type = type, !.amount = total,
                             !.before = before, !.after = after]
<1>1. Accept(w, r) /\ sale[s].state = "live"
  BY DEF ValidateDeleteSale
<1>2. /\ type \in SaleTypes /\ total \in 0..MaxAmount
      /\ c \in Clients /\ "deleteSale" \in Steps
  BY DEF LinkedInv, TypeInv, TypeOK, SaleRow, References, ValidateDeleteSale, Steps
<1>3. before \in Int /\ after \in Int
  BY <1>2, BoundsAssumption DEF LinkedInv, TypeInv, TypeOK
<1>4. c = sale[s].client /\ type = sale[s].type /\ total = sale[s].total
  OBVIOUS
<1> HIDE DEF c, type, total, before, after
<1>5. r \in Request
  BY <1>2, <1>3, IdleType DEF Request
<1>6. /\ r.pc = "deleteSale" /\ r.client = c /\ r.sale = s
      /\ r.type = type /\ r.amount = total
  BY IdleType DEF Request
<1> HIDE DEF r
<1>7. KnowsRows(r)
  BY <1>1, <1>4, <1>6 DEF KnowsRows, HasReadSale
<1> QED
  BY <1>1, <1>5, <1>7, AcceptLinked

LEMMA ValidatePaymentLinked ==
    ASSUME LinkedInv, NEW w \in Workers, NEW c \in Clients,
           NEW s \in Sales \cup {Null}, NEW amount \in Amounts,
           ValidatePayment(w, c, s, amount)
    PROVE  Linked'
<1> DEFINE before == balance[c]
           after == balance[c] - amount
           r == [Idle EXCEPT !.pc = "createPayment", !.client = c, !.sale = s,
                             !.amount = amount, !.before = before,
                             !.after = after]
<1>1. Accept(w, r)
  BY DEF ValidatePayment
<1>2. /\ before \in Int /\ after \in Int
      /\ amount \in 0..MaxAmount /\ "createPayment" \in Steps
  BY BoundsAssumption DEF LinkedInv, TypeInv, TypeOK, Amounts, Steps
<1> HIDE DEF before, after
<1>3. r \in Request
  BY <1>2, IdleType DEF Request
<1>4. r.pc = "createPayment" /\ r.amount = amount
  BY IdleType DEF Request
<1> HIDE DEF r
<1> QED
  BY <1>1, <1>3, <1>4, AcceptLinked DEF KnowsRows

LEMMA ValidateUpdatePaymentLinked ==
    ASSUME LinkedInv, NEW w \in Workers, NEW p \in Payments, NEW amount \in Amounts,
           ValidateUpdatePayment(w, p, amount)
    PROVE  Linked'
<1> DEFINE before == balance[payment[p].client]
           after == balance[payment[p].client] + payment[p].amount - amount
           r == [Idle EXCEPT !.pc = "updatePayment", !.payment = p,
                             !.amount = amount, !.before = before,
                             !.after = after]
<1>1. Accept(w, r)
  BY DEF ValidateUpdatePayment
<1>2. /\ payment[p].amount \in 0..MaxAmount /\ amount \in 0..MaxAmount
      /\ payment[p].client \in Clients /\ "updatePayment" \in Steps
  BY BoundsAssumption
     DEF LinkedInv, TypeInv, TypeOK, PaymentRow, References, ValidateUpdatePayment,
         Amounts, Steps
<1>3. before \in Int /\ after \in Int
  BY <1>2, BoundsAssumption DEF LinkedInv, TypeInv, TypeOK
<1> HIDE DEF before, after
<1>4. r \in Request
  BY <1>2, <1>3, IdleType DEF Request
<1>5. r.pc = "updatePayment"
  BY IdleType DEF Request
<1> HIDE DEF r
<1> QED
  BY <1>1, <1>4, <1>5, AcceptLinked DEF KnowsRows

LEMMA ValidateDeletePaymentLinked ==
    ASSUME LinkedInv, NEW w \in Workers, NEW p \in Payments, ValidateDeletePayment(w, p)
    PROVE  Linked'
<1> DEFINE before == balance[payment[p].client]
           after == balance[payment[p].client] + payment[p].amount
           r == [Idle EXCEPT !.pc = "deletePayment", !.payment = p,
                             !.before = before, !.after = after]
<1>1. Accept(w, r)
  BY DEF ValidateDeletePayment
<1>2. /\ payment[p].amount \in 0..MaxAmount
      /\ payment[p].client \in Clients /\ "deletePayment" \in Steps
  BY DEF LinkedInv, TypeInv, TypeOK, PaymentRow, References, ValidateDeletePayment, Steps
<1>3. before \in Int /\ after \in Int
  BY <1>2, BoundsAssumption DEF LinkedInv, TypeInv, TypeOK
<1> HIDE DEF before, after
<1>4. r \in Request
  BY <1>2, <1>3, IdleType DEF Request
<1>5. r.pc = "deletePayment"
  BY IdleType DEF Request
<1> HIDE DEF r
<1> QED
  BY <1>1, <1>4, <1>5, AcceptLinked DEF KnowsRows

\* What the tables hold after each commit, row by row.
LEMMA CommitSaleEffect ==
    ASSUME LinkedInv, NEW w \in Workers, NEW s \in Sales, CommitSale(w, s)
    PROVE  LET r == worker[w]
           IN  /\ r \in Request /\ r.client \in Clients /\ r.amount \in Amounts
               /\ sale[s].state = "unused"
               /\ \A x \in Sales \ {s} : sale'[x] = sale[x]
               /\ sale'[s] = [state |-> "live", client |-> r.client, type |-> r.type,
                              total |-> r.amount,
                              status |-> IF r.type = "CASH" THEN "PAID" ELSE "PENDING"]
               /\ payment' = payment
               /\ \A x \in Workers \ {w} : worker'[x] = worker[x]
               /\ worker'[w].pc \in {"idle", "initialPayment"}
               /\ worker'[w].pc = "initialPayment" => worker'[w].amount \in Amounts
<1> DEFINE r == worker[w]
           i == r.initial
           before == r.after
           after == r.after - i
           next == [Idle EXCEPT !.pc = "initialPayment", !.client = r.client,
                                !.sale = s, !.amount = i, !.before = before,
                                !.after = after]
           row == [state |-> "live", client |-> r.client, type |-> r.type,
                   total |-> r.amount,
                   status |-> IF r.type = "CASH" THEN "PAID" ELSE "PENDING"]
<1>1. r \in Request /\ r.client \in Clients /\ r.amount \in Amounts
  BY DEF LinkedInv, TypeInv, TypeOK, References, CommitSale, Linked, KnowsRows
<1>2. /\ sale' = [sale EXCEPT ![s] = row]
      /\ sale[s].state = "unused" /\ payment' = payment
      /\ worker' = [worker EXCEPT ![w] = IF i = 0 THEN Idle ELSE next]
  BY DEF CommitSale, InitialPayment
<1>3. i \in 0..MaxAmount /\ (i # 0 => i \in Amounts)
  BY <1>1, BoundsAssumption DEF Request, Amounts
<1> HIDE DEF i, before, after
<1>4. next.pc = "initialPayment" /\ next.amount = i /\ Idle.pc = "idle"
  BY IdleType DEF Request, Idle
<1>5. sale \in [Sales -> SaleRow] /\ worker \in [Workers -> Request]
  BY DEF LinkedInv, TypeInv, TypeOK
<1> HIDE DEF next, row
<1>6. /\ sale'[s] = row
      /\ \A x \in Sales \ {s} : sale'[x] = sale[x]
  BY <1>2, <1>5
<1>7. /\ worker'[w] = IF i = 0 THEN Idle ELSE next
      /\ \A x \in Workers \ {w} : worker'[x] = worker[x]
  BY <1>2, <1>5
<1> QED
  BY <1>1, <1>2, <1>3, <1>4, <1>6, <1>7 DEF row

LEMMA CommitDeleteSaleEffect ==
    ASSUME LinkedInv, NEW w \in Workers, CommitDeleteSale(w)
    PROVE  LET r == worker[w]
           IN  /\ r \in Request /\ r.client \in Clients /\ r.sale \in Sales
               /\ sale[r.sale].state = "live" /\ HasReadSale(r)
               /\ \A x \in Sales \ {r.sale} : sale'[x] = sale[x]
               /\ sale'[r.sale] = [sale[r.sale] EXCEPT !.state = "deleted"]
               /\ \A p \in Payments :
                    payment'[p] = IF payment[p].sale = r.sale
                                  THEN [payment[p] EXCEPT !.sale = Null]
                                  ELSE payment[p]
               /\ \A x \in Workers \ {w} : worker'[x] = worker[x]
               /\ worker'[w].pc = "idle"
<1> DEFINE r == worker[w]
           row == [sale[r.sale] EXCEPT !.state = "deleted"]
<1>1. /\ r \in Request /\ r.client \in Clients /\ r.sale \in Sales
      /\ sale[r.sale].state = "live" /\ HasReadSale(r)
  BY DEF LinkedInv, TypeInv, TypeOK, References, CommitDeleteSale, Linked, KnowsRows
<1>2. /\ sale' = [sale EXCEPT ![r.sale] = row]
      /\ payment' = [p \in Payments |->
                         IF payment[p].sale = r.sale
                         THEN [payment[p] EXCEPT !.sale = Null]
                         ELSE payment[p]]
      /\ worker' = [worker EXCEPT ![w] = Idle]
  BY DEF CommitDeleteSale
<1>3. sale \in [Sales -> SaleRow] /\ worker \in [Workers -> Request] /\ Idle.pc = "idle"
  BY DEF LinkedInv, TypeInv, TypeOK, Idle
<1> HIDE DEF row
<1>4. sale'[r.sale] = row /\ \A x \in Sales \ {r.sale} : sale'[x] = sale[x]
  BY <1>1, <1>2, <1>3
<1>5. worker'[w].pc = "idle" /\ \A x \in Workers \ {w} : worker'[x] = worker[x]
  BY <1>2, <1>3
<1> QED
  BY <1>1, <1>2, <1>4, <1>5 DEF row

\* The sale a payment transaction touches gets a status, the others stay.
SaleGets(s, status) ==
    \A x \in Sales : sale'[x] = IF x = s THEN [sale[x] EXCEPT !.status = status] ELSE sale[x]

LEMMA CommitPaymentEffect ==
    ASSUME LinkedInv, NEW w \in Workers, NEW p \in Payments, CommitPayment(w, p)
    PROVE  LET r == worker[w]
           IN  /\ r \in Request /\ r.client \in Clients /\ r.amount \in Amounts
               /\ r.sale # Null => r.sale \in Sales /\ sale[r.sale].state = "live"
               /\ payment[p].state = "unused"
               /\ \A x \in Payments \ {p} : payment'[x] = payment[x]
               /\ payment'[p] = [state |-> "live", client |-> r.client,
                                 sale |-> r.sale, amount |-> r.amount]
               /\ SaleGets(r.sale, IF Paid(r.sale) + r.amount >= sale[r.sale].total
                                   THEN "PAID" ELSE "PARTIAL")
               /\ \A x \in Workers \ {w} : worker'[x] = worker[x]
               /\ worker'[w].pc = "idle"
<1> DEFINE r == worker[w]
           row == [state |-> "live", client |-> r.client, sale |-> r.sale,
                   amount |-> r.amount]
           status == IF Paid(r.sale) + r.amount >= sale[r.sale].total
                     THEN "PAID" ELSE "PARTIAL"
<1>1. /\ r \in Request /\ r.client \in Clients /\ r.amount \in Amounts
      /\ r.sale \in Sales \cup {Null}
  BY DEF LinkedInv, TypeInv, TypeOK, References, CommitPayment, Linked, KnowsRows, Request
<1>2. /\ payment[p].state = "unused"
      /\ r.sale # Null => sale[r.sale].state = "live"
      /\ payment' = [payment EXCEPT ![p] = row]
      /\ worker' = [worker EXCEPT ![w] = Idle]
  BY DEF CommitPayment
<1>3. IF r.sale = Null THEN sale' = sale
      ELSE sale' = [sale EXCEPT ![r.sale].status = status]
  BY DEF CommitPayment
<1>4. /\ sale \in [Sales -> SaleRow] /\ payment \in [Payments -> PaymentRow]
      /\ worker \in [Workers -> Request] /\ Idle.pc = "idle"
  BY DEF LinkedInv, TypeInv, TypeOK, Idle
<1> HIDE DEF row, status
<1>5. SaleGets(r.sale, status)
  BY <1>1, <1>3, <1>4, NullAssumption DEF SaleGets
<1>6. payment'[p] = row /\ \A x \in Payments \ {p} : payment'[x] = payment[x]
  BY <1>2, <1>4
<1>7. worker'[w].pc = "idle" /\ \A x \in Workers \ {w} : worker'[x] = worker[x]
  BY <1>2, <1>4
<1> QED
  BY <1>1, <1>2, <1>5, <1>6, <1>7 DEF row, status

LEMMA RecomputeEffect ==
    ASSUME sale \in [Sales -> SaleRow], NEW s \in Sales \cup {Null}, NEW paid,
           Recompute(s, paid)
    PROVE  /\ s # Null => sale[s].state = "live"
           /\ SaleGets(s, StatusFor(paid, sale[s].total))
<1> DEFINE status == StatusFor(paid, sale[s].total)
<1>1. IF s = Null THEN sale' = sale
      ELSE sale[s].state = "live" /\ sale' = [sale EXCEPT ![s].status = status]
  BY DEF Recompute
<1> HIDE DEF status
<1>2. SaleGets(s, status)
  BY <1>1, NullAssumption DEF SaleGets
<1> QED
  BY <1>1, <1>2 DEF status

\* When the transaction of a correction commits, the sale it has read is the
\* sale the payment has: had it gone meanwhile, the status update would fail.
LEMMA CommitUpdatePaymentEffect ==
    ASSUME LinkedInv, NEW w \in Workers, CommitUpdatePayment(w)
    PROVE  LET r == worker[w]
               p == r.payment
           IN  /\ r \in Request /\ r.client \in Clients /\ p \in Payments
               /\ payment[p].state = "live"
               /\ payment[p].client = r.client /\ payment[p].sale = r.sale
               /\ r.sale # Null => r.sale \in Sales /\ sale[r.sale].state = "live"
               /\ \A x \in Payments \ {p} : payment'[x] = payment[x]
               /\ payment'[p] = [payment[p] EXCEPT !.amount = r.amount]
               /\ SaleGets(r.sale, StatusFor(Paid(r.sale) - payment[p].amount + r.amount,
                                             sale[r.sale].total))
               /\ \A x \in Workers \ {w} : worker'[x] = worker[x]
               /\ worker'[w].pc = "idle"
<1> DEFINE r == worker[w]
           p == r.payment
           row == [payment[p] EXCEPT !.amount = r.amount]
           paid == Paid(r.sale) - payment[p].amount + r.amount
<1>1. /\ r \in Request /\ r.client \in Clients /\ p \in Payments
      /\ r.sale \in Sales \cup {Null} /\ HasReadPayment(r)
  BY DEF LinkedInv, TypeInv, TypeOK, References, CommitUpdatePayment, Linked, KnowsRows,
         Request
<1>2. /\ payment[p].state = "live"
      /\ payment' = [payment EXCEPT ![p] = row]
      /\ worker' = [worker EXCEPT ![w] = Idle]
  BY DEF CommitUpdatePayment
<1>3. Recompute(r.sale, paid)
  BY DEF CommitUpdatePayment
<1>4. /\ sale \in [Sales -> SaleRow] /\ payment \in [Payments -> PaymentRow]
      /\ worker \in [Workers -> Request] /\ Idle.pc = "idle"
  BY DEF LinkedInv, TypeInv, TypeOK, Idle
<1> HIDE DEF row, paid
<1>5. /\ r.sale # Null => sale[r.sale].state = "live"
      /\ SaleGets(r.sale, StatusFor(paid, sale[r.sale].total))
  BY <1>1, <1>3, <1>4, RecomputeEffect
<1>6. payment'[p] = row /\ \A x \in Payments \ {p} : payment'[x] = payment[x]
  BY <1>1, <1>2, <1>4
<1>7. worker'[w].pc = "idle" /\ \A x \in Workers \ {w} : worker'[x] = worker[x]
  BY <1>2, <1>4
<1>8. payment[p].client = r.client /\ payment[p].sale = r.sale
  BY <1>1, <1>5 DEF HasReadPayment
<1> QED
  BY <1>1, <1>2, <1>5, <1>6, <1>7, <1>8 DEF row, paid

LEMMA CommitDeletePaymentEffect ==
    ASSUME LinkedInv, NEW w \in Workers, CommitDeletePayment(w)
    PROVE  LET r == worker[w]
               p == r.payment
           IN  /\ r \in Request /\ r.client \in Clients /\ p \in Payments
               /\ payment[p].state = "live"
               /\ payment[p].client = r.client /\ payment[p].sale = r.sale
               /\ r.sale # Null => r.sale \in Sales /\ sale[r.sale].state = "live"
               /\ \A x \in Payments \ {p} : payment'[x] = payment[x]
               /\ payment'[p] = [payment[p] EXCEPT !.state = "deleted"]
               /\ SaleGets(r.sale, StatusFor(Paid(r.sale) - payment[p].amount,
                                             sale[r.sale].total))
               /\ \A x \in Workers \ {w} : worker'[x] = worker[x]
               /\ worker'[w].pc = "idle"
<1> DEFINE r == worker[w]
           p == r.payment
           row == [payment[p] EXCEPT !.state = "deleted"]
           paid == Paid(r.sale) - payment[p].amount
<1>1. /\ r \in Request /\ r.client \in Clients /\ p \in Payments
      /\ r.sale \in Sales \cup {Null} /\ HasReadPayment(r)
  BY DEF LinkedInv, TypeInv, TypeOK, References, CommitDeletePayment, Linked, KnowsRows,
         Request
<1>2. /\ payment[p].state = "live"
      /\ payment' = [payment EXCEPT ![p] = row]
      /\ worker' = [worker EXCEPT ![w] = Idle]
  BY DEF CommitDeletePayment
<1>3. Recompute(r.sale, paid)
  BY DEF CommitDeletePayment
<1>4. /\ sale \in [Sales -> SaleRow] /\ payment \in [Payments -> PaymentRow]
      /\ worker \in [Workers -> Request] /\ Idle.pc = "idle"
  BY DEF LinkedInv, TypeInv, TypeOK, Idle
<1> HIDE DEF row, paid
<1>5. /\ r.sale # Null => sale[r.sale].state = "live"
      /\ SaleGets(r.sale, StatusFor(paid, sale[r.sale].total))
  BY <1>1, <1>3, <1>4, RecomputeEffect
<1>6. payment'[p] = row /\ \A x \in Payments \ {p} : payment'[x] = payment[x]
  BY <1>1, <1>2, <1>4
<1>7. worker'[w].pc = "idle" /\ \A x \in Workers \ {w} : worker'[x] = worker[x]
  BY <1>2, <1>4
<1>8. payment[p].client = r.client /\ payment[p].sale = r.sale
  BY <1>1, <1>5 DEF HasReadPayment
<1> QED
  BY <1>1, <1>2, <1>5, <1>6, <1>7, <1>8 DEF row, paid

-----------------------------------------------------------------------------
(* Every step keeps the rows linked.                                       *)

\* Rows are never unused again, keep their client and what a sale was for, and a
\* payment loses its sale only to a deletion.
RowsKept ==
    /\ \A s \in Sales :
         sale[s].state # "unused" =>
           /\ sale'[s].state # "unused" /\ sale'[s].client = sale[s].client
           /\ sale'[s].type = sale[s].type /\ sale'[s].total = sale[s].total
           /\ sale[s].state = "deleted" => sale'[s].state = "deleted"
    /\ \A p \in Payments :
         payment[p].state # "unused" =>
           /\ payment'[p].state # "unused" /\ payment'[p].client = payment[p].client
           /\ \/ payment'[p].sale = payment[p].sale
              \/ payment[p].sale # Null /\ sale'[payment[p].sale].state = "deleted"

\* A request in flight refers to rows that exist.
LEMMA InFlight ==
    ASSUME LinkedInv, NEW x \in Workers
    PROVE  /\ worker[x].pc = "deleteSale" => worker[x].sale \in Sales /\ HasReadSale(worker[x])
           /\ worker[x].pc \in {"updatePaymentTx", "deletePaymentTx"}
                => /\ worker[x].payment \in Payments /\ HasReadPayment(worker[x])
                   /\ worker[x].sale \in Sales \cup {Null}
  BY DEF LinkedInv, TypeInv, TypeOK, References, Request, Linked, KnowsRows

\* What an action that ends a request has to show for all the others.
LEMMA OthersKnow ==
    ASSUME LinkedInv, NEW w \in Workers,
           \A x \in Workers \ {w} : worker'[x] = worker[x],
           KnowsRows(worker[w])', RowsKept, RowsLinked'
    PROVE  Linked'
<1> SUFFICES ASSUME NEW x \in Workers \ {w} PROVE KnowsRows(worker[x])'
  BY DEF Linked
<1> DEFINE r == worker[x]
<1>1. KnowsRows(r) /\ worker'[x] = r
  BY DEF LinkedInv, Linked
<1>2. ASSUME r.pc = "deleteSale" PROVE HasReadSale(worker[x])'
  <2>1. r.sale \in Sales /\ HasReadSale(r)
    BY <1>2, InFlight
  <2> HIDE DEF r
  <2> QED
    BY <1>1, <2>1 DEF RowsKept, HasReadSale
<1>3. ASSUME r.pc \in {"updatePaymentTx", "deletePaymentTx"}
      PROVE  HasReadPayment(worker[x])'
  <2>1. r.payment \in Payments /\ HasReadPayment(r) /\ r.sale \in Sales \cup {Null}
    BY <1>3, InFlight
  <2> HIDE DEF r
  <2>2. /\ payment'[r.payment].state # "unused"
        /\ r.client = payment'[r.payment].client
    BY <2>1 DEF RowsKept, HasReadPayment
  <2>3. \/ r.sale = payment'[r.payment].sale
        \/ r.sale # Null /\ sale'[r.sale].state = "deleted"
    BY <2>1 DEF RowsKept, HasReadPayment
  <2> QED
    BY <1>1, <2>2, <2>3 DEF HasReadPayment
<1> QED
  BY <1>1, <1>2, <1>3 DEF KnowsRows

LEMMA LinkedTables ==
    LinkedInv => /\ sale \in [Sales -> SaleRow] /\ payment \in [Payments -> PaymentRow]
                 /\ RowsLinked
  BY DEF LinkedInv, TypeInv, TypeOK, Linked

LEMMA CommitSaleLinked ==
    ASSUME LinkedInv, NEW w \in Workers, NEW s \in Sales, CommitSale(w, s)
    PROVE  Linked'
<1> DEFINE r == worker[w]
<1>1. /\ r \in Request /\ r.client \in Clients /\ r.amount \in Amounts
      /\ sale[s].state = "unused"
      /\ \A x \in Sales \ {s} : sale'[x] = sale[x]
      /\ sale'[s] = [state |-> "live", client |-> r.client, type |-> r.type,
                     total |-> r.amount,
                     status |-> IF r.type = "CASH" THEN "PAID" ELSE "PENDING"]
      /\ payment' = payment
      /\ \A x \in Workers \ {w} : worker'[x] = worker[x]
      /\ worker'[w].pc \in {"idle", "initialPayment"}
      /\ worker'[w].pc = "initialPayment" => worker'[w].amount \in Amounts
  BY CommitSaleEffect
<1> HIDE DEF r
<1>0. /\ sale'[s].state = "live" /\ sale'[s].total \in Amounts
      /\ sale \in [Sales -> SaleRow] /\ payment \in [Payments -> PaymentRow] /\ RowsLinked
  BY <1>1, LinkedTables
<1>2. RowsLinked'
  BY <1>0, <1>1 DEF RowsLinked, PaymentRow
<1>3. KnowsRows(worker[w])'
  BY <1>1 DEF KnowsRows
<1>4. RowsKept
  BY <1>0, <1>1 DEF RowsKept, SaleRow, PaymentRow
<1> QED
  BY <1>1, <1>2, <1>3, <1>4, OthersKnow

LEMMA CommitDeleteSaleLinked ==
    ASSUME LinkedInv, NEW w \in Workers, CommitDeleteSale(w)
    PROVE  Linked'
<1> DEFINE s == worker[w].sale
<1>1. /\ s \in Sales /\ sale[s].state = "live"
      /\ \A x \in Sales \ {s} : sale'[x] = sale[x]
      /\ sale'[s] = [sale[s] EXCEPT !.state = "deleted"]
      /\ \A p \in Payments :
           payment'[p] = IF payment[p].sale = s
                         THEN [payment[p] EXCEPT !.sale = Null]
                         ELSE payment[p]
      /\ \A x \in Workers \ {w} : worker'[x] = worker[x]
      /\ worker'[w].pc = "idle"
  BY CommitDeleteSaleEffect
<1> HIDE DEF s
<1>0. sale \in [Sales -> SaleRow] /\ payment \in [Payments -> PaymentRow] /\ RowsLinked
  BY LinkedTables
<1>2. /\ sale'[s].state = "deleted" /\ sale'[s].client = sale[s].client
      /\ sale'[s].type = sale[s].type /\ sale'[s].total = sale[s].total
  BY <1>0, <1>1 DEF SaleRow
<1>3. \A p \in Payments :
        /\ payment'[p].state = payment[p].state /\ payment'[p].client = payment[p].client
        /\ payment'[p].sale = IF payment[p].sale = s THEN Null ELSE payment[p].sale
  <2> TAKE p \in Payments
  <2>1. payment[p] \in PaymentRow
    BY <1>0
  <2>2. payment'[p] = payment[p] \/ payment'[p] = [payment[p] EXCEPT !.sale = Null]
    BY <1>1
  <2> QED
    BY <1>1, <2>1, <2>2 DEF PaymentRow
<1>4. s # Null
  BY <1>1, NullAssumption
<1>5. RowsLinked'
  <2>1. \A x \in Sales : sale'[x].state = "unused" => sale'[x].client = Null
    BY ZenonT(60), <1>0, <1>1, <1>2 DEF RowsLinked
  <2>2. \A x \in Sales : sale'[x].state = "live" => sale'[x].total \in Amounts
    BY <1>0, <1>1, <1>2 DEF RowsLinked
  <2>3. \A p \in Payments :
          payment'[p].state = "unused" => payment'[p].client = Null /\ payment'[p].sale = Null
    BY <1>0, <1>3 DEF RowsLinked
  <2>4. \A p \in Payments :
          payment'[p].sale # Null => sale'[payment'[p].sale].state = "live"
    BY <1>0, <1>1, <1>3 DEF RowsLinked, PaymentRow
  <2> QED
    BY <2>1, <2>2, <2>3, <2>4 DEF RowsLinked
<1>6. KnowsRows(worker[w])'
  BY <1>1 DEF KnowsRows
<1>7. RowsKept
  BY <1>1, <1>2, <1>3, <1>4 DEF RowsKept, SaleRow, PaymentRow
<1> QED
  BY <1>1, <1>5, <1>6, <1>7, OthersKnow

\* A status is all a payment transaction changes in a sale.
LEMMA SaleGetsKeeps ==
    ASSUME sale \in [Sales -> SaleRow], NEW s, NEW status, SaleGets(s, status)
    PROVE  \A x \in Sales :
             /\ sale'[x].state = sale[x].state /\ sale'[x].client = sale[x].client
             /\ sale'[x].type = sale[x].type /\ sale'[x].total = sale[x].total
             /\ sale'[x].status = IF x = s THEN status ELSE sale[x].status
  BY DEF SaleGets, SaleRow

LEMMA CommitPaymentLinked ==
    ASSUME LinkedInv, NEW w \in Workers, NEW p \in Payments, CommitPayment(w, p)
    PROVE  Linked'
<1> DEFINE r == worker[w]
           status == IF Paid(r.sale) + r.amount >= sale[r.sale].total
                     THEN "PAID" ELSE "PARTIAL"
<1>1. /\ r.client \in Clients
      /\ r.sale # Null => r.sale \in Sales /\ sale[r.sale].state = "live"
      /\ payment[p].state = "unused"
      /\ \A x \in Payments \ {p} : payment'[x] = payment[x]
      /\ payment'[p] = [state |-> "live", client |-> r.client,
                        sale |-> r.sale, amount |-> r.amount]
      /\ SaleGets(r.sale, status)
      /\ \A x \in Workers \ {w} : worker'[x] = worker[x]
      /\ worker'[w].pc = "idle"
  BY CommitPaymentEffect
<1> HIDE DEF r, status
<1>0. /\ payment'[p].state = "live" /\ payment'[p].sale = r.sale
      /\ sale \in [Sales -> SaleRow] /\ payment \in [Payments -> PaymentRow] /\ RowsLinked
  BY <1>1, LinkedTables
<1>2. \A x \in Sales : /\ sale'[x].state = sale[x].state /\ sale'[x].client = sale[x].client
                       /\ sale'[x].type = sale[x].type /\ sale'[x].total = sale[x].total
  BY <1>0, <1>1, SaleGetsKeeps
<1>3. RowsLinked'
  BY <1>0, <1>1, <1>2 DEF RowsLinked, PaymentRow
<1>4. KnowsRows(worker[w])'
  BY <1>1 DEF KnowsRows
<1>5. RowsKept
  BY <1>1, <1>2 DEF RowsKept, SaleRow, PaymentRow
<1> QED
  BY <1>1, <1>3, <1>4, <1>5, OthersKnow

\* An amount or the state of a live payment changes; its links do not.
LEMMA PaymentChangedLinked ==
    ASSUME LinkedInv, NEW w \in Workers, NEW p \in Payments, NEW s, NEW status,
           payment[p].state = "live",
           \A x \in Payments \ {p} : payment'[x] = payment[x],
           payment'[p].state # "unused", payment'[p].client = payment[p].client,
           payment'[p].sale = payment[p].sale,
           SaleGets(s, status),
           \A x \in Workers \ {w} : worker'[x] = worker[x], worker'[w].pc = "idle"
    PROVE  Linked'
<1>1. \A x \in Sales : /\ sale'[x].state = sale[x].state /\ sale'[x].client = sale[x].client
                       /\ sale'[x].type = sale[x].type /\ sale'[x].total = sale[x].total
  BY LinkedTables, SaleGetsKeeps
<1>2. RowsLinked'
  BY <1>1, LinkedTables DEF RowsLinked, PaymentRow
<1>3. KnowsRows(worker[w])'
  BY DEF KnowsRows
<1>4. RowsKept
  BY <1>1 DEF RowsKept, SaleRow, PaymentRow
<1> QED
  BY <1>2, <1>3, <1>4, OthersKnow

LEMMA CommitUpdatePaymentLinked ==
    ASSUME LinkedInv, NEW w \in Workers, CommitUpdatePayment(w)
    PROVE  Linked'
<1> DEFINE r == worker[w]
           p == r.payment
           status == StatusFor(Paid(r.sale) - payment[p].amount + r.amount, sale[r.sale].total)
<1>1. /\ p \in Payments /\ payment[p].state = "live"
      /\ \A x \in Payments \ {p} : payment'[x] = payment[x]
      /\ payment'[p] = [payment[p] EXCEPT !.amount = r.amount]
      /\ SaleGets(r.sale, status)
      /\ \A x \in Workers \ {w} : worker'[x] = worker[x]
      /\ worker'[w].pc = "idle"
  BY CommitUpdatePaymentEffect
<1> HIDE DEF r, p, status
<1>2. /\ payment'[p].state = "live" /\ payment'[p].client = payment[p].client
      /\ payment'[p].sale = payment[p].sale
  BY <1>1, LinkedTables DEF PaymentRow
<1> QED
  BY <1>1, <1>2, PaymentChangedLinked

LEMMA CommitDeletePaymentLinked ==
    ASSUME LinkedInv, NEW w \in Workers, CommitDeletePayment(w)
    PROVE  Linked'
<1> DEFINE r == worker[w]
           p == r.payment
           status == StatusFor(Paid(r.sale) - payment[p].amount, sale[r.sale].total)
<1>1. /\ p \in Payments /\ payment[p].state = "live"
      /\ \A x \in Payments \ {p} : payment'[x] = payment[x]
      /\ payment'[p] = [payment[p] EXCEPT !.state = "deleted"]
      /\ SaleGets(r.sale, status)
      /\ \A x \in Workers \ {w} : worker'[x] = worker[x]
      /\ worker'[w].pc = "idle"
  BY CommitDeletePaymentEffect
<1> HIDE DEF r, p, status
<1>2. /\ payment'[p].state = "deleted" /\ payment'[p].client = payment[p].client
      /\ payment'[p].sale = payment[p].sale
  BY <1>1, LinkedTables DEF PaymentRow
<1> QED
  BY <1>1, <1>2, PaymentChangedLinked

LEMMA ReadPaymentEffect ==
    ASSUME LinkedInv, NEW w \in Workers, ReadPayment(w)
    PROVE  LET r == worker[w]
               p == r.payment
           IN  /\ r \in Request /\ p \in Payments /\ payment[p].state = "live"
               /\ UNCHANGED <<active, balance, book, audit, sale, payment>>
               /\ \A x \in Workers \ {w} : worker'[x] = worker[x]
               /\ worker'[w].pc = IF r.pc = "updatePayment" THEN "updatePaymentTx"
                                                           ELSE "deletePaymentTx"
               /\ worker'[w].payment = p /\ worker'[w].client = payment[p].client
               /\ worker'[w].sale = payment[p].sale /\ worker'[w].old = payment[p].amount
               /\ worker'[w].amount = r.amount
               /\ worker'[w].before = r.before /\ worker'[w].after = r.after
<1> DEFINE r == worker[w]
           p == r.payment
           c == payment[p].client
           s == payment[p].sale
           old == payment[p].amount
           pc == IF r.pc = "updatePayment" THEN "updatePaymentTx" ELSE "deletePaymentTx"
           next == [r EXCEPT !.pc = pc, !.client = c, !.sale = s, !.old = old]
<1>1. r \in Request /\ p \in Payments
  BY DEF LinkedInv, TypeInv, TypeOK, References, ReadPayment
<1>2. /\ worker' = [worker EXCEPT ![w] = next]
      /\ UNCHANGED <<active, balance, book, audit, sale, payment>>
      /\ payment[p].state = "live"
  BY DEF ReadPayment
<1>3. worker \in [Workers -> Request]
  BY DEF LinkedInv, TypeInv, TypeOK
<1> HIDE DEF c, s, old, pc
<1>4. /\ next.pc = pc /\ next.client = c /\ next.payment = p /\ next.sale = s
      /\ next.old = old /\ next.amount = r.amount
      /\ next.before = r.before /\ next.after = r.after
  BY <1>1 DEF Request
<1> HIDE DEF next
<1>5. worker'[w] = next /\ \A x \in Workers \ {w} : worker'[x] = worker[x]
  BY <1>2, <1>3
<1> QED
  BY <1>1, <1>2, <1>4, <1>5 DEF pc, c, s, old

LEMMA ReadPaymentLinked ==
    ASSUME LinkedInv, NEW w \in Workers, ReadPayment(w)
    PROVE  Linked'
<1> DEFINE p == worker[w].payment
<1>1. /\ p \in Payments /\ payment[p].state = "live"
      /\ UNCHANGED <<sale, payment>>
      /\ \A x \in Workers \ {w} : worker'[x] = worker[x]
      /\ worker'[w].pc \in {"updatePaymentTx", "deletePaymentTx"}
      /\ worker'[w].payment = p /\ worker'[w].client = payment[p].client
      /\ worker'[w].sale = payment[p].sale
  BY ReadPaymentEffect
<1> HIDE DEF p
<1>2. KnowsRows(worker[w])'
  BY <1>1 DEF KnowsRows, HasReadPayment
<1>3. RowsKept
  BY <1>1 DEF RowsKept
<1>4. RowsLinked'
  BY <1>1, LinkedTables DEF RowsLinked
<1> QED
  BY <1>1, <1>2, <1>3, <1>4, OthersKnow

LEMMA AbortLinked ==
    ASSUME LinkedInv, NEW w \in Workers, Abort(w)
    PROVE  Linked'
<1>1. /\ UNCHANGED <<sale, payment>>
      /\ worker' = [worker EXCEPT ![w] = Idle] /\ Idle.pc = "idle"
  BY DEF Abort, Idle
<1>2. worker'[w].pc = "idle" /\ \A x \in Workers \ {w} : worker'[x] = worker[x]
  BY <1>1 DEF LinkedInv, TypeInv, TypeOK
<1>3. KnowsRows(worker[w])'
  BY <1>2 DEF KnowsRows
<1>4. RowsKept
  BY <1>1 DEF RowsKept
<1>5. RowsLinked'
  BY <1>1, LinkedTables DEF RowsLinked
<1> QED
  BY <1>2, <1>3, <1>4, <1>5, OthersKnow

\* A step that changes no row and no request.
LEMMA RowsUntouched ==
    ASSUME LinkedInv, UNCHANGED <<sale, payment, worker>>
    PROVE  Linked'
  BY DEF LinkedInv, Linked, RowsLinked, KnowsRows, HasReadSale, HasReadPayment

LEMMA LinkedInit == Init => LinkedInv
<1> SUFFICES ASSUME Init PROVE Linked
  BY InitInv DEF LinkedInv
<1>1. RowsLinked
  BY DEF Init, RowsLinked
<1>2. \A w \in Workers : worker[w].pc = "idle"
  BY DEF Init, Idle
<1> QED
  BY <1>1, <1>2 DEF Linked, KnowsRows

LEMMA LinkedStep == LinkedInv /\ [Next]_vars => LinkedInv'
<1> SUFFICES ASSUME LinkedInv, [Next]_vars PROVE Linked'
  BY StepInv DEF LinkedInv
<1>1. CASE UNCHANGED vars
  BY <1>1, RowsUntouched DEF vars
<1>2. ASSUME NEW w \in Workers, SaleRequests(w)
      PROVE  Linked'
  BY <1>2, ValidateSaleLinked, ValidateDeleteSaleLinked, CommitSaleLinked,
     CommitDeleteSaleLinked DEF SaleRequests
<1>3. ASSUME NEW w \in Workers, PaymentRequests(w)
      PROVE  Linked'
  BY <1>3, ValidatePaymentLinked, ValidateUpdatePaymentLinked,
     ValidateDeletePaymentLinked, CommitPaymentLinked, ReadPaymentLinked,
     CommitUpdatePaymentLinked, CommitDeletePaymentLinked DEF PaymentRequests
<1>4. ASSUME NEW w \in Workers, Abort(w)
      PROVE  Linked'
  BY <1>4, AbortLinked
<1>5. ASSUME NEW c \in Clients, DeactivateClient(c)
      PROVE  Linked'
  BY <1>5, RowsUntouched DEF DeactivateClient
<1> QED
  BY <1>1, <1>2, <1>3, <1>4, <1>5 DEF Next

-----------------------------------------------------------------------------
(* The status of a sale is the one its payments add up to.                 *)

\* The payments of a sale are finitely many and add up to a natural number.
LEMMA PaidNat ==
    ASSUME LinkedInv, NEW s
    PROVE  IsFiniteSet(PaymentsOf(s)) /\ Paid(s) \in Nat
<1>1. IsFiniteSet(PaymentsOf(s))
  BY TablesFinite, FS_Subset DEF PaymentsOf
<1>2. \A p \in PaymentsOf(s) : AmountOf[p] \in Nat
  BY LinkedTables, BoundsAssumption DEF PaymentsOf, AmountOf, PaymentRow
<1> QED
  BY <1>1, <1>2, SumNat DEF Paid

LEMMA AmountsAre ==
    ASSUME LinkedInv
    PROVE  \A p \in Payments : AmountOf[p] = payment[p].amount /\ payment[p].amount \in Nat
  BY LinkedTables, BoundsAssumption DEF AmountOf, PaymentRow

\* A sale none of whose payments changes is paid what it was paid.
LEMMA PaidUnchanged ==
    ASSUME LinkedInv, NEW s,
           PaymentsOf(s)' = PaymentsOf(s),
           \A p \in PaymentsOf(s) : payment'[p].amount = payment[p].amount
    PROVE  Paid(s)' = Paid(s)
<1>1. \A p \in PaymentsOf(s) : AmountOf'[p] = AmountOf[p]
  BY DEF PaymentsOf, AmountOf
<1>2. SumFunctionOnSet(AmountOf', PaymentsOf(s)) = SumFunctionOnSet(AmountOf, PaymentsOf(s))
  BY <1>1, PaidNat, SumCongruence
<1> QED
  BY <1>2 DEF Paid

\* What the sales are paid after each commit.
LEMMA CommitSalePaid ==
    ASSUME LinkedInv, NEW w \in Workers, NEW s \in Sales, CommitSale(w, s)
    PROVE  (\A x : Paid(x)' = Paid(x)) /\ Paid(s) = 0
<1>1. sale[s].state = "unused" /\ payment' = payment
  BY CommitSaleEffect
<1>2. \A x : Paid(x)' = Paid(x)
  BY <1>1 DEF Paid, PaymentsOf, AmountOf
<1>3. PaymentsOf(s) = {}
  BY <1>1, LinkedTables, NullAssumption DEF PaymentsOf, RowsLinked
<1> QED
  BY <1>2, <1>3, SumEmpty DEF Paid

LEMMA CommitDeleteSalePaid ==
    ASSUME LinkedInv, NEW w \in Workers, CommitDeleteSale(w)
    PROVE  \A x \in Sales \ {worker[w].sale} : Paid(x)' = Paid(x)
<1> DEFINE s == worker[w].sale
<1>1. \A p \in Payments :
        payment'[p] = IF payment[p].sale = s
                      THEN [payment[p] EXCEPT !.sale = Null]
                      ELSE payment[p]
  BY CommitDeleteSaleEffect
<1> HIDE DEF s
<1>2. \A p \in Payments :
        /\ payment'[p].state = payment[p].state /\ payment'[p].amount = payment[p].amount
        /\ payment'[p].sale = IF payment[p].sale = s THEN Null ELSE payment[p].sale
  <2> TAKE p \in Payments
  <2>1. payment[p] \in PaymentRow
    BY LinkedTables
  <2>2. payment'[p] = payment[p] \/ payment'[p] = [payment[p] EXCEPT !.sale = Null]
    BY <1>1
  <2> QED
    BY <1>1, <2>1, <2>2 DEF PaymentRow
<1>3. \A x \in Sales \ {s} : Paid(x)' = Paid(x)
  <2> TAKE x \in Sales \ {s}
  <2>1. PaymentsOf(x)' = PaymentsOf(x)
    BY <1>2, NullAssumption DEF PaymentsOf
  <2>2. \A p \in PaymentsOf(x) : payment'[p].amount = payment[p].amount
    BY <1>2 DEF PaymentsOf
  <2> QED
    BY <2>1, <2>2, PaidUnchanged
<1> QED
  BY <1>3 DEF s

LEMMA CommitPaymentPaid ==
    ASSUME LinkedInv, NEW w \in Workers, NEW p \in Payments, CommitPayment(w, p)
    PROVE  \A x \in Sales : Paid(x)' = IF x = worker[w].sale THEN Paid(x) + worker[w].amount
                                                             ELSE Paid(x)
<1> PICK r, s : r = worker[w] /\ s = worker[w].sale
  OBVIOUS
<1>1. /\ r.amount \in Amounts
      /\ payment[p].state = "unused"
      /\ \A x \in Payments \ {p} : payment'[x] = payment[x]
      /\ payment'[p] = [state |-> "live", client |-> r.client,
                        sale |-> s, amount |-> r.amount]
  BY CommitPaymentEffect
<1>2. /\ payment'[p].state = "live" /\ payment'[p].sale = s
      /\ payment'[p].amount = r.amount /\ r.amount \in Nat \ {0}
  BY <1>1, BoundsAssumption DEF Amounts
<1>3. \A x \in Sales \ {s} : Paid(x)' = Paid(x)
  <2> TAKE x \in Sales \ {s}
  <2>1. PaymentsOf(x)' = PaymentsOf(x)
    BY <1>1, <1>2 DEF PaymentsOf
  <2>2. \A y \in PaymentsOf(x) : payment'[y].amount = payment[y].amount
    BY <1>1 DEF PaymentsOf
  <2> QED
    BY <2>1, <2>2, PaidUnchanged
<1>4. Paid(s)' = Paid(s) + r.amount
  <2> DEFINE S == PaymentsOf(s)
             f == AmountOf
             g == AmountOf'
  <2>1. PaymentsOf(s)' = S \cup {p} /\ p \notin S
    BY <1>1, <1>2 DEF PaymentsOf
  <2>2. IsFiniteSet(S) /\ SumFunctionOnSet(f, S) \in Nat
    BY PaidNat DEF Paid
  <2>3. g[p] = r.amount /\ \A x \in S : g[x] = f[x] /\ g[x] \in Int
    BY <1>1, <1>2, AmountsAre DEF PaymentsOf, AmountOf
  <2> HIDE DEF S, f, g
  <2>4. SumFunctionOnSet(g, S \cup {p}) = SumFunctionOnSet(g, S) + g[p]
    BY <1>2, <2>1, <2>2, <2>3, SumAdd
  <2>5. SumFunctionOnSet(g, S) = SumFunctionOnSet(f, S)
    BY <2>2, <2>3, SumCongruence
  <2> QED
    BY <2>1, <2>3, <2>4, <2>5 DEF Paid, S, f, g
<1> QED
  BY <1>3, <1>4

LEMMA CommitUpdatePaymentPaid ==
    ASSUME LinkedInv, NEW w \in Workers, CommitUpdatePayment(w)
    PROVE  LET r == worker[w]
           IN  \A x \in Sales :
                 Paid(x)' = IF x = r.sale THEN Paid(x) - payment[r.payment].amount + r.amount
                                          ELSE Paid(x)
<1> PICK p, s, amount : p = worker[w].payment /\ s = worker[w].sale /\ amount = worker[w].amount
  OBVIOUS
<1>1. /\ p \in Payments /\ payment[p].state = "live" /\ payment[p].sale = s
      /\ worker[w] \in Request
      /\ \A x \in Payments \ {p} : payment'[x] = payment[x]
      /\ payment'[p] = [payment[p] EXCEPT !.amount = amount]
  BY CommitUpdatePaymentEffect
<1>2. /\ payment'[p].state = "live" /\ payment'[p].sale = s
      /\ payment'[p].amount = amount /\ amount \in Nat
  BY <1>1, LinkedTables, BoundsAssumption DEF PaymentRow, Request
<1>3. \A x \in Sales : PaymentsOf(x)' = PaymentsOf(x)
  BY <1>1, <1>2 DEF PaymentsOf
<1>4. \A x \in Sales \ {s} : Paid(x)' = Paid(x)
  <2> TAKE x \in Sales \ {s}
  <2>1. \A y \in PaymentsOf(x) : payment'[y].amount = payment[y].amount
    BY <1>1 DEF PaymentsOf
  <2> QED
    BY <1>3, <2>1, PaidUnchanged
<1>5. s \in Sales => Paid(s)' = Paid(s) - payment[p].amount + amount
  <2> SUFFICES ASSUME s \in Sales PROVE Paid(s)' = Paid(s) - payment[p].amount + amount
    OBVIOUS
  <2> DEFINE S == PaymentsOf(s)
             f == AmountOf
             g == AmountOf'
  <2>1. IsFiniteSet(S) /\ p \in S /\ S \subseteq Payments
    BY <1>1, PaidNat DEF PaymentsOf
  <2>2. \A x \in S : f[x] = payment[x].amount /\ f[x] \in Int
    BY AmountsAre DEF PaymentsOf
  <2>3. g[p] = amount /\ \A x \in S \ {p} : g[x] = f[x]
    BY <1>1, <1>2 DEF PaymentsOf, AmountOf
  <2>4. SumFunctionOnSet(g, S) = SumFunctionOnSet(f, S) - f[p] + g[p]
    <3> HIDE DEF S, f, g
    <3> QED
      BY <1>2, <2>1, <2>2, <2>3, SumChange
  <2>5. Paid(s)' = SumFunctionOnSet(g, S) /\ Paid(s) = SumFunctionOnSet(f, S)
    BY <1>3 DEF Paid
  <2> HIDE DEF S, f, g
  <2> QED
    BY <2>1, <2>2, <2>3, <2>4, <2>5
<1> QED
  BY <1>4, <1>5

LEMMA CommitDeletePaymentPaid ==
    ASSUME LinkedInv, NEW w \in Workers, CommitDeletePayment(w)
    PROVE  LET r == worker[w]
           IN  \A x \in Sales :
                 Paid(x)' = IF x = r.sale THEN Paid(x) - payment[r.payment].amount ELSE Paid(x)
<1> PICK p, s : p = worker[w].payment /\ s = worker[w].sale
  OBVIOUS
<1>1. /\ p \in Payments /\ payment[p].state = "live" /\ payment[p].sale = s
      /\ \A x \in Payments \ {p} : payment'[x] = payment[x]
  BY CommitDeletePaymentEffect
<1>0. payment'[p] = [payment[p] EXCEPT !.state = "deleted"]
  BY CommitDeletePaymentEffect
<1>2. /\ payment'[p].state = "deleted" /\ payment'[p].sale = s
      /\ payment'[p].amount = payment[p].amount /\ payment[p].amount \in Nat
  BY <1>0, <1>1, LinkedTables, BoundsAssumption DEF PaymentRow
<1>3. \A x \in Sales \ {s} : Paid(x)' = Paid(x)
  <2> TAKE x \in Sales \ {s}
  <2>1. PaymentsOf(x)' = PaymentsOf(x)
    BY <1>1, <1>2 DEF PaymentsOf
  <2>2. \A y \in PaymentsOf(x) : payment'[y].amount = payment[y].amount
    BY <1>1 DEF PaymentsOf
  <2> QED
    BY <2>1, <2>2, PaidUnchanged
<1>4. s \in Sales => Paid(s)' = Paid(s) - payment[p].amount
  <2> SUFFICES ASSUME s \in Sales PROVE Paid(s)' = Paid(s) - payment[p].amount
    OBVIOUS
  <2> DEFINE S == PaymentsOf(s)
             f == AmountOf
             g == AmountOf'
  <2>1. IsFiniteSet(S) /\ p \in S /\ SumFunctionOnSet(f, S) \in Nat
    BY <1>1, PaidNat DEF PaymentsOf, Paid
  <2>2. \A x \in S : f[x] \in Int /\ g[x] = f[x]
    BY <1>1, <1>2, AmountsAre DEF PaymentsOf, AmountOf
  <2>3. f[p] = payment[p].amount
    BY <1>1, AmountsAre
  <2>4. PaymentsOf(s)' = S \ {p}
    BY <1>1, <1>2 DEF PaymentsOf
  <2>5. SumFunctionOnSet(f, S) = f[p] + SumFunctionOnSet(f, S \ {p})
    <3> HIDE DEF S, f, g
    <3> QED
      BY <2>1, <2>2, SumRemove
  <2>6. /\ SumFunctionOnSet(g, S \ {p}) = SumFunctionOnSet(f, S \ {p})
        /\ SumFunctionOnSet(f, S \ {p}) \in Int
    <3> HIDE DEF S, f, g
    <3>1. IsFiniteSet(S \ {p})
      BY <2>1, FS_RemoveElement
    <3> QED
      BY <2>2, <3>1, SumCongruence, SumInt
  <2>7. Paid(s)' = SumFunctionOnSet(g, S \ {p}) /\ Paid(s) = SumFunctionOnSet(f, S)
    BY <2>4 DEF Paid
  <2> HIDE DEF S, f, g
  <2> QED
    BY <1>2, <2>3, <2>5, <2>6, <2>7
<1> QED
  BY <1>3, <1>4

\* The status after each commit.
LEMMA CommitSaleStatus ==
    ASSUME LinkedInv, SaleStatusAgrees, NEW w \in Workers, NEW s \in Sales, CommitSale(w, s)
    PROVE  SaleStatusAgrees'
<1> PICK r : r = worker[w]
  OBVIOUS
<1>1. /\ r.amount \in Amounts
      /\ \A x \in Sales \ {s} : sale'[x] = sale[x]
      /\ sale'[s] = [state |-> "live", client |-> r.client, type |-> r.type,
                     total |-> r.amount,
                     status |-> IF r.type = "CASH" THEN "PAID" ELSE "PENDING"]
  BY CommitSaleEffect
<1>2. sale'[s].type = "CREDIT" => sale'[s].status = StatusFor(Paid(s)', sale'[s].total)
  BY <1>1, CommitSalePaid, BoundsAssumption DEF StatusFor, Amounts
<1> QED
  BY <1>1, <1>2, CommitSalePaid DEF SaleStatusAgrees

LEMMA CommitDeleteSaleStatus ==
    ASSUME LinkedInv, SaleStatusAgrees, NEW w \in Workers, CommitDeleteSale(w)
    PROVE  SaleStatusAgrees'
<1> PICK s : s = worker[w].sale
  OBVIOUS
<1>1. s \in Sales /\ \A x \in Sales \ {s} : sale'[x] = sale[x]
  BY CommitDeleteSaleEffect
<1>2. sale'[s].state = "deleted"
  <2>1. sale'[s] = [sale[s] EXCEPT !.state = "deleted"]
    BY CommitDeleteSaleEffect
  <2> QED
    BY <1>1, <2>1, LinkedTables DEF SaleRow
<1>3. ASSUME NEW x \in Sales, sale'[x].state = "live", sale'[x].type = "CREDIT"
      PROVE  sale'[x].status = StatusFor(Paid(x)', sale'[x].total)
  <2>1. x # s /\ sale'[x] = sale[x] /\ Paid(x)' = Paid(x)
    BY <1>1, <1>2, <1>3, CommitDeleteSalePaid
  <2> QED
    BY <1>3, <2>1 DEF SaleStatusAgrees
<1> QED
  BY <1>3 DEF SaleStatusAgrees

\* The other sales, when the payments of one sale change.
LEMMA OtherSalesAgree ==
    ASSUME LinkedInv, SaleStatusAgrees, NEW s, NEW status, SaleGets(s, status),
           \A x \in Sales \ {s} : Paid(x)' = Paid(x),
           s \in Sales => status = StatusFor(Paid(s)', sale[s].total)
    PROVE  SaleStatusAgrees'
<1> SUFFICES ASSUME NEW x \in Sales, sale'[x].state = "live", sale'[x].type = "CREDIT"
             PROVE  sale'[x].status = StatusFor(Paid(x)', sale'[x].total)
  BY DEF SaleStatusAgrees
<1>1. /\ sale[x].state = "live" /\ sale[x].type = "CREDIT"
      /\ sale'[x].total = sale[x].total
      /\ sale'[x].status = IF x = s THEN status ELSE sale[x].status
  BY LinkedTables, SaleGetsKeeps
<1>2. CASE x = s
  BY <1>1, <1>2
<1>3. CASE x # s
  BY <1>1, <1>3 DEF SaleStatusAgrees
<1> QED
  BY <1>2, <1>3

LEMMA CommitPaymentStatus ==
    ASSUME LinkedInv, SaleStatusAgrees, NEW w \in Workers, NEW p \in Payments,
           CommitPayment(w, p)
    PROVE  SaleStatusAgrees'
<1> PICK r, s : r = worker[w] /\ s = worker[w].sale
  OBVIOUS
<1> DEFINE status == IF Paid(s) + r.amount >= sale[s].total THEN "PAID" ELSE "PARTIAL"
<1>1. r.amount \in Amounts /\ SaleGets(s, status)
  BY CommitPaymentEffect
<1>2. \A x \in Sales : Paid(x)' = IF x = s THEN Paid(x) + r.amount ELSE Paid(x)
  BY CommitPaymentPaid
<1>3. s \in Sales => status = StatusFor(Paid(s)', sale[s].total)
  BY <1>1, <1>2, PaidNat, BoundsAssumption DEF StatusFor, Amounts
<1> HIDE DEF status
<1> QED
  BY <1>1, <1>2, <1>3, OtherSalesAgree

LEMMA CommitUpdatePaymentStatus ==
    ASSUME LinkedInv, SaleStatusAgrees, NEW w \in Workers, CommitUpdatePayment(w)
    PROVE  SaleStatusAgrees'
<1> PICK p, s, amount : p = worker[w].payment /\ s = worker[w].sale /\ amount = worker[w].amount
  OBVIOUS
<1> DEFINE status == StatusFor(Paid(s) - payment[p].amount + amount, sale[s].total)
<1>1. SaleGets(s, status)
  BY CommitUpdatePaymentEffect
<1>2. \A x \in Sales : Paid(x)' = IF x = s THEN Paid(x) - payment[p].amount + amount ELSE Paid(x)
  BY CommitUpdatePaymentPaid
<1> HIDE DEF status
<1> QED
  BY <1>1, <1>2, OtherSalesAgree DEF status

LEMMA CommitDeletePaymentStatus ==
    ASSUME LinkedInv, SaleStatusAgrees, NEW w \in Workers, CommitDeletePayment(w)
    PROVE  SaleStatusAgrees'
<1> PICK p, s : p = worker[w].payment /\ s = worker[w].sale
  OBVIOUS
<1> DEFINE status == StatusFor(Paid(s) - payment[p].amount, sale[s].total)
<1>1. SaleGets(s, status)
  BY CommitDeletePaymentEffect
<1>2. \A x \in Sales : Paid(x)' = IF x = s THEN Paid(x) - payment[p].amount ELSE Paid(x)
  BY CommitDeletePaymentPaid
<1> HIDE DEF status
<1> QED
  BY <1>1, <1>2, OtherSalesAgree DEF status

\* Steps that change no row.
LEMMA StatusUntouched ==
    ASSUME SaleStatusAgrees, UNCHANGED <<sale, payment>>
    PROVE  SaleStatusAgrees'
  BY DEF SaleStatusAgrees, Paid, PaymentsOf, AmountOf

\* The status of every live credit sale is the one its payments add up to
\* (SaleStatusAgrees), whatever payments are registered, corrected and deleted
\* at the same time, and although a correction computes it in a transaction
\* that has read the payment before others committed.
THEOREM SaleStatusAgreesAlways == Spec => []SaleStatusAgrees
<1>1. Init => SaleStatusAgrees
  BY DEF Init, SaleStatusAgrees
<1>2. LinkedInv /\ SaleStatusAgrees /\ [Next]_vars => SaleStatusAgrees'
  <2> SUFFICES ASSUME LinkedInv, SaleStatusAgrees, [Next]_vars PROVE SaleStatusAgrees'
    OBVIOUS
  <2>1. CASE UNCHANGED vars
    BY <2>1, StatusUntouched DEF vars
  <2>2. ASSUME NEW w \in Workers, SaleRequests(w) PROVE SaleStatusAgrees'
    BY <2>2, CommitSaleStatus, CommitDeleteSaleStatus, StatusUntouched
       DEF SaleRequests, ValidateSale, ValidateDeleteSale, Accept
  <2>3. ASSUME NEW w \in Workers, PaymentRequests(w) PROVE SaleStatusAgrees'
    BY <2>3, CommitPaymentStatus, CommitUpdatePaymentStatus, CommitDeletePaymentStatus,
       StatusUntouched
       DEF PaymentRequests, ValidatePayment, ValidateUpdatePayment,
           ValidateDeletePayment, ReadPayment, Accept
  <2>4. ASSUME NEW w \in Workers, Abort(w) PROVE SaleStatusAgrees'
    BY <2>4, StatusUntouched DEF Abort
  <2>5. ASSUME NEW c \in Clients, DeactivateClient(c) PROVE SaleStatusAgrees'
    BY <2>5, StatusUntouched DEF DeactivateClient
  <2> QED
    BY <2>1, <2>2, <2>3, <2>4, <2>5 DEF Next
<1> QED
  BY <1>1, <1>2, LinkedInit, LinkedStep, PTL DEF Spec

-----------------------------------------------------------------------------
(* The book has one entry for every row that was created or deleted.       *)

\* Booking a movement adds one to the count of its client and kind.
LEMMA BookCounts ==
    ASSUME TypeInv, NEW c \in Clients, NEW k \in Kinds, NEW d \in Deltas,
           NEW r \in Request, Book(c, k, d, r)
    PROVE  \A x \in Clients : \A kind :
             Count(x, kind)' = IF x = c /\ kind = k THEN Count(x, kind) + 1 ELSE Count(x, kind)
<1> TAKE x \in Clients
<1> TAKE kind
<1> DEFINE e == [kind |-> k, delta |-> d, balanceAfter |-> balance[c] + d]
           b == book[c]
           n == Len(b)
<1>1. book' = [book EXCEPT ![c] = Append(b, e)] /\ e.kind = k
  BY DEF Book
<1>2. book \in [Clients -> Seq(Accounts!Entry)] /\ b \in Seq(Accounts!Entry)
  BY DEF TypeInv, TypeOK
<1> HIDE DEF e
<1>3. CASE x # c
  BY <1>1, <1>2, <1>3 DEF Count
<1>4. CASE x = c
  <2> DEFINE I == {i \in DOMAIN b : b[i].kind = kind}
             J == {i \in DOMAIN Append(b, e) : Append(b, e)[i].kind = kind}
  <2>1. Count(x, kind) = Cardinality(I) /\ Count(x, kind)' = Cardinality(J)
    BY <1>1, <1>2, <1>4 DEF Count
  <2>2. /\ n \in Nat /\ DOMAIN b = 1..n /\ DOMAIN Append(b, e) = 1..(n + 1)
        /\ \A i \in 1..n : Append(b, e)[i] = b[i]
        /\ Append(b, e)[n + 1] = e
    <3> HIDE DEF b
    <3> QED
      BY <1>2
  <2>3. IsFiniteSet(I) /\ n + 1 \notin I
    <3> HIDE DEF b, n
    <3>1. IsFiniteSet(1..n) /\ I \subseteq 1..n
      BY <2>2, FS_Interval
    <3> QED
      BY <2>2, <3>1, FS_Subset
  <2>4. (kind = k => J = I \cup {n + 1}) /\ (kind # k => J = I)
    <3> DEFINE q == Append(b, e)
    <3>1. \A i : i \in DOMAIN q <=> i \in 1..n \/ i = n + 1
      BY <2>2
    <3>2. \A i \in 1..n : q[i] = b[i] /\ i # n + 1
      BY <2>2
    <3>3. q[n + 1].kind = k
      BY <1>1, <2>2
    <3>4. DOMAIN b = 1..n
      BY <2>2
    <3>5. J = {i \in DOMAIN q : q[i].kind = kind}
      OBVIOUS
    <3> HIDE DEF q, b, n, J
    <3>6. ASSUME kind = k PROVE J = I \cup {n + 1}
      BY <3>1, <3>2, <3>3, <3>4, <3>5, <3>6
    <3>7. ASSUME kind # k PROVE J = I
      BY <3>1, <3>2, <3>3, <3>4, <3>5, <3>7
    <3> QED
      BY <3>6, <3>7
  <2>5. Cardinality(I \cup {n + 1}) = Cardinality(I) + 1
    <3> HIDE DEF I, n
    <3> QED
      BY <2>3, FS_AddElement
  <2> HIDE DEF I, J, n, b
  <2>6. CASE kind = k
    <3>1. J = I \cup {n + 1}
      BY <2>4, <2>6
    <3> QED
      BY <1>4, <2>1, <2>5, <2>6, <3>1
  <2>7. CASE kind # k
    BY <1>4, <2>1, <2>4, <2>7
  <2> QED
    BY <2>6, <2>7
<1> QED
  BY <1>3, <1>4

ReversedSalesOf(c) == {s \in CreditSalesOf(c) : sale[s].state = "deleted"}
EveryPaymentBy(c) == {p \in Payments : payment[p].client = c}
RemovedPaymentsBy(c) == {p \in Payments : payment[p].client = c /\ payment[p].state = "deleted"}

LEMMA RowSetsFinite ==
    \A c : /\ IsFiniteSet(CreditSalesOf(c)) /\ IsFiniteSet(ReversedSalesOf(c))
           /\ IsFiniteSet(OpenSalesOf(c)) /\ IsFiniteSet(PaymentsBy(c))
           /\ IsFiniteSet(EveryPaymentBy(c)) /\ IsFiniteSet(RemovedPaymentsBy(c))
  BY TablesFinite, FS_Subset
     DEF CreditSalesOf, ReversedSalesOf, OpenSalesOf, PaymentsBy, EveryPaymentBy,
         RemovedPaymentsBy

MatchesFor(c) ==
    /\ Count(c, "CREDIT_SALE_OPENED") = Cardinality(CreditSalesOf(c))
    /\ Count(c, "CREDIT_SALE_REVERSED") = Cardinality(ReversedSalesOf(c))
    /\ Count(c, "PAYMENT_RECEIVED") = Cardinality(EveryPaymentBy(c))
    /\ Count(c, "PAYMENT_REMOVED") = Cardinality(RemovedPaymentsBy(c))

LEMMA TablesMatch == TablesMatchBook <=> \A c \in Clients : MatchesFor(c)
  BY DEF TablesMatchBook, MatchesFor, ReversedSalesOf, EveryPaymentBy, RemovedPaymentsBy

LEMMA TablesMatchNext == TablesMatchBook' <=> \A c \in Clients : MatchesFor(c)'
  BY DEF TablesMatchBook, MatchesFor, ReversedSalesOf, EveryPaymentBy, RemovedPaymentsBy

\* What each commit books.
Booked(c, k) ==
    \A x \in Clients : \A kind :
      Count(x, kind)' = IF x = c /\ kind = k THEN Count(x, kind) + 1 ELSE Count(x, kind)

LEMMA CommitSaleBooks ==
    ASSUME LinkedInv, NEW w \in Workers, NEW s \in Sales, CommitSale(w, s)
    PROVE  IF worker[w].type = "CREDIT"
           THEN /\ Booked(worker[w].client, "CREDIT_SALE_OPENED")
                /\ Book(worker[w].client, "CREDIT_SALE_OPENED", worker[w].amount, worker[w])
           ELSE Unmoved
<1> DEFINE r == worker[w]
<1>1. r \in Request /\ r.client \in Clients /\ r.amount \in Amounts
  BY CommitSaleEffect
<1>2. r.amount \in Deltas
  BY <1>1, BoundsAssumption DEF Amounts, Deltas
<1>3. IF r.type = "CREDIT" THEN Book(r.client, "CREDIT_SALE_OPENED", r.amount, r)
                           ELSE Unmoved
  BY DEF CommitSale, Unmoved
<1>4. TypeInv /\ "CREDIT_SALE_OPENED" \in Kinds
  BY DEF LinkedInv, Kinds
<1> HIDE DEF r
<1> QED
  BY <1>1, <1>2, <1>3, <1>4, BookCounts DEF Booked, r

LEMMA CommitDeleteSaleBooks ==
    ASSUME LinkedInv, NEW w \in Workers, CommitDeleteSale(w)
    PROVE  IF worker[w].type = "CREDIT"
           THEN /\ Booked(worker[w].client, "CREDIT_SALE_REVERSED")
                /\ Book(worker[w].client, "CREDIT_SALE_REVERSED", -worker[w].amount, worker[w])
           ELSE Unmoved
<1> DEFINE r == worker[w]
<1>1. r \in Request /\ r.client \in Clients
  BY CommitDeleteSaleEffect
<1>2. -r.amount \in Deltas
  BY <1>1, BoundsAssumption DEF Request, Deltas
<1>3. IF r.type = "CREDIT" THEN Book(r.client, "CREDIT_SALE_REVERSED", -r.amount, r)
                           ELSE Unmoved
  BY DEF CommitDeleteSale, Unmoved
<1>4. TypeInv /\ "CREDIT_SALE_REVERSED" \in Kinds
  BY DEF LinkedInv, Kinds
<1> HIDE DEF r
<1> QED
  BY <1>1, <1>2, <1>3, <1>4, BookCounts DEF Booked, r

LEMMA CommitPaymentBooks ==
    ASSUME LinkedInv, NEW w \in Workers, NEW p \in Payments, CommitPayment(w, p)
    PROVE  /\ Booked(worker[w].client, "PAYMENT_RECEIVED")
           /\ Book(worker[w].client, "PAYMENT_RECEIVED", -worker[w].amount, worker[w])
<1> DEFINE r == worker[w]
<1>1. r \in Request /\ r.client \in Clients
  BY CommitPaymentEffect
<1>2. -r.amount \in Deltas
  BY <1>1, BoundsAssumption DEF Request, Deltas
<1>3. Book(r.client, "PAYMENT_RECEIVED", -r.amount, r)
  BY DEF CommitPayment
<1>4. TypeInv /\ "PAYMENT_RECEIVED" \in Kinds
  BY DEF LinkedInv, Kinds
<1> HIDE DEF r
<1> QED
  BY <1>1, <1>2, <1>3, <1>4, BookCounts DEF Booked, r

LEMMA CommitUpdatePaymentBooks ==
    ASSUME LinkedInv, NEW w \in Workers, CommitUpdatePayment(w)
    PROVE  /\ Booked(worker[w].client, "PAYMENT_ADJUSTED")
           /\ Book(worker[w].client, "PAYMENT_ADJUSTED", Adjustment(worker[w]), worker[w])
<1> DEFINE r == worker[w]
<1>1. r \in Request /\ r.client \in Clients
  BY CommitUpdatePaymentEffect
<1>2. Adjustment(r) \in Deltas
  BY <1>1, BoundsAssumption DEF Request, Deltas, Adjustment
<1>3. Book(r.client, "PAYMENT_ADJUSTED", Adjustment(r), r)
  BY DEF CommitUpdatePayment
<1>4. TypeInv /\ "PAYMENT_ADJUSTED" \in Kinds
  BY DEF LinkedInv, Kinds
<1> HIDE DEF r
<1> QED
  BY <1>1, <1>2, <1>3, <1>4, BookCounts DEF Booked, r

LEMMA CommitDeletePaymentBooks ==
    ASSUME LinkedInv, NEW w \in Workers, CommitDeletePayment(w)
    PROVE  /\ Booked(worker[w].client, "PAYMENT_REMOVED")
           /\ Book(worker[w].client, "PAYMENT_REMOVED", worker[w].old, worker[w])
<1> DEFINE r == worker[w]
<1>1. r \in Request /\ r.client \in Clients
  BY CommitDeletePaymentEffect
<1>2. r.old \in Deltas
  BY <1>1, BoundsAssumption DEF Request, Deltas
<1>3. Book(r.client, "PAYMENT_REMOVED", r.old, r)
  BY DEF CommitDeletePayment
<1>4. TypeInv /\ "PAYMENT_REMOVED" \in Kinds
  BY DEF LinkedInv, Kinds
<1> HIDE DEF r
<1> QED
  BY <1>1, <1>2, <1>3, <1>4, BookCounts DEF Booked, r

\* The rows of one table a step leaves as they are, as far as the book counts
\* them and the balance adds them up.
SalesStay ==
    \A s \in Sales : /\ sale'[s].state = sale[s].state /\ sale'[s].client = sale[s].client
                     /\ sale'[s].type = sale[s].type /\ sale'[s].total = sale[s].total
PaymentsStay ==
    \A p \in Payments : /\ payment'[p].state = payment[p].state
                        /\ payment'[p].client = payment[p].client
                        /\ payment'[p].amount = payment[p].amount

LEMMA SalesStayCounted ==
    ASSUME SalesStay
    PROVE  \A c : /\ CreditSalesOf(c)' = CreditSalesOf(c)
                  /\ ReversedSalesOf(c)' = ReversedSalesOf(c)
                  /\ OpenSalesOf(c)' = OpenSalesOf(c)
  BY DEF SalesStay, CreditSalesOf, ReversedSalesOf, OpenSalesOf

LEMMA PaymentsStayCounted ==
    ASSUME PaymentsStay
    PROVE  \A c : /\ EveryPaymentBy(c)' = EveryPaymentBy(c)
                  /\ RemovedPaymentsBy(c)' = RemovedPaymentsBy(c)
                  /\ PaymentsBy(c)' = PaymentsBy(c)
  BY DEF PaymentsStay, EveryPaymentBy, RemovedPaymentsBy, PaymentsBy

\* A new credit sale joins the sales of its client.
LEMMA CommitSaleRowSets ==
    ASSUME LinkedInv, NEW w \in Workers, NEW s \in Sales, CommitSale(w, s)
    PROVE  /\ PaymentsStay
           /\ worker[w].client \in Clients
           /\ \A c \in Clients :
                /\ IF worker[w].type = "CREDIT" /\ worker[w].client = c
                   THEN /\ s \notin CreditSalesOf(c)
                        /\ CreditSalesOf(c)' = CreditSalesOf(c) \cup {s}
                        /\ OpenSalesOf(c)' = OpenSalesOf(c) \cup {s}
                   ELSE /\ CreditSalesOf(c)' = CreditSalesOf(c)
                        /\ OpenSalesOf(c)' = OpenSalesOf(c)
                /\ ReversedSalesOf(c)' = ReversedSalesOf(c)
<1> PICK r : r = worker[w]
  OBVIOUS
<1>1. /\ r \in Request /\ r.client \in Clients
      /\ sale[s].state = "unused"
      /\ \A x \in Sales \ {s} : sale'[x] = sale[x]
      /\ payment' = payment
  BY CommitSaleEffect
<1>2. sale'[s] = [state |-> "live", client |-> r.client, type |-> r.type,
                  total |-> r.amount,
                  status |-> IF r.type = "CASH" THEN "PAID" ELSE "PENDING"]
  BY CommitSaleEffect
<1>3. sale'[s].state = "live" /\ sale'[s].client = r.client /\ sale'[s].type = r.type
  BY <1>2
<1>4. sale[s].client = Null
  BY <1>1, LinkedTables DEF RowsLinked
<1>5. PaymentsStay
  BY <1>1 DEF PaymentsStay
<1>6. ASSUME NEW c \in Clients
      PROVE  /\ IF r.type = "CREDIT" /\ r.client = c
                THEN /\ s \notin CreditSalesOf(c)
                     /\ CreditSalesOf(c)' = CreditSalesOf(c) \cup {s}
                     /\ OpenSalesOf(c)' = OpenSalesOf(c) \cup {s}
                ELSE /\ CreditSalesOf(c)' = CreditSalesOf(c)
                     /\ OpenSalesOf(c)' = OpenSalesOf(c)
             /\ ReversedSalesOf(c)' = ReversedSalesOf(c)
  <2>1. s \notin CreditSalesOf(c) /\ CreditSalesOf(c) \subseteq Sales
    BY <1>4, NullAssumption DEF CreditSalesOf
  <2>2. CASE r.type = "CREDIT" /\ r.client = c
    <3>1. CreditSalesOf(c)' = CreditSalesOf(c) \cup {s}
      BY <1>1, <1>3, <2>2 DEF CreditSalesOf
    <3>2. OpenSalesOf(c)' = OpenSalesOf(c) \cup {s}
      BY <1>1, <1>3, <2>1, <3>1 DEF OpenSalesOf
    <3>3. ReversedSalesOf(c)' = ReversedSalesOf(c)
      BY <1>1, <1>3, <2>1, <3>1 DEF ReversedSalesOf
    <3> QED
      BY <2>1, <2>2, <3>1, <3>2, <3>3
  <2>3. CASE ~(r.type = "CREDIT" /\ r.client = c)
    <3>1. CreditSalesOf(c)' = CreditSalesOf(c)
      BY <1>1, <1>3, <2>1, <2>3 DEF CreditSalesOf
    <3>2. OpenSalesOf(c)' = OpenSalesOf(c)
      BY <1>1, <2>1, <3>1 DEF OpenSalesOf
    <3>3. ReversedSalesOf(c)' = ReversedSalesOf(c)
      BY <1>1, <2>1, <3>1 DEF ReversedSalesOf
    <3> QED
      BY <2>3, <3>1, <3>2, <3>3
  <2> QED
    BY <2>2, <2>3
<1> QED
  BY <1>1, <1>5, <1>6

\* A deleted credit sale stays its client's but is no longer open.
LEMMA CommitDeleteSaleRowSets ==
    ASSUME LinkedInv, NEW w \in Workers, CommitDeleteSale(w)
    PROVE  LET r == worker[w]
           IN  /\ PaymentsStay
               /\ r.client \in Clients /\ r.sale \in Sales /\ r.amount = sale[r.sale].total
               /\ \A x \in Sales : sale'[x].total = sale[x].total
               /\ \A c \in Clients :
                    /\ IF r.type = "CREDIT" /\ r.client = c
                       THEN /\ r.sale \notin ReversedSalesOf(c)
                            /\ r.sale \in OpenSalesOf(c)
                            /\ ReversedSalesOf(c)' = ReversedSalesOf(c) \cup {r.sale}
                            /\ OpenSalesOf(c)' = OpenSalesOf(c) \ {r.sale}
                       ELSE /\ ReversedSalesOf(c)' = ReversedSalesOf(c)
                            /\ OpenSalesOf(c)' = OpenSalesOf(c)
                    /\ CreditSalesOf(c)' = CreditSalesOf(c)
<1> PICK r, s : r = worker[w] /\ s = worker[w].sale
  OBVIOUS
<1>1. /\ r.client \in Clients /\ s \in Sales
      /\ sale[s].state = "live"
      /\ r.client = sale[s].client /\ r.type = sale[s].type /\ r.amount = sale[s].total
      /\ \A x \in Sales \ {s} : sale'[x] = sale[x]
  BY CommitDeleteSaleEffect DEF HasReadSale
<1>2. sale'[s] = [sale[s] EXCEPT !.state = "deleted"]
  BY CommitDeleteSaleEffect
<1>3. /\ sale'[s].state = "deleted" /\ sale'[s].client = sale[s].client
      /\ sale'[s].type = sale[s].type /\ sale'[s].total = sale[s].total
  BY <1>1, <1>2, LinkedTables DEF SaleRow
<1>4. PaymentsStay
  <2> SUFFICES ASSUME NEW p \in Payments
               PROVE  /\ payment'[p].state = payment[p].state
                      /\ payment'[p].client = payment[p].client
                      /\ payment'[p].amount = payment[p].amount
    BY DEF PaymentsStay
  <2>1. payment[p] \in PaymentRow
    BY LinkedTables
  <2>2. payment'[p] = payment[p] \/ payment'[p] = [payment[p] EXCEPT !.sale = Null]
    BY CommitDeleteSaleEffect
  <2> QED
    BY <2>1, <2>2 DEF PaymentRow
<1>5. \A c : CreditSalesOf(c)' = CreditSalesOf(c) /\ CreditSalesOf(c) \subseteq Sales
  BY <1>1, <1>3 DEF CreditSalesOf
<1>6. ASSUME NEW c \in Clients
      PROVE  IF r.type = "CREDIT" /\ r.client = c
             THEN /\ s \notin ReversedSalesOf(c) /\ s \in OpenSalesOf(c)
                  /\ ReversedSalesOf(c)' = ReversedSalesOf(c) \cup {s}
                  /\ OpenSalesOf(c)' = OpenSalesOf(c) \ {s}
             ELSE /\ ReversedSalesOf(c)' = ReversedSalesOf(c)
                  /\ OpenSalesOf(c)' = OpenSalesOf(c)
  <2>1. s \in CreditSalesOf(c) <=> r.type = "CREDIT" /\ r.client = c
    BY <1>1 DEF CreditSalesOf
  <2>2. CASE s \in CreditSalesOf(c)
    <3>1. s \notin ReversedSalesOf(c) /\ s \in OpenSalesOf(c)
      BY <1>1, <2>2 DEF ReversedSalesOf, OpenSalesOf
    <3>2. ReversedSalesOf(c)' = ReversedSalesOf(c) \cup {s}
      BY <1>1, <1>3, <1>5, <2>2 DEF ReversedSalesOf
    <3>3. OpenSalesOf(c)' = OpenSalesOf(c) \ {s}
      BY <1>1, <1>3, <1>5, <2>2 DEF OpenSalesOf
    <3> QED
      BY <2>1, <2>2, <3>1, <3>2, <3>3
  <2>3. CASE s \notin CreditSalesOf(c)
    <3>1. ReversedSalesOf(c)' = ReversedSalesOf(c)
      BY <1>1, <1>5, <2>3 DEF ReversedSalesOf
    <3>2. OpenSalesOf(c)' = OpenSalesOf(c)
      BY <1>1, <1>5, <2>3 DEF OpenSalesOf
    <3> QED
      BY <2>1, <2>3, <3>1, <3>2
  <2> QED
    BY <2>2, <2>3
<1>7. \A x \in Sales : sale'[x].total = sale[x].total
  BY <1>1, <1>3
<1> QED
  BY <1>1, <1>4, <1>5, <1>6, <1>7

\* A new payment joins the payments of its client.
LEMMA CommitPaymentRowSets ==
    ASSUME LinkedInv, NEW w \in Workers, NEW p \in Payments, CommitPayment(w, p)
    PROVE  /\ SalesStay
           /\ worker[w].client \in Clients
           /\ \A x \in Payments \ {p} : payment'[x] = payment[x]
           /\ payment'[p].amount = worker[w].amount
           /\ \A c \in Clients :
                /\ IF worker[w].client = c
                   THEN /\ p \notin EveryPaymentBy(c) /\ p \notin PaymentsBy(c)
                        /\ EveryPaymentBy(c)' = EveryPaymentBy(c) \cup {p}
                        /\ PaymentsBy(c)' = PaymentsBy(c) \cup {p}
                   ELSE /\ EveryPaymentBy(c)' = EveryPaymentBy(c)
                        /\ PaymentsBy(c)' = PaymentsBy(c)
                /\ RemovedPaymentsBy(c)' = RemovedPaymentsBy(c)
<1> PICK r : r = worker[w]
  OBVIOUS
<1>1. /\ r.client \in Clients
      /\ payment[p].state = "unused"
      /\ \A x \in Payments \ {p} : payment'[x] = payment[x]
  BY ZenonT(60), CommitPaymentEffect
<1>2. payment'[p] = [state |-> "live", client |-> r.client,
                     sale |-> r.sale, amount |-> r.amount]
  BY CommitPaymentEffect
<1>3. payment'[p].state = "live" /\ payment'[p].client = r.client /\ payment'[p].amount = r.amount
  BY <1>2
<1>4. payment[p].client = Null
  BY <1>1, LinkedTables DEF RowsLinked
<1>5. SalesStay
  <2>1. \E x, status : SaleGets(x, status)
    BY CommitPaymentEffect
  <2> QED
    BY <2>1, LinkedTables, SaleGetsKeeps DEF SalesStay
<1>6. ASSUME NEW c \in Clients
      PROVE  /\ IF r.client = c
                THEN /\ p \notin EveryPaymentBy(c) /\ p \notin PaymentsBy(c)
                     /\ EveryPaymentBy(c)' = EveryPaymentBy(c) \cup {p}
                     /\ PaymentsBy(c)' = PaymentsBy(c) \cup {p}
                ELSE /\ EveryPaymentBy(c)' = EveryPaymentBy(c)
                     /\ PaymentsBy(c)' = PaymentsBy(c)
             /\ RemovedPaymentsBy(c)' = RemovedPaymentsBy(c)
  <2>1. p \notin EveryPaymentBy(c) /\ p \notin PaymentsBy(c) /\ p \notin RemovedPaymentsBy(c)
    BY <1>4, NullAssumption DEF EveryPaymentBy, PaymentsBy, RemovedPaymentsBy
  <2>2. RemovedPaymentsBy(c)' = RemovedPaymentsBy(c)
    BY <1>1, <1>3, <1>4, NullAssumption DEF RemovedPaymentsBy
  <2>3. CASE r.client = c
    <3>1. EveryPaymentBy(c)' = EveryPaymentBy(c) \cup {p}
      BY <1>1, <1>3, <2>3 DEF EveryPaymentBy
    <3>2. PaymentsBy(c)' = PaymentsBy(c) \cup {p}
      BY <1>1, <1>3, <2>3 DEF PaymentsBy
    <3> QED
      BY <2>1, <2>2, <2>3, <3>1, <3>2
  <2>4. CASE r.client # c
    <3>1. EveryPaymentBy(c)' = EveryPaymentBy(c)
      BY <1>1, <1>3, <1>4, <2>4, NullAssumption DEF EveryPaymentBy
    <3>2. PaymentsBy(c)' = PaymentsBy(c)
      BY <1>1, <1>3, <2>4 DEF PaymentsBy
    <3> QED
      BY <2>2, <2>4, <3>1, <3>2
  <2> QED
    BY <2>3, <2>4
<1> QED
  BY <1>1, <1>3, <1>5, <1>6

\* A correction changes an amount and no set of rows.
LEMMA CommitUpdatePaymentRowSets ==
    ASSUME LinkedInv, NEW w \in Workers, CommitUpdatePayment(w)
    PROVE  LET p == worker[w].payment
           IN  /\ SalesStay
               /\ worker[w].client \in Clients /\ p \in Payments
               /\ payment[p].client = worker[w].client
               /\ \A x \in Payments \ {p} : payment'[x] = payment[x]
               /\ \A c : /\ EveryPaymentBy(c)' = EveryPaymentBy(c)
                         /\ RemovedPaymentsBy(c)' = RemovedPaymentsBy(c)
                         /\ PaymentsBy(c)' = PaymentsBy(c)
<1> PICK r, p : r = worker[w] /\ p = worker[w].payment
  OBVIOUS
<1>1. /\ r.client \in Clients /\ p \in Payments /\ payment[p].client = r.client
      /\ \A x \in Payments \ {p} : payment'[x] = payment[x]
  BY CommitUpdatePaymentEffect
<1>2. payment'[p] = [payment[p] EXCEPT !.amount = r.amount]
  BY CommitUpdatePaymentEffect
<1>3. payment'[p].state = payment[p].state /\ payment'[p].client = payment[p].client
  BY <1>1, <1>2, LinkedTables DEF PaymentRow
<1>4. SalesStay
  <2>1. \E x, status : SaleGets(x, status)
    BY CommitUpdatePaymentEffect
  <2> QED
    BY <2>1, LinkedTables, SaleGetsKeeps DEF SalesStay
<1>5. \A c : /\ EveryPaymentBy(c)' = EveryPaymentBy(c)
             /\ RemovedPaymentsBy(c)' = RemovedPaymentsBy(c)
             /\ PaymentsBy(c)' = PaymentsBy(c)
  BY <1>1, <1>3 DEF EveryPaymentBy, RemovedPaymentsBy, PaymentsBy
<1> QED
  BY <1>1, <1>4, <1>5

\* A removed payment stays its client's but no longer counts.
LEMMA CommitDeletePaymentRowSets ==
    ASSUME LinkedInv, NEW w \in Workers, CommitDeletePayment(w)
    PROVE  LET p == worker[w].payment
           IN  /\ SalesStay
               /\ worker[w].client \in Clients /\ p \in Payments
               /\ \A x \in Payments : payment'[x].amount = payment[x].amount
               /\ \A c \in Clients :
                    /\ IF worker[w].client = c
                       THEN /\ p \notin RemovedPaymentsBy(c) /\ p \in PaymentsBy(c)
                            /\ RemovedPaymentsBy(c)' = RemovedPaymentsBy(c) \cup {p}
                            /\ PaymentsBy(c)' = PaymentsBy(c) \ {p}
                       ELSE /\ RemovedPaymentsBy(c)' = RemovedPaymentsBy(c)
                            /\ PaymentsBy(c)' = PaymentsBy(c)
                    /\ EveryPaymentBy(c)' = EveryPaymentBy(c)
<1> PICK r, p : r = worker[w] /\ p = worker[w].payment
  OBVIOUS
<1>1. /\ r.client \in Clients /\ p \in Payments /\ payment[p].client = r.client
      /\ payment[p].state = "live"
      /\ \A x \in Payments \ {p} : payment'[x] = payment[x]
  BY CommitDeletePaymentEffect
<1>2. payment'[p] = [payment[p] EXCEPT !.state = "deleted"]
  BY CommitDeletePaymentEffect
<1>3. /\ payment'[p].state = "deleted" /\ payment'[p].client = payment[p].client
      /\ payment'[p].amount = payment[p].amount
  BY <1>1, <1>2, LinkedTables DEF PaymentRow
<1>4. SalesStay
  <2>1. \E x, status : SaleGets(x, status)
    BY CommitDeletePaymentEffect
  <2> QED
    BY <2>1, LinkedTables, SaleGetsKeeps DEF SalesStay
<1>5. ASSUME NEW c \in Clients
      PROVE  /\ IF r.client = c
                THEN /\ p \notin RemovedPaymentsBy(c) /\ p \in PaymentsBy(c)
                     /\ RemovedPaymentsBy(c)' = RemovedPaymentsBy(c) \cup {p}
                     /\ PaymentsBy(c)' = PaymentsBy(c) \ {p}
                ELSE /\ RemovedPaymentsBy(c)' = RemovedPaymentsBy(c)
                     /\ PaymentsBy(c)' = PaymentsBy(c)
             /\ EveryPaymentBy(c)' = EveryPaymentBy(c)
  <2>1. EveryPaymentBy(c)' = EveryPaymentBy(c)
    BY <1>1, <1>3 DEF EveryPaymentBy
  <2>2. CASE r.client = c
    <3>1. p \notin RemovedPaymentsBy(c) /\ p \in PaymentsBy(c)
      BY <1>1, <2>2 DEF RemovedPaymentsBy, PaymentsBy
    <3>2. RemovedPaymentsBy(c)' = RemovedPaymentsBy(c) \cup {p}
      BY <1>1, <1>3, <2>2 DEF RemovedPaymentsBy
    <3>3. PaymentsBy(c)' = PaymentsBy(c) \ {p}
      BY <1>1, <1>3, <2>2 DEF PaymentsBy
    <3> QED
      BY <2>1, <2>2, <3>1, <3>2, <3>3
  <2>3. CASE r.client # c
    <3>1. RemovedPaymentsBy(c)' = RemovedPaymentsBy(c)
      BY <1>1, <1>3, <2>3 DEF RemovedPaymentsBy
    <3>2. PaymentsBy(c)' = PaymentsBy(c)
      BY <1>1, <1>3, <2>3 DEF PaymentsBy
    <3> QED
      BY <2>1, <2>3, <3>1, <3>2
  <2> QED
    BY <2>2, <2>3
<1>6. \A x \in Payments : payment'[x].amount = payment[x].amount
  BY <1>1, <1>3
<1> QED
  BY <1>1, <1>4, <1>5, <1>6

\* One more entry of a kind for one more row of the set it counts.
LEMMA OneMore ==
    ASSUME NEW S, IsFiniteSet(S), NEW x, x \notin S
    PROVE  Cardinality(S \cup {x}) = Cardinality(S) + 1
  BY FS_AddElement

LEMMA CommitSaleMatches ==
    ASSUME LinkedInv, \A c \in Clients : MatchesFor(c),
           NEW w \in Workers, NEW s \in Sales, CommitSale(w, s),
           NEW c \in Clients
    PROVE  MatchesFor(c)'
<1>1. /\ EveryPaymentBy(c)' = EveryPaymentBy(c)
      /\ RemovedPaymentsBy(c)' = RemovedPaymentsBy(c)
  BY CommitSaleRowSets, PaymentsStayCounted
<1>2. ReversedSalesOf(c)' = ReversedSalesOf(c) /\ MatchesFor(c)
  BY CommitSaleRowSets
<1>3. CASE worker[w].type = "CREDIT" /\ worker[w].client = c
  <2>1. Booked(c, "CREDIT_SALE_OPENED")
    BY <1>3, CommitSaleBooks
  <2>2. s \notin CreditSalesOf(c) /\ CreditSalesOf(c)' = CreditSalesOf(c) \cup {s}
    BY <1>3, CommitSaleRowSets
  <2>3. Cardinality(CreditSalesOf(c) \cup {s}) = Cardinality(CreditSalesOf(c)) + 1
    BY <2>2, OneMore, RowSetsFinite
  <2> QED
    BY <1>1, <1>2, <2>1, <2>2, <2>3 DEF MatchesFor, Booked
<1>4. CASE ~(worker[w].type = "CREDIT" /\ worker[w].client = c)
  <2>1. CreditSalesOf(c)' = CreditSalesOf(c)
    BY <1>4, CommitSaleRowSets
  <2>2. \A kind \in Kinds : Count(c, kind)' = Count(c, kind)
    <3>1. CASE worker[w].type = "CREDIT"
      BY <1>4, <3>1, CommitSaleBooks DEF Booked
    <3>2. CASE worker[w].type # "CREDIT"
      <4>1. book' = book
        BY <3>2, CommitSaleBooks DEF Unmoved
      <4> QED
        BY <4>1 DEF Count
    <3> QED
      BY <3>1, <3>2
  <2> QED
    BY <1>1, <1>2, <2>1, <2>2 DEF MatchesFor, Kinds
<1> QED
  BY <1>3, <1>4

LEMMA CommitDeleteSaleMatches ==
    ASSUME LinkedInv, \A c \in Clients : MatchesFor(c),
           NEW w \in Workers, CommitDeleteSale(w),
           NEW c \in Clients
    PROVE  MatchesFor(c)'
<1> PICK s : s = worker[w].sale
  OBVIOUS
<1>1. /\ EveryPaymentBy(c)' = EveryPaymentBy(c)
      /\ RemovedPaymentsBy(c)' = RemovedPaymentsBy(c)
  BY CommitDeleteSaleRowSets, PaymentsStayCounted
<1>2. CreditSalesOf(c)' = CreditSalesOf(c) /\ MatchesFor(c)
  BY CommitDeleteSaleRowSets
<1>3. CASE worker[w].type = "CREDIT" /\ worker[w].client = c
  <2>1. Booked(c, "CREDIT_SALE_REVERSED")
    BY <1>3, CommitDeleteSaleBooks
  <2>2. s \notin ReversedSalesOf(c) /\ ReversedSalesOf(c)' = ReversedSalesOf(c) \cup {s}
    BY <1>3, CommitDeleteSaleRowSets
  <2>3. Cardinality(ReversedSalesOf(c) \cup {s}) = Cardinality(ReversedSalesOf(c)) + 1
    BY <2>2, OneMore, RowSetsFinite
  <2> QED
    BY <1>1, <1>2, <2>1, <2>2, <2>3 DEF MatchesFor, Booked
<1>4. CASE ~(worker[w].type = "CREDIT" /\ worker[w].client = c)
  <2>1. ReversedSalesOf(c)' = ReversedSalesOf(c)
    BY <1>4, CommitDeleteSaleRowSets
  <2>2. \A kind \in Kinds : Count(c, kind)' = Count(c, kind)
    <3>1. CASE worker[w].type = "CREDIT"
      BY <1>4, <3>1, CommitDeleteSaleBooks DEF Booked
    <3>2. CASE worker[w].type # "CREDIT"
      <4>1. book' = book
        BY <3>2, CommitDeleteSaleBooks DEF Unmoved
      <4> QED
        BY <4>1 DEF Count
    <3> QED
      BY <3>1, <3>2
  <2> QED
    BY <1>1, <1>2, <2>1, <2>2 DEF MatchesFor, Kinds
<1> QED
  BY <1>3, <1>4

LEMMA CommitPaymentMatches ==
    ASSUME LinkedInv, \A c \in Clients : MatchesFor(c),
           NEW w \in Workers, NEW p \in Payments, CommitPayment(w, p),
           NEW c \in Clients
    PROVE  MatchesFor(c)'
<1>1. CreditSalesOf(c)' = CreditSalesOf(c) /\ ReversedSalesOf(c)' = ReversedSalesOf(c)
  BY CommitPaymentRowSets, SalesStayCounted
<1>2. RemovedPaymentsBy(c)' = RemovedPaymentsBy(c) /\ MatchesFor(c)
  BY CommitPaymentRowSets
<1>3. CASE worker[w].client = c
  <2>1. Booked(c, "PAYMENT_RECEIVED")
    BY <1>3, CommitPaymentBooks
  <2>2. p \notin EveryPaymentBy(c) /\ EveryPaymentBy(c)' = EveryPaymentBy(c) \cup {p}
    BY <1>3, CommitPaymentRowSets
  <2>3. Cardinality(EveryPaymentBy(c) \cup {p}) = Cardinality(EveryPaymentBy(c)) + 1
    BY <2>2, OneMore, RowSetsFinite
  <2> QED
    BY <1>1, <1>2, <2>1, <2>2, <2>3 DEF MatchesFor, Booked
<1>4. CASE worker[w].client # c
  <2>1. EveryPaymentBy(c)' = EveryPaymentBy(c)
    BY <1>4, CommitPaymentRowSets
  <2>2. \A kind \in Kinds : Count(c, kind)' = Count(c, kind)
    BY <1>4, CommitPaymentBooks DEF Booked
  <2> QED
    BY <1>1, <1>2, <2>1, <2>2 DEF MatchesFor, Kinds
<1> QED
  BY <1>3, <1>4

LEMMA CommitUpdatePaymentMatches ==
    ASSUME LinkedInv, \A c \in Clients : MatchesFor(c),
           NEW w \in Workers, CommitUpdatePayment(w),
           NEW c \in Clients
    PROVE  MatchesFor(c)'
<1>1. CreditSalesOf(c)' = CreditSalesOf(c) /\ ReversedSalesOf(c)' = ReversedSalesOf(c)
  BY CommitUpdatePaymentRowSets, SalesStayCounted
<1>2. /\ EveryPaymentBy(c)' = EveryPaymentBy(c)
      /\ RemovedPaymentsBy(c)' = RemovedPaymentsBy(c)
      /\ MatchesFor(c)
  BY CommitUpdatePaymentRowSets
<1>3. \A kind \in Kinds : kind # "PAYMENT_ADJUSTED" => Count(c, kind)' = Count(c, kind)
  BY CommitUpdatePaymentBooks DEF Booked
<1> QED
  BY <1>1, <1>2, <1>3 DEF MatchesFor, Kinds

LEMMA CommitDeletePaymentMatches ==
    ASSUME LinkedInv, \A c \in Clients : MatchesFor(c),
           NEW w \in Workers, CommitDeletePayment(w),
           NEW c \in Clients
    PROVE  MatchesFor(c)'
<1> PICK p : p = worker[w].payment
  OBVIOUS
<1>1. CreditSalesOf(c)' = CreditSalesOf(c) /\ ReversedSalesOf(c)' = ReversedSalesOf(c)
  BY CommitDeletePaymentRowSets, SalesStayCounted
<1>2. EveryPaymentBy(c)' = EveryPaymentBy(c) /\ MatchesFor(c)
  BY CommitDeletePaymentRowSets
<1>3. CASE worker[w].client = c
  <2>1. Booked(c, "PAYMENT_REMOVED")
    BY <1>3, CommitDeletePaymentBooks
  <2>2. p \notin RemovedPaymentsBy(c) /\ RemovedPaymentsBy(c)' = RemovedPaymentsBy(c) \cup {p}
    BY <1>3, CommitDeletePaymentRowSets
  <2>3. Cardinality(RemovedPaymentsBy(c) \cup {p}) = Cardinality(RemovedPaymentsBy(c)) + 1
    BY <2>2, OneMore, RowSetsFinite
  <2> QED
    BY <1>1, <1>2, <2>1, <2>2, <2>3 DEF MatchesFor, Booked
<1>4. CASE worker[w].client # c
  <2>1. RemovedPaymentsBy(c)' = RemovedPaymentsBy(c)
    BY <1>4, CommitDeletePaymentRowSets
  <2>2. \A kind \in Kinds : Count(c, kind)' = Count(c, kind)
    BY <1>4, CommitDeletePaymentBooks DEF Booked
  <2> QED
    BY <1>1, <1>2, <2>1, <2>2 DEF MatchesFor, Kinds
<1> QED
  BY <1>3, <1>4

LEMMA MatchesUntouched ==
    ASSUME TablesMatchBook, UNCHANGED <<book, sale, payment>>
    PROVE  TablesMatchBook'
<1> SUFFICES ASSUME NEW c \in Clients PROVE MatchesFor(c)'
  BY TablesMatchNext
<1>1. \A kind : Count(c, kind)' = Count(c, kind)
  BY DEF Count
<1>2. /\ CreditSalesOf(c)' = CreditSalesOf(c) /\ ReversedSalesOf(c)' = ReversedSalesOf(c)
      /\ EveryPaymentBy(c)' = EveryPaymentBy(c)
      /\ RemovedPaymentsBy(c)' = RemovedPaymentsBy(c)
  BY DEF CreditSalesOf, ReversedSalesOf, EveryPaymentBy, RemovedPaymentsBy
<1> QED
  BY <1>1, <1>2, TablesMatch DEF MatchesFor

LEMMA MatchesInit == Init => TablesMatchBook
<1> SUFFICES ASSUME Init, NEW c \in Clients PROVE MatchesFor(c)
  BY TablesMatch
<1>1. \A kind : Count(c, kind) = 0
  <2> TAKE kind
  <2>1. {i \in DOMAIN book[c] : book[c][i].kind = kind} = {}
    BY DEF Init
  <2> QED
    BY <2>1, FS_EmptySet DEF Count
<1>2. /\ CreditSalesOf(c) = {} /\ ReversedSalesOf(c) = {}
      /\ EveryPaymentBy(c) = {} /\ RemovedPaymentsBy(c) = {}
  BY NullAssumption DEF Init, CreditSalesOf, ReversedSalesOf, EveryPaymentBy, RemovedPaymentsBy
<1> QED
  BY <1>1, <1>2, FS_EmptySet DEF MatchesFor

\* Nothing is booked twice or forgotten (TablesMatchBook): the entries of each
\* kind are as many as the sales and payments that were created and deleted,
\* however many requests validated the deletion of one row at the same time.
THEOREM TablesMatchBookAlways == Spec => []TablesMatchBook
<1>1. LinkedInv /\ TablesMatchBook /\ [Next]_vars => TablesMatchBook'
  <2> SUFFICES ASSUME LinkedInv, TablesMatchBook, [Next]_vars PROVE TablesMatchBook'
    OBVIOUS
  <2>1. (\A c \in Clients : MatchesFor(c)) /\ ((\A c \in Clients : MatchesFor(c)') => TablesMatchBook')
    BY TablesMatch, TablesMatchNext
  <2>2. CASE UNCHANGED vars
    BY <2>2, MatchesUntouched DEF vars
  <2>3. ASSUME NEW w \in Workers, SaleRequests(w) PROVE TablesMatchBook'
    BY ZenonT(60), <2>1, <2>3, CommitSaleMatches, CommitDeleteSaleMatches, MatchesUntouched
       DEF SaleRequests, ValidateSale, ValidateDeleteSale, Accept
  <2>4. ASSUME NEW w \in Workers, PaymentRequests(w) PROVE TablesMatchBook'
    BY <2>1, <2>4, CommitPaymentMatches, CommitUpdatePaymentMatches,
       CommitDeletePaymentMatches, MatchesUntouched
       DEF PaymentRequests, ValidatePayment, ValidateUpdatePayment,
           ValidateDeletePayment, ReadPayment, Accept
  <2>5. ASSUME NEW w \in Workers, Abort(w) PROVE TablesMatchBook'
    BY <2>5, MatchesUntouched DEF Abort
  <2>6. ASSUME NEW c \in Clients, DeactivateClient(c) PROVE TablesMatchBook'
    BY <2>6, MatchesUntouched DEF DeactivateClient
  <2> QED
    BY <2>2, <2>3, <2>4, <2>5, <2>6 DEF Next
<1> QED
  BY <1>1, MatchesInit, LinkedInit, LinkedStep, PTL DEF Spec

-----------------------------------------------------------------------------
(* What a client should owe, and how each commit changes it.               *)

OpenTotal(c) == SumFunctionOnSet(TotalOf, OpenSalesOf(c))
PaidTotal(c) == SumFunctionOnSet(AmountOf, PaymentsBy(c))

LEMMA TotalsTyped ==
    ASSUME LinkedInv, NEW c
    PROVE  /\ \A s \in Sales : TotalOf[s] = sale[s].total /\ sale[s].total \in Nat
           /\ \A p \in Payments : AmountOf[p] = payment[p].amount /\ payment[p].amount \in Nat
           /\ OpenSalesOf(c) \subseteq Sales /\ IsFiniteSet(OpenSalesOf(c))
           /\ PaymentsBy(c) \subseteq Payments /\ IsFiniteSet(PaymentsBy(c))
           /\ OpenTotal(c) \in Nat /\ PaidTotal(c) \in Nat
           /\ Debt(c) = OpenTotal(c) - PaidTotal(c)
<1>1. \A s \in Sales : TotalOf[s] = sale[s].total /\ sale[s].total \in Nat
  BY LinkedTables, BoundsAssumption DEF TotalOf, SaleRow
<1>2. \A p \in Payments : AmountOf[p] = payment[p].amount /\ payment[p].amount \in Nat
  BY AmountsAre
<1>3. OpenSalesOf(c) \subseteq Sales /\ PaymentsBy(c) \subseteq Payments
  BY DEF OpenSalesOf, CreditSalesOf, PaymentsBy
<1>4. OpenTotal(c) \in Nat /\ PaidTotal(c) \in Nat
  BY <1>1, <1>2, <1>3, RowSetsFinite, SumNat DEF OpenTotal, PaidTotal
<1> QED
  BY <1>1, <1>2, <1>3, <1>4, RowSetsFinite DEF Debt, OpenTotal, PaidTotal

LEMMA OpenTotalUnchanged ==
    ASSUME LinkedInv, NEW c, OpenSalesOf(c)' = OpenSalesOf(c),
           \A s \in OpenSalesOf(c) : sale'[s].total = sale[s].total
    PROVE  OpenTotal(c)' = OpenTotal(c)
<1>1. \A s \in OpenSalesOf(c) : TotalOf'[s] = TotalOf[s]
  BY TotalsTyped DEF TotalOf
<1>2. SumFunctionOnSet(TotalOf', OpenSalesOf(c)) = SumFunctionOnSet(TotalOf, OpenSalesOf(c))
  BY <1>1, RowSetsFinite, SumCongruence
<1> QED
  BY <1>2 DEF OpenTotal

LEMMA PaidTotalUnchanged ==
    ASSUME LinkedInv, NEW c, PaymentsBy(c)' = PaymentsBy(c),
           \A p \in PaymentsBy(c) : payment'[p].amount = payment[p].amount
    PROVE  PaidTotal(c)' = PaidTotal(c)
<1>1. \A p \in PaymentsBy(c) : AmountOf'[p] = AmountOf[p]
  BY TotalsTyped DEF AmountOf
<1>2. SumFunctionOnSet(AmountOf', PaymentsBy(c)) = SumFunctionOnSet(AmountOf, PaymentsBy(c))
  BY <1>1, RowSetsFinite, SumCongruence
<1> QED
  BY <1>2 DEF PaidTotal

LEMMA DebtNext == \A c : Debt(c)' = OpenTotal(c)' - PaidTotal(c)'
  BY DEF Debt, OpenTotal, PaidTotal

\* The balance row moves by what is booked.
LEMMA BookMoves ==
    ASSUME LinkedInv, NEW k, NEW d, NEW r, NEW x \in Clients, Book(x, k, d, r)
    PROVE  \A c \in Clients : balance'[c] = IF c = x THEN balance[c] + d ELSE balance[c]
  BY DEF LinkedInv, TypeInv, TypeOK, Book

LEMMA CommitSaleDebt ==
    ASSUME LinkedInv, NEW w \in Workers, NEW s \in Sales, CommitSale(w, s), NEW c \in Clients
    PROVE  IF worker[w].type = "CREDIT" /\ worker[w].client = c
           THEN /\ Debt(c)' = Debt(c) + worker[w].amount
                /\ balance'[c] = balance[c] + worker[w].amount
           ELSE Debt(c)' = Debt(c) /\ balance'[c] = balance[c]
<1> PICK r : r = worker[w]
  OBVIOUS
<1>1. /\ r.amount \in Amounts /\ r.client \in Clients
      /\ \A x \in Sales \ {s} : sale'[x] = sale[x]
  BY CommitSaleEffect
<1>2. sale'[s] = [state |-> "live", client |-> r.client, type |-> r.type,
                  total |-> r.amount,
                  status |-> IF r.type = "CASH" THEN "PAID" ELSE "PENDING"]
  BY CommitSaleEffect
<1>3. sale'[s].total = r.amount /\ r.amount \in Nat
  BY <1>1, <1>2, BoundsAssumption DEF Amounts
<1>4. PaidTotal(c)' = PaidTotal(c)
  BY CommitSaleRowSets, PaymentsStayCounted, TotalsTyped, PaidTotalUnchanged DEF PaymentsStay
<1>5. CASE r.type = "CREDIT" /\ r.client = c
  <2>1. s \notin OpenSalesOf(c) /\ OpenSalesOf(c)' = OpenSalesOf(c) \cup {s}
    BY <1>5, CommitSaleRowSets DEF OpenSalesOf
  <2> DEFINE S == OpenSalesOf(c)
             f == TotalOf
             g == TotalOf'
  <2>2. g[s] = r.amount /\ \A x \in S : g[x] = f[x] /\ f[x] \in Int
    BY <1>1, <1>3, <2>1, TotalsTyped DEF TotalOf
  <2>3. IsFiniteSet(S)
    BY RowSetsFinite
  <2>4. SumFunctionOnSet(g, S \cup {s}) = SumFunctionOnSet(f, S) + r.amount
    <3> HIDE DEF S, f, g
    <3>1. SumFunctionOnSet(g, S \cup {s}) = SumFunctionOnSet(g, S) + g[s]
      BY <1>3, <2>1, <2>2, <2>3, SumAdd DEF S
    <3>2. SumFunctionOnSet(g, S) = SumFunctionOnSet(f, S)
      BY <2>2, <2>3, SumCongruence
    <3> QED
      BY <2>2, <3>1, <3>2
  <2>5. OpenTotal(c)' = OpenTotal(c) + r.amount
    BY <2>1, <2>4 DEF OpenTotal
  <2>6. balance'[c] = balance[c] + r.amount
    BY <1>1, <1>5, CommitSaleBooks, BookMoves
  <2> QED
    BY <1>3, <1>4, <1>5, <2>5, <2>6, DebtNext, TotalsTyped
<1>6. CASE ~(r.type = "CREDIT" /\ r.client = c)
  <2>1. OpenSalesOf(c)' = OpenSalesOf(c) /\ s \notin OpenSalesOf(c)
    BY ZenonT(60), <1>6, CommitSaleEffect, CommitSaleRowSets DEF OpenSalesOf
  <2>2. OpenTotal(c)' = OpenTotal(c)
    BY <1>1, <2>1, TotalsTyped, OpenTotalUnchanged
  <2>3. balance'[c] = balance[c]
    <3>1. CASE r.type = "CREDIT"
      BY <1>1, <1>6, <3>1, CommitSaleBooks, BookMoves
    <3>2. CASE r.type # "CREDIT"
      BY <3>2, CommitSaleBooks DEF Unmoved
    <3> QED
      BY <3>1, <3>2
  <2> QED
    BY <1>4, <1>6, <2>2, <2>3, DebtNext, TotalsTyped
<1> QED
  BY <1>5, <1>6

\* A deleted credit sale is no longer owed.
LEMMA CommitDeleteSaleDebt ==
    ASSUME LinkedInv, NEW w \in Workers, CommitDeleteSale(w), NEW c \in Clients
    PROVE  IF worker[w].type = "CREDIT" /\ worker[w].client = c
           THEN /\ Debt(c)' = Debt(c) - worker[w].amount
                /\ balance'[c] = balance[c] - worker[w].amount
           ELSE Debt(c)' = Debt(c) /\ balance'[c] = balance[c]
<1> PICK r, s : r = worker[w] /\ s = worker[w].sale
  OBVIOUS
<1>1. /\ r.client \in Clients /\ s \in Sales /\ r.amount = sale[s].total
      /\ \A x \in Sales : sale'[x].total = sale[x].total
      /\ r.amount \in Nat
  BY CommitDeleteSaleRowSets, TotalsTyped
<1>2. PaidTotal(c)' = PaidTotal(c)
  BY CommitDeleteSaleRowSets, PaymentsStayCounted, TotalsTyped, PaidTotalUnchanged
     DEF PaymentsStay
<1>3. CASE r.type = "CREDIT" /\ r.client = c
  <2>1. s \in OpenSalesOf(c) /\ OpenSalesOf(c)' = OpenSalesOf(c) \ {s}
    BY <1>3, CommitDeleteSaleRowSets
  <2>2. OpenTotal(c)' = OpenTotal(c) - r.amount
    <3> DEFINE S == OpenSalesOf(c)
               f == TotalOf
               g == TotalOf'
    <3>1. /\ f[s] = r.amount /\ f[s] \in Int
          /\ \A x \in S : g[x] = f[x] /\ f[x] \in Int
      BY <1>1, TotalsTyped DEF TotalOf
    <3>2. IsFiniteSet(S) /\ IsFiniteSet(S \ {s})
      BY RowSetsFinite, FS_RemoveElement
    <3>3. SumFunctionOnSet(f, S) = f[s] + SumFunctionOnSet(f, S \ {s})
      <4> HIDE DEF f, S
      <4> QED
        BY <2>1, <3>1, <3>2, SumRemove DEF S
    <3>4. SumFunctionOnSet(g, S \ {s}) = SumFunctionOnSet(f, S \ {s})
      BY <3>1, <3>2, SumCongruence
    <3>5. SumFunctionOnSet(f, S \ {s}) \in Int
      BY <3>1, <3>2, SumInt
    <3>6. OpenTotal(c) = SumFunctionOnSet(f, S)
      BY DEF OpenTotal
    <3>7. OpenTotal(c)' = SumFunctionOnSet(g, S \ {s})
      BY <2>1 DEF OpenTotal
    <3> HIDE DEF f, g, S
    <3> QED
      BY <3>1, <3>3, <3>4, <3>5, <3>6, <3>7
  <2>3. balance'[c] = balance[c] - r.amount
    <3>1. balance'[c] = balance[c] + (-r.amount)
      BY <1>1, <1>3, CommitDeleteSaleBooks, BookMoves
    <3> QED
      BY <1>1, <3>1, LinkedInv DEF LinkedInv, TypeInv, TypeOK
  <2> QED
    BY <1>1, <1>2, <1>3, <2>2, <2>3, DebtNext, TotalsTyped
<1>4. CASE ~(r.type = "CREDIT" /\ r.client = c)
  <2>1. OpenSalesOf(c)' = OpenSalesOf(c)
    BY <1>4, CommitDeleteSaleRowSets
  <2>2. OpenTotal(c)' = OpenTotal(c)
    BY <1>1, <2>1, TotalsTyped, OpenTotalUnchanged
  <2>3. balance'[c] = balance[c]
    <3>1. CASE r.type = "CREDIT"
      BY <1>1, <1>4, <3>1, CommitDeleteSaleBooks, BookMoves
    <3>2. CASE r.type # "CREDIT"
      BY <3>2, CommitDeleteSaleBooks DEF Unmoved
    <3> QED
      BY <3>1, <3>2
  <2> QED
    BY <1>2, <1>4, <2>2, <2>3, DebtNext, TotalsTyped
<1> QED
  BY <1>3, <1>4

\* The sales side of what is owed does not move with a payment.
LEMMA SalesStayOwed ==
    ASSUME LinkedInv, SalesStay, NEW c
    PROVE  OpenTotal(c)' = OpenTotal(c)
  BY SalesStayCounted, TotalsTyped, OpenTotalUnchanged DEF SalesStay

\* A payment is taken off.
LEMMA CommitPaymentDebt ==
    ASSUME LinkedInv, NEW w \in Workers, NEW p \in Payments, CommitPayment(w, p),
           NEW c \in Clients
    PROVE  IF worker[w].client = c
           THEN /\ Debt(c)' = Debt(c) - worker[w].amount
                /\ balance'[c] = balance[c] - worker[w].amount
           ELSE Debt(c)' = Debt(c) /\ balance'[c] = balance[c]
<1> PICK r : r = worker[w]
  OBVIOUS
<1>1. /\ r.client \in Clients /\ r.amount \in Amounts
      /\ \A x \in Payments \ {p} : payment'[x] = payment[x]
      /\ payment'[p].amount = r.amount
  BY ZenonT(60), CommitPaymentEffect, CommitPaymentRowSets
<1>2. r.amount \in Nat
  BY <1>1, BoundsAssumption DEF Amounts
<1>3. OpenTotal(c)' = OpenTotal(c)
  BY CommitPaymentRowSets, SalesStayOwed
<1>4. CASE r.client = c
  <2>1. p \notin PaymentsBy(c) /\ PaymentsBy(c)' = PaymentsBy(c) \cup {p}
    BY <1>4, CommitPaymentRowSets
  <2>2. PaidTotal(c)' = PaidTotal(c) + r.amount
    <3> DEFINE S == PaymentsBy(c)
               f == AmountOf
               g == AmountOf'
    <3>1. g[p] = r.amount /\ \A x \in S : g[x] = f[x] /\ f[x] \in Int
      BY <1>1, <2>1, TotalsTyped DEF AmountOf
    <3>2. IsFiniteSet(S)
      BY RowSetsFinite
    <3>3. PaidTotal(c) = SumFunctionOnSet(f, S)
      BY DEF PaidTotal
    <3>4. PaidTotal(c)' = SumFunctionOnSet(g, S \cup {p})
      BY <2>1 DEF PaidTotal
    <3>5. p \notin S
      BY <2>1
    <3> HIDE DEF f, g, S
    <3>6. SumFunctionOnSet(g, S \cup {p}) = SumFunctionOnSet(g, S) + g[p]
      BY <1>2, <3>1, <3>2, <3>5, SumAdd
    <3>7. SumFunctionOnSet(g, S) = SumFunctionOnSet(f, S)
      BY <3>1, <3>2, SumCongruence
    <3> QED
      BY <3>1, <3>3, <3>4, <3>6, <3>7
  <2>3. balance'[c] = balance[c] - r.amount
    <3>1. balance'[c] = balance[c] + (-r.amount)
      BY <1>1, <1>4, CommitPaymentBooks, BookMoves
    <3> QED
      BY <1>2, <3>1 DEF LinkedInv, TypeInv, TypeOK
  <2> QED
    BY <1>2, <1>3, <1>4, <2>2, <2>3, DebtNext, TotalsTyped
<1>5. CASE r.client # c
  <2>1. PaymentsBy(c)' = PaymentsBy(c) /\ p \notin PaymentsBy(c)
    BY <1>5, CommitPaymentEffect, CommitPaymentRowSets DEF PaymentsBy
  <2>2. PaidTotal(c)' = PaidTotal(c)
    BY <1>1, <2>1, TotalsTyped, PaidTotalUnchanged
  <2>3. balance'[c] = balance[c]
    BY <1>1, <1>5, CommitPaymentBooks, BookMoves
  <2> QED
    BY <1>3, <1>5, <2>2, <2>3, DebtNext, TotalsTyped
<1> QED
  BY <1>4, <1>5

\* A correction moves what is owed by the difference to the amount the row
\* holds, and the balance by the difference to the amount that was read.
LEMMA CommitUpdatePaymentDebt ==
    ASSUME LinkedInv, NEW w \in Workers, CommitUpdatePayment(w), NEW c \in Clients
    PROVE  LET r == worker[w]
           IN  IF r.client = c
               THEN /\ Debt(c)' = Debt(c) + payment[r.payment].amount - r.amount
                    /\ balance'[c] = balance[c] + r.old - r.amount
               ELSE Debt(c)' = Debt(c) /\ balance'[c] = balance[c]
<1> PICK r, p : r = worker[w] /\ p = worker[w].payment
  OBVIOUS
<1>1. /\ r \in Request /\ r.client \in Clients /\ p \in Payments
      /\ payment[p].state = "live" /\ payment[p].client = r.client
      /\ \A x \in Payments \ {p} : payment'[x] = payment[x]
      /\ PaymentsBy(c)' = PaymentsBy(c)
  BY CommitUpdatePaymentEffect, CommitUpdatePaymentRowSets
<1>2. payment'[p] = [payment[p] EXCEPT !.amount = r.amount]
  BY CommitUpdatePaymentEffect
<1>3. payment'[p].amount = r.amount /\ r.amount \in Nat /\ r.old \in Nat
  BY <1>1, <1>2, LinkedTables, BoundsAssumption DEF PaymentRow, Request
<1>4. OpenTotal(c)' = OpenTotal(c)
  BY CommitUpdatePaymentRowSets, SalesStayOwed
<1>5. CASE r.client = c
  <2>1. PaidTotal(c)' = PaidTotal(c) - payment[p].amount + r.amount
    <3> DEFINE S == PaymentsBy(c)
               f == AmountOf
               g == AmountOf'
    <3>1. /\ g[p] = r.amount /\ f[p] = payment[p].amount
          /\ \A x \in S : f[x] \in Int
          /\ \A x \in S \ {p} : g[x] = f[x]
      BY <1>1, <1>3, TotalsTyped DEF AmountOf
    <3>2. IsFiniteSet(S) /\ p \in S
      BY <1>1, <1>5, RowSetsFinite DEF PaymentsBy
    <3>3. PaidTotal(c) = SumFunctionOnSet(f, S) /\ PaidTotal(c)' = SumFunctionOnSet(g, S)
      BY <1>1 DEF PaidTotal
    <3> HIDE DEF f, g, S
    <3>4. SumFunctionOnSet(g, S) = SumFunctionOnSet(f, S) - f[p] + g[p]
      BY <1>3, <3>1, <3>2, SumChange
    <3> QED
      BY <3>1, <3>3, <3>4
  <2>2. balance'[c] = balance[c] + r.old - r.amount
    <3>1. balance'[c] = balance[c] + Adjustment(r)
      BY <1>1, <1>5, CommitUpdatePaymentBooks, BookMoves
    <3> QED
      BY <1>3, <3>1 DEF LinkedInv, TypeInv, TypeOK, Adjustment
  <2>3. payment[p].amount \in Nat
    BY <1>1, TotalsTyped
  <2> QED
    BY <1>3, <1>4, <1>5, <2>1, <2>2, <2>3, DebtNext, TotalsTyped
<1>6. CASE r.client # c
  <2>1. p \notin PaymentsBy(c)
    BY <1>1, <1>6 DEF PaymentsBy
  <2>2. PaidTotal(c)' = PaidTotal(c)
    BY <1>1, <2>1, TotalsTyped, PaidTotalUnchanged
  <2>3. balance'[c] = balance[c]
    BY <1>1, <1>6, CommitUpdatePaymentBooks, BookMoves
  <2> QED
    BY <1>4, <1>6, <2>2, <2>3, DebtNext, TotalsTyped
<1> QED
  BY <1>5, <1>6

\* A deletion gives back what was read, and the debt grows by what the row holds.
LEMMA CommitDeletePaymentDebt ==
    ASSUME LinkedInv, NEW w \in Workers, CommitDeletePayment(w), NEW c \in Clients
    PROVE  LET r == worker[w]
           IN  IF r.client = c
               THEN /\ Debt(c)' = Debt(c) + payment[r.payment].amount
                    /\ balance'[c] = balance[c] + r.old
               ELSE Debt(c)' = Debt(c) /\ balance'[c] = balance[c]
<1> PICK r, p : r = worker[w] /\ p = worker[w].payment
  OBVIOUS
<1>1. /\ r.client \in Clients /\ p \in Payments
      /\ \A x \in Payments : payment'[x].amount = payment[x].amount
      /\ payment[p].amount \in Nat
  BY CommitDeletePaymentRowSets, TotalsTyped
<1>2. OpenTotal(c)' = OpenTotal(c)
  BY CommitDeletePaymentRowSets, SalesStayOwed
<1>3. CASE r.client = c
  <2>1. p \in PaymentsBy(c) /\ PaymentsBy(c)' = PaymentsBy(c) \ {p}
    BY <1>3, CommitDeletePaymentRowSets
  <2>2. PaidTotal(c)' = PaidTotal(c) - payment[p].amount
    <3> DEFINE S == PaymentsBy(c)
               f == AmountOf
               g == AmountOf'
    <3>1. /\ f[p] = payment[p].amount
          /\ \A x \in S : g[x] = f[x] /\ f[x] \in Int
      BY <1>1, TotalsTyped DEF AmountOf
    <3>2. IsFiniteSet(S) /\ IsFiniteSet(S \ {p}) /\ p \in S
      BY <2>1, RowSetsFinite, FS_RemoveElement
    <3>3. PaidTotal(c) = SumFunctionOnSet(f, S) /\ PaidTotal(c)' = SumFunctionOnSet(g, S \ {p})
      BY <2>1 DEF PaidTotal
    <3> HIDE DEF f, g, S
    <3>4. SumFunctionOnSet(f, S) = f[p] + SumFunctionOnSet(f, S \ {p})
      BY <3>1, <3>2, SumRemove
    <3>5. SumFunctionOnSet(g, S \ {p}) = SumFunctionOnSet(f, S \ {p})
      BY <3>1, <3>2, SumCongruence
    <3>6. SumFunctionOnSet(f, S \ {p}) \in Int
      BY <3>1, <3>2, SumInt
    <3> QED
      BY <1>1, <3>1, <3>3, <3>4, <3>5, <3>6
  <2>3. balance'[c] = balance[c] + r.old
    BY <1>1, <1>3, CommitDeletePaymentBooks, BookMoves
  <2> QED
    BY <1>1, <1>2, <1>3, <2>2, <2>3, DebtNext, TotalsTyped
<1>4. CASE r.client # c
  <2>1. PaymentsBy(c)' = PaymentsBy(c)
    BY <1>4, CommitDeletePaymentRowSets
  <2>2. PaidTotal(c)' = PaidTotal(c)
    BY <1>1, <2>1, TotalsTyped, PaidTotalUnchanged
  <2>3. balance'[c] = balance[c]
    BY <1>1, <1>4, CommitDeletePaymentBooks, BookMoves
  <2> QED
    BY <1>2, <1>4, <2>2, <2>3, DebtNext, TotalsTyped
<1> QED
  BY <1>3, <1>4

\* A step that leaves the rows and the balance alone leaves the debt alone.
LEMMA DebtUntouched ==
    ASSUME UNCHANGED <<balance, sale, payment>>
    PROVE  \A c : Debt(c)' = Debt(c) /\ balance'[c] = balance[c]
<1>1. TotalOf' = TotalOf /\ AmountOf' = AmountOf
  BY DEF TotalOf, AmountOf
<1>2. \A c : OpenSalesOf(c)' = OpenSalesOf(c) /\ PaymentsBy(c)' = PaymentsBy(c)
  BY DEF OpenSalesOf, CreditSalesOf, PaymentsBy
<1> QED
  BY <1>1, <1>2 DEF Debt

-----------------------------------------------------------------------------
(* Until the first correction of a client's payments the amount that a     *)
(* deletion has read is the amount it gives back.                          *)

Corrected(c) == Count(c, "PAYMENT_ADJUSTED") # 0

ReadStillHolds(r) == r.pc = "deletePaymentTx" => r.old = payment[r.payment].amount

Exact ==
    /\ \A c \in Clients : ~Corrected(c) => balance[c] = Debt(c)
    /\ \A w \in Workers : ~Corrected(worker[w].client) => ReadStillHolds(worker[w])

ExactInv == LinkedInv /\ Exact

LEMMA CountNat ==
    ASSUME LinkedInv, NEW c \in Clients, NEW kind
    PROVE  Count(c, kind) \in Nat
<1> DEFINE I == {i \in DOMAIN book[c] : book[c][i].kind = kind}
<1>1. book[c] \in Seq(Accounts!Entry)
  BY DEF LinkedInv, TypeInv, TypeOK
<1>2. DOMAIN book[c] = 1..Len(book[c]) /\ Len(book[c]) \in Nat
  BY <1>1
<1>3. IsFiniteSet(I)
  <2> DEFINE n == Len(book[c])
  <2>1. I \subseteq 1..n /\ n \in Nat
    BY <1>2
  <2> HIDE DEF I, n
  <2>2. IsFiniteSet(1..n)
    BY <2>1, FS_Interval
  <2> QED
    BY <2>1, <2>2, FS_Subset
<1> QED
  BY <1>3, FS_CardinalityType DEF Count

\* What an action has to show for the deletions in flight: it changes amounts
\* only of clients it marks as corrected.
LEMMA ReadsStillHold ==
    ASSUME ExactInv, NEW w \in Workers,
           \A x \in Workers \ {w} : worker'[x] = worker[x],
           ReadStillHolds(worker[w])',
           \A c \in Clients : Corrected(c) => Corrected(c)',
           \A p \in Payments, c \in Clients :
             payment[p].client = c
               => payment'[p].amount = payment[p].amount \/ Corrected(c)'
    PROVE  \A x \in Workers : ~Corrected(worker[x].client)' => ReadStillHolds(worker[x])'
<1> SUFFICES ASSUME NEW x \in Workers \ {w}, ~Corrected(worker[x].client)',
                    worker'[x].pc = "deletePaymentTx"
             PROVE  ReadStillHolds(worker[x])'
  BY DEF ReadStillHolds
<1> PICK r : r = worker[x]
  OBVIOUS
<1>1. worker'[x] = r /\ r.pc = "deletePaymentTx"
  OBVIOUS
<1>2. /\ r.payment \in Payments
      /\ payment[r.payment].state # "unused" /\ r.client = payment[r.payment].client
  BY <1>1, InFlight DEF ExactInv, HasReadPayment
<1>3. payment[r.payment].client \in Clients
  BY <1>1, <1>2 DEF ExactInv, LinkedInv, TypeInv, References
<1>4. ~Corrected(r.client)'
  <2>1. Corrected(worker[x].client)' <=> Count(worker[x].client, "PAYMENT_ADJUSTED")' # 0
    BY DEF Corrected
  <2> QED
    BY <1>1, <2>1 DEF Corrected, Count
<1>5. r.old = payment[r.payment].amount
  BY <1>1, <1>2, <1>3, <1>4 DEF ExactInv, Exact, ReadStillHolds
<1>6. payment'[r.payment].amount = payment[r.payment].amount
  BY <1>2, <1>3, <1>4
<1> QED
  BY <1>1, <1>5, <1>6 DEF ReadStillHolds

\* What is left to show when a movement of another kind is booked, or none.
LEMMA NotACorrection ==
    ASSUME LinkedInv,
           \/ book' = book
           \/ \E x, k : k # "PAYMENT_ADJUSTED" /\ Booked(x, k)
    PROVE  \A c \in Clients : Corrected(c)' <=> Corrected(c)
  BY ZenonT(60) DEF Corrected, Booked, Count

\* The balances and the deletions in flight are all that Exact speaks about.
LEMMA ExactNext ==
    ASSUME \A c \in Clients : ~Corrected(c)' => balance'[c] = Debt(c)',
           \A w \in Workers : ~Corrected(worker[w].client)' => ReadStillHolds(worker[w])'
    PROVE  Exact'
  BY DEF Exact

LEMMA CommitSaleExact ==
    ASSUME ExactInv, NEW w \in Workers, NEW s \in Sales, CommitSale(w, s)
    PROVE  Exact'
<1>1. LinkedInv
  BY DEF ExactInv
<1>2. \A c \in Clients : Corrected(c)' <=> Corrected(c)
  <2>1. book' = book \/ Booked(worker[w].client, "CREDIT_SALE_OPENED")
    BY <1>1, CommitSaleBooks DEF Unmoved
  <2> QED
    BY <1>1, <2>1, NotACorrection
<1>3. /\ \A x \in Workers \ {w} : worker'[x] = worker[x]
      /\ worker'[w].pc # "deletePaymentTx" /\ payment' = payment
  BY <1>1, CommitSaleEffect
<1>4. \A x \in Workers : ~Corrected(worker[x].client)' => ReadStillHolds(worker[x])'
  BY <1>2, <1>3, ReadsStillHold DEF ReadStillHolds
<1>5. ASSUME NEW c \in Clients, ~Corrected(c)' PROVE balance'[c] = Debt(c)'
  <2>1. balance[c] = Debt(c)
    BY <1>2, <1>5 DEF ExactInv, Exact
  <2> QED
    BY <1>1, <2>1, CommitSaleDebt
<1> QED
  BY <1>4, <1>5, ExactNext

LEMMA CommitDeleteSaleExact ==
    ASSUME ExactInv, NEW w \in Workers, CommitDeleteSale(w)
    PROVE  Exact'
<1>1. LinkedInv
  BY DEF ExactInv
<1>2. \A c \in Clients : Corrected(c)' <=> Corrected(c)
  <2>1. book' = book \/ Booked(worker[w].client, "CREDIT_SALE_REVERSED")
    BY <1>1, CommitDeleteSaleBooks DEF Unmoved
  <2> QED
    BY <1>1, <2>1, NotACorrection
<1>3. /\ \A x \in Workers \ {w} : worker'[x] = worker[x]
      /\ worker'[w].pc # "deletePaymentTx"
      /\ \A p \in Payments : payment'[p].amount = payment[p].amount
  BY <1>1, CommitDeleteSaleEffect, CommitDeleteSaleRowSets DEF PaymentsStay
<1>4. \A x \in Workers : ~Corrected(worker[x].client)' => ReadStillHolds(worker[x])'
  BY <1>2, <1>3, ReadsStillHold DEF ReadStillHolds
<1>5. ASSUME NEW c \in Clients, ~Corrected(c)' PROVE balance'[c] = Debt(c)'
  <2>1. balance[c] = Debt(c)
    BY <1>2, <1>5 DEF ExactInv, Exact
  <2> QED
    BY <1>1, <2>1, CommitDeleteSaleDebt
<1> QED
  BY <1>4, <1>5, ExactNext

LEMMA CommitPaymentExact ==
    ASSUME ExactInv, NEW w \in Workers, NEW p \in Payments, CommitPayment(w, p)
    PROVE  Exact'
<1>1. LinkedInv
  BY DEF ExactInv
<1>2. \A c \in Clients : Corrected(c)' <=> Corrected(c)
  <2>1. Booked(worker[w].client, "PAYMENT_RECEIVED")
    BY <1>1, CommitPaymentBooks
  <2> QED
    BY <1>1, <2>1, NotACorrection
<1>3. /\ \A x \in Workers \ {w} : worker'[x] = worker[x]
      /\ worker'[w].pc # "deletePaymentTx"
      /\ \A x \in Payments \ {p} : payment'[x] = payment[x]
      /\ payment[p].client = Null
  <2>1. payment[p].client = Null
    BY <1>1, LinkedTables DEF RowsLinked, CommitPayment
  <2> QED
    BY ZenonT(60), <1>1, <2>1, CommitPaymentEffect
<1>4. \A x \in Payments, c \in Clients :
        payment[x].client = c => payment'[x].amount = payment[x].amount
  BY <1>3, NullAssumption
<1>5. \A x \in Workers : ~Corrected(worker[x].client)' => ReadStillHolds(worker[x])'
  BY <1>2, <1>3, <1>4, ReadsStillHold DEF ReadStillHolds
<1>6. ASSUME NEW c \in Clients, ~Corrected(c)' PROVE balance'[c] = Debt(c)'
  <2>1. balance[c] = Debt(c)
    BY <1>2, <1>6 DEF ExactInv, Exact
  <2> QED
    BY <1>1, <2>1, CommitPaymentDebt
<1> QED
  BY <1>5, <1>6, ExactNext

\* A correction takes its client out of the promise and touches nobody else.
LEMMA CommitUpdatePaymentExact ==
    ASSUME ExactInv, NEW w \in Workers, CommitUpdatePayment(w)
    PROVE  Exact'
<1> PICK r : r = worker[w]
  OBVIOUS
<1>1. LinkedInv
  BY DEF ExactInv
<1>2. \A c \in Clients : IF c = r.client THEN Corrected(c)' ELSE Corrected(c)' <=> Corrected(c)
  BY <1>1, CommitUpdatePaymentBooks, CountNat DEF Booked, Corrected
<1>3. /\ \A x \in Workers \ {w} : worker'[x] = worker[x]
      /\ worker'[w].pc # "deletePaymentTx"
      /\ \A x \in Payments \ {r.payment} : payment'[x] = payment[x]
      /\ payment[r.payment].client = r.client
  BY <1>1, CommitUpdatePaymentEffect
<1>4. \A x \in Payments, c \in Clients :
        payment[x].client = c => payment'[x].amount = payment[x].amount \/ Corrected(c)'
  BY <1>2, <1>3
<1>5. \A x \in Workers : ~Corrected(worker[x].client)' => ReadStillHolds(worker[x])'
  <2>1. \A c \in Clients : Corrected(c) => Corrected(c)'
    BY <1>2
  <2> QED
    BY <1>3, <1>4, <2>1, ReadsStillHold DEF ReadStillHolds
<1>6. ASSUME NEW c \in Clients, ~Corrected(c)' PROVE balance'[c] = Debt(c)'
  <2>1. balance[c] = Debt(c) /\ c # r.client
    BY <1>2, <1>6 DEF ExactInv, Exact
  <2> QED
    BY <1>1, <2>1, CommitUpdatePaymentDebt
<1> QED
  BY <1>5, <1>6, ExactNext

LEMMA CommitDeletePaymentExact ==
    ASSUME ExactInv, NEW w \in Workers, CommitDeletePayment(w)
    PROVE  Exact'
<1> PICK r : r = worker[w]
  OBVIOUS
<1>1. LinkedInv
  BY DEF ExactInv
<1>2. \A c \in Clients : Corrected(c)' <=> Corrected(c)
  <2>1. Booked(r.client, "PAYMENT_REMOVED")
    BY <1>1, CommitDeletePaymentBooks
  <2> QED
    BY <1>1, <2>1, NotACorrection
<1>3. /\ \A x \in Workers \ {w} : worker'[x] = worker[x]
      /\ worker'[w].pc # "deletePaymentTx"
      /\ \A p \in Payments : payment'[p].amount = payment[p].amount
      /\ r.client \in Clients /\ r.pc = "deletePaymentTx"
  BY <1>1, CommitDeletePaymentEffect, CommitDeletePaymentRowSets DEF CommitDeletePayment
<1>4. \A x \in Workers : ~Corrected(worker[x].client)' => ReadStillHolds(worker[x])'
  BY <1>2, <1>3, ReadsStillHold DEF ReadStillHolds
<1>5. ASSUME NEW c \in Clients, ~Corrected(c)' PROVE balance'[c] = Debt(c)'
  <2>1. balance[c] = Debt(c) /\ ~Corrected(c)
    BY <1>2, <1>5 DEF ExactInv, Exact
  <2>2. CASE r.client = c
    <3>1. r.old = payment[r.payment].amount
      BY <1>3, <2>1, <2>2 DEF ExactInv, Exact, ReadStillHolds
    <3> QED
      BY <1>1, <2>1, <2>2, <3>1, CommitDeletePaymentDebt
  <2>3. CASE r.client # c
    BY <1>1, <2>1, <2>3, CommitDeletePaymentDebt
  <2> QED
    BY <2>2, <2>3
<1> QED
  BY <1>4, <1>5, ExactNext

\* A step of one request that leaves the tables alone.
LEMMA TablesUntouchedExact ==
    ASSUME ExactInv, NEW w \in Workers,
           UNCHANGED <<balance, book, sale, payment>>,
           \A x \in Workers \ {w} : worker'[x] = worker[x],
           ReadStillHolds(worker[w])'
    PROVE  Exact'
<1>1. \A c : Corrected(c)' <=> Corrected(c)
  BY DEF Corrected, Count
<1>2. \A x \in Workers : ~Corrected(worker[x].client)' => ReadStillHolds(worker[x])'
  BY <1>1, ReadsStillHold
<1>3. \A c \in Clients : ~Corrected(c)' => balance'[c] = Debt(c)'
  BY <1>1, DebtUntouched DEF ExactInv, Exact
<1> QED
  BY <1>2, <1>3, ExactNext

LEMMA AcceptExact ==
    ASSUME ExactInv, NEW w \in Workers, NEW r, r.pc # "deletePaymentTx", Accept(w, r)
    PROVE  Exact'
<1>1. worker' = [worker EXCEPT ![w] = r] /\ worker \in [Workers -> Request]
  BY DEF Accept, ExactInv, LinkedInv, TypeInv, TypeOK
<1>2. worker'[w] = r /\ \A x \in Workers \ {w} : worker'[x] = worker[x]
  BY <1>1
<1>3. ReadStillHolds(worker[w])'
  BY <1>2 DEF ReadStillHolds
<1> QED
  BY <1>2, <1>3, TablesUntouchedExact DEF Accept

LEMMA ValidatedExact ==
    ASSUME ExactInv, NEW w \in Workers,
           \/ \E c \in Clients, type \in SaleTypes, total \in Amounts, initial \in 0..MaxAmount :
                ValidateSale(w, c, type, total, initial)
           \/ \E s \in Sales : ValidateDeleteSale(w, s)
           \/ \E c \in Clients, s \in Sales \cup {Null}, amount \in Amounts :
                ValidatePayment(w, c, s, amount)
           \/ \E p \in Payments, amount \in Amounts : ValidateUpdatePayment(w, p, amount)
           \/ \E p \in Payments : ValidateDeletePayment(w, p)
    PROVE  Exact'
<1>1. \E r : r.pc # "deletePaymentTx" /\ Accept(w, r)
  BY ZenonT(60) DEF ValidateSale, ValidateDeleteSale, ValidatePayment, ValidateUpdatePayment,
         ValidateDeletePayment, Idle
<1> QED
  BY <1>1, AcceptExact

LEMMA ExactStep == ExactInv /\ [Next]_vars => Exact'
<1> SUFFICES ASSUME ExactInv, [Next]_vars PROVE Exact'
  OBVIOUS
<1>1. CASE UNCHANGED vars
  BY <1>1 DEF vars, ExactInv, Exact, Corrected, Count, ReadStillHolds, Debt, TotalOf, AmountOf,
              OpenSalesOf, CreditSalesOf, PaymentsBy
<1>2. ASSUME NEW w \in Workers, SaleRequests(w) PROVE Exact'
  BY <1>2, ValidatedExact, CommitSaleExact, CommitDeleteSaleExact DEF SaleRequests
<1>3. ASSUME NEW w \in Workers, ReadPayment(w) PROVE Exact'
  BY <1>3, ReadPaymentEffect, TablesUntouchedExact DEF ReadStillHolds, ExactInv
<1>4. ASSUME NEW w \in Workers, PaymentRequests(w) PROVE Exact'
  BY <1>3, <1>4, ValidatedExact, CommitPaymentExact, CommitUpdatePaymentExact,
     CommitDeletePaymentExact DEF PaymentRequests
<1>5. ASSUME NEW w \in Workers, Abort(w) PROVE Exact'
  <2>1. worker' = [worker EXCEPT ![w] = Idle] /\ worker \in [Workers -> Request]
    BY <1>5 DEF Abort, ExactInv, LinkedInv, TypeInv, TypeOK
  <2>2. worker'[w].pc = "idle" /\ \A x \in Workers \ {w} : worker'[x] = worker[x]
    BY <2>1 DEF Idle
  <2> QED
    BY <1>5, <2>2, TablesUntouchedExact DEF Abort, ReadStillHolds
<1>6. ASSUME NEW c \in Clients, DeactivateClient(c) PROVE Exact'
  BY <1>6 DEF DeactivateClient, ExactInv, Exact, Corrected, Count, ReadStillHolds, Debt,
              TotalOf, AmountOf, OpenSalesOf, CreditSalesOf, PaymentsBy
<1> QED
  BY <1>1, <1>2, <1>4, <1>5, <1>6 DEF Next

LEMMA DebtInit == Init => \A c \in Clients : Debt(c) = 0
<1> SUFFICES ASSUME Init, NEW c \in Clients PROVE Debt(c) = 0
  OBVIOUS
<1>1. OpenSalesOf(c) = {} /\ PaymentsBy(c) = {}
  BY NullAssumption DEF Init, OpenSalesOf, CreditSalesOf, PaymentsBy
<1> QED
  BY <1>1, SumEmpty DEF Debt

LEMMA ExactInit == Init => ExactInv
<1> SUFFICES ASSUME Init PROVE ExactInv
  OBVIOUS
<1>1. \A c \in Clients : balance[c] = 0
  BY DEF Init
<1>2. \A w \in Workers : worker[w].pc # "deletePaymentTx"
  BY DEF Init, Idle
<1> QED
  BY <1>1, <1>2, DebtInit, LinkedInit DEF ExactInv, Exact, ReadStillHolds

\* Until a payment of a client is corrected its balance is exactly its open
\* credit sales less its payments (ExactUntilAdjusted), although requests that
\* validated against older balances and rows commit in any order and any of
\* them may fail.
THEOREM ExactUntilAdjustedAlways == Spec => []ExactUntilAdjusted
<1>1. ExactInv /\ [Next]_vars => ExactInv'
  BY LinkedStep, ExactStep DEF ExactInv
<1>2. ExactInv => ExactUntilAdjusted
  BY DEF ExactInv, Exact, ExactUntilAdjusted, Corrected
<1> QED
  BY <1>1, <1>2, ExactInit, PTL DEF Spec

-----------------------------------------------------------------------------
(* Requests that do not overlap: what a request has validated is then      *)
(* still true when its transaction commits, and with it hold the promises  *)
(* that overlapping requests break (README): balances are exact, no sale   *)
(* is overpaid, the audit trail is true and no payment loses its sale.     *)

\* Requests come one after the other.
OneAtATime == \E w : Workers = {w}

-----------------------------------------------------------------------------
(* What a request has validated and its transaction relies on.             *)

\* Its audit values are the balances around its own movement.
AuditsMove(r, c, delta) == r.before = balance[c] /\ r.after = r.before + delta

\* Its amount fits what is left to pay on its sale.
FitsSale(s, amount) == s # Null => amount <= Remaining(s)

StillTrue(r) ==
    /\ r.pc = "createSale" =>
         /\ AuditsMove(r, r.client, r.amount)
         /\ r.initial > 0 => r.type = "CREDIT" /\ r.initial < r.amount
    /\ r.pc \in {"createPayment", "initialPayment"} =>
         /\ AuditsMove(r, r.client, -r.amount)
         /\ FitsSale(r.sale, r.amount)
    /\ r.pc \in {"updatePayment", "updatePaymentTx"} =>
         LET existing == payment[r.payment]
         IN  /\ AuditsMove(r, existing.client, existing.amount - r.amount)
             /\ FitsSale(existing.sale, r.amount - existing.amount)
    /\ r.pc \in {"deletePayment", "deletePaymentTx"} =>
         AuditsMove(r, payment[r.payment].client, payment[r.payment].amount)
    /\ r.pc \in {"updatePaymentTx", "deletePaymentTx"} => r.old = payment[r.payment].amount
    /\ r.pc = "deleteSale" =>
         /\ AuditsMove(r, r.client, -r.amount)
         /\ PaymentsOf(r.sale) = {}

Validated == \A w \in Workers : StillTrue(worker[w])


\* What the tables promise between two requests.
Promises == BalanceExact /\ PaidWithinTotal /\ AuditMatchesBook

SerialInv == LinkedInv /\ Validated /\ Promises

-----------------------------------------------------------------------------
(* Accepting: what was just validated is true, and nothing has moved.      *)

\* Nobody else can invalidate it.
LEMMA AloneValid ==
    ASSUME OneAtATime, NEW w \in Workers, StillTrue(worker[w])'
    PROVE  Validated'
<1>1. \A x \in Workers : x = w
  BY DEF OneAtATime
<1> QED
  BY <1>1 DEF Validated

\* A request that has ended relies on nothing.
LEMMA IdleValid ==
    ASSUME OneAtATime, NEW w \in Workers, worker'[w].pc = "idle"
    PROVE  Validated'
<1>1. StillTrue(worker[w])'
  BY DEF StillTrue
<1> QED
  BY <1>1, AloneValid

LEMMA StillTrueNext ==
    ASSUME NEW w, NEW r, worker'[w] = r, StillTrue(r),
           UNCHANGED <<balance, sale, payment>>
    PROVE  StillTrue(worker[w])'
<1>1. \A s : Paid(s)' = Paid(s) /\ PaymentsOf(s)' = PaymentsOf(s)
  BY DEF Paid, PaymentsOf, AmountOf
<1>2. \A s, amount : FitsSale(s, amount)' <=> FitsSale(s, amount)
  BY <1>1 DEF FitsSale, Remaining
<1>3. \A c, delta : AuditsMove(r, c, delta)' <=> AuditsMove(r, c, delta)
  BY DEF AuditsMove
<1> QED
  BY <1>1, <1>2, <1>3 DEF StillTrue

LEMMA AcceptValid ==
    ASSUME OneAtATime, LinkedInv, NEW w \in Workers, NEW r, Accept(w, r), StillTrue(r)
    PROVE  Validated'
<1>1. worker'[w] = r /\ UNCHANGED <<balance, sale, payment>>
  BY DEF Accept, LinkedInv, TypeInv, TypeOK
<1> QED
  BY <1>1, StillTrueNext, AloneValid

LEMMA ValidateSaleValid ==
    ASSUME OneAtATime, LinkedInv, NEW w \in Workers, NEW c \in Clients,
           NEW type \in SaleTypes, NEW total \in Amounts, NEW initial \in 0..MaxAmount,
           ValidateSale(w, c, type, total, initial)
    PROVE  Validated'
<1> DEFINE before == balance[c]
           after == balance[c] + total
           r == [Idle EXCEPT !.pc = "createSale", !.client = c, !.type = type,
                             !.amount = total, !.initial = initial,
                             !.before = before, !.after = after]
<1>1. Accept(w, r)
  BY DEF ValidateSale
<1>2. initial > 0 => type = "CREDIT" /\ initial < total
  BY DEF ValidateSale
<1>3. before = balance[c] /\ after = before + total
  OBVIOUS
<1> HIDE DEF before, after
<1>4. /\ r.pc = "createSale" /\ r.client = c /\ r.type = type /\ r.amount = total
      /\ r.initial = initial /\ r.before = before /\ r.after = after
  BY IdleType DEF Request
<1> HIDE DEF r
<1>5. StillTrue(r)
  BY <1>2, <1>3, <1>4 DEF StillTrue, AuditsMove
<1> QED
  BY <1>1, <1>5, AcceptValid

LEMMA ValidateDeleteSaleValid ==
    ASSUME OneAtATime, LinkedInv, NEW w \in Workers, NEW s \in Sales,
           ValidateDeleteSale(w, s)
    PROVE  Validated'
<1> DEFINE c == sale[s].client
           type == sale[s].type
           total == sale[s].total
           before == balance[c]
           after == balance[c] - total
           r == [Idle EXCEPT !.pc = "deleteSale", !.client = c, !.sale = s,
                             !.type = type, !.amount = total,
                             !.before = before, !.after = after]
<1>1. Accept(w, r) /\ PaymentsOf(s) = {} /\ sale[s].state = "live"
  BY DEF ValidateDeleteSale, Deletable
<1>2. total \in Int /\ before \in Int
  BY <1>1, LinkedTables, BoundsAssumption
     DEF LinkedInv, TypeInv, TypeOK, References, SaleRow
<1>3. before = balance[c] /\ after = before + (-total)
  BY <1>2
<1> HIDE DEF c, type, total, before, after
<1>4. /\ r.pc = "deleteSale" /\ r.client = c /\ r.sale = s /\ r.amount = total
      /\ r.before = before /\ r.after = after
  BY IdleType DEF Request
<1> HIDE DEF r
<1>5. StillTrue(r)
  BY <1>1, <1>3, <1>4 DEF StillTrue, AuditsMove
<1> QED
  BY <1>1, <1>5, AcceptValid

LEMMA ValidatePaymentValid ==
    ASSUME OneAtATime, LinkedInv, NEW w \in Workers, NEW c \in Clients,
           NEW s \in Sales \cup {Null}, NEW amount \in Amounts,
           ValidatePayment(w, c, s, amount)
    PROVE  Validated'
<1> DEFINE before == balance[c]
           after == balance[c] - amount
           r == [Idle EXCEPT !.pc = "createPayment", !.client = c, !.sale = s,
                             !.amount = amount, !.before = before, !.after = after]
<1>1. Accept(w, r) /\ FitsSale(s, amount)
  BY DEF ValidatePayment, FitsSale
<1>2. amount \in Int /\ before \in Int
  BY BoundsAssumption DEF LinkedInv, TypeInv, TypeOK, Amounts
<1>3. before = balance[c] /\ after = before + (-amount)
  BY <1>2
<1> HIDE DEF before, after
<1>4. /\ r.pc = "createPayment" /\ r.client = c /\ r.sale = s /\ r.amount = amount
      /\ r.before = before /\ r.after = after
  BY IdleType DEF Request
<1> HIDE DEF r
<1>5. StillTrue(r)
  BY <1>1, <1>3, <1>4 DEF StillTrue, AuditsMove
<1> QED
  BY <1>1, <1>5, AcceptValid

LEMMA ValidateUpdatePaymentValid ==
    ASSUME OneAtATime, LinkedInv, NEW w \in Workers, NEW p \in Payments,
           NEW amount \in Amounts, ValidateUpdatePayment(w, p, amount)
    PROVE  Validated'
<1> DEFINE c == payment[p].client
           s == payment[p].sale
           old == payment[p].amount
           before == balance[c]
           after == balance[c] + old - amount
           r == [Idle EXCEPT !.pc = "updatePayment", !.payment = p, !.amount = amount,
                             !.before = before, !.after = after]
<1>1. /\ Accept(w, r) /\ payment[p].state = "live"
      /\ s # Null => Paid(s) - old + amount <= sale[s].total
  BY DEF ValidateUpdatePayment
<1>2. c \in Clients /\ s \in Sales \cup {Null} /\ old \in Nat /\ amount \in Int
  BY <1>1, LinkedTables, AmountsAre, BoundsAssumption
     DEF LinkedInv, TypeInv, References, PaymentRow, Amounts
<1>3. before \in Int /\ before = balance[c] /\ after = before + (old - amount)
  BY <1>2 DEF LinkedInv, TypeInv, TypeOK
<1>4. FitsSale(s, amount - old)
  <2>1. s # Null => Paid(s) \in Nat /\ sale[s].total \in Nat
    BY <1>2, PaidNat, TotalsTyped
  <2> HIDE DEF s, old
  <2> QED
    BY <1>1, <1>2, <2>1 DEF FitsSale, Remaining
<1>5. c = payment[p].client /\ s = payment[p].sale /\ old = payment[p].amount
  OBVIOUS
<1> HIDE DEF c, s, old, before, after
<1>6. /\ r.pc = "updatePayment" /\ r.payment = p /\ r.amount = amount
      /\ r.before = before /\ r.after = after
  BY IdleType DEF Request
<1> HIDE DEF r
<1>7. StillTrue(r)
  BY <1>3, <1>4, <1>5, <1>6 DEF StillTrue, AuditsMove
<1> QED
  BY <1>1, <1>7, AcceptValid

LEMMA ValidateDeletePaymentValid ==
    ASSUME OneAtATime, LinkedInv, NEW w \in Workers, NEW p \in Payments,
           ValidateDeletePayment(w, p)
    PROVE  Validated'
<1> DEFINE c == payment[p].client
           old == payment[p].amount
           before == balance[c]
           after == balance[c] + old
           r == [Idle EXCEPT !.pc = "deletePayment", !.payment = p,
                             !.before = before, !.after = after]
<1>1. Accept(w, r)
  BY DEF ValidateDeletePayment
<1>2. c = payment[p].client /\ old = payment[p].amount
      /\ before = balance[c] /\ after = before + old
  OBVIOUS
<1> HIDE DEF c, old, before, after
<1>3. /\ r.pc = "deletePayment" /\ r.payment = p
      /\ r.before = before /\ r.after = after
  BY IdleType DEF Request
<1> HIDE DEF r
<1>4. StillTrue(r)
  BY <1>2, <1>3 DEF StillTrue, AuditsMove
<1> QED
  BY <1>1, <1>4, AcceptValid

LEMMA ReadPaymentValid ==
    ASSUME OneAtATime, LinkedInv, Validated, NEW w \in Workers, ReadPayment(w)
    PROVE  Validated'
<1> PICK r, next : r = worker[w] /\ next = worker'[w]
  OBVIOUS
<1>1. /\ UNCHANGED <<balance, sale, payment>>
      /\ next.pc = IF r.pc = "updatePayment" THEN "updatePaymentTx" ELSE "deletePaymentTx"
      /\ next.payment = r.payment /\ next.old = payment[r.payment].amount
      /\ next.amount = r.amount /\ next.before = r.before /\ next.after = r.after
  BY ReadPaymentEffect
<1>2. StillTrue(r) /\ r.pc \in {"updatePayment", "deletePayment"}
  BY DEF Validated, ReadPayment
<1>3. StillTrue(next)
  BY <1>1, <1>2 DEF StillTrue, AuditsMove
<1> QED
  BY <1>1, <1>3, StillTrueNext, AloneValid

-----------------------------------------------------------------------------
(* Committing: the promises are kept.                                      *)

\* Booking a movement whose audit values are the balances around it.
LEMMA BookAudits ==
    ASSUME LinkedInv, AuditMatchesBook, NEW c \in Clients, NEW k, NEW d, NEW r,
           Book(c, k, d, r), AuditsMove(r, c, d), d \in Int
    PROVE  AuditMatchesBook'
<1> DEFINE e == [kind |-> k, delta |-> d, balanceAfter |-> balance[c] + d]
           a == [before |-> r.before, after |-> r.after]
           b == book[c]
           l == audit[c]
           n == Len(b)
<1>1. /\ book' = [book EXCEPT ![c] = Append(b, e)]
      /\ audit' = [audit EXCEPT ![c] = Append(l, a)]
  BY DEF Book
<1>2. /\ book \in [Clients -> Seq(Accounts!Entry)] /\ b \in Seq(Accounts!Entry)
      /\ audit \in [Clients -> Seq(AuditRow)] /\ l \in Seq(AuditRow)
      /\ balance[c] \in Int
  BY DEF LinkedInv, TypeInv, TypeOK
<1>3. a.after = e.balanceAfter /\ a.before = e.balanceAfter - e.delta
  BY <1>2 DEF AuditsMove
<1>4. /\ Len(l) = n /\ n \in Nat
      /\ \A i \in 1..n : /\ l[i].after = b[i].balanceAfter
                         /\ l[i].before = b[i].balanceAfter - b[i].delta
  BY <1>2 DEF AuditMatchesBook
<1> HIDE DEF e, a
<1>5. ASSUME NEW x \in Clients, x # c
      PROVE  book'[x] = book[x] /\ audit'[x] = audit[x]
  BY <1>1, <1>2, <1>5
<1>6. book'[c] = Append(b, e) /\ audit'[c] = Append(l, a)
  BY <1>1, <1>2
<1>7. /\ Len(Append(b, e)) = n + 1 /\ Len(Append(l, a)) = n + 1
      /\ \A i \in 1..n : Append(b, e)[i] = b[i] /\ Append(l, a)[i] = l[i]
      /\ Append(b, e)[n + 1] = e /\ Append(l, a)[n + 1] = a
  <2> HIDE DEF b, l
  <2> QED
    BY <1>2, <1>4
<1>8. \A i \in 1..(n + 1) : i \in 1..n \/ i = n + 1
  BY <1>4
<1> HIDE DEF b, l, n
<1>9. /\ Len(audit'[c]) = Len(book'[c])
      /\ \A i \in 1..Len(audit'[c]) :
           /\ audit'[c][i].after = book'[c][i].balanceAfter
           /\ audit'[c][i].before = book'[c][i].balanceAfter - book'[c][i].delta
  <2>1. Len(audit'[c]) = n + 1 /\ Len(book'[c]) = n + 1
    BY <1>6, <1>7
  <2>2. ASSUME NEW i \in 1..(n + 1)
        PROVE  /\ audit'[c][i].after = book'[c][i].balanceAfter
               /\ audit'[c][i].before = book'[c][i].balanceAfter - book'[c][i].delta
    <3>1. CASE i \in 1..n
      BY <1>4, <1>6, <1>7, <3>1
    <3>2. CASE i = n + 1
      BY <1>3, <1>6, <1>7, <3>2
    <3> QED
      BY <1>8, <3>1, <3>2
  <2> QED
    BY <2>1, <2>2
<1> QED
  BY <1>5, <1>9 DEF AuditMatchesBook

LEMMA AuditUntouched ==
    ASSUME AuditMatchesBook, UNCHANGED <<book, audit>>
    PROVE  AuditMatchesBook'
  BY DEF AuditMatchesBook

\* What the lone request of a commit knows.
LEMMA CommitKnows ==
    ASSUME SerialInv, NEW w \in Workers
    PROVE  /\ LinkedInv /\ BalanceExact /\ PaidWithinTotal /\ AuditMatchesBook
           /\ StillTrue(worker[w])
           /\ \A c \in Clients : balance[c] = Debt(c) /\ balance[c] \in Int
           /\ \A p \in Payments : payment[p].amount \in Nat
  BY AmountsAre DEF SerialInv, Promises, Validated, BalanceExact, LinkedInv, TypeInv, TypeOK

LEMMA CommitSaleKeeps ==
    ASSUME OneAtATime, SerialInv, NEW w \in Workers, NEW s \in Sales, CommitSale(w, s)
    PROVE  Promises'
<1> PICK r : r = worker[w]
  OBVIOUS
<1>1. /\ LinkedInv /\ r.client \in Clients /\ r.amount \in Amounts
      /\ sale[s].state = "unused"
      /\ \A x \in Sales \ {s} : sale'[x] = sale[x]
      /\ r.pc = "createSale" /\ AuditsMove(r, r.client, r.amount)
  BY CommitKnows, CommitSaleEffect DEF CommitSale, StillTrue
<1>2. BalanceExact'
  <2>1. ASSUME NEW c \in Clients PROVE balance'[c] = Debt(c)'
    BY <1>1, CommitKnows, CommitSaleDebt
  <2> QED
    BY <2>1 DEF BalanceExact
<1>3. PaidWithinTotal'
  <2>1. sale'[s] = [state |-> "live", client |-> r.client, type |-> r.type,
                    total |-> r.amount,
                    status |-> IF r.type = "CASH" THEN "PAID" ELSE "PENDING"]
    BY <1>1, CommitSaleEffect
  <2>2. sale'[s].total >= 0
    BY <1>1, <2>1, BoundsAssumption DEF Amounts
  <2>3. (\A x : Paid(x)' = Paid(x)) /\ Paid(s) = 0
    BY <1>1, CommitSalePaid
  <2> QED
    BY <1>1, <2>2, <2>3, CommitKnows DEF PaidWithinTotal
<1>4. AuditMatchesBook'
  <2>1. CASE r.type = "CREDIT"
    <3>1. Book(r.client, "CREDIT_SALE_OPENED", r.amount, r)
      BY <1>1, <2>1, CommitSaleBooks
    <3>2. r.amount \in Int
      BY <1>1, BoundsAssumption DEF Amounts
    <3> QED
      BY <1>1, <3>1, <3>2, BookAudits, CommitKnows
  <2>2. CASE r.type # "CREDIT"
    <3>1. UNCHANGED <<book, audit>>
      BY <2>2 DEF CommitSale
    <3> QED
      BY <3>1, CommitKnows, AuditUntouched
  <2> QED
    BY <2>1, <2>2
<1> QED
  BY <1>2, <1>3, <1>4 DEF Promises

\* The initial payment goes on from the balance the sale has left.
LEMMA CommitSaleValid ==
    ASSUME OneAtATime, SerialInv, NEW w \in Workers, NEW s \in Sales, CommitSale(w, s)
    PROVE  Validated'
<1> PICK r : r = worker[w]
  OBVIOUS
<1>1. /\ LinkedInv /\ r \in Request /\ r.client \in Clients /\ r.amount \in Amounts
      /\ r.pc = "createSale" /\ AuditsMove(r, r.client, r.amount)
      /\ r.initial > 0 => r.type = "CREDIT" /\ r.initial < r.amount
      /\ balance[r.client] \in Int
  BY CommitKnows, CommitSaleEffect DEF CommitSale, StillTrue
<1>2. /\ worker' = [worker EXCEPT ![w] = IF r.initial = 0 THEN Idle ELSE InitialPayment(r, s)]
      /\ worker \in [Workers -> Request]
  BY <1>1 DEF CommitSale, LinkedInv, TypeInv, TypeOK
<1>3. r.initial \in Nat /\ r.amount \in Nat
  BY <1>1, BoundsAssumption DEF Request, Amounts
<1>4. CASE r.initial = 0
  <2>1. worker'[w] = Idle
    BY <1>2, <1>4
  <2> QED
    BY <2>1, IdleValid DEF Idle
<1>5. CASE r.initial # 0
  <2> DEFINE next == InitialPayment(r, s)
             after == r.after - r.initial
  <2>1. worker'[w] = next
    BY <1>2, <1>5
  <2>2. /\ next.pc = "initialPayment" /\ next.client = r.client /\ next.sale = s
        /\ next.amount = r.initial /\ next.before = r.after /\ next.after = after
    <3> HIDE DEF after
    <3>1. next = [Idle EXCEPT !.pc = "initialPayment", !.client = r.client, !.sale = s,
                              !.amount = r.initial, !.before = r.after, !.after = after]
      BY DEF InitialPayment, after
    <3> HIDE DEF next
    <3> QED
      BY <3>1, IdleType DEF Request
  <2> HIDE DEF next
  <2>3. r.type = "CREDIT" /\ r.initial < r.amount
    BY <1>1, <1>3, <1>5
  <2>4. balance'[r.client] = r.after
    BY <1>1, <2>3, CommitSaleDebt DEF AuditsMove
  <2>5. r.after \in Int
    BY <1>1, <1>3 DEF AuditsMove
  <2>6. sale'[s].total = r.amount
    <3>1. sale'[s] = [state |-> "live", client |-> r.client, type |-> r.type,
                      total |-> r.amount,
                      status |-> IF r.type = "CASH" THEN "PAID" ELSE "PENDING"]
      BY <1>1, CommitSaleEffect
    <3> QED
      BY <3>1
  <2>7. Paid(s)' = 0
    BY <1>1, CommitSalePaid
  <2>8. next.amount <= sale'[s].total - Paid(s)'
    BY <1>3, <2>2, <2>3, <2>6, <2>7
  <2>9. /\ next.before = balance'[next.client]
        /\ next.after = next.before + (-next.amount)
    BY <1>3, <2>2, <2>4, <2>5
  <2>10. StillTrue(worker[w])'
    BY <2>1, <2>2, <2>8, <2>9 DEF StillTrue, AuditsMove, FitsSale, Remaining
  <2> QED
    BY <2>10, AloneValid
<1> QED
  BY <1>4, <1>5

LEMMA CommitDeleteSaleKeeps ==
    ASSUME OneAtATime, SerialInv, NEW w \in Workers, CommitDeleteSale(w)
    PROVE  Promises'
<1> PICK r, s : r = worker[w] /\ s = worker[w].sale
  OBVIOUS
<1>1. /\ LinkedInv /\ r.client \in Clients /\ s \in Sales
      /\ \A x \in Sales \ {s} : sale'[x] = sale[x]
      /\ r.pc = "deleteSale" /\ AuditsMove(r, r.client, -r.amount)
      /\ r.amount = sale[s].total /\ r.amount \in Nat
  BY CommitKnows, CommitDeleteSaleEffect, CommitDeleteSaleRowSets, TotalsTyped
     DEF CommitDeleteSale, StillTrue
<1>2. BalanceExact'
  <2>1. ASSUME NEW c \in Clients PROVE balance'[c] = Debt(c)'
    BY <1>1, CommitKnows, CommitDeleteSaleDebt
  <2> QED
    BY <2>1 DEF BalanceExact
<1>3. PaidWithinTotal'
  <2>1. sale'[s].state = "deleted"
    <3>1. sale'[s] = [sale[s] EXCEPT !.state = "deleted"]
      BY <1>1, CommitDeleteSaleEffect
    <3> QED
      BY <1>1, <3>1, LinkedTables DEF SaleRow
  <2>2. \A x \in Sales \ {s} : Paid(x)' = Paid(x)
    BY <1>1, CommitDeleteSalePaid
  <2>3. ASSUME NEW x \in Sales, sale'[x].state = "live"
        PROVE  Paid(x)' <= sale'[x].total
    <3>1. x # s /\ sale'[x] = sale[x] /\ Paid(x)' = Paid(x)
      BY <1>1, <2>1, <2>2, <2>3
    <3> QED
      BY <2>3, <3>1, CommitKnows DEF PaidWithinTotal
  <2> QED
    BY <2>3 DEF PaidWithinTotal
<1>4. AuditMatchesBook'
  <2>1. CASE r.type = "CREDIT"
    <3>1. Book(r.client, "CREDIT_SALE_REVERSED", -r.amount, r)
      BY <1>1, <2>1, CommitDeleteSaleBooks
    <3>2. -r.amount \in Int
      BY <1>1
    <3> QED
      BY <1>1, <3>1, <3>2, BookAudits, CommitKnows
  <2>2. CASE r.type # "CREDIT"
    <3>1. UNCHANGED <<book, audit>>
      BY <2>2 DEF CommitDeleteSale
    <3> QED
      BY <3>1, CommitKnows, AuditUntouched
  <2> QED
    BY <2>1, <2>2
<1> QED
  BY <1>2, <1>3, <1>4 DEF Promises

LEMMA CommitPaymentKeeps ==
    ASSUME OneAtATime, SerialInv, NEW w \in Workers, NEW p \in Payments, CommitPayment(w, p)
    PROVE  Promises'
<1> PICK r, s : r = worker[w] /\ s = worker[w].sale
  OBVIOUS
<1>1. /\ LinkedInv /\ r.client \in Clients /\ r.amount \in Amounts
      /\ s # Null => s \in Sales
      /\ SaleGets(s, IF Paid(s) + r.amount >= sale[s].total THEN "PAID" ELSE "PARTIAL")
      /\ AuditsMove(r, r.client, -r.amount) /\ FitsSale(s, r.amount)
  BY CommitKnows, CommitPaymentEffect DEF CommitPayment, StillTrue
<1>2. r.amount \in Nat
  BY <1>1, BoundsAssumption DEF Amounts
<1>3. BalanceExact'
  <2>1. ASSUME NEW c \in Clients PROVE balance'[c] = Debt(c)'
    BY <1>1, CommitKnows, CommitPaymentDebt
  <2> QED
    BY <2>1 DEF BalanceExact
<1>4. PaidWithinTotal'
  <2>1. ASSUME NEW x \in Sales, sale'[x].state = "live"
        PROVE  Paid(x)' <= sale'[x].total
    <3>1. /\ sale[x].state = "live" /\ sale'[x].total = sale[x].total
          /\ sale[x].total \in Nat /\ Paid(x) \in Nat
      BY <1>1, <2>1, SaleGetsKeeps, LinkedTables, TotalsTyped, PaidNat
    <3>2. Paid(x)' = IF x = s THEN Paid(x) + r.amount ELSE Paid(x)
      BY <1>1, CommitPaymentPaid
    <3>3. x = s => r.amount <= sale[x].total - Paid(x)
      BY <1>1, NullAssumption DEF FitsSale, Remaining
    <3>4. Paid(x) <= sale[x].total
      BY <3>1, CommitKnows DEF PaidWithinTotal
    <3> QED
      BY <1>2, <3>1, <3>2, <3>3, <3>4
  <2> QED
    BY <2>1 DEF PaidWithinTotal
<1>5. AuditMatchesBook'
  <2>1. Book(r.client, "PAYMENT_RECEIVED", -r.amount, r) /\ -r.amount \in Int
    BY <1>1, <1>2, CommitPaymentBooks
  <2> QED
    BY <1>1, <2>1, BookAudits, CommitKnows
<1> QED
  BY <1>3, <1>4, <1>5 DEF Promises

LEMMA CommitUpdatePaymentKeeps ==
    ASSUME OneAtATime, SerialInv, NEW w \in Workers, CommitUpdatePayment(w)
    PROVE  Promises'
<1> PICK r, p, s : r = worker[w] /\ p = worker[w].payment /\ s = worker[w].sale
  OBVIOUS
<1>0. LinkedInv /\ StillTrue(r) /\ r.pc = "updatePaymentTx"
  BY CommitKnows DEF CommitUpdatePayment
<1>1. /\ r \in Request /\ r.client \in Clients /\ p \in Payments
      /\ payment[p].client = r.client /\ payment[p].sale = s
      /\ s # Null => s \in Sales
      /\ SaleGets(s, StatusFor(Paid(s) - payment[p].amount + r.amount, sale[s].total))
  BY <1>0, CommitUpdatePaymentEffect
<1>2. /\ AuditsMove(r, r.client, payment[p].amount - r.amount)
      /\ FitsSale(s, r.amount - payment[p].amount)
      /\ r.old = payment[p].amount
  BY <1>0, <1>1 DEF StillTrue
<1>3. r.amount \in Nat /\ payment[p].amount \in Nat
  BY <1>1, CommitKnows, BoundsAssumption DEF Request
<1>4. BalanceExact'
  <2>1. ASSUME NEW c \in Clients PROVE balance'[c] = Debt(c)'
    BY <1>0, <1>2, CommitKnows, CommitUpdatePaymentDebt
  <2> QED
    BY <2>1 DEF BalanceExact
<1>5. PaidWithinTotal'
  <2>1. ASSUME NEW x \in Sales, sale'[x].state = "live"
        PROVE  Paid(x)' <= sale'[x].total
    <3>1. /\ sale[x].state = "live" /\ sale'[x].total = sale[x].total
          /\ sale[x].total \in Nat /\ Paid(x) \in Nat
      BY <1>0, <1>1, <2>1, SaleGetsKeeps, LinkedTables, TotalsTyped, PaidNat
    <3>2. Paid(x)' = IF x = s THEN Paid(x) - payment[p].amount + r.amount ELSE Paid(x)
      BY <1>0, CommitUpdatePaymentPaid
    <3>3. x = s => r.amount - payment[p].amount <= sale[x].total - Paid(x)
      BY <1>2, NullAssumption DEF FitsSale, Remaining
    <3>4. Paid(x) <= sale[x].total
      BY <3>1, CommitKnows DEF PaidWithinTotal
    <3> QED
      BY <1>3, <3>1, <3>2, <3>3, <3>4
  <2> QED
    BY <2>1 DEF PaidWithinTotal
<1>6. AuditMatchesBook'
  <2>1. Adjustment(r) = payment[p].amount - r.amount /\ Adjustment(r) \in Int
    BY <1>2, <1>3 DEF Adjustment
  <2>2. Book(r.client, "PAYMENT_ADJUSTED", Adjustment(r), r)
    BY <1>0, CommitUpdatePaymentBooks
  <2> QED
    BY <1>0, <1>1, <1>2, <2>1, <2>2, BookAudits, CommitKnows
<1> QED
  BY <1>4, <1>5, <1>6 DEF Promises

LEMMA CommitDeletePaymentKeeps ==
    ASSUME OneAtATime, SerialInv, NEW w \in Workers, CommitDeletePayment(w)
    PROVE  Promises'
<1> PICK r, p, s : r = worker[w] /\ p = worker[w].payment /\ s = worker[w].sale
  OBVIOUS
<1>0. LinkedInv /\ StillTrue(r) /\ r.pc = "deletePaymentTx"
  BY CommitKnows DEF CommitDeletePayment
<1>1. /\ r.client \in Clients /\ p \in Payments
      /\ payment[p].client = r.client
      /\ SaleGets(s, StatusFor(Paid(s) - payment[p].amount, sale[s].total))
  BY <1>0, CommitDeletePaymentEffect
<1>2. /\ AuditsMove(r, r.client, payment[p].amount)
      /\ r.old = payment[p].amount /\ payment[p].amount \in Nat
  BY <1>0, <1>1, CommitKnows DEF StillTrue
<1>3. BalanceExact'
  <2>1. ASSUME NEW c \in Clients PROVE balance'[c] = Debt(c)'
    BY <1>0, <1>2, CommitKnows, CommitDeletePaymentDebt
  <2> QED
    BY <2>1 DEF BalanceExact
<1>4. PaidWithinTotal'
  <2>1. ASSUME NEW x \in Sales, sale'[x].state = "live"
        PROVE  Paid(x)' <= sale'[x].total
    <3>1. /\ sale[x].state = "live" /\ sale'[x].total = sale[x].total
          /\ sale[x].total \in Nat /\ Paid(x) \in Nat
      BY <1>0, <1>1, <2>1, SaleGetsKeeps, LinkedTables, TotalsTyped, PaidNat
    <3>2. Paid(x)' = IF x = s THEN Paid(x) - payment[p].amount ELSE Paid(x)
      BY <1>0, CommitDeletePaymentPaid
    <3>3. Paid(x) <= sale[x].total
      BY <3>1, CommitKnows DEF PaidWithinTotal
    <3> QED
      BY <1>2, <3>1, <3>2, <3>3
  <2> QED
    BY <2>1 DEF PaidWithinTotal
<1>5. AuditMatchesBook'
  <2>1. Book(r.client, "PAYMENT_REMOVED", r.old, r) /\ r.old \in Int
    BY <1>0, <1>2, CommitDeletePaymentBooks
  <2> QED
    BY <1>0, <1>1, <1>2, <2>1, BookAudits, CommitKnows
<1> QED
  BY <1>3, <1>4, <1>5 DEF Promises

-----------------------------------------------------------------------------
(* The theorems.                                                           *)

\* A step that moves no balance and changes no row.
LEMMA TablesUntouchedKeeps ==
    ASSUME SerialInv, UNCHANGED <<balance, book, audit, sale, payment>>
    PROVE  Promises'
<1>1. \A s : Paid(s)' = Paid(s)
  BY DEF Paid, PaymentsOf, AmountOf
<1> QED
  BY <1>1, DebtUntouched, AuditUntouched
     DEF SerialInv, Promises, BalanceExact, PaidWithinTotal

LEMMA PromisesStep ==
    ASSUME OneAtATime, SerialInv, [Next]_vars
    PROVE  Promises'
<1>1. CASE UNCHANGED vars
  BY <1>1, TablesUntouchedKeeps DEF vars
<1>2. ASSUME NEW w \in Workers, SaleRequests(w) PROVE Promises'
  BY ZenonT(60), <1>2, CommitSaleKeeps, CommitDeleteSaleKeeps, TablesUntouchedKeeps
     DEF SaleRequests, ValidateSale, ValidateDeleteSale, Accept
<1>3. ASSUME NEW w \in Workers, PaymentRequests(w) PROVE Promises'
  BY <1>3, CommitPaymentKeeps, CommitUpdatePaymentKeeps, CommitDeletePaymentKeeps,
     TablesUntouchedKeeps
     DEF PaymentRequests, ValidatePayment, ValidateUpdatePayment, ValidateDeletePayment,
         ReadPayment, Accept
<1>4. ASSUME NEW w \in Workers, Abort(w) PROVE Promises'
  BY <1>4, TablesUntouchedKeeps DEF Abort
<1>5. ASSUME NEW c \in Clients, DeactivateClient(c) PROVE Promises'
  BY <1>5, TablesUntouchedKeeps DEF DeactivateClient
<1> QED
  BY <1>1, <1>2, <1>3, <1>4, <1>5 DEF Next

LEMMA ValidatedStep ==
    ASSUME OneAtATime, SerialInv, [Next]_vars
    PROVE  Validated'
<1>1. LinkedInv /\ Validated
  BY DEF SerialInv
<1>2. ASSUME UNCHANGED <<balance, sale, payment, worker>> PROVE Validated'
  <2>1. ASSUME NEW w \in Workers PROVE StillTrue(worker[w])'
    <3> PICK r : r = worker[w]
      OBVIOUS
    <3>1. worker'[w] = r /\ StillTrue(r)
      BY <1>1, <1>2 DEF Validated
    <3> QED
      BY <1>2, <3>1, StillTrueNext
  <2> QED
    BY <2>1 DEF Validated
<1>3. CASE UNCHANGED vars
  BY <1>2, <1>3 DEF vars
<1>4. ASSUME NEW w \in Workers, SaleRequests(w) PROVE Validated'
  BY <1>1, <1>4, ValidateSaleValid, CommitSaleValid, ValidateDeleteSaleValid,
     CommitDeleteSaleEffect, IdleValid DEF SaleRequests
<1>5. ASSUME NEW w \in Workers, PaymentRequests(w) PROVE Validated'
  BY <1>1, <1>5, ValidatePaymentValid, ValidateUpdatePaymentValid, ValidateDeletePaymentValid,
     ReadPaymentValid, CommitPaymentEffect, CommitUpdatePaymentEffect,
     CommitDeletePaymentEffect, IdleValid DEF PaymentRequests
<1>6. ASSUME NEW w \in Workers, Abort(w) PROVE Validated'
  <2>1. worker'[w] = Idle
    BY <1>1, <1>6 DEF Abort, LinkedInv, TypeInv, TypeOK
  <2> QED
    BY <2>1, IdleValid DEF Idle
<1>7. ASSUME NEW c \in Clients, DeactivateClient(c) PROVE Validated'
  BY <1>2, <1>7 DEF DeactivateClient
<1> QED
  BY <1>3, <1>4, <1>5, <1>6, <1>7 DEF Next

LEMMA SerialInit == Init => SerialInv
<1> SUFFICES ASSUME Init PROVE SerialInv
  OBVIOUS
<1>1. Validated
  BY DEF Init, Idle, Validated, StillTrue
<1>2. BalanceExact
  BY DebtInit DEF Init, BalanceExact
<1>3. PaidWithinTotal
  BY DEF Init, PaidWithinTotal
<1>4. AuditMatchesBook
  BY DEF Init, AuditMatchesBook
<1> QED
  BY <1>1, <1>2, <1>3, <1>4, LinkedInit DEF SerialInv, Promises

LEMMA SerialStep ==
    ASSUME OneAtATime
    PROVE  SerialInv /\ [Next]_vars => SerialInv'
  BY LinkedStep, PromisesStep, ValidatedStep DEF SerialInv

LEMMA SerialAlways ==
    ASSUME OneAtATime
    PROVE  Spec => []SerialInv
  BY SerialInit, SerialStep, PTL DEF Spec

\* Requests that do not overlap keep every balance exactly at the open credit
\* sales less the payments, corrections included (BalanceExact).
THEOREM BalanceExactSerially == OneAtATime => (Spec => []BalanceExact)
<1> SUFFICES ASSUME OneAtATime PROVE Spec => []BalanceExact
  OBVIOUS
<1>1. SerialInv => BalanceExact
  BY DEF SerialInv, Promises
<1> QED
  BY <1>1, SerialAlways, PTL

\* Requests that do not overlap pay no sale more than its total, whatever
\* payments are registered, corrected and deleted (PaidWithinTotal).
THEOREM PaidWithinTotalSerially == OneAtATime => (Spec => []PaidWithinTotal)
<1> SUFFICES ASSUME OneAtATime PROVE Spec => []PaidWithinTotal
  OBVIOUS
<1>1. SerialInv => PaidWithinTotal
  BY DEF SerialInv, Promises
<1> QED
  BY <1>1, SerialAlways, PTL

\* Requests that do not overlap leave an audit trail whose every row shows the
\* balances around the book entry of the same operation (AuditMatchesBook).
THEOREM AuditMatchesBookSerially == OneAtATime => (Spec => []AuditMatchesBook)
<1> SUFFICES ASSUME OneAtATime PROVE Spec => []AuditMatchesBook
  OBVIOUS
<1>1. SerialInv => AuditMatchesBook
  BY DEF SerialInv, Promises
<1> QED
  BY <1>1, SerialAlways, PTL

-----------------------------------------------------------------------------
(* No payment loses its sale.                                              *)

SaleStaysWith(p) ==
    payment[p].sale # Null /\ payment'[p].state = "live" => payment'[p].sale = payment[p].sale

\* The deletion of a sale takes the sale only from payments, and a sale whose
\* deletion was validated has none.
LEMMA DeletionTakesNoPayment ==
    ASSUME OneAtATime, SerialInv, NEW w \in Workers, CommitDeleteSale(w), NEW p \in Payments
    PROVE  SaleStaysWith(p)
<1> PICK s : s = worker[w].sale
  OBVIOUS
<1>1. LinkedInv /\ PaymentsOf(s) = {}
  BY CommitKnows DEF CommitDeleteSale, StillTrue
<1>2. CASE payment[p].sale = s
  <2>1. payment'[p].state = payment[p].state
    BY <1>1, CommitDeleteSaleRowSets DEF PaymentsStay
  <2> QED
    BY <1>1, <1>2, <2>1 DEF PaymentsOf, SaleStaysWith
<1>3. CASE payment[p].sale # s
  <2>1. payment'[p] = payment[p]
    BY <1>1, <1>3, CommitDeleteSaleEffect
  <2> QED
    BY <2>1 DEF SaleStaysWith
<1> QED
  BY <1>2, <1>3

LEMMA PaymentCommitsKeepSale ==
    ASSUME LinkedInv, NEW w \in Workers, NEW p \in Payments,
           \/ \E x \in Payments : CommitPayment(w, x)
           \/ CommitUpdatePayment(w)
           \/ CommitDeletePayment(w)
    PROVE  SaleStaysWith(p)
<1>1. ASSUME NEW x \in Payments, CommitPayment(w, x) PROVE SaleStaysWith(p)
  <2>1. p # x => payment'[p] = payment[p]
    <3>1. payment \in [Payments -> PaymentRow]
      BY LinkedTables
    <3> QED
      BY <1>1, <3>1 DEF CommitPayment
  <2>2. payment[x].sale = Null
    BY <1>1, LinkedTables DEF RowsLinked, CommitPayment
  <2> QED
    BY <2>1, <2>2 DEF SaleStaysWith
<1>2. CASE CommitUpdatePayment(w)
  <2> PICK x, amount : x = worker[w].payment /\ amount = worker[w].amount
    OBVIOUS
  <2>1. /\ x \in Payments
        /\ p # x => payment'[p] = payment[p]
        /\ payment'[x] = [payment[x] EXCEPT !.amount = amount]
    BY <1>2, CommitUpdatePaymentEffect
  <2> QED
    BY <2>1, LinkedTables DEF SaleStaysWith, PaymentRow
<1>3. CASE CommitDeletePayment(w)
  <2> PICK x : x = worker[w].payment
    OBVIOUS
  <2>1. /\ x \in Payments
        /\ p # x => payment'[p] = payment[p]
        /\ payment'[x] = [payment[x] EXCEPT !.state = "deleted"]
    BY <1>3, CommitDeletePaymentEffect
  <2> QED
    BY <2>1, LinkedTables DEF SaleStaysWith, PaymentRow
<1> QED
  BY <1>1, <1>2, <1>3

LEMMA SaleStaysStep ==
    ASSUME OneAtATime, SerialInv, [Next]_vars, NEW p \in Payments
    PROVE  SaleStaysWith(p)
<1>1. ASSUME payment' = payment PROVE SaleStaysWith(p)
  BY <1>1 DEF SaleStaysWith
<1>2. ASSUME NEW w \in Workers, SaleRequests(w) PROVE SaleStaysWith(p)
  BY <1>1, <1>2, DeletionTakesNoPayment
     DEF SaleRequests, ValidateSale, CommitSale, ValidateDeleteSale, Accept
<1>3. ASSUME NEW w \in Workers, PaymentRequests(w) PROVE SaleStaysWith(p)
  BY <1>1, <1>3, CommitKnows, PaymentCommitsKeepSale
     DEF PaymentRequests, ValidatePayment, ValidateUpdatePayment, ValidateDeletePayment,
         ReadPayment, Accept
<1>4. ASSUME NEW w \in Workers, Abort(w) PROVE SaleStaysWith(p)
  BY <1>1, <1>4 DEF Abort
<1> QED
  BY <1>1, <1>2, <1>3, <1>4 DEF Next, DeactivateClient, vars

\* Requests that do not overlap never take the sale from a live payment
\* (PaymentsKeepTheirSale): the SET NULL of the foreign key has no effect.
THEOREM PaymentsKeepTheirSaleSerially == OneAtATime => (Spec => PaymentsKeepTheirSale)
<1> SUFFICES ASSUME OneAtATime PROVE Spec => PaymentsKeepTheirSale
  OBVIOUS
<1>1. SerialInv /\ [Next]_vars
        => [\A p \in Payments :
              payment[p].sale # Null /\ payment'[p].state = "live"
                => payment'[p].sale = payment[p].sale]_vars
  BY SaleStaysStep DEF SaleStaysWith
<1> QED
  BY <1>1, SerialAlways, PTL DEF Spec, PaymentsKeepTheirSale
=============================================================================
