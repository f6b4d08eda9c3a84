---------------------------- MODULE OnlineOrders ----------------------------
(***************************************************************************)
(* The life of an online order: checkout reserves stock, the payment       *)
(* gateway notifies what became of the payment, a timer expires what was   *)
(* never paid and the staff may overrule either.                           *)
(*                                                                         *)
(* Three kinds of actors work on the same rows without locking them        *)
(* between their database calls: a hook is one delivery of a gateway event *)
(* to POST /ecommerce/webhooks/mercadopago, a job is the expiry ticker of  *)
(* one server process, a staff member is one PATCH of an order's status.   *)
(* Every action is one database transaction, or one call to the gateway,   *)
(* with the code that runs until the next one.                             *)
(*                                                                         *)
(* The gateway is external: payments of an order are created and settle on *)
(* their own, and each sends one event when it is created and one when it  *)
(* is updated, redelivered until it is answered and sometimes again.  The  *)
(* stock of a product stands for the counter of the product and the one of *)
(* its default variant, which every action here moves together.            *)
(*                                                                         *)
(* Variants that no action uses, such as InStock beside Enough, are the    *)
(* mistakes the properties must tell from the code (see the README).       *)
(***************************************************************************)
EXTENDS Integers, Sequences, FiniteSets, SequencesExt, FiniteSetsExt

CONSTANTS Orders, Products, Payments, Hooks, Jobs, Staff,
          Null,            \* no order, no event
          Quantity,        \* Quantity[o][p]: units of product p in order o
          InitialStock,    \* InitialStock[p]: units before the first order
          OrderOf,         \* OrderOf[y]: the order that payment y is for
          Linked,          \* orders of customers linked to a client account
          BatchSize,       \* orders a sweep of the expiry job takes at most
          Crashing,        \* actors that may stop between two calls
          MaxFailures,     \* bound: failed calls to the gateway or the database
          MaxCrashes,      \* bound: actors that stop halfway
          MaxDuplicates,   \* bound: redeliveries of an event already answered
          MaxRequests      \* bound: requests of the staff

Actors == Hooks \cup Jobs \cup Staff
Events == Payments \X {"created", "updated"}

ASSUME ActorsAssumption ==
    /\ Hooks \cap Jobs = {} /\ Hooks \cap Staff = {} /\ Jobs \cap Staff = {}
    /\ Crashing \subseteq Actors

ASSUME OrdersAssumption ==
    /\ Null \notin Orders \cup Events
    /\ Quantity \in [Orders -> [Products -> Nat]]
    /\ InitialStock \in [Products -> Nat]
    /\ OrderOf \in [Payments -> Orders]
    /\ Linked \subseteq Orders

ASSUME BoundsAssumption ==
    /\ BatchSize \in Nat \ {0}
    /\ MaxFailures \in Nat /\ MaxCrashes \in Nat
    /\ MaxDuplicates \in Nat /\ MaxRequests \in Nat

VARIABLES status,     \* status[o]: OnlineOrder.status, "none" before checkout
          history,    \* history[o]: the OrderEvent rows of o in commit order
          stock,      \* stock[p]: the units on hand
          released,   \* released[o][p]: SALE_ONLINE_RELEASE movements of p for o
          restored,   \* restored[o]: OnlineOrder.stockRestoredAt is set
          sales,      \* sales[o]: the Sale rows made from o
          overdue,    \* the orders whose expiresAt has passed, earliest first
          payment,    \* payment[y]: the state of y at the gateway
          claimed,    \* the events with a ProcessedWebhook row
          answered,   \* the events that were answered with 200
          actor,      \* actor[a]: what a has read and will do next
          left        \* what is left of the bounds

vars == <<status, history, stock, released, restored, sales, overdue,
          payment, claimed, answered, actor, left>>

rows == <<status, history, sales>>
shelf == <<stock, released, restored>>
gateway == <<payment, answered>>

Statuses == {"none", "PENDING_PAYMENT", "PAID", "CANCELLED", "EXPIRED"}
Origins == {"checkout", "payment_webhook", "expiry_or_admin", "staff_api"}
\* A mismatched payment is approved, for an amount more than 1 off the total.
Settled == {"approved", "mismatched", "declined"}
PaymentStates == {"none", "pending"} \cup Settled
Lookups == {"missing", "pending"} \cup Settled

\* An OrderEvent; event is the WebhookData the transaction was called with.
OrderEvent == [to : Statuses, actor : Origins, event : Events \cup {Null}]

Steps == {"idle", "verify", "load", "markAsPaid", "markAsCancelled", "sweep",
          "transition", "updateStatus", "createSale", "restock"}
Work == [pc : Steps, event : Events \cup {Null}, order : Orders \cup {Null},
         lookup : Lookups, target : Statuses, todo : SUBSET Products,
         ok : BOOLEAN, batch : SUBSET Orders]

Idle == [pc |-> "idle", event |-> Null, order |-> Null, lookup |-> "missing",
         target |-> "none", todo |-> {}, ok |-> TRUE, batch |-> {}]

Budget == [failures : 0..MaxFailures, crashes : 0..MaxCrashes,
           duplicates : 0..MaxDuplicates, requests : 0..MaxRequests]

TypeOK ==
    /\ status \in [Orders -> Statuses]
    /\ history \in [Orders -> Seq(OrderEvent)]
    /\ stock \in [Products -> Int]
    /\ released \in [Orders -> [Products -> Nat]]
    /\ restored \in [Orders -> BOOLEAN]
    /\ sales \in [Orders -> Nat]
    /\ overdue \in Seq(Orders)
    /\ payment \in [Payments -> PaymentStates]
    /\ claimed \subseteq Events
    /\ answered \subseteq Events
    /\ actor \in [Actors -> Work]
    /\ left \in Budget

Init ==
    /\ status = [o \in Orders |-> "none"]
    /\ history = [o \in Orders |-> <<>>]
    /\ stock = InitialStock
    /\ released = [o \in Orders |-> [p \in Products |-> 0]]
    /\ restored = [o \in Orders |-> FALSE]
    /\ sales = [o \in Orders |-> 0]
    /\ overdue = <<>>
    /\ payment = [y \in Payments |-> "none"]
    /\ claimed = {}
    /\ answered = {}
    /\ actor = [a \in Actors |-> Idle]
    /\ left = [failures |-> MaxFailures, crashes |-> MaxCrashes,
               duplicates |-> MaxDuplicates, requests |-> MaxRequests]

-----------------------------------------------------------------------------
(* What the actions share.                                                 *)

Items(o) == {p \in Products : Quantity[o][p] > 0}

Becomes(a, work) == actor' = [actor EXCEPT ![a] = work]

Spend(what) ==
    /\ left[what] > 0
    /\ left' = [left EXCEPT ![what] = @ - 1]

\* A transaction that writes a status and its OrderEvent.
WriteGatewayStatus(o, to, origin, event) ==
    /\ status' = [status EXCEPT ![o] = IF origin = "payment_webhook" THEN "APPROVED" ELSE to]
    /\ history' = [history EXCEPT ![o] =
                     Append(@, [to |-> to, actor |-> origin, event |-> event])]

WriteStatus(o, to, origin, event) ==
    /\ status' = [status EXCEPT ![o] = to]
    /\ history' = [history EXCEPT ![o] =
                     Append(@, [to |-> to, actor |-> origin, event |-> event])]

Pending(o) == status[o] = "PENDING_PAYMENT"

\* The guarded transition is an UPDATE whose WHERE asks for PENDING_PAYMENT.
StillPendingAsRead(o) == status[o] # "none"
StillPending(o) == Pending(o)

\* What an actor does once it has taken an order out of PENDING_PAYMENT.
RestockOneItem(work, o) ==
    [work EXCEPT !.pc = "restock", !.order = o,
                 !.todo = {CHOOSE p \in Items(o) : TRUE}, !.ok = TRUE]

Restock(work, o) ==
    [work EXCEPT !.pc = "restock", !.order = o, !.todo = Items(o), !.ok = TRUE]

\* After an order a sweep goes on with the rest of its batch; hooks and staff
\* have no batch and have done.
Rest(work, o) ==
    IF work.batch \ {o} = {} THEN Idle
    ELSE [Idle EXCEPT !.pc = "sweep", !.batch = work.batch \ {o}]

-----------------------------------------------------------------------------
(* Checkout, time and the gateway.                                         *)

\* The transaction of a checkout: one conditional decrement per item.
InStock(o) == \A p \in Items(o) : stock[p] > 0
Enough(o) == \A p \in Items(o) : stock[p] >= Quantity[o][p]

Checkout(o) ==
    /\ status[o] = "none"
    /\ Enough(o)
    /\ stock' = [p \in Products |-> stock[p] - Quantity[o][p]]
    /\ WriteStatus(o, "PENDING_PAYMENT", "checkout", Null)
    /\ UNCHANGED <<released, restored, sales, overdue, gateway, claimed, actor, left>>

\* expiresAt passes.
BecomeOverdue(o) ==
    /\ Pending(o)
    /\ ~Contains(overdue, o)
    /\ overdue' = Append(overdue, o)
    /\ UNCHANGED <<rows, shelf, gateway, claimed, actor, left>>

\* The buyer starts a payment, and the gateway decides on it.
Pay(y) ==
    /\ status[OrderOf[y]] # "none"
    /\ payment[y] = "none"
    /\ payment' = [payment EXCEPT ![y] = "pending"]
    /\ UNCHANGED <<rows, shelf, overdue, claimed, answered, actor, left>>

Settle(y, state) ==
    /\ payment[y] = "pending"
    /\ payment' = [payment EXCEPT ![y] = state]
    /\ UNCHANGED <<rows, shelf, overdue, claimed, answered, actor, left>>

\* The events of a payment that the gateway has sent.
Sent(e) ==
    payment[e[1]] \in Settled \/ (e[2] = "created" /\ payment[e[1]] = "pending")

-----------------------------------------------------------------------------
(* Webhook deliveries.                                                     *)

\* The gateway delivers an event until it is answered, and sometimes again.
Deliver(h, e) ==
    /\ Sent(e)
    /\ actor[h].pc = "idle"
    /\ IF e \in answered THEN Spend("duplicates") ELSE UNCHANGED left

\* INSERT ... ON CONFLICT DO NOTHING of the ProcessedWebhook row inserts.
UnclaimedUntilAnswered(e) == e \notin answered
Unclaimed(e) == e \notin claimed

Claim(h, e) ==
    /\ Deliver(h, e)
    /\ Unclaimed(e)
    /\ claimed' = claimed \cup {e}
    /\ Becomes(h, [Idle EXCEPT !.pc = "verify", !.event = e])
    /\ UNCHANGED <<rows, shelf, overdue, gateway>>

\* The row was there: another delivery has processed the event, or is at it.
AlreadyProcessed(h, e) ==
    /\ Deliver(h, e)
    /\ ~Unclaimed(e)
    /\ answered' = answered \cup {e}
    /\ UNCHANGED <<rows, shelf, overdue, payment, claimed, actor>>

\* The gateway says what became of the payment, or does not know it yet (404).
VerifyTransaction(h, lookup) ==
    LET y == actor[h].event[1]
    IN  /\ actor[h].pc = "verify"
        /\ lookup = payment[y] \/ (payment[y] = "pending" /\ lookup = "missing")
        /\ Becomes(h, [actor[h] EXCEPT !.pc = "load", !.lookup = lookup])
        /\ UNCHANGED <<rows, shelf, overdue, gateway, claimed, left>>

\* The lookup throws: the claim is released and the delivery fails.
ReleaseNothing(e) == UNCHANGED claimed
ReleaseClaim(e) == claimed' = claimed \ {e}

VerifyFails(h) ==
    /\ actor[h].pc = "verify"
    /\ Spend("failures")
    /\ ReleaseClaim(actor[h].event)
    /\ Becomes(h, Idle)
    /\ UNCHANGED <<rows, shelf, overdue, gateway>>

\* The hook reads the order and decides: an answer that leaves the order alone...
Refusal(h) ==
    LET o == OrderOf[actor[h].event[1]]
    IN  CASE actor[h].lookup = "missing" -> "order_not_found"
          [] ~Pending(o) -> "order_not_pending"
          [] actor[h].lookup = "pending" -> "pending"
          [] actor[h].lookup = "mismatched" -> "amount_mismatch"
          [] OTHER -> "none"

Refuse(h) ==
    /\ actor[h].pc = "load"
    /\ Refusal(h) # "none"
    /\ answered' = answered \cup {actor[h].event}
    /\ Becomes(h, Idle)
    /\ UNCHANGED <<rows, shelf, overdue, payment, claimed, left>>

\* ... or a transaction of its own, whose WHERE no longer asks for the status.
DecideRestockFirst(h) ==
    /\ actor[h].pc = "load"
    /\ Refusal(h) = "none"
    /\ Becomes(h, IF actor[h].lookup = "approved"
                  THEN [actor[h] EXCEPT !.pc = "markAsPaid",
                                        !.order = OrderOf[actor[h].event[1]]]
                  ELSE Restock(actor[h], OrderOf[actor[h].event[1]]))
    /\ UNCHANGED <<rows, shelf, overdue, gateway, claimed, left>>

Decide(h) ==
    /\ actor[h].pc = "load"
    /\ Refusal(h) = "none"
    /\ Becomes(h, [actor[h] EXCEPT
                     !.pc = IF actor[h].lookup = "approved" THEN "markAsPaid"
                            ELSE "markAsCancelled",
                     !.order = OrderOf[actor[h].event[1]]])
    /\ UNCHANGED <<rows, shelf, overdue, gateway, claimed, left>>

MarkAsPaid(h) ==
    LET e == actor[h].event
    IN  /\ actor[h].pc = "markAsPaid"
        /\ WriteStatus(actor[h].order, "PAID", "payment_webhook", e)
        /\ answered' = answered \cup {e}
        /\ Becomes(h, Idle)
        /\ UNCHANGED <<shelf, sales, overdue, payment, claimed, left>>

MarkAsCancelled(h) ==
    LET o == actor[h].order
    IN  /\ actor[h].pc = "markAsCancelled"
        /\ WriteStatus(o, "CANCELLED", "payment_webhook", actor[h].event)
        /\ Becomes(h, Restock(actor[h], o))
        /\ UNCHANGED <<shelf, sales, overdue, gateway, claimed, left>>

-----------------------------------------------------------------------------
(* The expiry job.                                                         *)

\* o expired before other.
Earlier(o, other) ==
    \E i, j \in 1..Len(overdue) : i < j /\ overdue[i] = o /\ overdue[j] = other

\* findExpiredPending: the earliest overdue orders that are still pending.
CandidatesSinceLastTick ==
    {o \in Orders : Contains(overdue, o) /\ Pending(o) /\ Last(overdue) = o}

Candidates ==
    LET late == {o \in Orders : Contains(overdue, o) /\ Pending(o)}
    IN  {o \in late : Cardinality({other \in late : Earlier(other, o)}) < BatchSize}

\* A tick of the timer; while the last sweep runs it does nothing.
Tick(j) ==
    LET batch == Candidates
    IN  /\ actor[j].pc = "idle"
        /\ batch # {}
        /\ Becomes(j, [Idle EXCEPT !.pc = "sweep", !.batch = batch])
        /\ UNCHANGED <<rows, shelf, overdue, gateway, claimed, left>>

\* The order the sweep of j is at.
NextOfBatch(j, o) ==
    /\ actor[j].pc = "sweep"
    /\ o \in actor[j].batch
    /\ \A other \in actor[j].batch \ {o} : Earlier(o, other)

\* It expires if it is still pending.
ExpireNext(j, o) ==
    /\ NextOfBatch(j, o)
    /\ StillPending(o)
    /\ WriteStatus(o, "EXPIRED", "expiry_or_admin", Null)
    /\ Becomes(j, Restock(actor[j], o))
    /\ UNCHANGED <<shelf, sales, overdue, gateway, claimed, left>>

SkipNext(j, o) ==
    /\ NextOfBatch(j, o)
    /\ ~StillPending(o)
    /\ Becomes(j, Rest(actor[j], o))
    /\ UNCHANGED <<rows, shelf, overdue, gateway, claimed, left>>

\* The transition throws: the sweep logs it and goes on.
ExpireFails(j, o) ==
    /\ NextOfBatch(j, o)
    /\ Spend("failures")
    /\ Becomes(j, Rest(actor[j], o))
    /\ UNCHANGED <<rows, shelf, overdue, gateway, claimed>>

-----------------------------------------------------------------------------
(* The staff.                                                              *)

\* A request reads the order.  Cancelling or expiring an order that is not
\* pending changes nothing and is left out.
Request(s, o, target) ==
    /\ actor[s].pc = "idle"
    /\ status[o] # "none"
    /\ target = "PAID" \/ Pending(o)
    /\ Spend("requests")
    /\ Becomes(s, [Idle EXCEPT !.pc = IF target = "PAID" THEN "updateStatus"
                                      ELSE "transition",
                               !.order = o, !.target = target])
    /\ UNCHANGED <<rows, shelf, overdue, gateway, claimed>>

\* The guarded transition, or nothing when the order has moved on.
TryCancelOrExpirePending(s) ==
    LET o == actor[s].order
    IN  /\ actor[s].pc = "transition"
        /\ StillPending(o)
        /\ WriteStatus(o, actor[s].target, "expiry_or_admin", Null)
        /\ Becomes(s, Restock(actor[s], o))
        /\ UNCHANGED <<shelf, sales, overdue, gateway, claimed, left>>

TransitionRefused(s) ==
    /\ actor[s].pc = "transition"
    /\ ~StillPending(actor[s].order)
    /\ Becomes(s, Idle)
    /\ UNCHANGED <<rows, shelf, overdue, gateway, claimed, left>>

\* PAID is written whatever the status is; a linked customer gets a CASH sale.
UpdateStatus(s) ==
    LET o == actor[s].order
    IN  /\ actor[s].pc = "updateStatus"
        /\ WriteStatus(o, "PAID", "staff_api", Null)
        /\ Becomes(s, IF o \in Linked THEN [actor[s] EXCEPT !.pc = "createSale"] ELSE Idle)
        /\ UNCHANGED <<shelf, sales, overdue, gateway, claimed, left>>

CreateSaleFromOrder(s) ==
    /\ actor[s].pc = "createSale"
    /\ sales' = [sales EXCEPT ![actor[s].order] = @ + 1]
    /\ Becomes(s, Idle)
    /\ UNCHANGED <<status, history, shelf, overdue, gateway, claimed, left>>

\* Creating that sale is best effort.
CreateSaleFails(s) ==
    /\ actor[s].pc = "createSale"
    /\ Spend("failures")
    /\ Becomes(s, Idle)
    /\ UNCHANGED <<rows, shelf, overdue, gateway, claimed>>

-----------------------------------------------------------------------------
(* Returning the stock of an order, by whoever took it out of              *)
(* PENDING_PAYMENT: one transaction per item, and then the marker.         *)

IncrementStock(a, p) ==
    LET o == actor[a].order
    IN  /\ actor[a].pc = "restock"
        /\ p \in actor[a].todo
        /\ stock' = [stock EXCEPT ![p] = @ + Quantity[o][p]]
        /\ released' = [released EXCEPT ![o][p] = @ + 1]
        /\ Becomes(a, [actor[a] EXCEPT !.todo = @ \ {p}])
        /\ UNCHANGED <<rows, restored, overdue, gateway, claimed, left>>

\* A failure is remembered, and the other items go on.
Forgiven(work) == work.ok
Failed(work) == FALSE

IncrementFails(a, p) ==
    /\ actor[a].pc = "restock"
    /\ p \in actor[a].todo
    /\ Spend("failures")
    /\ Becomes(a, [actor[a] EXCEPT !.todo = @ \ {p}, !.ok = Failed(actor[a])])
    /\ UNCHANGED <<rows, shelf, overdue, gateway, claimed>>

FinishRestock(a) == Becomes(a, Rest(actor[a], actor[a].order))

Answered(a) ==
    answered' = IF a \in Hooks THEN answered \cup {actor[a].event} ELSE answered

MarkStockRestored(a) ==
    /\ actor[a].pc = "restock"
    /\ actor[a].todo = {}
    /\ actor[a].ok
    /\ restored' = [restored EXCEPT ![actor[a].order] = TRUE]
    /\ FinishRestock(a)
    /\ Answered(a)
    /\ UNCHANGED <<rows, stock, released, overdue, payment, claimed, left>>

\* After a failed item the marker stays unset.
LeaveUnmarked(a) ==
    /\ actor[a].pc = "restock"
    /\ actor[a].todo = {}
    /\ ~actor[a].ok
    /\ FinishRestock(a)
    /\ Answered(a)
    /\ UNCHANGED <<rows, shelf, overdue, payment, claimed, left>>

\* Writing the marker throws: a hook fails without an answer.
MarkerFails(a) ==
    /\ actor[a].pc = "restock"
    /\ actor[a].todo = {}
    /\ actor[a].ok
    /\ Spend("failures")
    /\ FinishRestock(a)
    /\ UNCHANGED <<rows, shelf, overdue, gateway, claimed>>

\* The actor stops where it is: its process dies, or a query it does not expect
\* to fail throws.  What it has written stays, a claim included.
Crash(a) ==
    /\ a \in Crashing
    /\ actor[a].pc # "idle"
    /\ Spend("crashes")
    /\ Becomes(a, Idle)
    /\ UNCHANGED <<rows, shelf, overdue, gateway, claimed>>

-----------------------------------------------------------------------------
Customer(o) == Checkout(o) \/ BecomeOverdue(o)

Buyer(y) == Pay(y) \/ \E state \in Settled : Settle(y, state)

\* The steps an actor takes by itself once it has begun.
HookStep(h) ==
    \/ \E lookup \in Lookups : VerifyTransaction(h, lookup)
    \/ Refuse(h)
    \/ Decide(h)
    \/ MarkAsPaid(h)
    \/ MarkAsCancelled(h)

JobStep(j) == Tick(j) \/ \E o \in Orders : ExpireNext(j, o) \/ SkipNext(j, o)

StaffStep(s) ==
    \/ TryCancelOrExpirePending(s)
    \/ TransitionRefused(s)
    \/ UpdateStatus(s)
    \/ CreateSaleFromOrder(s)

RestockStep(a) ==
    \/ \E p \in Products : IncrementStock(a, p)
    \/ MarkStockRestored(a)
    \/ LeaveUnmarked(a)

Delivery(e) == \E h \in Hooks : Claim(h, e) \/ AlreadyProcessed(h, e)

Failure ==
    \/ \E h \in Hooks : VerifyFails(h)
    \/ \E j \in Jobs, o \in Orders : ExpireFails(j, o)
    \/ \E s \in Staff : CreateSaleFails(s)
    \/ \E a \in Actors : MarkerFails(a) \/ \E p \in Products : IncrementFails(a, p)
    \/ \E a \in Actors : Crash(a)

Next ==
    \/ \E o \in Orders : Customer(o)
    \/ \E y \in Payments : Buyer(y)
    \/ \E e \in Events : Delivery(e)
    \/ \E h \in Hooks : HookStep(h)
    \/ \E j \in Jobs : JobStep(j)
    \/ \E s \in Staff, o \in Orders, target \in {"PAID", "CANCELLED", "EXPIRED"} :
         Request(s, o, target)
    \/ \E s \in Staff : StaffStep(s)
    \/ \E a \in Actors : RestockStep(a)
    \/ Failure

Spec == Init /\ [][Next]_vars

\* Code that runs goes on, the timer of a job keeps ticking, and the gateway
\* redelivers an event it has no answer to.  Nothing is asked of buyers, staff,
\* time or failures.
FairSpec ==
    /\ Spec
    /\ \A h \in Hooks : WF_vars(HookStep(h))
    /\ \A j \in Jobs : WF_vars(JobStep(j))
    /\ \A s \in Staff : WF_vars(StaffStep(s))
    /\ \A a \in Actors : WF_vars(RestockStep(a))
    /\ \A e \in Events : WF_vars(e \notin answered /\ Delivery(e))

-----------------------------------------------------------------------------
(* Properties.                                                             *)

\* A gateway event changes an order at most once, however often it is delivered,
\* on however many replicas at a time and whether or not its lookup failed.
EventAppliedOnce ==
    \A o \in Orders : \A i, j \in 1..Len(history[o]) :
      /\ history[o][i].event # Null
      /\ history[o][i].event = history[o][j].event
      => i = j

\* Of all the job sweeps and staff requests that want to cancel or expire a
\* pending order at most one succeeds, ever.
OneGuardedTermination ==
    \A o \in Orders : \A i, j \in 1..Len(history[o]) :
      /\ history[o][i].actor = "expiry_or_admin"
      /\ history[o][j].actor = "expiry_or_admin"
      => i = j

\* The marker stockRestoredAt never lies: once it is set, every item of the order
\* has gone back to the shelf.
MarkerHonest ==
    \A o \in Orders : restored[o] => \A p \in Items(o) : released[o][p] > 0

\* Stock comes back only for a cancellation or an expiry that was written, once
\* per item of each, and nothing is left out unless a call failed or an actor
\* crashed.
ReleasesMatchEvents ==
    \A o \in Orders : \A p \in Items(o) :
      LET written == {i \in 1..Len(history[o]) :
                        history[o][i].to \in {"CANCELLED", "EXPIRED"}}
          underway == {a \in Actors : /\ actor[a].pc = "restock"
                                      /\ actor[a].order = o
                                      /\ p \in actor[a].todo}
          accounted == released[o][p] + Cardinality(underway)
      IN  /\ accounted <= Cardinality(written)
          /\ left.failures = MaxFailures /\ left.crashes = MaxCrashes
               => accounted = Cardinality(written)

\* An order that still waits for its payment still holds all the stock its
\* checkout reserved.
PendingKeepsReservation ==
    \A o \in Orders : Pending(o) => \A p \in Items(o) : released[o][p] = 0

\* As long as no order has been decided on twice, the orders that wait or are
\* paid never hold more than there was, whichever checkouts compete for it.
SoldWithinStock ==
    (\A o \in Orders : Len(history[o]) <= 2)
      => \A p \in Products :
           SumFunctionOnSet([o \in Orders |-> Quantity[o][p]],
                            {o \in Orders : status[o] \in {"PENDING_PAYMENT", "PAID"}})
             <= InitialStock[p]

\* A paid order stays paid, unless a webhook that read the order when it was
\* still pending cancels it afterwards; the job and the staff never do.
PaidLeftOnlyByWebhook ==
    [][\A o \in Orders :
         status[o] = "PAID" /\ status'[o] # "PAID"
           => \E h \in Hooks : /\ actor[h].pc = "markAsCancelled"
                               /\ actor[h].order = o]_vars

\* An order that nobody pays for does not hold its stock for ever: once overdue
\* it leaves PENDING_PAYMENT, although sweeps fail, stop halfway and are bounded.
OverdueEnds ==
    \A o \in Orders : (Contains(overdue, o) /\ Pending(o)) ~> ~Pending(o)

\* An approved payment of the right amount is not forgotten: its order leaves
\* PENDING_PAYMENT although lookups fail, because a failed lookup gives its
\* claim back and the gateway retries.
PaymentTakesEffect ==
    \A y \in Payments :
      (payment[y] = "approved" /\ Pending(OrderOf[y])) ~> ~Pending(OrderOf[y])

\* The expiry job on a payment that arrives meanwhile: a paid order's stock is
\* not restored.
PaidKeepsStock ==
    \A o \in Orders : status[o] = "PAID" => \A p \in Items(o) : released[o][p] = 0

\* The ProcessedWebhook row of a payment and the update of its order go together:
\* once the event of an approved payment is recorded and no delivery is at it any
\* more, the order does not wait for that payment.
ClaimNotLost ==
    \A y \in Payments :
      LET e == <<y, "updated">>
      IN  /\ e \in claimed
          /\ payment[y] = "approved"
          /\ \A h \in Hooks : actor[h].event # e
          => ~Pending(OrderOf[y])

\* The stock of an order that expired comes back.
ExpiredFreesStock ==
    \A o \in Orders :
      (status[o] = "EXPIRED") ~> (\A p \in Items(o) : released[o][p] > 0)
=============================================================================
