------------------------- MODULE OnlineOrdersProofs -------------------------
(***************************************************************************)
(* Theorems about OnlineOrders, for any numbers of orders, products,       *)
(* payments and actors, any quantities and any bounds on failures, crashes *)
(* and redeliveries.                                                       *)
(***************************************************************************)
EXTENDS OnlineOrders, Sums, TLAPS

-----------------------------------------------------------------------------
(* Type correctness.                                                       *)

\* What an actor carries from one call to the next: the order it works on, the
\* event of a delivery, the batch of a sweep, the target of a request.
CarriedBy(a, work) ==
    /\ work.pc \in {"markAsPaid", "markAsCancelled", "transition", "updateStatus",
                    "createSale", "restock"} => work.order \in Orders
    /\ work.pc \in {"verify", "load", "markAsPaid", "markAsCancelled"} => a \in Hooks
    /\ a \in Hooks /\ work.pc # "idle" => work.event \in Events
    /\ a \notin Jobs => work.batch = {}
    /\ work.pc = "transition" => work.target \in {"CANCELLED", "EXPIRED"}

TypeInv ==
    /\ TypeOK
    /\ \A a \in Actors : CarriedBy(a, actor[a])

LEMMA IdleType == Idle \in Work /\ Idle.pc = "idle"
  BY DEF Idle, Work, Steps, Lookups, Settled, Statuses

LEMMA IdleCarried == ASSUME NEW a PROVE CarriedBy(a, Idle)
  BY DEF CarriedBy, Idle

LEMMA InitType == Init => TypeInv
<1> SUFFICES ASSUME Init PROVE TypeInv
  OBVIOUS
<1>1. actor \in [Actors -> Work] /\ \A a \in Actors : actor[a] = Idle
  BY IdleType DEF Init
<1>2. left \in Budget
  BY BoundsAssumption DEF Init, Budget
<1>3. /\ status \in [Orders -> Statuses]
      /\ history \in [Orders -> Seq(OrderEvent)]
      /\ stock \in [Products -> Int]
  BY OrdersAssumption DEF Init, Statuses
<1>4. /\ released \in [Orders -> [Products -> Nat]]
      /\ restored \in [Orders -> BOOLEAN]
      /\ sales \in [Orders -> Nat]
      /\ overdue \in Seq(Orders)
      /\ payment \in [Payments -> PaymentStates]
      /\ claimed \subseteq Events
      /\ answered \subseteq Events
  BY DEF Init, PaymentStates
<1>5. TypeOK
  BY <1>1, <1>2, <1>3, <1>4 DEF TypeOK
<1> QED
  BY <1>1, <1>5, IdleCarried DEF TypeInv

\* A step of an actor to a typed state of its own keeps the actors typed.
LEMMA BecomesType ==
    ASSUME TypeInv, NEW a \in Actors, NEW w \in Work, CarriedBy(a, w), Becomes(a, w)
    PROVE  /\ actor' \in [Actors -> Work]
           /\ \A b \in Actors : CarriedBy(b, actor'[b])
<1>1. actor' = [actor EXCEPT ![a] = w] /\ actor \in [Actors -> Work]
  BY DEF Becomes, TypeInv, TypeOK
<1>2. \A b \in Actors : actor'[b] = IF b = a THEN w ELSE actor[b]
  BY <1>1
<1> QED
  BY <1>1, <1>2 DEF TypeInv

\* Nothing but the actors and the bounds moves.
LEMMA SameActors ==
    ASSUME TypeInv, UNCHANGED actor
    PROVE  /\ actor' \in [Actors -> Work]
           /\ \A b \in Actors : CarriedBy(b, actor'[b])
  BY DEF TypeInv, TypeOK

LEMMA WriteType ==
    ASSUME TypeOK, NEW o \in Orders, NEW to \in Statuses, NEW origin \in Origins,
           NEW event \in Events \cup {Null}, WriteStatus(o, to, origin, event)
    PROVE  /\ status' \in [Orders -> Statuses]
           /\ history' \in [Orders -> Seq(OrderEvent)]
<1> DEFINE row == [to |-> to, actor |-> origin, event |-> event]
<1>1. row \in OrderEvent
  BY DEF OrderEvent
<1>2. history' = [history EXCEPT ![o] = Append(history[o], row)]
  BY DEF WriteStatus
<1>3. status' \in [Orders -> Statuses]
  BY DEF WriteStatus, TypeOK
<1> HIDE DEF row
<1>4. Append(history[o], row) \in Seq(OrderEvent)
  BY <1>1 DEF TypeOK
<1> QED
  BY <1>2, <1>3, <1>4 DEF TypeOK

LEMMA SpendType ==
    ASSUME TypeOK, NEW what \in {"failures", "crashes", "duplicates", "requests"},
           Spend(what)
    PROVE  left' \in Budget
<1>1. left \in Budget /\ left[what] > 0 /\ left' = [left EXCEPT ![what] = left[what] - 1]
  BY DEF Spend, TypeOK
<1>2. CASE what = "failures"
  BY <1>1, <1>2, BoundsAssumption DEF Budget
<1>3. CASE what = "crashes"
  BY <1>1, <1>3, BoundsAssumption DEF Budget
<1>4. CASE what = "duplicates"
  BY <1>1, <1>4, BoundsAssumption DEF Budget
<1>5. CASE what = "requests"
  BY <1>1, <1>5, BoundsAssumption DEF Budget
<1> QED
  BY <1>2, <1>3, <1>4, <1>5

\* Rows and work that the actions make up are typed.
LEMMA WorkType ==
    ASSUME NEW a, NEW w \in Work
    PROVE  /\ w.batch \subseteq Orders /\ w.todo \subseteq Products
           /\ \A o \in Orders :
                /\ CarriedBy(a, w) /\ w.pc # "idle" => CarriedBy(a, Restock(w, o))
                /\ Restock(w, o) \in Work
                /\ Restock(w, o).pc = "restock" /\ Restock(w, o).order = o
                /\ Restock(w, o).ok = TRUE /\ Restock(w, o).todo = Items(o)
                /\ Restock(w, o).event = w.event
           /\ \A o : Rest(w, o) \in Work /\ Rest(w, o).pc \in {"idle", "sweep"}
           /\ \A o : CarriedBy(a, w) => CarriedBy(a, Rest(w, o))
<1>1. w.batch \subseteq Orders /\ w.todo \subseteq Products
  BY DEF Work
<1>2. ASSUME NEW o \in Orders
      PROVE  /\ CarriedBy(a, w) /\ w.pc # "idle" => CarriedBy(a, Restock(w, o))
             /\ Restock(w, o) \in Work
             /\ Restock(w, o).pc = "restock" /\ Restock(w, o).order = o
             /\ Restock(w, o).ok = TRUE /\ Restock(w, o).todo = Items(o)
             /\ Restock(w, o).event = w.event
  <2> DEFINE items == Items(o)
  <2>1. items \subseteq Products
    BY DEF Items
  <2>2. Restock(w, o) = [w EXCEPT !.pc = "restock", !.order = o, !.todo = items, !.ok = TRUE]
    BY DEF Restock
  <2> HIDE DEF items
  <2>3. /\ Restock(w, o) \in Work
        /\ Restock(w, o).pc = "restock" /\ Restock(w, o).order = o
        /\ Restock(w, o).ok = TRUE /\ Restock(w, o).todo = items
        /\ Restock(w, o).event = w.event /\ Restock(w, o).batch = w.batch
    BY <2>1, <2>2 DEF Work, Steps
  <2> QED
    BY <2>3 DEF CarriedBy, items
<1>3. ASSUME NEW o
      PROVE  /\ Rest(w, o) \in Work /\ Rest(w, o).pc \in {"idle", "sweep"}
             /\ CarriedBy(a, w) => CarriedBy(a, Rest(w, o))
  <2> DEFINE rest == w.batch \ {o}
             next == [Idle EXCEPT !.pc = "sweep", !.batch = rest]
  <2>1. rest \subseteq Orders
    BY <1>1
  <2>2. Rest(w, o) = IF rest = {} THEN Idle ELSE next
    BY DEF Rest
  <2> HIDE DEF rest
  <2>3. next \in Work /\ next.pc = "sweep"
    BY <2>1, IdleType DEF Work, Steps
  <2> HIDE DEF next
  <2>4. a \in Jobs => CarriedBy(a, next)
    BY <2>3, ActorsAssumption DEF CarriedBy
  <2>5. CarriedBy(a, w) /\ a \notin Jobs => rest = {}
    BY DEF CarriedBy, rest
  <2> QED
    BY <2>2, <2>3, <2>4, <2>5, IdleType, IdleCarried
<1> QED
  BY <1>1, <1>2, <1>3

\* The steps of customers, buyers and the gateway.
LEMMA CustomerType ==
    ASSUME TypeInv, NEW o \in Orders, Customer(o)
    PROVE  TypeInv'
<1>1. CASE Checkout(o)
  <2>1. /\ status' \in [Orders -> Statuses]
        /\ history' \in [Orders -> Seq(OrderEvent)]
    BY <1>1, WriteType DEF Checkout, TypeInv, Statuses, Origins
  <2>2. stock' \in [Products -> Int]
    BY <1>1, OrdersAssumption DEF Checkout, TypeInv, TypeOK
  <2> QED
    BY <1>1, <2>1, <2>2, SameActors DEF Checkout, TypeInv, TypeOK, gateway
<1>2. CASE BecomeOverdue(o)
  <2>1. overdue' \in Seq(Orders)
    BY <1>2 DEF BecomeOverdue, TypeInv, TypeOK
  <2> QED
    BY <1>2, <2>1, SameActors DEF BecomeOverdue, TypeInv, TypeOK, rows, shelf, gateway
<1> QED
  BY <1>1, <1>2 DEF Customer

LEMMA BuyerType ==
    ASSUME TypeInv, NEW y \in Payments, Buyer(y)
    PROVE  TypeInv'
<1>1. payment' \in [Payments -> PaymentStates]
  BY DEF Buyer, Pay, Settle, TypeInv, TypeOK, PaymentStates
<1> QED
  BY <1>1, SameActors DEF Buyer, Pay, Settle, TypeInv, TypeOK, rows, shelf

LEMMA DeliveryType ==
    ASSUME TypeInv, NEW e \in Events, Delivery(e)
    PROVE  TypeInv'
<1>1. PICK h \in Hooks : Claim(h, e) \/ AlreadyProcessed(h, e)
  BY DEF Delivery
<1>2. left' \in Budget
  BY <1>1, SpendType DEF Claim, AlreadyProcessed, Deliver, TypeInv, TypeOK
<1>3. CASE Claim(h, e)
  <2> DEFINE w == [Idle EXCEPT !.pc = "verify", !.event = e]
  <2>1. w \in Work /\ w.pc = "verify" /\ w.event = e /\ w.batch = {}
    BY IdleType DEF Work, Steps, Idle
  <2>2. Becomes(h, w)
    BY <1>3 DEF Claim
  <2> HIDE DEF w
  <2>3. CarriedBy(h, w)
    BY <2>1 DEF CarriedBy
  <2>4. /\ actor' \in [Actors -> Work]
        /\ \A b \in Actors : CarriedBy(b, actor'[b])
    BY <2>1, <2>2, <2>3, BecomesType DEF Actors
  <2> QED
    BY <1>2, <1>3, <2>4 DEF Claim, TypeInv, TypeOK, rows, shelf, gateway
<1>4. CASE AlreadyProcessed(h, e)
  BY <1>2, <1>4, SameActors DEF AlreadyProcessed, TypeInv, TypeOK, rows, shelf
<1> QED
  BY <1>1, <1>3, <1>4

\* The steps of a delivery.
LEMMA HookType ==
    ASSUME TypeInv, NEW h \in Hooks, HookStep(h)
    PROVE  TypeInv'
<1>1. /\ h \in Actors /\ actor[h] \in Work /\ CarriedBy(h, actor[h])
      /\ actor[h].pc # "idle" => actor[h].event \in Events
  BY DEF TypeInv, TypeOK, CarriedBy, Actors
<1>2. \A e \in Events : e[1] \in Payments /\ OrderOf[e[1]] \in Orders
  BY OrdersAssumption DEF Events
<1>3. ASSUME NEW lookup \in Lookups, VerifyTransaction(h, lookup)
      PROVE  TypeInv'
  <2> DEFINE w == [actor[h] EXCEPT !.pc = "load", !.lookup = lookup]
  <2>1. w \in Work /\ CarriedBy(h, w)
    BY <1>1, <1>3 DEF Work, Steps, CarriedBy, VerifyTransaction
  <2>2. Becomes(h, w)
    BY <1>3 DEF VerifyTransaction
  <2> HIDE DEF w
  <2> QED
    BY <1>1, <1>3, <2>1, <2>2, BecomesType
       DEF VerifyTransaction, TypeInv, TypeOK, rows, shelf, gateway
<1>4. CASE Refuse(h)
  BY <1>1, <1>4, IdleType, IdleCarried, BecomesType
     DEF Refuse, TypeInv, TypeOK, rows, shelf, Refusal
<1>5. CASE Decide(h)
  <2> DEFINE o == OrderOf[actor[h].event[1]]
             to == IF actor[h].lookup = "approved" THEN "markAsPaid" ELSE "markAsCancelled"
             w == [actor[h] EXCEPT !.pc = to, !.order = o]
  <2>1. Becomes(h, w)
    BY <1>5 DEF Decide
  <2>2. o \in Orders /\ actor[h].event \in Events
    BY <1>1, <1>2, <1>5 DEF Decide
  <2>3. to \in {"markAsPaid", "markAsCancelled"}
    OBVIOUS
  <2> HIDE DEF o, to
  <2>4. w \in Work /\ w.pc = to /\ w.order = o /\ w.event = actor[h].event
        /\ w.batch = actor[h].batch
    BY <1>1, <2>2, <2>3 DEF Work, Steps
  <2> HIDE DEF w
  <2>5. CarriedBy(h, w)
    BY <1>1, <2>2, <2>3, <2>4 DEF CarriedBy
  <2> QED
    BY <1>1, <1>5, <2>1, <2>4, <2>5, BecomesType
       DEF Decide, TypeInv, TypeOK, rows, shelf, gateway
<1>6. CASE MarkAsPaid(h)
  <2>1. actor[h].order \in Orders /\ actor[h].event \in Events
    BY <1>1, <1>6 DEF MarkAsPaid, CarriedBy
  <2>2. /\ status' \in [Orders -> Statuses]
        /\ history' \in [Orders -> Seq(OrderEvent)]
    BY <1>6, <2>1, WriteType DEF MarkAsPaid, TypeInv, Statuses, Origins
  <2>3. Becomes(h, Idle)
    BY <1>6 DEF MarkAsPaid
  <2>4. /\ actor' \in [Actors -> Work]
        /\ \A b \in Actors : CarriedBy(b, actor'[b])
    BY <1>1, <2>3, IdleType, IdleCarried, BecomesType
  <2> QED
    BY <1>6, <2>1, <2>2, <2>4 DEF MarkAsPaid, TypeInv, TypeOK, shelf
<1>7. CASE MarkAsCancelled(h)
  <2>1. actor[h].order \in Orders /\ actor[h].event \in Events
    BY <1>1, <1>7 DEF MarkAsCancelled, CarriedBy
  <2>2. /\ status' \in [Orders -> Statuses]
        /\ history' \in [Orders -> Seq(OrderEvent)]
    BY <1>7, <2>1, WriteType DEF MarkAsCancelled, TypeInv, Statuses, Origins
  <2>3. /\ Restock(actor[h], actor[h].order) \in Work
        /\ CarriedBy(h, Restock(actor[h], actor[h].order))
    BY <1>1, <1>7, <2>1, WorkType DEF MarkAsCancelled
  <2>4. Becomes(h, Restock(actor[h], actor[h].order))
    BY <1>7 DEF MarkAsCancelled
  <2>5. /\ actor' \in [Actors -> Work]
        /\ \A b \in Actors : CarriedBy(b, actor'[b])
    BY <1>1, <2>3, <2>4, BecomesType
  <2> QED
    BY <1>7, <2>2, <2>5 DEF MarkAsCancelled, TypeInv, TypeOK, shelf, gateway
<1> QED
  BY <1>3, <1>4, <1>5, <1>6, <1>7 DEF HookStep

\* The steps of a sweep.
LEMMA JobType ==
    ASSUME TypeInv, NEW j \in Jobs, JobStep(j)
    PROVE  TypeInv'
<1>1. j \in Actors /\ actor[j] \in Work /\ CarriedBy(j, actor[j])
  BY DEF TypeInv, TypeOK, Actors
<1>2. CASE Tick(j)
  <2> DEFINE batch == Candidates
             w == [Idle EXCEPT !.pc = "sweep", !.batch = batch]
  <2>1. batch \subseteq Orders
    BY DEF Candidates
  <2>2. Becomes(j, w)
    BY <1>2 DEF Tick
  <2> HIDE DEF batch
  <2>3. w \in Work /\ w.pc = "sweep"
    BY <2>1, IdleType DEF Work, Steps
  <2> HIDE DEF w
  <2>4. CarriedBy(j, w)
    BY <2>3, ActorsAssumption DEF CarriedBy
  <2>5. UNCHANGED <<rows, shelf, overdue, gateway, claimed, left>>
    BY <1>2 DEF Tick
  <2> QED
    BY <1>1, <2>2, <2>3, <2>4, <2>5, BecomesType
       DEF TypeInv, TypeOK, rows, shelf, gateway
<1>3. ASSUME NEW o \in Orders, ExpireNext(j, o)
      PROVE  TypeInv'
  <2>1. /\ status' \in [Orders -> Statuses]
        /\ history' \in [Orders -> Seq(OrderEvent)]
    BY <1>3, WriteType DEF ExpireNext, TypeInv, Statuses, Origins
  <2>2. Restock(actor[j], o) \in Work /\ CarriedBy(j, Restock(actor[j], o))
    BY <1>1, <1>3, WorkType DEF ExpireNext, NextOfBatch
  <2>3. Becomes(j, Restock(actor[j], o))
    BY <1>3 DEF ExpireNext
  <2>4. /\ actor' \in [Actors -> Work]
        /\ \A b \in Actors : CarriedBy(b, actor'[b])
    BY <1>1, <2>2, <2>3, BecomesType
  <2> QED
    BY <1>3, <2>1, <2>4 DEF ExpireNext, TypeInv, TypeOK, shelf, gateway
<1>4. ASSUME NEW o \in Orders, SkipNext(j, o)
      PROVE  TypeInv'
  <2>1. Rest(actor[j], o) \in Work /\ CarriedBy(j, Rest(actor[j], o))
    BY <1>1, WorkType
  <2>2. Becomes(j, Rest(actor[j], o))
    BY <1>4 DEF SkipNext
  <2> QED
    BY <1>1, <1>4, <2>1, <2>2, BecomesType
       DEF SkipNext, TypeInv, TypeOK, rows, shelf, gateway
<1> QED
  BY <1>2, <1>3, <1>4 DEF JobStep

\* The steps of the staff.
LEMMA RequestType ==
    ASSUME TypeInv, NEW s \in Staff, NEW o \in Orders,
           NEW target \in {"PAID", "CANCELLED", "EXPIRED"}, Request(s, o, target)
    PROVE  TypeInv'
<1> DEFINE pc == IF target = "PAID" THEN "updateStatus" ELSE "transition"
           w == [Idle EXCEPT !.pc = pc, !.order = o, !.target = target]
<1>1. Becomes(s, w) /\ Spend("requests")
  BY DEF Request
<1>2. /\ pc \in {"updateStatus", "transition"}
      /\ pc = "transition" => target \in {"CANCELLED", "EXPIRED"}
  OBVIOUS
<1> HIDE DEF pc
<1>3. w \in Work /\ w.pc = pc /\ w.order = o /\ w.batch = {} /\ w.target = target
  BY <1>2, IdleType DEF Work, Steps, Statuses, Idle
<1> HIDE DEF w
<1>4. CarriedBy(s, w)
  BY <1>2, <1>3, ActorsAssumption DEF CarriedBy
<1>5. /\ actor' \in [Actors -> Work]
      /\ \A b \in Actors : CarriedBy(b, actor'[b])
  BY <1>1, <1>3, <1>4, BecomesType DEF Actors
<1>6. left' \in Budget
  BY <1>1, SpendType DEF TypeInv
<1> QED
  BY <1>5, <1>6 DEF Request, TypeInv, TypeOK, rows, shelf, gateway

LEMMA StaffType ==
    ASSUME TypeInv, NEW s \in Staff, StaffStep(s)
    PROVE  TypeInv'
<1>1. s \in Actors /\ actor[s] \in Work /\ CarriedBy(s, actor[s])
  BY DEF TypeInv, TypeOK, Actors
<1>2. CASE TryCancelOrExpirePending(s)
  <2>1. actor[s].order \in Orders /\ actor[s].target \in Statuses
    BY <1>1, <1>2 DEF TryCancelOrExpirePending, CarriedBy, Work
  <2>2. /\ status' \in [Orders -> Statuses]
        /\ history' \in [Orders -> Seq(OrderEvent)]
    BY <1>2, <2>1, WriteType DEF TryCancelOrExpirePending, TypeInv, Origins
  <2>3. /\ Restock(actor[s], actor[s].order) \in Work
        /\ CarriedBy(s, Restock(actor[s], actor[s].order))
    BY <1>1, <1>2, <2>1, WorkType DEF TryCancelOrExpirePending
  <2>4. Becomes(s, Restock(actor[s], actor[s].order))
    BY <1>2 DEF TryCancelOrExpirePending
  <2>5. /\ actor' \in [Actors -> Work]
        /\ \A b \in Actors : CarriedBy(b, actor'[b])
    BY <1>1, <2>3, <2>4, BecomesType
  <2> QED
    BY <1>2, <2>2, <2>5 DEF TryCancelOrExpirePending, TypeInv, TypeOK, shelf, gateway
<1>3. CASE TransitionRefused(s)
  BY <1>1, <1>3, IdleType, IdleCarried, BecomesType
     DEF TransitionRefused, TypeInv, TypeOK, rows, shelf, gateway
<1>4. CASE UpdateStatus(s)
  <2> DEFINE sell == [actor[s] EXCEPT !.pc = "createSale"]
             w == IF actor[s].order \in Linked THEN sell ELSE Idle
  <2>1. actor[s].order \in Orders /\ actor[s].pc = "updateStatus"
    BY <1>1, <1>4 DEF UpdateStatus, CarriedBy
  <2>2. /\ status' \in [Orders -> Statuses]
        /\ history' \in [Orders -> Seq(OrderEvent)]
    BY <1>4, <2>1, WriteType DEF UpdateStatus, TypeInv, Statuses, Origins
  <2>3. /\ sell \in Work /\ sell.pc = "createSale" /\ sell.order = actor[s].order
        /\ sell.event = actor[s].event /\ sell.batch = actor[s].batch
    BY <1>1 DEF Work, Steps
  <2>4. Becomes(s, w)
    BY <1>4 DEF UpdateStatus
  <2> HIDE DEF sell
  <2>5. w \in Work
    BY <2>3, IdleType
  <2>6. CarriedBy(s, sell)
    BY <1>1, <2>1, <2>3 DEF CarriedBy
  <2>7. CarriedBy(s, w)
    BY <2>6, IdleCarried
  <2> HIDE DEF w
  <2>8. /\ actor' \in [Actors -> Work]
        /\ \A b \in Actors : CarriedBy(b, actor'[b])
    BY <1>1, <2>4, <2>5, <2>7, BecomesType
  <2> QED
    BY <1>4, <2>2, <2>8 DEF UpdateStatus, TypeInv, TypeOK, shelf, gateway
<1>5. CASE CreateSaleFromOrder(s)
  <2>1. sales' \in [Orders -> Nat]
    BY <1>1, <1>5 DEF CreateSaleFromOrder, CarriedBy, TypeInv, TypeOK
  <2> QED
    BY <1>1, <1>5, <2>1, IdleType, IdleCarried, BecomesType
       DEF CreateSaleFromOrder, TypeInv, TypeOK, shelf, gateway
<1> QED
  BY <1>2, <1>3, <1>4, <1>5 DEF StaffStep

\* The steps that return stock.
LEMMA FinishType ==
    ASSUME TypeInv, NEW a \in Actors, actor[a].pc = "restock", FinishRestock(a)
    PROVE  /\ actor' \in [Actors -> Work]
           /\ \A b \in Actors : CarriedBy(b, actor'[b])
<1> DEFINE w == Rest(actor[a], actor[a].order)
<1>1. actor[a] \in Work /\ CarriedBy(a, actor[a])
  BY DEF TypeInv, TypeOK
<1>2. w \in Work /\ CarriedBy(a, w)
  BY <1>1, WorkType
<1>3. Becomes(a, w)
  BY DEF FinishRestock
<1> HIDE DEF w
<1> QED
  BY <1>2, <1>3, BecomesType

LEMMA RestockType ==
    ASSUME TypeInv, NEW a \in Actors, RestockStep(a)
    PROVE  TypeInv'
<1>1. /\ actor[a] \in Work /\ CarriedBy(a, actor[a])
      /\ actor[a].pc = "restock" => actor[a].order \in Orders
      /\ actor[a].pc = "restock" /\ a \in Hooks => actor[a].event \in Events
  BY DEF TypeInv, TypeOK, CarriedBy
<1>2. ASSUME NEW p \in Products, IncrementStock(a, p)
      PROVE  TypeInv'
  <2> DEFINE o == actor[a].order
             todo == actor[a].todo \ {p}
             w == [actor[a] EXCEPT !.todo = todo]
  <2>1. o \in Orders /\ todo \subseteq Products
    BY <1>1, <1>2, WorkType DEF IncrementStock
  <2>2. Quantity[o][p] \in Int
    BY <2>1, OrdersAssumption
  <2>3. stock' \in [Products -> Int]
    BY <1>2, <2>2 DEF IncrementStock, TypeInv, TypeOK
  <2>4. released' = [released EXCEPT ![o] = [released[o] EXCEPT ![p] = released[o][p] + 1]]
    BY <1>2 DEF IncrementStock
  <2>5. released \in [Orders -> [Products -> Nat]] /\ Becomes(a, w)
    BY <1>2 DEF IncrementStock, TypeInv, TypeOK
  <2> HIDE DEF o, todo
  <2>6. released' \in [Orders -> [Products -> Nat]]
    BY <2>1, <2>4, <2>5
  <2>7. /\ w \in Work /\ w.pc = actor[a].pc /\ w.order = actor[a].order
        /\ w.event = actor[a].event /\ w.batch = actor[a].batch
        /\ w.target = actor[a].target
    BY <1>1, <2>1 DEF Work
  <2> HIDE DEF w
  <2>8. CarriedBy(a, w)
    BY <1>1, <2>7 DEF CarriedBy
  <2>9. /\ actor' \in [Actors -> Work]
        /\ \A b \in Actors : CarriedBy(b, actor'[b])
    BY <2>5, <2>7, <2>8, BecomesType
  <2> QED
    BY <1>2, <2>3, <2>6, <2>9 DEF IncrementStock, TypeInv, TypeOK, rows, gateway
<1>3. CASE MarkStockRestored(a) \/ LeaveUnmarked(a)
  <2>1. /\ actor' \in [Actors -> Work]
        /\ \A b \in Actors : CarriedBy(b, actor'[b])
    BY <1>3, FinishType DEF MarkStockRestored, LeaveUnmarked
  <2>2. answered' \subseteq Events
    BY <1>1, <1>3 DEF MarkStockRestored, LeaveUnmarked, Answered, TypeInv, TypeOK
  <2>3. restored' \in [Orders -> BOOLEAN]
    BY <1>3 DEF MarkStockRestored, LeaveUnmarked, TypeInv, TypeOK, shelf
  <2> QED
    BY <1>3, <2>1, <2>2, <2>3
       DEF MarkStockRestored, LeaveUnmarked, TypeInv, TypeOK, rows, shelf
<1> QED
  BY <1>2, <1>3 DEF RestockStep

\* Failures and crashes.
LEMMA FailureType ==
    ASSUME TypeInv, Failure
    PROVE  TypeInv'
<1>1. \A a \in Actors :
        /\ actor[a] \in Work /\ CarriedBy(a, actor[a])
        /\ a \in Hooks /\ actor[a].pc = "verify" => actor[a].event \in Events
  BY DEF TypeInv, TypeOK, CarriedBy
<1>2. ASSUME NEW h \in Hooks, VerifyFails(h) PROVE TypeInv'
  <2>1. left' \in Budget
    BY <1>2, SpendType DEF VerifyFails, TypeInv
  <2> QED
    BY <1>2, <2>1, IdleType, IdleCarried, BecomesType
       DEF VerifyFails, ReleaseClaim, TypeInv, TypeOK, Actors, rows, shelf, gateway
<1>3. ASSUME NEW j \in Jobs, NEW o \in Orders, ExpireFails(j, o) PROVE TypeInv'
  <2>1. left' \in Budget
    BY <1>3, SpendType DEF ExpireFails, TypeInv
  <2>2. j \in Actors /\ Becomes(j, Rest(actor[j], o))
    BY <1>3 DEF ExpireFails, Actors
  <2>3. Rest(actor[j], o) \in Work /\ CarriedBy(j, Rest(actor[j], o))
    BY <1>1, <2>2, WorkType
  <2> QED
    BY <1>3, <2>1, <2>2, <2>3, BecomesType
       DEF ExpireFails, TypeInv, TypeOK, rows, shelf, gateway
<1>4. ASSUME NEW s \in Staff, CreateSaleFails(s) PROVE TypeInv'
  <2>1. left' \in Budget
    BY <1>4, SpendType DEF CreateSaleFails, TypeInv
  <2> QED
    BY <1>4, <2>1, IdleType, IdleCarried, BecomesType
       DEF CreateSaleFails, TypeInv, TypeOK, Actors, rows, shelf, gateway
<1>5. ASSUME NEW a \in Actors, MarkerFails(a) PROVE TypeInv'
  <2>1. left' \in Budget
    BY <1>5, SpendType DEF MarkerFails, TypeInv
  <2> QED
    BY <1>5, <2>1, FinishType
       DEF MarkerFails, TypeInv, TypeOK, rows, shelf, gateway
<1>6. ASSUME NEW a \in Actors, NEW p \in Products, IncrementFails(a, p)
      PROVE  TypeInv'
  <2> DEFINE todo == actor[a].todo \ {p}
             w == [actor[a] EXCEPT !.todo = todo, !.ok = FALSE]
  <2>1. left' \in Budget
    BY <1>6, SpendType DEF IncrementFails, TypeInv
  <2>2. Becomes(a, w)
    BY <1>6 DEF IncrementFails, Failed
  <2>3. todo \subseteq Products
    BY <1>1, WorkType
  <2> HIDE DEF todo
  <2>4. /\ w \in Work /\ w.pc = actor[a].pc /\ w.order = actor[a].order
        /\ w.event = actor[a].event /\ w.batch = actor[a].batch
        /\ w.target = actor[a].target
    BY <1>1, <2>3 DEF Work
  <2> HIDE DEF w
  <2>5. CarriedBy(a, w)
    BY <1>1, <2>4 DEF CarriedBy
  <2>6. /\ actor' \in [Actors -> Work]
        /\ \A b \in Actors : CarriedBy(b, actor'[b])
    BY <2>2, <2>4, <2>5, BecomesType
  <2> QED
    BY <1>6, <2>1, <2>6 DEF IncrementFails, TypeInv, TypeOK, rows, shelf, gateway
<1>7. ASSUME NEW a \in Actors, Crash(a) PROVE TypeInv'
  <2>1. left' \in Budget
    BY <1>7, SpendType DEF Crash, TypeInv
  <2> QED
    BY <1>7, <2>1, IdleType, IdleCarried, BecomesType
       DEF Crash, TypeInv, TypeOK, rows, shelf, gateway
<1> QED
  BY <1>2, <1>3, <1>4, <1>5, <1>6, <1>7 DEF Failure

LEMMA TypeStep == TypeInv /\ [Next]_vars => TypeInv'
<1> SUFFICES ASSUME TypeInv, [Next]_vars PROVE TypeInv'
  OBVIOUS
<1>1. CASE Next
  BY <1>1, CustomerType, BuyerType, DeliveryType, HookType, JobType, RequestType,
     StaffType, RestockType, FailureType DEF Next
<1>2. CASE UNCHANGED vars
  BY <1>2 DEF vars, TypeInv, TypeOK
<1> QED
  BY <1>1, <1>2

\* Every reachable state of the orders is type-correct: whatever deliveries,
\* sweeps and requests interleave, an actor that updates an order or answers an
\* event has really read one.
THEOREM TypeCorrect == Spec => []TypeOK
<1>1. TypeInv => TypeOK
  BY DEF TypeInv
<1> QED
  BY <1>1, InitType, TypeStep, PTL DEF Spec

-----------------------------------------------------------------------------
(* An event is applied once.  A delivery is at work while it has claimed    *)
(* its event and may still write the order.                                *)

Working == {"verify", "load", "markAsPaid", "markAsCancelled"}

\* No order was changed for e.
Fresh(e) == \A o \in Orders : \A i \in 1..Len(history[o]) : history[o][i].event # e

\* Deliveries at work have claimed different events that changed nothing yet, and
\* the events that changed an order stay claimed.
EventInv ==
    /\ \A o \in Orders : \A i \in 1..Len(history[o]) :
         history[o][i].event # Null => history[o][i].event \in claimed
    /\ \A h \in Hooks : actor[h].pc \in Working
         => actor[h].event \in claimed /\ Fresh(actor[h].event)
    /\ \A h, g \in Hooks :
         /\ actor[h].pc \in Working /\ actor[g].pc \in Working
         /\ actor[h].event = actor[g].event
         => h = g
    /\ EventAppliedOnce

\* What steps do to events: deliveries go on with the event they have or stop...
KeepsWork ==
    \A h \in Hooks : actor'[h].pc \in Working
      => actor[h].pc \in Working /\ actor'[h].event = actor[h].event

Records(o, row) == history' = [history EXCEPT ![o] = Append(history[o], row)]

\* ... nothing is written, or a row without an event, or one for the event of a
\* delivery that has done its work then; or an event is claimed or released.
EventStep ==
    \/ UNCHANGED <<history, claimed>> /\ KeepsWork
    \/ \E o \in Orders, row \in OrderEvent :
         row.event = Null /\ Records(o, row) /\ UNCHANGED claimed /\ KeepsWork
    \/ \E h \in Hooks, o \in Orders, row \in OrderEvent :
         /\ actor[h].pc \in Working /\ actor'[h].pc \notin Working
         /\ row.event = actor[h].event /\ Records(o, row)
         /\ UNCHANGED claimed /\ KeepsWork
    \/ \E h \in Hooks, e \in Events :
         /\ e \notin claimed /\ claimed' = claimed \cup {e}
         /\ actor'[h].event = e /\ UNCHANGED history
         /\ \A g \in Hooks \ {h} : actor'[g] = actor[g]
    \/ \E h \in Hooks :
         /\ actor[h].pc \in Working /\ actor'[h].pc \notin Working
         /\ claimed' = claimed \ {actor[h].event}
         /\ UNCHANGED history /\ KeepsWork

LEMMA KeepsWorkBy ==
    ASSUME TypeInv, NEW a \in Actors, NEW w, Becomes(a, w),
           a \in Hooks /\ w.pc \in Working
             => actor[a].pc \in Working /\ w.event = actor[a].event
    PROVE  KeepsWork /\ actor'[a] = w
<1>1. \A b \in Actors : actor'[b] = IF b = a THEN w ELSE actor[b]
  BY DEF Becomes, TypeInv, TypeOK
<1> QED
  BY <1>1 DEF KeepsWork, Actors

LEMMA WriteRecords ==
    ASSUME NEW o, NEW to \in Statuses, NEW origin \in Origins,
           NEW event \in Events \cup {Null}, WriteStatus(o, to, origin, event)
    PROVE  \E row \in OrderEvent :
             row.event = event /\ row.actor = origin /\ Records(o, row)
<1> DEFINE row == [to |-> to, actor |-> origin, event |-> event]
<1>1. row \in OrderEvent /\ row.event = event /\ row.actor = origin
  BY DEF OrderEvent
<1>2. Records(o, row)
  BY DEF WriteStatus, Records
<1> QED
  BY <1>1, <1>2

LEMMA HookEvents ==
    ASSUME TypeInv, NEW h \in Hooks, HookStep(h)
    PROVE  EventStep
<1>1. /\ h \in Actors /\ actor[h] \in Work /\ CarriedBy(h, actor[h])
      /\ actor[h].pc # "idle" => actor[h].event \in Events
  BY DEF TypeInv, TypeOK, CarriedBy, Actors
<1>2. ASSUME NEW lookup \in Lookups, VerifyTransaction(h, lookup)
      PROVE  EventStep
  <2> DEFINE w == [actor[h] EXCEPT !.pc = "load", !.lookup = lookup]
  <2>1. w.event = actor[h].event /\ actor[h].pc \in Working
    BY <1>1, <1>2 DEF Work, VerifyTransaction, Working
  <2>2. Becomes(h, w)
    BY <1>2 DEF VerifyTransaction
  <2> HIDE DEF w
  <2>3. KeepsWork
    BY <1>1, <2>1, <2>2, KeepsWorkBy
  <2> QED
    BY <1>2, <2>3 DEF VerifyTransaction, EventStep, rows
<1>3. CASE Refuse(h)
  <2>1. KeepsWork
    BY <1>1, <1>3, IdleType, KeepsWorkBy DEF Refuse, Working
  <2> QED
    BY <1>3, <2>1 DEF Refuse, EventStep, rows
<1>4. CASE Decide(h)
  <2> DEFINE o == OrderOf[actor[h].event[1]]
             to == IF actor[h].lookup = "approved" THEN "markAsPaid" ELSE "markAsCancelled"
             w == [actor[h] EXCEPT !.pc = to, !.order = o]
  <2>1. Becomes(h, w)
    BY <1>4 DEF Decide
  <2> HIDE DEF o, to
  <2>2. w.event = actor[h].event /\ actor[h].pc \in Working
    BY <1>1, <1>4 DEF Work, Decide, Working
  <2> HIDE DEF w
  <2>3. KeepsWork
    BY <1>1, <2>1, <2>2, KeepsWorkBy
  <2> QED
    BY <1>4, <2>3 DEF Decide, EventStep, rows
<1>5. CASE MarkAsPaid(h)
  <2>1. /\ actor[h].order \in Orders /\ actor[h].event \in Events
        /\ actor[h].pc \in Working
        /\ "PAID" \in Statuses /\ "payment_webhook" \in Origins
    BY <1>1, <1>5 DEF MarkAsPaid, CarriedBy, Working, Statuses, Origins
  <2>2. WriteStatus(actor[h].order, "PAID", "payment_webhook", actor[h].event)
    BY <1>5 DEF MarkAsPaid
  <2>3. PICK row \in OrderEvent :
          /\ row.event = actor[h].event /\ row.actor = "payment_webhook"
          /\ Records(actor[h].order, row)
    BY <2>1, <2>2, WriteRecords
  <2>4. KeepsWork /\ actor'[h].pc \notin Working /\ UNCHANGED claimed
    BY <1>1, <1>5, IdleType, KeepsWorkBy DEF MarkAsPaid, Working
  <2> QED
    BY <2>1, <2>3, <2>4 DEF EventStep
<1>6. CASE MarkAsCancelled(h)
  <2> DEFINE w == Restock(actor[h], actor[h].order)
  <2>1. /\ actor[h].order \in Orders /\ actor[h].event \in Events
        /\ actor[h].pc \in Working
        /\ "CANCELLED" \in Statuses /\ "payment_webhook" \in Origins
    BY <1>1, <1>6 DEF MarkAsCancelled, CarriedBy, Working, Statuses, Origins
  <2>2. WriteStatus(actor[h].order, "CANCELLED", "payment_webhook", actor[h].event)
    BY <1>6 DEF MarkAsCancelled
  <2>3. PICK row \in OrderEvent :
          /\ row.event = actor[h].event /\ row.actor = "payment_webhook"
          /\ Records(actor[h].order, row)
    BY <2>1, <2>2, WriteRecords
  <2>4. Becomes(h, w) /\ UNCHANGED claimed
    BY <1>6 DEF MarkAsCancelled
  <2>5. w.pc \notin Working
    BY <1>1, <2>1, WorkType DEF Working
  <2> HIDE DEF w
  <2>6. KeepsWork /\ actor'[h].pc \notin Working
    BY <1>1, <2>4, <2>5, KeepsWorkBy
  <2> QED
    BY <2>1, <2>3, <2>4, <2>6 DEF EventStep
<1> QED
  BY <1>2, <1>3, <1>4, <1>5, <1>6 DEF HookStep

LEMMA DeliveryEvents ==
    ASSUME TypeInv, NEW e \in Events, Delivery(e)
    PROVE  EventStep
<1>1. PICK h \in Hooks : Claim(h, e) \/ AlreadyProcessed(h, e)
  BY DEF Delivery
<1>2. CASE Claim(h, e)
  <2>1. \A b \in Actors : actor'[b] = IF b = h THEN [Idle EXCEPT !.pc = "verify", !.event = e]
                                      ELSE actor[b]
    BY <1>2 DEF Claim, Becomes, TypeInv, TypeOK
  <2>2. actor'[h].event = e /\ \A g \in Hooks \ {h} : actor'[g] = actor[g]
    BY <2>1, IdleType DEF Actors, Work
  <2> QED
    BY <1>2, <2>2 DEF Claim, Unclaimed, EventStep, rows
<1>3. CASE AlreadyProcessed(h, e)
  BY <1>3 DEF AlreadyProcessed, EventStep, KeepsWork, rows
<1> QED
  BY <1>1, <1>2, <1>3

\* Sweeps and requests are no deliveries, and write rows without an event.
LEMMA OthersKeepWork ==
    ASSUME TypeInv, NEW a \in Jobs \cup Staff, NEW w, Becomes(a, w)
    PROVE  KeepsWork
  BY KeepsWorkBy, ActorsAssumption DEF Actors

LEMMA JobEvents ==
    ASSUME TypeInv, NEW j \in Jobs, JobStep(j)
    PROVE  EventStep
<1>1. CASE Tick(j)
  BY <1>1, OthersKeepWork DEF Tick, EventStep, rows
<1>2. ASSUME NEW o \in Orders, ExpireNext(j, o) PROVE EventStep
  <2>1. /\ "EXPIRED" \in Statuses /\ "expiry_or_admin" \in Origins
        /\ WriteStatus(o, "EXPIRED", "expiry_or_admin", Null)
    BY <1>2 DEF ExpireNext, Statuses, Origins
  <2>2. PICK row \in OrderEvent :
          row.event = Null /\ row.actor = "expiry_or_admin" /\ Records(o, row)
    BY <2>1, WriteRecords
  <2>3. KeepsWork /\ UNCHANGED claimed
    BY <1>2, OthersKeepWork DEF ExpireNext
  <2> QED
    BY <2>2, <2>3 DEF EventStep
<1>3. ASSUME NEW o \in Orders, SkipNext(j, o) PROVE EventStep
  BY <1>3, OthersKeepWork DEF SkipNext, EventStep, rows
<1> QED
  BY <1>1, <1>2, <1>3 DEF JobStep

LEMMA StaffEvents ==
    ASSUME TypeInv, NEW s \in Staff, StaffStep(s)
    PROVE  EventStep
<1>1. /\ actor[s] \in Work
      /\ actor[s].pc \in {"transition", "updateStatus"} => actor[s].order \in Orders
  BY DEF TypeInv, TypeOK, CarriedBy, Actors
<1>2. CASE TryCancelOrExpirePending(s)
  <2>1. /\ actor[s].order \in Orders
        /\ actor[s].target \in Statuses /\ "expiry_or_admin" \in Origins
        /\ WriteStatus(actor[s].order, actor[s].target, "expiry_or_admin", Null)
    BY <1>1, <1>2 DEF TryCancelOrExpirePending, Work, Origins
  <2>2. PICK row \in OrderEvent :
          row.event = Null /\ row.actor = "expiry_or_admin" /\ Records(actor[s].order, row)
    BY <2>1, WriteRecords
  <2>3. KeepsWork /\ UNCHANGED claimed
    BY <1>2, OthersKeepWork DEF TryCancelOrExpirePending
  <2> QED
    BY <2>1, <2>2, <2>3 DEF EventStep
<1>3. CASE TransitionRefused(s) \/ CreateSaleFromOrder(s)
  <2>1. KeepsWork
    BY <1>3, OthersKeepWork DEF TransitionRefused, CreateSaleFromOrder
  <2> QED
    BY <1>3, <2>1 DEF TransitionRefused, CreateSaleFromOrder, EventStep, rows
<1>4. CASE UpdateStatus(s)
  <2>1. /\ actor[s].order \in Orders
        /\ "PAID" \in Statuses /\ "staff_api" \in Origins
        /\ WriteStatus(actor[s].order, "PAID", "staff_api", Null)
    BY <1>1, <1>4 DEF UpdateStatus, Statuses, Origins
  <2>2. PICK row \in OrderEvent :
          row.event = Null /\ row.actor = "staff_api" /\ Records(actor[s].order, row)
    BY <2>1, WriteRecords
  <2>3. KeepsWork /\ UNCHANGED claimed
    BY <1>4, OthersKeepWork DEF UpdateStatus
  <2> QED
    BY <2>1, <2>2, <2>3 DEF EventStep
<1> QED
  BY <1>2, <1>3, <1>4 DEF StaffStep

\* Returning stock touches no event.
LEMMA RestockEvents ==
    ASSUME TypeInv, NEW a \in Actors,
           \/ RestockStep(a)
           \/ MarkerFails(a)
           \/ \E p \in Products : IncrementFails(a, p)
    PROVE  EventStep
<1>1. actor[a].pc = "restock" /\ UNCHANGED <<history, claimed>>
  BY DEF RestockStep, IncrementStock, MarkStockRestored, LeaveUnmarked, MarkerFails,
         IncrementFails, rows
<1>2. PICK w : Becomes(a, w) /\ w.pc \notin Working
  <2>1. actor[a] \in Work
    BY DEF TypeInv, TypeOK
  <2>2. ASSUME NEW p \in Products, IncrementStock(a, p)
        PROVE  \E w : Becomes(a, w) /\ w.pc \notin Working
    <3>1. [actor[a] EXCEPT !.todo = @ \ {p}].pc = "restock"
      BY <1>1, <2>1 DEF Work
    <3> QED
      BY <2>2, <3>1 DEF IncrementStock, Working
  <2>3. ASSUME NEW p \in Products, IncrementFails(a, p)
        PROVE  \E w : Becomes(a, w) /\ w.pc \notin Working
    <3>1. [actor[a] EXCEPT !.todo = @ \ {p}, !.ok = Failed(actor[a])].pc = "restock"
      BY <1>1, <2>1 DEF Work
    <3> QED
      BY <2>3, <3>1 DEF IncrementFails, Working
  <2>4. ASSUME FinishRestock(a)
        PROVE  \E w : Becomes(a, w) /\ w.pc \notin Working
    BY <2>1, <2>4, WorkType DEF FinishRestock, Working
  <2> QED
    BY <2>2, <2>3, <2>4 DEF RestockStep, MarkStockRestored, LeaveUnmarked, MarkerFails
<1>3. KeepsWork
  BY <1>2, KeepsWorkBy
<1> QED
  BY <1>1, <1>3 DEF EventStep

LEMMA FailureEvents ==
    ASSUME TypeInv, Failure
    PROVE  EventStep
<1>1. ASSUME NEW h \in Hooks, VerifyFails(h) PROVE EventStep
  <2>1. KeepsWork /\ actor'[h].pc \notin Working
    BY <1>1, IdleType, KeepsWorkBy DEF VerifyFails, Working, Actors
  <2> QED
    BY <1>1, <2>1 DEF VerifyFails, ReleaseClaim, EventStep, Working, rows
<1>2. ASSUME NEW j \in Jobs, NEW o \in Orders, ExpireFails(j, o) PROVE EventStep
  BY <1>2, OthersKeepWork DEF ExpireFails, EventStep, rows
<1>3. ASSUME NEW s \in Staff, CreateSaleFails(s) PROVE EventStep
  BY <1>3, OthersKeepWork DEF CreateSaleFails, EventStep, rows
<1>4. ASSUME NEW a \in Actors, Crash(a) PROVE EventStep
  <2>1. KeepsWork
    BY <1>4, IdleType, KeepsWorkBy DEF Crash, Working
  <2> QED
    BY <1>4, <2>1 DEF Crash, EventStep, rows
<1> QED
  BY <1>1, <1>2, <1>3, <1>4, RestockEvents DEF Failure

LEMMA NextEvents == ASSUME TypeInv, [Next]_vars PROVE EventStep
<1>1. ASSUME NEW o \in Orders, Customer(o) PROVE EventStep
  <2>1. CASE Checkout(o)
    <3>1. /\ "PENDING_PAYMENT" \in Statuses /\ "checkout" \in Origins
          /\ WriteStatus(o, "PENDING_PAYMENT", "checkout", Null)
      BY <2>1 DEF Checkout, Statuses, Origins
    <3>2. PICK row \in OrderEvent :
            row.event = Null /\ row.actor = "checkout" /\ Records(o, row)
      BY <3>1, WriteRecords
    <3> QED
      BY <2>1, <3>2 DEF Checkout, EventStep, KeepsWork
  <2>2. CASE BecomeOverdue(o)
    BY <2>2 DEF BecomeOverdue, EventStep, KeepsWork, rows
  <2> QED
    BY <1>1, <2>1, <2>2 DEF Customer
<1>2. ASSUME NEW y \in Payments, Buyer(y) PROVE EventStep
  BY <1>2 DEF Buyer, Pay, Settle, EventStep, KeepsWork, rows
<1>3. ASSUME NEW s \in Staff, NEW o \in Orders, NEW target, Request(s, o, target)
      PROVE  EventStep
  BY <1>3, OthersKeepWork DEF Request, EventStep, rows
<1>4. CASE UNCHANGED vars
  BY <1>4 DEF vars, EventStep, KeepsWork
<1> QED
  BY <1>1, <1>2, <1>3, <1>4, DeliveryEvents, HookEvents, JobEvents, StaffEvents,
     RestockEvents, FailureEvents DEF Next

\* A row appended to the history of one order.
LEMMA RecordsHistory ==
    ASSUME TypeOK, NEW o \in Orders, NEW row \in OrderEvent, Records(o, row)
    PROVE  \A x \in Orders :
             /\ x # o => history'[x] = history[x]
             /\ x = o => /\ Len(history'[x]) = Len(history[x]) + 1
                         /\ history'[x][Len(history[x]) + 1] = row
                         /\ \A i \in 1..Len(history[x]) : history'[x][i] = history[x][i]
             /\ Len(history[x]) \in Nat
<1> DEFINE longer == Append(history[o], row)
<1>1. history \in [Orders -> Seq(OrderEvent)]
  BY DEF TypeOK
<1>2. history[o] \in Seq(OrderEvent)
  BY <1>1
<1>3. /\ Len(longer) = Len(history[o]) + 1
      /\ longer[Len(history[o]) + 1] = row
      /\ \A i \in 1..Len(history[o]) : longer[i] = history[o][i]
  BY <1>2
<1>4. history' = [history EXCEPT ![o] = longer]
  BY DEF Records
<1> HIDE DEF longer
<1>5. \A x \in Orders : history'[x] = IF x = o THEN longer ELSE history[x]
  BY <1>1, <1>4
<1>6. \A x \in Orders : Len(history[x]) \in Nat
  BY <1>1
<1> QED
  BY <1>3, <1>5, <1>6

\* The same, seen from the new history: every row is an old one or the new one.
LEMMA NewRows ==
    ASSUME TypeOK, NEW o \in Orders, NEW row \in OrderEvent, Records(o, row),
           NEW x \in Orders, NEW i \in 1..Len(history'[x])
    PROVE  \/ i \in 1..Len(history[x]) /\ history'[x][i] = history[x][i]
           \/ x = o /\ i = Len(history[x]) + 1 /\ history'[x][i] = row
<1>1. CASE x # o
  BY <1>1, RecordsHistory
<1>2. CASE x = o
  <2>1. /\ Len(history[x]) \in Nat /\ Len(history'[x]) = Len(history[x]) + 1
        /\ history'[x][Len(history[x]) + 1] = row
        /\ \A k \in 1..Len(history[x]) : history'[x][k] = history[x][k]
    BY <1>2, RecordsHistory
  <2>2. i \in 1..Len(history[x]) \/ i = Len(history[x]) + 1
    BY <2>1
  <2> QED
    BY <1>2, <2>1, <2>2
<1> QED
  BY <1>1, <1>2

LEMMA EventInit == Init => EventInv
<1> SUFFICES ASSUME Init PROVE EventInv
  OBVIOUS
<1>1. \A o \in Orders : history[o] = <<>> /\ 1..Len(history[o]) = {}
  BY DEF Init
<1>2. \A h \in Hooks : actor[h].pc \notin Working
  BY IdleType DEF Init, Working, Actors
<1> QED
  BY <1>1, <1>2 DEF EventInv, EventAppliedOnce

LEMMA EventInvStep ==
    ASSUME TypeInv, EventInv, EventStep
    PROVE  EventInv'
<1>1. \A h \in Hooks : actor[h].pc \in Working => actor[h].event \in Events
  BY DEF TypeInv, CarriedBy, Working, Actors
<1>2. CASE UNCHANGED <<history, claimed>> /\ KeepsWork
  BY <1>2 DEF EventInv, EventAppliedOnce, KeepsWork, Fresh
<1>3. ASSUME NEW h \in Hooks,
             actor[h].pc \in Working, actor'[h].pc \notin Working,
             claimed' = claimed \ {actor[h].event}, UNCHANGED history, KeepsWork
      PROVE  EventInv'
  <2>1. \A o \in Orders : \A i \in 1..Len(history[o]) :
          history[o][i].event # Null => history[o][i].event \in claimed'
    BY <1>3 DEF EventInv, Fresh
  <2>2. \A g \in Hooks : actor'[g].pc \in Working
          => actor'[g].event \in claimed' /\ Fresh(actor'[g].event)
    BY <1>3 DEF EventInv, KeepsWork
  <2> QED
    BY <1>3, <2>1, <2>2 DEF EventInv, EventAppliedOnce, KeepsWork, Fresh
<1>4. ASSUME NEW h \in Hooks, NEW e \in Events,
             e \notin claimed, claimed' = claimed \cup {e}, actor'[h].event = e,
             UNCHANGED history, \A g \in Hooks \ {h} : actor'[g] = actor[g]
      PROVE  EventInv'
  <2>1. Fresh(e) /\ \A g \in Hooks : actor[g].pc \in Working => actor[g].event # e
    BY <1>4, OrdersAssumption DEF EventInv, Fresh
  <2>2. \A g \in Hooks : actor'[g].pc \in Working
          => actor'[g].event \in claimed' /\ Fresh(actor'[g].event)
    BY <1>4, <2>1 DEF EventInv
  <2>3. \A g, k \in Hooks :
          /\ actor'[g].pc \in Working /\ actor'[k].pc \in Working
          /\ actor'[g].event = actor'[k].event
          => g = k
    BY <1>4, <2>1 DEF EventInv
  <2> QED
    BY <1>4, <2>2, <2>3 DEF EventInv, EventAppliedOnce, Fresh
<1>5. ASSUME NEW o \in Orders, NEW row \in OrderEvent, Records(o, row),
             UNCHANGED claimed, KeepsWork,
             row.event # Null => /\ row.event \in claimed /\ Fresh(row.event)
                                 /\ \A g \in Hooks : actor'[g].pc \in Working
                                      => actor'[g].event # row.event
      PROVE  EventInv'
  <2>1. ASSUME NEW x \in Orders, NEW i \in 1..Len(history'[x]),
               history'[x][i].event # Null
        PROVE  history'[x][i].event \in claimed'
    BY <1>5, <2>1, NewRows DEF EventInv, TypeInv
  <2>2. ASSUME NEW g \in Hooks, actor'[g].pc \in Working
        PROVE  /\ actor'[g].event \in claimed'
               /\ \A x \in Orders : \A i \in 1..Len(history'[x]) :
                    history'[x][i].event # actor'[g].event
    <3>1. /\ actor[g].pc \in Working /\ actor'[g].event = actor[g].event
          /\ actor[g].event \in claimed /\ Fresh(actor[g].event)
          /\ actor[g].event # Null
      BY <1>1, <1>5, <2>2, OrdersAssumption DEF EventInv, KeepsWork
    <3>2. row.event # actor[g].event
      BY <1>5, <2>2, <3>1
    <3> QED
      BY <1>5, <3>1, <3>2, NewRows DEF Fresh, TypeInv
  <2>3. \A g, k \in Hooks :
          /\ actor'[g].pc \in Working /\ actor'[k].pc \in Working
          /\ actor'[g].event = actor'[k].event
          => g = k
    BY <1>5 DEF EventInv, KeepsWork
  <2>4. ASSUME NEW x \in Orders,
               NEW i \in 1..Len(history'[x]), NEW j \in 1..Len(history'[x]),
               history'[x][i].event # Null,
               history'[x][i].event = history'[x][j].event
        PROVE  i = j
    <3>1. CASE history'[x][i] = row /\ i = Len(history[x]) + 1
      BY <1>5, <2>4, <3>1, NewRows DEF Fresh, TypeInv
    <3>2. CASE history'[x][j] = row /\ j = Len(history[x]) + 1
      BY <1>5, <2>4, <3>2, NewRows DEF Fresh, TypeInv
    <3>3. CASE /\ i \in 1..Len(history[x]) /\ history'[x][i] = history[x][i]
               /\ j \in 1..Len(history[x]) /\ history'[x][j] = history[x][j]
      BY <2>4, <3>3 DEF EventInv, EventAppliedOnce
    <3> QED
      BY <1>5, <3>1, <3>2, <3>3, NewRows DEF TypeInv
  <2> QED
    BY <2>1, <2>2, <2>3, <2>4 DEF EventInv, EventAppliedOnce, Fresh
<1>6. ASSUME NEW h \in Hooks, NEW o \in Orders, NEW row \in OrderEvent,
             actor[h].pc \in Working, actor'[h].pc \notin Working,
             row.event = actor[h].event, Records(o, row), UNCHANGED claimed, KeepsWork
      PROVE  EventInv'
  <2>1. row.event \in claimed /\ Fresh(row.event)
    BY <1>6 DEF EventInv
  <2>2. ASSUME NEW g \in Hooks, actor'[g].pc \in Working
        PROVE  actor'[g].event # row.event
    BY <1>6, <2>2 DEF EventInv, KeepsWork
  <2> QED
    BY <1>5, <1>6, <2>1, <2>2
<1> QED
  BY <1>2, <1>3, <1>4, <1>5, <1>6 DEF EventStep

\* A gateway event changes an order at most once, however many deliveries of it
\* run at a time, fail, stop or come back: a delivery that may still write holds
\* a claim no other has, for an event no order was changed for.
THEOREM AppliedOnce == Spec => []EventAppliedOnce
<1>1. TypeInv /\ EventInv /\ [Next]_vars => TypeInv' /\ EventInv'
  BY TypeStep, NextEvents, EventInvStep
<1>2. EventInv => EventAppliedOnce
  BY DEF EventInv
<1> QED
  BY <1>1, <1>2, InitType, EventInit, PTL DEF Spec

-----------------------------------------------------------------------------
(* Orders and their stock.                                                 *)

\* Stock on its way back belongs to an order that has left PENDING_PAYMENT, and
\* as long as no item failed every item is still to come or has been returned.
Restocking(a) ==
    actor[a].pc = "restock" =>
      /\ status[actor[a].order] \notin {"none", "PENDING_PAYMENT"}
      /\ actor[a].ok => \A p \in Items(actor[a].order) :
                          p \in actor[a].todo \/ released[actor[a].order][p] > 0

\* An order that has not left PENDING_PAYMENT was never cancelled or expired by
\* the guarded transition, and nothing of it has been returned.
Untouched(o) ==
    status[o] \in {"none", "PENDING_PAYMENT"} =>
      /\ \A i \in 1..Len(history[o]) : history[o][i].actor # "expiry_or_admin"
      /\ \A p \in Products : released[o][p] = 0

OrderInv ==
    /\ \A o \in Orders : Untouched(o)
    /\ \A a \in Actors : Restocking(a)
    /\ OneGuardedTermination
    /\ MarkerHonest

\* What steps do to orders: an actor goes on returning the stock it was returning
\* or stops, or has just written the order whose stock it returns now...
RestockKept(a) ==
    actor'[a].pc = "restock" =>
      /\ actor[a].pc = "restock" /\ actor'[a].order = actor[a].order
      /\ actor'[a].ok => actor[a].ok /\ actor'[a].todo = actor[a].todo

RestockBegins(a, o) ==
    actor'[a].pc = "restock" /\ actor'[a].order = o /\ actor'[a].todo = Items(o)

\* ... only a checkout makes an order pending, only a pending order is cancelled or
\* expired by the job and the staff, and only a delivery takes PAID away.
WriteStep(o, to, origin) ==
    \/ /\ to = "PENDING_PAYMENT" /\ origin = "checkout"
       /\ status[o] = "none" /\ UNCHANGED actor
    \/ /\ to \notin {"none", "PENDING_PAYMENT"}
       /\ origin = "expiry_or_admin" => Pending(o)
       /\ status[o] = "PAID" /\ to # "PAID"
            => \E h \in Hooks : actor[h].pc = "markAsCancelled" /\ actor[h].order = o
       /\ \A a \in Actors : RestockKept(a) \/ RestockBegins(a, o)

OrderStep ==
    \/ UNCHANGED <<status, history, released, restored>> /\ \A a \in Actors : RestockKept(a)
    \/ \E o \in Orders, to \in Statuses, origin \in Origins, event \in Events \cup {Null} :
         /\ WriteStatus(o, to, origin, event)
         /\ WriteStep(o, to, origin)
         /\ UNCHANGED <<released, restored>>
    \/ \E a \in Actors, p \in Products : IncrementStock(a, p)
    \/ \E a \in Actors : MarkStockRestored(a)

LEMMA Turn ==
    ASSUME TypeInv, NEW a \in Actors, NEW w, Becomes(a, w)
    PROVE  /\ actor'[a] = w
           /\ \A b \in Actors : b # a => actor'[b] = actor[b] /\ RestockKept(b)
           /\ w.pc # "restock" => \A b \in Actors : RestockKept(b)
  BY DEF Becomes, TypeInv, TypeOK, RestockKept

\* A step of one actor that returns no stock and writes no order.
LEMMA QuietOrders ==
    ASSUME TypeInv, NEW a \in Actors, NEW w, Becomes(a, w), w.pc # "restock",
           UNCHANGED <<status, history, released, restored>>
    PROVE  OrderStep
  BY Turn DEF OrderStep

\* A step of one actor that writes an order and goes on to return its stock, or
\* to something else.
LEMMA WritingOrders ==
    ASSUME TypeInv, NEW a \in Actors, NEW w, Becomes(a, w),
           NEW o \in Orders, NEW to \in Statuses, NEW origin \in Origins,
           NEW event \in Events \cup {Null},
           WriteStatus(o, to, origin, event), UNCHANGED <<released, restored>>,
           to \notin {"none", "PENDING_PAYMENT"},
           origin = "expiry_or_admin" => Pending(o),
           status[o] = "PAID" /\ to # "PAID"
             => \E h \in Hooks : actor[h].pc = "markAsCancelled" /\ actor[h].order = o,
           w.pc = "restock" => w.order = o /\ w.todo = Items(o)
    PROVE  OrderStep
<1>1. \A b \in Actors : RestockKept(b) \/ RestockBegins(b, o)
  BY Turn DEF RestockBegins
<1>2. WriteStep(o, to, origin)
  BY <1>1 DEF WriteStep
<1> QED
  BY <1>2 DEF OrderStep

LEMMA HookOrders ==
    ASSUME TypeInv, NEW h \in Hooks, HookStep(h)
    PROVE  OrderStep
<1>1. /\ h \in Actors /\ actor[h] \in Work /\ CarriedBy(h, actor[h])
      /\ actor[h].pc # "idle" => actor[h].event \in Events
  BY DEF TypeInv, TypeOK, CarriedBy, Actors
<1>2. ASSUME NEW lookup \in Lookups, VerifyTransaction(h, lookup)
      PROVE  OrderStep
  <2> DEFINE w == [actor[h] EXCEPT !.pc = "load", !.lookup = lookup]
  <2>1. w.pc = "load"
    BY <1>1 DEF Work
  <2>2. Becomes(h, w)
    BY <1>2 DEF VerifyTransaction
  <2> HIDE DEF w
  <2> QED
    BY <1>1, <1>2, <2>1, <2>2, QuietOrders DEF VerifyTransaction, rows, shelf
<1>3. CASE Refuse(h)
  BY <1>1, <1>3, IdleType, QuietOrders DEF Refuse, rows, shelf
<1>4. CASE Decide(h)
  <2> DEFINE o == OrderOf[actor[h].event[1]]
             to == IF actor[h].lookup = "approved" THEN "markAsPaid" ELSE "markAsCancelled"
             w == [actor[h] EXCEPT !.pc = to, !.order = o]
  <2>1. Becomes(h, w)
    BY <1>4 DEF Decide
  <2>2. to # "restock"
    OBVIOUS
  <2> HIDE DEF o, to
  <2>3. w.pc = to
    BY <1>1 DEF Work
  <2> HIDE DEF w
  <2> QED
    BY <1>1, <1>4, <2>1, <2>2, <2>3, QuietOrders DEF Decide, rows, shelf
<1>5. CASE MarkAsPaid(h)
  <2>1. actor[h].order \in Orders /\ actor[h].event \in Events
    BY <1>1, <1>5 DEF MarkAsPaid, CarriedBy
  <2>2. /\ WriteStatus(actor[h].order, "PAID", "payment_webhook", actor[h].event)
        /\ Becomes(h, Idle) /\ UNCHANGED <<released, restored>>
    BY <1>5 DEF MarkAsPaid, shelf
  <2> QED
    BY <1>1, <2>1, <2>2, IdleType, WritingOrders DEF Statuses, Origins
<1>6. CASE MarkAsCancelled(h)
  <2> DEFINE o == actor[h].order
             w == Restock(actor[h], o)
  <2>1. o \in Orders /\ actor[h].event \in Events /\ actor[h].pc = "markAsCancelled"
    BY <1>1, <1>6 DEF MarkAsCancelled, CarriedBy
  <2>2. /\ WriteStatus(o, "CANCELLED", "payment_webhook", actor[h].event)
        /\ Becomes(h, w) /\ UNCHANGED <<released, restored>>
    BY <1>6 DEF MarkAsCancelled, shelf
  <2>3. w.order = o /\ w.todo = Items(o)
    BY <1>1, <2>1, WorkType
  <2>4. actor[h].pc = "markAsCancelled" /\ actor[h].order = o
    BY <2>1
  <2> HIDE DEF w, o
  <2> QED
    BY <1>1, <2>1, <2>2, <2>3, <2>4, WritingOrders DEF Statuses, Origins
<1> QED
  BY <1>2, <1>3, <1>4, <1>5, <1>6 DEF HookStep

LEMMA JobOrders ==
    ASSUME TypeInv, NEW j \in Jobs, JobStep(j)
    PROVE  OrderStep
<1>1. j \in Actors /\ actor[j] \in Work
  BY DEF TypeInv, TypeOK, Actors
<1>2. CASE Tick(j)
  <2> DEFINE batch == Candidates
             w == [Idle EXCEPT !.pc = "sweep", !.batch = batch]
  <2>1. Becomes(j, w) /\ UNCHANGED <<status, history, released, restored>>
    BY <1>2 DEF Tick, rows, shelf
  <2> HIDE DEF batch
  <2>2. w.pc = "sweep"
    BY IdleType DEF Work
  <2> HIDE DEF w
  <2> QED
    BY <1>1, <2>1, <2>2, QuietOrders
<1>3. ASSUME NEW o \in Orders, ExpireNext(j, o)
      PROVE  OrderStep
  <2> DEFINE w == Restock(actor[j], o)
  <2>1. /\ WriteStatus(o, "EXPIRED", "expiry_or_admin", Null) /\ Pending(o)
        /\ Becomes(j, w) /\ UNCHANGED <<released, restored>>
    BY <1>3 DEF ExpireNext, StillPending, shelf
  <2>2. w.order = o /\ w.todo = Items(o)
    BY <1>1, WorkType
  <2> HIDE DEF w
  <2>3. status[o] # "PAID"
    BY <2>1 DEF Pending
  <2> QED
    BY <1>1, <2>1, <2>2, <2>3, WritingOrders DEF Statuses, Origins
<1>4. ASSUME NEW o \in Orders, SkipNext(j, o)
      PROVE  OrderStep
  <2>1. Rest(actor[j], o).pc # "restock"
    BY <1>1, WorkType
  <2> QED
    BY <1>1, <1>4, <2>1, QuietOrders DEF SkipNext, rows, shelf
<1> QED
  BY <1>2, <1>3, <1>4 DEF JobStep

LEMMA StaffOrders ==
    ASSUME TypeInv, NEW s \in Staff, StaffStep(s)
    PROVE  OrderStep
<1>1. s \in Actors /\ actor[s] \in Work /\ CarriedBy(s, actor[s])
  BY DEF TypeInv, TypeOK, Actors
<1>2. CASE TryCancelOrExpirePending(s)
  <2> DEFINE o == actor[s].order
             to == actor[s].target
             w == Restock(actor[s], o)
  <2>1. o \in Orders /\ to \in {"CANCELLED", "EXPIRED"}
    BY <1>1, <1>2 DEF TryCancelOrExpirePending, CarriedBy
  <2>2. /\ WriteStatus(o, to, "expiry_or_admin", Null) /\ Pending(o)
        /\ Becomes(s, w) /\ UNCHANGED <<released, restored>>
    BY <1>2 DEF TryCancelOrExpirePending, StillPending, shelf
  <2>3. w.order = o /\ w.todo = Items(o)
    BY <1>1, <2>1, WorkType
  <2> HIDE DEF w, o, to
  <2>4. status[o] # "PAID"
    BY <2>2 DEF Pending
  <2> QED
    BY <1>1, <2>1, <2>2, <2>3, <2>4, WritingOrders DEF Statuses, Origins
<1>3. CASE TransitionRefused(s)
  BY <1>1, <1>3, IdleType, QuietOrders DEF TransitionRefused, rows, shelf
<1>4. CASE UpdateStatus(s)
  <2> DEFINE o == actor[s].order
             sell == [actor[s] EXCEPT !.pc = "createSale"]
             w == IF o \in Linked THEN sell ELSE Idle
  <2>1. o \in Orders
    BY <1>1, <1>4 DEF UpdateStatus, CarriedBy
  <2>2. /\ WriteStatus(o, "PAID", "staff_api", Null)
        /\ Becomes(s, w) /\ UNCHANGED <<released, restored>>
    BY <1>4 DEF UpdateStatus, shelf
  <2>3. sell.pc = "createSale"
    BY <1>1 DEF Work
  <2> HIDE DEF sell
  <2>4. w.pc # "restock"
    BY <2>3, IdleType
  <2> HIDE DEF w, o
  <2> QED
    BY <1>1, <2>1, <2>2, <2>4, WritingOrders DEF Statuses, Origins
<1>5. CASE CreateSaleFromOrder(s)
  BY <1>1, <1>5, IdleType, QuietOrders DEF CreateSaleFromOrder, shelf
<1> QED
  BY <1>2, <1>3, <1>4, <1>5 DEF StaffStep

\* The end of a return of stock.
LEMMA FinishOrders ==
    ASSUME TypeInv, NEW a \in Actors, FinishRestock(a),
           UNCHANGED <<status, history, released, restored>>
    PROVE  OrderStep
<1>1. Rest(actor[a], actor[a].order).pc # "restock"
  BY WorkType DEF TypeInv, TypeOK
<1> QED
  BY <1>1, QuietOrders DEF FinishRestock

LEMMA FailureOrders ==
    ASSUME TypeInv, Failure
    PROVE  OrderStep
<1>1. ASSUME NEW h \in Hooks, VerifyFails(h) PROVE OrderStep
  BY <1>1, IdleType, QuietOrders DEF VerifyFails, Actors, rows, shelf
<1>2. ASSUME NEW j \in Jobs, NEW o \in Orders, ExpireFails(j, o) PROVE OrderStep
  <2>1. j \in Actors /\ Rest(actor[j], o).pc # "restock"
    BY WorkType DEF TypeInv, TypeOK, Actors
  <2> QED
    BY <1>2, <2>1, QuietOrders DEF ExpireFails, rows, shelf
<1>3. ASSUME NEW s \in Staff, CreateSaleFails(s) PROVE OrderStep
  BY <1>3, IdleType, QuietOrders DEF CreateSaleFails, Actors, rows, shelf
<1>4. ASSUME NEW a \in Actors, MarkerFails(a) PROVE OrderStep
  BY <1>4, FinishOrders DEF MarkerFails, rows, shelf
<1>5. ASSUME NEW a \in Actors, NEW p \in Products, IncrementFails(a, p)
      PROVE  OrderStep
  <2> DEFINE todo == actor[a].todo \ {p}
             w == [actor[a] EXCEPT !.todo = todo, !.ok = FALSE]
  <2>1. Becomes(a, w) /\ actor[a].pc = "restock"
    BY <1>5 DEF IncrementFails, Failed
  <2>2. actor[a] \in Work
    BY DEF TypeInv, TypeOK
  <2> HIDE DEF todo
  <2>3. w.order = actor[a].order /\ w.ok = FALSE
    BY <2>2 DEF Work
  <2> HIDE DEF w
  <2>4. \A b \in Actors : RestockKept(b)
    BY <2>1, <2>3, Turn DEF RestockKept
  <2> QED
    BY <1>5, <2>4 DEF IncrementFails, OrderStep, rows, shelf
<1>6. ASSUME NEW a \in Actors, Crash(a) PROVE OrderStep
  BY <1>6, IdleType, QuietOrders DEF Crash, rows, shelf
<1> QED
  BY <1>1, <1>2, <1>3, <1>4, <1>5, <1>6 DEF Failure

LEMMA NextOrders == ASSUME TypeInv, [Next]_vars PROVE OrderStep
<1>1. ASSUME NEW o \in Orders, Customer(o) PROVE OrderStep
  <2>1. CASE Checkout(o)
    <3>1. WriteStep(o, "PENDING_PAYMENT", "checkout")
      BY <2>1 DEF Checkout, WriteStep
    <3> QED
      BY <2>1, <3>1 DEF Checkout, OrderStep, Statuses, Origins
  <2>2. CASE BecomeOverdue(o)
    BY <2>2 DEF BecomeOverdue, OrderStep, RestockKept, rows, shelf
  <2> QED
    BY <1>1, <2>1, <2>2 DEF Customer
<1>2. ASSUME NEW y \in Payments, Buyer(y) PROVE OrderStep
  BY <1>2 DEF Buyer, Pay, Settle, OrderStep, RestockKept, rows, shelf
<1>3. ASSUME NEW e \in Events, Delivery(e) PROVE OrderStep
  <2>1. PICK h \in Hooks : Claim(h, e) \/ AlreadyProcessed(h, e)
    BY <1>3 DEF Delivery
  <2>2. CASE Claim(h, e)
    <3>1. [Idle EXCEPT !.pc = "verify", !.event = e].pc # "restock"
      BY IdleType DEF Work
    <3> QED
      BY <2>2, <3>1, QuietOrders DEF Claim, Actors, rows, shelf
  <2>3. CASE AlreadyProcessed(h, e)
    BY <2>3 DEF AlreadyProcessed, OrderStep, RestockKept, rows, shelf
  <2> QED
    BY <2>1, <2>2, <2>3
<1>4. ASSUME NEW s \in Staff, NEW o \in Orders, NEW target, Request(s, o, target)
      PROVE  OrderStep
  <2> DEFINE pc == IF target = "PAID" THEN "updateStatus" ELSE "transition"
             w == [Idle EXCEPT !.pc = pc, !.order = o, !.target = target]
  <2>1. Becomes(s, w) /\ s \in Actors
    BY <1>4 DEF Request, Actors
  <2>2. pc # "restock"
    OBVIOUS
  <2> HIDE DEF pc
  <2>3. w.pc = pc
    BY IdleType DEF Work
  <2> HIDE DEF w
  <2> QED
    BY <1>4, <2>1, <2>2, <2>3, QuietOrders DEF Request, rows, shelf
<1>5. ASSUME NEW a \in Actors, RestockStep(a) PROVE OrderStep
  BY <1>5, FinishOrders DEF RestockStep, LeaveUnmarked, OrderStep, rows, shelf
<1>6. CASE UNCHANGED vars
  BY <1>6 DEF vars, OrderStep, RestockKept
<1> QED
  BY <1>1, <1>2, <1>3, <1>4, <1>5, <1>6, HookOrders, JobOrders, StaffOrders,
     FailureOrders DEF Next

LEMMA OrderInit == Init => OrderInv
<1> SUFFICES ASSUME Init PROVE OrderInv
  OBVIOUS
<1>1. \A o \in Orders : history[o] = <<>> /\ 1..Len(history[o]) = {} /\ ~restored[o]
  BY DEF Init
<1>2. \A o \in Orders : \A p \in Products : released[o][p] = 0
  BY DEF Init
<1>3. \A a \in Actors : actor[a].pc # "restock"
  BY IdleType DEF Init
<1> QED
  BY <1>1, <1>2, <1>3
     DEF OrderInv, Untouched, Restocking, OneGuardedTermination, MarkerHonest

\* Writing an order.
LEMMA WriteKeepsInv ==
    ASSUME TypeInv, OrderInv,
           NEW o \in Orders, NEW to \in Statuses, NEW origin \in Origins,
           NEW event \in Events \cup {Null},
           WriteStatus(o, to, origin, event), WriteStep(o, to, origin),
           UNCHANGED <<released, restored>>
    PROVE  OrderInv'
<1>1. PICK row \in OrderEvent : row.actor = origin /\ Records(o, row)
  BY WriteRecords
<1>2. \A x \in Orders : status'[x] = IF x = o THEN to ELSE status[x]
  BY DEF WriteStatus, TypeInv, TypeOK
<1>3. ASSUME NEW x \in Orders, status'[x] \in {"none", "PENDING_PAYMENT"}
      PROVE  /\ \A i \in 1..Len(history'[x]) : history'[x][i].actor # "expiry_or_admin"
             /\ \A p \in Products : released'[x][p] = 0
  <2>1. status[x] \in {"none", "PENDING_PAYMENT"} /\ (x = o => origin = "checkout")
    BY <1>2, <1>3 DEF WriteStep
  <2>2. /\ \A i \in 1..Len(history[x]) : history[x][i].actor # "expiry_or_admin"
        /\ \A p \in Products : released[x][p] = 0
    BY <2>1 DEF OrderInv, Untouched
  <2>3. ASSUME NEW i \in 1..Len(history'[x])
        PROVE  history'[x][i].actor # "expiry_or_admin"
    BY <1>1, <2>1, <2>2, NewRows DEF TypeInv
  <2> QED
    BY <2>2, <2>3
<1>4. ASSUME NEW a \in Actors, actor'[a].pc = "restock"
      PROVE  /\ status'[actor'[a].order] \notin {"none", "PENDING_PAYMENT"}
             /\ actor'[a].ok => \A p \in Items(actor'[a].order) :
                  p \in actor'[a].todo \/ released'[actor'[a].order][p] > 0
  <2>1. actor[a].pc = "restock" => actor[a].order \in Orders /\ Restocking(a)
    BY DEF TypeInv, CarriedBy, OrderInv
  <2>2. CASE status[o] = "none" /\ UNCHANGED actor
    BY <1>2, <1>4, <2>1, <2>2 DEF Restocking
  <2>3. CASE to \notin {"none", "PENDING_PAYMENT"} /\ RestockKept(a)
    BY <1>2, <1>4, <2>1, <2>3 DEF Restocking, RestockKept
  <2>4. CASE to \notin {"none", "PENDING_PAYMENT"} /\ RestockBegins(a, o)
    BY <1>2, <1>4, <2>4 DEF RestockBegins
  <2> QED
    BY <2>2, <2>3, <2>4 DEF WriteStep
<1>5. ASSUME NEW x \in Orders,
             NEW i \in 1..Len(history'[x]), NEW j \in 1..Len(history'[x]),
             history'[x][i].actor = "expiry_or_admin",
             history'[x][j].actor = "expiry_or_admin"
      PROVE  i = j
  <2>1. x = o /\ origin = "expiry_or_admin"
          => \A k \in 1..Len(history[x]) : history[x][k].actor # "expiry_or_admin"
    BY DEF WriteStep, Pending, OrderInv, Untouched
  <2>2. CASE x = o /\ history'[x][i] = row /\ i = Len(history[x]) + 1
    BY <1>1, <1>5, <2>1, <2>2, NewRows DEF TypeInv
  <2>3. CASE x = o /\ history'[x][j] = row /\ j = Len(history[x]) + 1
    BY <1>1, <1>5, <2>1, <2>3, NewRows DEF TypeInv
  <2>4. CASE /\ i \in 1..Len(history[x]) /\ history'[x][i] = history[x][i]
             /\ j \in 1..Len(history[x]) /\ history'[x][j] = history[x][j]
    BY <1>5, <2>4 DEF OrderInv, OneGuardedTermination
  <2> QED
    BY <1>1, <2>2, <2>3, <2>4, NewRows DEF TypeInv
<1>6. MarkerHonest'
  BY DEF OrderInv, MarkerHonest, Items
<1>7. \A x \in Orders : Untouched(x)'
  BY <1>3 DEF Untouched
<1>8. \A a \in Actors : Restocking(a)'
  BY <1>4 DEF Restocking, Items
<1> QED
  BY <1>5, <1>6, <1>7, <1>8 DEF OrderInv, OneGuardedTermination

\* Returning one item.
LEMMA IncrementKeepsInv ==
    ASSUME TypeInv, OrderInv, NEW a \in Actors, NEW p \in Products, IncrementStock(a, p)
    PROVE  OrderInv'
<1> DEFINE o == actor[a].order
           todo == actor[a].todo \ {p}
           w == [actor[a] EXCEPT !.todo = todo]
<1>1. /\ o \in Orders /\ actor[a] \in Work /\ actor[a].pc = "restock"
      /\ status[o] \notin {"none", "PENDING_PAYMENT"}
      /\ released \in [Orders -> [Products -> Nat]]
  BY DEF IncrementStock, TypeInv, TypeOK, CarriedBy, OrderInv, Restocking
<1>2. released' = [released EXCEPT ![o] = [released[o] EXCEPT ![p] = released[o][p] + 1]]
  BY DEF IncrementStock
<1>3. Becomes(a, w) /\ UNCHANGED <<status, history, restored>>
  BY DEF IncrementStock, rows
<1>4. w.pc = "restock" /\ w.order = o /\ w.todo = todo /\ w.ok = actor[a].ok
  BY <1>1 DEF Work
<1> HIDE DEF w
<1>5. /\ actor'[a].pc = "restock" /\ actor'[a].order = o
      /\ actor'[a].todo = todo /\ actor'[a].ok = actor[a].ok
      /\ \A b \in Actors : b # a => actor'[b] = actor[b]
  BY <1>3, <1>4, Turn
<1> HIDE DEF o
<1>6. /\ released'[o][p] > 0
      /\ \A x \in Orders : \A q \in Products :
           released[x][q] > 0 => released'[x][q] > 0
      /\ \A x \in Orders : x # o => released'[x] = released[x]
  BY <1>1, <1>2
<1>7. \A x \in Orders : Untouched(x)'
  BY <1>1, <1>3, <1>6 DEF OrderInv, Untouched
<1>8. \A b \in Actors : Restocking(b)'
  <2>1. ASSUME NEW b \in Actors, b # a, actor[b].pc = "restock"
        PROVE  Restocking(b)'
    <3>1. actor[b].order \in Orders /\ Restocking(b)
      BY <2>1 DEF TypeInv, CarriedBy, OrderInv
    <3> QED
      BY <1>3, <1>5, <1>6, <2>1, <3>1 DEF Restocking, Items
  <2>2. Restocking(a)'
    <3>1. actor[a].ok => \A q \in Items(o) : q \in actor[a].todo \/ released[o][q] > 0
      BY <1>1 DEF OrderInv, Restocking, o
    <3>2. actor'[a].ok => \A q \in Items(o) : q \in todo \/ released'[o][q] > 0
      BY <1>1, <1>5, <1>6, <3>1 DEF Items
    <3> QED
      BY <1>1, <1>3, <1>5, <3>2 DEF Restocking, Items
  <2> QED
    BY <1>5, <2>1, <2>2 DEF Restocking
<1>9. MarkerHonest'
  BY <1>3, <1>6 DEF OrderInv, MarkerHonest, Items
<1> QED
  BY <1>3, <1>7, <1>8, <1>9 DEF OrderInv, OneGuardedTermination

LEMMA OrderInvStep ==
    ASSUME TypeInv, OrderInv, OrderStep
    PROVE  OrderInv'
<1>1. CASE /\ UNCHANGED <<status, history, released, restored>>
           /\ \A a \in Actors : RestockKept(a)
  <2>1. \A a \in Actors : Restocking(a)'
    BY <1>1 DEF OrderInv, Restocking, RestockKept, Items
  <2> QED
    BY <1>1, <2>1 DEF OrderInv, Untouched, OneGuardedTermination, MarkerHonest, Items
<1>2. ASSUME NEW a \in Actors, MarkStockRestored(a)
      PROVE  OrderInv'
  <2> DEFINE o == actor[a].order
  <2>1. o \in Orders /\ \A p \in Items(o) : released[o][p] > 0
    BY <1>2 DEF MarkStockRestored, TypeInv, CarriedBy, OrderInv, Restocking
  <2>2. /\ restored' = [restored EXCEPT ![o] = TRUE]
        /\ UNCHANGED <<status, history, released>>
        /\ Becomes(a, Rest(actor[a], o))
    BY <1>2 DEF MarkStockRestored, FinishRestock, rows
  <2>3. Rest(actor[a], o).pc # "restock"
    BY WorkType DEF TypeInv, TypeOK
  <2>4. \A b \in Actors : RestockKept(b)
    BY <2>2, <2>3, Turn
  <2> HIDE DEF o
  <2>5. \A b \in Actors : Restocking(b)'
    BY <2>2, <2>4 DEF OrderInv, Restocking, RestockKept, Items
  <2>6. \A x \in Orders : restored'[x] => restored[x] \/ x = o
    BY <2>2 DEF TypeInv, TypeOK
  <2>7. MarkerHonest'
    BY <2>1, <2>2, <2>6 DEF OrderInv, MarkerHonest, Items
  <2> QED
    BY <2>2, <2>5, <2>7 DEF OrderInv, Untouched, OneGuardedTermination
<1> QED
  BY <1>1, <1>2, WriteKeepsInv, IncrementKeepsInv DEF OrderStep

LEMMA OrderInvariant == Spec => [](TypeInv /\ OrderInv)
<1>1. TypeInv /\ OrderInv /\ [Next]_vars => TypeInv' /\ OrderInv'
  BY TypeStep, NextOrders, OrderInvStep
<1> QED
  BY <1>1, InitType, OrderInit, PTL DEF Spec

\* However many sweeps and staff requests race for a pending order, at most one
\* of them cancels or expires it, ever: the guarded update asks for a status that
\* no later write restores.
THEOREM TerminatedOnce == Spec => []OneGuardedTermination
<1>1. OrderInv => OneGuardedTermination
  BY DEF OrderInv
<1> QED
  BY <1>1, OrderInvariant, PTL

\* Once stockRestoredAt is set every item of the order has gone back, whatever
\* increments failed and whoever stopped halfway: the marker is written only by an
\* actor that saw each of its increments succeed.
THEOREM MarkerTrue == Spec => []MarkerHonest
<1>1. OrderInv => MarkerHonest
  BY DEF OrderInv
<1> QED
  BY <1>1, OrderInvariant, PTL

\* An order that still waits for its payment holds all it reserved: stock goes
\* back only after the order has left PENDING_PAYMENT, to which it never returns.
THEOREM ReservationKept == Spec => []PendingKeepsReservation
<1>1. OrderInv => PendingKeepsReservation
  BY DEF OrderInv, Untouched, PendingKeepsReservation, Pending, Items
<1> QED
  BY <1>1, OrderInvariant, PTL

\* Neither the job nor the staff takes PAID away from an order: only a delivery
\* that decided to cancel it while it was pending can.
THEOREM PaidOnlyCancelledByWebhook == Spec => PaidLeftOnlyByWebhook
<1> DEFINE Kept == \A o \in Orders :
             status[o] = "PAID" /\ status'[o] # "PAID"
               => \E h \in Hooks : /\ actor[h].pc = "markAsCancelled"
                                   /\ actor[h].order = o
<1>1. ASSUME TypeInv, [Next]_vars PROVE Kept
  <2>1. OrderStep
    BY <1>1, NextOrders
  <2>2. CASE UNCHANGED status
    BY <2>2
  <2>3. ASSUME NEW o \in Orders, NEW to \in Statuses, NEW origin \in Origins,
               NEW event \in Events \cup {Null},
               WriteStatus(o, to, origin, event), WriteStep(o, to, origin)
        PROVE  Kept
    <3>1. \A x \in Orders : status'[x] = IF x = o THEN to ELSE status[x]
      BY <1>1, <2>3 DEF WriteStatus, TypeInv, TypeOK
    <3> QED
      BY <2>3, <3>1 DEF WriteStep
  <2> QED
    BY <2>1, <2>2, <2>3 DEF OrderStep, IncrementStock, MarkStockRestored, rows
<1>2. TypeInv /\ [Next]_vars => [Kept]_vars
  BY <1>1
<1>3. Spec => []TypeInv
  BY InitType, TypeStep, PTL DEF Spec
<1> HIDE DEF Kept
<1>4. Spec => [][Kept]_vars
  BY <1>2, <1>3, PTL DEF Spec
<1> QED
  BY <1>4 DEF Kept, PaidLeftOnlyByWebhook

-----------------------------------------------------------------------------
(* The stock that comes back is the stock of the terminations that were     *)
(* written.  What an actor has still to return counts as returned, so that  *)
(* the count moves when the order is written and never again, unless a call *)
(* fails or an actor crashes.                                               *)

Terminal == {"CANCELLED", "EXPIRED"}

\* The rows of o that cancel or expire it.
Written(o) == {i \in 1..Len(history[o]) : history[o][i].to \in Terminal}

\* a has item p of o still to return.
Returning(a, o, p) ==
    actor[a].pc = "restock" /\ actor[a].order = o /\ p \in actor[a].todo

Underway(o, p) == {a \in Actors : Returning(a, o, p)}

NothingFailed == left.failures = MaxFailures /\ left.crashes = MaxCrashes

Balanced(o, p) ==
    /\ IsFiniteSet(Underway(o, p))
    /\ released[o][p] + Cardinality(Underway(o, p)) <= Cardinality(Written(o))
    /\ NothingFailed
         => released[o][p] + Cardinality(Underway(o, p)) = Cardinality(Written(o))

ReleaseInv == \A o \in Orders : \A p \in Items(o) : Balanced(o, p)

\* What steps do to returns: an actor goes on with what it had to return...
GoesOn(a) == \A o \in Orders : \A p \in Products : Returning(a, o, p)' = Returning(a, o, p)

\* ... or, when something failed, gives up on some of it...
GivesUp(a) == \A o \in Orders : \A p \in Products : Returning(a, o, p)' => Returning(a, o, p)

\* ... or begins to return the order it has just cancelled or expired.
Begins(a, o) ==
    /\ actor[a].pc # "restock"
    /\ \A x \in Orders : \A p \in Items(x) : Returning(a, x, p)' = (x = o)

ReleaseStep ==
    /\ NothingFailed' => NothingFailed
    /\ \/ /\ UNCHANGED <<history, released>>
          /\ \A a \in Actors : GoesOn(a)
       \/ /\ UNCHANGED <<history, released>>
          /\ \A a \in Actors : GivesUp(a)
          /\ ~NothingFailed'
       \/ \E o \in Orders, row \in OrderEvent :
            /\ Records(o, row) /\ UNCHANGED released
            /\ \/ row.to \notin Terminal /\ \A a \in Actors : GoesOn(a)
               \/ /\ row.to \in Terminal
                  /\ \E a \in Actors :
                       Begins(a, o) /\ \A b \in Actors \ {a} : GoesOn(b)
       \/ \E a \in Actors, p \in Products : IncrementStock(a, p)

\* What is left of the bounds tells whether something failed.
LEMMA SpendFails ==
    ASSUME TypeInv, NEW what \in {"failures", "crashes", "duplicates", "requests"},
           Spend(what)
    PROVE  /\ NothingFailed' => NothingFailed
           /\ what \in {"failures", "crashes"} => ~NothingFailed'
<1>1. /\ left \in Budget /\ left' = [left EXCEPT ![what] = left[what] - 1]
  BY DEF Spend, TypeInv, TypeOK
<1>2. CASE what = "failures"
  BY <1>1, <1>2, BoundsAssumption DEF Budget, NothingFailed
<1>3. CASE what = "crashes"
  BY <1>1, <1>3, BoundsAssumption DEF Budget, NothingFailed
<1>4. CASE what \in {"duplicates", "requests"}
  BY <1>1, <1>4, BoundsAssumption DEF Budget, NothingFailed
<1> QED
  BY <1>2, <1>3, <1>4

\* A step of one actor that had nothing to return and gets nothing to return.
LEMMA QuietReleases ==
    ASSUME TypeInv, NEW a \in Actors, NEW w, Becomes(a, w), w.pc # "restock",
           actor[a].pc # "restock" \/ actor[a].todo = {},
           UNCHANGED <<history, released>>, NothingFailed' => NothingFailed
    PROVE  ReleaseStep
<1>1. \A b \in Actors : GoesOn(b)
  BY Turn DEF GoesOn, Returning
<1> QED
  BY <1>1 DEF ReleaseStep

LEMMA IdleReleases ==
    ASSUME TypeInv, UNCHANGED <<actor, history, released>>, NothingFailed' => NothingFailed
    PROVE  ReleaseStep
  BY DEF ReleaseStep, GoesOn, Returning

\* A step of one actor that writes an order and goes on to return its stock, or
\* writes it without ending it.
LEMMA WritingReleases ==
    ASSUME TypeInv, NEW a \in Actors, NEW w, Becomes(a, w), actor[a].pc # "restock",
           NEW o \in Orders, NEW to \in Statuses, NEW origin \in Origins,
           NEW event \in Events \cup {Null},
           WriteStatus(o, to, origin, event), UNCHANGED <<released, left>>,
           to \in Terminal => w.pc = "restock" /\ w.order = o /\ w.todo = Items(o),
           to \notin Terminal => w.pc # "restock"
    PROVE  ReleaseStep
<1> DEFINE row == [to |-> to, actor |-> origin, event |-> event]
<1>1. row \in OrderEvent /\ row.to = to
  BY DEF OrderEvent
<1>2. Records(o, row)
  BY DEF WriteStatus, Records
<1> HIDE DEF row
<1>3. \A b \in Actors : b # a => GoesOn(b)
  BY Turn DEF GoesOn, Returning
<1>4. actor'[a] = w
  BY Turn
<1>5. to \notin Terminal => GoesOn(a)
  BY <1>4 DEF GoesOn, Returning
<1>6. ASSUME to \in Terminal PROVE Begins(a, o)
  <2>1. actor'[a].pc = "restock" /\ actor'[a].order = o /\ actor'[a].todo = Items(o)
    BY <1>4, <1>6
  <2>2. ASSUME NEW x \in Orders, NEW p \in Items(x) PROVE Returning(a, x, p)' = (x = o)
    BY <2>1 DEF Returning
  <2> QED
    BY <2>2 DEF Begins, Items
<1>7. NothingFailed' => NothingFailed
  BY DEF NothingFailed
<1>8. CASE to \in Terminal
  BY <1>1, <1>2, <1>3, <1>6, <1>7, <1>8 DEF ReleaseStep
<1>9. CASE to \notin Terminal
  BY <1>1, <1>2, <1>3, <1>5, <1>7, <1>9 DEF ReleaseStep
<1> QED
  BY <1>8, <1>9

LEMMA HookReleases ==
    ASSUME TypeInv, NEW h \in Hooks, HookStep(h)
    PROVE  ReleaseStep
<1>1. /\ h \in Actors /\ actor[h] \in Work /\ CarriedBy(h, actor[h])
      /\ actor[h].pc # "idle" => actor[h].event \in Events
  BY DEF TypeInv, TypeOK, CarriedBy, Actors
<1>2. ASSUME NEW lookup \in Lookups, VerifyTransaction(h, lookup)
      PROVE  ReleaseStep
  <2> DEFINE w == [actor[h] EXCEPT !.pc = "load", !.lookup = lookup]
  <2>1. w.pc = "load"
    BY <1>1 DEF Work
  <2>2. Becomes(h, w)
    BY <1>2 DEF VerifyTransaction
  <2> HIDE DEF w
  <2> QED
    BY <1>1, <1>2, <2>1, <2>2, QuietReleases DEF VerifyTransaction, rows, shelf, NothingFailed
<1>3. CASE Refuse(h)
  BY <1>1, <1>3, IdleType, QuietReleases DEF Refuse, rows, shelf, NothingFailed
<1>4. CASE Decide(h)
  <2> DEFINE o == OrderOf[actor[h].event[1]]
             to == IF actor[h].lookup = "approved" THEN "markAsPaid" ELSE "markAsCancelled"
             w == [actor[h] EXCEPT !.pc = to, !.order = o]
  <2>1. Becomes(h, w)
    BY <1>4 DEF Decide
  <2>2. to # "restock"
    OBVIOUS
  <2> HIDE DEF o, to
  <2>3. w.pc = to
    BY <1>1 DEF Work
  <2> HIDE DEF w
  <2> QED
    BY <1>1, <1>4, <2>1, <2>2, <2>3, QuietReleases DEF Decide, rows, shelf, NothingFailed
<1>5. CASE MarkAsPaid(h)
  <2>1. actor[h].order \in Orders /\ actor[h].event \in Events /\ actor[h].pc # "restock"
    BY <1>1, <1>5 DEF MarkAsPaid, CarriedBy
  <2>2. /\ WriteStatus(actor[h].order, "PAID", "payment_webhook", actor[h].event)
        /\ Becomes(h, Idle) /\ UNCHANGED <<released, left>>
    BY <1>5 DEF MarkAsPaid, shelf
  <2>3. "PAID" \in Statuses /\ "payment_webhook" \in Origins /\ "PAID" \notin Terminal
    BY DEF Statuses, Origins, Terminal
  <2> QED
    BY <1>1, <2>1, <2>2, <2>3, IdleType, WritingReleases
<1>6. CASE MarkAsCancelled(h)
  <2> DEFINE o == actor[h].order
             w == Restock(actor[h], o)
  <2>1. o \in Orders /\ actor[h].event \in Events /\ actor[h].pc # "restock"
    BY <1>1, <1>6 DEF MarkAsCancelled, CarriedBy
  <2>2. /\ WriteStatus(o, "CANCELLED", "payment_webhook", actor[h].event)
        /\ Becomes(h, w) /\ UNCHANGED <<released, left>>
    BY <1>6 DEF MarkAsCancelled, shelf
  <2>3. w.pc = "restock" /\ w.order = o /\ w.todo = Items(o)
    BY <1>1, <2>1, WorkType
  <2>4. "CANCELLED" \in Statuses /\ "payment_webhook" \in Origins /\ "CANCELLED" \in Terminal
    BY DEF Statuses, Origins, Terminal
  <2> HIDE DEF w, o
  <2> QED
    BY <1>1, <2>1, <2>2, <2>3, <2>4, WritingReleases
<1> QED
  BY <1>2, <1>3, <1>4, <1>5, <1>6 DEF HookStep

LEMMA JobReleases ==
    ASSUME TypeInv, NEW j \in Jobs, JobStep(j)
    PROVE  ReleaseStep
<1>1. j \in Actors /\ actor[j] \in Work
  BY DEF TypeInv, TypeOK, Actors
<1>2. CASE Tick(j)
  <2> DEFINE batch == Candidates
             w == [Idle EXCEPT !.pc = "sweep", !.batch = batch]
  <2>1. /\ Becomes(j, w) /\ actor[j].pc # "restock"
        /\ UNCHANGED <<history, released, left>>
    BY <1>2 DEF Tick, rows, shelf
  <2> HIDE DEF batch
  <2>2. w.pc = "sweep"
    BY IdleType DEF Work
  <2> HIDE DEF w
  <2> QED
    BY <1>1, <2>1, <2>2, QuietReleases DEF NothingFailed
<1>3. ASSUME NEW o \in Orders, ExpireNext(j, o)
      PROVE  ReleaseStep
  <2> DEFINE w == Restock(actor[j], o)
  <2>1. /\ WriteStatus(o, "EXPIRED", "expiry_or_admin", Null) /\ actor[j].pc # "restock"
        /\ Becomes(j, w) /\ UNCHANGED <<released, left>>
    BY <1>3 DEF ExpireNext, NextOfBatch, shelf
  <2>2. w.pc = "restock" /\ w.order = o /\ w.todo = Items(o)
    BY <1>1, WorkType
  <2> HIDE DEF w
  <2>3. "EXPIRED" \in Statuses /\ "expiry_or_admin" \in Origins /\ "EXPIRED" \in Terminal
    BY DEF Statuses, Origins, Terminal
  <2> QED
    BY <1>1, <2>1, <2>2, <2>3, WritingReleases
<1>4. ASSUME NEW o \in Orders, SkipNext(j, o)
      PROVE  ReleaseStep
  <2>1. Rest(actor[j], o).pc # "restock"
    BY <1>1, WorkType
  <2> QED
    BY <1>1, <1>4, <2>1, QuietReleases DEF SkipNext, NextOfBatch, rows, shelf, NothingFailed
<1> QED
  BY <1>2, <1>3, <1>4 DEF JobStep

LEMMA StaffReleases ==
    ASSUME TypeInv, NEW s \in Staff, StaffStep(s)
    PROVE  ReleaseStep
<1>1. s \in Actors /\ actor[s] \in Work /\ CarriedBy(s, actor[s])
  BY DEF TypeInv, TypeOK, Actors
<1>2. CASE TryCancelOrExpirePending(s)
  <2> DEFINE o == actor[s].order
             to == actor[s].target
             w == Restock(actor[s], o)
  <2>1. o \in Orders /\ to \in {"CANCELLED", "EXPIRED"} /\ actor[s].pc # "restock"
    BY <1>1, <1>2 DEF TryCancelOrExpirePending, CarriedBy
  <2>2. /\ WriteStatus(o, to, "expiry_or_admin", Null)
        /\ Becomes(s, w) /\ UNCHANGED <<released, left>>
    BY <1>2 DEF TryCancelOrExpirePending, shelf
  <2>3. w.pc = "restock" /\ w.order = o /\ w.todo = Items(o)
    BY <1>1, <2>1, WorkType
  <2>4. to \in Statuses /\ "expiry_or_admin" \in Origins /\ to \in Terminal
    BY <2>1 DEF Statuses, Origins, Terminal
  <2> HIDE DEF w, o, to
  <2> QED
    BY <1>1, <2>1, <2>2, <2>3, <2>4, WritingReleases
<1>3. CASE TransitionRefused(s)
  BY <1>1, <1>3, IdleType, QuietReleases DEF TransitionRefused, rows, shelf, NothingFailed
<1>4. CASE UpdateStatus(s)
  <2> DEFINE o == actor[s].order
             sell == [actor[s] EXCEPT !.pc = "createSale"]
             w == IF o \in Linked THEN sell ELSE Idle
  <2>1. o \in Orders /\ actor[s].pc # "restock"
    BY <1>1, <1>4 DEF UpdateStatus, CarriedBy
  <2>2. /\ WriteStatus(o, "PAID", "staff_api", Null)
        /\ Becomes(s, w) /\ UNCHANGED <<released, left>>
    BY <1>4 DEF UpdateStatus, shelf
  <2>3. sell.pc = "createSale"
    BY <1>1 DEF Work
  <2> HIDE DEF sell
  <2>4. w.pc # "restock"
    BY <2>3, IdleType
  <2>5. "PAID" \in Statuses /\ "staff_api" \in Origins /\ "PAID" \notin Terminal
    BY DEF Statuses, Origins, Terminal
  <2> HIDE DEF w, o
  <2> QED
    BY <1>1, <2>1, <2>2, <2>4, <2>5, WritingReleases
<1>5. CASE CreateSaleFromOrder(s)
  BY <1>1, <1>5, IdleType, QuietReleases DEF CreateSaleFromOrder, shelf, NothingFailed
<1> QED
  BY <1>2, <1>3, <1>4, <1>5 DEF StaffStep

\* The end of a return of stock: nothing was left to return.
LEMMA FinishReleases ==
    ASSUME TypeInv, NEW a \in Actors, FinishRestock(a), actor[a].todo = {},
           UNCHANGED <<history, released>>, NothingFailed' => NothingFailed
    PROVE  ReleaseStep
<1>1. Rest(actor[a], actor[a].order).pc # "restock"
  BY WorkType DEF TypeInv, TypeOK
<1> QED
  BY <1>1, QuietReleases DEF FinishRestock

LEMMA FailureReleases ==
    ASSUME TypeInv, Failure
    PROVE  ReleaseStep
<1>1. ASSUME NEW h \in Hooks, VerifyFails(h) PROVE ReleaseStep
  BY <1>1, IdleType, SpendFails, QuietReleases DEF VerifyFails, Actors, rows, shelf
<1>2. ASSUME NEW j \in Jobs, NEW o \in Orders, ExpireFails(j, o) PROVE ReleaseStep
  <2>1. j \in Actors /\ Rest(actor[j], o).pc # "restock"
    BY WorkType DEF TypeInv, TypeOK, Actors
  <2> QED
    BY <1>2, <2>1, SpendFails, QuietReleases DEF ExpireFails, NextOfBatch, rows, shelf
<1>3. ASSUME NEW s \in Staff, CreateSaleFails(s) PROVE ReleaseStep
  BY <1>3, IdleType, SpendFails, QuietReleases DEF CreateSaleFails, Actors, rows, shelf
<1>4. ASSUME NEW a \in Actors, MarkerFails(a) PROVE ReleaseStep
  BY <1>4, SpendFails, FinishReleases DEF MarkerFails, rows, shelf
<1>5. ASSUME NEW a \in Actors, NEW p \in Products, IncrementFails(a, p)
      PROVE  ReleaseStep
  <2> DEFINE todo == actor[a].todo \ {p}
             w == [actor[a] EXCEPT !.todo = todo, !.ok = FALSE]
  <2>1. Becomes(a, w) /\ actor[a].pc = "restock" /\ todo \subseteq actor[a].todo
    BY <1>5 DEF IncrementFails, Failed
  <2>2. actor[a] \in Work
    BY DEF TypeInv, TypeOK
  <2> HIDE DEF todo
  <2>3. w.order = actor[a].order /\ w.todo = todo
    BY <2>2 DEF Work
  <2> HIDE DEF w
  <2>4. \A b \in Actors : GivesUp(b)
    BY <2>1, <2>3, Turn DEF GivesUp, Returning
  <2>5. (NothingFailed' => NothingFailed) /\ ~NothingFailed'
    BY <1>5, SpendFails DEF IncrementFails
  <2> QED
    BY <1>5, <2>4, <2>5 DEF IncrementFails, ReleaseStep, rows, shelf
<1>6. ASSUME NEW a \in Actors, Crash(a) PROVE ReleaseStep
  <2>1. \A b \in Actors : GivesUp(b)
    BY <1>6, IdleType, Turn DEF Crash, GivesUp, Returning
  <2>2. (NothingFailed' => NothingFailed) /\ ~NothingFailed'
    BY <1>6, SpendFails DEF Crash
  <2> QED
    BY <1>6, <2>1, <2>2 DEF Crash, ReleaseStep, rows, shelf
<1> QED
  BY <1>1, <1>2, <1>3, <1>4, <1>5, <1>6 DEF Failure

LEMMA NextReleases == ASSUME TypeInv, [Next]_vars PROVE ReleaseStep
<1>1. ASSUME NEW o \in Orders, Customer(o) PROVE ReleaseStep
  <2>1. CASE Checkout(o)
    <3> DEFINE row == [to |-> "PENDING_PAYMENT", actor |-> "checkout", event |-> Null]
    <3>1. row \in OrderEvent /\ row.to \notin Terminal
      BY DEF OrderEvent, Statuses, Origins, Terminal
    <3>2. Records(o, row) /\ UNCHANGED <<released, actor, left>>
      BY <2>1 DEF Checkout, WriteStatus, Records
    <3> HIDE DEF row
    <3> QED
      BY <3>1, <3>2 DEF ReleaseStep, GoesOn, Returning, NothingFailed
  <2>2. CASE BecomeOverdue(o)
    BY <2>2, IdleReleases DEF BecomeOverdue, NothingFailed, rows, shelf
  <2> QED
    BY <1>1, <2>1, <2>2 DEF Customer
<1>2. ASSUME NEW y \in Payments, Buyer(y) PROVE ReleaseStep
  BY <1>2, IdleReleases DEF Buyer, Pay, Settle, NothingFailed, rows, shelf
<1>3. ASSUME NEW e \in Events, Delivery(e) PROVE ReleaseStep
  <2>1. PICK h \in Hooks : Claim(h, e) \/ AlreadyProcessed(h, e)
    BY <1>3 DEF Delivery
  <2>2. (NothingFailed' => NothingFailed) /\ actor[h].pc = "idle"
    BY <2>1, SpendFails DEF Claim, AlreadyProcessed, Deliver, NothingFailed
  <2>3. CASE Claim(h, e)
    <3>1. [Idle EXCEPT !.pc = "verify", !.event = e].pc # "restock"
      BY IdleType DEF Work
    <3> QED
      BY <2>2, <2>3, <3>1, QuietReleases DEF Claim, Actors, rows, shelf
  <2>4. CASE AlreadyProcessed(h, e)
    BY <2>2, <2>4, IdleReleases DEF AlreadyProcessed, rows, shelf
  <2> QED
    BY <2>1, <2>3, <2>4
<1>4. ASSUME NEW s \in Staff, NEW o \in Orders, NEW target, Request(s, o, target)
      PROVE  ReleaseStep
  <2> DEFINE pc == IF target = "PAID" THEN "updateStatus" ELSE "transition"
             w == [Idle EXCEPT !.pc = pc, !.order = o, !.target = target]
  <2>1. Becomes(s, w) /\ s \in Actors /\ actor[s].pc # "restock" /\ Spend("requests")
    BY <1>4 DEF Request, Actors
  <2>2. pc # "restock"
    OBVIOUS
  <2> HIDE DEF pc
  <2>3. w.pc = pc
    BY IdleType DEF Work
  <2> HIDE DEF w
  <2>4. NothingFailed' => NothingFailed
    BY <2>1, SpendFails
  <2> QED
    BY <1>4, <2>1, <2>2, <2>3, <2>4, QuietReleases DEF Request, rows, shelf
<1>5. ASSUME NEW a \in Actors, RestockStep(a) PROVE ReleaseStep
  <2>1. ASSUME NEW p \in Products, IncrementStock(a, p) PROVE ReleaseStep
    BY <2>1 DEF IncrementStock, ReleaseStep, NothingFailed
  <2>2. CASE MarkStockRestored(a)
    BY <2>2, FinishReleases DEF MarkStockRestored, NothingFailed, rows
  <2>3. CASE LeaveUnmarked(a)
    BY <2>3, FinishReleases DEF LeaveUnmarked, NothingFailed, rows, shelf
  <2> QED
    BY <1>5, <2>1, <2>2, <2>3 DEF RestockStep
<1>6. CASE UNCHANGED vars
  BY <1>6, IdleReleases DEF vars, NothingFailed
<1> QED
  BY <1>1, <1>2, <1>3, <1>4, <1>5, <1>6, HookReleases, JobReleases, StaffReleases,
     FailureReleases DEF Next

LEMMA ReleaseInit == Init => ReleaseInv
<1> SUFFICES ASSUME Init, NEW o \in Orders, NEW p \in Items(o) PROVE Balanced(o, p)
  BY DEF ReleaseInv
<1>1. Underway(o, p) = {}
  BY IdleType DEF Init, Underway, Returning
<1>2. Written(o) = {}
  BY DEF Init, Written
<1>3. released[o][p] = 0
  BY DEF Init, Items
<1> QED
  BY <1>1, <1>2, <1>3, FS_EmptySet DEF Balanced

LEMMA WrittenFinite ==
    ASSUME TypeInv, NEW o \in Orders
    PROVE  IsFiniteSet(Written(o)) /\ Cardinality(Written(o)) \in Nat
<1>1. Len(history[o]) \in Nat
  BY DEF TypeInv, TypeOK
<1>2. IsFiniteSet(1..Len(history[o]))
  BY <1>1, FS_Interval
<1> QED
  BY <1>2, FS_Subset, FS_CardinalityType DEF Written

\* A row written for x is counted for x if it cancels or expires it.
LEMMA WrittenGrows ==
    ASSUME TypeInv, NEW x \in Orders, NEW row \in OrderEvent, Records(x, row),
           NEW o \in Orders
    PROVE  Cardinality(Written(o)')
             = Cardinality(Written(o)) + (IF o = x /\ row.to \in Terminal THEN 1 ELSE 0)
<1> DEFINE n == Len(history[x])
<1>1. history[x] \in Seq(OrderEvent) /\ history \in [Orders -> Seq(OrderEvent)] /\ n \in Nat
  BY DEF TypeInv, TypeOK
<1>2. /\ history'[x] = Append(history[x], row)
      /\ \A y \in Orders : y # x => history'[y] = history[y]
  BY <1>1 DEF Records
<1>3. CASE o # x
  <2>1. Written(o)' = Written(o)
    BY <1>2, <1>3 DEF Written
  <2> QED
    BY <1>3, <2>1, WrittenFinite
<1>4. CASE o = x
  <2>1. /\ Len(history'[x]) = n + 1 /\ history'[x][n + 1] = row
        /\ \A i \in 1..n : history'[x][i] = history[x][i]
    BY <1>1, <1>2
  <2>2. 1..(n + 1) = (1..n) \cup {n + 1} /\ n + 1 \notin 1..n
    BY <1>1
  <2>3. n + 1 \notin Written(x)
    BY <2>2 DEF Written
  <2>4. Written(x)' = IF row.to \in Terminal THEN Written(x) \cup {n + 1} ELSE Written(x)
    BY <2>1, <2>2 DEF Written
  <2>5. Cardinality(Written(x) \cup {n + 1}) = Cardinality(Written(x)) + 1
    BY <2>3, WrittenFinite, FS_AddElement
  <2> QED
    BY <1>4, <2>4, <2>5, WrittenFinite
<1> QED
  BY <1>3, <1>4

LEMMA ReleaseInvStep ==
    ASSUME TypeInv, ReleaseInv, ReleaseStep
    PROVE  ReleaseInv'
<1> SUFFICES ASSUME NEW o \in Orders, NEW p \in Items(o) PROVE Balanced(o, p)'
  BY DEF ReleaseInv, Items
<1> DEFINE there == Underway(o, p)
<1>1. /\ p \in Products /\ released[o][p] \in Nat /\ Balanced(o, p)
      /\ IsFiniteSet(there) /\ Cardinality(there) \in Nat
      /\ Cardinality(Written(o)) \in Nat
  BY WrittenFinite, FS_CardinalityType DEF ReleaseInv, Balanced, Items, TypeInv, TypeOK
<1>2. NothingFailed' => NothingFailed
  BY DEF ReleaseStep
<1>3. CASE UNCHANGED <<history, released>> /\ \A a \in Actors : GoesOn(a)
  <2>1. Underway(o, p)' = Underway(o, p)
    BY <1>1, <1>3 DEF GoesOn, Underway
  <2>2. Written(o)' = Written(o)
    BY <1>3 DEF Written
  <2> QED
    BY <1>1, <1>2, <1>3, <2>1, <2>2 DEF Balanced
<1>4. CASE UNCHANGED <<history, released>> /\ (\A a \in Actors : GivesUp(a)) /\ ~NothingFailed'
  <2>1. Underway(o, p)' \subseteq Underway(o, p)
    BY <1>1, <1>4 DEF GivesUp, Underway
  <2>2. Written(o)' = Written(o)
    BY <1>4 DEF Written
  <2>3. /\ IsFiniteSet(Underway(o, p)') /\ Cardinality(Underway(o, p)') \in Nat
        /\ Cardinality(Underway(o, p)') <= Cardinality(there)
    BY <1>1, <2>1, FS_Subset, FS_CardinalityType
  <2> QED
    BY <1>1, <1>4, <2>2, <2>3 DEF Balanced
<1>5. ASSUME NEW x \in Orders, NEW row \in OrderEvent, Records(x, row), UNCHANGED released,
             \/ row.to \notin Terminal /\ \A a \in Actors : GoesOn(a)
             \/ /\ row.to \in Terminal
                /\ \E a \in Actors : Begins(a, x) /\ \A b \in Actors \ {a} : GoesOn(b)
      PROVE  Balanced(o, p)'
  <2>1. Cardinality(Written(o)')
          = Cardinality(Written(o)) + (IF o = x /\ row.to \in Terminal THEN 1 ELSE 0)
    BY <1>5, WrittenGrows
  <2>2. CASE row.to \notin Terminal /\ \A a \in Actors : GoesOn(a)
    <3>1. Underway(o, p)' = Underway(o, p)
      BY <1>1, <2>2 DEF GoesOn, Underway
    <3> QED
      BY <1>1, <1>2, <1>5, <2>1, <2>2, <3>1 DEF Balanced
  <2>3. ASSUME row.to \in Terminal, NEW a \in Actors, Begins(a, x),
               \A b \in Actors \ {a} : GoesOn(b)
        PROVE  Balanced(o, p)'
    <3>1. a \notin there
      BY <2>3 DEF Begins, Underway, Returning
    <3>2. Underway(o, p)' = IF o = x THEN there \cup {a} ELSE there
      BY <1>1, <2>3, <3>1 DEF GoesOn, Begins, Underway
    <3>3. IsFiniteSet(there \cup {a}) /\ Cardinality(there \cup {a}) = Cardinality(there) + 1
      BY <1>1, <3>1, FS_AddElement
    <3> HIDE DEF there
    <3>4. CASE o = x
      BY <1>1, <1>2, <1>5, <2>1, <2>3, <3>2, <3>3, <3>4 DEF Balanced, there
    <3>5. CASE o # x
      BY <1>1, <1>2, <1>5, <2>1, <2>3, <3>2, <3>5 DEF Balanced, there
    <3> QED
      BY <3>4, <3>5
  <2> QED
    BY <1>5, <2>2, <2>3
<1>6. ASSUME NEW a \in Actors, NEW q \in Products, IncrementStock(a, q)
      PROVE  Balanced(o, p)'
  <2> DEFINE x == actor[a].order
             todo == actor[a].todo \ {q}
             w == [actor[a] EXCEPT !.todo = todo]
  <2>1. /\ x \in Orders /\ actor[a] \in Work /\ actor[a].pc = "restock"
        /\ q \in actor[a].todo /\ released \in [Orders -> [Products -> Nat]]
    BY <1>6 DEF IncrementStock, TypeInv, TypeOK, CarriedBy
  <2>2. released' = [released EXCEPT ![x] = [released[x] EXCEPT ![q] = released[x][q] + 1]]
    BY <1>6 DEF IncrementStock
  <2>3. Becomes(a, w) /\ UNCHANGED <<history, left>>
    BY <1>6 DEF IncrementStock, rows
  <2>4. w.pc = "restock" /\ w.order = x /\ w.todo = todo
    BY <2>1 DEF Work
  <2> HIDE DEF w
  <2>5. /\ actor'[a].pc = "restock" /\ actor'[a].order = x /\ actor'[a].todo = todo
        /\ \A b \in Actors : b # a => actor'[b] = actor[b]
    BY <2>3, <2>4, Turn
  <2>6. Written(o)' = Written(o) /\ NothingFailed' = NothingFailed
    BY <2>3 DEF Written, NothingFailed
  <2>7. CASE o = x /\ p = q
    <3>1. a \in there
      BY <2>1, <2>7 DEF Underway, Returning
    <3>2. Underway(o, p)' = there \ {a}
      BY <2>5, <2>7 DEF Underway, Returning
    <3>3. /\ IsFiniteSet(there \ {a})
          /\ Cardinality(there \ {a}) = Cardinality(there) - 1
      BY <1>1, <3>1, FS_RemoveElement
    <3>4. released'[o][p] = released[o][p] + 1
      BY <2>1, <2>2, <2>7
    <3> HIDE DEF x, todo
    <3> QED
      BY <1>1, <2>6, <3>2, <3>3, <3>4 DEF Balanced
  <2>8. CASE ~(o = x /\ p = q)
    <3>1. \A b \in Actors : Returning(b, o, p)' = Returning(b, o, p)
      BY <2>1, <2>5, <2>8 DEF Returning
    <3>2. Underway(o, p)' = Underway(o, p)
      BY <3>1 DEF Underway
    <3>3. released'[o][p] = released[o][p]
      BY <1>1, <2>1, <2>2, <2>8
    <3> QED
      BY <1>1, <2>6, <3>2, <3>3 DEF Balanced
  <2> QED
    BY <2>7, <2>8
<1> QED
  BY <1>3, <1>4, <1>5, <1>6 DEF ReleaseStep

LEMMA ReleaseInvariant == Spec => [](TypeInv /\ ReleaseInv)
<1>1. TypeInv /\ ReleaseInv /\ [Next]_vars => TypeInv' /\ ReleaseInv'
  BY TypeStep, NextReleases, ReleaseInvStep
<1> QED
  BY <1>1, InitType, ReleaseInit, PTL DEF Spec

\* Stock goes back to the shelf only for a cancellation or an expiry that was
\* written, at most once per item of each, however many deliveries, sweeps and
\* requests return the stock of the same order at a time; and as long as no call
\* failed and nobody crashed, nothing of it is left out.
THEOREM ReleasesMatch == Spec => []ReleasesMatchEvents
<1>1. ReleaseInv => ReleasesMatchEvents
  BY DEF ReleaseInv, Balanced, ReleasesMatchEvents, Written, Underway, Returning,
         Terminal, NothingFailed
<1> QED
  BY <1>1, ReleaseInvariant, PTL

-----------------------------------------------------------------------------
(* Conservation of the stock.  What is on the shelf and what the orders     *)
(* hold add up to the initial stock: an order holds its units from its      *)
(* checkout on, less those that came back, which may be more than it held.  *)

Begun == {o \in Orders : status[o] # "none"}

\* The units of p that each order holds.
Holds(p) == [o \in Orders |-> Quantity[o][p] * (1 - released[o][p])]

\* The rows of an order begin with its checkout and end with its status.
RowsFit(o) ==
    IF status[o] = "none" THEN Len(history[o]) = 0
    ELSE /\ Len(history[o]) > 0
         /\ history[o][1].to = "PENDING_PAYMENT"
         /\ history[o][Len(history[o])].to = status[o]

\* An actor that will write an order without asking for its status has seen it.
Unguarded == {"markAsPaid", "markAsCancelled", "updateStatus"}
SeesOrder(a) == actor[a].pc \in Unguarded => status[actor[a].order] # "none"

Conserved(p) ==
    /\ stock[p] \in Nat
    /\ stock[p] + SumFunctionOnSet(Holds(p), Begun) = InitialStock[p]

StockInv ==
    /\ IsFiniteSet(Begun)
    /\ \A o \in Orders : RowsFit(o)
    /\ \A a \in Actors : SeesOrder(a)
    /\ \A p \in Products : Conserved(p)

\* What a step does to an actor: it gets to an unguarded write only from a read.
Looks(a) ==
    actor'[a].pc \in Unguarded =>
      \/ actor[a].pc \in Unguarded /\ actor'[a].order = actor[a].order
      \/ status[actor'[a].order] # "none"

LEMMA LooksBy ==
    ASSUME TypeInv, NEW a \in Actors, NEW w, Becomes(a, w),
           w.pc \in Unguarded => status[w.order] # "none"
    PROVE  \A b \in Actors : Looks(b)
  BY Turn DEF Looks

LEMMA HookLooks ==
    ASSUME TypeInv, NEW h \in Hooks, HookStep(h)
    PROVE  \A b \in Actors : Looks(b)
<1>1. /\ h \in Actors /\ actor[h] \in Work /\ CarriedBy(h, actor[h])
  BY DEF TypeInv, TypeOK, Actors
<1>2. ASSUME NEW lookup \in Lookups, VerifyTransaction(h, lookup)
      PROVE  \A b \in Actors : Looks(b)
  <2> DEFINE w == [actor[h] EXCEPT !.pc = "load", !.lookup = lookup]
  <2>1. w.pc = "load" /\ "load" \notin Unguarded
    BY <1>1 DEF Work, Unguarded
  <2>2. Becomes(h, w)
    BY <1>2 DEF VerifyTransaction
  <2> HIDE DEF w
  <2> QED
    BY <1>1, <2>1, <2>2, LooksBy
<1>3. CASE Refuse(h) \/ MarkAsPaid(h)
  BY <1>1, <1>3, IdleType, LooksBy DEF Refuse, MarkAsPaid, Unguarded
<1>4. CASE Decide(h)
  <2> DEFINE o == OrderOf[actor[h].event[1]]
             to == IF actor[h].lookup = "approved" THEN "markAsPaid" ELSE "markAsCancelled"
             w == [actor[h] EXCEPT !.pc = to, !.order = o]
  <2>1. Becomes(h, w)
    BY <1>4 DEF Decide
  <2>2. Pending(o)
    <3>1. Refusal(h) = "none"
      BY <1>4 DEF Decide
    <3>2. Refusal(h) = CASE actor[h].lookup = "missing" -> "order_not_found"
                         [] ~Pending(o) -> "order_not_pending"
                         [] actor[h].lookup = "pending" -> "pending"
                         [] actor[h].lookup = "mismatched" -> "amount_mismatch"
                         [] OTHER -> "none"
      BY DEF Refusal
    <3> HIDE DEF o, w, to
    <3>3. ~Pending(o) => Refusal(h) \in {"order_not_found", "order_not_pending", "pending",
                                       "amount_mismatch"}
      BY <3>2
    <3> QED
      BY <3>1, <3>3
  <2> HIDE DEF o, to
  <2>3. w.order = o
    BY <1>1 DEF Work
  <2> HIDE DEF w
  <2>4. status[w.order] # "none"
    BY <2>2, <2>3 DEF Pending
  <2> QED
    BY <1>1, <2>1, <2>4, LooksBy
<1>5. CASE MarkAsCancelled(h)
  <2> DEFINE w == Restock(actor[h], actor[h].order)
  <2>1. Becomes(h, w) /\ actor[h].order \in Orders
    BY <1>1, <1>5 DEF MarkAsCancelled, CarriedBy
  <2>2. w.pc \notin Unguarded
    BY <1>1, <2>1, WorkType DEF Unguarded
  <2> HIDE DEF w
  <2> QED
    BY <1>1, <2>1, <2>2, LooksBy
<1> QED
  BY <1>2, <1>3, <1>4, <1>5 DEF HookStep

LEMMA JobLooks ==
    ASSUME TypeInv, NEW j \in Jobs, JobStep(j)
    PROVE  \A b \in Actors : Looks(b)
<1>1. j \in Actors /\ actor[j] \in Work
  BY DEF TypeInv, TypeOK, Actors
<1>2. CASE Tick(j)
  <2> DEFINE batch == Candidates
             w == [Idle EXCEPT !.pc = "sweep", !.batch = batch]
  <2>1. Becomes(j, w)
    BY <1>2 DEF Tick
  <2> HIDE DEF batch
  <2>2. w.pc \notin Unguarded
    BY IdleType DEF Work, Unguarded
  <2> HIDE DEF w
  <2> QED
    BY <1>1, <2>1, <2>2, LooksBy
<1>3. ASSUME NEW o \in Orders, ExpireNext(j, o)
      PROVE  \A b \in Actors : Looks(b)
  <2> DEFINE w == Restock(actor[j], o)
  <2>1. Becomes(j, w)
    BY <1>3 DEF ExpireNext
  <2>2. w.pc \notin Unguarded
    BY <1>1, WorkType DEF Unguarded
  <2> HIDE DEF w
  <2> QED
    BY <1>1, <2>1, <2>2, LooksBy
<1>4. ASSUME NEW o \in Orders, SkipNext(j, o)
      PROVE  \A b \in Actors : Looks(b)
  <2>1. Rest(actor[j], o).pc \notin Unguarded
    BY <1>1, WorkType DEF Unguarded
  <2> QED
    BY <1>1, <1>4, <2>1, LooksBy DEF SkipNext
<1> QED
  BY <1>2, <1>3, <1>4 DEF JobStep

LEMMA StaffLooks ==
    ASSUME TypeInv, NEW s \in Staff, StaffStep(s)
    PROVE  \A b \in Actors : Looks(b)
<1>1. s \in Actors /\ actor[s] \in Work /\ CarriedBy(s, actor[s])
  BY DEF TypeInv, TypeOK, Actors
<1>2. CASE TryCancelOrExpirePending(s)
  <2> DEFINE w == Restock(actor[s], actor[s].order)
  <2>1. Becomes(s, w) /\ actor[s].order \in Orders
    BY <1>1, <1>2 DEF TryCancelOrExpirePending, CarriedBy
  <2>2. w.pc \notin Unguarded
    BY <1>1, <2>1, WorkType DEF Unguarded
  <2> HIDE DEF w
  <2> QED
    BY <1>1, <2>1, <2>2, LooksBy
<1>3. CASE UpdateStatus(s)
  <2> DEFINE sell == [actor[s] EXCEPT !.pc = "createSale"]
             w == IF actor[s].order \in Linked THEN sell ELSE Idle
  <2>1. Becomes(s, w)
    BY <1>3 DEF UpdateStatus
  <2>2. sell.pc = "createSale"
    BY <1>1 DEF Work
  <2> HIDE DEF sell
  <2>3. w.pc \notin Unguarded
    BY <2>2, IdleType DEF Unguarded
  <2> HIDE DEF w
  <2> QED
    BY <1>1, <2>1, <2>3, LooksBy
<1>4. CASE TransitionRefused(s) \/ CreateSaleFromOrder(s)
  BY <1>1, <1>4, IdleType, LooksBy DEF TransitionRefused, CreateSaleFromOrder, Unguarded
<1> QED
  BY <1>2, <1>3, <1>4 DEF StaffStep

LEMMA RestockLooks ==
    ASSUME TypeInv, NEW a \in Actors, RestockStep(a) \/ MarkerFails(a)
    PROVE  \A b \in Actors : Looks(b)
<1>1. actor[a] \in Work /\ Rest(actor[a], actor[a].order).pc \notin Unguarded
  <2>1. actor[a] \in Work
    BY DEF TypeInv, TypeOK
  <2>2. Rest(actor[a], actor[a].order).pc \in {"idle", "sweep"}
    BY <2>1, WorkType
  <2> QED
    BY <2>1, <2>2 DEF Unguarded
<1>2. ASSUME NEW p \in Products, IncrementStock(a, p)
      PROVE  \A b \in Actors : Looks(b)
  <2> DEFINE todo == actor[a].todo \ {p}
             w == [actor[a] EXCEPT !.todo = todo]
  <2>1. Becomes(a, w)
    BY <1>2 DEF IncrementStock
  <2> HIDE DEF todo
  <2>2. w.pc \notin Unguarded
    BY <1>1, <1>2 DEF Work, IncrementStock, Unguarded
  <2> HIDE DEF w
  <2> QED
    BY <2>1, <2>2, LooksBy
<1>3. CASE MarkStockRestored(a) \/ LeaveUnmarked(a) \/ MarkerFails(a)
  BY <1>1, <1>3, LooksBy DEF MarkStockRestored, LeaveUnmarked, MarkerFails, FinishRestock
<1> QED
  BY <1>2, <1>3 DEF RestockStep

LEMMA FailureLooks ==
    ASSUME TypeInv, Failure
    PROVE  \A b \in Actors : Looks(b)
<1>1. ASSUME NEW h \in Hooks, VerifyFails(h) PROVE \A b \in Actors : Looks(b)
  BY <1>1, IdleType, LooksBy DEF VerifyFails, Actors, Unguarded
<1>2. ASSUME NEW j \in Jobs, NEW o \in Orders, ExpireFails(j, o)
      PROVE  \A b \in Actors : Looks(b)
  <2>1. j \in Actors /\ Rest(actor[j], o).pc \notin Unguarded
    BY WorkType DEF TypeInv, TypeOK, Actors, Unguarded
  <2> QED
    BY <1>2, <2>1, LooksBy DEF ExpireFails
<1>3. ASSUME NEW s \in Staff, CreateSaleFails(s) PROVE \A b \in Actors : Looks(b)
  BY <1>3, IdleType, LooksBy DEF CreateSaleFails, Actors, Unguarded
<1>4. ASSUME NEW a \in Actors, NEW p \in Products, IncrementFails(a, p)
      PROVE  \A b \in Actors : Looks(b)
  <2> DEFINE todo == actor[a].todo \ {p}
             w == [actor[a] EXCEPT !.todo = todo, !.ok = FALSE]
  <2>1. Becomes(a, w) /\ actor[a] \in Work /\ actor[a].pc = "restock"
    BY <1>4 DEF IncrementFails, Failed, TypeInv, TypeOK
  <2> HIDE DEF todo
  <2>2. w.pc \notin Unguarded
    BY <2>1 DEF Work, Unguarded
  <2> HIDE DEF w
  <2> QED
    BY <2>1, <2>2, LooksBy
<1>5. ASSUME NEW a \in Actors, Crash(a) PROVE \A b \in Actors : Looks(b)
  BY <1>5, IdleType, LooksBy DEF Crash, Unguarded
<1> QED
  BY <1>1, <1>2, <1>3, <1>4, <1>5, RestockLooks DEF Failure

LEMMA NextLooks == ASSUME TypeInv, [Next]_vars PROVE \A b \in Actors : Looks(b)
<1>1. CASE UNCHANGED actor
  BY <1>1 DEF Looks
<1>2. ASSUME NEW e \in Events, Delivery(e) PROVE \A b \in Actors : Looks(b)
  <2>1. PICK h \in Hooks : Claim(h, e) \/ AlreadyProcessed(h, e)
    BY <1>2 DEF Delivery
  <2>2. CASE Claim(h, e)
    <3>1. [Idle EXCEPT !.pc = "verify", !.event = e].pc \notin Unguarded
      BY IdleType DEF Work, Unguarded
    <3> QED
      BY <2>2, <3>1, LooksBy DEF Claim, Actors
  <2>3. CASE AlreadyProcessed(h, e)
    BY <1>1, <2>3 DEF AlreadyProcessed
  <2> QED
    BY <2>1, <2>2, <2>3
<1>3. ASSUME NEW s \in Staff, NEW o \in Orders, NEW target, Request(s, o, target)
      PROVE  \A b \in Actors : Looks(b)
  <2> DEFINE pc == IF target = "PAID" THEN "updateStatus" ELSE "transition"
             w == [Idle EXCEPT !.pc = pc, !.order = o, !.target = target]
  <2>1. Becomes(s, w) /\ s \in Actors /\ status[o] # "none"
    BY <1>3 DEF Request, Actors
  <2> HIDE DEF pc
  <2>2. w.order = o
    BY IdleType DEF Work
  <2> HIDE DEF w
  <2> QED
    BY <2>1, <2>2, LooksBy
<1>4. ASSUME NEW o \in Orders, Customer(o) PROVE UNCHANGED actor
  BY <1>4 DEF Customer, Checkout, BecomeOverdue
<1>5. ASSUME NEW y \in Payments, Buyer(y) PROVE UNCHANGED actor
  BY <1>5 DEF Buyer, Pay, Settle
<1>6. CASE UNCHANGED vars
  BY <1>6, <1>1 DEF vars
<1> QED
  BY <1>1, <1>2, <1>3, <1>4, <1>5, <1>6, HookLooks, JobLooks, StaffLooks, RestockLooks,
     FailureLooks DEF Next

\* Only a checkout and a return of stock move it.
LEMMA NextStock ==
    ASSUME [Next]_vars
    PROVE  \/ UNCHANGED <<stock, released>>
           \/ \E o \in Orders : Checkout(o)
           \/ \E a \in Actors, p \in Products : IncrementStock(a, p)
<1>1. ASSUME NEW o \in Orders, Customer(o)
      PROVE  UNCHANGED <<stock, released>> \/ Checkout(o)
  BY <1>1 DEF Customer, BecomeOverdue, shelf
<1>2. ASSUME NEW y \in Payments, Buyer(y) PROVE UNCHANGED <<stock, released>>
  BY <1>2 DEF Buyer, Pay, Settle, shelf
<1>3. ASSUME NEW e \in Events, Delivery(e) PROVE UNCHANGED <<stock, released>>
  BY <1>3 DEF Delivery, Claim, AlreadyProcessed, shelf
<1>4. ASSUME NEW h \in Hooks, HookStep(h) PROVE UNCHANGED <<stock, released>>
  BY <1>4 DEF HookStep, VerifyTransaction, Refuse, Decide, MarkAsPaid, MarkAsCancelled, shelf
<1>5. ASSUME NEW j \in Jobs, JobStep(j) PROVE UNCHANGED <<stock, released>>
  BY <1>5 DEF JobStep, Tick, ExpireNext, SkipNext, shelf
<1>6. ASSUME NEW s \in Staff, NEW o \in Orders, NEW target, Request(s, o, target)
      PROVE  UNCHANGED <<stock, released>>
  BY <1>6 DEF Request, shelf
<1>7. ASSUME NEW s \in Staff, StaffStep(s) PROVE UNCHANGED <<stock, released>>
  BY <1>7 DEF StaffStep, TryCancelOrExpirePending, TransitionRefused, UpdateStatus,
              CreateSaleFromOrder, shelf
<1>8. ASSUME NEW a \in Actors, RestockStep(a)
      PROVE  UNCHANGED <<stock, released>> \/ \E p \in Products : IncrementStock(a, p)
  BY <1>8 DEF RestockStep, MarkStockRestored, LeaveUnmarked, shelf
<1>9. ASSUME Failure PROVE UNCHANGED <<stock, released>>
  BY <1>9 DEF Failure, VerifyFails, ExpireFails, CreateSaleFails, MarkerFails,
              IncrementFails, Crash, shelf
<1>10. CASE UNCHANGED vars
  BY <1>10 DEF vars
<1> QED
  BY <1>1, <1>2, <1>3, <1>4, <1>5, <1>6, <1>7, <1>8, <1>9, <1>10 DEF Next

LEMMA StockInit == Init => StockInv
<1> SUFFICES ASSUME Init PROVE StockInv
  OBVIOUS
<1>1. Begun = {}
  BY DEF Init, Begun
<1>2. \A o \in Orders : RowsFit(o)
  BY DEF Init, RowsFit
<1>3. \A a \in Actors : SeesOrder(a)
  BY IdleType DEF Init, SeesOrder, Unguarded
<1>4. ASSUME NEW p \in Products PROVE Conserved(p)
  <2>1. stock[p] = InitialStock[p] /\ stock[p] \in Nat
    BY OrdersAssumption DEF Init
  <2>2. SumFunctionOnSet(Holds(p), {}) = 0
    BY SumEmpty
  <2> QED
    BY <1>1, <2>1, <2>2 DEF Conserved
<1> QED
  BY <1>1, <1>2, <1>3, <1>4, FS_EmptySet DEF StockInv

\* An order that is written keeps rows that fit, and stays begun.
LEMMA WriteKeepsRows ==
    ASSUME TypeInv, NEW o \in Orders, NEW to \in Statuses, NEW origin \in Origins,
           NEW event \in Events \cup {Null}, WriteStatus(o, to, origin, event),
           to # "none", \A x \in Orders : RowsFit(x),
           status[o] = "none" => to = "PENDING_PAYMENT"
    PROVE  /\ \A x \in Orders : RowsFit(x)'
           /\ \A x \in Orders : status'[x] = IF x = o THEN to ELSE status[x]
<1> DEFINE row == [to |-> to, actor |-> origin, event |-> event]
           n == Len(history[o])
<1>1. history[o] \in Seq(OrderEvent) /\ row \in OrderEvent /\ row.to = to
  BY DEF TypeInv, TypeOK, OrderEvent
<1>2. /\ status' = [status EXCEPT ![o] = to]
      /\ history' = [history EXCEPT ![o] = Append(history[o], row)]
  BY DEF WriteStatus
<1> HIDE DEF row
<1>3. /\ \A x \in Orders : status'[x] = IF x = o THEN to ELSE status[x]
      /\ history'[o] = Append(history[o], row)
      /\ \A x \in Orders : x # o => history'[x] = history[x]
  BY <1>2 DEF TypeInv, TypeOK
<1>4. /\ n \in Nat /\ Len(history'[o]) = n + 1 /\ history'[o][n + 1] = row
      /\ \A i \in 1..n : history'[o][i] = history[o][i]
  BY <1>1, <1>3
<1>5. RowsFit(o)'
  <2>1. CASE n = 0
    <3>1. status[o] = "none"
      BY <2>1 DEF RowsFit
    <3> QED
      BY <1>1, <1>3, <1>4, <2>1, <3>1 DEF RowsFit
  <2>2. CASE n > 0
    <3>1. history[o][1].to = "PENDING_PAYMENT" /\ 1 \in 1..n
      BY <1>4, <2>2 DEF RowsFit
    <3> HIDE DEF n
    <3> QED
      BY <1>1, <1>3, <1>4, <2>2, <3>1 DEF RowsFit
  <2> QED
    BY <1>4, <2>1, <2>2
<1>6. ASSUME NEW x \in Orders, x # o PROVE RowsFit(x)'
  BY <1>3, <1>6 DEF RowsFit
<1> QED
  BY <1>3, <1>5, <1>6

\* Every write begins an order or finds it begun.
LEMMA OrdersStayBegun ==
    ASSUME TypeInv, OrderInv, StockInv, [Next]_vars
    PROVE  /\ \A o \in Orders : RowsFit(o)'
           /\ \A o \in Orders : status[o] # "none" => status'[o] # "none"
           /\ \/ Begun' = Begun
              \/ \E o \in Orders : Checkout(o)
<1> DEFINE Goal == /\ \A o \in Orders : RowsFit(o)'
                   /\ \A o \in Orders : status[o] # "none" => status'[o] # "none"
                   /\ \/ Begun' = Begun
                      \/ \E o \in Orders : Checkout(o)
<1>1. CASE UNCHANGED <<status, history>>
  BY <1>1 DEF StockInv, RowsFit, Begun
<1>2. ASSUME NEW o \in Orders, NEW to \in Statuses, NEW origin \in Origins,
             NEW event \in Events \cup {Null}, WriteStatus(o, to, origin, event),
             to # "none", status[o] # "none"
      PROVE  Goal
  <2>1. /\ \A x \in Orders : RowsFit(x)'
        /\ \A x \in Orders : status'[x] = IF x = o THEN to ELSE status[x]
    BY <1>2, WriteKeepsRows DEF StockInv
  <2> QED
    BY <1>2, <2>1 DEF Begun
<1>3. ASSUME NEW o \in Orders, Checkout(o) PROVE Goal
  <2>1. /\ WriteStatus(o, "PENDING_PAYMENT", "checkout", Null) /\ status[o] = "none"
        /\ "PENDING_PAYMENT" \in Statuses /\ "checkout" \in Origins
    BY <1>3 DEF Checkout, Statuses, Origins
  <2>2. /\ \A x \in Orders : RowsFit(x)'
        /\ \A x \in Orders : status'[x] = IF x = o THEN "PENDING_PAYMENT" ELSE status[x]
    BY <2>1, WriteKeepsRows DEF StockInv
  <2> QED
    BY <1>3, <2>2
<1>4. ASSUME NEW h \in Hooks, MarkAsPaid(h) \/ MarkAsCancelled(h) PROVE Goal
  <2>1. /\ actor[h].order \in Orders /\ actor[h].event \in Events
        /\ status[actor[h].order] # "none"
    BY <1>4 DEF MarkAsPaid, MarkAsCancelled, TypeInv, CarriedBy, StockInv, SeesOrder,
                Unguarded, Actors
  <2>2. {"PAID", "CANCELLED"} \subseteq Statuses \ {"none"} /\ "payment_webhook" \in Origins
    BY DEF Statuses, Origins
  <2>3. PICK to \in {"PAID", "CANCELLED"} :
          WriteStatus(actor[h].order, to, "payment_webhook", actor[h].event)
    BY <1>4 DEF MarkAsPaid, MarkAsCancelled
  <2> QED
    BY <1>2, <2>1, <2>2, <2>3
<1>5. ASSUME NEW j \in Jobs, NEW o \in Orders, ExpireNext(j, o) PROVE Goal
  <2>1. /\ WriteStatus(o, "EXPIRED", "expiry_or_admin", Null) /\ status[o] # "none"
        /\ "EXPIRED" \in Statuses \ {"none"} /\ "expiry_or_admin" \in Origins
    BY <1>5 DEF ExpireNext, StillPending, Pending, Statuses, Origins
  <2> QED
    BY <1>2, <2>1
<1>6. ASSUME NEW s \in Staff, TryCancelOrExpirePending(s) \/ UpdateStatus(s) PROVE Goal
  <2>1. s \in Actors /\ CarriedBy(s, actor[s]) /\ SeesOrder(s)
    BY DEF TypeInv, StockInv, Actors
  <2>2. actor[s].order \in Orders /\ status[actor[s].order] # "none"
    BY <1>6, <2>1 DEF TryCancelOrExpirePending, UpdateStatus, CarriedBy, SeesOrder, Unguarded,
                      StillPending, Pending
  <2>3. \/ WriteStatus(actor[s].order, "PAID", "staff_api", Null)
        \/ /\ WriteStatus(actor[s].order, actor[s].target, "expiry_or_admin", Null)
           /\ actor[s].target \in {"CANCELLED", "EXPIRED"}
    BY <1>6, <2>1 DEF TryCancelOrExpirePending, UpdateStatus, CarriedBy
  <2>4. /\ {"PAID", "CANCELLED", "EXPIRED"} \subseteq Statuses \ {"none"}
        /\ {"expiry_or_admin", "staff_api"} \subseteq Origins
    BY DEF Statuses, Origins
  <2> QED
    BY <1>2, <2>2, <2>3, <2>4
<1> HIDE DEF Goal
<1>7. \/ UNCHANGED <<status, history>>
      \/ \E o \in Orders : Checkout(o)
      \/ \E h \in Hooks : MarkAsPaid(h) \/ MarkAsCancelled(h)
      \/ \E j \in Jobs, o \in Orders : ExpireNext(j, o)
      \/ \E s \in Staff : TryCancelOrExpirePending(s) \/ UpdateStatus(s)
  <2>1. ASSUME NEW o \in Orders, Customer(o)
        PROVE  UNCHANGED <<status, history>> \/ Checkout(o)
    BY <2>1 DEF Customer, BecomeOverdue, rows
  <2>2. ASSUME NEW y \in Payments, Buyer(y) PROVE UNCHANGED <<status, history>>
    BY <2>2 DEF Buyer, Pay, Settle, rows
  <2>3. ASSUME NEW e \in Events, Delivery(e) PROVE UNCHANGED <<status, history>>
    BY <2>3 DEF Delivery, Claim, AlreadyProcessed, rows
  <2>4. ASSUME NEW h \in Hooks, HookStep(h)
        PROVE  UNCHANGED <<status, history>> \/ MarkAsPaid(h) \/ MarkAsCancelled(h)
    BY <2>4 DEF HookStep, VerifyTransaction, Refuse, Decide, rows
  <2>5. ASSUME NEW j \in Jobs, JobStep(j)
        PROVE  UNCHANGED <<status, history>> \/ \E o \in Orders : ExpireNext(j, o)
    BY <2>5 DEF JobStep, Tick, SkipNext, rows
  <2>6. ASSUME NEW s \in Staff, NEW o \in Orders, NEW target, Request(s, o, target)
        PROVE  UNCHANGED <<status, history>>
    BY <2>6 DEF Request, rows
  <2>7. ASSUME NEW s \in Staff, StaffStep(s)
        PROVE  \/ UNCHANGED <<status, history>>
               \/ TryCancelOrExpirePending(s) \/ UpdateStatus(s)
    BY <2>7 DEF StaffStep, TransitionRefused, CreateSaleFromOrder, rows
  <2>8. ASSUME NEW a \in Actors, RestockStep(a) PROVE UNCHANGED <<status, history>>
    BY <2>8 DEF RestockStep, IncrementStock, MarkStockRestored, LeaveUnmarked, rows
  <2>9. ASSUME Failure PROVE UNCHANGED <<status, history>>
    BY <2>9 DEF Failure, VerifyFails, ExpireFails, CreateSaleFails, MarkerFails,
                IncrementFails, Crash, rows
  <2>10. CASE UNCHANGED vars
    BY <2>10 DEF vars
  <2> QED
    BY <2>1, <2>2, <2>3, <2>4, <2>5, <2>6, <2>7, <2>8, <2>9, <2>10 DEF Next
<1>8. Goal
  BY <1>1, <1>3, <1>4, <1>5, <1>6, <1>7 DEF Goal
<1> QED
  BY <1>8 DEF Goal

\* An order whose rows say it was not cancelled or expired has returned nothing,
\* and one that was decided on once has returned its units at most once.
LEMMA ReturnedAtMostOnce ==
    ASSUME TypeInv, ReleaseInv, NEW o \in Orders, NEW p \in Items(o), RowsFit(o),
           Len(history[o]) <= 2
    PROVE  /\ released[o][p] \in {0, 1}
           /\ status[o] \in {"none", "PENDING_PAYMENT", "PAID"} => released[o][p] = 0
<1>1. Len(history[o]) \in Nat /\ released[o][p] \in Nat
  BY DEF TypeInv, TypeOK, Items
<1>2. released[o][p] <= Cardinality(Written(o))
  <2>1. Balanced(o, p) /\ Cardinality(Underway(o, p)) \in Nat
    BY FS_CardinalityType DEF ReleaseInv, Balanced
  <2>2. Cardinality(Written(o)) \in Nat
    BY WrittenFinite
  <2> QED
    BY <1>1, <2>1, <2>2 DEF Balanced
<1>3. Written(o) \subseteq {2}
  BY <1>1 DEF Written, RowsFit, Terminal
<1>4. Cardinality({2}) = 1 /\ IsFiniteSet({2}) /\ Cardinality({}) = 0
  BY FS_Singleton, FS_EmptySet
<1>5. Cardinality(Written(o)) <= 1 /\ Cardinality(Written(o)) \in Nat
  BY <1>3, <1>4, FS_Subset, WrittenFinite
<1>6. ASSUME status[o] \in {"none", "PENDING_PAYMENT", "PAID"} PROVE Written(o) = {}
  BY <1>1, <1>3, <1>6 DEF Written, RowsFit, Terminal
<1>7. released[o][p] \in {0, 1}
  BY <1>1, <1>2, <1>5
<1>8. Written(o) = {} => released[o][p] = 0
  BY <1>1, <1>2, <1>4
<1> QED
  BY <1>6, <1>7, <1>8

LEMMA ProductRule == \A q, r \in Nat : q * (1 - (r + 1)) = q * (1 - r) - q
  OBVIOUS

LEMMA HoldsInt ==
    ASSUME TypeInv, NEW p \in Products
    PROVE  \A o \in Orders : Quantity[o][p] \in Nat /\ Holds(p)[o] \in Int
<1> SUFFICES ASSUME NEW o \in Orders
             PROVE  Quantity[o][p] \in Nat /\ Holds(p)[o] \in Int
  OBVIOUS
<1>1. Quantity[o][p] \in Nat /\ released[o][p] \in Nat
  BY OrdersAssumption DEF TypeInv, TypeOK
<1> QED
  BY <1>1 DEF Holds

LEMMA CheckoutConserves ==
    ASSUME TypeInv, ReleaseInv, StockInv, NEW o \in Orders, Checkout(o)
    PROVE  /\ IsFiniteSet(Begun') /\ \A p \in Products : Conserved(p)'
<1>1. /\ status[o] = "none" /\ Enough(o) /\ UNCHANGED released
      /\ stock' = [p \in Products |-> stock[p] - Quantity[o][p]]
      /\ status' = [status EXCEPT ![o] = "PENDING_PAYMENT"]
  BY DEF Checkout, WriteStatus
<1>2. Begun' = Begun \cup {o} /\ o \notin Begun
  BY <1>1 DEF Begun, TypeInv, TypeOK
<1>3. IsFiniteSet(Begun') /\ IsFiniteSet(Begun)
  BY <1>2, FS_AddElement DEF StockInv
<1>4. ASSUME NEW p \in Products PROVE Conserved(p)'
  <2>1. Holds(p)' = Holds(p)
    BY <1>1 DEF Holds
  <2>2. /\ Conserved(p) /\ stock'[p] = stock[p] - Quantity[o][p]
        /\ Quantity[o][p] \in Nat /\ \A x \in Orders : Holds(p)[x] \in Int
    BY <1>1, HoldsInt DEF StockInv
  <2>3. Quantity[o][p] > 0 => stock[p] >= Quantity[o][p]
    BY <1>1 DEF Enough, Items
  <2>4. Holds(p)[o] = Quantity[o][p]
    <3>1. Quantity[o][p] > 0 => released[o][p] = 0
      <4>1. RowsFit(o) /\ Len(history[o]) <= 2
        BY <1>1 DEF StockInv, RowsFit
      <4> QED
        BY <1>1, <4>1, ReturnedAtMostOnce DEF Items
    <3>2. released[o][p] \in Nat
      BY DEF TypeInv, TypeOK
    <3>3. Holds(p)[o] = Quantity[o][p] * (1 - released[o][p])
      BY DEF Holds
    <3>4. CASE Quantity[o][p] > 0
      BY <2>2, <3>1, <3>3, <3>4
    <3>5. CASE Quantity[o][p] = 0
      BY <3>2, <3>3, <3>5
    <3> QED
      BY <2>2, <3>4, <3>5
  <2> DEFINE f == Holds(p)
             total == SumFunctionOnSet(f, Begun)
  <2>5. \A x \in Begun \cup {o} : f[x] \in Int
    BY <2>2 DEF Begun
  <2> HIDE DEF f
  <2>6. SumFunctionOnSet(f, Begun \cup {o}) = total + f[o]
    BY <1>2, <1>3, <2>5, SumAdd
  <2>7. total \in Int
    BY <1>3, <2>5, SumInt
  <2>8. SumFunctionOnSet(Holds(p), Begun)' = total + Quantity[o][p]
    BY <1>2, <2>1, <2>4, <2>6 DEF f
  <2>9. stock[p] \in Nat /\ stock[p] + total = InitialStock[p]
    BY <2>2 DEF Conserved, f
  <2> HIDE DEF total
  <2>10. stock'[p] \in Nat /\ stock'[p] + (total + Quantity[o][p]) = InitialStock[p]
    BY <2>2, <2>3, <2>7, <2>9
  <2> QED
    BY <2>8, <2>10 DEF Conserved
<1> QED
  BY <1>3, <1>4

LEMMA IncrementConserves ==
    ASSUME TypeInv, OrderInv, StockInv, NEW a \in Actors, NEW q \in Products,
           IncrementStock(a, q)
    PROVE  \A p \in Products : Conserved(p)'
<1> DEFINE o == actor[a].order
<1>1. /\ o \in Orders /\ status[o] # "none" /\ actor[a].pc = "restock"
  BY DEF IncrementStock, TypeInv, CarriedBy, OrderInv, Restocking
<1>2. /\ stock' = [stock EXCEPT ![q] = stock[q] + Quantity[o][q]]
      /\ released' = [released EXCEPT ![o] = [released[o] EXCEPT ![q] = released[o][q] + 1]]
      /\ UNCHANGED status
  BY DEF IncrementStock, rows
<1>3. Begun' = Begun /\ o \in Begun /\ IsFiniteSet(Begun) /\ Begun \subseteq Orders
  BY <1>1, <1>2 DEF Begun, StockInv
<1>4. /\ released \in [Orders -> [Products -> Nat]] /\ stock \in [Products -> Int]
  BY DEF TypeInv, TypeOK
<1> HIDE DEF o
<1>5. ASSUME NEW p \in Products, p # q PROVE Conserved(p)'
  <2>1. stock'[p] = stock[p] /\ \A x \in Orders : released'[x][p] = released[x][p]
    BY <1>1, <1>2, <1>4, <1>5
  <2>2. Holds(p)' = Holds(p)
    BY <2>1 DEF Holds
  <2> QED
    BY <1>3, <2>1, <2>2 DEF StockInv, Conserved
<1>6. Conserved(q)'
  <2>1. /\ stock'[q] = stock[q] + Quantity[o][q]
        /\ released'[o][q] = released[o][q] + 1
        /\ \A x \in Orders : x # o => released'[x][q] = released[x][q]
    BY <1>1, <1>2, <1>4
  <2> DEFINE f == Holds(q)
             g == [x \in Orders |-> Quantity[x][q] * (1 - released'[x][q])]
             total == SumFunctionOnSet(f, Begun)
  <2>2. Holds(q)' = g
    BY DEF Holds
  <2>3. /\ \A x \in Orders : f[x] \in Int /\ Quantity[x][q] \in Nat
        /\ f[o] = Quantity[o][q] * (1 - released[o][q])
        /\ released[o][q] \in Nat
    BY <1>1, <1>4, HoldsInt DEF Holds
  <2>4. \A x \in Orders : x # o => g[x] = f[x]
    BY <2>1 DEF Holds
  <2>5. g[o] = Quantity[o][q] * (1 - (released[o][q] + 1))
    BY <1>1, <2>1
  <2> HIDE DEF f, g
  <2>6. g[o] = f[o] - Quantity[o][q]
    BY <1>1, <2>3, <2>5, ProductRule
  <2>7. /\ \A x \in Begun : f[x] \in Int /\ g[x] \in Int
        /\ \A x \in Begun : x # o => g[x] = f[x]
    BY <1>1, <1>3, <2>3, <2>4, <2>6
  <2>8. SumFunctionOnSet(g, Begun) = SumFunctionOnSet(f, Begun) - f[o] + g[o]
    BY <1>3, <2>7, SumChange
  <2>9. SumFunctionOnSet(f, Begun) \in Int
    BY <1>3, <2>7, SumInt
  <2>10. stock[q] \in Nat /\ stock[q] + total = InitialStock[q]
    BY DEF StockInv, Conserved, f
  <2>11. total \in Int /\ SumFunctionOnSet(g, Begun) = total - f[o] + g[o]
    BY <2>8, <2>9
  <2> HIDE DEF total
  <2>12. /\ stock'[q] \in Nat
         /\ stock'[q] + SumFunctionOnSet(g, Begun) = InitialStock[q]
    BY <1>1, <2>1, <2>3, <2>6, <2>10, <2>11
  <2> QED
    BY <1>3, <2>2, <2>12 DEF Conserved
<1> QED
  BY <1>5, <1>6

LEMMA StockInvStep ==
    ASSUME TypeInv, OrderInv, ReleaseInv, StockInv, [Next]_vars
    PROVE  StockInv'
<1>1. /\ \A o \in Orders : RowsFit(o)'
      /\ \A o \in Orders : status[o] # "none" => status'[o] # "none"
      /\ Begun' = Begun \/ \E o \in Orders : Checkout(o)
  BY OrdersStayBegun
<1>2. \A a \in Actors : SeesOrder(a)'
  <2> SUFFICES ASSUME NEW a \in Actors PROVE SeesOrder(a)'
    OBVIOUS
  <2>1. Looks(a) /\ SeesOrder(a) /\ TypeInv'
    BY NextLooks, TypeStep DEF StockInv
  <2>2. actor'[a].pc \in Unguarded => actor'[a].order \in Orders
    BY <2>1 DEF TypeInv, CarriedBy, Unguarded
  <2> QED
    BY <1>1, <2>1, <2>2 DEF Looks, SeesOrder
<1>3. CASE \E o \in Orders : Checkout(o)
  BY <1>1, <1>2, <1>3, CheckoutConserves DEF StockInv
<1>4. CASE Begun' = Begun /\ UNCHANGED <<stock, released>>
  <2>1. \A p \in Products : Holds(p)' = Holds(p)
    BY <1>4 DEF Holds
  <2> QED
    BY <1>1, <1>2, <1>4, <2>1 DEF StockInv, Conserved
<1>5. ASSUME NEW a \in Actors, NEW p \in Products, IncrementStock(a, p), Begun' = Begun
      PROVE  StockInv'
  BY <1>1, <1>2, <1>5, IncrementConserves DEF StockInv
<1> QED
  BY <1>1, <1>3, <1>4, <1>5, NextStock

LEMMA StockInvariant == Spec => [](TypeInv /\ OrderInv /\ ReleaseInv /\ StockInv)
<1>1. TypeInv /\ OrderInv /\ ReleaseInv /\ StockInv /\ [Next]_vars
        => TypeInv' /\ OrderInv' /\ ReleaseInv' /\ StockInv'
  BY TypeStep, NextOrders, OrderInvStep, NextReleases, ReleaseInvStep, StockInvStep
<1> QED
  BY <1>1, InitType, OrderInit, ReleaseInit, StockInit, PTL DEF Spec

\* While no order was decided on twice, the orders that wait for their payment or
\* are paid never hold more units of a product than there were, whatever
\* checkouts, expiries and cancellations compete for them: the conditional
\* decrement of a checkout sees every unit that an order holds.
THEOREM OrdersWithinStock == Spec => []SoldWithinStock
<1>1. TypeInv /\ OrderInv /\ ReleaseInv /\ StockInv => SoldWithinStock
  <2> SUFFICES ASSUME TypeInv, ReleaseInv, StockInv,
                      \A o \in Orders : Len(history[o]) <= 2, NEW p \in Products
               PROVE  SumFunctionOnSet([o \in Orders |-> Quantity[o][p]],
                        {o \in Orders : status[o] \in {"PENDING_PAYMENT", "PAID"}})
                        <= InitialStock[p]
    BY DEF SoldWithinStock
  <2> DEFINE held == {o \in Orders : status[o] \in {"PENDING_PAYMENT", "PAID"}}
             f == Holds(p)
             g == [o \in Orders |-> Quantity[o][p]]
             all == SumFunctionOnSet(f, Begun)
  <2>1. /\ held \subseteq Begun /\ Begun \subseteq Orders /\ IsFiniteSet(Begun)
        /\ stock[p] \in Nat /\ stock[p] + all = InitialStock[p]
    BY DEF Begun, StockInv, Conserved
  <2>2. IsFiniteSet(held)
    BY <2>1, FS_Subset
  <2>3. ASSUME NEW o \in Orders
        PROVE  f[o] \in Nat /\ (o \in held => f[o] = g[o])
    <3>1. /\ Quantity[o][p] \in Nat /\ released[o][p] \in Nat
          /\ f[o] = Quantity[o][p] * (1 - released[o][p]) /\ g[o] = Quantity[o][p]
      BY HoldsInt DEF Holds, TypeInv, TypeOK
    <3>2. CASE Quantity[o][p] = 0
      BY <3>1, <3>2
    <3>3. CASE Quantity[o][p] > 0
      <4>1. /\ released[o][p] \in {0, 1}
            /\ status[o] \in {"none", "PENDING_PAYMENT", "PAID"} => released[o][p] = 0
        BY <3>3, ReturnedAtMostOnce DEF Items, StockInv
      <4>2. CASE released[o][p] = 0
        BY <3>1, <4>2
      <4>3. CASE released[o][p] = 1
        BY <3>1, <4>1, <4>3
      <4> QED
        BY <4>1, <4>2, <4>3
    <3> QED
      BY <3>1, <3>2, <3>3
  <2> HIDE DEF f, g
  <2>4. (\A o \in Begun : f[o] \in Nat) /\ (\A o \in held : g[o] = f[o])
    BY <2>1, <2>3
  <2> HIDE DEF held
  <2>5. SumFunctionOnSet(g, held) = SumFunctionOnSet(f, held)
    BY <2>2, <2>4, SumCongruence
  <2>6. SumFunctionOnSet(f, held) <= all
    BY <2>1, <2>4, SumSubset
  <2>7. all \in Nat /\ SumFunctionOnSet(f, held) \in Nat
    <3>1. \A o \in held : f[o] \in Nat
      BY <2>1, <2>4
    <3> QED
      BY <2>1, <2>2, <2>4, <3>1, SumNat
  <2> HIDE DEF all
  <2>8. SumFunctionOnSet(g, held) <= InitialStock[p]
    BY <2>1, <2>5, <2>6, <2>7
  <2> QED
    BY <2>8 DEF g, held
<1> QED
  BY <1>1, StockInvariant, PTL

-----------------------------------------------------------------------------
(* The claim of an event and the update of its order are two transactions.  *)
(* As long as deliveries run to their end nobody sees one without the       *)
(* other for good; a delivery that stops in between loses the payment, and  *)
(* the hypothesis cannot be spared (see the README).                        *)

DeliveriesFinish == Hooks \cap Crashing = {}

\* What a delivery under way knows of its payment, which no longer changes once
\* the event of its update is sent.
Fits(h) ==
    IF actor[h].pc = "idle" THEN actor[h].event = Null
    ELSE /\ actor[h].pc \in {"verify", "load", "markAsPaid", "markAsCancelled", "restock"}
         /\ actor[h].pc = "markAsPaid"
              => actor[h].lookup = "approved" /\ actor[h].order = OrderOf[actor[h].event[1]]
         /\ actor[h].event[2] = "updated" =>
              /\ payment[actor[h].event[1]] \in Settled
              /\ actor[h].pc \in {"load", "markAsPaid"}
                   => actor[h].lookup = payment[actor[h].event[1]]
              /\ actor[h].pc \in {"markAsCancelled", "restock"}
                   => payment[actor[h].event[1]] # "approved"

ClaimInv ==
    /\ \A h \in Hooks : Fits(h)
    /\ \A y \in Payments : <<y, "updated">> \in claimed => payment[y] \in Settled
    /\ \A y \in Payments : payment[y] # "none" => status[OrderOf[y]] # "none"
    /\ ClaimNotLost

LEMMA ClaimInit == Init => ClaimInv
<1> SUFFICES ASSUME Init PROVE ClaimInv
  OBVIOUS
<1>1. \A h \in Hooks : Fits(h)
  BY IdleType DEF Init, Fits, Idle, Actors
<1>2. claimed = {} /\ \A y \in Payments : payment[y] = "none"
  BY DEF Init
<1> QED
  BY <1>1, <1>2 DEF ClaimInv, ClaimNotLost

\* An order that does not wait for its payment never will again.
LEMMA PendingOnlyOnce ==
    ASSUME TypeInv, [Next]_vars
    PROVE  \A o \in Orders :
             /\ Pending(o)' => Pending(o) \/ status[o] = "none"
             /\ status[o] # "none" => status'[o] # "none"
<1>1. OrderStep
  BY NextOrders
<1>2. CASE UNCHANGED status
  BY <1>2 DEF Pending
<1>3. ASSUME NEW o \in Orders, NEW to \in Statuses, NEW origin \in Origins,
             NEW event \in Events \cup {Null},
             WriteStatus(o, to, origin, event), WriteStep(o, to, origin)
      PROVE  \A x \in Orders :
               /\ Pending(x)' => Pending(x) \/ status[x] = "none"
               /\ status[x] # "none" => status'[x] # "none"
  <2>1. \A x \in Orders : status'[x] = IF x = o THEN to ELSE status[x]
    BY <1>3 DEF WriteStatus, TypeInv, TypeOK
  <2> QED
    BY <1>3, <2>1 DEF WriteStep, Pending
<1> QED
  BY <1>1, <1>2, <1>3 DEF OrderStep, IncrementStock, MarkStockRestored, rows

\* What a step does to the payments: one that is settled stays as it is, and one
\* that begins is for an order that was placed.
PaymentsMove ==
    \A y \in Payments :
      \/ payment'[y] = payment[y]
      \/ payment[y] \notin Settled /\ status[OrderOf[y]] # "none"

\* A step that leaves the deliveries and the claims alone.
LEMMA OthersKeepClaims ==
    ASSUME TypeInv, ClaimInv, [Next]_vars, PaymentsMove, UNCHANGED claimed,
           \A h \in Hooks : actor'[h] = actor[h]
    PROVE  ClaimInv'
<1>1. \A o \in Orders : /\ Pending(o)' => Pending(o) \/ status[o] = "none"
                        /\ status[o] # "none" => status'[o] # "none"
  BY PendingOnlyOnce
<1>2. \A y \in Payments : OrderOf[y] \in Orders
  BY OrdersAssumption
<1>3. \A y \in Payments : payment'[y] # "none" => status[OrderOf[y]] # "none"
  BY DEF PaymentsMove, ClaimInv
<1>4. \A h \in Hooks : Fits(h)'
  <2> SUFFICES ASSUME NEW h \in Hooks PROVE Fits(h)'
    OBVIOUS
  <2>1. Fits(h) /\ actor'[h] = actor[h]
    BY DEF ClaimInv
  <2>2. actor[h].pc # "idle" => actor[h].event[1] \in Payments
    BY DEF TypeInv, CarriedBy, Actors, Events
  <2>3. \A y \in Payments : payment[y] \in Settled => payment'[y] = payment[y]
    BY DEF PaymentsMove
  <2> QED
    BY <2>1, <2>2, <2>3 DEF Fits
<1>5. \A y \in Payments : <<y, "updated">> \in claimed' => payment'[y] = payment[y]
  BY DEF PaymentsMove, ClaimInv
<1>6. ClaimNotLost'
  <2> SUFFICES ASSUME NEW y \in Payments, <<y, "updated">> \in claimed',
                      payment'[y] = "approved",
                      \A h \in Hooks : actor'[h].event # <<y, "updated">>
               PROVE  ~Pending(OrderOf[y])'
    BY DEF ClaimNotLost
  <2>1. payment[y] = "approved" /\ \A h \in Hooks : actor[h].event # <<y, "updated">>
    BY <1>5
  <2>2. ~Pending(OrderOf[y]) /\ status[OrderOf[y]] # "none"
    BY <2>1 DEF ClaimInv, ClaimNotLost
  <2> QED
    BY <1>1, <1>2, <2>2
<1>7. \A y \in Payments : <<y, "updated">> \in claimed' => payment'[y] \in Settled
  BY <1>5 DEF ClaimInv
<1>8. \A y \in Payments : payment'[y] # "none" => status'[OrderOf[y]] # "none"
  BY <1>1, <1>2, <1>3
<1> QED
  BY <1>4, <1>6, <1>7, <1>8 DEF ClaimInv

\* A step of a delivery that goes on with its event, or ends with its payment taken
\* into account.
LEMMA HookKeepsClaims ==
    ASSUME TypeInv, ClaimInv, [Next]_vars, UNCHANGED <<claimed, payment>>,
           NEW h \in Hooks, NEW w, Becomes(h, w), Fits(h)',
           \/ w.event = actor[h].event
           \/ actor[h].event[2] = "updated" /\ payment[actor[h].event[1]] = "approved"
                => \A o \in Orders : o = OrderOf[actor[h].event[1]] => ~Pending(o)'
    PROVE  ClaimInv'
<1>1. \A o \in Orders : /\ Pending(o)' => Pending(o) \/ status[o] = "none"
                        /\ status[o] # "none" => status'[o] # "none"
  BY PendingOnlyOnce
<1>2. \A y \in Payments : OrderOf[y] \in Orders
  BY OrdersAssumption
<1>3. actor'[h] = w /\ \A g \in Hooks : g # h => actor'[g] = actor[g]
  BY Turn DEF Actors
<1>4. ASSUME NEW g \in Hooks, g # h PROVE Fits(g)'
  BY <1>3, <1>4 DEF Fits, ClaimInv
<1>5. \A g \in Hooks : Fits(g)'
  BY <1>4
<1>6. ClaimNotLost'
  <2> SUFFICES ASSUME NEW y \in Payments, <<y, "updated">> \in claimed',
                      payment'[y] = "approved",
                      \A g \in Hooks : actor'[g].event # <<y, "updated">>
               PROVE  ~Pending(OrderOf[y])'
    BY DEF ClaimNotLost
  <2>1. <<y, "updated">> \in claimed /\ payment[y] = "approved"
    OBVIOUS
  <2>2. CASE actor[h].event = <<y, "updated">>
    <3>1. w.event # actor[h].event
      BY <1>3, <2>2
    <3>2. actor[h].event[1] = y /\ actor[h].event[2] = "updated"
      BY <2>2
    <3> QED
      BY <1>2, <2>1, <3>1, <3>2
  <2>3. CASE actor[h].event # <<y, "updated">>
    <3>1. \A g \in Hooks : actor[g].event # <<y, "updated">>
      BY <1>3, <2>3
    <3>2. ~Pending(OrderOf[y]) /\ status[OrderOf[y]] # "none"
      BY <2>1, <3>1 DEF ClaimInv, ClaimNotLost
    <3> QED
      BY <1>1, <1>2, <3>2
  <2> QED
    BY <2>2, <2>3
<1>7. \A y \in Payments : payment'[y] # "none" => status'[OrderOf[y]] # "none"
  BY <1>1, <1>2 DEF ClaimInv
<1> QED
  BY <1>5, <1>6, <1>7 DEF ClaimInv

LEMMA ClaimKeeps ==
    ASSUME TypeInv, ClaimInv, [Next]_vars, NEW h \in Hooks, NEW e \in Events, Claim(h, e)
    PROVE  ClaimInv'
<1> DEFINE w == [Idle EXCEPT !.pc = "verify", !.event = e]
<1>1. w.pc = "verify" /\ w.event = e
  BY IdleType DEF Work
<1>2. /\ Becomes(h, w) /\ Sent(e) /\ actor[h].pc = "idle" /\ e \notin claimed
      /\ claimed' = claimed \cup {e} /\ UNCHANGED <<payment, status>>
  BY DEF Claim, Deliver, Unclaimed, rows, gateway
<1> HIDE DEF w
<1>3. actor'[h] = w /\ \A g \in Hooks : g # h => actor'[g] = actor[g]
  BY <1>2, Turn DEF Actors
<1>4. actor[h].event = Null /\ Null \notin Events
  BY <1>2, OrdersAssumption DEF ClaimInv, Fits
<1>5. e[2] = "updated" => payment[e[1]] \in Settled
  BY <1>2 DEF Sent
<1>6. Fits(h)'
  BY <1>1, <1>2, <1>3, <1>5 DEF Fits
<1>7. ASSUME NEW g \in Hooks, g # h PROVE Fits(g)'
  BY <1>2, <1>3, <1>7 DEF Fits, ClaimInv
<1>8. \A g \in Hooks : Fits(g)'
  BY <1>6, <1>7
<1>9. \A y \in Payments : <<y, "updated">> \in claimed' => payment'[y] \in Settled
  <2> SUFFICES ASSUME NEW y \in Payments, <<y, "updated">> \in claimed'
               PROVE  payment[y] \in Settled
    BY <1>2
  <2>1. CASE e = <<y, "updated">>
    BY <1>5, <2>1
  <2>2. CASE e # <<y, "updated">>
    BY <1>2, <2>2 DEF ClaimInv
  <2> QED
    BY <2>1, <2>2
<1>10. ClaimNotLost'
  <2> SUFFICES ASSUME NEW y \in Payments, <<y, "updated">> \in claimed',
                      payment'[y] = "approved",
                      \A g \in Hooks : actor'[g].event # <<y, "updated">>
               PROVE  ~Pending(OrderOf[y])'
    BY DEF ClaimNotLost
  <2>1. e # <<y, "updated">>
    BY <1>1, <1>3
  <2>2. \A g \in Hooks : actor[g].event # <<y, "updated">>
    <3>1. <<y, "updated">> \in Events
      BY DEF Events
    <3> QED
      BY <1>3, <1>4, <3>1
  <2>3. ~Pending(OrderOf[y])
    BY <1>2, <2>1, <2>2 DEF ClaimInv, ClaimNotLost
  <2> QED
    BY <1>2, <2>3 DEF Pending
<1> QED
  BY <1>2, <1>8, <1>9, <1>10 DEF ClaimInv

LEMMA ReleaseKeeps ==
    ASSUME TypeInv, ClaimInv, [Next]_vars, NEW h \in Hooks, VerifyFails(h)
    PROVE  ClaimInv'
<1> DEFINE e == actor[h].event
<1>1. /\ Becomes(h, Idle) /\ claimed' = claimed \ {e} /\ UNCHANGED <<payment, status>>
  BY DEF VerifyFails, ReleaseClaim, rows, gateway
<1>2. actor'[h] = Idle /\ \A g \in Hooks : g # h => actor'[g] = actor[g]
  BY <1>1, Turn DEF Actors
<1>3. Idle.pc = "idle" /\ Idle.event = Null
  BY DEF Idle
<1>4. Fits(h)'
  BY <1>2, <1>3 DEF Fits
<1>5. ASSUME NEW g \in Hooks, g # h PROVE Fits(g)'
  BY <1>1, <1>2, <1>5 DEF Fits, ClaimInv
<1>6. \A g \in Hooks : Fits(g)'
  BY <1>4, <1>5
<1>7. ClaimNotLost'
  <2> SUFFICES ASSUME NEW y \in Payments, <<y, "updated">> \in claimed',
                      payment'[y] = "approved",
                      \A g \in Hooks : actor'[g].event # <<y, "updated">>
               PROVE  ~Pending(OrderOf[y])'
    BY DEF ClaimNotLost
  <2>1. <<y, "updated">> \in claimed /\ e # <<y, "updated">>
    BY <1>1
  <2>2. \A g \in Hooks : actor[g].event # <<y, "updated">>
    BY <1>2, <2>1
  <2>3. ~Pending(OrderOf[y])
    BY <1>1, <2>1, <2>2 DEF ClaimInv, ClaimNotLost
  <2> QED
    BY <1>1, <2>3 DEF Pending
<1> QED
  BY <1>1, <1>6, <1>7 DEF ClaimInv

\* The steps of a delivery, to the end of the return of stock.
LEMMA HookClaims ==
    ASSUME TypeInv, ClaimInv, [Next]_vars, NEW h \in Hooks, HookStep(h)
    PROVE  ClaimInv'
<1>1. /\ h \in Actors /\ actor[h] \in Work /\ CarriedBy(h, actor[h]) /\ Fits(h)
      /\ actor[h].pc # "idle" => actor[h].event \in Events
  BY DEF TypeInv, TypeOK, CarriedBy, Actors, ClaimInv
<1>2. \A e \in Events : e[1] \in Payments /\ OrderOf[e[1]] \in Orders
  BY OrdersAssumption DEF Events
<1>3. Idle.pc = "idle" /\ Idle.event = Null
  BY DEF Idle
<1>4. ASSUME NEW lookup \in Lookups, VerifyTransaction(h, lookup)
      PROVE  ClaimInv'
  <2> DEFINE w == [actor[h] EXCEPT !.pc = "load", !.lookup = lookup]
  <2>1. w.pc = "load" /\ w.lookup = lookup /\ w.event = actor[h].event
    BY <1>1 DEF Work
  <2>2. /\ Becomes(h, w) /\ actor[h].pc = "verify" /\ UNCHANGED <<claimed, payment>>
        /\ \/ lookup = payment[actor[h].event[1]]
           \/ payment[actor[h].event[1]] = "pending" /\ lookup = "missing"
    BY <1>4 DEF VerifyTransaction, gateway
  <2> HIDE DEF w
  <2>3. actor'[h] = w
    BY <1>1, <2>2, Turn
  <2>4. Fits(h)'
    BY <1>1, <2>1, <2>2, <2>3 DEF Fits, Settled
  <2> QED
    BY <2>1, <2>2, <2>4, HookKeepsClaims
<1>5. CASE Refuse(h)
  <2>1. /\ Becomes(h, Idle) /\ actor[h].pc = "load" /\ Refusal(h) # "none"
        /\ UNCHANGED <<claimed, payment, status>>
    BY <1>5 DEF Refuse, rows
  <2>2. Fits(h)'
    BY <1>1, <1>3, <2>1, Turn DEF Fits
  <2>3. ASSUME actor[h].event[2] = "updated", payment[actor[h].event[1]] = "approved",
               NEW o \in Orders, o = OrderOf[actor[h].event[1]]
        PROVE  ~Pending(o)'
    <3>1. actor[h].lookup = "approved"
      BY <1>1, <2>1, <2>3 DEF Fits
    <3>2. Refusal(h) = IF ~Pending(o) THEN "order_not_pending" ELSE "none"
      BY <2>3, <3>1 DEF Refusal
    <3> QED
      BY <2>1, <3>2 DEF Pending
  <2> QED
    BY <2>1, <2>2, <2>3, HookKeepsClaims
<1>6. CASE Decide(h)
  <2> DEFINE o == OrderOf[actor[h].event[1]]
             to == IF actor[h].lookup = "approved" THEN "markAsPaid" ELSE "markAsCancelled"
             w == [actor[h] EXCEPT !.pc = to, !.order = o]
  <2>1. Becomes(h, w) /\ actor[h].pc = "load" /\ UNCHANGED <<claimed, payment>>
    BY <1>6 DEF Decide, gateway
  <2>2. w.pc = to /\ w.order = o /\ w.event = actor[h].event /\ w.lookup = actor[h].lookup
    BY <1>1 DEF Work
  <2> HIDE DEF w
  <2>3. actor'[h] = w
    BY <1>1, <2>1, Turn
  <2>4. Fits(h)'
    BY <1>1, <2>1, <2>2, <2>3 DEF Fits
  <2> QED
    BY <2>1, <2>2, <2>4, HookKeepsClaims
<1>7. CASE MarkAsPaid(h)
  <2>1. /\ Becomes(h, Idle) /\ actor[h].pc = "markAsPaid" /\ UNCHANGED <<claimed, payment>>
        /\ status' = [status EXCEPT ![actor[h].order] = "PAID"]
    BY <1>7 DEF MarkAsPaid, WriteStatus
  <2>2. actor[h].order \in Orders /\ actor[h].order = OrderOf[actor[h].event[1]]
    BY <1>1, <2>1 DEF Fits, CarriedBy
  <2>3. Fits(h)'
    BY <1>1, <1>3, <2>1, Turn DEF Fits
  <2>4. ASSUME NEW o \in Orders, o = OrderOf[actor[h].event[1]] PROVE ~Pending(o)'
    BY <2>1, <2>2, <2>4 DEF Pending, TypeInv, TypeOK
  <2> QED
    BY <2>1, <2>3, <2>4, HookKeepsClaims
<1>8. CASE MarkAsCancelled(h)
  <2> DEFINE w == Restock(actor[h], actor[h].order)
  <2>1. Becomes(h, w) /\ actor[h].pc = "markAsCancelled" /\ UNCHANGED <<claimed, payment>>
    BY <1>8 DEF MarkAsCancelled, gateway
  <2>2. w.pc = "restock" /\ w.event = actor[h].event
    <3>1. actor[h].order \in Orders
      BY <1>1, <2>1 DEF CarriedBy
    <3> QED
      BY <1>1, <3>1, WorkType
  <2> HIDE DEF w
  <2>3. actor'[h] = w
    BY <1>1, <2>1, Turn
  <2>4. Fits(h)'
    BY <1>1, <2>1, <2>2, <2>3 DEF Fits
  <2> QED
    BY <2>1, <2>2, <2>4, HookKeepsClaims
<1> QED
  BY <1>4, <1>5, <1>6, <1>7, <1>8 DEF HookStep

LEMMA RestockClaims ==
    ASSUME TypeInv, ClaimInv, [Next]_vars, NEW h \in Hooks,
           \/ RestockStep(h)
           \/ MarkerFails(h)
           \/ \E p \in Products : IncrementFails(h, p)
    PROVE  ClaimInv'
<1>1. /\ h \in Actors /\ actor[h] \in Work /\ CarriedBy(h, actor[h]) /\ Fits(h)
  BY DEF TypeInv, TypeOK, Actors, ClaimInv
<1>2. actor[h].pc = "restock" /\ UNCHANGED <<claimed, payment>>
  BY DEF RestockStep, IncrementStock, MarkStockRestored, LeaveUnmarked, MarkerFails,
         IncrementFails, gateway
<1>3. ASSUME NEW w, Becomes(h, w), w.pc = "restock", w.event = actor[h].event
      PROVE  ClaimInv'
  <2>1. actor'[h] = w
    BY <1>1, <1>3, Turn
  <2>2. Fits(h)'
    BY <1>1, <1>2, <1>3, <2>1 DEF Fits
  <2> QED
    BY <1>2, <1>3, <2>2, HookKeepsClaims
<1>4. CASE FinishRestock(h)
  <2>1. actor[h].batch = {}
    BY <1>1, ActorsAssumption DEF CarriedBy
  <2>2. Becomes(h, Idle) /\ Idle.pc = "idle" /\ Idle.event = Null
    BY <1>4, <2>1 DEF FinishRestock, Rest, Idle
  <2>3. Fits(h)'
    BY <1>1, <2>2, Turn DEF Fits
  <2>4. actor[h].event[2] = "updated" => payment[actor[h].event[1]] # "approved"
    BY <1>1, <1>2 DEF Fits
  <2> QED
    BY <1>2, <2>2, <2>3, <2>4, HookKeepsClaims
<1>5. ASSUME NEW p \in Products, IncrementStock(h, p) \/ IncrementFails(h, p)
      PROVE  ClaimInv'
  <2> DEFINE todo == actor[h].todo \ {p}
             goesOn == [actor[h] EXCEPT !.todo = todo]
             failed == [actor[h] EXCEPT !.todo = todo, !.ok = FALSE]
  <2>1. Becomes(h, goesOn) \/ Becomes(h, failed)
    BY <1>5 DEF IncrementStock, IncrementFails, Failed
  <2> HIDE DEF todo
  <2>2. /\ goesOn.pc = "restock" /\ goesOn.event = actor[h].event
        /\ failed.pc = "restock" /\ failed.event = actor[h].event
    BY <1>1, <1>2 DEF Work
  <2> HIDE DEF goesOn, failed
  <2> QED
    BY <1>3, <2>1, <2>2
<1> QED
  BY <1>4, <1>5 DEF RestockStep, MarkStockRestored, LeaveUnmarked, MarkerFails

\* A step of an actor that delivers nothing.
LEMMA StrangerKeepsClaims ==
    ASSUME TypeInv, ClaimInv, [Next]_vars, NEW a \in Actors \ Hooks, NEW w, Becomes(a, w),
           UNCHANGED <<claimed, payment>>
    PROVE  ClaimInv'
<1>1. \A h \in Hooks : actor'[h] = actor[h]
  BY Turn DEF Actors
<1>2. PaymentsMove
  BY DEF PaymentsMove
<1> QED
  BY <1>1, <1>2, OthersKeepClaims

LEMMA StrangersClaims ==
    ASSUME TypeInv, ClaimInv, [Next]_vars, NEW a \in Actors \ Hooks,
           \/ a \in Jobs /\ JobStep(a)
           \/ a \in Staff /\ StaffStep(a)
           \/ \E o \in Orders, target \in {"PAID", "CANCELLED", "EXPIRED"} :
                a \in Staff /\ Request(a, o, target)
           \/ RestockStep(a)
           \/ a \in Jobs /\ \E o \in Orders : ExpireFails(a, o)
           \/ a \in Staff /\ CreateSaleFails(a)
           \/ MarkerFails(a)
           \/ \E p \in Products : IncrementFails(a, p)
           \/ Crash(a)
    PROVE  ClaimInv'
<1>1. UNCHANGED <<claimed, payment>> /\ \E w : Becomes(a, w)
  <2>1. CASE JobStep(a)
    BY <2>1 DEF JobStep, Tick, ExpireNext, SkipNext, gateway
  <2>2. CASE StaffStep(a)
    BY <2>2 DEF StaffStep, TryCancelOrExpirePending, TransitionRefused, UpdateStatus,
                CreateSaleFromOrder, gateway
  <2>3. ASSUME NEW o \in Orders, NEW target, Request(a, o, target)
        PROVE  UNCHANGED <<claimed, payment>> /\ \E w : Becomes(a, w)
    BY <2>3 DEF Request, gateway
  <2>4. CASE RestockStep(a)
    BY <2>4 DEF RestockStep, IncrementStock, MarkStockRestored, LeaveUnmarked,
                FinishRestock, gateway
  <2>5. ASSUME NEW o \in Orders, ExpireFails(a, o)
        PROVE  UNCHANGED <<claimed, payment>> /\ \E w : Becomes(a, w)
    BY <2>5 DEF ExpireFails, gateway
  <2>6. CASE CreateSaleFails(a) \/ MarkerFails(a) \/ Crash(a)
    BY <2>6 DEF CreateSaleFails, MarkerFails, Crash, FinishRestock, gateway
  <2>7. ASSUME NEW p \in Products, IncrementFails(a, p)
        PROVE  UNCHANGED <<claimed, payment>> /\ \E w : Becomes(a, w)
    BY <2>7 DEF IncrementFails, gateway
  <2> QED
    BY <2>1, <2>2, <2>3, <2>4, <2>5, <2>6, <2>7
<1> QED
  BY <1>1, StrangerKeepsClaims

LEMMA ClaimInvStep ==
    ASSUME DeliveriesFinish, TypeInv, ClaimInv, [Next]_vars
    PROVE  ClaimInv'
<1>1. ASSUME UNCHANGED <<actor, claimed>>, PaymentsMove PROVE ClaimInv'
  BY <1>1, OthersKeepClaims
<1>2. ASSUME UNCHANGED payment PROVE PaymentsMove
  BY <1>2 DEF PaymentsMove
<1>3. ASSUME NEW o \in Orders, Customer(o) PROVE ClaimInv'
  BY <1>1, <1>2, <1>3 DEF Customer, Checkout, BecomeOverdue, gateway
<1>4. ASSUME NEW y \in Payments, Buyer(y) PROVE ClaimInv'
  <2>1. UNCHANGED <<actor, claimed>>
    BY <1>4 DEF Buyer, Pay, Settle
  <2>2. \A x \in Payments : x # y => payment'[x] = payment[x]
    BY <1>4 DEF Buyer, Pay, Settle, TypeInv, TypeOK
  <2>3. payment[y] \notin Settled /\ status[OrderOf[y]] # "none"
    BY <1>4 DEF Buyer, Pay, Settle, Settled, ClaimInv
  <2> QED
    BY <1>1, <2>1, <2>2, <2>3 DEF PaymentsMove
<1>5. ASSUME NEW e \in Events, Delivery(e) PROVE ClaimInv'
  <2>1. PICK h \in Hooks : Claim(h, e) \/ AlreadyProcessed(h, e)
    BY <1>5 DEF Delivery
  <2>2. CASE Claim(h, e)
    BY <2>2, ClaimKeeps
  <2>3. CASE AlreadyProcessed(h, e)
    BY <1>1, <1>2, <2>3 DEF AlreadyProcessed
  <2> QED
    BY <2>1, <2>2, <2>3
<1>6. ASSUME NEW a \in Actors, RestockStep(a) PROVE ClaimInv'
  <2>1. CASE a \in Hooks
    BY <1>6, <2>1, RestockClaims
  <2>2. CASE a \notin Hooks
    BY <1>6, <2>2, StrangersClaims
  <2> QED
    BY <2>1, <2>2
<1>7. CASE Failure
  <2>1. ASSUME NEW h \in Hooks, VerifyFails(h) PROVE ClaimInv'
    BY <2>1, ReleaseKeeps
  <2>2. ASSUME NEW j \in Jobs, NEW o \in Orders, ExpireFails(j, o) PROVE ClaimInv'
    BY <2>2, StrangersClaims, ActorsAssumption DEF Actors
  <2>3. ASSUME NEW s \in Staff, CreateSaleFails(s) PROVE ClaimInv'
    BY <2>3, StrangersClaims, ActorsAssumption DEF Actors
  <2>4. ASSUME NEW a \in Actors,
               MarkerFails(a) \/ \E p \in Products : IncrementFails(a, p)
        PROVE  ClaimInv'
    <3>1. CASE a \in Hooks
      BY <2>4, <3>1, RestockClaims
    <3>2. CASE a \notin Hooks
      BY <2>4, <3>2, StrangersClaims
    <3> QED
      BY <3>1, <3>2
  <2>5. ASSUME NEW a \in Actors, Crash(a) PROVE ClaimInv'
    <3>1. a \notin Hooks
      BY <2>5 DEF Crash, DeliveriesFinish
    <3> QED
      BY <2>5, <3>1, StrangersClaims
  <2> QED
    BY <1>7, <2>1, <2>2, <2>3, <2>4, <2>5 DEF Failure
<1>8. ASSUME NEW j \in Jobs, JobStep(j) PROVE ClaimInv'
  BY <1>8, StrangersClaims, ActorsAssumption DEF Actors
<1>9. ASSUME NEW s \in Staff,
             \/ StaffStep(s)
             \/ \E o \in Orders, target \in {"PAID", "CANCELLED", "EXPIRED"} :
                  Request(s, o, target)
      PROVE  ClaimInv'
  BY <1>9, StrangersClaims, ActorsAssumption DEF Actors
<1>10. CASE UNCHANGED vars
  BY <1>1, <1>2, <1>10 DEF vars
<1> QED
  BY <1>3, <1>4, <1>5, <1>6, <1>7, <1>8, <1>9, <1>10, HookClaims DEF Next

\* As long as no delivery stops halfway, an approved payment whose update was
\* recorded as processed is not forgotten, however the deliveries, failed lookups,
\* sweeps and requests interleave: whoever drops the event has released its claim
\* or found the order decided.
THEOREM ClaimsNotLost == DeliveriesFinish => (Spec => []ClaimNotLost)
<1> SUFFICES ASSUME DeliveriesFinish PROVE Spec => []ClaimNotLost
  OBVIOUS
<1>1. TypeInv /\ ClaimInv /\ [Next]_vars => TypeInv' /\ ClaimInv'
  BY TypeStep, ClaimInvStep
<1>2. ClaimInv => ClaimNotLost
  BY DEF ClaimInv
<1> QED
  BY <1>1, <1>2, InitType, ClaimInit, PTL DEF Spec
=============================================================================
