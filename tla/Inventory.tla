----------------------------- MODULE Inventory ------------------------------
(***************************************************************************)
(* The stock of one product, which is kept twice: on the product and on    *)
(* its variants (the "dual write").  Physical sales move the product and   *)
(* the variant sold, online orders the product and the default variant,    *)
(* staff adjust both by a difference or set a variant to a count.          *)
(*                                                                         *)
(* A staff request reads and checks in plain queries and then runs one     *)
(* transaction; the two are separate steps.  An edit of a variant without  *)
(* attributes is not a transaction: its two updates are separate steps.    *)
(* A sale here has one item.  A row that is referred to by others does not *)
(* keep them from going: deleting a variant sets the variant of its sale   *)
(* items to NULL (ON DELETE SET NULL).                                     *)
(***************************************************************************)
EXTENDS Integers, FiniteSets, Functions

CONSTANTS VariantRows,    \* bound: the variants the product may ever have
          MainVariant,    \* the row of the default variant
          SaleRows,       \* bound: sales
          OrderRows,      \* bound: online orders
          Clerks,         \* staff requests that may be under way at once
          Counts,         \* the units a request may name
          MaxTasks,       \* bound: the staff requests of an instance
          MaxCancels,     \* bound: how often one order is cancelled or expired
          NoVariant, NoSale

ASSUME InventoryAssumption ==
    /\ MainVariant \in VariantRows /\ NoVariant \notin VariantRows
    /\ NoSale \notin SaleRows
    /\ Counts \subseteq Nat \ {0} /\ MaxTasks \in Nat /\ MaxCancels \in Nat
    /\ IsFiniteSet(VariantRows) /\ IsFiniteSet(SaleRows) /\ IsFiniteSet(OrderRows)

VARIABLES product,   \* the Product row
          variant,   \* variant[v]: the ProductVariant rows
          sale,      \* sale[s]: the sales and their items
          order,     \* order[o]: the online orders of this product
          task,      \* task[c]: what a staff request has read and does next
          tasks,     \* how many staff requests there have been
          received,  \* units received or counted: by the product, by each variant
          history    \* what has happened that the properties make exceptions for

inventoryVars == <<product, variant, sale, order, task, tasks, received, history>>

Product == [created : BOOLEAN, active : BOOLEAN, stock : Int]
Variant == [state : {"unused", "live", "deleted"}, stock : Int]
\* variant: SaleItem.variantId; took: what was decremented when it was sold.
Sale == [state : {"unused", "live", "deleted"}, variant : VariantRows \cup {NoVariant},
         took : VariantRows \cup {NoVariant}, units : Counts \cup {0}]
\* cancelled: how often a cancellation or an expiry of it was written;
\* returned: how often its units were given back.
Order == {row \in [state : {"unused", "pending", "settled"}, units : Counts \cup {0},
                   cancelled : 0..MaxCancels, returned : Nat] :
              row.state = "unused" => row.cancelled = 0 /\ row.returned = 0}
Task == [pc : {"idle", "sell", "unsell", "adjust", "edit", "editProduct", "drop"},
         variant : VariantRows \cup {NoVariant}, sale : SaleRows \cup {NoSale}, units : Int]
History == [lowered : BOOLEAN, reshaped : BOOLEAN,
            strayed : BOOLEAN, orderSaleDeleted : BOOLEAN]

InventoryTypeOK ==
    /\ product \in Product
    /\ variant \in [VariantRows -> Variant]
    /\ sale \in [SaleRows -> Sale]
    /\ order \in [OrderRows -> Order]
    /\ task \in [Clerks -> Task]
    /\ tasks \in 0..MaxTasks
    /\ received \in [product : Int, variant : [VariantRows -> Int]]
    /\ history \in History

NoTask == [pc |-> "idle", variant |-> NoVariant, sale |-> NoSale, units |-> 0]

InventoryInit ==
    /\ product = [created |-> FALSE, active |-> TRUE, stock |-> 0]
    /\ variant = [v \in VariantRows |-> [state |-> "unused", stock |-> 0]]
    /\ sale = [s \in SaleRows |-> [state |-> "unused", variant |-> NoVariant,
                                   took |-> NoVariant, units |-> 0]]
    /\ order = [o \in OrderRows |-> [state |-> "unused", units |-> 0,
                                     cancelled |-> 0, returned |-> 0]]
    /\ task = [c \in Clerks |-> NoTask]
    /\ tasks = 0
    /\ received = [product |-> 0, variant |-> [v \in VariantRows |-> 0]]
    /\ history = [lowered |-> FALSE, reshaped |-> FALSE,
                  strayed |-> FALSE, orderSaleDeleted |-> FALSE]

-----------------------------------------------------------------------------
LiveVariants == {v \in VariantRows : variant[v].state = "live"}
FreshVariants == {v \in VariantRows : variant[v].state = "unused"}
FreshSales == {s \in SaleRows : sale[s].state = "unused"}

\* An order that took its units and did not give them back.
Holds(row) == row.state # "unused" /\ row.returned = 0

\* Units that left the shelf and may still come back: by sales that took
\* them from one of the variants V, and by orders that hold them.
SoldFrom(V) == SumFunctionOnSet([s \in SaleRows |-> sale[s].units],
                             {s \in SaleRows : sale[s].state = "live" /\ sale[s].took \in V})
Reserved == SumFunctionOnSet([o \in OrderRows |-> order[o].units],
                             {o \in OrderRows : Holds(order[o])})
Out(v) == SoldFrom({v}) + (IF v = MainVariant THEN Reserved ELSE 0)
OutOfProduct == SoldFrom(VariantRows) + Reserved

\* The counters of the product and of variant v move by n.
MoveBoth(v, n) ==
    /\ product' = [product EXCEPT !.stock = @ + n]
    /\ variant' = [variant EXCEPT ![v].stock = @ + n]

StartTask(c, t) ==
    /\ task[c].pc = "idle"
    /\ product.created
    /\ tasks < MaxTasks
    /\ tasks' = tasks + 1
    /\ task' = [task EXCEPT ![c] = t]
    /\ UNCHANGED <<product, variant, sale, order, received, history>>

FinishTask(c) == task' = [task EXCEPT ![c] = NoTask]

-----------------------------------------------------------------------------
\* POST /products, quick-create, and a sale of a new product: one variant,
\* the default one, which holds what the product holds.
CreateProduct(n) ==
    /\ ~product.created
    /\ product' = [product EXCEPT !.created = TRUE, !.stock = n]
    /\ variant' = [variant EXCEPT ![MainVariant] = [state |-> "live", stock |-> n]]
    /\ received' = [product |-> n, variant |-> [received.variant EXCEPT ![MainVariant] = n]]
    /\ UNCHANGED <<sale, order, task, tasks, history>>

\* CreateSaleDto: a new product comes with the units of it that are sold.
NewProductAccepted(n, units) == units \in 1..n

\* The sale of a product that is not in the catalogue yet creates it and
\* takes its units in one transaction.
SellNewProduct(s, n, units) ==
    /\ ~product.created
    /\ s \in FreshSales /\ NewProductAccepted(n, units)
    /\ product' = [product EXCEPT !.created = TRUE, !.stock = n - units]
    /\ variant' = [variant EXCEPT ![MainVariant] = [state |-> "live", stock |-> n - units]]
    /\ sale' = [sale EXCEPT ![s] = [state |-> "live", variant |-> MainVariant,
                                    took |-> MainVariant, units |-> units]]
    /\ received' = [product |-> n, variant |-> [received.variant EXCEPT ![MainVariant] = n]]
    /\ UNCHANGED <<order, task, tasks, history>>

\* quick-create-with-variants: the first variant is the default one and the
\* product holds what all of them hold.
QuickCreateWithVariants(v, n, m) ==
    /\ ~product.created
    /\ v # MainVariant
    /\ product' = [product EXCEPT !.created = TRUE, !.stock = n + m]
    /\ variant' = [variant EXCEPT ![MainVariant] = [state |-> "live", stock |-> n],
                                  ![v] = [state |-> "live", stock |-> m]]
    /\ received' = [product |-> n + m,
                    variant |-> [received.variant EXCEPT ![MainVariant] = n, ![v] = m]]
    /\ UNCHANGED <<sale, order, task, tasks, history>>

\* DELETE /products/:id and bulk-active; the stock of an inactive product
\* still moves when what was sold before comes back.
SetActive(active) ==
    /\ tasks < MaxTasks /\ tasks' = tasks + 1
    /\ product.created /\ product.active # active
    /\ product' = [product EXCEPT !.active = active]
    /\ UNCHANGED <<variant, sale, order, task, received, history>>

-----------------------------------------------------------------------------
\* POST /sales: the use case looks the product up and compares the stock of
\* the variant named, or of the default one.
ValidateSale(c, v, units) ==
    /\ product.active
    /\ v \in LiveVariants
    /\ variant[v].stock >= units
    /\ StartTask(c, [pc |-> "sell", variant |-> v, sale |-> NoSale, units |-> units])

\* The guard of the update of the variant, with the stock of that moment.
\* Mutant: what the use case read is trusted.
StillThereAsRead(c) == TRUE
StillThere(c) == variant[task[c].variant].stock >= task[c].units

\* Its transaction decrements the product and, if the units are still
\* there, the variant; otherwise nothing of it remains.
CommitSale(c, s) ==
    LET v == task[c].variant IN
    /\ task[c].pc = "sell"
    /\ s \in FreshSales
    /\ v \in LiveVariants
    /\ StillThere(c)
    /\ MoveBoth(v, -task[c].units)
    /\ sale' = [sale EXCEPT ![s] = [state |-> "live", variant |-> v, took |-> v,
                                    units |-> task[c].units]]
    /\ FinishTask(c)
    /\ UNCHANGED <<order, tasks, received, history>>

RollBackSale(c) ==
    /\ task[c].pc = "sell"
    /\ task[c].variant \in LiveVariants => ~StillThere(c)
    /\ FinishTask(c)
    /\ UNCHANGED <<product, variant, sale, order, tasks, received, history>>

\* DELETE /sales/:id reads the sale with its items...
ReadSale(c, s) ==
    /\ sale[s].state = "live"
    /\ StartTask(c, [pc |-> "unsell", variant |-> sale[s].variant, sale |-> s,
                 units |-> sale[s].units])

\* Mutant of ReturnTo: whatever variant was sold.
ReturnToDefault(v) == MainVariant

\* ...and gives the units back to the variant it read, or to the default
\* one when there was none.  The variant must still be there.
ReturnTo(v) == IF v = NoVariant THEN MainVariant ELSE v

CommitDelete(c) ==
    LET s == task[c].sale
        v == ReturnTo(task[c].variant) IN
    /\ task[c].pc = "unsell"
    /\ sale[s].state = "live"
    /\ v \in LiveVariants
    /\ MoveBoth(v, task[c].units)
    /\ sale' = [sale EXCEPT ![s].state = "deleted"]
    /\ history' = [history EXCEPT !.orderSaleDeleted = @ \/ sale[s].took = NoVariant]
    /\ FinishTask(c)
    /\ UNCHANGED <<order, tasks, received>>

RollBackDelete(c) ==
    /\ task[c].pc = "unsell"
    /\ sale[task[c].sale].state = "live" => ReturnTo(task[c].variant) \notin LiveVariants
    /\ FinishTask(c)
    /\ UNCHANGED <<product, variant, sale, order, tasks, received, history>>

-----------------------------------------------------------------------------
\* PATCH /products/:id/stock: the use case refuses what the stock it read
\* does not cover; the transaction then moves both counters unguarded.
CheckAdjustment(c, n) ==
    /\ product.active
    /\ product.stock + n >= 0
    /\ StartTask(c, [pc |-> "adjust", variant |-> MainVariant, sale |-> NoSale, units |-> n])

CommitAdjustment(c) ==
    LET n == task[c].units IN
    /\ task[c].pc = "adjust"
    /\ MoveBoth(MainVariant, n)
    /\ received' = [product |-> received.product + n,
                    variant |-> [received.variant EXCEPT ![MainVariant] = @ + n]]
    /\ history' = [history EXCEPT !.lowered = @ \/ n < 0]
    /\ FinishTask(c)
    /\ UNCHANGED <<sale, order, tasks>>

\* PATCH /variants/:id with a stock and no attributes: the variant is set to
\* the count, and then, when it is the default one, so is the product.
UpdateVariant(c, v, n) ==
    /\ task[c].pc = "idle"
    /\ tasks < MaxTasks /\ tasks' = tasks + 1
    /\ v \in LiveVariants
    /\ variant' = [variant EXCEPT ![v].stock = n]
    /\ received' = [received EXCEPT !.variant[v] = n + Out(v)]
    /\ history' = [history EXCEPT !.reshaped = TRUE]
    /\ task' = IF v # MainVariant THEN task
               ELSE [task EXCEPT ![c] = [pc |-> "editProduct", variant |-> v,
                                         sale |-> NoSale, units |-> n]]
    /\ UNCHANGED <<product, sale, order>>

UpdateProductStock(c) ==
    /\ task[c].pc = "editProduct"
    /\ product' = [product EXCEPT !.stock = task[c].units]
    /\ received' = [received EXCEPT !.product = task[c].units + OutOfProduct]
    /\ FinishTask(c)
    /\ UNCHANGED <<variant, sale, order, tasks, history>>

\* The process may stop, or the second update fail, after the first.
EditAbandoned(c) ==
    /\ task[c].pc = "editProduct"
    /\ FinishTask(c)
    /\ UNCHANGED <<product, variant, sale, order, tasks, received, history>>

\* With attributes the same two updates are one transaction.
UpdateVariantWithAttributes(v, n) ==
    /\ tasks < MaxTasks /\ tasks' = tasks + 1
    /\ v \in LiveVariants
    /\ variant' = [variant EXCEPT ![v].stock = n]
    /\ IF v = MainVariant
       THEN /\ product' = [product EXCEPT !.stock = n]
            /\ received' = [product |-> n + OutOfProduct,
                            variant |-> [received.variant EXCEPT ![v] = n + Out(v)]]
       ELSE /\ received' = [received EXCEPT !.variant[v] = n + Out(v)]
            /\ UNCHANGED product
    /\ history' = [history EXCEPT !.reshaped = TRUE]
    /\ UNCHANGED <<sale, order, task>>

\* POST /products/:id/variants: the product does not count what it brings.
CreateVariant(v, n) ==
    /\ tasks < MaxTasks /\ tasks' = tasks + 1
    /\ product.created /\ product.active
    /\ v \in FreshVariants \ {MainVariant}
    /\ variant' = [variant EXCEPT ![v] = [state |-> "live", stock |-> n]]
    /\ received' = [received EXCEPT !.variant[v] = n]
    /\ history' = [history EXCEPT !.reshaped = TRUE]
    /\ UNCHANGED <<product, sale, order, task>>

\* DELETE /variants/:id checks that no sale item names the variant...
CheckVariantUnsold(c, v) ==
    /\ v \in LiveVariants \ {MainVariant}
    /\ \A s \in SaleRows : sale[s].state = "live" => sale[s].variant # v
    /\ StartTask(c, [pc |-> "drop", variant |-> v, sale |-> NoSale, units |-> 0])

\* ...and deletes it; a sale made in between loses its variant.
DropVariant(c) ==
    LET v == task[c].variant
        strays == {s \in SaleRows : sale[s].state = "live" /\ sale[s].variant = v} IN
    /\ task[c].pc = "drop"
    /\ v \in LiveVariants
    /\ variant' = [variant EXCEPT ![v].state = "deleted"]
    /\ sale' = [s \in SaleRows |-> IF s \in strays
                                   THEN [sale[s] EXCEPT !.variant = NoVariant] ELSE sale[s]]
    /\ history' = [history EXCEPT !.reshaped = TRUE, !.strayed = @ \/ strays # {}]
    /\ FinishTask(c)
    /\ UNCHANGED <<product, order, tasks, received>>

DropFails(c) ==
    /\ task[c].pc = "drop"
    /\ task[c].variant \notin LiveVariants
    /\ FinishTask(c)
    /\ UNCHANGED <<product, variant, sale, order, tasks, received, history>>

-----------------------------------------------------------------------------
\* The transaction of POST /online-orders: both counters are guarded.
ReserveOrder(o, units) ==
    /\ order[o].state = "unused"
    /\ product.active
    /\ product.stock >= units /\ variant[MainVariant].stock >= units
    /\ MoveBoth(MainVariant, -units)
    /\ order' = [order EXCEPT ![o] = [state |-> "pending", units |-> units,
                                      cancelled |-> 0, returned |-> 0]]
    /\ UNCHANGED <<sale, task, tasks, received, history>>

\* A webhook that found the order pending, or staff, pays it, and cancels it,
\* by id: whatever has become of it since.
MarkPaid(o) ==
    /\ order[o].state # "unused"
    /\ order' = [order EXCEPT ![o].state = "settled"]
    /\ UNCHANGED <<product, variant, sale, task, tasks, received, history>>

CancelByWebhook(o) ==
    /\ order[o].state # "unused"
    /\ order[o].cancelled < MaxCancels
    /\ order' = [order EXCEPT ![o].state = "settled", ![o].cancelled = @ + 1]
    /\ UNCHANGED <<product, variant, sale, task, tasks, received, history>>

\* The sweep and the staff expire or cancel it only while it is pending.
EndPending(o) ==
    /\ order[o].state = "pending"
    /\ order[o].cancelled < MaxCancels
    /\ order' = [order EXCEPT ![o].state = "settled", ![o].cancelled = @ + 1]
    /\ UNCHANGED <<product, variant, sale, task, tasks, received, history>>

\* Whoever cancelled it then gives its units back, and does not look whether
\* another one has.  A failure or a crash before leaves them out for good.
ReturnUnits(o) ==
    /\ order[o].returned < order[o].cancelled
    /\ MoveBoth(MainVariant, order[o].units)
    /\ order' = [order EXCEPT ![o].returned = @ + 1]
    /\ UNCHANGED <<sale, task, tasks, received, history>>

\* An order that staff mark as paid, once more or whatever it was, becomes a
\* sale, which takes nothing again; its item names the default variant.
SellOrder(o, s) ==
    /\ order[o].state # "unused"
    /\ s \in FreshSales
    /\ order' = [order EXCEPT ![o].state = "settled"]
    /\ sale' = [sale EXCEPT ![s] = [state |-> "live", variant |-> MainVariant,
                                    took |-> NoVariant, units |-> order[o].units]]
    /\ UNCHANGED <<product, variant, task, tasks, received, history>>

InventoryNext ==
    \/ \E n \in Counts : CreateProduct(n)
    \/ \E s \in SaleRows, n, units \in Counts : SellNewProduct(s, n, units)
    \/ \E v \in VariantRows, n, m \in Counts : QuickCreateWithVariants(v, n, m)
    \/ \E active \in BOOLEAN : SetActive(active)
    \/ \E c \in Clerks :
           \/ \E v \in VariantRows, units \in Counts : ValidateSale(c, v, units)
           \/ \E s \in SaleRows : CommitSale(c, s) \/ ReadSale(c, s)
           \/ RollBackSale(c) \/ CommitDelete(c) \/ RollBackDelete(c)
           \/ \E n \in Counts : CheckAdjustment(c, n) \/ CheckAdjustment(c, -n)
           \/ CommitAdjustment(c)
           \/ \E v \in VariantRows, n \in Counts : UpdateVariant(c, v, n)
           \/ UpdateProductStock(c) \/ EditAbandoned(c)
           \/ \E v \in VariantRows : CheckVariantUnsold(c, v)
           \/ DropVariant(c) \/ DropFails(c)
    \/ \E v \in VariantRows, n \in Counts :
           UpdateVariantWithAttributes(v, n) \/ CreateVariant(v, n)
    \/ \E o \in OrderRows, units \in Counts : ReserveOrder(o, units)
    \/ \E o \in OrderRows :
           MarkPaid(o) \/ CancelByWebhook(o) \/ EndPending(o) \/ ReturnUnits(o)
    \/ \E o \in OrderRows, s \in SaleRows : SellOrder(o, s)

InventorySpec == InventoryInit /\ [][InventoryNext]_inventoryVars

-----------------------------------------------------------------------------
\* No order gave its units back twice: a webhook that found it pending, and
\* cancels it by id when it was expired, cancelled or returned meanwhile, does.
ReturnedOnce == \A o \in OrderRows : order[o].returned <= 1

\* Every unit is on the shelf or out with a sale or an order that may bring
\* it back, by the product's counter and by each variant's, as long as no
\* order gave its units back twice, no variant was deleted under a sale of it
\* and no sale made from an online order was deleted (which brings back units
\* it never took).
UnitsAccounted ==
    (product.created /\ ReturnedOnce /\ ~history.strayed /\ ~history.orderSaleDeleted) =>
        /\ product.stock + OutOfProduct = received.product
        /\ \A v \in LiveVariants : variant[v].stock + Out(v) = received.variant[v]

\* No counter that the checkout and the sales guard goes below zero.  Only
\* a negative adjustment can take the default variant there, which is
\* checked against the product's counter as it was read; the product's
\* counter, which sales lower unguarded, needs that no variant was created,
\* edited or deleted since the product was.
NeverOversold ==
    /\ \A v \in LiveVariants \ {MainVariant} : variant[v].stock >= 0
    /\ ~history.lowered => variant[MainVariant].stock >= 0
    /\ ~history.lowered /\ ~history.reshaped => product.stock >= 0
=============================================================================
