------------------------------ MODULE Checkout ------------------------------
(***************************************************************************)
(* POST /online-orders with a coupon: what the use case looks up, the one  *)
(* transaction that reserves stock, counts and redeems the coupon and      *)
(* inserts the order, and what follows the commit: the payment link and    *)
(* the clearing of the cart.                                               *)
(*                                                                         *)
(* The transaction decrements the products one after the other, in the     *)
(* order of the request; each of these statements locks the product's row  *)
(* until the transaction ends.  The count of the customer's redemptions    *)
(* is a plain query that sees what is committed when it runs.  The update  *)
(* of the coupon is guarded and comes last, so it is one step with the     *)
(* inserts and the commit.  Two transactions that wait for each other's    *)
(* products end when PostgreSQL ends one (AbortCheckout).  How the stock   *)
(* itself is guarded is the subject of OnlineOrders, prices of Pricing.    *)
(* Nothing in the program deactivates a coupon, so it stays active.        *)
(***************************************************************************)
EXTENDS Integers, Sequences, FiniteSets

CONSTANTS Checkouts,       \* the requests of an instance
          Buyers,          \* customers who are signed in
          Guest,           \* a request without a customer
          Goods,           \* products
          CouponUses,      \* maxUses of the coupon
          CustomerUses     \* perCustomerLimit of the coupon

ASSUME CheckoutAssumption ==
    /\ CouponUses \in Nat /\ CustomerUses \in Nat
    /\ Guest \notin Buyers
    /\ IsFiniteSet(Checkouts)

VARIABLES usedCount,  \* Coupon.usedCount
          checkout    \* checkout[k]: where request k stands

checkoutVars == <<usedCount, checkout>>

CheckoutSteps == {"idle", "lookup", "reserve", "count", "redeem",
                  "committed", "placed", "orphaned", "refused"}
\* goods: what is still to be reserved; locked: the rows it holds.
CheckoutRow == [pc : CheckoutSteps, buyer : Buyers \cup {Guest},
                items : SUBSET Goods, goods : Seq(Goods), locked : SUBSET Goods,
                coupon : BOOLEAN]

CheckoutTypeOK ==
    /\ usedCount \in Nat
    /\ checkout \in [Checkouts -> CheckoutRow]

\* A request that has not begun, or has ended without an order.
NoOrder(pc) == [pc |-> pc, buyer |-> Guest, items |-> {}, goods |-> <<>>,
                locked |-> {}, coupon |-> FALSE]

CheckoutInit ==
    /\ usedCount = 0
    /\ checkout = [k \in Checkouts |-> NoOrder("idle")]

-----------------------------------------------------------------------------
Committed == {"committed", "placed", "orphaned"}

\* The CouponRedemption rows that are committed, each named by its order.
Redemptions == {k \in Checkouts : checkout[k].pc \in Committed /\ checkout[k].coupon}
RedeemedBy(b) == {k \in Redemptions : checkout[k].buyer = b}

AdvanceTo(k, pc) == checkout' = [checkout EXCEPT ![k].pc = pc]
End(k, pc) == checkout' = [checkout EXCEPT ![k] = NoOrder(pc)]

\* A valid request: distinct products in some order, a guest or a customer.
Carts == {s \in [1..1 -> Goods] \cup [1..2 -> Goods] :
             \A i, j \in DOMAIN s : s[i] = s[j] => i = j}
ItemsOf(s) == {s[i] : i \in DOMAIN s}

Submit(k, buyer, goods, coupon) ==
    /\ checkout[k].pc = "idle"
    /\ checkout' = [checkout EXCEPT ![k] =
           [pc |-> "lookup", buyer |-> buyer, items |-> ItemsOf(goods), goods |-> goods,
            locked |-> {}, coupon |-> coupon]]
    /\ UNCHANGED usedCount

\* The coupon as the use case reads it, before the transaction.
Applicable == usedCount < CouponUses
LookUp(k) ==
    /\ checkout[k].pc = "lookup"
    /\ IF checkout[k].coupon /\ ~Applicable THEN End(k, "refused")
       ELSE AdvanceTo(k, "reserve")
    /\ UNCHANGED usedCount

\* Before the transaction anything else may refuse the request: a product
\* without price, the risk score, a flag, the coupon's scope, the zone.
RefuseOrder(k) ==
    /\ checkout[k].pc = "lookup"
    /\ End(k, "refused")
    /\ UNCHANGED usedCount

Unlocked(p) == \A k \in Checkouts : p \notin checkout[k].locked

\* The reservations come before the coupon.
AfterReserve(k) == IF checkout[k].coupon THEN "count" ELSE "redeem"

Reserve(k) ==
    /\ checkout[k].pc = "reserve"
    /\ checkout[k].goods # <<>>
    /\ Unlocked(Head(checkout[k].goods))
    /\ checkout' = [checkout EXCEPT ![k].goods = Tail(@),
                                    ![k].locked = @ \cup {Head(checkout[k].goods)}]
    /\ UNCHANGED usedCount

Reserved(k) ==
    /\ checkout[k].pc = "reserve"
    /\ checkout[k].goods = <<>>
    /\ AdvanceTo(k, AfterReserve(k))
    /\ UNCHANGED usedCount

\* A customer's redemptions are counted; a guest's are not.
MayRedeemOnceMore(b) == b = Guest \/ Cardinality(RedeemedBy(b)) <= CustomerUses
MayRedeem(b) == b = Guest \/ Cardinality(RedeemedBy(b)) < CustomerUses
CountRedemptions(k) ==
    /\ checkout[k].pc = "count"
    /\ IF MayRedeem(checkout[k].buyer)
       THEN AdvanceTo(k, "redeem") ELSE End(k, "refused")
    /\ UNCHANGED usedCount

\* The guarded UPDATE of the coupon.
StillUsableAsRead == TRUE
StillUsable == usedCount < CouponUses

\* The coupon is bumped, order, event, movements and redemption are
\* inserted, and the transaction commits.
CommitCheckout(k) ==
    /\ checkout[k].pc = "redeem"
    /\ checkout[k].coupon => StillUsable
    /\ usedCount' = usedCount + (IF checkout[k].coupon THEN 1 ELSE 0)
    /\ checkout' = [checkout EXCEPT ![k].pc = "committed", ![k].locked = {}]

\* A guard fails, a deadlock is resolved, or the process stops: whatever the
\* transaction did is undone.
AbortCheckout(k) ==
    /\ checkout[k].pc \in {"lookup", "reserve", "count", "redeem"}
    /\ End(k, "refused")
    /\ UNCHANGED usedCount

\* After the commit: the payment link, if the order is paid through the
\* gateway, and then the cart is cleared (see Cart) and the order answered.
PlaceOrder(k) ==
    /\ checkout[k].pc = "committed"
    /\ AdvanceTo(k, "placed")
    /\ UNCHANGED usedCount

\* The gateway refuses the link, or the process stops: the client gets an
\* error or nothing, and the order, its stock and its redemption stay.
LinkFails(k) ==
    /\ checkout[k].pc = "committed"
    /\ AdvanceTo(k, "orphaned")
    /\ UNCHANGED usedCount

CheckoutNext ==
    \E k \in Checkouts :
        \/ \E b \in Buyers \cup {Guest}, s \in Carts, coupon \in BOOLEAN :
              Submit(k, b, s, coupon)
        \/ LookUp(k) \/ RefuseOrder(k) \/ Reserve(k) \/ Reserved(k)
        \/ CountRedemptions(k) \/ CommitCheckout(k) \/ AbortCheckout(k)
        \/ PlaceOrder(k) \/ LinkFails(k)

CheckoutSpec == CheckoutInit /\ [][CheckoutNext]_checkoutVars

-----------------------------------------------------------------------------
(***************************************************************************)
(* Properties.                                                             *)
(***************************************************************************)

\* The coupon's counter is the number of its redemptions and never passes
\* maxUses, however many checkouts read it before it was used up.
CouponCounterExact ==
    /\ usedCount = Cardinality(Redemptions)
    /\ usedCount <= CouponUses

\* The limit per customer has no guard of its own, but orders that share a
\* product lock it before they count: a customer's redemptions by orders
\* that pairwise share a product stay within the limit.  (Orders of
\* different products at once may exceed it.)
SharedGoodsKeepLimit ==
    \A b \in Buyers : \A R \in SUBSET RedeemedBy(b) :
        (\A j, k \in R : checkout[j].items \cap checkout[k].items # {})
        => Cardinality(R) <= CustomerUses
=============================================================================
