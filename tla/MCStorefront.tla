---------------------------- MODULE MCStorefront ----------------------------
(***************************************************************************)
(* Small instances of the parts of the storefront that have no state in    *)
(* common, for one run of TLC: a behaviour picks one part and only that    *)
(* part moves in it.  The states of the parts add up instead of            *)
(* multiplying, and every part is checked as if it were alone.             *)
(***************************************************************************)
EXTENDS Idempotency, Cart, Addresses, Checkout, Pricing, Breakers, TLC

VARIABLE part  \* the part of the storefront that moves

Parts == {"idempotency", "cart", "addresses", "checkout", "pricing", "gateway",
          "messages"}

vars == <<part, idempotencyVars, cartVars, addressVars, checkoutVars, pricingVars,
          gatewayVars, messageVars>>

NoMoves(p) ==
    /\ p # "idempotency" => UNCHANGED idempotencyVars
    /\ p # "cart" => UNCHANGED cartVars
    /\ p # "addresses" => UNCHANGED addressVars
    /\ p # "checkout" => UNCHANGED checkoutVars
    /\ p # "pricing" => UNCHANGED pricingVars
    /\ p # "gateway" => UNCHANGED gatewayVars
    /\ p # "messages" => UNCHANGED messageVars

\* One price and one score is enough where the part is not the pricing one.
Init ==
    /\ part \in Parts
    /\ IdempotencyInit /\ CartInit /\ AddressInit /\ CheckoutInit
    /\ GatewayInit /\ MessageInit
    /\ IF part = "pricing" THEN PricingInit
       ELSE /\ quote = [Unpriced(NoRequest) EXCEPT !.pc = "priced"]
            /\ risk = [Unscored(NoSignals) EXCEPT !.pc = "scored"]

Next ==
    /\ UNCHANGED part
    /\ NoMoves(part)
    /\ \/ part = "idempotency" /\ IdempotencyNext
       \/ part = "cart" /\ CartNext
       \/ part = "addresses" /\ AddressNext
       \/ part = "checkout" /\ CheckoutNext
       \/ part = "pricing" /\ PricingNext
       \/ part = "gateway" /\ GatewayNext
       \/ part = "messages" /\ MessageNext

Spec == Init /\ [][Next]_vars

TypeOK ==
    /\ part = "idempotency" => IdempotencyTypeOK
    /\ part = "cart" => CartTypeOK
    /\ part = "addresses" => AddressTypeOK
    /\ part = "checkout" => CheckoutTypeOK
    /\ part = "pricing" => PricingTypeOK
    /\ part = "gateway" => GatewayTypeOK
    /\ part = "messages" => MessageTypeOK

-----------------------------------------------------------------------------
\* Lines of one or two products with and without a rate of their own; the
\* first of 99 cents, where one cent of rounding shows.
Lines == [price : {99, 19990}, quantity : {1, 3}, productIva : {-1, 0}, categoryIva : {-1, 5},
          grams : {0, 700}]
SingleLines == {<<l>> : l \in Lines}
LinePairs == {<<l, m>> : l \in {k \in Lines : k.productIva = -1 /\ k.grams = 0}, m \in Lines}
Coupons == {[type |-> "NONE", value |-> 0]}
           \cup [type : {"PERCENT"}, value : {1000, 1250, 3300, 10000}]
           \cup [type : {"FIXED"}, value : {150, 100000}]
Rates == {[base |-> 1200, perKg |-> 355, freeAbove |-> -1],
          [base |-> 2000, perKg |-> -1, freeAbove |-> 20000]}
SomePrices == [lines : SingleLines \cup LinePairs, coupon : Coupons, estimate : {0, 1500},
               rate : Rates]

\* Every signal just below, between and above its two thresholds.
SomeRisks == {s \in [ip : {3, 4, 6}, email : {0, 3, 4}, phone : {0, 3, 4}, customer : {0, 3, 4},
                     young : BOOLEAN, gross : {80000000, 80000001, 200000001}, guest : BOOLEAN] :
                s.guest => s.customer = 0 /\ ~s.young}

Symmetric == Permutations(Checkouts)
=============================================================================
