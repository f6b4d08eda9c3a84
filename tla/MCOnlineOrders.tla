--------------------------- MODULE MCOnlineOrders ---------------------------
(* Small instances of OnlineOrders for TLC.                                *)
EXTENDS OnlineOrders, TLC

CONSTANTS first  \* the order that takes one unit of each product

\* The first order takes one unit of each product, any other two.
UnitsWanted == [o \in Orders |-> [p \in Products |-> IF o = first THEN 1 ELSE 2]]

\* Two units of each product to begin with: the orders compete for them.
TwoOfEach == [p \in Products |-> 2]

\* Three units: the first order and any other fit, all three do not.
ThreeOfEach == [p \in Products |-> 3]

\* Every payment is for the first order.
PaysFirst == [y \in Payments |-> first]

\* Deliveries, payments and products are interchangeable.
Symmetric == Permutations(Hooks) \cup Permutations(Payments) \cup Permutations(Products)
=============================================================================
