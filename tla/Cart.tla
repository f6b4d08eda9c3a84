-------------------------------- MODULE Cart --------------------------------
(***************************************************************************)
(* The storefront's carts: one per customer and one per anonymous session, *)
(* the merge of a session's cart into a customer's at login, registration  *)
(* or Google sign-in, and the clearing of a cart after a checkout.         *)
(*                                                                         *)
(* A visit is one HTTP request.  It finds or creates the cart of its owner *)
(* in plain queries and then runs one prisma.$transaction, which first     *)
(* reads (one action) and then writes what it computed from that reading   *)
(* (one action, at the commit).  PostgreSQL is under READ COMMITTED, so    *)
(* others commit in between; a write that finds its row gone, or a unique  *)
(* key taken, rolls the transaction back and the visit fails.  The lookups *)
(* a merge makes line by line are taken together, and so are its writes.   *)
(* Refusals before the first write (a bad quantity, a product that is not  *)
(* for sale, a session token shorter than eight characters) change nothing *)
(* and are left out.  Rows are never reused.                               *)
(***************************************************************************)
EXTENDS Integers, FiniteSets, Functions

CONSTANTS Customers, Sessions, Variants, Visits,
          CartRows, ItemRows,  \* bounds: the Cart and CartItem rows there may ever be
          MaxQuantity,         \* bound: the quantity of one request (999 in the code)
          MaxVisits,           \* bound: the requests of an instance
          Nothing

ASSUME CartAssumption ==
    /\ MaxQuantity \in Nat \ {0} /\ MaxVisits \in Nat
    /\ Nothing \notin Customers \cup Sessions \cup CartRows \cup ItemRows
    /\ Customers \cap Sessions = {}
    /\ {"unused", "deleted"} \cap (Customers \cup Sessions) = {}
    /\ Customers \cup Sessions # {} /\ Variants # {}
    /\ IsFiniteSet(CartRows) /\ IsFiniteSet(ItemRows)

Owners == Customers \cup Sessions
Quantities == 1..MaxQuantity

VARIABLES cart,      \* cart[r]: "unused", "deleted", or the owner of row r
          item,      \* item[i]: the CartItem rows
          visit,     \* visit[v]: what a request has read and does next
          visits,    \* how many requests there have been
          expected,  \* expected[o][v]: what o's cart would hold one request at a time
          added,     \* added[v]: the units of v that requests ever put in a cart
          overlap    \* whether two requests were ever under way at once

cartVars == <<cart, item, visit, visits, expected, added, overlap>>

Item == [state : {"unused", "live", "deleted"}, cart : CartRows \cup {Nothing},
         variant : Variants, quantity : Nat]
CartSteps == {"idle", "find", "create", "add", "addWrite", "set", "setWrite",
              "remove", "merge", "mergeInto", "adopt", "discard", "clear"}
Visit == [pc : CartSteps, op : {"add", "set", "remove", "merge", "clear", "get"},
          owner : Owners, target : Customers \cup {Nothing},
          variant : Variants, quantity : 0..MaxQuantity,
          item : ItemRows \cup {Nothing},
          cart : CartRows \cup {Nothing}, into : CartRows \cup {Nothing},
          lines : SUBSET ItemRows, read : [Variants -> Nat]]

CartTypeOK ==
    /\ cart \in [CartRows -> Owners \cup {"unused", "deleted"}]
    /\ item \in [ItemRows -> Item]
    /\ visit \in [Visits -> Visit]
    /\ visits \in 0..MaxVisits
    /\ expected \in [Owners -> [Variants -> Nat]]
    /\ added \in [Variants -> Nat]
    /\ overlap \in BOOLEAN

NoUnits == [v \in Variants |-> 0]
AnyOf(S) == CHOOSE x \in S : TRUE

Away == [pc |-> "idle", op |-> "get", owner |-> AnyOf(Owners), target |-> Nothing,
         variant |-> AnyOf(Variants), quantity |-> 0, item |-> Nothing,
         cart |-> Nothing, into |-> Nothing, lines |-> {}, read |-> NoUnits]

CartInit ==
    /\ cart = [r \in CartRows |-> "unused"]
    /\ item = [i \in ItemRows |-> [state |-> "unused", cart |-> Nothing,
                                   variant |-> AnyOf(Variants), quantity |-> 0]]
    /\ visit = [v \in Visits |-> Away]
    /\ visits = 0
    /\ expected = [o \in Owners |-> NoUnits]
    /\ added = NoUnits
    /\ overlap = FALSE

-----------------------------------------------------------------------------
(* Queries.                                                                *)

CartsOf(o) == {r \in CartRows : cart[r] = o}
LinesOf(r) == {i \in ItemRows : item[i].state = "live" /\ item[i].cart = r}
LineOf(r, v) == {i \in LinesOf(r) : item[i].variant = v}
LiveCarts == {r \in CartRows : cart[r] \in Owners}
InCart(r, v) == SumFunctionOnSet([i \in ItemRows |-> item[i].quantity], LineOf(r, v))
InCarts(R, v) == SumFunctionOnSet([r \in CartRows |-> InCart(r, v)], R)
Holds(o, v) == InCarts(CartsOf(o), v)
InAllCarts(v) == InCarts(LiveCarts, v)

FreshCarts == {r \in CartRows : cart[r] = "unused"}
FreshItems == {i \in ItemRows : item[i].state = "unused"}

\* The rows a cart that is deleted takes with it (onDelete: Cascade).
Without(r) == [i \in ItemRows |->
    IF i \in LinesOf(r) THEN [item[i] EXCEPT !.state = "deleted"] ELSE item[i]]

Leave(v) == visit' = [visit EXCEPT ![v] = Away]
CartStep(v, pc) == visit' = [visit EXCEPT ![v].pc = pc]

\* A request begins; the item of an update or a removal is one the client
\* has seen, so it may be gone by now.
Begin(v, op, o, c, x, q, i) ==
    /\ visit[v].pc = "idle"
    /\ visits < MaxVisits
    /\ op = "merge" <=> c # Nothing
    /\ op = "merge" => o \in Sessions
    /\ op \in {"set", "remove"} <=> i # Nothing
    /\ i # Nothing => item[i].state # "unused" /\ item[i].variant = x
    /\ op = "add" => q > 0
    /\ op \notin {"add", "set"} => q = 0
    /\ i = Nothing /\ op # "add" => x = AnyOf(Variants)
    /\ visits' = visits + 1
    /\ overlap' = (overlap \/ \E u \in Visits : visit[u].pc # "idle")
    /\ visit' = [visit EXCEPT ![v] =
           [Away EXCEPT !.pc = IF op \in {"merge", "clear"} THEN op ELSE "find",
                        !.op = op, !.owner = o, !.target = c,
                        !.variant = x, !.quantity = q, !.item = i]]
    /\ UNCHANGED <<cart, item, expected, added>>

\* GetCartUseCase: the owner's cart, created when there is none.
FindCart(v) ==
    /\ visit[v].pc = "find"
    /\ IF CartsOf(visit[v].owner) = {}
       THEN CartStep(v, "create")
       ELSE \E r \in CartsOf(visit[v].owner) :
              IF visit[v].op = "get" THEN Leave(v)
              ELSE visit' = [visit EXCEPT ![v].pc = visit[v].op, ![v].cart = r]
    /\ UNCHANGED <<cart, item, visits, expected, added, overlap>>

CreateCart(v) ==
    /\ visit[v].pc = "create"
    /\ CartsOf(visit[v].owner) = {}
    /\ FreshCarts # {}
    /\ LET r == AnyOf(FreshCarts)
       IN  /\ cart' = [cart EXCEPT ![r] = visit[v].owner]
           /\ IF visit[v].op = "get" THEN Leave(v)
              ELSE visit' = [visit EXCEPT ![v].pc = visit[v].op, ![v].cart = r]
    /\ UNCHANGED <<item, visits, expected, added, overlap>>

-----------------------------------------------------------------------------
(* Adding to a line: its quantity is read, and written back with more.     *)

ReadLine(v) ==
    /\ visit[v].pc = "add"
    /\ LET line == LineOf(visit[v].cart, visit[v].variant)
       IN  visit' = [visit EXCEPT
               ![v].pc = "addWrite",
               ![v].item = IF line = {} THEN Nothing ELSE AnyOf(line),
               ![v].read[visit[v].variant] = InCart(visit[v].cart, visit[v].variant)]
    /\ UNCHANGED <<cart, item, visits, expected, added, overlap>>

\* What a line holds once more units are added to what it held.
LineReplaced(held, more) == more
LineTotal(held, more) == held + more

Expect(o, x, q) == expected' = [expected EXCEPT ![o][x] = q]

AddLine(v) ==
    /\ visit[v].pc = "addWrite"
    /\ LET r == visit[v].cart
           x == visit[v].variant
           q == visit[v].quantity
       IN  /\ cart[r] \in Owners
           /\ IF visit[v].item # Nothing
              THEN /\ item[visit[v].item].state = "live"
                   /\ item' = [item EXCEPT ![visit[v].item].quantity =
                                  LineTotal(visit[v].read[x], q)]
              ELSE /\ LineOf(r, x) = {}
                   /\ FreshItems # {}
                   /\ item' = [item EXCEPT ![AnyOf(FreshItems)] =
                          [state |-> "live", cart |-> r, variant |-> x, quantity |-> q]]
           /\ added' = [added EXCEPT ![x] = @ + q]
           /\ Expect(visit[v].owner, x, expected[visit[v].owner][x] + q)
    /\ Leave(v)
    /\ UNCHANGED <<cart, visits, overlap>>

-----------------------------------------------------------------------------
(* Setting a line's quantity, 0 to remove it, and removing a line.         *)

\* A line that is not in this cart is answered with the cart as it is.
ReadItem(v) ==
    /\ visit[v].pc = "set"
    /\ IF visit[v].item \in LinesOf(visit[v].cart)
       THEN CartStep(v, "setWrite") ELSE Leave(v)
    /\ UNCHANGED <<cart, item, visits, expected, added, overlap>>

SetLine(v) ==
    /\ visit[v].pc = "setWrite"
    /\ LET i == visit[v].item
           q == visit[v].quantity
       IN  /\ item[i].state = "live"
           /\ cart[visit[v].cart] \in Owners
           /\ item' = [item EXCEPT ![i] =
                  IF q = 0 THEN [@ EXCEPT !.state = "deleted"]
                           ELSE [@ EXCEPT !.quantity = q]]
           /\ added' = [added EXCEPT ![item[i].variant] =
                  @ + IF q > item[i].quantity THEN q - item[i].quantity ELSE 0]
           /\ Expect(visit[v].owner, item[i].variant, q)
    /\ Leave(v)
    /\ UNCHANGED <<cart, visits, overlap>>

RemoveLine(v) ==
    /\ visit[v].pc = "remove"
    /\ cart[visit[v].cart] \in Owners
    /\ IF visit[v].item \in LinesOf(visit[v].cart)
       THEN /\ item' = [item EXCEPT ![visit[v].item].state = "deleted"]
            /\ Expect(visit[v].owner, item[visit[v].item].variant, 0)
       ELSE UNCHANGED <<item, expected>>
    /\ Leave(v)
    /\ UNCHANGED <<cart, visits, added, overlap>>

-----------------------------------------------------------------------------
(* The merge at login: the session's cart becomes the customer's, or its   *)
(* lines are added to the customer's and it is deleted.                    *)

MergeRead(v) ==
    /\ visit[v].pc = "merge"
    /\ IF CartsOf(visit[v].owner) = {} THEN Leave(v)
       ELSE \E r \in CartsOf(visit[v].owner) :
              visit' = [visit EXCEPT
                  ![v].pc = IF LinesOf(r) = {} THEN "discard" ELSE "mergeInto",
                  ![v].cart = r, ![v].lines = LinesOf(r),
                  ![v].read = [x \in Variants |-> InCart(r, x)]]
    /\ UNCHANGED <<cart, item, visits, expected, added, overlap>>

\* An anonymous cart that was read without lines is deleted.
DiscardCart(v) ==
    /\ visit[v].pc = "discard"
    /\ cart[visit[v].cart] \in Owners
    /\ cart' = [cart EXCEPT ![visit[v].cart] = "deleted"]
    /\ item' = Without(visit[v].cart)
    /\ expected' = [expected EXCEPT ![visit[v].owner] = NoUnits]
    /\ Leave(v)
    /\ UNCHANGED <<visits, added, overlap>>

\* The customer's cart and the lines there of what is to be merged: read
\* becomes what each line will hold.
MergeLookup(v) ==
    /\ visit[v].pc = "mergeInto"
    /\ visit[v].into = Nothing
    /\ IF CartsOf(visit[v].target) = {} THEN CartStep(v, "adopt")
       ELSE \E r \in CartsOf(visit[v].target) :
              visit' = [visit EXCEPT
                  ![v].into = r,
                  ![v].lines = UNION {LineOf(r, item[i].variant) : i \in visit[v].lines},
                  ![v].read = [x \in Variants |->
                      IF @[x] > 0 THEN LineTotal(InCart(r, x), @[x]) ELSE 0]]
    /\ UNCHANGED <<cart, item, visits, expected, added, overlap>>

Merged(v) == [expected EXCEPT
    ![visit[v].target] = [x \in Variants |-> @[x] + expected[visit[v].owner][x]],
    ![visit[v].owner] = NoUnits]

AdoptCart(v) ==
    /\ visit[v].pc = "adopt"
    /\ cart[visit[v].cart] \in Owners
    /\ CartsOf(visit[v].target) \subseteq {visit[v].cart}
    /\ cart' = [cart EXCEPT ![visit[v].cart] = visit[v].target]
    /\ expected' = Merged(v)
    /\ Leave(v)
    /\ UNCHANGED <<item, visits, added, overlap>>

\* The variants that the merge writes, those it writes to a line it found,
\* and the rows it can use for the others.
MergedVariants(v) == {x \in Variants : visit[v].read[x] > 0}
FoundVariants(v) == {item[i].variant : i \in visit[v].lines}
Placements(v) == {f \in [MergedVariants(v) \ FoundVariants(v) -> FreshItems] :
                  \A x, y \in DOMAIN f : f[x] = f[y] => x = y}

\* The session's cart must still be there when the merge deletes it, and the
\* customer's when the merge then touches it: it may be the same cart, which
\* another merge gave to the customer.
SourceAny(v) == TRUE
SourceThere(v) == cart[visit[v].cart] \in Owners

MergeLines(v) ==
    /\ visit[v].pc = "mergeInto"
    /\ visit[v].into # Nothing
    /\ SourceThere(v)
    /\ cart[visit[v].into] \in Owners /\ visit[v].into # visit[v].cart
    /\ \A i \in visit[v].lines : item[i].state = "live"
    /\ \A x \in MergedVariants(v) \ FoundVariants(v) : LineOf(visit[v].into, x) = {}
    /\ cart' = [cart EXCEPT ![visit[v].cart] = "deleted"]
    /\ Placements(v) # {}
    /\ LET row == AnyOf(Placements(v))
       IN  item' = [i \in ItemRows |->
               IF i \in visit[v].lines
               THEN [item[i] EXCEPT !.quantity = visit[v].read[item[i].variant]]
               ELSE IF \E x \in DOMAIN row : row[x] = i
               THEN LET x == CHOOSE x \in DOMAIN row : row[x] = i
                    IN  [state |-> "live", cart |-> visit[v].into, variant |-> x,
                         quantity |-> visit[v].read[x]]
               ELSE Without(visit[v].cart)[i]]
    /\ expected' = Merged(v)
    /\ Leave(v)
    /\ UNCHANGED <<visits, added, overlap>>

-----------------------------------------------------------------------------
\* After a checkout: the owner's cart is deleted with all its lines.
ClearCheckoutCart(v) ==
    /\ visit[v].pc = "clear"
    /\ cart' = [r \in CartRows |-> IF r \in CartsOf(visit[v].owner)
                                   THEN "deleted" ELSE cart[r]]
    /\ item' = [i \in ItemRows |->
           IF \E r \in CartsOf(visit[v].owner) : i \in LinesOf(r)
           THEN [item[i] EXCEPT !.state = "deleted"] ELSE item[i]]
    /\ expected' = [expected EXCEPT ![visit[v].owner] = NoUnits]
    /\ Leave(v)
    /\ UNCHANGED <<visits, added, overlap>>

\* A visit ends where it stands: its transaction is rolled back.
FailVisit(v) ==
    /\ visit[v].pc # "idle"
    /\ Leave(v)
    /\ UNCHANGED <<cart, item, visits, expected, added, overlap>>

CartNext ==
    \E v \in Visits :
        \/ \E op \in {"add", "set", "remove", "merge", "clear", "get"}, o \in Owners,
              c \in Customers \cup {Nothing}, x \in Variants, q \in 0..MaxQuantity,
              i \in ItemRows \cup {Nothing} : Begin(v, op, o, c, x, q, i)
        \/ FindCart(v) \/ CreateCart(v) \/ ReadLine(v) \/ AddLine(v)
        \/ ReadItem(v) \/ SetLine(v) \/ RemoveLine(v)
        \/ MergeRead(v) \/ DiscardCart(v) \/ MergeLookup(v) \/ AdoptCart(v)
        \/ MergeLines(v) \/ ClearCheckoutCart(v) \/ FailVisit(v)

CartSpec == CartInit /\ [][CartNext]_cartVars

-----------------------------------------------------------------------------
(***************************************************************************)
(* Properties.                                                             *)
(***************************************************************************)

\* However requests overlap, no units come from nowhere: a merge that runs
\* twice, or beside an addition, never leaves more of a variant in all the
\* carts than requests put there.
NoUnitsFromNothing == \A x \in Variants : InAllCarts(x) <= added[x]

\* Units go missing, or come back, only when requests overlap: as long as
\* they come one at a time, every cart holds what a cart should, through
\* failures, merges and checkouts.  (Two at a time lose an addition.)
ExactUnlessOverlap ==
    ~overlap => \A o \in Owners, x \in Variants : Holds(o, x) = expected[o][x]
=============================================================================
