----------------------------- MODULE CartProofs -----------------------------
(***************************************************************************)
(* Theorems about the storefront's carts, for any numbers of customers,    *)
(* sessions, variants, requests and rows.                                  *)
(*                                                                         *)
(* CartSound says how the rows stand to each other and what a request in   *)
(* the middle of its transaction knows of them: an owner has one cart, a   *)
(* live line is of a live cart, a cart has one line of a variant.  On top  *)
(* of it, CartFunded bounds what the carts hold by what requests added     *)
(* whatever overlaps, and CartExact says what they hold when nothing does. *)
(***************************************************************************)
EXTENDS Cart, Sums, TLAPS

-----------------------------------------------------------------------------
(* The rows and what the requests know of them.                            *)

\* What a request w knows of the rows f of cart items: rows that were once
\* used keep their cart and their variant.
VisitFits(w, f) ==
    /\ w.pc \in {"find", "create"} => w.op \in {"add", "set", "remove", "get"}
    /\ w.op = "merge" => w.target \in Customers /\ w.owner \in Sessions
    /\ w.op = "add" => w.quantity > 0
    /\ w.op \in {"set", "remove"} => w.item \in ItemRows /\ f[w.item].state # "unused"
    /\ w.pc \in {"add", "addWrite"} => w.op = "add" /\ w.cart \in CartRows
    /\ w.pc \in {"set", "setWrite"} => w.op = "set" /\ w.cart \in CartRows
    /\ w.pc = "setWrite" => f[w.item].cart = w.cart
    /\ w.pc = "remove" => w.op = "remove" /\ w.cart \in CartRows
    /\ w.pc \in {"merge", "mergeInto", "adopt", "discard"} => w.op = "merge"
    /\ w.pc = "merge" => w.into = Nothing
    /\ w.pc \in {"mergeInto", "adopt", "discard"} => w.cart \in CartRows
    /\ w.pc = "addWrite" /\ w.item # Nothing =>
           /\ w.item \in ItemRows /\ f[w.item].state # "unused"
           /\ f[w.item].cart = w.cart /\ f[w.item].variant = w.variant
    /\ w.pc = "mergeInto" =>
           \A i \in w.lines : f[i].state # "unused" /\ w.read[f[i].variant] > 0
    /\ w.pc = "mergeInto" /\ w.into # Nothing =>
           w.into \in CartRows /\ \A i \in w.lines : f[i].cart = w.into

\* Live lines are of live carts, at most one per variant, and never empty.
LinesFit(c, f) ==
    /\ \A i \in ItemRows : f[i].state # "unused" => f[i].cart \in CartRows
    /\ \A i \in ItemRows : f[i].state = "live" => c[f[i].cart] \in Owners /\ f[i].quantity > 0
    /\ \A i, j \in ItemRows :
           /\ f[i].state = "live" /\ f[j].state = "live"
           /\ f[i].cart = f[j].cart /\ f[i].variant = f[j].variant
           => i = j

OneCartEach(c) == \A r, s \in CartRows : c[r] \in Owners /\ c[r] = c[s] => r = s

CartSound == /\ CartTypeOK
             /\ \A v \in Visits : VisitFits(visit[v], item)
             /\ LinesFit(cart, item)
             /\ OneCartEach(cart)

\* The rows g come after the rows f.
RowsFollow(f, g) ==
    \A i \in ItemRows : f[i].state # "unused" =>
        g[i].state # "unused" /\ g[i].cart = f[i].cart /\ g[i].variant = f[i].variant

LEMMA CartFacts ==
    /\ "unused" \notin Owners /\ "deleted" \notin Owners /\ Nothing \notin Owners
    /\ Nothing \notin CartRows /\ Nothing \notin ItemRows
    /\ Customers \subseteq Owners /\ Sessions \subseteq Owners
    /\ AnyOf(Owners) \in Owners /\ AnyOf(Variants) \in Variants
    /\ NoUnits \in [Variants -> Nat]
    /\ Nothing \notin Customers
<1>1. Owners # {} /\ Variants # {}
  BY CartAssumption DEF Owners
<1> QED
  BY <1>1, CartAssumption DEF Owners, AnyOf, NoUnits

LEMMA AnyIn == \A S : S # {} => AnyOf(S) \in S
  BY DEF AnyOf

LEMMA AwayFits == Away \in Visit /\ \A f : VisitFits(Away, f)
<1>1. Away \in Visit
  BY CartFacts, CartAssumption DEF Away, Visit, CartSteps
<1>2. Away.pc = "idle" /\ Away.op = "get"
  BY DEF Away
<1> QED
  BY <1>1, <1>2 DEF VisitFits

LEMMA FitsKept ==
    ASSUME NEW w \in Visit, NEW f, NEW g, VisitFits(w, f), RowsFollow(f, g)
    PROVE  VisitFits(w, g)
<1>1. w.lines \subseteq ItemRows
  BY DEF Visit
<1> QED
  BY <1>1 DEF VisitFits, RowsFollow

\* A step of one request.
LEMMA VisitMoves ==
    ASSUME CartSound, NEW v \in Visits, NEW w \in Visit, VisitFits(w, item'),
           visit' = [visit EXCEPT ![v] = w],
           cart' \in [CartRows -> Owners \cup {"unused", "deleted"}],
           item' \in [ItemRows -> Item], visits' \in 0..MaxVisits,
           expected' \in [Owners -> [Variants -> Nat]], added' \in [Variants -> Nat],
           overlap' \in BOOLEAN,
           RowsFollow(item, item'), LinesFit(cart', item'), OneCartEach(cart')
    PROVE  CartSound'
<1>1. visit \in [Visits -> Visit] /\ \A u \in Visits : VisitFits(visit[u], item)
  BY DEF CartSound, CartTypeOK
<1>2. CartTypeOK'
  BY <1>1 DEF CartTypeOK
<1>3. ASSUME NEW u \in Visits PROVE VisitFits(visit'[u], item')
  <2>1. CASE u = v
    BY <1>1, <2>1
  <2>2. CASE u # v
    <3>1. visit'[u] = visit[u] /\ visit[u] \in Visit /\ VisitFits(visit[u], item)
      BY <1>1, <2>2
    <3> QED
      BY <3>1, FitsKept
  <2> QED
    BY <2>1, <2>2
<1> QED
  BY <1>2, <1>3 DEF CartSound

\* Nothing but the request moves.
LEMMA VisitReads ==
    ASSUME CartSound, NEW v \in Visits, NEW w \in Visit, VisitFits(w, item),
           visit' = [visit EXCEPT ![v] = w], visits' \in 0..MaxVisits, overlap' \in BOOLEAN,
           UNCHANGED <<cart, item, expected, added>>
    PROVE  CartSound'
<1>1. RowsFollow(item, item')
  BY DEF RowsFollow
<1>2. LinesFit(cart', item') /\ OneCartEach(cart') /\ VisitFits(w, item')
  BY DEF CartSound
<1> QED
  BY <1>1, <1>2, VisitMoves DEF CartSound, CartTypeOK

LEMMA LeaveSound ==
    ASSUME CartSound, NEW v \in Visits, Leave(v),
           UNCHANGED <<cart, item, visits, expected, added, overlap>>
    PROVE  CartSound'
<1>1. visits' \in 0..MaxVisits /\ overlap' \in BOOLEAN
  BY DEF CartSound, CartTypeOK
<1> QED
  BY <1>1, AwayFits, VisitReads DEF Leave

\* What a cart holds of a variant: the quantity of its line.
LEMMA InCartTyped ==
    ASSUME CartTypeOK, NEW r, NEW x
    PROVE  InCart(r, x) \in Nat
<1> DEFINE F == [i \in ItemRows |-> item[i].quantity]
<1>1. IsFiniteSet(LineOf(r, x)) /\ \A i \in LineOf(r, x) : F[i] \in Nat
  <2>1. LineOf(r, x) \subseteq ItemRows
    BY DEF LineOf, LinesOf
  <2>2. IsFiniteSet(LineOf(r, x))
    BY <2>1, CartAssumption, FS_Subset
  <2>3. \A i \in ItemRows : item[i].quantity \in Nat
    BY DEF CartTypeOK, Item
  <2> QED
    BY <2>1, <2>2, <2>3
<1> HIDE DEF F
<1>2. SumFunctionOnSet(F, LineOf(r, x)) \in Nat
  BY <1>1, SumNat
<1> QED
  BY <1>2 DEF InCart, F

LEMMA InCartIs ==
    ASSUME CartSound, NEW r, NEW x
    PROVE  /\ LineOf(r, x) = {} => InCart(r, x) = 0
           /\ \A i \in ItemRows :
                 item[i].state = "live" /\ item[i].cart = r /\ item[i].variant = x
                 => LineOf(r, x) = {i} /\ InCart(r, x) = item[i].quantity
<1> DEFINE F == [i \in ItemRows |-> item[i].quantity]
<1>1. LineOf(r, x) = {} => InCart(r, x) = 0
  BY SumEmpty DEF InCart
<1>2. ASSUME NEW i \in ItemRows, item[i].state = "live", item[i].cart = r, item[i].variant = x
      PROVE  LineOf(r, x) = {i} /\ InCart(r, x) = item[i].quantity
  <2>1. LineOf(r, x) = {i}
    BY <1>2 DEF LineOf, LinesOf, CartSound, LinesFit
  <2>2. F[i] \in Int /\ F[i] = item[i].quantity
    BY DEF CartSound, CartTypeOK, Item
  <2>3. InCart(r, x) = SumFunctionOnSet(F, {i})
    BY <2>1 DEF InCart
  <2> HIDE DEF F
  <2>4. SumFunctionOnSet(F, {i}) = F[i]
    BY <2>2, SumSingle
  <2> QED
    BY <2>1, <2>2, <2>3, <2>4
<1> QED
  BY <1>1, <1>2

\* The steps that only read.
LEMMA BeginSound ==
    ASSUME CartSound, NEW v \in Visits, NEW op \in {"add", "set", "remove", "merge", "clear", "get"},
           NEW o \in Owners, NEW c \in Customers \cup {Nothing}, NEW x \in Variants,
           NEW q \in 0..MaxQuantity, NEW i \in ItemRows \cup {Nothing}, Begin(v, op, o, c, x, q, i)
    PROVE  CartSound'
<1> PICK pc : pc = IF op \in {"merge", "clear"} THEN op ELSE "find"
  OBVIOUS
<1> DEFINE w == [Away EXCEPT !.pc = pc, !.op = op, !.owner = o, !.target = c,
                        !.variant = x, !.quantity = q, !.item = i]
<1>8. pc \in CartSteps
  BY DEF CartSteps
<1>1. w \in Visit
  BY <1>8, AwayFits DEF Visit
<1>2. /\ w.pc = (IF op \in {"merge", "clear"} THEN op ELSE "find")
      /\ w.op = op /\ w.owner = o /\ w.target = c /\ w.quantity = q /\ w.item = i
  BY AwayFits DEF Visit
<1>9. w.into = Nothing
  BY AwayFits DEF Visit, Away
<1>3. visit' = [visit EXCEPT ![v] = w] /\ UNCHANGED <<cart, item, expected, added>>
  BY DEF Begin
<1> HIDE DEF w
<1>4. /\ op = "merge" => c \in Customers /\ o \in Sessions
      /\ op = "add" => q > 0
      /\ op \in {"set", "remove"} => i \in ItemRows /\ item[i].state # "unused"
  BY DEF Begin
<1>5. VisitFits(w, item)
  BY <1>2, <1>4, <1>9 DEF VisitFits
<1>6. visits' \in 0..MaxVisits
  BY CartAssumption DEF Begin, CartSound, CartTypeOK
<1>7. overlap' \in BOOLEAN
  BY DEF Begin, CartSound, CartTypeOK
<1> QED
  BY <1>1, <1>3, <1>5, <1>6, <1>7, VisitReads

LEMMA FindSound ==
    ASSUME CartSound, NEW v \in Visits, NEW r \in CartRows,
           visit[v].pc \in {"find", "create"}, visit[v].op # "get"
    PROVE  LET w == [visit[v] EXCEPT !.pc = visit[v].op, !.cart = r] IN
           /\ w \in Visit /\ VisitFits(w, item) /\ w.pc \in {"add", "set", "remove"}
           /\ w.cart = r /\ w.owner = visit[v].owner
<1> DEFINE w == [visit[v] EXCEPT !.pc = visit[v].op, !.cart = r]
<1>1. visit[v] \in Visit /\ VisitFits(visit[v], item)
  BY DEF CartSound, CartTypeOK
<1>2. visit[v].op \in {"add", "set", "remove"}
  BY <1>1 DEF VisitFits
<1>3. w \in Visit
  BY <1>1, <1>2 DEF Visit, CartSteps
<1>4. /\ w.pc = visit[v].op /\ w.op = visit[v].op /\ w.owner = visit[v].owner
      /\ w.target = visit[v].target /\ w.quantity = visit[v].quantity
      /\ w.item = visit[v].item /\ w.cart = r
  BY <1>1 DEF Visit
<1> HIDE DEF w
<1>5. VisitFits(w, item)
  BY <1>1, <1>2, <1>4 DEF VisitFits
<1> USE DEF w
<1> QED
  BY <1>2, <1>3, <1>4, <1>5

\* A request that goes on to another step of its kind.
LEMMA CartStepFits ==
    ASSUME CartSound, NEW v \in Visits, NEW pc,
           \/ visit[v].pc = "find" /\ pc = "create"
           \/ visit[v].pc = "set" /\ pc = "setWrite" /\ item[visit[v].item].cart = visit[v].cart
           \/ visit[v].pc = "mergeInto" /\ pc = "adopt"
    PROVE  [visit[v] EXCEPT !.pc = pc] \in Visit /\ VisitFits([visit[v] EXCEPT !.pc = pc], item)
<1> DEFINE w == [visit[v] EXCEPT !.pc = pc]
<1>1. visit[v] \in Visit /\ VisitFits(visit[v], item)
  BY DEF CartSound, CartTypeOK
<1>2. w \in Visit
  BY <1>1 DEF Visit, CartSteps
<1>3. /\ w.pc = pc /\ w.op = visit[v].op /\ w.owner = visit[v].owner
      /\ w.target = visit[v].target /\ w.quantity = visit[v].quantity
      /\ w.item = visit[v].item /\ w.cart = visit[v].cart
  BY <1>1 DEF Visit
<1> HIDE DEF w
<1>4. VisitFits(w, item)
  BY <1>1, <1>3 DEF VisitFits
<1> USE DEF w
<1> QED
  BY <1>2, <1>4

LEMMA QuietSteps ==
    ASSUME CartSound, NEW v \in Visits
    PROVE  /\ FindCart(v) => CartSound'
           /\ ReadItem(v) => CartSound'
           /\ FailVisit(v) => CartSound'
<1>0. visits \in 0..MaxVisits /\ overlap \in BOOLEAN
  BY DEF CartSound, CartTypeOK
<1>1. ASSUME NEW pc, CartStep(v, pc), UNCHANGED <<cart, item, visits, expected, added, overlap>>,
             \/ visit[v].pc = "find" /\ pc = "create"
             \/ visit[v].pc = "set" /\ pc = "setWrite" /\ item[visit[v].item].cart = visit[v].cart
             \/ visit[v].pc = "mergeInto" /\ pc = "adopt"
      PROVE  CartSound'
  <2> PICK w : w = [visit[v] EXCEPT !.pc = pc]
    OBVIOUS
  <2>1. w \in Visit /\ VisitFits(w, item)
    BY <1>1, CartStepFits
  <2>2. visit' = [visit EXCEPT ![v] = w]
    BY <1>1 DEF CartStep
  <2> QED
    BY <1>0, <1>1, <2>1, <2>2, VisitReads
<1>2. ASSUME FindCart(v) PROVE CartSound'
  <2>1. CASE CartsOf(visit[v].owner) = {}
    BY <1>1, <1>2, <2>1 DEF FindCart
  <2>2. CASE Leave(v)
    BY <1>2, <2>2, LeaveSound DEF FindCart
  <2>3. CASE CartsOf(visit[v].owner) # {} /\ ~Leave(v)
    <3>1. PICK r \in CartsOf(visit[v].owner) :
             visit[v].op # "get" /\ visit' = [visit EXCEPT ![v].pc = visit[v].op, ![v].cart = r]
      BY <1>2, <2>3 DEF FindCart
    <3> PICK w : w = [visit[v] EXCEPT !.pc = visit[v].op, !.cart = r]
      OBVIOUS
    <3>2. r \in CartRows /\ visit[v].pc = "find"
      BY <1>2 DEF CartsOf, FindCart
    <3>3. w \in Visit /\ VisitFits(w, item)
      BY <3>1, <3>2, FindSound
    <3>4. visit' = [visit EXCEPT ![v] = w]
      BY <3>1 DEF CartSound, CartTypeOK
    <3> QED
      BY <1>0, <1>2, <3>3, <3>4, VisitReads DEF FindCart
  <2> QED
    BY <2>1, <2>2, <2>3
<1>3. ASSUME ReadItem(v) PROVE CartSound'
  BY <1>1, <1>3, LeaveSound DEF ReadItem, LinesOf
<1>4. ASSUME FailVisit(v) PROVE CartSound'
  BY <1>4, LeaveSound DEF FailVisit
<1> QED
  BY <1>2, <1>3, <1>4

\* What the two reading steps of a transaction leave in the request.
LEMMA ReadLineIs ==
    ASSUME CartSound, NEW v \in Visits, ReadLine(v)
    PROVE  \E w \in Visit :
             /\ visit' = [visit EXCEPT ![v] = w] /\ VisitFits(w, item)
             /\ visit[v].pc = "add" /\ w.pc = "addWrite" /\ w.op = "add"
             /\ w.cart = visit[v].cart /\ w.owner = visit[v].owner
             /\ w.variant = visit[v].variant /\ w.quantity = visit[v].quantity
             /\ w.read[w.variant] = InCart(w.cart, w.variant)
             /\ w.item = Nothing => LineOf(w.cart, w.variant) = {}
             /\ w.item # Nothing => w.item \in LineOf(w.cart, w.variant)
<1>1. visit[v] \in Visit /\ VisitFits(visit[v], item) /\ visit[v].pc = "add"
  BY DEF CartSound, CartTypeOK, ReadLine
<1> PICK q, x, l : q = InCart(visit[v].cart, visit[v].variant) /\ x = visit[v].variant
                   /\ l = LineOf(visit[v].cart, visit[v].variant)
  OBVIOUS
<1> PICK i : i = IF l = {} THEN Nothing ELSE AnyOf(l)
  OBVIOUS
<1> DEFINE w == [visit[v] EXCEPT !.pc = "addWrite", !.item = i, !.read[x] = q]
<1>2. visit' = [visit EXCEPT ![v] = w]
  BY ZenonT(60) DEF ReadLine, CartSound, CartTypeOK
<1>3. x \in Variants /\ visit[v].read \in [Variants -> Nat]
  BY <1>1 DEF Visit
<1>4. q \in Nat
  BY InCartTyped DEF CartSound
<1>5. /\ l \subseteq ItemRows
      /\ \A j \in l : item[j].state = "live" /\ item[j].cart = visit[v].cart /\ item[j].variant = x
  BY DEF LineOf, LinesOf
<1>6. l # {} => AnyOf(l) \in l
  BY AnyIn
<1>7. i \in ItemRows \cup {Nothing} /\ (i = Nothing => l = {}) /\ (i # Nothing => i \in l)
  BY <1>5, <1>6, CartFacts
<1>8. w \in Visit
  BY ZenonT(60), <1>1, <1>3, <1>4, <1>7 DEF Visit, CartSteps
<1>9. /\ w.pc = "addWrite" /\ w.op = visit[v].op /\ w.owner = visit[v].owner
      /\ w.target = visit[v].target /\ w.quantity = visit[v].quantity
      /\ w.item = i /\ w.cart = visit[v].cart /\ w.variant = x
      /\ w.read = [visit[v].read EXCEPT ![x] = q]
  BY <1>1 DEF Visit
<1>10. w.read[x] = q
  BY <1>3, <1>9
<1> HIDE DEF w
<1>11. VisitFits(w, item)
  BY <1>1, <1>5, <1>7, <1>9 DEF VisitFits
<1>12. w.op = "add"
  BY <1>1, <1>9 DEF VisitFits
<1> QED
  BY ZenonT(60), <1>1, <1>2, <1>7, <1>8, <1>9, <1>10, <1>11, <1>12

LEMMA MergeReadIs ==
    ASSUME CartSound, NEW v \in Visits, MergeRead(v), ~Leave(v)
    PROVE  \E w \in Visit, r \in CartsOf(visit[v].owner) :
             /\ visit' = [visit EXCEPT ![v] = w] /\ VisitFits(w, item)
             /\ visit[v].pc = "merge" /\ w.pc \in {"discard", "mergeInto"} /\ w.op = "merge"
             /\ w.cart = r /\ w.owner = visit[v].owner /\ w.target = visit[v].target
             /\ w.into = Nothing /\ w.lines = LinesOf(r)
             /\ w.pc = "discard" => LinesOf(r) = {}
             /\ \A x \in Variants : w.read[x] = InCart(r, x)
<1>1. visit[v] \in Visit /\ VisitFits(visit[v], item) /\ visit[v].pc = "merge"
  BY DEF CartSound, CartTypeOK, MergeRead
<1>2. PICK r \in CartsOf(visit[v].owner) :
        visit' = [visit EXCEPT
                  ![v].pc = IF LinesOf(r) = {} THEN "discard" ELSE "mergeInto",
                  ![v].cart = r, ![v].lines = LinesOf(r),
                  ![v].read = [x \in Variants |-> InCart(r, x)]]
  BY DEF MergeRead
<1> PICK pc, l, f : /\ pc = (IF LinesOf(r) = {} THEN "discard" ELSE "mergeInto")
                    /\ l = LinesOf(r) /\ f = [x \in Variants |-> InCart(r, x)]
  OBVIOUS
<1> DEFINE w == [visit[v] EXCEPT !.pc = pc, !.cart = r, !.lines = l, !.read = f]
<1>3. visit' = [visit EXCEPT ![v] = w]
  BY <1>2 DEF CartSound, CartTypeOK
<1>4. /\ f \in [Variants -> Nat] /\ \A x \in Variants : f[x] = InCart(r, x)
  BY InCartTyped DEF CartSound
<1>5. r \in CartRows /\ l \subseteq ItemRows
  BY DEF CartsOf, LinesOf
<1>6. w \in Visit
  BY ZenonT(60), <1>1, <1>4, <1>5 DEF Visit, CartSteps
<1>7. /\ w.pc = pc /\ w.op = visit[v].op /\ w.owner = visit[v].owner
      /\ w.target = visit[v].target /\ w.quantity = visit[v].quantity
      /\ w.item = visit[v].item /\ w.cart = r /\ w.into = visit[v].into
      /\ w.lines = l /\ w.read = f
  BY <1>1 DEF Visit
<1> HIDE DEF w
<1>8. visit[v].op = "merge" /\ visit[v].into = Nothing /\ pc \in {"discard", "mergeInto"}
  BY <1>1 DEF VisitFits
<1>10. \A x \in Variants : w.read[x] = InCart(r, x)
  BY <1>4, <1>7
<1>12. ASSUME NEW i \in w.lines PROVE item[i].state # "unused" /\ w.read[item[i].variant] > 0
  <2>1. i \in ItemRows /\ item[i].state = "live" /\ item[i].cart = r
    BY <1>7, <1>12 DEF LinesOf
  <2>2. item[i].variant \in Variants /\ item[i].quantity > 0
    BY <2>1 DEF CartSound, CartTypeOK, Item, LinesFit
  <2>3. InCart(r, item[i].variant) = item[i].quantity
    BY <2>1, InCartIs
  <2> QED
    BY <1>10, <2>1, <2>2, <2>3
<1>9. VisitFits(w, item)
  BY <1>1, <1>5, <1>7, <1>8, <1>12 DEF VisitFits
<1>11. w.pc = "discard" => LinesOf(r) = {}
  BY <1>7
<1> QED
  BY <1>1, <1>3, <1>6, <1>7, <1>8, <1>9, <1>10, <1>11

LEMMA MergeLookupIs ==
    ASSUME CartSound, NEW v \in Visits, MergeLookup(v), CartsOf(visit[v].target) # {}
    PROVE  \E w \in Visit, r \in CartsOf(visit[v].target) :
             /\ visit' = [visit EXCEPT ![v] = w] /\ VisitFits(w, item)
             /\ visit[v].pc = "mergeInto" /\ w.pc = "mergeInto" /\ w.op = "merge"
             /\ visit[v].into = Nothing /\ w.into = r
             /\ w.cart = visit[v].cart /\ w.owner = visit[v].owner
             /\ w.target = visit[v].target
             /\ \A i \in ItemRows :
                   i \in w.lines <=> \E j \in visit[v].lines : i \in LineOf(r, item[j].variant)
             /\ \A x \in Variants : w.read[x] = IF visit[v].read[x] > 0
                                                THEN InCart(r, x) + visit[v].read[x] ELSE 0
<1>1. /\ visit[v] \in Visit /\ VisitFits(visit[v], item) /\ visit[v].pc = "mergeInto"
      /\ visit[v].into = Nothing
  BY DEF CartSound, CartTypeOK, MergeLookup
<1> PICK old, ls : old = visit[v].read /\ ls = visit[v].lines
  OBVIOUS
<1>2. PICK r \in CartsOf(visit[v].target) :
        visit' = [visit EXCEPT
                  ![v].into = r,
                  ![v].lines = UNION {LineOf(r, item[i].variant) : i \in ls},
                  ![v].read = [x \in Variants |->
                      IF @[x] > 0 THEN LineTotal(InCart(r, x), @[x]) ELSE 0]]
  BY DEF MergeLookup
<1> PICK l, f : /\ l = UNION {LineOf(r, item[i].variant) : i \in ls}
                /\ f = [x \in Variants |-> IF old[x] > 0 THEN LineTotal(InCart(r, x), old[x]) ELSE 0]
  OBVIOUS
<1> DEFINE w == [visit[v] EXCEPT !.into = r, !.lines = l, !.read = f]
<1>3. visit' = [visit EXCEPT ![v] = w]
  BY <1>2 DEF CartSound, CartTypeOK
<1>13. old \in [Variants -> Nat] /\ ls \subseteq ItemRows
  BY <1>1 DEF Visit
<1>4. ASSUME NEW x \in Variants
      PROVE  f[x] \in Nat /\ f[x] = IF old[x] > 0 THEN InCart(r, x) + old[x] ELSE 0
  <2>1. InCart(r, x) \in Nat /\ old[x] \in Nat
    BY <1>13, InCartTyped DEF CartSound
  <2>2. f[x] = IF old[x] > 0 THEN InCart(r, x) + old[x] ELSE 0
    BY DEF LineTotal
  <2> QED
    BY <2>1, <2>2
<1>14. f \in [Variants -> Nat]
  BY <1>4
<1>5. r \in CartRows /\ l \subseteq ItemRows
      /\ \A i \in ItemRows : i \in l <=> \E j \in ls : i \in LineOf(r, item[j].variant)
  BY DEF CartsOf, LinesOf, LineOf
<1>6. w \in Visit
  BY ZenonT(60), <1>1, <1>14, <1>5 DEF Visit, CartSteps
<1>7. /\ w.pc = visit[v].pc /\ w.op = visit[v].op /\ w.owner = visit[v].owner
      /\ w.target = visit[v].target /\ w.quantity = visit[v].quantity
      /\ w.item = visit[v].item /\ w.cart = visit[v].cart /\ w.into = r
      /\ w.lines = l /\ w.read = f
  BY <1>1 DEF Visit
<1> HIDE DEF w
<1>12. ASSUME NEW i \in l
       PROVE  item[i].state # "unused" /\ item[i].cart = r /\ f[item[i].variant] > 0
  <2>1. PICK j \in ls : i \in LineOf(r, item[j].variant)
    BY <1>5
  <2>2. i \in ItemRows /\ item[i].state = "live" /\ item[i].cart = r
        /\ item[i].variant = item[j].variant
    BY <2>1 DEF LinesOf, LineOf
  <2>3. item[i].variant \in Variants
    BY <2>2 DEF CartSound, CartTypeOK, Item
  <2>4. old[item[j].variant] > 0
    BY <1>1, <2>1 DEF VisitFits
  <2> PICK x, k : x = item[i].variant /\ k = InCart(r, x)
    OBVIOUS
  <2>5. f[x] = k + old[x] /\ old[x] > 0 /\ old[x] \in Nat
    BY <1>4, <1>13, <2>2, <2>3, <2>4
  <2>6. k \in Nat
    BY InCartTyped DEF CartSound
  <2>7. f[x] > 0
    BY <2>5, <2>6
  <2> QED
    BY <2>2, <2>7
<1>9. VisitFits(w, item)
  BY <1>1, <1>5, <1>7, <1>12 DEF VisitFits
<1>8. w.op = "merge"
  BY <1>1, <1>7 DEF VisitFits
<1>15. \A x \in Variants : w.read[x] = IF visit[v].read[x] > 0
                                      THEN InCart(r, x) + visit[v].read[x] ELSE 0
  BY <1>4, <1>7
<1>16. \A i \in ItemRows :
          i \in w.lines <=> \E j \in visit[v].lines : i \in LineOf(r, item[j].variant)
  BY <1>5, <1>7
<1>17. w.pc = "mergeInto" /\ w.into = r /\ w.cart = visit[v].cart
       /\ w.owner = visit[v].owner /\ w.target = visit[v].target
  BY <1>1, <1>7
<1>18. visit[v].pc = "mergeInto" /\ visit[v].into = Nothing
  BY <1>1
<1> QED
  BY <1>3, <1>6, <1>8, <1>9, <1>15, <1>16, <1>17, <1>18

\* The rows a cart takes with it.
LEMMA WithoutIs ==
    ASSUME CartTypeOK, NEW r
    PROVE  /\ Without(r) \in [ItemRows -> Item]
           /\ \A i \in ItemRows :
                /\ Without(r)[i].cart = item[i].cart /\ Without(r)[i].variant = item[i].variant
                /\ Without(r)[i].quantity = item[i].quantity
                /\ Without(r)[i].state = IF item[i].state = "live" /\ item[i].cart = r
                                         THEN "deleted" ELSE item[i].state
<1>1. \A i \in ItemRows : item[i] \in Item
  BY DEF CartTypeOK
<1>2. ASSUME NEW i \in ItemRows
      PROVE  /\ Without(r)[i] \in Item
             /\ Without(r)[i].cart = item[i].cart /\ Without(r)[i].variant = item[i].variant
             /\ Without(r)[i].quantity = item[i].quantity
             /\ Without(r)[i].state = IF item[i].state = "live" /\ item[i].cart = r
                                         THEN "deleted" ELSE item[i].state
  <2>1. Without(r)[i] = IF i \in LinesOf(r) THEN [item[i] EXCEPT !.state = "deleted"] ELSE item[i]
    BY DEF Without
  <2>2. i \in LinesOf(r) <=> item[i].state = "live" /\ item[i].cart = r
    BY DEF LinesOf
  <2> QED
    BY <1>1, <2>1, <2>2 DEF Item
<1>3. Without(r) \in [ItemRows -> Item]
  BY <1>2 DEF Without
<1> QED
  BY <1>2, <1>3

\* What a merge does to each row: it writes the lines it found, adds the
\* others, and takes the session's cart away with its lines.
MergeWrites(v, c, d, row) ==
    /\ c = visit[v].cart /\ d = visit[v].into /\ c # d
    /\ cart[c] \in Owners /\ cart[d] \in Owners
    /\ cart' = [cart EXCEPT ![c] = "deleted"]
    /\ visit[v].pc = "mergeInto" /\ visit[v].lines \subseteq ItemRows
    /\ \A i \in visit[v].lines : item[i].state = "live" /\ item[i].cart = d
    /\ row \in [MergedVariants(v) \ FoundVariants(v) -> ItemRows]
    /\ \A x, y \in DOMAIN row : row[x] = row[y] => x = y
    /\ \A x \in DOMAIN row : item[row[x]].state = "unused" /\ LineOf(d, x) = {}
    /\ item' \in [ItemRows -> Item]
    /\ \A i \in visit[v].lines :
          /\ item'[i].state = "live" /\ item'[i].cart = d
          /\ item'[i].variant = item[i].variant
          /\ item'[i].quantity = visit[v].read[item[i].variant]
    /\ \A x \in DOMAIN row :
          /\ item'[row[x]].state = "live" /\ item'[row[x]].cart = d
          /\ item'[row[x]].variant = x
          /\ item'[row[x]].quantity = visit[v].read[x]
    /\ \A i \in ItemRows \ visit[v].lines :
          (\A x \in DOMAIN row : row[x] # i) =>
             /\ item'[i].cart = item[i].cart /\ item'[i].variant = item[i].variant
             /\ item'[i].quantity = item[i].quantity
             /\ item'[i].state = IF item[i].state = "live" /\ item[i].cart = c
                                 THEN "deleted" ELSE item[i].state

LEMMA MergeLinesIs ==
    ASSUME CartSound, NEW v \in Visits, MergeLines(v)
    PROVE  \E c \in CartRows, d \in CartRows, row \in Placements(v) : MergeWrites(v, c, d, row)
<1>1. /\ visit[v] \in Visit /\ VisitFits(visit[v], item) /\ visit[v].pc = "mergeInto"
      /\ visit[v].into # Nothing /\ CartTypeOK
  BY DEF CartSound, CartTypeOK, MergeLines
<1> PICK c, d, ls, read : c = visit[v].cart /\ d = visit[v].into /\ ls = visit[v].lines
                          /\ read = visit[v].read
  OBVIOUS
<1>2. c \in CartRows /\ d \in CartRows /\ ls \subseteq ItemRows /\ read \in [Variants -> Nat]
  BY <1>1 DEF VisitFits, Visit
<1>3. /\ c # d /\ cart[c] \in Owners /\ cart[d] \in Owners
      /\ cart' = [cart EXCEPT ![c] = "deleted"]
      /\ \A i \in ls : item[i].state = "live"
      /\ \A x \in MergedVariants(v) \ FoundVariants(v) : LineOf(d, x) = {}
      /\ Placements(v) # {}
  BY DEF MergeLines, SourceThere
<1>4. \A i \in ls : item[i].cart = d
  BY <1>1 DEF VisitFits
<1> PICK row : row = AnyOf(Placements(v))
  OBVIOUS
<1> PICK wo : wo = Without(c)
  OBVIOUS
<1>5. item' = [i \in ItemRows |->
               IF i \in ls
               THEN [item[i] EXCEPT !.quantity = read[item[i].variant]]
               ELSE IF \E x \in DOMAIN row : row[x] = i
               THEN LET x == CHOOSE x \in DOMAIN row : row[x] = i
                    IN  [state |-> "live", cart |-> d, variant |-> x, quantity |-> read[x]]
               ELSE wo[i]]
  BY DEF MergeLines
<1>6. row \in Placements(v)
  BY <1>3, AnyIn
<1>7. /\ row \in [MergedVariants(v) \ FoundVariants(v) -> FreshItems]
      /\ \A x, y \in DOMAIN row : row[x] = row[y] => x = y
  BY <1>6 DEF Placements
<1>8. \A x \in DOMAIN row : /\ row[x] \in ItemRows /\ item[row[x]].state = "unused"
                            /\ LineOf(d, x) = {} /\ x \in Variants /\ row[x] \notin ls
  BY <1>3, <1>7 DEF FreshItems, MergedVariants
<1>9. DOMAIN row = MergedVariants(v) \ FoundVariants(v) /\ row \in [DOMAIN row -> ItemRows]
  BY <1>7, <1>8
<1>10. ASSUME NEW i \in ls
       PROVE  /\ item'[i].state = "live" /\ item'[i].cart = d /\ item'[i] \in Item
              /\ item'[i].variant = item[i].variant
              /\ item'[i].quantity = read[item[i].variant]
  <2>1. i \in ItemRows /\ item[i] \in Item
    BY <1>1, <1>2 DEF CartTypeOK
  <2>2. item'[i] = [item[i] EXCEPT !.quantity = read[item[i].variant]]
    BY <1>5, <2>1
  <2>3. read[item[i].variant] \in Nat
    BY <1>2, <2>1 DEF Item
  <2> QED
    BY <1>3, <1>4, <2>1, <2>2, <2>3 DEF Item
<1>11. ASSUME NEW x \in DOMAIN row
       PROVE  /\ item'[row[x]].state = "live" /\ item'[row[x]].cart = d
              /\ item'[row[x]].variant = x /\ item'[row[x]] \in Item
              /\ item'[row[x]].quantity = read[x]
  <2>1. (CHOOSE y \in DOMAIN row : row[y] = row[x]) = x
    BY <1>7
  <2>2. item'[row[x]] = [state |-> "live", cart |-> d, variant |-> x, quantity |-> read[x]]
    BY <1>5, <1>8, <2>1
  <2>3. x \in Variants /\ read[x] \in Nat
    BY <1>2, <1>8
  <2> QED
    BY <1>2, <2>2, <2>3 DEF Item
<1>12. ASSUME NEW i \in ItemRows \ ls, \A x \in DOMAIN row : row[x] # i
       PROVE  /\ item'[i].cart = item[i].cart /\ item'[i].variant = item[i].variant
              /\ item'[i].quantity = item[i].quantity /\ item'[i] \in Item
              /\ item'[i].state = IF item[i].state = "live" /\ item[i].cart = c
                                          THEN "deleted" ELSE item[i].state
  <2>1. item'[i] = wo[i]
    BY <1>5, <1>12
  <2> QED
    BY <1>1, <2>1, WithoutIs
<1>13. item' \in [ItemRows -> Item]
  <2>1. \A i \in ItemRows : item'[i] \in Item
    BY <1>10, <1>11, <1>12
  <2> QED
    BY <1>5, <2>1
<1>14. /\ c = visit[v].cart /\ d = visit[v].into /\ c # d
       /\ cart[c] \in Owners /\ cart[d] \in Owners
       /\ cart' = [cart EXCEPT ![c] = "deleted"]
       /\ visit[v].pc = "mergeInto" /\ visit[v].lines \subseteq ItemRows
  BY <1>1, <1>2, <1>3
<1>15. \A i \in visit[v].lines : item[i].state = "live" /\ item[i].cart = d
  BY <1>3, <1>4
<1>16. /\ row \in [MergedVariants(v) \ FoundVariants(v) -> ItemRows]
       /\ \A x, y \in DOMAIN row : row[x] = row[y] => x = y
       /\ \A x \in DOMAIN row : item[row[x]].state = "unused" /\ LineOf(d, x) = {}
  BY <1>7, <1>8, <1>9
<1>17. \A i \in visit[v].lines :
          /\ item'[i].state = "live" /\ item'[i].cart = d
          /\ item'[i].variant = item[i].variant
          /\ item'[i].quantity = visit[v].read[item[i].variant]
  BY <1>10
<1>18. \A x \in DOMAIN row :
          /\ item'[row[x]].state = "live" /\ item'[row[x]].cart = d
          /\ item'[row[x]].variant = x
          /\ item'[row[x]].quantity = visit[v].read[x]
  BY <1>11
<1>19. \A i \in ItemRows \ visit[v].lines :
          (\A x \in DOMAIN row : row[x] # i) =>
             /\ item'[i].cart = item[i].cart /\ item'[i].variant = item[i].variant
             /\ item'[i].quantity = item[i].quantity
             /\ item'[i].state = IF item[i].state = "live" /\ item[i].cart = c
                                 THEN "deleted" ELSE item[i].state
  BY <1>12
<1>20. MergeWrites(v, c, d, row)
  BY <1>13, <1>14, <1>15, <1>16, <1>17, <1>18, <1>19 DEF MergeWrites
<1> QED
  BY <1>2, <1>6, <1>20

\* A line is put into a cart, in the row it has there or in an unused one.
LinePut(i, r, x, q) ==
    /\ item' \in [ItemRows -> Item]
    /\ item'[i].state = "live" /\ item'[i].cart = r /\ item'[i].variant = x
    /\ item'[i].quantity = q
    /\ \A j \in ItemRows : j # i => item'[j] = item[j]
    /\ \/ item[i].state = "live" /\ item[i].cart = r /\ item[i].variant = x
       \/ item[i].state = "unused" /\ LineOf(r, x) = {}

LEMMA PutSound ==
    ASSUME CartSound, NEW i \in ItemRows, NEW r \in CartRows, NEW x \in Variants, NEW q \in Nat,
           q > 0, cart[r] \in Owners, LinePut(i, r, x, q)
    PROVE  RowsFollow(item, item') /\ LinesFit(cart, item')
<1>1. RowsFollow(item, item')
  BY DEF RowsFollow, LinePut
<1>2. ASSUME NEW j \in ItemRows, j # i, item[j].state = "live", item[j].cart = r,
             item[j].variant = x
      PROVE  FALSE
  BY <1>2 DEF LinePut, CartSound, LinesFit, LineOf, LinesOf
<1>3. LinesFit(cart, item')
  BY <1>2 DEF LinePut, CartSound, LinesFit
<1> QED
  BY <1>1, <1>3

\* Live lines are dropped; the others stay as they are.
LinesDropped(D) ==
    /\ item' \in [ItemRows -> Item]
    /\ \A i \in ItemRows :
          /\ item'[i].cart = item[i].cart /\ item'[i].variant = item[i].variant
          /\ item'[i].quantity = item[i].quantity
          /\ item'[i].state = IF item[i].state = "live" /\ i \in D THEN "deleted"
                              ELSE item[i].state

LEMMA DropSound ==
    ASSUME CartSound, NEW D, LinesDropped(D), NEW c,
           \A i \in ItemRows : item[i].state = "live" /\ i \notin D => c[item[i].cart] \in Owners
    PROVE  RowsFollow(item, item') /\ LinesFit(c, item')
<1>1. RowsFollow(item, item')
  BY DEF RowsFollow, LinesDropped
<1>2. LinesFit(c, item')
  BY DEF LinesDropped, CartSound, LinesFit
<1> QED
  BY <1>1, <1>2

LEMMA SameLines ==
    ASSUME CartSound, UNCHANGED item
    PROVE  RowsFollow(item, item') /\ LinesFit(cart, item')
  BY DEF RowsFollow, CartSound

\* Carts that go: the rest keep their owners.
LEMMA CartsGone ==
    ASSUME CartSound, NEW c \in [CartRows -> Owners \cup {"unused", "deleted"}],
           \A r \in CartRows : c[r] = cart[r] \/ c[r] = "deleted"
    PROVE  OneCartEach(c)
  BY CartFacts DEF CartSound, OneCartEach

LEMMA CreateSound ==
    ASSUME CartSound, NEW v \in Visits, CreateCart(v)
    PROVE  CartSound'
<1> PICK r : r = AnyOf(FreshCarts)
  OBVIOUS
<1> PICK o : o = visit[v].owner
  OBVIOUS
<1>1. visit[v] \in Visit /\ VisitFits(visit[v], item) /\ visit[v].pc = "create"
      /\ visits \in 0..MaxVisits /\ overlap \in BOOLEAN /\ item \in [ItemRows -> Item]
      /\ expected \in [Owners -> [Variants -> Nat]] /\ added \in [Variants -> Nat]
      /\ cart \in [CartRows -> Owners \cup {"unused", "deleted"}]
  BY DEF CartSound, CartTypeOK, CreateCart
<1>2. r \in CartRows /\ cart[r] = "unused"
  BY AnyIn DEF CreateCart, FreshCarts
<1>3. o \in Owners /\ cart' = [cart EXCEPT ![r] = o] /\ CartsOf(o) = {}
      /\ UNCHANGED <<item, visits, expected, added, overlap>>
  BY <1>1 DEF Visit, CreateCart
<1>4. RowsFollow(item, item')
  BY <1>3 DEF RowsFollow
<1>5. LinesFit(cart', item')
  BY <1>1, <1>2, <1>3 DEF CartSound, LinesFit
<1>6. OneCartEach(cart')
  BY <1>1, <1>2, <1>3 DEF CartSound, OneCartEach, CartsOf
<1>7. cart' \in [CartRows -> Owners \cup {"unused", "deleted"}]
  BY <1>1, <1>3
<1>8. \E w \in Visit : VisitFits(w, item) /\ visit' = [visit EXCEPT ![v] = w]
  <2>1. CASE visit[v].op = "get"
    BY <2>1, AwayFits DEF CreateCart, Leave
  <2>2. CASE visit[v].op # "get"
    <3>1. visit' = [visit EXCEPT ![v].pc = visit[v].op, ![v].cart = r]
      BY <2>2 DEF CreateCart
    <3> PICK w : w = [visit[v] EXCEPT !.pc = visit[v].op, !.cart = r]
      OBVIOUS
    <3>2. visit' = [visit EXCEPT ![v] = w]
      BY <3>1 DEF CartSound, CartTypeOK
    <3>3. w \in Visit /\ VisitFits(w, item)
      BY <1>1, <1>2, <2>2, FindSound
    <3> QED
      BY <3>2, <3>3
  <2> QED
    BY <2>1, <2>2
<1>9. PICK w \in Visit : VisitFits(w, item') /\ visit' = [visit EXCEPT ![v] = w]
  BY <1>3, <1>8
<1>10. /\ visits' \in 0..MaxVisits /\ overlap' \in BOOLEAN /\ item' \in [ItemRows -> Item]
       /\ expected' \in [Owners -> [Variants -> Nat]] /\ added' \in [Variants -> Nat]
  BY <1>1, <1>3
<1> QED
  BY <1>4, <1>5, <1>6, <1>7, <1>9, <1>10, VisitMoves

\* Adding to a line, or a line.
LEMMA AddLineIs ==
    ASSUME CartSound, NEW v \in Visits, AddLine(v)
    PROVE  \E r \in CartRows, x \in Variants, q \in Nat, i \in ItemRows, k \in Nat :
             /\ r = visit[v].cart /\ x = visit[v].variant /\ q = visit[v].quantity /\ q > 0
             /\ visit[v].pc = "addWrite" /\ visit[v].op = "add" /\ cart[r] \in Owners
             /\ visit[v].item \in {Nothing, i}
             /\ visit[v].item = Nothing => item[i].state = "unused" /\ k = 0
             /\ visit[v].item # Nothing => item[i].state = "live" /\ k = visit[v].read[x]
             /\ LinePut(i, r, x, k + q)
             /\ added' = [added EXCEPT ![x] = @ + q]
             /\ Expect(visit[v].owner, x, expected[visit[v].owner][x] + q)
<1>1. /\ visit[v] \in Visit /\ VisitFits(visit[v], item) /\ visit[v].pc = "addWrite"
      /\ item \in [ItemRows -> Item]
  BY DEF CartSound, CartTypeOK, AddLine
<1> PICK r, x, q, h : r = visit[v].cart /\ x = visit[v].variant /\ q = visit[v].quantity
                      /\ h = visit[v].read[x]
  OBVIOUS
<1>2. /\ r \in CartRows /\ x \in Variants /\ q \in Nat /\ q > 0 /\ h \in Nat
      /\ visit[v].op = "add"
  BY <1>1, CartAssumption DEF Visit, VisitFits
<1>3. /\ cart[r] \in Owners
      /\ added' = [added EXCEPT ![x] = @ + q]
      /\ Expect(visit[v].owner, x, expected[visit[v].owner][x] + q)
  BY DEF AddLine
<1>4. CASE visit[v].item # Nothing
  <2> PICK i, n : i = visit[v].item /\ n = h + q
    OBVIOUS
  <2>1. /\ item[i].state = "live" /\ item' = [item EXCEPT ![i].quantity = n]
    BY <1>4 DEF AddLine, LineTotal
  <2>2. i \in ItemRows /\ item[i].cart = r /\ item[i].variant = x /\ item[i] \in Item
    BY <1>1, <1>4 DEF VisitFits
  <2>3. n \in Nat
    BY <1>2
  <2>4. item'[i] = [item[i] EXCEPT !.quantity = n]
    BY <1>1, <2>1, <2>2
  <2>5. item'[i].state = "live" /\ item'[i].cart = r /\ item'[i].variant = x
        /\ item'[i].quantity = n /\ item'[i] \in Item
    BY <2>1, <2>2, <2>3, <2>4 DEF Item
  <2>6. item' \in [ItemRows -> Item] /\ \A j \in ItemRows : j # i => item'[j] = item[j]
    BY <1>1, <2>1, <2>2, <2>5
  <2>7. LinePut(i, r, x, n)
    BY <2>1, <2>2, <2>5, <2>6 DEF LinePut
  <2> QED
    BY <1>1, <1>2, <1>3, <1>4, <2>1, <2>2, <2>7
<1>5. CASE visit[v].item = Nothing
  <2> PICK i : i = AnyOf(FreshItems)
    OBVIOUS
  <2>1. /\ LineOf(r, x) = {} /\ FreshItems # {}
        /\ item' = [item EXCEPT ![i] =
                      [state |-> "live", cart |-> r, variant |-> x, quantity |-> q]]
    BY <1>5 DEF AddLine
  <2>2. i \in ItemRows /\ item[i].state = "unused"
    BY <2>1, AnyIn DEF FreshItems
  <2>3. item'[i] = [state |-> "live", cart |-> r, variant |-> x, quantity |-> q]
    BY <1>1, <2>1, <2>2
  <2>4. item'[i].state = "live" /\ item'[i].cart = r /\ item'[i].variant = x
        /\ item'[i].quantity = q /\ item'[i] \in Item
    BY <1>2, <2>3 DEF Item
  <2>5. item' \in [ItemRows -> Item] /\ \A j \in ItemRows : j # i => item'[j] = item[j]
    BY <1>1, <2>1, <2>2, <2>4
  <2>6. LinePut(i, r, x, q)
    BY <2>1, <2>2, <2>4, <2>5 DEF LinePut
  <2>7. q = 0 + q
    BY <1>2
  <2>8. LinePut(i, r, x, 0 + q)
    BY <2>6, <2>7
  <2> QED
    BY <1>1, <1>2, <1>3, <1>5, <2>2, <2>8
<1> QED
  BY <1>4, <1>5

LEMMA AddSound ==
    ASSUME CartSound, NEW v \in Visits, AddLine(v)
    PROVE  CartSound'
<1>1. PICK r \in CartRows, x \in Variants, q \in Nat, i \in ItemRows, k \in Nat :
             /\ q > 0 /\ cart[r] \in Owners /\ LinePut(i, r, x, k + q)
             /\ added' = [added EXCEPT ![x] = @ + q]
             /\ Expect(visit[v].owner, x, expected[visit[v].owner][x] + q)
  BY AddLineIs
<1> PICK n, o, m : n = k + q /\ o = visit[v].owner /\ m = expected[o][x] + q
  OBVIOUS
<1>2. n \in Nat /\ n > 0
  BY <1>1
<1>3. RowsFollow(item, item') /\ LinesFit(cart, item') /\ item' \in [ItemRows -> Item]
  BY <1>1, <1>2, PutSound DEF LinePut
<1>4. UNCHANGED <<cart, visits, overlap>> /\ visit' = [visit EXCEPT ![v] = Away]
  BY DEF AddLine, Leave
<1>5. /\ visits' \in 0..MaxVisits /\ overlap' \in BOOLEAN
      /\ cart' \in [CartRows -> Owners \cup {"unused", "deleted"}] /\ OneCartEach(cart')
  BY <1>4 DEF CartSound, CartTypeOK
<1>6. o \in Owners /\ expected \in [Owners -> [Variants -> Nat]] /\ added \in [Variants -> Nat]
  BY DEF CartSound, CartTypeOK, Visit
<1>7. m \in Nat
  BY <1>6
<1>8. expected' \in [Owners -> [Variants -> Nat]]
  BY <1>1, <1>6, <1>7 DEF Expect
<1>9. added' \in [Variants -> Nat]
  BY <1>1, <1>6
<1> QED
  BY <1>3, <1>4, <1>5, <1>8, <1>9, AwayFits, VisitMoves

\* Setting a line's quantity: the line is put, or dropped.
SetWrites(v, r, x, q, i, k) ==
    /\ i = visit[v].item /\ q = visit[v].quantity /\ r = visit[v].cart
    /\ item[i].cart = r /\ item[i].variant = x /\ item[i].quantity = k
    /\ visit[v].pc = "setWrite" /\ visit[v].op = "set"
    /\ item[i].state = "live" /\ cart[r] \in Owners
    /\ q = 0 => LinesDropped({i})
    /\ q > 0 => LinePut(i, r, x, q)
    /\ added' = [added EXCEPT ![x] = @ + IF q > k THEN q - k ELSE 0]
    /\ Expect(visit[v].owner, x, q)

LEMMA SetLineIs ==
    ASSUME CartSound, NEW v \in Visits, SetLine(v)
    PROVE  \E r \in CartRows, x \in Variants, q \in Nat, i \in ItemRows, k \in Nat :
              SetWrites(v, r, x, q, i, k)
<1>1. /\ visit[v] \in Visit /\ VisitFits(visit[v], item) /\ visit[v].pc = "setWrite"
      /\ item \in [ItemRows -> Item]
  BY DEF CartSound, CartTypeOK, SetLine
<1> PICK i, q, r : i = visit[v].item /\ q = visit[v].quantity /\ r = visit[v].cart
  OBVIOUS
<1>2. r \in CartRows /\ i \in ItemRows /\ q \in Nat /\ visit[v].op = "set" /\ item[i].cart = r
  BY <1>1, CartAssumption DEF Visit, VisitFits
<1> PICK x, k : x = item[i].variant /\ k = item[i].quantity
  OBVIOUS
<1>3. x \in Variants /\ k \in Nat /\ item[i] \in Item
  BY <1>1, <1>2 DEF Item
<1>4. /\ item[i].state = "live" /\ cart[r] \in Owners
      /\ added' = [added EXCEPT ![x] = @ + IF q > k THEN q - k ELSE 0]
      /\ Expect(visit[v].owner, x, q)
      /\ item' = [item EXCEPT ![i] =
                  IF q = 0 THEN [@ EXCEPT !.state = "deleted"]
                           ELSE [@ EXCEPT !.quantity = q]]
  BY DEF SetLine
<1>5. ASSUME q = 0 PROVE LinesDropped({i})
  <2>1. item' = [item EXCEPT ![i] = [item[i] EXCEPT !.state = "deleted"]]
    BY <1>4, <1>5
  <2>2. item'[i] = [item[i] EXCEPT !.state = "deleted"]
    BY <1>1, <1>2, <2>1
  <2>3. /\ item'[i].state = "deleted" /\ item'[i].cart = item[i].cart
        /\ item'[i].variant = item[i].variant /\ item'[i].quantity = item[i].quantity
        /\ item'[i] \in Item
    BY <1>3, <2>2 DEF Item
  <2>4. item' \in [ItemRows -> Item] /\ \A j \in ItemRows : j # i => item'[j] = item[j]
    BY <1>1, <1>2, <2>1, <2>3
  <2> QED
    BY <1>4, <2>3, <2>4 DEF LinesDropped
<1>6. ASSUME q > 0 PROVE LinePut(i, r, x, q)
  <2>0. q # 0
    BY <1>6
  <2>1. item' = [item EXCEPT ![i] = [item[i] EXCEPT !.quantity = q]]
    BY <1>4, <2>0
  <2>2. item'[i] = [item[i] EXCEPT !.quantity = q]
    BY <1>1, <1>2, <2>1
  <2>3. /\ item'[i].state = "live" /\ item'[i].cart = r
        /\ item'[i].variant = x /\ item'[i].quantity = q
        /\ item'[i] \in Item
    BY <1>2, <1>3, <1>4, <2>2 DEF Item
  <2>4. item' \in [ItemRows -> Item] /\ \A j \in ItemRows : j # i => item'[j] = item[j]
    BY <1>1, <1>2, <2>1, <2>3
  <2> QED
    BY <1>2, <1>3, <1>4, <2>3, <2>4 DEF LinePut
<1>7. SetWrites(v, r, x, q, i, k)
  BY <1>1, <1>2, <1>4, <1>5, <1>6 DEF SetWrites
<1> QED
  BY <1>2, <1>3, <1>7

LEMMA SetSound ==
    ASSUME CartSound, NEW v \in Visits, SetLine(v)
    PROVE  CartSound'
<1>0. PICK r \in CartRows, x \in Variants, q \in Nat, i \in ItemRows, k \in Nat :
             SetWrites(v, r, x, q, i, k)
  BY SetLineIs
<1>1. /\ cart[r] \in Owners
      /\ q = 0 => LinesDropped({i})
      /\ q > 0 => LinePut(i, r, x, q)
      /\ added' = [added EXCEPT ![x] = @ + IF q > k THEN q - k ELSE 0]
      /\ Expect(visit[v].owner, x, q)
  BY <1>0 DEF SetWrites
<1>2. RowsFollow(item, item') /\ LinesFit(cart, item') /\ item' \in [ItemRows -> Item]
  <2>1. CASE q = 0
    <3>1. \A j \in ItemRows : item[j].state = "live" => cart[item[j].cart] \in Owners
      BY DEF CartSound, LinesFit
    <3> QED
      BY <1>1, <2>1, <3>1, DropSound DEF LinesDropped
  <2>2. CASE q > 0
    BY <1>1, <2>2, PutSound DEF LinePut
  <2> QED
    BY <1>1, <2>1, <2>2
<1>4. UNCHANGED <<cart, visits, overlap>> /\ visit' = [visit EXCEPT ![v] = Away]
  BY DEF SetLine, Leave
<1>5. /\ visits' \in 0..MaxVisits /\ overlap' \in BOOLEAN
      /\ cart' \in [CartRows -> Owners \cup {"unused", "deleted"}] /\ OneCartEach(cart')
  BY <1>4 DEF CartSound, CartTypeOK
<1>6. visit[v].owner \in Owners /\ expected \in [Owners -> [Variants -> Nat]]
      /\ added \in [Variants -> Nat]
  BY DEF CartSound, CartTypeOK, Visit
<1>8. expected' \in [Owners -> [Variants -> Nat]]
  BY <1>1, <1>6 DEF Expect
<1> PICK n : n = added[x] + IF q > k THEN q - k ELSE 0
  OBVIOUS
<1>9. n \in Nat
  BY <1>1, <1>6
<1>10. added' \in [Variants -> Nat]
  BY <1>1, <1>6, <1>9
<1> QED
  BY <1>2, <1>4, <1>5, <1>8, <1>10, AwayFits, VisitMoves

LEMMA RemoveLineIs ==
    ASSUME CartSound, NEW v \in Visits, RemoveLine(v)
    PROVE  \E r \in CartRows, i \in ItemRows :
             /\ i = visit[v].item /\ r = visit[v].cart /\ cart[r] \in Owners
             /\ visit[v].pc = "remove" /\ visit[v].op = "remove"
             /\ \/ /\ item[i].state = "live" /\ item[i].cart = r /\ LinesDropped({i})
                   /\ Expect(visit[v].owner, item[i].variant, 0)
                \/ UNCHANGED <<item, expected>>
<1>1. /\ visit[v] \in Visit /\ VisitFits(visit[v], item) /\ visit[v].pc = "remove"
      /\ item \in [ItemRows -> Item] /\ cart[visit[v].cart] \in Owners
  BY DEF CartSound, CartTypeOK, RemoveLine
<1> PICK i, r : i = visit[v].item /\ r = visit[v].cart
  OBVIOUS
<1>2. r \in CartRows /\ i \in ItemRows /\ visit[v].op = "remove"
  BY <1>1 DEF VisitFits
<1>3. CASE i \in LinesOf(r)
  <2>1. item' = [item EXCEPT ![i].state = "deleted"] /\ item[i].state = "live" /\ item[i].cart = r
        /\ Expect(visit[v].owner, item[i].variant, 0)
    BY <1>3 DEF RemoveLine, LinesOf
  <2>2. item'[i] = [item[i] EXCEPT !.state = "deleted"] /\ item[i] \in Item
    BY <1>1, <1>2, <2>1
  <2>3. /\ item'[i].state = "deleted" /\ item'[i].cart = item[i].cart
        /\ item'[i].variant = item[i].variant /\ item'[i].quantity = item[i].quantity
        /\ item'[i] \in Item
    BY <2>2 DEF Item
  <2>4. item' \in [ItemRows -> Item] /\ \A j \in ItemRows : j # i => item'[j] = item[j]
    BY <1>1, <1>2, <2>1, <2>3
  <2>5. LinesDropped({i})
    BY <2>1, <2>3, <2>4 DEF LinesDropped
  <2> QED
    BY <1>1, <1>2, <2>1, <2>5
<1>4. CASE i \notin LinesOf(r)
  BY <1>1, <1>2, <1>4 DEF RemoveLine
<1> QED
  BY <1>3, <1>4

LEMMA RemoveSound ==
    ASSUME CartSound, NEW v \in Visits, RemoveLine(v)
    PROVE  CartSound'
<1>1. PICK r \in CartRows, i \in ItemRows :
             \/ /\ LinesDropped({i}) /\ Expect(visit[v].owner, item[i].variant, 0)
             \/ UNCHANGED <<item, expected>>
  BY RemoveLineIs
<1>2. /\ visit[v].owner \in Owners /\ expected \in [Owners -> [Variants -> Nat]]
      /\ added \in [Variants -> Nat] /\ item \in [ItemRows -> Item]
  BY DEF CartSound, CartTypeOK, Visit
<1>3. /\ RowsFollow(item, item') /\ LinesFit(cart, item') /\ item' \in [ItemRows -> Item]
      /\ expected' \in [Owners -> [Variants -> Nat]]
  <2>1. CASE UNCHANGED <<item, expected>>
    BY <1>2, <2>1, SameLines
  <2>2. CASE LinesDropped({i}) /\ Expect(visit[v].owner, item[i].variant, 0)
    <3>1. \A j \in ItemRows : item[j].state = "live" => cart[item[j].cart] \in Owners
      BY DEF CartSound, LinesFit
    <3>2. RowsFollow(item, item') /\ LinesFit(cart, item') /\ item' \in [ItemRows -> Item]
      BY <2>2, <3>1, DropSound DEF LinesDropped
    <3>3. expected' \in [Owners -> [Variants -> Nat]]
      BY <1>2, <2>2 DEF Expect
    <3> QED
      BY <3>2, <3>3
  <2> QED
    BY <1>1, <2>1, <2>2
<1>4. UNCHANGED <<cart, visits, added, overlap>> /\ visit' = [visit EXCEPT ![v] = Away]
  BY DEF RemoveLine, Leave
<1>5. /\ visits' \in 0..MaxVisits /\ overlap' \in BOOLEAN /\ added' \in [Variants -> Nat]
      /\ cart' \in [CartRows -> Owners \cup {"unused", "deleted"}] /\ OneCartEach(cart')
  BY <1>4 DEF CartSound, CartTypeOK
<1> QED
  BY <1>3, <1>4, <1>5, AwayFits, VisitMoves

\* What the merge leaves of what carts should hold.
LEMMA MergedIs ==
    ASSUME CartSound, NEW v \in Visits, visit[v].op = "merge"
    PROVE  /\ Merged(v) \in [Owners -> [Variants -> Nat]]
           /\ visit[v].target \in Customers /\ visit[v].owner \in Sessions
           /\ \A x \in Variants :
                /\ Merged(v)[visit[v].owner][x] = 0
                /\ Merged(v)[visit[v].target][x]
                     = expected[visit[v].target][x] + expected[visit[v].owner][x]
                /\ \A o \in Owners \ {visit[v].owner, visit[v].target} :
                     Merged(v)[o][x] = expected[o][x]
<1>1. visit[v] \in Visit /\ VisitFits(visit[v], item)
      /\ expected \in [Owners -> [Variants -> Nat]]
  BY DEF CartSound, CartTypeOK
<1> PICK o, c : o = visit[v].owner /\ c = visit[v].target
  OBVIOUS
<1>2. c \in Customers /\ o \in Sessions /\ c \in Owners /\ o \in Owners
  BY <1>1, CartFacts DEF VisitFits
<1>3. c # o
  BY <1>2, CartAssumption
<1> PICK f : f = [x \in Variants |-> expected[c][x] + expected[o][x]]
  OBVIOUS
<1>4. f \in [Variants -> Nat] /\ \A x \in Variants : f[x] = expected[c][x] + expected[o][x]
  <2>1. ASSUME NEW x \in Variants PROVE expected[c][x] + expected[o][x] \in Nat
    <3>1. expected[c][x] \in Nat /\ expected[o][x] \in Nat
      BY <1>1, <1>2
    <3> QED
      BY <3>1
  <2> QED
    BY <2>1
<1>5. Merged(v) = [expected EXCEPT ![c] = f, ![o] = NoUnits]
  BY <1>1, <1>2 DEF Merged
<1>6. NoUnits \in [Variants -> Nat] /\ \A x \in Variants : NoUnits[x] = 0
  BY DEF NoUnits
<1>7. Merged(v) \in [Owners -> [Variants -> Nat]]
  BY <1>1, <1>4, <1>5, <1>6
<1>8. /\ Merged(v)[o] = NoUnits /\ Merged(v)[c] = f
      /\ \A p \in Owners \ {o, c} : Merged(v)[p] = expected[p]
  BY <1>1, <1>2, <1>3, <1>5
<1> QED
  BY <1>2, <1>4, <1>6, <1>7, <1>8

\* A transaction that has written: its request is over.
LEMMA WriteSound ==
    ASSUME CartSound, NEW v \in Visits, Leave(v), UNCHANGED <<visits, overlap>>,
           added' = added, expected' \in [Owners -> [Variants -> Nat]],
           cart' \in [CartRows -> Owners \cup {"unused", "deleted"}],
           item' \in [ItemRows -> Item],
           RowsFollow(item, item'), LinesFit(cart', item'), OneCartEach(cart')
    PROVE  CartSound'
<1>1. visits' \in 0..MaxVisits /\ overlap' \in BOOLEAN /\ added' \in [Variants -> Nat]
  BY DEF CartSound, CartTypeOK
<1>2. visit' = [visit EXCEPT ![v] = Away]
  BY DEF Leave
<1> QED
  BY <1>1, <1>2, AwayFits, VisitMoves

LEMMA MergeReadSound ==
    ASSUME CartSound, NEW v \in Visits, MergeRead(v)
    PROVE  CartSound'
<1>1. visits' \in 0..MaxVisits /\ overlap' \in BOOLEAN /\ UNCHANGED <<cart, item, expected, added>>
      /\ UNCHANGED <<cart, item, visits, expected, added, overlap>>
  BY DEF CartSound, CartTypeOK, MergeRead
<1>2. CASE Leave(v)
  BY <1>1, <1>2, LeaveSound
<1>3. CASE ~Leave(v)
  <2>1. PICK w \in Visit : VisitFits(w, item) /\ visit' = [visit EXCEPT ![v] = w]
    BY <1>3, MergeReadIs
  <2> QED
    BY <1>1, <2>1, VisitReads
<1> QED
  BY <1>2, <1>3

LEMMA ReadLineSound ==
    ASSUME CartSound, NEW v \in Visits, ReadLine(v)
    PROVE  CartSound'
<1>1. visits' \in 0..MaxVisits /\ overlap' \in BOOLEAN /\ UNCHANGED <<cart, item, expected, added>>
  BY DEF CartSound, CartTypeOK, ReadLine
<1>2. PICK w \in Visit : VisitFits(w, item) /\ visit' = [visit EXCEPT ![v] = w]
  BY ReadLineIs
<1> QED
  BY <1>1, <1>2, VisitReads

LEMMA MergeLookupSound ==
    ASSUME CartSound, NEW v \in Visits, MergeLookup(v)
    PROVE  CartSound'
<1>1. visits' \in 0..MaxVisits /\ overlap' \in BOOLEAN /\ UNCHANGED <<cart, item, expected, added>>
  BY DEF CartSound, CartTypeOK, MergeLookup
<1>2. CASE CartsOf(visit[v].target) = {}
  <2> PICK w : w = [visit[v] EXCEPT !.pc = "adopt"]
    OBVIOUS
  <2>1. w \in Visit /\ VisitFits(w, item)
    BY CartStepFits DEF MergeLookup
  <2>2. visit' = [visit EXCEPT ![v] = w]
    BY <1>2 DEF MergeLookup, CartStep
  <2> QED
    BY <1>1, <2>1, <2>2, VisitReads
<1>3. CASE CartsOf(visit[v].target) # {}
  <2>1. PICK w \in Visit : VisitFits(w, item) /\ visit' = [visit EXCEPT ![v] = w]
    BY <1>3, MergeLookupIs
  <2> QED
    BY <1>1, <2>1, VisitReads
<1> QED
  BY <1>2, <1>3

\* A cart that is deleted takes its lines with it.
LEMMA DiscardIs ==
    ASSUME CartSound, NEW v \in Visits, DiscardCart(v)
    PROVE  \E r \in CartRows, o \in Owners :
             /\ r = visit[v].cart /\ o = visit[v].owner /\ cart[r] \in Owners
             /\ visit[v].pc = "discard" /\ visit[v].op = "merge"
             /\ cart' = [cart EXCEPT ![r] = "deleted"]
             /\ LinesDropped(LinesOf(r))
             /\ expected' = [expected EXCEPT ![o] = NoUnits]
<1>1. /\ visit[v] \in Visit /\ VisitFits(visit[v], item) /\ visit[v].pc = "discard"
      /\ CartTypeOK
  BY DEF CartSound, CartTypeOK, DiscardCart
<1> PICK r, o : r = visit[v].cart /\ o = visit[v].owner
  OBVIOUS
<1>2. r \in CartRows /\ o \in Owners /\ visit[v].op = "merge"
  BY <1>1 DEF VisitFits, Visit
<1>3. /\ cart[r] \in Owners /\ cart' = [cart EXCEPT ![r] = "deleted"]
      /\ item' = Without(r) /\ expected' = [expected EXCEPT ![o] = NoUnits]
  BY DEF DiscardCart
<1>4. \A i \in ItemRows : i \in LinesOf(r) <=> item[i].state = "live" /\ item[i].cart = r
  BY DEF LinesOf
<1>5. LinesDropped(LinesOf(r))
  BY <1>1, <1>3, <1>4, WithoutIs DEF LinesDropped
<1> QED
  BY <1>1, <1>2, <1>3, <1>5

LEMMA DiscardSound ==
    ASSUME CartSound, NEW v \in Visits, DiscardCart(v)
    PROVE  CartSound'
<1>1. PICK r \in CartRows, o \in Owners :
             /\ cart' = [cart EXCEPT ![r] = "deleted"] /\ LinesDropped(LinesOf(r))
             /\ expected' = [expected EXCEPT ![o] = NoUnits]
  BY DiscardIs
<1>2. /\ cart \in [CartRows -> Owners \cup {"unused", "deleted"}] /\ NoUnits \in [Variants -> Nat]
      /\ expected \in [Owners -> [Variants -> Nat]] /\ LinesFit(cart, item)
      /\ \A i \in ItemRows : item[i].state \in {"unused", "live", "deleted"}
  BY CartFacts DEF CartSound, CartTypeOK, Item
<1>3. cart' \in [CartRows -> Owners \cup {"unused", "deleted"}]
      /\ expected' \in [Owners -> [Variants -> Nat]] /\ item' \in [ItemRows -> Item]
  BY <1>1, <1>2 DEF LinesDropped
<1>4. \A i \in ItemRows : item[i].state = "live" /\ i \notin LinesOf(r) => cart'[item[i].cart] \in Owners
  BY <1>1, <1>2 DEF LinesFit, LinesOf
<1>5. \A s \in CartRows : cart'[s] = cart[s] \/ cart'[s] = "deleted"
  BY <1>1, <1>2
<1>6. RowsFollow(item, item') /\ LinesFit(cart', item')
  BY <1>1, <1>4, DropSound
<1>7. OneCartEach(cart')
  BY <1>3, <1>5, CartsGone
<1>8. Leave(v) /\ UNCHANGED <<visits, overlap>> /\ added' = added
  BY DEF DiscardCart
<1> QED
  BY <1>3, <1>6, <1>7, <1>8, WriteSound

LEMMA AdoptIs ==
    ASSUME CartSound, NEW v \in Visits, AdoptCart(v)
    PROVE  \E r \in CartRows, c \in Owners :
             /\ r = visit[v].cart /\ c = visit[v].target /\ cart[r] \in Owners
             /\ visit[v].pc = "adopt" /\ visit[v].op = "merge" /\ CartsOf(c) \subseteq {r}
             /\ cart' = [cart EXCEPT ![r] = c] /\ UNCHANGED item
             /\ expected' = Merged(v)
<1>1. /\ visit[v] \in Visit /\ VisitFits(visit[v], item) /\ visit[v].pc = "adopt"
      /\ visit[v].op = "merge"
  BY DEF CartSound, CartTypeOK, AdoptCart, VisitFits
<1> PICK r, c : r = visit[v].cart /\ c = visit[v].target
  OBVIOUS
<1>2. r \in CartRows /\ c \in Owners
  BY <1>1, CartFacts DEF VisitFits
<1> QED
  BY <1>1, <1>2 DEF AdoptCart

LEMMA AdoptSound ==
    ASSUME CartSound, NEW v \in Visits, AdoptCart(v)
    PROVE  CartSound'
<1>1. PICK r \in CartRows, c \in Owners :
             /\ visit[v].op = "merge" /\ CartsOf(c) \subseteq {r}
             /\ cart' = [cart EXCEPT ![r] = c] /\ UNCHANGED item
             /\ expected' = Merged(v)
  BY AdoptIs
<1>2. cart \in [CartRows -> Owners \cup {"unused", "deleted"}] /\ item \in [ItemRows -> Item]
      /\ LinesFit(cart, item) /\ OneCartEach(cart)
  BY DEF CartSound, CartTypeOK
<1>3. cart' \in [CartRows -> Owners \cup {"unused", "deleted"}] /\ item' \in [ItemRows -> Item]
      /\ expected' \in [Owners -> [Variants -> Nat]]
  BY <1>1, <1>2, MergedIs
<1>4. RowsFollow(item, item')
  BY <1>1 DEF RowsFollow
<1>5. LinesFit(cart', item')
  BY <1>1, <1>2 DEF LinesFit
<1>6. OneCartEach(cart')
  BY <1>1, <1>2 DEF OneCartEach, CartsOf
<1>7. Leave(v) /\ UNCHANGED <<visits, overlap>> /\ added' = added
  BY DEF AdoptCart
<1> QED
  BY <1>3, <1>4, <1>5, <1>6, <1>7, WriteSound

LEMMA ClearIs ==
    ASSUME CartSound, NEW v \in Visits, ClearCheckoutCart(v)
    PROVE  \E o \in Owners :
             /\ o = visit[v].owner
             /\ cart' = [r \in CartRows |-> IF cart[r] = o THEN "deleted" ELSE cart[r]]
             /\ LinesDropped({i \in ItemRows : cart[item[i].cart] = o})
             /\ expected' = [expected EXCEPT ![o] = NoUnits]
<1>1. visit[v] \in Visit /\ item \in [ItemRows -> Item] /\ LinesFit(cart, item)
  BY DEF CartSound, CartTypeOK
<1> PICK o : o = visit[v].owner
  OBVIOUS
<1>2. o \in Owners
  BY <1>1 DEF Visit
<1>3. cart' = [r \in CartRows |-> IF cart[r] = o THEN "deleted" ELSE cart[r]]
  BY DEF ClearCheckoutCart, CartsOf
<1>4. expected' = [expected EXCEPT ![o] = NoUnits]
  BY DEF ClearCheckoutCart
<1>5. ASSUME NEW i \in ItemRows
      PROVE  /\ item'[i] \in Item
             /\ item'[i].cart = item[i].cart /\ item'[i].variant = item[i].variant
             /\ item'[i].quantity = item[i].quantity
             /\ item'[i].state = IF item[i].state = "live" /\ cart[item[i].cart] = o
                                 THEN "deleted" ELSE item[i].state
  <2>1. (\E r \in CartsOf(o) : i \in LinesOf(r)) <=> item[i].state = "live" /\ cart[item[i].cart] = o
    BY <1>1 DEF CartsOf, LinesOf, LinesFit
  <2>2. item'[i] = IF \E r \in CartsOf(o) : i \in LinesOf(r)
                   THEN [item[i] EXCEPT !.state = "deleted"] ELSE item[i]
    BY DEF ClearCheckoutCart
  <2> QED
    BY <1>1, <2>1, <2>2 DEF Item
<1>6. item' \in [ItemRows -> Item]
  BY <1>5 DEF ClearCheckoutCart
<1>7. LinesDropped({i \in ItemRows : cart[item[i].cart] = o})
  BY <1>5, <1>6 DEF LinesDropped
<1> QED
  BY <1>2, <1>3, <1>4, <1>7

LEMMA ClearSound ==
    ASSUME CartSound, NEW v \in Visits, ClearCheckoutCart(v)
    PROVE  CartSound'
<1> PICK D, o : D = {i \in ItemRows : cart[item[i].cart] = o} /\ o = visit[v].owner
  OBVIOUS
<1>1. /\ o \in Owners
      /\ cart' = [r \in CartRows |-> IF cart[r] = o THEN "deleted" ELSE cart[r]]
      /\ LinesDropped(D)
      /\ expected' = [expected EXCEPT ![o] = NoUnits]
  BY ZenonT(60), ClearIs
<1>2. /\ cart \in [CartRows -> Owners \cup {"unused", "deleted"}] /\ NoUnits \in [Variants -> Nat]
      /\ expected \in [Owners -> [Variants -> Nat]] /\ LinesFit(cart, item)
      /\ \A i \in ItemRows : item[i].state \in {"unused", "live", "deleted"}
  BY CartFacts DEF CartSound, CartTypeOK, Item
<1>3. cart' \in [CartRows -> Owners \cup {"unused", "deleted"}]
      /\ expected' \in [Owners -> [Variants -> Nat]] /\ item' \in [ItemRows -> Item]
  BY <1>1, <1>2 DEF LinesDropped
<1>4. \A i \in ItemRows : item[i].state = "live" /\ i \notin D => cart'[item[i].cart] \in Owners
  BY <1>1, <1>2, CartFacts DEF LinesFit
<1>5. \A s \in CartRows : cart'[s] = cart[s] \/ cart'[s] = "deleted"
  BY <1>1, <1>2
<1>6. RowsFollow(item, item') /\ LinesFit(cart', item')
  BY <1>1, <1>4, DropSound
<1>7. OneCartEach(cart')
  BY <1>3, <1>5, CartsGone
<1>8. Leave(v) /\ UNCHANGED <<visits, overlap>> /\ added' = added
  BY DEF ClearCheckoutCart
<1> QED
  BY <1>3, <1>6, <1>7, <1>8, WriteSound

LEMMA MergeLinesSound ==
    ASSUME CartSound, NEW v \in Visits, MergeLines(v)
    PROVE  CartSound'
<1>1. PICK c \in CartRows, d \in CartRows, row \in Placements(v) : MergeWrites(v, c, d, row)
  BY MergeLinesIs
<1> PICK ls, read, X : ls = visit[v].lines /\ read = visit[v].read /\ X = DOMAIN row
  OBVIOUS
<1>2. visit[v] \in Visit /\ VisitFits(visit[v], item) /\ item \in [ItemRows -> Item]
      /\ cart \in [CartRows -> Owners \cup {"unused", "deleted"}]
      /\ LinesFit(cart, item) /\ OneCartEach(cart)
  BY DEF CartSound, CartTypeOK
<1>3. /\ c # d /\ cart[c] \in Owners /\ cart[d] \in Owners
      /\ cart' = [cart EXCEPT ![c] = "deleted"] /\ visit[v].pc = "mergeInto"
      /\ ls \subseteq ItemRows /\ \A i \in ls : item[i].state = "live" /\ item[i].cart = d
      /\ row \in [MergedVariants(v) \ FoundVariants(v) -> ItemRows]
      /\ item' \in [ItemRows -> Item]
  BY <1>1 DEF MergeWrites
<1>4. \A x, y \in X : row[x] = row[y] => x = y
  BY <1>1 DEF MergeWrites
<1>5. \A x \in X : /\ row[x] \in ItemRows /\ read[x] > 0 /\ item[row[x]].state = "unused"
                   /\ LineOf(d, x) = {}
  BY <1>1, <1>3 DEF MergeWrites, MergedVariants
<1>6. \A i \in ls : /\ item'[i].state = "live" /\ item'[i].cart = d
                    /\ item'[i].variant = item[i].variant
                    /\ item'[i].quantity = read[item[i].variant]
  BY <1>1 DEF MergeWrites
<1>7. \A x \in X : /\ item'[row[x]].state = "live" /\ item'[row[x]].cart = d
                   /\ item'[row[x]].variant = x /\ item'[row[x]].quantity = read[x]
  BY <1>1 DEF MergeWrites
<1>8. ASSUME NEW i \in ItemRows \ ls, \A x \in X : row[x] # i
      PROVE  /\ item'[i].cart = item[i].cart /\ item'[i].variant = item[i].variant
             /\ item'[i].quantity = item[i].quantity
             /\ item'[i].state = IF item[i].state = "live" /\ item[i].cart = c
                                 THEN "deleted" ELSE item[i].state
  BY <1>1, <1>8 DEF MergeWrites
<1>9. \A i \in ls : read[item[i].variant] > 0
  BY <1>2, <1>3 DEF VisitFits
<1>10. RowsFollow(item, item')
  <2>1. ASSUME NEW i \in ItemRows, item[i].state # "unused"
        PROVE  item'[i].state # "unused" /\ item'[i].cart = item[i].cart
               /\ item'[i].variant = item[i].variant
    <3>1. \A x \in X : row[x] # i
      BY <1>5, <2>1
    <3>2. CASE i \in ls
      BY <1>3, <1>6, <3>2
    <3>3. CASE i \notin ls
      BY <1>8, <2>1, <3>1, <3>3
    <3> QED
      BY <3>2, <3>3
  <2> QED
    BY <2>1 DEF RowsFollow
<1>11. ASSUME NEW i \in ItemRows, item'[i].state = "live"
       PROVE  \/ /\ item[i].state = "live" /\ item'[i].cart = item[i].cart /\ item[i].cart # c
                 /\ item'[i].variant = item[i].variant /\ item'[i].quantity > 0
              \/ \E x \in X : i = row[x] /\ item'[i].cart = d /\ item'[i].variant = x
                              /\ item'[i].quantity > 0
  <2>1. CASE i \in ls
    BY <1>3, <1>6, <1>9, <2>1
  <2>2. CASE \E x \in X : row[x] = i
    BY <1>5, <1>7, <2>2
  <2>3. CASE i \notin ls /\ \A x \in X : row[x] # i
    <3>1. item[i].state = "live" /\ item[i].cart # c /\ item'[i].cart = item[i].cart
          /\ item'[i].variant = item[i].variant /\ item'[i].quantity = item[i].quantity
      BY <1>8, <1>11, <2>3
    <3> QED
      BY <1>2, <3>1 DEF LinesFit
  <2> QED
    BY <2>1, <2>2, <2>3
<1>12. \A i \in ItemRows : item'[i].state # "unused" => item'[i].cart \in CartRows
  <2>1. ASSUME NEW i \in ItemRows, item'[i].state # "unused" PROVE item'[i].cart \in CartRows
    <3>1. CASE i \in ls \/ \E x \in X : row[x] = i
      BY <1>6, <1>7, <3>1
    <3>2. CASE i \notin ls /\ \A x \in X : row[x] # i
      BY <1>2, <1>8, <2>1, <3>2 DEF LinesFit
    <3> QED
      BY <3>1, <3>2
  <2> QED
    BY <2>1
<1>13. \A i \in ItemRows : item'[i].state = "live" =>
          cart'[item'[i].cart] \in Owners /\ item'[i].quantity > 0
  <2>1. ASSUME NEW i \in ItemRows, item'[i].state = "live"
        PROVE  cart'[item'[i].cart] \in Owners /\ item'[i].quantity > 0
    <3>1. item'[i].cart \in CartRows /\ item'[i].cart # c /\ cart[item'[i].cart] \in Owners
          /\ item'[i].quantity > 0
      BY <1>2, <1>3, <1>11, <1>12, <2>1 DEF LinesFit
    <3> QED
      BY <1>2, <1>3, <3>1
  <2> QED
    BY <2>1
<1>14. ASSUME NEW i \in ItemRows, NEW j \in ItemRows,
              item'[i].state = "live", item'[j].state = "live",
              item'[i].cart = item'[j].cart, item'[i].variant = item'[j].variant
       PROVE  i = j
  <2>1. \A x \in X, k \in ItemRows : ~(item[k].state = "live" /\ item[k].cart = d /\ item[k].variant = x)
    BY <1>5 DEF LineOf, LinesOf
  <2> QED
    BY <1>2, <1>4, <1>11, <1>14, <2>1 DEF LinesFit
<1>15. LinesFit(cart', item')
  BY <1>12, <1>13, <1>14 DEF LinesFit
<1>16. cart' \in [CartRows -> Owners \cup {"unused", "deleted"}]
       /\ \A s \in CartRows : cart'[s] = cart[s] \/ cart'[s] = "deleted"
  BY <1>2, <1>3
<1>17. OneCartEach(cart')
  BY <1>16, CartsGone
<1>18. visit[v].op = "merge"
  BY <1>2, <1>3 DEF VisitFits
<1>19. Leave(v) /\ UNCHANGED <<visits, overlap>> /\ added' = added /\ expected' = Merged(v)
  BY DEF MergeLines
<1>20. expected' \in [Owners -> [Variants -> Nat]]
  BY <1>18, <1>19, MergedIs
<1> QED
  BY <1>3, <1>10, <1>15, <1>16, <1>17, <1>19, <1>20, WriteSound

LEMMA CartStart == CartInit => CartSound
<1> SUFFICES ASSUME CartInit PROVE CartSound
  OBVIOUS
<1>1. CartTypeOK
  <2>1. cart \in [CartRows -> Owners \cup {"unused", "deleted"}] /\ visit \in [Visits -> Visit]
    BY AwayFits DEF CartInit
  <2>2. item \in [ItemRows -> Item]
    BY CartFacts DEF CartInit, Item
  <2>5. MaxVisits \in Nat /\ visits = 0 /\ overlap = FALSE
    BY CartAssumption DEF CartInit
  <2>3. visits \in 0..MaxVisits
    BY <2>5
  <2>6. overlap \in BOOLEAN
    BY <2>5
  <2>4. expected \in [Owners -> [Variants -> Nat]] /\ added \in [Variants -> Nat]
    BY CartFacts DEF CartInit
  <2> QED
    BY <2>1, <2>2, <2>3, <2>4, <2>6 DEF CartTypeOK
<1>2. \A v \in Visits : VisitFits(visit[v], item)
  BY AwayFits DEF CartInit
<1>3. LinesFit(cart, item) /\ OneCartEach(cart)
  BY CartFacts DEF CartInit, LinesFit, OneCartEach
<1> QED
  BY <1>1, <1>2, <1>3 DEF CartSound

LEMMA CartSteady == CartSound /\ [CartNext]_cartVars => CartSound'
<1> SUFFICES ASSUME CartSound, [CartNext]_cartVars PROVE CartSound'
  OBVIOUS
<1>1. CASE UNCHANGED cartVars
  BY <1>1 DEF cartVars, CartSound, CartTypeOK, CartsOf
<1>2. CASE CartNext
  <2> PICK v \in Visits :
        \/ \E op \in {"add", "set", "remove", "merge", "clear", "get"}, o \in Owners,
              c \in Customers \cup {Nothing}, x \in Variants, q \in 0..MaxQuantity,
              i \in ItemRows \cup {Nothing} : Begin(v, op, o, c, x, q, i)
        \/ FindCart(v) \/ CreateCart(v) \/ ReadLine(v) \/ AddLine(v)
        \/ ReadItem(v) \/ SetLine(v) \/ RemoveLine(v)
        \/ MergeRead(v) \/ DiscardCart(v) \/ MergeLookup(v) \/ AdoptCart(v)
        \/ MergeLines(v) \/ ClearCheckoutCart(v) \/ FailVisit(v)
    BY <1>2 DEF CartNext
  <2> QED
    BY BeginSound, QuietSteps, CreateSound, ReadLineSound, AddSound, SetSound, RemoveSound,
       MergeReadSound, DiscardSound, MergeLookupSound, AdoptSound, MergeLinesSound, ClearSound
<1> QED
  BY <1>1, <1>2

LEMMA CartStaysSound == CartSpec => []CartSound
  BY CartStart, CartSteady, PTL DEF CartSpec

-----------------------------------------------------------------------------
(* No units from nothing.  C[r][x] bounds the units of variant x that the  *)
(* requests put into row r or into a cart that was merged into it: it      *)
(* grows with every addition, and a merge that commits adds the bound of   *)
(* the session's cart, which is then deleted, to the customer's.           *)

Purses == [CartRows -> [Variants -> Nat]]
Column(C, x) == [r \in CartRows |-> C[r][x]]
Owned(c) == {r \in CartRows : c[r] \in Owners}
Fund(C, x, c) == SumFunctionOnSet(Column(C, x), Owned(c))

\* What a request will write is covered by the carts it read.
VisitFunded(w, C) ==
    /\ w.pc = "addWrite" => w.read[w.variant] <= C[w.cart][w.variant]
    /\ w.pc = "mergeInto" /\ w.into = Nothing =>
           \A x \in Variants : w.read[x] <= C[w.cart][x]
    /\ w.pc = "mergeInto" /\ w.into # Nothing /\ w.into # w.cart =>
           \A x \in Variants : w.read[x] <= C[w.cart][x] + C[w.into][x]

LinesFunded(f, C) ==
    \A i \in ItemRows : f[i].state = "live" => f[i].quantity <= C[f[i].cart][f[i].variant]

UnusedEmpty(c, C) == \A r \in CartRows, x \in Variants : c[r] = "unused" => C[r][x] = 0

Funded(C) == /\ \A v \in Visits : VisitFunded(visit[v], C)
             /\ LinesFunded(item, C)
             /\ UnusedEmpty(cart, C)
             /\ \A x \in Variants : Fund(C, x, cart) <= added[x]

CartFunded == CartSound /\ \E C \in Purses : Funded(C)

LEMMA OwnedFinite == \A c : IsFiniteSet(Owned(c)) /\ Owned(c) \subseteq CartRows
<1> TAKE c
<1>1. Owned(c) \subseteq CartRows
  BY DEF Owned
<1> QED
  BY <1>1, CartAssumption, FS_Subset

LEMMA ColumnIs ==
    ASSUME NEW C \in Purses, NEW x \in Variants
    PROVE  \A r \in CartRows : Column(C, x)[r] = C[r][x] /\ C[r][x] \in Nat
                               /\ Column(C, x)[r] \in Nat
  BY DEF Column, Purses

LEMMA FundNat ==
    ASSUME NEW C \in Purses, NEW x \in Variants, NEW c
    PROVE  Fund(C, x, c) \in Nat
<1>1. IsFiniteSet(Owned(c)) /\ \A r \in Owned(c) : Column(C, x)[r] \in Nat
  BY OwnedFinite, ColumnIs
<1> QED
  BY <1>1, SumNat DEF Fund

LEMMA FundShrinks ==
    ASSUME NEW C \in Purses, NEW x \in Variants, NEW c, NEW d, Owned(d) \subseteq Owned(c)
    PROVE  Fund(C, x, d) <= Fund(C, x, c)
<1>1. IsFiniteSet(Owned(c)) /\ \A r \in Owned(c) : Column(C, x)[r] \in Nat
  BY OwnedFinite, ColumnIs
<1> QED
  BY <1>1, SumSubset DEF Fund

\* A cart that is made has nothing in it.
LEMMA FundOpens ==
    ASSUME NEW C \in Purses, NEW x \in Variants, NEW c, NEW d, NEW r \in CartRows,
           r \notin Owned(c), Owned(d) = Owned(c) \cup {r}, C[r][x] = 0
    PROVE  Fund(C, x, d) = Fund(C, x, c)
<1>1. IsFiniteSet(Owned(c)) /\ \A s \in Owned(c) \cup {r} : Column(C, x)[s] \in Int
  <2>1. \A s \in Owned(c) \cup {r} : s \in CartRows
    BY OwnedFinite
  <2> QED
    BY <2>1, OwnedFinite, ColumnIs
<1>2. SumFunctionOnSet(Column(C, x), Owned(c) \cup {r})
        = SumFunctionOnSet(Column(C, x), Owned(c)) + Column(C, x)[r]
  BY <1>1, SumAdd
<1>3. Column(C, x)[r] = 0
  BY ColumnIs
<1>4. Fund(C, x, c) \in Nat
  BY FundNat
<1> QED
  BY <1>2, <1>3, <1>4 DEF Fund

\* Units are put into a live cart.
LEMMA FundGrows ==
    ASSUME NEW C \in Purses, NEW c, NEW r \in Owned(c), NEW y \in Variants, NEW k \in Nat,
           NEW D \in Purses, D[r][y] = C[r][y] + k,
           \A s \in CartRows, z \in Variants : (s # r \/ z # y) => D[s][z] = C[s][z],
           NEW x \in Variants
    PROVE  Fund(D, x, c) = Fund(C, x, c) + IF x = y THEN k ELSE 0
<1> DEFINE F == Column(C, x)
           G == Column(D, x)
<1>1. r \in CartRows /\ IsFiniteSet(Owned(c)) /\ Owned(c) \subseteq CartRows
  BY OwnedFinite
<1>2. \A s \in CartRows : /\ F[s] = C[s][x] /\ F[s] \in Nat /\ G[s] = D[s][x] /\ G[s] \in Nat
  BY ColumnIs
<1>3. \A s \in CartRows \ {r} : D[s][x] = C[s][x]
  OBVIOUS
<1>4. D[r][x] = C[r][x] + IF x = y THEN k ELSE 0
  <2>1. r \in CartRows /\ C[r][x] \in Nat
    BY <1>1 DEF Purses
  <2>2. x # y => D[r][x] = C[r][x]
    BY <2>1
  <2>3. x = y => D[r][x] = C[r][x] + k
    OBVIOUS
  <2> QED
    BY <2>1, <2>2, <2>3
<1> HIDE DEF F, G
<1>5. /\ \A s \in Owned(c) : F[s] \in Int
      /\ G[r] \in Int
      /\ \A s \in Owned(c) \ {r} : G[s] = F[s]
  BY <1>1, <1>2, <1>3
<1>6. SumFunctionOnSet(G, Owned(c)) = SumFunctionOnSet(F, Owned(c)) - F[r] + G[r]
  BY <1>1, <1>5, SumChange
<1>7. SumFunctionOnSet(F, Owned(c)) \in Int
  BY <1>1, <1>5, SumInt
<1>8. Fund(C, x, c) = SumFunctionOnSet(F, Owned(c)) /\ Fund(D, x, c) = SumFunctionOnSet(G, Owned(c))
  BY DEF Fund, F, G
<1> PICK n : n = IF x = y THEN k ELSE 0
  OBVIOUS
<1>9. n \in Nat /\ G[r] = F[r] + n /\ F[r] \in Nat
  BY <1>1, <1>2, <1>4
<1>10. Fund(D, x, c) = Fund(C, x, c) + n
  BY <1>6, <1>7, <1>8, <1>9
<1> QED
  BY <1>10

\* One live cart is emptied into another, and deleted.
LEMMA FundMerges ==
    ASSUME NEW C \in Purses, NEW e, NEW c \in Owned(e), NEW d \in Owned(e), c # d,
           NEW D \in Purses, NEW x \in Variants, D[d][x] = C[d][x] + C[c][x],
           \A r \in CartRows : r # d => D[r][x] = C[r][x]
    PROVE  SumFunctionOnSet(Column(D, x), Owned(e) \ {c}) = Fund(C, x, e)
<1> DEFINE F == Column(C, x)
           G == Column(D, x)
           S == Owned(e)
           T == S \ {c}
<1>1. c \in CartRows /\ d \in CartRows /\ IsFiniteSet(S) /\ S \subseteq CartRows
  BY OwnedFinite
<1>2. \A s \in CartRows : /\ F[s] = C[s][x] /\ F[s] \in Nat /\ G[s] = D[s][x] /\ G[s] \in Nat
  BY ColumnIs
<1>3. G[d] = F[d] + F[c]
  BY <1>1, <1>2
<1>4. \A s \in CartRows \ {d} : G[s] = F[s]
  BY <1>2
<1>5. /\ Fund(C, x, e) = SumFunctionOnSet(F, S)
      /\ SumFunctionOnSet(Column(D, x), Owned(e) \ {c}) = SumFunctionOnSet(G, T)
  BY DEF Fund
<1>6. IsFiniteSet(T) /\ d \in T /\ T \subseteq CartRows
  BY <1>1, FS_RemoveElement
<1>11. c \in S
  OBVIOUS
<1> HIDE DEF F, G, T, S
<1>7. (\A s \in S : F[s] \in Int) /\ (\A s \in T : F[s] \in Int)
  BY <1>1, <1>2, <1>6
<1>8. SumFunctionOnSet(F, S) = F[c] + SumFunctionOnSet(F, T)
  BY <1>1, <1>7, <1>11, SumRemove DEF T
<1>9. G[d] \in Int /\ \A s \in T \ {d} : G[s] = F[s]
  BY <1>1, <1>2, <1>4, <1>6
<1>10. SumFunctionOnSet(G, T) = SumFunctionOnSet(F, T) - F[d] + G[d]
  BY <1>6, <1>7, <1>9, SumChange
<1>12. SumFunctionOnSet(F, T) \in Int
  BY <1>6, <1>7, SumInt
<1>13. F[c] \in Nat /\ F[d] \in Nat
  BY <1>1, <1>2
<1> QED
  BY <1>3, <1>5, <1>8, <1>10, <1>12, <1>13

\* The purses only grow.
Richer(C, D) == \A r \in CartRows, x \in Variants : C[r][x] <= D[r][x]

LEMMA RicherFunds ==
    ASSUME NEW C \in Purses, NEW D \in Purses, Richer(C, D), NEW w \in Visit, NEW f,
           VisitFits(w, f), VisitFunded(w, C)
    PROVE  VisitFunded(w, D)
<1>1. w.read \in [Variants -> Nat] /\ w.variant \in Variants
  BY DEF Visit
<1>2. \A r \in CartRows, x \in Variants :
         C[r][x] \in Nat /\ D[r][x] \in Nat /\ C[r][x] <= D[r][x]
  BY DEF Purses, Richer
<1>3. w.pc = "addWrite" => w.read[w.variant] <= D[w.cart][w.variant]
  <2>1. SUFFICES ASSUME w.pc = "addWrite" PROVE w.read[w.variant] <= D[w.cart][w.variant]
    OBVIOUS
  <2>2. w.cart \in CartRows /\ w.read[w.variant] <= C[w.cart][w.variant]
    BY <2>1 DEF VisitFits, VisitFunded
  <2>3. w.read[w.variant] \in Nat
    BY <1>1
  <2>4. C[w.cart][w.variant] \in Nat /\ D[w.cart][w.variant] \in Nat
        /\ C[w.cart][w.variant] <= D[w.cart][w.variant]
    BY <1>1, <1>2, <2>2
  <2> QED
    BY <2>2, <2>3, <2>4
<1>4. ASSUME w.pc = "mergeInto", w.into = Nothing, NEW x \in Variants
      PROVE  w.read[x] <= D[w.cart][x]
  <2>1. w.cart \in CartRows /\ w.read[x] <= C[w.cart][x] /\ w.read[x] \in Nat
    BY <1>1, <1>4 DEF VisitFits, VisitFunded
  <2>2. C[w.cart][x] \in Nat /\ D[w.cart][x] \in Nat /\ C[w.cart][x] <= D[w.cart][x]
    BY <1>2, <2>1
  <2> QED
    BY <2>1, <2>2
<1>5. ASSUME w.pc = "mergeInto", w.into # Nothing, w.into # w.cart, NEW x \in Variants
      PROVE  w.read[x] <= D[w.cart][x] + D[w.into][x]
  <2>1. w.cart \in CartRows /\ w.into \in CartRows /\ w.read[x] \in Nat
        /\ w.read[x] <= C[w.cart][x] + C[w.into][x]
    BY <1>1, <1>5 DEF VisitFits, VisitFunded
  <2>2. C[w.cart][x] \in Nat /\ D[w.cart][x] \in Nat /\ C[w.cart][x] <= D[w.cart][x]
    BY <1>2, <2>1
  <2>3. C[w.into][x] \in Nat /\ D[w.into][x] \in Nat /\ C[w.into][x] <= D[w.into][x]
    BY <1>2, <2>1
  <2> QED
    BY <2>1, <2>2, <2>3
<1> QED
  BY <1>3, <1>4, <1>5 DEF VisitFunded

LEMMA AwayFunded == \A C : VisitFunded(Away, C)
  BY DEF VisitFunded, Away

LEMMA FundedMoves ==
    ASSUME CartSound, NEW C \in Purses, Funded(C), NEW D \in Purses, Richer(C, D),
           NEW v \in Visits, NEW w \in Visit, VisitFunded(w, D), visit' = [visit EXCEPT ![v] = w],
           LinesFunded(item', D), UnusedEmpty(cart', D),
           \A x \in Variants : Fund(D, x, cart') <= added'[x]
    PROVE  \E E \in Purses : Funded(E)'
<1>1. visit \in [Visits -> Visit]
  BY DEF CartSound, CartTypeOK
<1>2. ASSUME NEW u \in Visits PROVE VisitFunded(visit'[u], D)
  <2>1. CASE u = v
    BY <1>1, <2>1
  <2>2. CASE u # v
    <3>1. visit'[u] = visit[u] /\ visit[u] \in Visit /\ VisitFits(visit[u], item)
          /\ VisitFunded(visit[u], C)
      BY <1>1, <2>2 DEF CartSound, Funded
    <3> QED
      BY <3>1, RicherFunds
  <2> QED
    BY <2>1, <2>2
<1>3. Funded(D)'
  BY <1>2 DEF Funded
<1> QED
  BY <1>3

LEMMA RicherSelf == \A C \in Purses : Richer(C, C)
  BY DEF Richer, Purses

\* Only the request moves.
LEMMA FundedReads ==
    ASSUME CartSound, NEW C \in Purses, Funded(C), NEW v \in Visits, NEW w \in Visit,
           VisitFunded(w, C), visit' = [visit EXCEPT ![v] = w], UNCHANGED <<cart, item, added>>
    PROVE  \E E \in Purses : Funded(E)'
<1>1. LinesFunded(item', C) /\ UnusedEmpty(cart', C)
  BY DEF Funded
<1>2. \A x \in Variants : Fund(C, x, cart') <= added'[x]
  BY DEF Funded
<1> QED
  BY <1>1, <1>2, RicherSelf, FundedMoves

LEMMA FundedLeaves ==
    ASSUME CartSound, NEW C \in Purses, Funded(C), NEW v \in Visits, Leave(v),
           UNCHANGED <<cart, item, added>>
    PROVE  \E E \in Purses : Funded(E)'
  BY AwayFits, AwayFunded, FundedReads DEF Leave

\* A live cart holds no more than its purse.
LEMMA InCartFunded ==
    ASSUME CartSound, NEW C \in Purses, Funded(C), NEW r \in CartRows, NEW x \in Variants
    PROVE  InCart(r, x) <= C[r][x]
<1>1. C[r][x] \in Nat
  BY DEF Purses
<1>2. CASE LineOf(r, x) = {}
  BY <1>1, <1>2, InCartIs
<1>3. CASE LineOf(r, x) # {}
  <2>1. PICK i \in LineOf(r, x) : TRUE
    BY <1>3
  <2>2. i \in ItemRows /\ item[i].state = "live" /\ item[i].cart = r /\ item[i].variant = x
    BY <2>1 DEF LineOf, LinesOf
  <2> QED
    BY <2>2, InCartIs DEF Funded, LinesFunded
<1> QED
  BY <1>2, <1>3

\* A request that reads no lines: it asks for no units.
LEMMA StepFunded ==
    ASSUME CartSound, NEW C \in Purses, Funded(C), NEW v \in Visits, NEW w \in Visit,
           w.pc \notin {"addWrite", "mergeInto"}, visit' = [visit EXCEPT ![v] = w],
           UNCHANGED <<cart, item, added>>
    PROVE  \E E \in Purses : Funded(E)'
<1>1. VisitFunded(w, C)
  BY DEF VisitFunded
<1> QED
  BY <1>1, FundedReads

LEMMA QuietFunded ==
    ASSUME CartSound, NEW C \in Purses, Funded(C), NEW v \in Visits
    PROVE  /\ FindCart(v) => \E E \in Purses : Funded(E)'
           /\ ReadItem(v) => \E E \in Purses : Funded(E)'
           /\ FailVisit(v) => \E E \in Purses : Funded(E)'
<1>0. visit[v] \in Visit
  BY DEF CartSound, CartTypeOK
<1>1. ASSUME NEW pc \in {"create", "setWrite", "adopt"}, CartStep(v, pc), UNCHANGED <<cart, item, added>>,
             \/ visit[v].pc = "find" /\ pc = "create"
             \/ visit[v].pc = "set" /\ pc = "setWrite" /\ item[visit[v].item].cart = visit[v].cart
             \/ visit[v].pc = "mergeInto" /\ pc = "adopt"
      PROVE  \E E \in Purses : Funded(E)'
  <2> PICK w : w = [visit[v] EXCEPT !.pc = pc]
    OBVIOUS
  <2>1. w \in Visit
    BY <1>1, CartStepFits
  <2>2. visit' = [visit EXCEPT ![v] = w]
    BY <1>1 DEF CartStep
  <2>3. w.pc = pc
    BY <1>0 DEF Visit
  <2> QED
    BY <1>1, <2>1, <2>2, <2>3, StepFunded
<1>2. ASSUME FindCart(v) PROVE \E E \in Purses : Funded(E)'
  <2>1. CASE CartsOf(visit[v].owner) = {}
    BY <1>1, <1>2, <2>1 DEF FindCart
  <2>2. CASE Leave(v)
    BY <1>2, <2>2, FundedLeaves DEF FindCart
  <2>3. CASE CartsOf(visit[v].owner) # {} /\ ~Leave(v)
    <3>1. PICK r \in CartsOf(visit[v].owner) :
             visit[v].op # "get" /\ visit' = [visit EXCEPT ![v].pc = visit[v].op, ![v].cart = r]
      BY <1>2, <2>3 DEF FindCart
    <3> PICK w : w = [visit[v] EXCEPT !.pc = visit[v].op, !.cart = r]
      OBVIOUS
    <3>2. r \in CartRows /\ visit[v].pc = "find"
      BY <1>2 DEF CartsOf, FindCart
    <3>3. w \in Visit /\ w.pc \in {"add", "set", "remove"}
      BY <3>1, <3>2, FindSound
    <3>4. visit' = [visit EXCEPT ![v] = w]
      BY <3>1 DEF CartSound, CartTypeOK
    <3> QED
      BY <1>2, <3>3, <3>4, StepFunded DEF FindCart
  <2> QED
    BY <2>1, <2>2, <2>3
<1>3. ASSUME ReadItem(v) PROVE \E E \in Purses : Funded(E)'
  BY <1>1, <1>3, FundedLeaves DEF ReadItem, LinesOf
<1>4. ASSUME FailVisit(v) PROVE \E E \in Purses : Funded(E)'
  BY <1>4, FundedLeaves DEF FailVisit
<1> QED
  BY <1>2, <1>3, <1>4

LEMMA BeginFunded ==
    ASSUME CartSound, NEW C \in Purses, Funded(C), NEW v \in Visits,
           NEW op \in {"add", "set", "remove", "merge", "clear", "get"},
           NEW o \in Owners, NEW c \in Customers \cup {Nothing}, NEW x \in Variants,
           NEW q \in 0..MaxQuantity, NEW i \in ItemRows \cup {Nothing}, Begin(v, op, o, c, x, q, i)
    PROVE  \E E \in Purses : Funded(E)'
<1> PICK pc : pc = IF op \in {"merge", "clear"} THEN op ELSE "find"
  OBVIOUS
<1> PICK w : w = [Away EXCEPT !.pc = pc, !.op = op, !.owner = o, !.target = c,
                        !.variant = x, !.quantity = q, !.item = i]
  OBVIOUS
<1>1. pc \in CartSteps /\ pc \notin {"addWrite", "mergeInto"}
  BY DEF CartSteps
<1>2. w \in Visit /\ w.pc = pc
  BY <1>1, AwayFits DEF Visit
<1>3. visit' = [visit EXCEPT ![v] = w] /\ UNCHANGED <<cart, item, added>>
  BY DEF Begin
<1> QED
  BY <1>1, <1>2, <1>3, StepFunded

LEMMA CreateFunded ==
    ASSUME CartSound, NEW C \in Purses, Funded(C), NEW v \in Visits, CreateCart(v)
    PROVE  \E E \in Purses : Funded(E)'
<1> PICK r, o : r = AnyOf(FreshCarts) /\ o = visit[v].owner
  OBVIOUS
<1>1. visit[v] \in Visit /\ visit[v].pc = "create"
      /\ cart \in [CartRows -> Owners \cup {"unused", "deleted"}]
  BY DEF CartSound, CartTypeOK, CreateCart
<1>2. r \in CartRows /\ cart[r] = "unused"
  BY AnyIn DEF CreateCart, FreshCarts
<1>3. o \in Owners /\ cart' = [cart EXCEPT ![r] = o] /\ UNCHANGED <<item, added>>
  BY <1>1 DEF Visit, CreateCart
<1>4. r \notin Owned(cart) /\ Owned(cart') = Owned(cart) \cup {r}
  BY <1>1, <1>2, <1>3, CartFacts DEF Owned
<1>5. ASSUME NEW x \in Variants PROVE Fund(C, x, cart') <= added'[x]
  <2>1. C[r][x] = 0
    BY <1>2 DEF Funded, UnusedEmpty
  <2>2. Fund(C, x, cart') = Fund(C, x, cart)
    BY <1>2, <1>4, <2>1, FundOpens
  <2> QED
    BY <1>3, <2>2 DEF Funded
<1>6. UnusedEmpty(cart', C)
  BY <1>1, <1>3, CartFacts DEF UnusedEmpty, Funded
<1>7. LinesFunded(item', C)
  BY <1>3 DEF Funded
<1>8. \E w \in Visit : VisitFunded(w, C) /\ visit' = [visit EXCEPT ![v] = w]
  <2>1. CASE visit[v].op = "get"
    BY <2>1, AwayFits, AwayFunded DEF CreateCart, Leave
  <2>2. CASE visit[v].op # "get"
    <3>1. visit' = [visit EXCEPT ![v].pc = visit[v].op, ![v].cart = r]
      BY <2>2 DEF CreateCart
    <3> PICK w : w = [visit[v] EXCEPT !.pc = visit[v].op, !.cart = r]
      OBVIOUS
    <3>2. visit' = [visit EXCEPT ![v] = w]
      BY <3>1 DEF CartSound, CartTypeOK
    <3>3. w \in Visit /\ w.pc \in {"add", "set", "remove"}
      BY <1>1, <1>2, <2>2, FindSound
    <3>4. VisitFunded(w, C)
      BY <3>3 DEF VisitFunded
    <3> QED
      BY <3>2, <3>3, <3>4
  <2> QED
    BY <2>1, <2>2
<1> QED
  BY <1>5, <1>6, <1>7, <1>8, RicherSelf, FundedMoves

LEMMA ReadsFunded ==
    ASSUME CartSound, NEW C \in Purses, Funded(C), NEW v \in Visits
    PROVE  /\ ReadLine(v) => \E E \in Purses : Funded(E)'
           /\ MergeRead(v) => \E E \in Purses : Funded(E)'
           /\ MergeLookup(v) => \E E \in Purses : Funded(E)'
<1>1. ASSUME ReadLine(v) PROVE \E E \in Purses : Funded(E)'
  <2>1. PICK w \in Visit :
             /\ visit' = [visit EXCEPT ![v] = w] /\ VisitFits(w, item) /\ w.pc = "addWrite"
             /\ w.read[w.variant] = InCart(w.cart, w.variant)
    BY <1>1, ReadLineIs
  <2>2. w.cart \in CartRows /\ w.variant \in Variants
    BY <2>1 DEF VisitFits, Visit
  <2>3. InCart(w.cart, w.variant) <= C[w.cart][w.variant]
    BY <2>2, InCartFunded
  <2>4. VisitFunded(w, C)
    BY <2>1, <2>3 DEF VisitFunded
  <2> QED
    BY <1>1, <2>1, <2>4, FundedReads DEF ReadLine
<1>2. ASSUME MergeRead(v), ~Leave(v) PROVE \E E \in Purses : Funded(E)'
  <2>1. PICK w \in Visit, r \in CartsOf(visit[v].owner) :
             /\ visit' = [visit EXCEPT ![v] = w]
             /\ w.pc \in {"discard", "mergeInto"} /\ w.into = Nothing /\ w.cart = r
             /\ \A x \in Variants : w.read[x] = InCart(r, x)
    BY <1>2, MergeReadIs
  <2>2. r \in CartRows
    BY DEF CartsOf
  <2>3. \A x \in Variants : w.read[x] <= C[r][x]
    BY <2>1, <2>2, InCartFunded
  <2>4. VisitFunded(w, C)
    BY <2>1, <2>3 DEF VisitFunded
  <2> QED
    BY <1>2, <2>1, <2>4, FundedReads DEF MergeRead
<1>3. ASSUME MergeRead(v), Leave(v) PROVE \E E \in Purses : Funded(E)'
  BY <1>3, FundedLeaves DEF MergeRead
<1>4. ASSUME MergeLookup(v), CartsOf(visit[v].target) = {} PROVE \E E \in Purses : Funded(E)'
  <2> PICK w : w = [visit[v] EXCEPT !.pc = "adopt"]
    OBVIOUS
  <2>1. w \in Visit
    BY <1>4, CartStepFits DEF MergeLookup
  <2>2. visit' = [visit EXCEPT ![v] = w] /\ UNCHANGED <<cart, item, added>>
    BY <1>4 DEF MergeLookup, CartStep
  <2>3. w.pc = "adopt"
    BY DEF CartSound, CartTypeOK, Visit
  <2> QED
    BY <2>1, <2>2, <2>3, StepFunded
<1>5. ASSUME MergeLookup(v), CartsOf(visit[v].target) # {} PROVE \E E \in Purses : Funded(E)'
  <2>1. PICK w \in Visit, r \in CartsOf(visit[v].target) :
             /\ visit' = [visit EXCEPT ![v] = w] /\ visit[v].into = Nothing
             /\ visit[v].pc = "mergeInto" /\ w.pc = "mergeInto" /\ w.into = r
             /\ w.cart = visit[v].cart
             /\ \A x \in Variants : w.read[x] = IF visit[v].read[x] > 0
                                                THEN InCart(r, x) + visit[v].read[x] ELSE 0
    BY <1>5, MergeLookupIs
  <2> PICK c, old : c = visit[v].cart /\ old = visit[v].read
    OBVIOUS
  <2>2. r \in CartRows /\ c \in CartRows /\ old \in [Variants -> Nat]
        /\ \A x \in Variants : old[x] <= C[c][x]
    <3>1. visit[v] \in Visit /\ VisitFits(visit[v], item) /\ VisitFunded(visit[v], C)
      BY DEF CartSound, CartTypeOK, Funded
    <3> QED
      BY <2>1, <3>1 DEF VisitFits, VisitFunded, Visit, CartsOf
  <2>3. r # Nothing
    BY <2>2, CartFacts
  <2>4. ASSUME NEW x \in Variants PROVE w.read[x] <= C[c][x] + C[r][x]
    <3> PICK h : h = InCart(r, x)
      OBVIOUS
    <3>1. h \in Nat /\ h <= C[r][x] /\ C[r][x] \in Nat /\ C[c][x] \in Nat
      BY <2>2, InCartTyped, InCartFunded DEF CartSound, Purses
    <3>2. old[x] \in Nat /\ old[x] <= C[c][x]
      BY <2>2
    <3>3. w.read[x] = IF old[x] > 0 THEN h + old[x] ELSE 0
      BY <2>1
    <3> QED
      BY <3>1, <3>2, <3>3
  <2>5. VisitFunded(w, C)
    BY <2>1, <2>3, <2>4 DEF VisitFunded
  <2>6. UNCHANGED <<cart, item, added>>
    BY <1>5 DEF MergeLookup
  <2> QED
    BY <2>1, <2>5, <2>6, FundedReads
<1> QED
  BY <1>1, <1>2, <1>3, <1>4, <1>5

\* Lines are dropped, with their carts or without.
LEMMA DropFunded ==
    ASSUME CartSound, NEW C \in Purses, Funded(C), NEW v \in Visits, Leave(v), added' = added,
           \/ \E D : LinesDropped(D)
           \/ item' = item,
           \A r \in CartRows : /\ cart'[r] = "unused" => cart[r] = "unused"
                               /\ cart'[r] \in Owners => cart[r] \in Owners
    PROVE  \E E \in Purses : Funded(E)'
<1>1. LinesFunded(item', C)
  BY DEF LinesFunded, LinesDropped, Funded
<1>2. UnusedEmpty(cart', C)
  BY DEF UnusedEmpty, Funded
<1>3. Owned(cart') \subseteq Owned(cart)
  BY DEF Owned
<1>4. ASSUME NEW x \in Variants PROVE Fund(C, x, cart') <= added'[x]
  <2>1. Fund(C, x, cart') <= Fund(C, x, cart)
    BY <1>3, FundShrinks
  <2>2. Fund(C, x, cart') \in Nat /\ Fund(C, x, cart) \in Nat /\ added[x] \in Nat
    BY FundNat DEF CartSound, CartTypeOK
  <2>3. Fund(C, x, cart) <= added[x]
    BY DEF Funded
  <2>4. Fund(C, x, cart') <= added[x]
    BY <2>1, <2>2, <2>3
  <2> QED
    BY <2>4
<1>5. visit' = [visit EXCEPT ![v] = Away]
  BY DEF Leave
<1> QED
  BY <1>1, <1>2, <1>4, <1>5, RicherSelf, AwayFits, AwayFunded, FundedMoves

\* A line is put into a live cart whose purse gets enough for it.
LEMMA PutFunded ==
    ASSUME CartSound, NEW C \in Purses, Funded(C), NEW v \in Visits, Leave(v), UNCHANGED cart,
           NEW r \in CartRows, cart[r] \in Owners, NEW x \in Variants, NEW i \in ItemRows,
           NEW q \in Nat, NEW k \in Nat, LinePut(i, r, x, q), q <= C[r][x] + k,
           added' = [added EXCEPT ![x] = @ + k]
    PROVE  \E E \in Purses : Funded(E)'
<1>1. C \in [CartRows -> [Variants -> Nat]] /\ C[r][x] \in Nat /\ added \in [Variants -> Nat]
  BY DEF Purses, CartSound, CartTypeOK
<1> PICK n : n = C[r][x] + k
  OBVIOUS
<1>2. n \in Nat /\ C[r][x] <= n /\ q <= n
  BY <1>1
<1>3. \E D \in Purses : /\ D[r][x] = n
                        /\ \A s \in CartRows, y \in Variants :
                              (s # r \/ y # x) => D[s][y] = C[s][y]
  <2> PICK D : D = [C EXCEPT ![r][x] = n]
    OBVIOUS
  <2>1. D \in Purses
    BY <1>1, <1>2 DEF Purses
  <2>2. D[r][x] = n /\ \A s \in CartRows, y \in Variants : (s # r \/ y # x) => D[s][y] = C[s][y]
    BY <1>1
  <2> QED
    BY <2>1, <2>2
<1>4. PICK D \in Purses : /\ D[r][x] = n
                         /\ \A s \in CartRows, y \in Variants :
                               (s # r \/ y # x) => D[s][y] = C[s][y]
  BY <1>3
<1>5. /\ D[r][x] = n
      /\ \A s \in CartRows, y \in Variants : (s # r \/ y # x) => D[s][y] = C[s][y]
  BY <1>4
<1>6. Richer(C, D)
  <2>1. ASSUME NEW s \in CartRows, NEW y \in Variants PROVE C[s][y] <= D[s][y]
    <3>1. C[s][y] \in Nat
      BY <1>1
    <3>2. CASE s = r /\ y = x
      BY <1>2, <1>5, <3>2
    <3>3. CASE s # r \/ y # x
      BY <1>5, <3>1, <3>3
    <3> QED
      BY <3>2, <3>3
  <2> QED
    BY <2>1 DEF Richer
<1>7. LinesFunded(item', D)
  <2>1. ASSUME NEW j \in ItemRows, item'[j].state = "live"
        PROVE  item'[j].quantity <= D[item'[j].cart][item'[j].variant]
    <3>1. CASE j = i
      BY <1>2, <1>5, <3>1 DEF LinePut
    <3>2. CASE j # i
      <4>1. item'[j] = item[j] /\ item[j].state = "live" /\ item[j].cart \in CartRows
            /\ item[j].variant \in Variants /\ item[j].quantity \in Nat
        BY <2>1, <3>2 DEF LinePut, CartSound, CartTypeOK, Item, LinesFit
      <4> PICK s, y, h : s = item[j].cart /\ y = item[j].variant /\ h = item[j].quantity
        OBVIOUS
      <4>2. h <= C[s][y] /\ C[s][y] <= D[s][y] /\ C[s][y] \in Nat /\ D[s][y] \in Nat
        BY <1>1, <1>4, <1>6, <4>1 DEF Richer, Purses, Funded, LinesFunded
      <4>3. h <= D[s][y]
        BY <4>1, <4>2
      <4> QED
        BY <4>1, <4>3
    <3> QED
      BY <3>1, <3>2
  <2> QED
    BY <2>1 DEF LinesFunded
<1>8. UnusedEmpty(cart', D)
  <2>1. \A s \in CartRows : cart[s] = "unused" => s # r
    BY CartFacts
  <2> QED
    BY <1>5, <2>1 DEF UnusedEmpty, Funded
<1>9. ASSUME NEW y \in Variants PROVE Fund(D, y, cart') <= added'[y]
  <2>1. r \in Owned(cart)
    BY DEF Owned
  <2> PICK m : m = IF y = x THEN k ELSE 0
    OBVIOUS
  <2>8. D[r][x] = C[r][x] + k
    BY <1>5
  <2>7. Fund(D, y, cart) = Fund(C, y, cart) + IF y = x THEN k ELSE 0
    BY <1>5, <2>1, <2>8, FundGrows
  <2>2. Fund(D, y, cart) = Fund(C, y, cart) + m
    BY <2>7
  <2>3. Fund(C, y, cart) \in Nat /\ Fund(C, y, cart) <= added[y] /\ added[y] \in Nat /\ m \in Nat
    BY <1>1, FundNat DEF Funded
  <2>4. added'[y] = added[y] + m
    BY <1>1, <2>3
  <2>5. Fund(D, y, cart) <= added'[y]
    BY <2>2, <2>3, <2>4
  <2> QED
    BY <2>5
<1>10. visit' = [visit EXCEPT ![v] = Away]
  BY DEF Leave
<1> QED
  BY <1>4, <1>6, <1>7, <1>8, <1>9, <1>10, AwayFits, AwayFunded, FundedMoves

LEMMA LineWritesFunded ==
    ASSUME CartSound, NEW C \in Purses, Funded(C), NEW v \in Visits
    PROVE  /\ AddLine(v) => \E E \in Purses : Funded(E)'
           /\ SetLine(v) => \E E \in Purses : Funded(E)'
           /\ RemoveLine(v) => \E E \in Purses : Funded(E)'
<1>1. ASSUME AddLine(v) PROVE \E E \in Purses : Funded(E)'
  <2>1. PICK r \in CartRows, x \in Variants, q \in Nat, i \in ItemRows, k \in Nat :
             /\ r = visit[v].cart /\ x = visit[v].variant /\ cart[r] \in Owners
             /\ visit[v].pc = "addWrite"
             /\ visit[v].item = Nothing => k = 0
             /\ visit[v].item # Nothing => k = visit[v].read[x]
             /\ LinePut(i, r, x, k + q) /\ added' = [added EXCEPT ![x] = @ + q]
    BY <1>1, AddLineIs
  <2>2. k <= C[r][x] /\ C[r][x] \in Nat
    <3>1. C[r][x] \in Nat /\ VisitFunded(visit[v], C)
      BY DEF Funded, Purses
    <3>2. visit[v].read[x] <= C[r][x]
      BY <2>1, <3>1 DEF VisitFunded
    <3>3. 0 <= C[r][x]
      BY <3>1
    <3> QED
      BY <2>1, <3>1, <3>2, <3>3
  <2> PICK n : n = k + q
    OBVIOUS
  <2>3. n \in Nat /\ n <= C[r][x] + q
    BY <2>1, <2>2
  <2>4. LinePut(i, r, x, n)
    BY <2>1
  <2> QED
    BY ZenonT(60), <1>1, <2>1, <2>3, <2>4, PutFunded DEF AddLine
<1>2. ASSUME SetLine(v) PROVE \E E \in Purses : Funded(E)'
  <2>0. PICK r \in CartRows, x \in Variants, q \in Nat, i \in ItemRows, k \in Nat :
             SetWrites(v, r, x, q, i, k)
    BY <1>2, SetLineIs
  <2> PICK m : m = IF q > k THEN q - k ELSE 0
    OBVIOUS
  <2>1. /\ cart[r] \in Owners /\ item[i].state = "live" /\ item[i].cart = r
        /\ item[i].variant = x /\ item[i].quantity = k
        /\ q = 0 => LinesDropped({i})
        /\ q > 0 => LinePut(i, r, x, q)
        /\ added' = [added EXCEPT ![x] = @ + m]
    BY <2>0 DEF SetWrites
  <2>2. m \in Nat /\ q <= k + m
    OBVIOUS
  <2>3. k <= C[r][x] /\ C[r][x] \in Nat
    BY <2>1 DEF Funded, LinesFunded, Purses
  <2>4. q <= C[r][x] + m
    BY <2>2, <2>3
  <2>5. CASE q > 0
    <3>1. LinePut(i, r, x, q) /\ cart[r] \in Owners /\ added' = [added EXCEPT ![x] = @ + m]
      BY <2>1, <2>5
    <3>2. Leave(v) /\ UNCHANGED cart
      BY <1>2 DEF SetLine
    <3> QED
      BY <2>2, <2>4, <3>1, <3>2, PutFunded
  <2>6. CASE q = 0
    <3>1. added' = added
      <4>1. m = 0
        BY <2>6
      <4>2. added \in [Variants -> Nat]
        BY DEF CartSound, CartTypeOK
      <4>3. added[x] + m = added[x]
        BY <4>1, <4>2
      <4> QED
        BY <2>1, <4>2, <4>3
    <3>2. \E D : LinesDropped(D)
      BY <2>1, <2>6
    <3>3. \A s \in CartRows : /\ cart'[s] = "unused" => cart[s] = "unused"
                              /\ cart'[s] \in Owners => cart[s] \in Owners
      BY <1>2 DEF SetLine
    <3>5. Leave(v)
      BY <1>2 DEF SetLine
    <3>4. (\E D : LinesDropped(D)) \/ item' = item
      BY <3>2
    <3> QED
      BY <3>1, <3>3, <3>4, <3>5, DropFunded
  <2> QED
    BY <2>5, <2>6
<1>3. ASSUME RemoveLine(v) PROVE \E E \in Purses : Funded(E)'
  <2>1. (\E D : LinesDropped(D)) \/ item' = item
    BY <1>3, RemoveLineIs
  <2> QED
    BY <1>3, <2>1, DropFunded DEF RemoveLine
<1> QED
  BY <1>1, <1>2, <1>3

LEMMA CartWritesFunded ==
    ASSUME CartSound, NEW C \in Purses, Funded(C), NEW v \in Visits
    PROVE  /\ DiscardCart(v) => \E E \in Purses : Funded(E)'
           /\ AdoptCart(v) => \E E \in Purses : Funded(E)'
           /\ ClearCheckoutCart(v) => \E E \in Purses : Funded(E)'
<1>0. cart \in [CartRows -> Owners \cup {"unused", "deleted"}]
  BY DEF CartSound, CartTypeOK
<1>1. ASSUME DiscardCart(v) PROVE \E E \in Purses : Funded(E)'
  <2>1. PICK r \in CartRows : cart' = [cart EXCEPT ![r] = "deleted"] /\ \E D : LinesDropped(D)
    BY <1>1, DiscardIs
  <2>2. \A s \in CartRows : /\ cart'[s] = "unused" => cart[s] = "unused"
                            /\ cart'[s] \in Owners => cart[s] \in Owners
    BY <1>0, <2>1, CartFacts
  <2> QED
    BY <1>1, <2>1, <2>2, DropFunded DEF DiscardCart
<1>2. ASSUME AdoptCart(v) PROVE \E E \in Purses : Funded(E)'
  <2>1. PICK r \in CartRows, c \in Owners :
          cart' = [cart EXCEPT ![r] = c] /\ cart[r] \in Owners /\ UNCHANGED item
    BY <1>2, AdoptIs
  <2>2. \A s \in CartRows : /\ cart'[s] = "unused" => cart[s] = "unused"
                            /\ cart'[s] \in Owners => cart[s] \in Owners
    BY <1>0, <2>1, CartFacts
  <2> QED
    BY <1>2, <2>1, <2>2, DropFunded DEF AdoptCart
<1>3. ASSUME ClearCheckoutCart(v) PROVE \E E \in Purses : Funded(E)'
  <2>1. PICK o \in Owners :
          /\ cart' = [r \in CartRows |-> IF cart[r] = o THEN "deleted" ELSE cart[r]]
          /\ \E D : LinesDropped(D)
    BY <1>3, ClearIs
  <2>2. \A s \in CartRows : /\ cart'[s] = "unused" => cart[s] = "unused"
                            /\ cart'[s] \in Owners => cart[s] \in Owners
    BY <1>0, <2>1, CartFacts
  <2> QED
    BY <1>3, <2>1, <2>2, DropFunded DEF ClearCheckoutCart
<1> QED
  BY <1>1, <1>2, <1>3

LEMMA MergeLinesFunded ==
    ASSUME CartSound, NEW C \in Purses, Funded(C), NEW v \in Visits, MergeLines(v)
    PROVE  \E E \in Purses : Funded(E)'
<1>1. PICK c \in CartRows, d \in CartRows, row \in Placements(v) : MergeWrites(v, c, d, row)
  BY MergeLinesIs
<1> PICK ls, read, X : ls = visit[v].lines /\ read = visit[v].read /\ X = DOMAIN row
  OBVIOUS
<1>2. /\ visit[v] \in Visit /\ VisitFits(visit[v], item) /\ VisitFunded(visit[v], C)
      /\ cart \in [CartRows -> Owners \cup {"unused", "deleted"}]
      /\ item \in [ItemRows -> Item] /\ LinesFit(cart, item)
      /\ added \in [Variants -> Nat]
  BY DEF CartSound, CartTypeOK, Funded
<1>3. /\ c # d /\ cart[c] \in Owners /\ cart[d] \in Owners
      /\ c = visit[v].cart /\ d = visit[v].into
      /\ cart' = [cart EXCEPT ![c] = "deleted"] /\ visit[v].pc = "mergeInto"
      /\ row \in [MergedVariants(v) \ FoundVariants(v) -> ItemRows]
  BY <1>1 DEF MergeWrites
<1>4. C \in [CartRows -> [Variants -> Nat]]
  BY DEF Purses
<1> PICK p : p = [x \in Variants |-> C[d][x] + C[c][x]]
  OBVIOUS
<1>5. p \in [Variants -> Nat] /\ \A x \in Variants : p[x] = C[d][x] + C[c][x]
  <2>1. \A x \in Variants : C[d][x] \in Nat /\ C[c][x] \in Nat
    BY <1>4
  <2> QED
    BY <2>1
<1>16. PICK D \in Purses : D[d] = p /\ \A r \in CartRows \ {d} : D[r] = C[r]
  <2> PICK D : D = [C EXCEPT ![d] = p]
    OBVIOUS
  <2>1. D \in Purses /\ D[d] = p /\ \A r \in CartRows \ {d} : D[r] = C[r]
    BY <1>4, <1>5 DEF Purses
  <2> QED
    BY <2>1
<1>6. D \in Purses /\ D[d] = p /\ \A r \in CartRows \ {d} : D[r] = C[r]
  BY <1>16
<1>7. Richer(C, D)
  <2>1. ASSUME NEW s \in CartRows, NEW y \in Variants PROVE C[s][y] <= D[s][y]
    <3>1. C[s][y] \in Nat /\ C[d][y] \in Nat /\ C[c][y] \in Nat
      BY <1>4
    <3>2. CASE s = d
      BY <1>5, <1>6, <3>1, <3>2
    <3>3. CASE s # d
      BY <1>6, <3>1, <3>3
    <3> QED
      BY <3>2, <3>3
  <2> QED
    BY <2>1 DEF Richer
<1>8. \A x \in Variants : read[x] \in Nat /\ read[x] <= D[d][x]
  <2>1. ASSUME NEW x \in Variants PROVE read[x] \in Nat /\ read[x] <= D[d][x]
    <3>1. read[x] <= C[c][x] + C[d][x] /\ read[x] \in Nat
      BY <1>2, <1>3, CartFacts DEF VisitFunded, Visit
    <3>2. D[d][x] = C[d][x] + C[c][x] /\ C[c][x] \in Nat /\ C[d][x] \in Nat
      BY <1>4, <1>5, <1>6
    <3> QED
      BY <3>1, <3>2
  <2> QED
    BY <2>1
<1>9. \A i \in ls : /\ item'[i].cart = d /\ item'[i].variant = item[i].variant
                    /\ item'[i].quantity = read[item[i].variant] /\ i \in ItemRows
  BY <1>1 DEF MergeWrites
<1>10. \A x \in X : /\ item'[row[x]].cart = d /\ item'[row[x]].variant = x
                    /\ item'[row[x]].quantity = read[x] /\ x \in Variants
  BY <1>1, <1>3 DEF MergeWrites, MergedVariants
<1>11. ASSUME NEW i \in ItemRows \ ls, \A x \in X : row[x] # i
      PROVE  /\ item'[i].cart = item[i].cart /\ item'[i].variant = item[i].variant
             /\ item'[i].quantity = item[i].quantity
             /\ item'[i].state = IF item[i].state = "live" /\ item[i].cart = c
                                 THEN "deleted" ELSE item[i].state
  BY <1>1, <1>11 DEF MergeWrites
<1>12. LinesFunded(item', D)
  <2>1. ASSUME NEW j \in ItemRows, item'[j].state = "live"
        PROVE  item'[j].quantity <= D[item'[j].cart][item'[j].variant]
    <3>1. CASE j \in ls
      <4>1. item[j].variant \in Variants
        BY <1>2, <1>9, <3>1 DEF Item
      <4> QED
        BY <1>8, <1>9, <3>1, <4>1
    <3>2. CASE \E x \in X : row[x] = j
      BY <1>8, <1>10, <3>2
    <3>3. CASE j \notin ls /\ \A x \in X : row[x] # j
      <4>1. item[j].state = "live" /\ item[j].cart \in CartRows
            /\ item[j].variant \in Variants /\ item[j].quantity \in Nat
        BY <1>2, <1>11, <2>1, <3>3 DEF Item, LinesFit
      <4> PICK s, y, h : s = item[j].cart /\ y = item[j].variant /\ h = item[j].quantity
        OBVIOUS
      <4>2. h <= C[s][y] /\ C[s][y] <= D[s][y] /\ C[s][y] \in Nat /\ D[s][y] \in Nat
        BY <1>4, <1>6, <1>7, <4>1 DEF Richer, Purses, Funded, LinesFunded
      <4>3. h <= D[s][y]
        BY <4>1, <4>2
      <4> QED
        BY <1>11, <3>3, <4>3
    <3> QED
      BY <3>1, <3>2, <3>3
  <2> QED
    BY <2>1 DEF LinesFunded
<1>13. UnusedEmpty(cart', D)
  <2>1. \A s \in CartRows : cart'[s] = "unused" => s # d /\ cart[s] = "unused"
    BY <1>2, <1>3, CartFacts
  <2> QED
    BY <1>6, <2>1 DEF UnusedEmpty, Funded
<1>14. ASSUME NEW y \in Variants PROVE Fund(D, y, cart') <= added'[y]
  <2>1. c \in Owned(cart) /\ d \in Owned(cart)
    BY <1>3 DEF Owned
  <2>2. Owned(cart') = Owned(cart) \ {c}
    BY <1>2, <1>3, CartFacts DEF Owned
  <2>3. \A x \in Variants : D[d][x] = C[d][x] + C[c][x]
    BY <1>5, <1>6
  <2>5. c # d /\ \A r \in CartRows : r # d => D[r][y] = C[r][y]
    BY <1>3, <1>6
  <2>6. SumFunctionOnSet(Column(D, y), Owned(cart) \ {c}) = Fund(C, y, cart)
    <3>1. D[d][y] = C[d][y] + C[c][y]
      BY <2>3
    <3> QED
      BY SMTT(30), <2>1, <2>5, <3>1, FundMerges
  <2>4. Fund(D, y, cart') = Fund(C, y, cart)
    BY <2>2, <2>6 DEF Fund
  <2> QED
    BY <2>4 DEF Funded, MergeLines
<1>15. visit' = [visit EXCEPT ![v] = Away]
  BY DEF MergeLines, Leave
<1> QED
  BY <1>6, <1>7, <1>12, <1>13, <1>14, <1>15, AwayFits, AwayFunded, FundedMoves

LEMMA FundedStart == CartInit => CartFunded
<1> SUFFICES ASSUME CartInit PROVE CartFunded
  OBVIOUS
<1> PICK C : C = [r \in CartRows |-> NoUnits]
  OBVIOUS
<1>1. C \in Purses /\ \A r \in CartRows, x \in Variants : C[r][x] = 0
  BY CartFacts DEF Purses, NoUnits
<1>2. \A v \in Visits : VisitFunded(visit[v], C)
  BY AwayFunded DEF CartInit
<1>3. LinesFunded(item, C) /\ UnusedEmpty(cart, C)
  BY <1>1 DEF CartInit, LinesFunded, UnusedEmpty
<1>4. \A x \in Variants : Fund(C, x, cart) <= added[x]
  <2>1. Owned(cart) = {}
    BY CartFacts DEF CartInit, Owned
  <2>2. \A x \in Variants : Fund(C, x, cart) = 0
    BY <2>1, SumEmpty DEF Fund
  <2>3. \A x \in Variants : added[x] = 0
    BY DEF CartInit, NoUnits
  <2> QED
    BY <2>2, <2>3
<1>5. Funded(C)
  BY <1>2, <1>3, <1>4 DEF Funded
<1> QED
  BY <1>1, <1>5, CartStart DEF CartFunded

LEMMA FundedSteady == CartFunded /\ [CartNext]_cartVars => CartFunded'
<1> SUFFICES ASSUME CartFunded, [CartNext]_cartVars PROVE CartFunded'
  OBVIOUS
<1>1. CartSound /\ CartSound'
  BY CartSteady DEF CartFunded
<1> PICK C \in Purses : Funded(C)
  BY DEF CartFunded
<1>2. CASE UNCHANGED cartVars
  <2>1. Funded(C)'
    BY <1>2 DEF cartVars, Funded
  <2> QED
    BY <1>1, <2>1 DEF CartFunded
<1>3. CASE CartNext
  <2> PICK v \in Visits :
        \/ \E op \in {"add", "set", "remove", "merge", "clear", "get"}, o \in Owners,
              c \in Customers \cup {Nothing}, x \in Variants, q \in 0..MaxQuantity,
              i \in ItemRows \cup {Nothing} : Begin(v, op, o, c, x, q, i)
        \/ FindCart(v) \/ CreateCart(v) \/ ReadLine(v) \/ AddLine(v)
        \/ ReadItem(v) \/ SetLine(v) \/ RemoveLine(v)
        \/ MergeRead(v) \/ DiscardCart(v) \/ MergeLookup(v) \/ AdoptCart(v)
        \/ MergeLines(v) \/ ClearCheckoutCart(v) \/ FailVisit(v)
    BY <1>3 DEF CartNext
  <2>1. \E E \in Purses : Funded(E)'
    BY <1>1, BeginFunded, QuietFunded, CreateFunded, ReadsFunded, LineWritesFunded,
       CartWritesFunded, MergeLinesFunded
  <2> QED
    BY <1>1, <2>1 DEF CartFunded
<1> QED
  BY <1>2, <1>3

\* The purses bound what the carts hold.
LEMMA FundedCovers == CartFunded => NoUnitsFromNothing
<1> SUFFICES ASSUME CartFunded, NEW x \in Variants PROVE InAllCarts(x) <= added[x]
  BY DEF NoUnitsFromNothing
<1> PICK C \in Purses : Funded(C)
  BY DEF CartFunded
<1>1. CartSound /\ CartTypeOK
  BY DEF CartFunded, CartSound
<1> DEFINE F == [r \in CartRows |-> InCart(r, x)]
           G == Column(C, x)
           S == Owned(cart)
<1>2. InAllCarts(x) = SumFunctionOnSet(F, S)
  BY DEF InAllCarts, InCarts, LiveCarts, Owned
<1>3. IsFiniteSet(S) /\ S \subseteq CartRows
  BY OwnedFinite
<1>4. ASSUME NEW r \in S PROVE F[r] \in Nat /\ G[r] \in Nat /\ F[r] <= G[r]
  <2>1. r \in CartRows
    BY <1>3
  <2>2. F[r] = InCart(r, x) /\ G[r] = C[r][x] /\ G[r] \in Nat
    BY <2>1, ColumnIs
  <2> QED
    BY <1>1, <2>1, <2>2, InCartTyped, InCartFunded
<1>5. Fund(C, x, cart) = SumFunctionOnSet(G, S) /\ Fund(C, x, cart) <= added[x]
  BY DEF Fund, Funded
<1> HIDE DEF F, G, S
<1>6. SumFunctionOnSet(F, S) <= SumFunctionOnSet(G, S)
  BY <1>3, <1>4, SumMonotone
<1>7. SumFunctionOnSet(F, S) \in Nat /\ SumFunctionOnSet(G, S) \in Nat
  BY <1>3, <1>4, SumNat
<1>8. added[x] \in Nat
  BY <1>1 DEF CartTypeOK
<1> QED
  BY <1>2, <1>5, <1>6, <1>7, <1>8

\* However requests overlap, merge and fail, all the carts together never
\* hold more of a variant than requests put into carts.
THEOREM UnitsComeFromRequests == CartSpec => []NoUnitsFromNothing
  BY FundedStart, FundedSteady, FundedCovers, PTL DEF CartSpec

-----------------------------------------------------------------------------
(* One request at a time: the request under way knows what its owner's     *)
(* cart should hold, and every line holds it.                              *)

ExactLines(c, f, e) ==
    /\ \A i \in ItemRows : f[i].state = "live" => f[i].quantity = e[c[f[i].cart]][f[i].variant]
    /\ \A o \in Owners, x \in Variants :
          \/ e[o][x] = 0
          \/ \E i \in ItemRows : f[i].state = "live" /\ c[f[i].cart] = o /\ f[i].variant = x

VisitExact(w, c, f, e) ==
    /\ w.pc \in {"add", "addWrite", "set", "setWrite", "remove", "mergeInto", "adopt", "discard"}
          => c[w.cart] = w.owner
    /\ w.pc = "addWrite" => w.read[w.variant] = e[w.owner][w.variant]
    /\ w.pc = "mergeInto" /\ w.into = Nothing => \A x \in Variants :
          /\ w.read[x] = e[w.owner][x]
          /\ e[w.owner][x] > 0 => \E j \in w.lines : f[j].variant = x
    /\ w.pc = "mergeInto" /\ w.into # Nothing =>
          /\ c[w.into] = w.target
          /\ \A x \in Variants : w.read[x] = IF e[w.owner][x] > 0
                                             THEN e[w.target][x] + e[w.owner][x] ELSE 0
          /\ \A i \in ItemRows :
                f[i].state = "live" /\ f[i].cart = w.into /\ e[w.owner][f[i].variant] > 0
                => i \in w.lines

CartExact ==
    ~overlap =>
       /\ \A u, v \in Visits : visit[u].pc # "idle" /\ visit[v].pc # "idle" => u = v
       /\ ExactLines(cart, item, expected)
       /\ \A v \in Visits : VisitExact(visit[v], cart, item, expected)

LEMMA IdleExact == \A w, c, f, e : w.pc \in {"idle", "find", "create", "merge", "clear"} => VisitExact(w, c, f, e)
  BY DEF VisitExact

LEMMA FoundExact ==
    \A w, c, f, e :
        w.pc \in {"add", "set", "setWrite", "remove", "adopt", "discard"} /\ c[w.cart] = w.owner
        => VisitExact(w, c, f, e)
  BY DEF VisitExact

LEMMA AwayIdle == Away.pc = "idle" /\ \A c, f, e : VisitExact(Away, c, f, e)
<1>1. Away.pc = "idle"
  BY DEF Away
<1> QED
  BY <1>1, IdleExact

\* The request under way takes a step.
LEMMA ExactMoves ==
    ASSUME CartSound, CartExact, NEW v \in Visits, visit[v].pc # "idle", NEW w,
           visit' = [visit EXCEPT ![v] = w], overlap' = overlap,
           ~overlap => /\ VisitExact(w, cart', item', expected')
                       /\ ExactLines(cart', item', expected')
    PROVE  CartExact'
<1> SUFFICES ASSUME ~overlap PROVE CartExact'
  BY DEF CartExact
<1>1. visit \in [Visits -> Visit] /\ \A u \in Visits : u # v => visit[u].pc = "idle"
  BY DEF CartSound, CartTypeOK, CartExact
<1>2. visit'[v] = w /\ \A u \in Visits : u # v => visit'[u] = visit[u] /\ visit'[u].pc = "idle"
  BY <1>1
<1>3. \A u \in Visits : VisitExact(visit'[u], cart', item', expected')
  <2>1. ASSUME NEW u \in Visits PROVE VisitExact(visit'[u], cart', item', expected')
    <3>1. CASE u = v
      BY <1>2, <3>1
    <3>2. CASE u # v
      BY <1>2, <3>2, IdleExact
    <3> QED
      BY <3>1, <3>2
  <2> QED
    BY <2>1
<1> QED
  BY <1>2, <1>3 DEF CartExact

LEMMA ExactReads ==
    ASSUME CartSound, CartExact, NEW v \in Visits, visit[v].pc # "idle", NEW w,
           visit' = [visit EXCEPT ![v] = w], UNCHANGED <<cart, item, expected, overlap>>,
           ~overlap => VisitExact(w, cart, item, expected)
    PROVE  CartExact'
<1>1. ~overlap => /\ VisitExact(w, cart', item', expected')
                  /\ ExactLines(cart', item', expected')
  BY DEF CartExact
<1> QED
  BY <1>1, ExactMoves

LEMMA ExactLeaves ==
    ASSUME CartSound, CartExact, NEW v \in Visits, visit[v].pc # "idle", Leave(v),
           overlap' = overlap, ~overlap => ExactLines(cart', item', expected')
    PROVE  CartExact'
  BY AwayIdle, ExactMoves DEF Leave

LEMMA BeginExact ==
    ASSUME CartSound, CartExact, NEW v \in Visits,
           NEW op \in {"add", "set", "remove", "merge", "clear", "get"},
           NEW o \in Owners, NEW c \in Customers \cup {Nothing}, NEW x \in Variants,
           NEW q \in 0..MaxQuantity, NEW i \in ItemRows \cup {Nothing}, Begin(v, op, o, c, x, q, i)
    PROVE  CartExact'
<1> SUFFICES ASSUME ~overlap' PROVE CartExact'
  BY DEF CartExact
<1>1. ~overlap /\ \A u \in Visits : visit[u].pc = "idle"
  BY DEF Begin
<1> PICK pc : pc = IF op \in {"merge", "clear"} THEN op ELSE "find"
  OBVIOUS
<1> PICK w : w = [Away EXCEPT !.pc = pc, !.op = op, !.owner = o, !.target = c,
                        !.variant = x, !.quantity = q, !.item = i]
  OBVIOUS
<1>2. w.pc = pc /\ pc \in {"find", "merge", "clear"}
  BY AwayFits DEF Visit
<1>3. visit' = [visit EXCEPT ![v] = w] /\ UNCHANGED <<cart, item, expected>>
  BY DEF Begin
<1>4. \A u \in Visits : u # v => visit'[u] = visit[u]
  BY <1>3 DEF CartSound, CartTypeOK
<1>5. visit'[v] = w
  BY <1>3 DEF CartSound, CartTypeOK
<1>6. \A u \in Visits : VisitExact(visit'[u], cart', item', expected')
  <2>1. \A u \in Visits : visit'[u].pc \in {"idle", "find", "merge", "clear"}
    BY <1>1, <1>2, <1>4, <1>5
  <2> QED
    BY <2>1, IdleExact
<1>7. \A t, u \in Visits : visit'[t].pc # "idle" /\ visit'[u].pc # "idle" => t = u
  BY <1>1, <1>4
<1>8. ExactLines(cart', item', expected')
  BY <1>1, <1>3 DEF CartExact
<1> QED
  BY <1>6, <1>7, <1>8 DEF CartExact

\* Reading a cart tells what its owner's cart should hold.
LEMMA InCartExact ==
    ASSUME CartSound, ExactLines(cart, item, expected), NEW r \in CartRows, cart[r] \in Owners,
           NEW x \in Variants
    PROVE  InCart(r, x) = expected[cart[r]][x]
<1>1. LinesFit(cart, item) /\ OneCartEach(cart)
  BY DEF CartSound
<1>2. CASE LineOf(r, x) = {}
  <2>1. \A i \in ItemRows : ~(item[i].state = "live" /\ item[i].cart = r /\ item[i].variant = x)
    BY <1>2 DEF LineOf, LinesOf
  <2>2. \A i \in ItemRows : item[i].state = "live" /\ cart[item[i].cart] = cart[r] => item[i].cart = r
    BY <1>1 DEF LinesFit, OneCartEach
  <2>3. expected[cart[r]][x] = 0
    BY <2>1, <2>2 DEF ExactLines
  <2> QED
    BY <1>2, <2>3, InCartIs
<1>3. CASE LineOf(r, x) # {}
  <2>1. PICK i \in LineOf(r, x) : TRUE
    BY <1>3
  <2>2. i \in ItemRows /\ item[i].state = "live" /\ item[i].cart = r /\ item[i].variant = x
    BY <2>1 DEF LineOf, LinesOf
  <2>3. InCart(r, x) = item[i].quantity
    BY <2>2, InCartIs
  <2> QED
    BY <2>2, <2>3 DEF ExactLines
<1> QED
  BY <1>2, <1>3

LEMMA QuietExact ==
    ASSUME CartSound, CartExact, NEW v \in Visits
    PROVE  /\ FindCart(v) => CartExact'
           /\ ReadItem(v) => CartExact'
           /\ FailVisit(v) => CartExact'
<1>0. visit[v] \in Visit /\ (~overlap => VisitExact(visit[v], cart, item, expected))
      /\ (~overlap => ExactLines(cart, item, expected))
  BY DEF CartSound, CartTypeOK, CartExact
<1>1. ASSUME FindCart(v) PROVE CartExact'
  <2>0. visit[v].pc # "idle" /\ visit[v].pc = "find" /\ UNCHANGED <<cart, item, expected, overlap>>
    BY <1>1 DEF FindCart
  <2>1. CASE CartsOf(visit[v].owner) = {}
    <3> PICK w : w = [visit[v] EXCEPT !.pc = "create"]
      OBVIOUS
    <3>1. w.pc = "create"
      BY <1>0 DEF Visit
    <3>2. visit' = [visit EXCEPT ![v] = w]
      BY <1>1, <2>1 DEF FindCart, CartStep
    <3>3. VisitExact(w, cart, item, expected)
      BY <3>1 DEF VisitExact
    <3> QED
      BY <2>0, <3>2, <3>3, ExactReads
  <2>2. CASE Leave(v)
    BY <1>0, <2>0, <2>2, ExactLeaves
  <2>3. CASE CartsOf(visit[v].owner) # {} /\ ~Leave(v)
    <3>1. PICK r \in CartsOf(visit[v].owner) :
             visit[v].op # "get" /\ visit' = [visit EXCEPT ![v].pc = visit[v].op, ![v].cart = r]
      BY <1>1, <2>3 DEF FindCart
    <3> PICK w : w = [visit[v] EXCEPT !.pc = visit[v].op, !.cart = r]
      OBVIOUS
    <3>2. r \in CartRows /\ cart[r] = visit[v].owner
      BY DEF CartsOf
    <3>3. w.pc \in {"add", "set", "remove"} /\ w.cart = r /\ w.owner = visit[v].owner
      BY <2>0, <3>1, <3>2, FindSound
    <3>4. visit' = [visit EXCEPT ![v] = w]
      BY <3>1 DEF CartSound, CartTypeOK
    <3>6. cart[w.cart] = w.owner
      BY <3>2, <3>3
    <3>7. w.pc \in {"add", "set", "setWrite", "remove", "adopt", "discard"}
      BY <3>3
    <3>5. VisitExact(w, cart, item, expected)
      BY <3>6, <3>7, FoundExact
    <3> QED
      BY <2>0, <3>4, <3>5, ExactReads
  <2> QED
    BY <2>1, <2>2, <2>3
<1>2. ASSUME ReadItem(v) PROVE CartExact'
  <2>0. visit[v].pc # "idle" /\ visit[v].pc = "set" /\ UNCHANGED <<cart, item, expected, overlap>>
    BY <1>2 DEF ReadItem
  <2>1. CASE Leave(v)
    BY <1>0, <2>0, <2>1, ExactLeaves
  <2>2. CASE ~Leave(v)
    <3> PICK w : w = [visit[v] EXCEPT !.pc = "setWrite"]
      OBVIOUS
    <3>1. w.pc = "setWrite" /\ w.cart = visit[v].cart /\ w.owner = visit[v].owner
      BY <1>0 DEF Visit
    <3>2. visit' = [visit EXCEPT ![v] = w]
      BY <1>2, <2>2 DEF ReadItem, CartStep
    <3>3. ~overlap => VisitExact(w, cart, item, expected)
      BY <1>0, <2>0, <3>1 DEF VisitExact
    <3> QED
      BY <2>0, <3>2, <3>3, ExactReads
  <2> QED
    BY <2>1, <2>2
<1>3. ASSUME FailVisit(v) PROVE CartExact'
  BY <1>0, <1>3, ExactLeaves DEF FailVisit
<1> QED
  BY <1>1, <1>2, <1>3

LEMMA CreateExact ==
    ASSUME CartSound, CartExact, NEW v \in Visits, CreateCart(v)
    PROVE  CartExact'
<1> PICK r, o : r = AnyOf(FreshCarts) /\ o = visit[v].owner
  OBVIOUS
<1>1. visit[v] \in Visit /\ visit[v].pc = "create"
      /\ cart \in [CartRows -> Owners \cup {"unused", "deleted"}] /\ LinesFit(cart, item)
  BY DEF CartSound, CartTypeOK, CreateCart
<1>2. r \in CartRows /\ cart[r] = "unused"
  BY AnyIn DEF CreateCart, FreshCarts
<1>3. o \in Owners /\ cart' = [cart EXCEPT ![r] = o] /\ UNCHANGED <<item, expected, overlap>>
  BY <1>1 DEF Visit, CreateCart
<1>4. ASSUME ~overlap PROVE ExactLines(cart', item', expected')
  <2>1. \A i \in ItemRows : item[i].state = "live" => cart'[item[i].cart] = cart[item[i].cart]
    BY <1>1, <1>2, <1>3, CartFacts DEF LinesFit
  <2>2. ExactLines(cart, item, expected)
    BY <1>4 DEF CartExact
  <2> QED
    BY <1>3, <2>1, <2>2 DEF ExactLines
<1>5. CASE Leave(v)
  BY <1>1, <1>3, <1>4, <1>5, ExactLeaves
<1>6. CASE ~Leave(v)
  <2>1. visit[v].op # "get" /\ visit' = [visit EXCEPT ![v].pc = visit[v].op, ![v].cart = r]
    BY <1>6 DEF CreateCart
  <2> PICK w : w = [visit[v] EXCEPT !.pc = visit[v].op, !.cart = r]
    OBVIOUS
  <2>2. w.pc \in {"add", "set", "remove"} /\ w.cart = r /\ w.owner = o
    BY ZenonT(60), <1>1, <1>2, <2>1, FindSound
  <2>3. visit' = [visit EXCEPT ![v] = w]
    BY <2>1 DEF CartSound, CartTypeOK
  <2>4. cart'[r] = o
    BY <1>1, <1>2, <1>3
  <2>5. cart'[w.cart] = w.owner
    BY <2>2, <2>4
  <2>6. VisitExact(w, cart', item', expected')
    BY <2>2, <2>5, FoundExact
  <2> QED
    BY <1>1, <1>3, <1>4, <2>3, <2>6, ExactMoves
<1> QED
  BY <1>5, <1>6

LEMMA ReadLineExact ==
    ASSUME CartSound, CartExact, NEW v \in Visits, ReadLine(v)
    PROVE  CartExact'
<1>1. PICK w \in Visit :
             /\ visit' = [visit EXCEPT ![v] = w] /\ VisitFits(w, item)
             /\ visit[v].pc = "add" /\ w.pc = "addWrite"
             /\ w.cart = visit[v].cart /\ w.owner = visit[v].owner
             /\ w.read[w.variant] = InCart(w.cart, w.variant)
  BY ReadLineIs
<1>2. UNCHANGED <<cart, item, expected, overlap>> /\ visit[v].pc # "idle"
  BY <1>1 DEF ReadLine
<1>3. ASSUME ~overlap PROVE VisitExact(w, cart, item, expected)
  <2>1. VisitExact(visit[v], cart, item, expected) /\ ExactLines(cart, item, expected)
    BY <1>3 DEF CartExact
  <2>2. cart[w.cart] = w.owner
    BY <1>1, <2>1 DEF VisitExact
  <2>3. w.cart \in CartRows /\ w.owner \in Owners /\ w.variant \in Variants
    BY <1>1 DEF VisitFits, Visit
  <2>4. InCart(w.cart, w.variant) = expected[w.owner][w.variant]
    BY <2>1, <2>2, <2>3, InCartExact
  <2> QED
    BY <1>1, <2>2, <2>4 DEF VisitExact
<1> QED
  BY <1>1, <1>2, <1>3, ExactReads

LEMMA MergeReadExact ==
    ASSUME CartSound, CartExact, NEW v \in Visits, MergeRead(v)
    PROVE  CartExact'
<1>1. UNCHANGED <<cart, item, expected, overlap>> /\ visit[v].pc # "idle"
  BY DEF MergeRead
<1>2. CASE Leave(v)
  <2>1. ~overlap => ExactLines(cart', item', expected')
    BY <1>1 DEF CartExact
  <2> QED
    BY <1>1, <1>2, <2>1, ExactLeaves
<1>3. CASE ~Leave(v)
  <2>1. PICK w \in Visit, r \in CartsOf(visit[v].owner) :
             /\ visit' = [visit EXCEPT ![v] = w]
             /\ w.pc \in {"discard", "mergeInto"}
             /\ w.cart = r /\ w.owner = visit[v].owner
             /\ w.into = Nothing /\ w.lines = LinesOf(r)
             /\ \A x \in Variants : w.read[x] = InCart(r, x)
    BY <1>3, MergeReadIs
  <2>2. r \in CartRows /\ cart[r] = w.owner /\ w.owner \in Owners
    BY <2>1 DEF CartsOf, Visit
  <2>3. ASSUME ~overlap PROVE VisitExact(w, cart, item, expected)
    <3>1. ExactLines(cart, item, expected) /\ LinesFit(cart, item) /\ OneCartEach(cart)
          /\ expected \in [Owners -> [Variants -> Nat]]
      BY <2>3 DEF CartExact, CartSound, CartTypeOK
    <3>2. \A x \in Variants : w.read[x] = expected[w.owner][x]
      BY <2>1, <2>2, <3>1, InCartExact
    <3>3. ASSUME NEW x \in Variants, expected[w.owner][x] > 0
          PROVE  \E j \in w.lines : item[j].variant = x
      <4>1. expected[w.owner][x] # 0
        BY <2>2, <3>1, <3>3
      <4>2. PICK i \in ItemRows :
              item[i].state = "live" /\ cart[item[i].cart] = w.owner /\ item[i].variant = x
        BY <2>2, <3>1, <4>1 DEF ExactLines
      <4>3. item[i].cart = r
        BY <2>2, <3>1, <4>2 DEF LinesFit, OneCartEach
      <4> QED
        BY <2>1, <4>2, <4>3 DEF LinesOf
    <3>4. cart[w.cart] = w.owner
      BY <2>1, <2>2
    <3> QED
      BY <2>1, <3>2, <3>3, <3>4 DEF VisitExact
  <2> QED
    BY <1>1, <2>1, <2>3, ExactReads
<1> QED
  BY <1>2, <1>3

LEMMA MergeLookupExact ==
    ASSUME CartSound, CartExact, NEW v \in Visits, MergeLookup(v)
    PROVE  CartExact'
<1>1. UNCHANGED <<cart, item, expected, overlap>> /\ visit[v].pc # "idle"
      /\ visit[v].pc = "mergeInto" /\ visit[v].into = Nothing
  BY DEF MergeLookup
<1>2. CASE CartsOf(visit[v].target) = {}
  <2> PICK w : w = [visit[v] EXCEPT !.pc = "adopt"]
    OBVIOUS
  <2>1. w.pc = "adopt" /\ w.cart = visit[v].cart /\ w.owner = visit[v].owner
    BY DEF CartSound, CartTypeOK, Visit
  <2>2. visit' = [visit EXCEPT ![v] = w]
    BY <1>2 DEF MergeLookup, CartStep
  <2>3. ~overlap => VisitExact(w, cart, item, expected)
    <3>1. ~overlap => cart[visit[v].cart] = visit[v].owner
      BY <1>1 DEF CartExact, VisitExact
    <3>2. ~overlap => cart[w.cart] = w.owner
      BY <2>1, <3>1
    <3> QED
      BY <2>1, <3>2, FoundExact
  <2> QED
    BY <1>1, <2>2, <2>3, ExactReads
<1>3. CASE CartsOf(visit[v].target) # {}
  <2> PICK old, ls : old = visit[v].read /\ ls = visit[v].lines
    OBVIOUS
  <2>1. PICK w \in Visit, r \in CartsOf(visit[v].target) :
             /\ visit' = [visit EXCEPT ![v] = w] /\ VisitFits(w, item)
             /\ w.pc = "mergeInto" /\ w.into = r /\ w.op = "merge"
             /\ w.cart = visit[v].cart /\ w.owner = visit[v].owner
             /\ w.target = visit[v].target
             /\ \A i \in ItemRows :
                   i \in w.lines <=> \E j \in ls : i \in LineOf(r, item[j].variant)
             /\ \A x \in Variants : w.read[x] = IF old[x] > 0 THEN InCart(r, x) + old[x] ELSE 0
    BY <1>3, MergeLookupIs
  <2>2. r \in CartRows /\ cart[r] = w.target /\ w.owner \in Owners /\ w.target \in Owners
    BY <2>1, CartFacts DEF CartsOf, Visit, VisitFits
  <2>3. r # Nothing
    BY <2>2, CartFacts
  <2>4. ASSUME ~overlap PROVE VisitExact(w, cart, item, expected)
    <3>1. ExactLines(cart, item, expected) /\ VisitExact(visit[v], cart, item, expected)
          /\ item \in [ItemRows -> Item]
      BY <2>4 DEF CartExact, CartSound, CartTypeOK
    <3>2. /\ cart[w.cart] = w.owner
          /\ \A x \in Variants : /\ old[x] = expected[w.owner][x]
                                 /\ expected[w.owner][x] > 0 => \E j \in ls : item[j].variant = x
      BY <1>1, <2>1, <3>1 DEF VisitExact
    <3>3. \A x \in Variants : InCart(r, x) = expected[w.target][x]
      BY <2>2, <3>1, InCartExact
    <3>4. \A x \in Variants : w.read[x] = IF expected[w.owner][x] > 0
                                          THEN expected[w.target][x] + expected[w.owner][x] ELSE 0
      BY <2>1, <3>2, <3>3
    <3>5. ASSUME NEW i \in ItemRows, item[i].state = "live", item[i].cart = r,
                 expected[w.owner][item[i].variant] > 0
          PROVE  i \in w.lines
      <4>1. item[i].variant \in Variants
        BY <3>1 DEF Item
      <4>2. PICK j \in ls : item[j].variant = item[i].variant
        BY <3>2, <3>5, <4>1
      <4>3. i \in LineOf(r, item[j].variant)
        BY <3>5, <4>2 DEF LineOf, LinesOf
      <4> QED
        BY <2>1, <4>3
    <3>6. w.into # Nothing /\ w.into = r /\ w.pc = "mergeInto"
      BY <2>1, <2>3
    <3> QED
      BY <2>2, <3>2, <3>4, <3>5, <3>6 DEF VisitExact
  <2> QED
    BY <1>1, <2>1, <2>4, ExactReads
<1> QED
  BY <1>2, <1>3

\* A line of a cart is put, and its owner's cart should hold just that.
LEMMA PutExact ==
    ASSUME CartSound, ExactLines(cart, item, expected), NEW r \in CartRows, NEW o \in Owners,
           cart[r] = o, NEW x \in Variants, NEW i \in ItemRows, NEW q \in Nat,
           LinePut(i, r, x, q), Expect(o, x, q)
    PROVE  ExactLines(cart, item', expected')
<1>1. expected \in [Owners -> [Variants -> Nat]] /\ LinesFit(cart, item) /\ OneCartEach(cart)
      /\ item \in [ItemRows -> Item]
  BY DEF CartSound, CartTypeOK
<1>2. expected'[o][x] = q /\ \A p \in Owners, y \in Variants :
         (p # o \/ y # x) => expected'[p][y] = expected[p][y]
  BY <1>1 DEF Expect
<1>3. ASSUME NEW j \in ItemRows, item'[j].state = "live"
      PROVE  item'[j].quantity = expected'[cart[item'[j].cart]][item'[j].variant]
  <2>1. CASE j = i
    BY <1>2, <2>1 DEF LinePut
  <2>2. CASE j # i
    <3>1. item'[j] = item[j] /\ item[j].state = "live"
      BY <1>3, <2>2 DEF LinePut
    <3>2. ~(item[j].cart = r /\ item[j].variant = x)
      BY <1>1, <2>2, <3>1 DEF LinePut, LinesFit, LineOf, LinesOf
    <3>3. cart[item[j].cart] \in Owners /\ item[j].variant \in Variants /\ item[j].cart \in CartRows
      BY <1>1, <3>1 DEF LinesFit, Item
    <3>4. cart[item[j].cart] # o \/ item[j].variant # x
      BY <1>1, <3>2, <3>3 DEF OneCartEach
    <3>5. item[j].quantity = expected[cart[item[j].cart]][item[j].variant]
      BY <3>1 DEF ExactLines
    <3> QED
      BY <1>2, <3>1, <3>3, <3>4, <3>5
  <2> QED
    BY <2>1, <2>2
<1>4. ASSUME NEW p \in Owners, NEW y \in Variants
      PROVE  \/ expected'[p][y] = 0
             \/ \E j \in ItemRows : item'[j].state = "live" /\ cart[item'[j].cart] = p
                                    /\ item'[j].variant = y
  <2>1. CASE p = o /\ y = x
    BY <2>1 DEF LinePut
  <2>2. CASE ~(p = o /\ y = x)
    <3>1. expected'[p][y] = expected[p][y]
      BY <1>2, <2>2
    <3>2. CASE expected[p][y] = 0
      BY <3>1, <3>2
    <3>3. CASE expected[p][y] # 0
      <4>1. PICK j \in ItemRows :
              item[j].state = "live" /\ cart[item[j].cart] = p /\ item[j].variant = y
        BY <3>3 DEF ExactLines
      <4>2. j # i
        BY <2>2, <4>1 DEF LinePut
      <4>3. item'[j] = item[j]
        BY <4>2 DEF LinePut
      <4> QED
        BY <4>1, <4>3
    <3> QED
      BY <3>2, <3>3
  <2> QED
    BY <2>1, <2>2
<1> QED
  BY <1>3, <1>4 DEF ExactLines

\* Lines are dropped, and nothing is expected of those any more.
LEMMA DropExact ==
    ASSUME CartSound, ExactLines(cart, item, expected), NEW D, LinesDropped(D),
           NEW e \in [Owners -> [Variants -> Nat]], NEW c,
           \A i \in ItemRows : item[i].state = "live" /\ i \notin D =>
              /\ c[item[i].cart] = cart[item[i].cart]
              /\ e[cart[item[i].cart]][item[i].variant]
                   = expected[cart[item[i].cart]][item[i].variant],
           \A o \in Owners, x \in Variants :
              \/ e[o][x] = 0
              \/ /\ e[o][x] = expected[o][x]
                 /\ \A i \in D \cap ItemRows :
                      ~(item[i].state = "live" /\ cart[item[i].cart] = o /\ item[i].variant = x)
    PROVE  ExactLines(c, item', e)
<1>1. ASSUME NEW i \in ItemRows, item'[i].state = "live"
      PROVE  item'[i].quantity = e[c[item'[i].cart]][item'[i].variant]
  BY <1>1 DEF LinesDropped, ExactLines
<1>2. ASSUME NEW o \in Owners, NEW x \in Variants, e[o][x] # 0
      PROVE  \E i \in ItemRows : item'[i].state = "live" /\ c[item'[i].cart] = o
                                 /\ item'[i].variant = x
  <2>1. PICK i \in ItemRows :
          item[i].state = "live" /\ cart[item[i].cart] = o /\ item[i].variant = x
    BY <1>2 DEF ExactLines
  <2>2. i \notin D
    BY <1>2, <2>1
  <2> QED
    BY <2>1, <2>2 DEF LinesDropped
<1> QED
  BY <1>1, <1>2 DEF ExactLines

LEMMA LineWritesExact ==
    ASSUME CartSound, CartExact, NEW v \in Visits
    PROVE  /\ AddLine(v) => CartExact'
           /\ SetLine(v) => CartExact'
           /\ RemoveLine(v) => CartExact'
<1>0. visit[v] \in Visit /\ VisitFits(visit[v], item) /\ item \in [ItemRows -> Item]
      /\ expected \in [Owners -> [Variants -> Nat]] /\ OneCartEach(cart) /\ LinesFit(cart, item)
  BY DEF CartSound, CartTypeOK
<1> PICK o : o = visit[v].owner
  OBVIOUS
<1>4. o \in Owners
  BY <1>0 DEF Visit
\* One line of the owner's cart goes.
<1>5. ASSUME NEW r \in CartRows, NEW i \in ItemRows, cart[r] = o, item[i].state = "live",
             item[i].cart = r, LinesDropped({i}), Expect(o, item[i].variant, 0),
             ExactLines(cart, item, expected)
      PROVE  ExactLines(cart, item', expected')
  <2> PICK x, e : x = item[i].variant /\ e = expected'
    OBVIOUS
  <2>1. x \in Variants
    BY <1>0 DEF Item
  <2>2. /\ e \in [Owners -> [Variants -> Nat]] /\ e[o][x] = 0
        /\ \A p \in Owners, y \in Variants : (p # o \/ y # x) => e[p][y] = expected[p][y]
    BY <1>0, <1>4, <1>5, <2>1 DEF Expect
  <2>3. ASSUME NEW j \in ItemRows, item[j].state = "live", j \notin {i}
        PROVE  e[cart[item[j].cart]][item[j].variant]
                   = expected[cart[item[j].cart]][item[j].variant]
    <3>1. cart[item[j].cart] \in Owners /\ item[j].variant \in Variants /\ item[j].cart \in CartRows
      BY <1>0, <2>3 DEF LinesFit, Item
    <3>2. ~(item[j].cart = r /\ item[j].variant = x)
      BY <1>0, <1>5, <2>3 DEF LinesFit
    <3>3. cart[item[j].cart] # o \/ item[j].variant # x
      BY <1>0, <1>5, <3>1, <3>2 DEF OneCartEach
    <3> QED
      BY <2>2, <3>1, <3>3
  <2>4. ASSUME NEW p \in Owners, NEW y \in Variants
        PROVE  \/ e[p][y] = 0
               \/ /\ e[p][y] = expected[p][y]
                  /\ \A j \in {i} \cap ItemRows :
                       ~(item[j].state = "live" /\ cart[item[j].cart] = p /\ item[j].variant = y)
    BY <1>5, <2>2
  <2>5. ExactLines(cart, item', e)
    BY <1>5, <2>2, <2>3, <2>4, DropExact
  <2> QED
    BY <2>5
<1>1. ASSUME AddLine(v) PROVE CartExact'
  <2>1. PICK r \in CartRows, x \in Variants, q \in Nat, i \in ItemRows, k \in Nat :
             /\ r = visit[v].cart /\ x = visit[v].variant /\ cart[r] \in Owners
             /\ visit[v].pc = "addWrite"
             /\ visit[v].item = Nothing => item[i].state = "unused" /\ k = 0
             /\ visit[v].item # Nothing => item[i].state = "live" /\ k = visit[v].read[x]
             /\ LinePut(i, r, x, k + q)
             /\ Expect(visit[v].owner, x, expected[visit[v].owner][x] + q)
    BY <1>1, AddLineIs
  <2>2. UNCHANGED <<cart, overlap>> /\ Leave(v) /\ visit[v].pc # "idle"
    BY <1>1, <2>1 DEF AddLine
  <2>3. ASSUME ~overlap PROVE ExactLines(cart', item', expected')
    <3>1. VisitExact(visit[v], cart, item, expected) /\ ExactLines(cart, item, expected)
      BY <2>3 DEF CartExact
    <3>2. cart[r] = o /\ visit[v].read[x] = expected[o][x]
      BY <2>1, <3>1 DEF VisitExact
    <3>3. k = expected[o][x]
      <4>1. CASE visit[v].item = Nothing
        <5>1. LineOf(r, x) = {}
          BY <2>1, <4>1 DEF LinePut
        <5>2. InCart(r, x) = 0
          BY <5>1, InCartIs
        <5> QED
          BY <1>4, <2>1, <3>1, <3>2, <4>1, <5>2, InCartExact
      <4>2. CASE visit[v].item # Nothing
        BY <2>1, <3>2, <4>2
      <4> QED
        BY <4>1, <4>2
    <3> PICK n : n = k + q
      OBVIOUS
    <3>4. n \in Nat /\ LinePut(i, r, x, n) /\ Expect(o, x, n)
      BY SMTT(30), <2>1, <3>3
    <3>5. ExactLines(cart, item', expected')
      BY <1>4, <3>1, <3>2, <3>4, PutExact
    <3> QED
      BY <2>2, <3>5
  <2> QED
    BY <2>2, <2>3, ExactLeaves
<1>2. ASSUME SetLine(v) PROVE CartExact'
  <2>0. PICK r \in CartRows, x \in Variants, q \in Nat, i \in ItemRows, k \in Nat :
             SetWrites(v, r, x, q, i, k)
    BY <1>2, SetLineIs
  <2>1. /\ r = visit[v].cart /\ visit[v].pc = "setWrite"
        /\ item[i].state = "live" /\ item[i].cart = r /\ item[i].variant = x
        /\ q = 0 => LinesDropped({i})
        /\ q > 0 => LinePut(i, r, x, q)
        /\ Expect(o, x, q)
    BY <2>0 DEF SetWrites
  <2>2. UNCHANGED <<cart, overlap>> /\ Leave(v) /\ visit[v].pc # "idle"
    BY <1>2, <2>1 DEF SetLine
  <2>3. ASSUME ~overlap PROVE ExactLines(cart', item', expected')
    <3>1. VisitExact(visit[v], cart, item, expected) /\ ExactLines(cart, item, expected)
      BY <2>3 DEF CartExact
    <3>2. cart[r] = o
      BY <2>1, <3>1 DEF VisitExact
    <3>3. CASE q = 0
      BY <1>5, <2>1, <2>2, <3>1, <3>2, <3>3
    <3>4. CASE q > 0
      <4>1. ExactLines(cart, item', expected')
        BY <1>4, <2>1, <3>1, <3>2, <3>4, PutExact
      <4> QED
        BY <2>2, <4>1
    <3> QED
      BY <3>3, <3>4
  <2> QED
    BY <2>2, <2>3, ExactLeaves
<1>3. ASSUME RemoveLine(v) PROVE CartExact'
  <2>1. PICK r \in CartRows, i \in ItemRows :
             /\ r = visit[v].cart /\ visit[v].pc = "remove"
             /\ \/ /\ item[i].state = "live" /\ item[i].cart = r /\ LinesDropped({i})
                   /\ Expect(o, item[i].variant, 0)
                \/ UNCHANGED <<item, expected>>
    BY <1>3, RemoveLineIs
  <2>2. UNCHANGED <<cart, overlap>> /\ Leave(v) /\ visit[v].pc # "idle"
    BY <1>3, <2>1 DEF RemoveLine
  <2>3. ASSUME ~overlap PROVE ExactLines(cart', item', expected')
    <3>1. VisitExact(visit[v], cart, item, expected) /\ ExactLines(cart, item, expected)
      BY <2>3 DEF CartExact
    <3>2. cart[r] = o
      BY <2>1, <3>1 DEF VisitExact
    <3> QED
      BY <1>5, <2>1, <2>2, <3>1, <3>2
  <2> QED
    BY <2>2, <2>3, ExactLeaves
<1> QED
  BY <1>1, <1>2, <1>3

LEMMA CartWritesExact ==
    ASSUME CartSound, CartExact, NEW v \in Visits
    PROVE  /\ DiscardCart(v) => CartExact'
           /\ AdoptCart(v) => CartExact'
           /\ ClearCheckoutCart(v) => CartExact'
<1>0. visit[v] \in Visit /\ VisitFits(visit[v], item) /\ item \in [ItemRows -> Item]
      /\ cart \in [CartRows -> Owners \cup {"unused", "deleted"}]
      /\ expected \in [Owners -> [Variants -> Nat]] /\ OneCartEach(cart) /\ LinesFit(cart, item)
  BY DEF CartSound, CartTypeOK
<1>4. NoUnits \in [Variants -> Nat] /\ \A x \in Variants : NoUnits[x] = 0
  BY DEF NoUnits
\* What an owner's cart held goes with the cart.
<1>5. ASSUME NEW o \in Owners, NEW D, NEW c, LinesDropped(D), ExactLines(cart, item, expected),
             \A i \in ItemRows : item[i].state = "live" =>
                /\ i \in D <=> cart[item[i].cart] = o
                /\ i \notin D => c[item[i].cart] = cart[item[i].cart]
      PROVE  ExactLines(c, item', [expected EXCEPT ![o] = NoUnits])
  <2>1. PICK e : e = [expected EXCEPT ![o] = NoUnits]
    OBVIOUS
  <2>2. /\ e \in [Owners -> [Variants -> Nat]] /\ \A x \in Variants : e[o][x] = 0
        /\ \A p \in Owners : p # o => e[p] = expected[p]
    BY <1>0, <1>4, <2>1
  <2>3. ASSUME NEW i \in ItemRows, item[i].state = "live", i \notin D
        PROVE  /\ c[item[i].cart] = cart[item[i].cart]
               /\ e[cart[item[i].cart]][item[i].variant]
                   = expected[cart[item[i].cart]][item[i].variant]
    <3>1. cart[item[i].cart] \in Owners /\ cart[item[i].cart] # o
      BY <1>0, <1>5, <2>3 DEF LinesFit
    <3> QED
      BY <1>5, <2>2, <2>3, <3>1
  <2>4. ASSUME NEW p \in Owners, NEW y \in Variants
        PROVE  \/ e[p][y] = 0
               \/ /\ e[p][y] = expected[p][y]
                  /\ \A j \in D \cap ItemRows :
                       ~(item[j].state = "live" /\ cart[item[j].cart] = p /\ item[j].variant = y)
    BY <1>5, <2>2
  <2>5. ExactLines(c, item', e)
    BY <1>5, <2>2, <2>3, <2>4, DropExact
  <2> QED
    BY <2>1, <2>5
<1>1. ASSUME DiscardCart(v) PROVE CartExact'
  <2>1. PICK r \in CartRows, o \in Owners :
             /\ r = visit[v].cart /\ o = visit[v].owner
             /\ visit[v].pc = "discard"
             /\ cart' = [cart EXCEPT ![r] = "deleted"]
             /\ LinesDropped(LinesOf(r))
             /\ expected' = [expected EXCEPT ![o] = NoUnits]
    BY <1>1, DiscardIs
  <2>2. overlap' = overlap /\ Leave(v) /\ visit[v].pc # "idle"
    BY <1>1, <2>1 DEF DiscardCart
  <2>3. ASSUME ~overlap PROVE ExactLines(cart', item', expected')
    <3>1. VisitExact(visit[v], cart, item, expected) /\ ExactLines(cart, item, expected)
      BY <2>3 DEF CartExact
    <3>2. cart[r] = o
      BY <2>1, <3>1 DEF VisitExact
    <3> PICK D : D = LinesOf(r)
      OBVIOUS
    <3>3. ASSUME NEW i \in ItemRows, item[i].state = "live"
          PROVE  /\ i \in D <=> cart[item[i].cart] = o
                 /\ i \notin D => cart'[item[i].cart] = cart[item[i].cart]
      <4>1. item[i].cart \in CartRows /\ cart[item[i].cart] \in Owners
        BY <1>0, <3>3 DEF LinesFit
      <4>2. i \in D <=> item[i].cart = r
        BY <3>3 DEF LinesOf
      <4>3. item[i].cart = r <=> cart[item[i].cart] = o
        BY <1>0, <3>2, <4>1 DEF OneCartEach
      <4> QED
        BY <1>0, <2>1, <4>1, <4>2, <4>3
    <3>4. LinesDropped(D)
      BY <2>1
    <3>5. ExactLines(cart', item', [expected EXCEPT ![o] = NoUnits])
      BY <1>5, <3>1, <3>3, <3>4
    <3> QED
      BY <2>1, <3>5
  <2> QED
    BY <2>2, <2>3, ExactLeaves
<1>2. ASSUME AdoptCart(v) PROVE CartExact'
  <2>1. PICK r \in CartRows, c \in Owners :
             /\ r = visit[v].cart /\ c = visit[v].target
             /\ visit[v].pc = "adopt" /\ visit[v].op = "merge" /\ CartsOf(c) \subseteq {r}
             /\ cart' = [cart EXCEPT ![r] = c] /\ UNCHANGED item
             /\ expected' = Merged(v)
    BY <1>2, AdoptIs
  <2>2. overlap' = overlap /\ Leave(v) /\ visit[v].pc # "idle"
    BY <1>2, <2>1 DEF AdoptCart
  <2> PICK o, e : o = visit[v].owner /\ e = Merged(v)
    OBVIOUS
  <2>3. /\ e \in [Owners -> [Variants -> Nat]] /\ o \in Owners /\ o # c
        /\ \A x \in Variants : /\ e[o][x] = 0 /\ e[c][x] = expected[c][x] + expected[o][x]
                               /\ \A p \in Owners \ {o, c} : e[p][x] = expected[p][x]
    <3>1. c \in Customers /\ o \in Sessions
      BY <2>1, MergedIs
    <3>2. o \in Owners /\ o # c
      BY <3>1, CartFacts, CartAssumption
    <3> QED
      BY <2>1, <3>2, MergedIs
  <2>4. ASSUME ~overlap PROVE ExactLines(cart', item', e)
    <3>1. VisitExact(visit[v], cart, item, expected) /\ ExactLines(cart, item, expected)
      BY <2>4 DEF CartExact
    <3>2. cart[r] = o
      BY <2>1, <3>1 DEF VisitExact
    <3>3. \A i \in ItemRows : item[i].state = "live" =>
             /\ item[i].cart \in CartRows /\ cart[item[i].cart] \in Owners
             /\ cart[item[i].cart] # c /\ item[i].variant \in Variants
      BY <1>0, <2>1, <2>3, <3>2 DEF LinesFit, CartsOf, Item
    <3>4. ASSUME NEW x \in Variants PROVE expected[c][x] = 0 /\ e[c][x] = expected[o][x]
      <4>1. expected[c][x] = 0
        BY <3>1, <3>3 DEF ExactLines
      <4>2. expected[o][x] \in Nat
        BY <1>0, <2>3
      <4> QED
        BY <2>3, <4>1, <4>2
    <3>5. \A s \in CartRows : cart'[s] = IF s = r THEN c ELSE cart[s]
      BY <1>0, <2>1
    <3>6. \A s \in CartRows : cart[s] = o => s = r
      BY <1>0, <2>3, <3>2 DEF OneCartEach
    <3>7. ASSUME NEW i \in ItemRows, item[i].state = "live"
          PROVE  item[i].quantity = e[cart'[item[i].cart]][item[i].variant]
      <4> PICK s, x : s = item[i].cart /\ x = item[i].variant
        OBVIOUS
      <4>1. s \in CartRows /\ x \in Variants /\ cart[s] \in Owners /\ cart[s] # c
            /\ item[i].quantity = expected[cart[s]][x]
        BY <3>1, <3>3, <3>7 DEF ExactLines
      <4>2. CASE s = r
        BY <3>2, <3>4, <3>5, <4>1, <4>2
      <4>3. CASE s # r
        BY <2>3, <3>5, <3>6, <4>1, <4>3
      <4> QED
        BY <4>2, <4>3
    <3>8. ASSUME NEW p \in Owners, NEW x \in Variants, e[p][x] # 0
          PROVE  \E i \in ItemRows : item[i].state = "live" /\ cart'[item[i].cart] = p
                                     /\ item[i].variant = x
      <4>1. p # o
        BY <2>3, <3>8
      <4>2. CASE p = c
        <5>1. expected[o][x] # 0
          BY <3>4, <3>8, <4>2
        <5>2. PICK i \in ItemRows : item[i].state = "live" /\ cart[item[i].cart] = o
                                     /\ item[i].variant = x
          BY <2>3, <3>1, <5>1 DEF ExactLines
        <5> QED
          BY <3>3, <3>5, <3>6, <4>2, <5>2
      <4>3. CASE p # c
        <5>1. expected[p][x] # 0
          BY <2>3, <3>8, <4>1, <4>3
        <5>2. PICK i \in ItemRows : item[i].state = "live" /\ cart[item[i].cart] = p
                                     /\ item[i].variant = x
          BY <3>1, <5>1 DEF ExactLines
        <5> QED
          BY <3>2, <3>3, <3>5, <4>1, <5>2
      <4> QED
        BY <4>2, <4>3
    <3> QED
      BY <2>1, <3>7, <3>8 DEF ExactLines
  <2>5. ~overlap => ExactLines(cart', item', expected')
    BY <2>1, <2>4
  <2> QED
    BY <2>2, <2>5, ExactLeaves
<1>3. ASSUME ClearCheckoutCart(v) PROVE CartExact'
  <2>1. PICK o \in Owners :
             /\ cart' = [r \in CartRows |-> IF cart[r] = o THEN "deleted" ELSE cart[r]]
             /\ LinesDropped({i \in ItemRows : cart[item[i].cart] = o})
             /\ expected' = [expected EXCEPT ![o] = NoUnits]
    BY <1>3, ClearIs
  <2>2. overlap' = overlap /\ Leave(v) /\ visit[v].pc # "idle"
    BY <1>3 DEF ClearCheckoutCart
  <2>3. ASSUME ~overlap PROVE ExactLines(cart', item', expected')
    <3> PICK D : D = {i \in ItemRows : cart[item[i].cart] = o}
      OBVIOUS
    <3>1. ExactLines(cart, item, expected) /\ LinesDropped(D)
      BY <2>1, <2>3 DEF CartExact
    <3>2. \A i \in ItemRows : item[i].state = "live" =>
             /\ i \in D <=> cart[item[i].cart] = o
             /\ i \notin D => cart'[item[i].cart] = cart[item[i].cart]
      BY <1>0, <2>1 DEF LinesFit
    <3>3. ExactLines(cart', item', [expected EXCEPT ![o] = NoUnits])
      BY <1>5, <3>1, <3>2
    <3> QED
      BY <2>1, <3>3
  <2> QED
    BY <2>2, <2>3, ExactLeaves
<1> QED
  BY <1>1, <1>2, <1>3

LEMMA MergeLinesExact ==
    ASSUME CartSound, CartExact, NEW v \in Visits, MergeLines(v)
    PROVE  CartExact'
<1>1. PICK c \in CartRows, d \in CartRows, row \in Placements(v) : MergeWrites(v, c, d, row)
  BY MergeLinesIs
<1> PICK ls, read, X : ls = visit[v].lines /\ read = visit[v].read /\ X = DOMAIN row
  OBVIOUS
<1>2. /\ visit[v] \in Visit /\ VisitFits(visit[v], item)
      /\ cart \in [CartRows -> Owners \cup {"unused", "deleted"}]
      /\ item \in [ItemRows -> Item] /\ LinesFit(cart, item) /\ OneCartEach(cart)
      /\ expected \in [Owners -> [Variants -> Nat]]
  BY DEF CartSound, CartTypeOK
<1>3. /\ c # d /\ cart[c] \in Owners /\ cart[d] \in Owners
      /\ c = visit[v].cart /\ d = visit[v].into /\ d # Nothing
      /\ cart' = [cart EXCEPT ![c] = "deleted"] /\ visit[v].pc = "mergeInto"
      /\ ls \subseteq ItemRows /\ \A i \in ls : item[i].state = "live" /\ item[i].cart = d
      /\ row \in [MergedVariants(v) \ FoundVariants(v) -> ItemRows]
  BY <1>1, CartFacts DEF MergeWrites
<1>4. visit[v].op = "merge"
  BY <1>2, <1>3 DEF VisitFits
<1> PICK o, t, e : o = visit[v].owner /\ t = visit[v].target /\ e = Merged(v)
  OBVIOUS
<1>5. /\ e \in [Owners -> [Variants -> Nat]] /\ o \in Owners /\ t \in Owners /\ o # t
      /\ \A x \in Variants : /\ e[o][x] = 0 /\ e[t][x] = expected[t][x] + expected[o][x]
                             /\ \A p \in Owners \ {o, t} : e[p][x] = expected[p][x]
  <2>1. t \in Customers /\ o \in Sessions
    BY <1>4, MergedIs
  <2>2. o \in Owners /\ t \in Owners /\ o # t
    BY <2>1, CartFacts, CartAssumption
  <2> QED
    BY <1>4, <2>2, MergedIs
<1>6. Leave(v) /\ overlap' = overlap /\ expected' = e /\ visit[v].pc # "idle"
  BY <1>3 DEF MergeLines
<1>7. ASSUME ~overlap PROVE ExactLines(cart', item', e)
  <2>1. VisitExact(visit[v], cart, item, expected) /\ ExactLines(cart, item, expected)
    BY <1>7 DEF CartExact
  <2>2. /\ cart[c] = o /\ cart[d] = t
        /\ \A x \in Variants : read[x] = IF expected[o][x] > 0
                                         THEN expected[t][x] + expected[o][x] ELSE 0
        /\ \A i \in ItemRows :
             item[i].state = "live" /\ item[i].cart = d /\ expected[o][item[i].variant] > 0
             => i \in ls
    BY <1>3, <2>1 DEF VisitExact
  <2>3. /\ \A s \in CartRows : cart[s] = o => s = c
        /\ \A s \in CartRows : cart[s] = t => s = d
    BY <1>2, <1>5, <2>2 DEF OneCartEach
  <2>4. \A s \in CartRows : s # c => cart'[s] = cart[s]
    BY <1>2, <1>3
  <2>5. \A x \in Variants : expected[o][x] \in Nat /\ expected[t][x] \in Nat
                            /\ e[t][x] = expected[t][x] + expected[o][x]
    BY <1>2, <1>5
  <2>6. \A x \in Variants : read[x] > 0 => read[x] = e[t][x]
    BY <2>2, <2>5
  <2>7. \A i \in ls : /\ item'[i].state = "live" /\ item'[i].cart = d
                      /\ item'[i].variant = item[i].variant
                      /\ item'[i].quantity = read[item[i].variant]
                      /\ read[item[i].variant] > 0 /\ item[i].variant \in Variants
    BY <1>1, <1>2, <1>3 DEF MergeWrites, VisitFits, Item
  <2>8. \A x \in X : /\ item'[row[x]].state = "live" /\ item'[row[x]].cart = d
                     /\ item'[row[x]].variant = x /\ item'[row[x]].quantity = read[x]
                     /\ read[x] > 0 /\ x \in Variants /\ row[x] \in ItemRows
                     /\ item[row[x]].state = "unused"
    BY <1>1, <1>3 DEF MergeWrites, MergedVariants
  <2>9. ASSUME NEW i \in ItemRows \ ls, \A x \in X : row[x] # i
        PROVE  /\ item'[i].cart = item[i].cart /\ item'[i].variant = item[i].variant
               /\ item'[i].quantity = item[i].quantity
               /\ item'[i].state = IF item[i].state = "live" /\ item[i].cart = c
                                   THEN "deleted" ELSE item[i].state
    BY <1>1, <2>9 DEF MergeWrites
  <2>10. cart'[d] = t
    BY <1>3, <2>2, <2>4
  <2>11. ASSUME NEW i \in ItemRows, item'[i].state = "live"
         PROVE  item'[i].quantity = e[cart'[item'[i].cart]][item'[i].variant]
    <3>1. CASE i \in ls
      BY <2>6, <2>7, <2>10, <3>1
    <3>2. CASE \E x \in X : row[x] = i
      BY <2>6, <2>8, <2>10, <3>2
    <3>3. CASE i \notin ls /\ \A x \in X : row[x] # i
      <4> PICK s, x : s = item[i].cart /\ x = item[i].variant
        OBVIOUS
      <4>1. /\ item[i].state = "live" /\ s # c /\ item'[i].cart = s /\ item'[i].variant = x
            /\ item'[i].quantity = item[i].quantity
        BY <2>9, <2>11, <3>3
      <4>2. s \in CartRows /\ cart[s] \in Owners /\ x \in Variants
            /\ item[i].quantity = expected[cart[s]][x]
        BY <1>2, <2>1, <4>1 DEF LinesFit, Item, ExactLines
      <4>3. cart'[s] = cart[s] /\ cart[s] # o
        BY <2>3, <2>4, <4>1, <4>2
      <4>4. CASE s = d
        <5>1. ~(expected[o][x] > 0)
          BY <2>2, <3>3, <4>1, <4>4
        <5>2. expected[t][x] = e[t][x]
          BY <2>5, <4>2, <5>1
        <5> QED
          BY <2>2, <4>1, <4>2, <4>3, <4>4, <5>2
      <4>5. CASE s # d
        <5>1. cart[s] \in Owners \ {o, t}
          BY <2>3, <4>2, <4>3, <4>5
        <5>2. e[cart[s]][x] = expected[cart[s]][x]
          BY <1>5, <4>2, <5>1
        <5> QED
          BY <4>1, <4>2, <4>3, <5>2
      <4> QED
        BY <4>4, <4>5
    <3> QED
      BY <3>1, <3>2, <3>3
  \* A live line of another cart than the session's is still there.
  <2>12. ASSUME NEW i \in ItemRows, item[i].state = "live", item[i].cart # c
         PROVE  item'[i].state = "live" /\ cart'[item'[i].cart] = cart[item[i].cart]
                /\ item'[i].variant = item[i].variant
    <3>1. item[i].cart \in CartRows
      BY <1>2, <2>12 DEF LinesFit
    <3>2. CASE i \in ls
      BY <1>3, <2>2, <2>7, <2>10, <3>2
    <3>3. CASE i \notin ls
      <4>1. \A x \in X : row[x] # i
        BY <2>8, <2>12
      <4> QED
        BY <2>4, <2>9, <2>12, <3>1, <3>3, <4>1
    <3> QED
      BY <3>2, <3>3
  <2>13. ASSUME NEW p \in Owners, NEW x \in Variants, e[p][x] # 0
         PROVE  \E i \in ItemRows : item'[i].state = "live" /\ cart'[item'[i].cart] = p
                                    /\ item'[i].variant = x
    <3>1. p # o
      BY <1>5, <2>13
    <3>2. CASE expected[p][x] # 0
      <4>1. PICK i \in ItemRows :
              item[i].state = "live" /\ cart[item[i].cart] = p /\ item[i].variant = x
        BY <2>1, <3>2 DEF ExactLines
      <4>2. item[i].cart # c
        BY <2>2, <3>1, <4>1
      <4> QED
        BY <2>12, <4>1, <4>2
    <3>3. CASE expected[p][x] = 0
      <4>1. p = t
        BY <1>5, <2>13, <3>1, <3>3
      <4>2. expected[o][x] > 0
        <5>1. expected[o][x] # 0
          BY <2>5, <2>13, <3>3, <4>1
        <5> QED
          BY <2>5, <5>1
      <4>3. read[x] > 0
        BY <2>2, <2>5, <4>2
      <4>4. CASE x \in FoundVariants(v)
        <5>1. PICK i \in ls : item[i].variant = x
          BY <4>4 DEF FoundVariants
        <5> QED
          BY <1>3, <2>7, <2>10, <4>1, <5>1
      <4>5. CASE x \notin FoundVariants(v)
        <5>1. x \in X
          BY <1>3, <4>3, <4>5 DEF MergedVariants
        <5> QED
          BY <2>8, <2>10, <4>1, <5>1
      <4> QED
        BY <4>4, <4>5
    <3> QED
      BY <3>2, <3>3
  <2> QED
    BY <2>11, <2>13 DEF ExactLines
<1>8. ~overlap => ExactLines(cart', item', expected')
  BY <1>6, <1>7
<1> QED
  BY <1>6, <1>8, ExactLeaves

LEMMA ExactStart == CartInit => CartExact
<1> SUFFICES ASSUME CartInit PROVE CartExact
  OBVIOUS
<1>1. \A v \in Visits : visit[v].pc = "idle" /\ VisitExact(visit[v], cart, item, expected)
  BY AwayIdle DEF CartInit
<1>2. ExactLines(cart, item, expected)
  BY DEF CartInit, ExactLines, NoUnits
<1> QED
  BY <1>1, <1>2 DEF CartExact

LEMMA ExactSteady == CartSound /\ CartExact /\ [CartNext]_cartVars => CartExact'
<1> SUFFICES ASSUME CartSound, CartExact, [CartNext]_cartVars PROVE CartExact'
  OBVIOUS
<1>1. CASE UNCHANGED cartVars
  BY <1>1 DEF cartVars, CartExact
<1>2. CASE CartNext
  <2> PICK v \in Visits :
        \/ \E op \in {"add", "set", "remove", "merge", "clear", "get"}, o \in Owners,
              c \in Customers \cup {Nothing}, x \in Variants, q \in 0..MaxQuantity,
              i \in ItemRows \cup {Nothing} : Begin(v, op, o, c, x, q, i)
        \/ FindCart(v) \/ CreateCart(v) \/ ReadLine(v) \/ AddLine(v)
        \/ ReadItem(v) \/ SetLine(v) \/ RemoveLine(v)
        \/ MergeRead(v) \/ DiscardCart(v) \/ MergeLookup(v) \/ AdoptCart(v)
        \/ MergeLines(v) \/ ClearCheckoutCart(v) \/ FailVisit(v)
    BY <1>2 DEF CartNext
  <2> QED
    BY BeginExact, QuietExact, CreateExact, ReadLineExact, LineWritesExact,
       MergeReadExact, MergeLookupExact, CartWritesExact, MergeLinesExact
<1> QED
  BY <1>1, <1>2

\* What an owner holds is what the one cart of that owner holds.
LEMMA ExactHolds == CartSound /\ CartExact => ExactUnlessOverlap
<1> SUFFICES ASSUME CartSound, CartExact, ~overlap, NEW o \in Owners, NEW x \in Variants
             PROVE  Holds(o, x) = expected[o][x]
  BY DEF ExactUnlessOverlap
<1>1. ExactLines(cart, item, expected) /\ OneCartEach(cart) /\ LinesFit(cart, item)
      /\ expected[o][x] \in Nat
  BY DEF CartExact, CartSound, CartTypeOK
<1> DEFINE F == [r \in CartRows |-> InCart(r, x)]
<1>2. Holds(o, x) = SumFunctionOnSet(F, CartsOf(o))
  BY DEF Holds, InCarts
<1>3. CASE CartsOf(o) = {}
  <2>1. expected[o][x] = 0
    BY <1>1, <1>3 DEF CartsOf, LinesFit, ExactLines
  <2>2. SumFunctionOnSet(F, {}) = 0
    BY SumEmpty
  <2> QED
    BY <1>2, <1>3, <2>1, <2>2
<1>4. CASE CartsOf(o) # {}
  <2>1. PICK r \in CartsOf(o) : TRUE
    BY <1>4
  <2>2. r \in CartRows /\ cart[r] = o /\ CartsOf(o) = {r}
    BY <1>1, <2>1 DEF CartsOf, OneCartEach
  <2>3. InCart(r, x) = expected[o][x]
    BY <1>1, <2>2, InCartExact
  <2>4. F[r] = expected[o][x] /\ F[r] \in Int
    BY <1>1, <2>2, <2>3
  <2> HIDE DEF F
  <2>5. SumFunctionOnSet(F, {r}) = F[r]
    BY <2>4, SumSingle
  <2> QED
    BY <1>2, <2>2, <2>4, <2>5
<1> QED
  BY <1>3, <1>4

\* As long as requests come one at a time, every cart holds just what its
\* owner put there, through failures, merges at login and checkouts.
THEOREM CartsExactUnlessOverlap == CartSpec => []ExactUnlessOverlap
  BY CartStart, CartSteady, ExactStart, ExactSteady, ExactHolds, PTL DEF CartSpec
=============================================================================
