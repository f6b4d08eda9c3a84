-------------------------- MODULE BackofficeProofs ---------------------------
(***************************************************************************)
(* Theorems about the back office: the stock of a product and of its       *)
(* variants adds up, accounts and clients agree with each other, a         *)
(* product's links and variants fit its category, and every mail is sent   *)
(* as often as its log row says; and, at the end, the types of all parts   *)
(* of the back office side by side.  For any numbers of requests,          *)
(* variants, sales, people and mails.                                      *)
(***************************************************************************)
EXTENDS MCBackoffice, PagesProofs, PlansProofs, Sums, SequenceTheorems

-----------------------------------------------------------------------------
(* The stock of a product.                                                 *)

\* What there is before the product is, what a live sale took, and what a
\* staff request has read.
NothingBefore ==
    ~product.created =>
        /\ product.stock = 0
        /\ \A v \in VariantRows : variant[v].state = "unused"
        /\ \A s \in SaleRows : sale[s].state = "unused"
        /\ \A o \in OrderRows : order[o].state = "unused"
        /\ \A c \in Clerks : task[c].pc = "idle"
MainLives == product.created => variant[MainVariant].state = "live"
SalesSound ==
    \A s \in SaleRows : sale[s].state = "live" =>
        /\ sale[s].took # NoVariant => variant[sale[s].took].state # "unused"
        /\ ~history.strayed => \/ sale[s].took = NoVariant /\ sale[s].variant = MainVariant
                               \/ sale[s].took # NoVariant /\ sale[s].variant = sale[s].took
TasksSound ==
    \A c \in Clerks :
        /\ task[c].pc = "sell" => task[c].variant \in VariantRows /\ task[c].units \in Counts
        /\ task[c].pc = "unsell" =>
               /\ task[c].sale \in SaleRows
               /\ sale[task[c].sale].state # "unused"
               /\ task[c].units = sale[task[c].sale].units
               /\ ~history.strayed /\ sale[task[c].sale].state = "live"
                      => task[c].variant = sale[task[c].sale].variant
        /\ task[c].pc = "drop" => task[c].variant \in VariantRows \ {MainVariant}
        /\ task[c].pc = "editProduct" => history.reshaped

InventoryRows == InventoryTypeOK /\ NothingBefore /\ MainLives /\ SalesSound /\ TasksSound

\* A staff request begins or ends and nothing else changes.
LEMMA TaskMoves ==
    ASSUME InventoryRows, NEW c \in Clerks, NEW t \in Task,
           task' = [task EXCEPT ![c] = t], tasks' \in 0..MaxTasks,
           UNCHANGED <<product, variant, sale, order, received, history>>,
           product.created \/ t.pc = "idle",
           t.pc = "sell" => t.variant \in VariantRows /\ t.units \in Counts,
           t.pc = "unsell" => /\ t.sale \in SaleRows
                              /\ sale[t.sale].state = "live"
                              /\ t.units = sale[t.sale].units
                              /\ t.variant = sale[t.sale].variant,
           t.pc = "drop" => t.variant \in VariantRows \ {MainVariant},
           t.pc # "editProduct"
    PROVE  InventoryRows'
<1>1. \A d \in Clerks : task'[d] = IF d = c THEN t ELSE task[d]
  BY DEF InventoryRows, InventoryTypeOK
<1>2. InventoryTypeOK'
  BY DEF InventoryRows, InventoryTypeOK
<1>3. NothingBefore' /\ MainLives' /\ SalesSound'
  BY <1>1 DEF InventoryRows, NothingBefore, MainLives, SalesSound
<1>4. TasksSound'
  BY <1>1 DEF InventoryRows, TasksSound
<1> QED
  BY <1>2, <1>3, <1>4 DEF InventoryRows

LEMMA TaskStarts ==
    ASSUME InventoryRows, NEW c \in Clerks, NEW t \in Task, StartTask(c, t),
           t.pc = "sell" => t.variant \in VariantRows /\ t.units \in Counts,
           t.pc = "unsell" => /\ t.sale \in SaleRows
                              /\ sale[t.sale].state = "live"
                              /\ t.units = sale[t.sale].units
                              /\ t.variant = sale[t.sale].variant,
           t.pc = "drop" => t.variant \in VariantRows \ {MainVariant},
           t.pc # "editProduct"
    PROVE  InventoryRows'
<1>1. tasks' \in 0..MaxTasks
  BY InventoryAssumption DEF StartTask, InventoryRows, InventoryTypeOK
<1> QED
  BY <1>1, TaskMoves DEF StartTask

LEMMA NoTaskTyped == NoTask \in Task /\ NoTask.pc = "idle"
  BY DEF NoTask, Task

LEMMA TaskEnds ==
    ASSUME InventoryRows, NEW c \in Clerks, FinishTask(c),
           UNCHANGED <<product, variant, sale, order, tasks, received, history>>
    PROVE  InventoryRows'
<1>1. tasks' \in 0..MaxTasks
  BY DEF InventoryRows, InventoryTypeOK
<1> QED
  BY <1>1, NoTaskTyped, TaskMoves DEF FinishTask

LEMMA RequestSteps ==
    ASSUME InventoryRows, NEW c \in Clerks
    PROVE  /\ \A v \in VariantRows, units \in Counts : ValidateSale(c, v, units) => InventoryRows'
           /\ \A s \in SaleRows : ReadSale(c, s) => InventoryRows'
           /\ \A n \in Counts : CheckAdjustment(c, n) \/ CheckAdjustment(c, -n) => InventoryRows'
           /\ \A v \in VariantRows : CheckVariantUnsold(c, v) => InventoryRows'
           /\ RollBackSale(c) \/ RollBackDelete(c) \/ EditAbandoned(c) \/ DropFails(c)
              => InventoryRows'
<1>0. Counts \subseteq Int /\ 0 \in Int /\ \A n \in Counts : -n \in Int
  BY InventoryAssumption
<1>1. ASSUME NEW v \in VariantRows, NEW units \in Counts, ValidateSale(c, v, units)
      PROVE  InventoryRows'
  <2> DEFINE t == [pc |-> "sell", variant |-> v, sale |-> NoSale, units |-> units]
  <2>1. /\ t \in Task /\ StartTask(c, t)
        /\ t.pc = "sell" /\ t.variant \in VariantRows /\ t.units \in Counts
    BY <1>0, <1>1 DEF ValidateSale, Task
  <2> HIDE DEF t
  <2> QED
    BY <2>1, TaskStarts
<1>2. ASSUME NEW s \in SaleRows, ReadSale(c, s)
      PROVE  InventoryRows'
  <2> DEFINE t == [pc |-> "unsell", variant |-> sale[s].variant, sale |-> s,
                   units |-> sale[s].units]
  <2>1. sale[s] \in Sale
    BY DEF InventoryRows, InventoryTypeOK
  <2>2. /\ t \in Task /\ StartTask(c, t) /\ sale[s].state = "live"
        /\ t.pc = "unsell" /\ t.variant = sale[s].variant /\ t.sale = s
        /\ t.units = sale[s].units
    BY <1>0, <1>2, <2>1 DEF ReadSale, Task, Sale
  <2> HIDE DEF t
  <2> QED
    BY <2>2, TaskStarts
<1>3. ASSUME NEW n \in Int, CheckAdjustment(c, n)
      PROVE  InventoryRows'
  <2> DEFINE t == [pc |-> "adjust", variant |-> MainVariant, sale |-> NoSale, units |-> n]
  <2>1. t \in Task /\ StartTask(c, t) /\ t.pc = "adjust"
    BY <1>3, InventoryAssumption DEF CheckAdjustment, Task
  <2> HIDE DEF t
  <2> QED
    BY <2>1, TaskStarts
<1>4. ASSUME NEW v \in VariantRows, CheckVariantUnsold(c, v)
      PROVE  InventoryRows'
  <2> DEFINE t == [pc |-> "drop", variant |-> v, sale |-> NoSale, units |-> 0]
  <2>1. /\ t \in Task /\ StartTask(c, t) /\ t.pc = "drop"
        /\ t.variant \in VariantRows \ {MainVariant}
    BY <1>4 DEF CheckVariantUnsold, Task, LiveVariants
  <2> HIDE DEF t
  <2> QED
    BY <2>1, TaskStarts
<1>5. ASSUME RollBackSale(c) \/ RollBackDelete(c) \/ EditAbandoned(c) \/ DropFails(c)
      PROVE  InventoryRows'
  BY <1>5, TaskEnds DEF RollBackSale, RollBackDelete, EditAbandoned, DropFails
<1> QED
  BY <1>0, <1>1, <1>2, <1>3, <1>4, <1>5

LEMMA CountsTyped ==
    /\ MainVariant \in VariantRows /\ NoVariant \notin VariantRows /\ NoSale \notin SaleRows
    /\ \A n \in Counts : n \in Int /\ n > 0
    /\ \A n \in Counts \cup {0} : n \in Int /\ n >= 0
  BY InventoryAssumption

\* A product comes into being.
LEMMA CreationSteps ==
    ASSUME InventoryRows
    PROVE  /\ \A n \in Counts : CreateProduct(n) => InventoryRows'
           /\ \A s \in SaleRows, n, units \in Counts :
                  SellNewProduct(s, n, units) => InventoryRows'
           /\ \A v \in VariantRows, n, m \in Counts :
                  QuickCreateWithVariants(v, n, m) => InventoryRows'
<1>0. /\ MainVariant \in VariantRows /\ NoVariant \notin VariantRows
      /\ \A n \in Counts : n \in Int /\ n > 0
  BY CountsTyped
<1>1. InventoryTypeOK /\ NothingBefore /\ MainLives /\ SalesSound /\ TasksSound
  BY DEF InventoryRows
<1>2. ASSUME NEW n \in Counts, CreateProduct(n)
      PROVE  InventoryRows'
  <2>6. product' \in Product /\ variant' \in [VariantRows -> Variant]
    <3>1. product' \in Product
      BY <1>0, <1>1, <1>2 DEF CreateProduct, InventoryTypeOK, Product
    <3>2. variant' \in [VariantRows -> Variant]
      BY <1>0, <1>1, <1>2 DEF CreateProduct, InventoryTypeOK, Variant
    <3> QED
      BY <3>1, <3>2
  <2>7. received' \in [product : Int, variant : [VariantRows -> Int]]
    BY <1>0, <1>1, <1>2 DEF CreateProduct, InventoryTypeOK
  <2>1. InventoryTypeOK'
    BY <1>1, <1>2, <2>6, <2>7 DEF CreateProduct, InventoryTypeOK
  <2>2. product'.created /\ variant'[MainVariant].state = "live"
    BY <1>0, <1>1, <1>2 DEF CreateProduct, InventoryTypeOK, Product
  <2>3. NothingBefore' /\ MainLives'
    BY <2>2 DEF NothingBefore, MainLives
  <2>4. \A s \in SaleRows : sale'[s].state = "unused"
    BY <1>1, <1>2 DEF CreateProduct, NothingBefore
  <2>5. \A c \in Clerks : task'[c].pc = "idle"
    BY <1>1, <1>2 DEF CreateProduct, NothingBefore
  <2> QED
    BY <2>1, <2>3, <2>4, <2>5 DEF InventoryRows, SalesSound, TasksSound
<1>3. ASSUME NEW s \in SaleRows, NEW n \in Counts, NEW units \in Counts,
             SellNewProduct(s, n, units)
      PROVE  InventoryRows'
  <2>8. product' \in Product /\ variant' \in [VariantRows -> Variant]
    <3>1. product' \in Product
      <4> PICK k : k = n - units
        OBVIOUS
      <4>1. k \in Int
        BY <1>0
      <4>2. product' = [product EXCEPT !.created = TRUE, !.stock = k]
        BY <1>3 DEF SellNewProduct
      <4> QED
        BY <4>1, <4>2, <1>1 DEF InventoryTypeOK, Product
    <3>2. variant' \in [VariantRows -> Variant]
      BY <1>0, <1>1, <1>3 DEF SellNewProduct, InventoryTypeOK, Variant, NewProductAccepted
    <3> QED
      BY <3>1, <3>2
  <2>9. received' \in [product : Int, variant : [VariantRows -> Int]]
    BY <1>0, <1>1, <1>3 DEF SellNewProduct, InventoryTypeOK
  <2>10. sale' \in [SaleRows -> Sale]
    BY <1>0, <1>1, <1>3 DEF SellNewProduct, InventoryTypeOK, Sale
  <2>1. InventoryTypeOK'
    BY <1>1, <1>3, <2>8, <2>9, <2>10 DEF SellNewProduct, InventoryTypeOK
  <2>2. product'.created /\ variant'[MainVariant].state = "live"
    BY <1>0, <1>1, <1>3 DEF SellNewProduct, InventoryTypeOK, Product
  <2>3. NothingBefore' /\ MainLives'
    BY <2>2 DEF NothingBefore, MainLives
  <2>4. \A r \in SaleRows \ {s} : sale'[r].state = "unused"
    BY <1>1, <1>3 DEF SellNewProduct, NothingBefore, InventoryTypeOK
  <2>5. sale'[s].took = MainVariant /\ sale'[s].variant = MainVariant
    BY <1>1, <1>3 DEF SellNewProduct, InventoryTypeOK
  <2>6. \A c \in Clerks : task'[c].pc = "idle"
    BY <1>1, <1>3 DEF SellNewProduct, NothingBefore
  <2>7. SalesSound'
    BY <1>0, <2>2, <2>4, <2>5 DEF SalesSound
  <2> QED
    BY <2>1, <2>3, <2>7, <2>6 DEF InventoryRows, TasksSound
<1>4. ASSUME NEW v \in VariantRows, NEW n \in Counts, NEW m \in Counts,
             QuickCreateWithVariants(v, n, m)
      PROVE  InventoryRows'
  <2>6. product' \in Product /\ variant' \in [VariantRows -> Variant]
    <3>1. product' \in Product
      <4> PICK k : k = n + m
        OBVIOUS
      <4>1. k \in Int
        BY <1>0
      <4>2. product' = [product EXCEPT !.created = TRUE, !.stock = k]
        BY <1>4 DEF QuickCreateWithVariants
      <4> QED
        BY <4>1, <4>2, <1>1 DEF InventoryTypeOK, Product
    <3>2. variant' \in [VariantRows -> Variant]
      BY <1>0, <1>1, <1>4 DEF QuickCreateWithVariants, InventoryTypeOK, Variant
    <3> QED
      BY <3>1, <3>2
  <2>7. received' \in [product : Int, variant : [VariantRows -> Int]]
    BY <1>0, <1>1, <1>4 DEF QuickCreateWithVariants, InventoryTypeOK
  <2>1. InventoryTypeOK'
    BY <1>1, <1>4, <2>6, <2>7 DEF QuickCreateWithVariants, InventoryTypeOK
  <2>2. product'.created /\ variant'[MainVariant].state = "live"
    BY <1>0, <1>1, <1>4 DEF QuickCreateWithVariants, InventoryTypeOK, Product
  <2>3. NothingBefore' /\ MainLives'
    BY <2>2 DEF NothingBefore, MainLives
  <2>4. \A s \in SaleRows : sale'[s].state = "unused"
    BY <1>1, <1>4 DEF QuickCreateWithVariants, NothingBefore
  <2>5. \A c \in Clerks : task'[c].pc = "idle"
    BY <1>1, <1>4 DEF QuickCreateWithVariants, NothingBefore
  <2> QED
    BY <2>1, <2>3, <2>4, <2>5 DEF InventoryRows, SalesSound, TasksSound
<1> QED
  BY <1>2, <1>3, <1>4

\* Counters move; the rows stay what they are.
LEMMA CountersMove ==
    ASSUME InventoryRows, InventoryTypeOK',
           product'.created = product.created, product.created \/ product'.stock = 0,
           \A v \in VariantRows : variant'[v].state = variant[v].state,
           UNCHANGED sale,
           \A o \in OrderRows : order'[o].state # order[o].state => product.created,
           \A c \in Clerks : task'[c] = task[c] \/ task'[c].pc = "idle"
                                \/ (task'[c].pc = "editProduct" /\ history'.reshaped
                                       /\ product.created),
           history.reshaped => history'.reshaped, history'.strayed = history.strayed
    PROVE  InventoryRows'
<1>1. NothingBefore' /\ MainLives' /\ SalesSound'
  BY SMTT(30), InventoryAssumption DEF InventoryRows, NothingBefore, MainLives, SalesSound, InventoryTypeOK, Sale
<1>2. TasksSound'
  BY DEF InventoryRows, TasksSound
<1> QED
  BY <1>1, <1>2 DEF InventoryRows

LEMMA MovesTyped ==
    ASSUME InventoryTypeOK, NEW v \in VariantRows, NEW n \in Int, MoveBoth(v, n)
    PROVE  /\ product' \in Product /\ variant' \in [VariantRows -> Variant]
           /\ product'.created = product.created
           /\ product'.stock = product.stock + n
           /\ \A u \in VariantRows :
                /\ variant'[u].state = variant[u].state
                /\ variant'[u].stock = IF u = v THEN variant[u].stock + n ELSE variant[u].stock
  BY DEF InventoryTypeOK, MoveBoth, Product, Variant

LEMMA FinishTyped ==
    ASSUME InventoryTypeOK, NEW c \in Clerks, FinishTask(c)
    PROVE  /\ task' \in [Clerks -> Task]
           /\ \A d \in Clerks : task'[d] = IF d = c THEN NoTask ELSE task[d]
  BY NoTaskTyped DEF InventoryTypeOK, FinishTask

LEMMA CounterSteps ==
    ASSUME InventoryRows
    PROVE  /\ \A active \in BOOLEAN : SetActive(active) => InventoryRows'
           /\ \A c \in Clerks : CommitAdjustment(c) \/ UpdateProductStock(c) => InventoryRows'
           /\ \A c \in Clerks, v \in VariantRows, n \in Counts :
                  UpdateVariant(c, v, n) => InventoryRows'
           /\ \A v \in VariantRows, n \in Counts :
                  UpdateVariantWithAttributes(v, n) => InventoryRows'
<1>0. Counts \subseteq Nat \ {0} /\ MainVariant \in VariantRows /\ NoVariant \notin VariantRows
      /\ MaxTasks \in Nat /\ NoSale \notin SaleRows
  BY InventoryAssumption
<1>1. InventoryTypeOK /\ NothingBefore /\ MainLives /\ SalesSound /\ TasksSound
  BY DEF InventoryRows
<1>2. ASSUME NEW active \in BOOLEAN, SetActive(active) PROVE InventoryRows'
  <2>1. product' \in Product /\ product'.created = product.created /\ product.created
    BY <1>1, <1>2 DEF SetActive, InventoryTypeOK, Product
  <2>2. tasks' \in 0..MaxTasks
    BY <1>0, <1>1, <1>2 DEF SetActive, InventoryTypeOK
  <2>3. InventoryTypeOK'
    BY <1>1, <1>2, <2>1, <2>2 DEF SetActive, InventoryTypeOK
  <2> QED
    BY <1>2, <2>1, <2>3, CountersMove DEF SetActive
<1>3. ASSUME NEW c \in Clerks, CommitAdjustment(c) PROVE InventoryRows'
  <2> PICK n : n = task[c].units
    OBVIOUS
  <2>1. n \in Int
    BY <1>1 DEF InventoryTypeOK, Task
  <2>2. /\ MoveBoth(MainVariant, n) /\ FinishTask(c) /\ task[c].pc = "adjust"
        /\ UNCHANGED <<sale, order, tasks>>
    BY <1>3 DEF CommitAdjustment
  <2>3. received' \in [product : Int, variant : [VariantRows -> Int]]
    <3>1. received.product \in Int /\ received.variant \in [VariantRows -> Int]
      BY <1>1 DEF InventoryTypeOK
    <3>2. received' = [product |-> received.product + n,
              variant |-> [received.variant EXCEPT ![MainVariant] = @ + n]]
      BY <1>3 DEF CommitAdjustment
    <3> QED
      BY <3>1, <3>2, <2>1, <1>0
  <2>4. history' \in History /\ history'.strayed = history.strayed
        /\ history'.reshaped = history.reshaped
    BY <1>1, <1>3, <2>1 DEF CommitAdjustment, InventoryTypeOK, History
  <2>5. InventoryTypeOK'
    BY <1>0, <1>1, <2>1, <2>2, <2>3, <2>4, MovesTyped, FinishTyped DEF InventoryTypeOK
  <2>6. product.created
    BY <1>1, <2>2 DEF NothingBefore
  <2>7. product'.created = product.created
        /\ \A v \in VariantRows : variant'[v].state = variant[v].state
    BY <1>0, <1>1, <2>1, <2>2, MovesTyped
  <2>8. \A d \in Clerks : task'[d] = task[d] \/ task'[d].pc = "idle"
    BY <1>1, <2>2, FinishTyped, NoTaskTyped
  <2> QED
    BY <2>2, <2>4, <2>5, <2>6, <2>7, <2>8, CountersMove
<1>10. ASSUME NEW V PROVE SoldFrom(V) \in Int
  <2>1. \A s \in SaleRows : [r \in SaleRows |-> sale[r].units][s] \in Int
    <3>1. \A s \in SaleRows : sale[s].units \in Counts \cup {0}
      BY <1>1 DEF InventoryTypeOK, Sale
    <3>2. \A s \in SaleRows : sale[s].units \in Int
      BY <3>1, CountsTyped
    <3> QED
      BY <3>2
  <2>2. IsFiniteSet({s \in SaleRows : sale[s].state = "live" /\ sale[s].took \in V})
    BY InventoryAssumption, FS_Subset
  <2> QED
    BY <2>1, <2>2, SumInt DEF SoldFrom
<1>11. Reserved \in Int
  <2>1. \A o \in OrderRows : [r \in OrderRows |-> order[r].units][o] \in Int
    <3>1. \A o \in OrderRows : order[o].units \in Counts \cup {0}
      BY <1>1 DEF InventoryTypeOK, Order
    <3>2. \A o \in OrderRows : order[o].units \in Int
      BY <3>1, CountsTyped
    <3> QED
      BY <3>2
  <2>2. IsFiniteSet({o \in OrderRows : Holds(order[o])})
    BY InventoryAssumption, FS_Subset
  <2> QED
    BY <2>1, <2>2, SumInt DEF Reserved
<1>12. OutOfProduct \in Int /\ \A v : Out(v) \in Int
  BY <1>10, <1>11 DEF OutOfProduct, Out
<1>4. ASSUME NEW c \in Clerks, UpdateProductStock(c) PROVE InventoryRows'
  <2>1. task[c].pc = "editProduct" /\ task[c].units \in Int /\ FinishTask(c)
        /\ UNCHANGED <<variant, sale, order, tasks, history>>
    BY <1>1, <1>4 DEF InventoryTypeOK, Task, UpdateProductStock
  <2>2. product' \in Product /\ product'.created = product.created /\ product.created
    BY <1>1, <1>4, <2>1 DEF InventoryTypeOK, Product, UpdateProductStock, NothingBefore
  <2>3. received' \in [product : Int, variant : [VariantRows -> Int]]
    BY <1>1, <1>4, <2>1, <1>12 DEF UpdateProductStock, InventoryTypeOK
  <2>4. InventoryTypeOK'
    BY <1>1, <2>1, <2>2, <2>3, FinishTyped DEF InventoryTypeOK
  <2> QED
    BY <1>1, <2>1, <2>2, <2>4, FinishTyped, NoTaskTyped, CountersMove
<1>5. ASSUME NEW c \in Clerks, NEW v \in VariantRows, NEW n \in Counts, UpdateVariant(c, v, n)
      PROVE  InventoryRows'
  <2>1. task[c].pc = "idle" /\ variant[v].state = "live" /\ product.created /\ n \in Int
        /\ UNCHANGED <<product, sale, order>> /\ tasks' \in 0..MaxTasks
    BY <1>0, <1>1, <1>5 DEF UpdateVariant, LiveVariants, NothingBefore, InventoryTypeOK
  <2>2. variant' \in [VariantRows -> Variant]
        /\ \A u \in VariantRows : variant'[u].state = variant[u].state
    BY <1>1, <1>5, <2>1 DEF UpdateVariant, InventoryTypeOK, Variant
  <2>3. received' \in [product : Int, variant : [VariantRows -> Int]]
    <3> PICK w : w = n + Out(v)
      OBVIOUS
    <3>1. w \in Int /\ received' = [received EXCEPT !.variant[v] = w]
      BY <1>5, <1>12, <2>1 DEF UpdateVariant
    <3> QED
      BY <3>1, <1>1 DEF InventoryTypeOK
  <2>4. history' \in History /\ history'.reshaped /\ history'.strayed = history.strayed
    BY <1>1, <1>5 DEF UpdateVariant, InventoryTypeOK, History
  <2>5. task' \in [Clerks -> Task] /\ \A d \in Clerks : task'[d] = task[d]
                                         \/ task'[d].pc = "editProduct"
    <3> DEFINE t == [pc |-> "editProduct", variant |-> v, sale |-> NoSale, units |-> n]
    <3>1. t \in Task /\ t.pc = "editProduct"
      BY <2>1 DEF Task
    <3>2. task' = task \/ task' = [task EXCEPT ![c] = t]
      BY <1>5 DEF UpdateVariant
    <3> HIDE DEF t
    <3> QED
      BY <3>1, <3>2, <1>1 DEF InventoryTypeOK
  <2>6. InventoryTypeOK'
    BY <1>1, <2>1, <2>2, <2>3, <2>4, <2>5 DEF InventoryTypeOK
  <2> QED
    BY <1>1, <2>1, <2>2, <2>4, <2>5, <2>6, CountersMove
<1>6. ASSUME NEW v \in VariantRows, NEW n \in Counts, UpdateVariantWithAttributes(v, n)
      PROVE  InventoryRows'
  <2>1. variant[v].state = "live" /\ product.created /\ n \in Int
        /\ UNCHANGED <<sale, order, task>> /\ tasks' \in 0..MaxTasks
    BY <1>0, <1>1, <1>6 DEF UpdateVariantWithAttributes, LiveVariants, NothingBefore, InventoryTypeOK
  <2>2. variant' \in [VariantRows -> Variant]
        /\ \A u \in VariantRows : variant'[u].state = variant[u].state
    BY <1>1, <1>6, <2>1 DEF UpdateVariantWithAttributes, InventoryTypeOK, Variant
  <2> PICK w, p : w = n + Out(v) /\ p = n + OutOfProduct
    OBVIOUS
  <2>7. w \in Int /\ p \in Int
    BY <1>12, <2>1
  <2>8. /\ received' = [product |-> p, variant |-> [received.variant EXCEPT ![v] = w]]
           \/ received' = [received EXCEPT !.variant[v] = w]
        /\ UNCHANGED product \/ product' = [product EXCEPT !.stock = n]
    BY <1>6 DEF UpdateVariantWithAttributes
  <2>3. received' \in [product : Int, variant : [VariantRows -> Int]]
    BY <2>7, <2>8, <1>1 DEF InventoryTypeOK
  <2>4. history' \in History /\ history'.reshaped /\ history'.strayed = history.strayed
    BY <1>1, <1>6 DEF UpdateVariantWithAttributes, InventoryTypeOK, History
  <2>5. product' \in Product /\ product'.created = product.created
    BY <1>1, <2>1, <2>8 DEF InventoryTypeOK, Product
  <2>6. InventoryTypeOK'
    BY <1>1, <2>1, <2>2, <2>3, <2>4, <2>5 DEF InventoryTypeOK
  <2> QED
    BY <1>1, <2>1, <2>2, <2>4, <2>5, <2>6, CountersMove
<1> QED
  BY <1>2, <1>3, <1>4, <1>5, <1>6

\* Sales come and go; what live ones took is a row, and what a request read
\* of a sale that is still live is still true unless a variant strayed.
LEMMA SaleSteps ==
    ASSUME InventoryRows, NEW c \in Clerks
    PROVE  /\ \A s \in SaleRows : CommitSale(c, s) => InventoryRows'
           /\ CommitDelete(c) => InventoryRows'
           /\ DropVariant(c) => InventoryRows'
<1>0. /\ MainVariant \in VariantRows /\ NoVariant \notin VariantRows
      /\ \A n \in Counts \cup {0} : n \in Int
  BY CountsTyped
<1>1. InventoryTypeOK /\ NothingBefore /\ MainLives /\ SalesSound /\ TasksSound
  BY DEF InventoryRows
<1>2. ASSUME NEW s \in SaleRows, CommitSale(c, s) PROVE InventoryRows'
  <2> PICK v, n : v = task[c].variant /\ n = task[c].units
    OBVIOUS
  <2>1. v \in VariantRows /\ n \in Counts /\ n \in Int /\ -n \in Int /\ product.created
        /\ task[c].pc = "sell"
    BY <1>0, <1>1, <1>2 DEF CommitSale, TasksSound, NothingBefore
  <2>2. /\ MoveBoth(v, -n) /\ FinishTask(c) /\ variant[v].state = "live"
        /\ sale[s].state = "unused"
        /\ sale' = [sale EXCEPT ![s] = [state |-> "live", variant |-> v, took |-> v,
                                        units |-> n]]
        /\ UNCHANGED <<order, tasks, received, history>>
    BY <1>2 DEF CommitSale, LiveVariants, FreshSales
  <2>3. sale' \in [SaleRows -> Sale]
    BY <1>1, <2>1, <2>2 DEF InventoryTypeOK, Sale
  <2>4. InventoryTypeOK'
    BY <1>1, <2>1, <2>2, <2>3, MovesTyped, FinishTyped DEF InventoryTypeOK
  <2>5. /\ product'.created /\ \A u \in VariantRows : variant'[u].state = variant[u].state
        /\ \A d \in Clerks : task'[d] = task[d] \/ task'[d].pc = "idle"
    BY <1>1, <2>1, <2>2, MovesTyped, FinishTyped, NoTaskTyped
  <2>6. /\ sale'[s].state = "live" /\ sale'[s].took = v /\ sale'[s].variant = v
        /\ \A r \in SaleRows \ {s} : sale'[r] = sale[r]
    BY <1>1, <2>2 DEF InventoryTypeOK
  <2>7. NothingBefore' /\ MainLives'
    BY <1>0, <1>1, <2>1, <2>5 DEF NothingBefore, MainLives
  <2>8. SalesSound'
    <3>1. \A r \in SaleRows : sale[r].took \in VariantRows \cup {NoVariant}
      BY <1>1 DEF InventoryTypeOK, Sale
    <3> QED
      BY <1>0, <1>1, <2>1, <2>2, <2>5, <2>6, <3>1 DEF SalesSound
  <2>9. TasksSound'
    BY <1>1, <2>2, <2>5, <2>6 DEF TasksSound
  <2> QED
    BY <2>4, <2>7, <2>8, <2>9 DEF InventoryRows
<1>3. ASSUME CommitDelete(c) PROVE InventoryRows'
  <2> PICK s, n, v : s = task[c].sale /\ n = task[c].units /\ v = ReturnTo(task[c].variant)
    OBVIOUS
  <2>1. /\ task[c].pc = "unsell" /\ s \in SaleRows /\ sale[s].state = "live"
        /\ n = sale[s].units /\ v \in VariantRows /\ product.created
    BY <1>1, <1>3 DEF CommitDelete, TasksSound, LiveVariants, NothingBefore
  <2>10. n \in Int
    BY <2>1, <1>0, <1>1 DEF InventoryTypeOK, Sale
  <2>2. /\ MoveBoth(v, n) /\ FinishTask(c) /\ variant[v].state = "live"
        /\ sale' = [sale EXCEPT ![s].state = "deleted"]
        /\ UNCHANGED <<order, tasks, received>>
    BY <1>3 DEF CommitDelete, LiveVariants
  <2>11. history' \in History /\ history'.strayed = history.strayed
         /\ history'.reshaped = history.reshaped
    BY <1>1, <1>3 DEF CommitDelete, InventoryTypeOK, History
  <2>3. sale' \in [SaleRows -> Sale]
    BY <1>1, <2>1, <2>2 DEF InventoryTypeOK, Sale
  <2>4. InventoryTypeOK'
    BY <1>1, <2>1, <2>2, <2>3, <2>10, <2>11, MovesTyped, FinishTyped DEF InventoryTypeOK
  <2>5. /\ product'.created /\ \A u \in VariantRows : variant'[u].state = variant[u].state
        /\ \A d \in Clerks : task'[d] = task[d] \/ task'[d].pc = "idle"
    BY <1>1, <2>1, <2>2, <2>10, MovesTyped, FinishTyped, NoTaskTyped
  <2>6. /\ sale'[s].state = "deleted" /\ sale'[s].units = sale[s].units
        /\ \A r \in SaleRows \ {s} : sale'[r] = sale[r]
    BY <1>1, <2>1, <2>2 DEF InventoryTypeOK, Sale
  <2>7. NothingBefore' /\ MainLives'
    BY <1>0, <1>1, <2>1, <2>5 DEF NothingBefore, MainLives
  <2>8. SalesSound'
    <3>1. \A r \in SaleRows : sale[r].took \in VariantRows \cup {NoVariant}
      BY <1>1 DEF InventoryTypeOK, Sale
    <3> QED
      BY <1>1, <2>5, <2>6, <2>11, <3>1 DEF SalesSound
  <2>9. TasksSound'
    BY <1>1, <2>5, <2>6, <2>11 DEF TasksSound
  <2> QED
    BY <2>4, <2>7, <2>8, <2>9 DEF InventoryRows
<1>4. ASSUME DropVariant(c) PROVE InventoryRows'
  <2> PICK v : v = task[c].variant
    OBVIOUS
  <2> DEFINE strays == {s \in SaleRows : sale[s].state = "live" /\ sale[s].variant = v}
  <2>1. /\ v \in VariantRows \ {MainVariant} /\ product.created /\ variant[v].state = "live"
        /\ variant' = [variant EXCEPT ![v].state = "deleted"]
        /\ FinishTask(c) /\ UNCHANGED <<product, order, tasks, received>>
    BY <1>1, <1>4 DEF DropVariant, TasksSound, LiveVariants, NothingBefore
  <2>2. sale' = [s \in SaleRows |-> IF s \in strays
                                    THEN [sale[s] EXCEPT !.variant = NoVariant] ELSE sale[s]]
    BY <1>4 DEF DropVariant
  <2>3. history' = [history EXCEPT !.reshaped = TRUE, !.strayed = @ \/ strays # {}]
    BY <1>4 DEF DropVariant
  <2>4. \A s \in SaleRows : /\ sale'[s] \in Sale
                            /\ sale'[s].state = sale[s].state /\ sale'[s].took = sale[s].took
                            /\ sale'[s].units = sale[s].units
                            /\ strays = {} => sale'[s] = sale[s]
    BY <1>1, <2>2 DEF InventoryTypeOK, Sale
  <2>5. /\ history' \in History /\ history'.reshaped
        /\ ~history'.strayed => ~history.strayed /\ strays = {}
    <3> HIDE DEF strays
    <3> QED
      BY <1>1, <2>3 DEF InventoryTypeOK, History
  <2>12. sale' \in [SaleRows -> Sale]
    BY <2>2, <2>4
  <2> HIDE DEF strays
  <2>6. /\ variant' \in [VariantRows -> Variant]
        /\ \A u \in VariantRows : variant'[u].state = IF u = v THEN "deleted" ELSE variant[u].state
    BY <1>1, <2>1 DEF InventoryTypeOK, Variant
  <2>7. InventoryTypeOK'
    BY <1>1, <2>1, <2>5, <2>6, <2>12, FinishTyped DEF InventoryTypeOK
  <2>8. \A d \in Clerks : task'[d] = task[d] \/ task'[d].pc = "idle"
    BY <1>1, <2>1, FinishTyped, NoTaskTyped
  <2>9. NothingBefore' /\ MainLives'
    BY <1>0, <1>1, <2>1, <2>6 DEF NothingBefore, MainLives
  <2>10. SalesSound'
    <3>1. \A r \in SaleRows : sale[r].took \in VariantRows \cup {NoVariant}
      BY <1>1 DEF InventoryTypeOK, Sale
    <3> QED
      BY <1>1, <2>4, <2>5, <2>6, <3>1 DEF SalesSound
  <2>11. TasksSound'
    BY <1>1, <2>4, <2>5, <2>8 DEF TasksSound
  <2> QED
    BY <2>7, <2>9, <2>10, <2>11 DEF InventoryRows
<1> QED
  BY <1>2, <1>3, <1>4

\* What becomes of the status of an order moves no counter.
LEMMA OrderRestated ==
    ASSUME InventoryRows, NEW o \in OrderRows,
           MarkPaid(o) \/ CancelByWebhook(o) \/ EndPending(o)
    PROVE  /\ UNCHANGED <<product, variant, sale, task, tasks, received, history>>
           /\ order' \in [OrderRows -> Order] /\ product.created
           /\ \A r \in OrderRows : /\ Holds(order'[r]) <=> Holds(order[r])
                                   /\ order'[r].units = order[r].units
                                   /\ order'[r].returned = order[r].returned
<1>1. order \in [OrderRows -> Order] /\ NothingBefore /\ MaxCancels \in Nat
  BY InventoryAssumption DEF InventoryRows, InventoryTypeOK
<1>2. order[o].state # "unused" /\ product.created
  BY <1>1 DEF MarkPaid, CancelByWebhook, EndPending, NothingBefore
<1>3. CASE MarkPaid(o)
  BY <1>1, <1>2, <1>3 DEF MarkPaid, Order, Holds
<1>4. CASE CancelByWebhook(o) \/ EndPending(o)
  BY <1>1, <1>2, <1>4 DEF CancelByWebhook, EndPending, Order, Holds
<1> QED
  BY <1>3, <1>4

\* Only an order that was placed has units to give back.
LEMMA HasReturns ==
    ASSUME InventoryTypeOK, NEW o \in OrderRows, order[o].returned < order[o].cancelled
    PROVE  order[o].state # "unused"
<1>1. order[o] \in Order
  BY DEF InventoryTypeOK
<1> QED
  BY <1>1 DEF Order

LEMMA OrderSteps ==
    ASSUME InventoryRows
    PROVE  /\ \A o \in OrderRows, units \in Counts : ReserveOrder(o, units) => InventoryRows'
           /\ \A o \in OrderRows :
                  MarkPaid(o) \/ CancelByWebhook(o) \/ EndPending(o) => InventoryRows'
           /\ \A o \in OrderRows : ReturnUnits(o) => InventoryRows'
           /\ \A o \in OrderRows, s \in SaleRows : SellOrder(o, s) => InventoryRows'
           /\ \A v \in VariantRows, n \in Counts : CreateVariant(v, n) => InventoryRows'
<1>0. /\ MainVariant \in VariantRows /\ NoVariant \notin VariantRows /\ MaxTasks \in Nat
      /\ MaxCancels \in Nat
      /\ \A n \in Counts \cup {0} : n \in Int /\ -n \in Int
      /\ \A n \in Counts : n \in Int /\ n > 0
  BY CountsTyped, InventoryAssumption
<1>1. InventoryTypeOK /\ NothingBefore /\ MainLives /\ SalesSound /\ TasksSound
  BY DEF InventoryRows
<1>2. ASSUME NEW o \in OrderRows, NEW units \in Counts, ReserveOrder(o, units)
      PROVE  InventoryRows'
  <2>1. /\ MoveBoth(MainVariant, -units) /\ product.stock >= units
        /\ order' = [order EXCEPT ![o] = [state |-> "pending", units |-> units,
                                          cancelled |-> 0, returned |-> 0]]
        /\ UNCHANGED <<sale, task, tasks, received, history>>
    BY <1>2 DEF ReserveOrder
  <2>2. order' \in [OrderRows -> Order]
    BY <1>0, <1>1, <2>1 DEF InventoryTypeOK, Order
  <2>3. InventoryTypeOK'
    BY <1>0, <1>1, <2>1, <2>2, MovesTyped DEF InventoryTypeOK
  <2>4. product.created
    BY <1>0, <1>1, <2>1 DEF NothingBefore
  <2>5. /\ product'.created = product.created
        /\ \A v \in VariantRows : variant'[v].state = variant[v].state
    BY <1>0, <1>1, <2>1, MovesTyped
  <2> QED
    BY <2>1, <2>3, <2>4, <2>5, CountersMove
<1>6. ASSUME NEW o \in OrderRows, MarkPaid(o) \/ CancelByWebhook(o) \/ EndPending(o)
      PROVE  InventoryRows'
  <2>1. /\ UNCHANGED <<product, variant, sale, task, tasks, received, history>>
        /\ order' \in [OrderRows -> Order] /\ product.created
    BY <1>6, OrderRestated
  <2>2. InventoryTypeOK'
    BY <1>1, <2>1 DEF InventoryTypeOK
  <2> QED
    BY <2>1, <2>2, CountersMove
<1>3. ASSUME NEW o \in OrderRows, ReturnUnits(o) PROVE InventoryRows'
  <2> PICK n : n = order[o].units
    OBVIOUS
  <2>1. /\ MoveBoth(MainVariant, n) /\ order[o].state # "unused"
        /\ order' = [order EXCEPT ![o].returned = @ + 1]
        /\ UNCHANGED <<sale, task, tasks, received, history>>
    BY <1>1, <1>3, HasReturns DEF ReturnUnits
  <2>6. n \in Int
    BY <1>0, <1>1 DEF InventoryTypeOK, Order
  <2>2. order' \in [OrderRows -> Order]
    BY <1>1, <2>1 DEF InventoryTypeOK, Order
  <2>3. InventoryTypeOK'
    BY <1>0, <1>1, <2>1, <2>2, <2>6, MovesTyped DEF InventoryTypeOK
  <2>4. product.created
    BY <1>0, <1>1, <2>1 DEF NothingBefore
  <2>5. /\ product'.created = product.created
        /\ \A v \in VariantRows : variant'[v].state = variant[v].state
    BY <1>0, <1>1, <2>1, <2>6, MovesTyped
  <2> QED
    BY <2>1, <2>3, <2>4, <2>5, CountersMove
<1>4. ASSUME NEW o \in OrderRows, NEW s \in SaleRows, SellOrder(o, s) PROVE InventoryRows'
  <2> PICK n : n = order[o].units
    OBVIOUS
  <2>1. /\ order[o].state # "unused" /\ sale[s].state = "unused"
        /\ order' = [order EXCEPT ![o].state = "settled"]
        /\ sale' = [sale EXCEPT ![s] = [state |-> "live", variant |-> MainVariant,
                                        took |-> NoVariant, units |-> n]]
        /\ UNCHANGED <<product, variant, task, tasks, received, history>>
    BY <1>4 DEF SellOrder, FreshSales
  <2>2. order' \in [OrderRows -> Order] /\ n \in Counts \cup {0}
    BY <1>1, <2>1 DEF InventoryTypeOK, Order
  <2>3. sale' \in [SaleRows -> Sale]
    BY <1>0, <1>1, <2>1, <2>2 DEF InventoryTypeOK, Sale
  <2>4. InventoryTypeOK'
    BY <1>1, <2>1, <2>2, <2>3 DEF InventoryTypeOK
  <2>5. product.created
    BY <1>1, <2>1 DEF NothingBefore
  <2>6. /\ sale'[s].state = "live" /\ sale'[s].took = NoVariant
        /\ sale'[s].variant = MainVariant
        /\ \A r \in SaleRows \ {s} : sale'[r] = sale[r]
    BY <1>1, <2>1 DEF InventoryTypeOK
  <2>7. NothingBefore' /\ MainLives'
    BY <1>1, <2>1, <2>5 DEF NothingBefore, MainLives
  <2>8. SalesSound'
    BY <1>1, <2>1, <2>6 DEF SalesSound
  <2>9. TasksSound'
    BY <1>1, <2>1, <2>6 DEF TasksSound
  <2> QED
    BY <2>4, <2>7, <2>8, <2>9 DEF InventoryRows
<1>5. ASSUME NEW v \in VariantRows, NEW n \in Counts, CreateVariant(v, n) PROVE InventoryRows'
  <2>1. /\ product.created /\ v # MainVariant /\ tasks' \in 0..MaxTasks
        /\ variant' = [variant EXCEPT ![v] = [state |-> "live", stock |-> n]]
        /\ received' = [received EXCEPT !.variant[v] = n]
        /\ history' = [history EXCEPT !.reshaped = TRUE]
        /\ UNCHANGED <<product, sale, order, task>>
    BY <1>0, <1>1, <1>5 DEF CreateVariant, InventoryTypeOK
  <2>2. n \in Int
    BY <1>0
  <2>3. variant' \in [VariantRows -> Variant]
        /\ \A u \in VariantRows : variant'[u].state = IF u = v THEN "live" ELSE variant[u].state
    BY <1>1, <2>1, <2>2 DEF InventoryTypeOK, Variant
  <2>4. received' \in [product : Int, variant : [VariantRows -> Int]]
    BY <1>1, <2>1, <2>2 DEF InventoryTypeOK
  <2>5. history' \in History /\ history'.reshaped /\ history'.strayed = history.strayed
    BY <1>1, <2>1 DEF InventoryTypeOK, History
  <2>6. InventoryTypeOK'
    BY <1>1, <2>1, <2>3, <2>4, <2>5 DEF InventoryTypeOK
  <2>7. NothingBefore' /\ MainLives'
    BY <1>0, <1>1, <2>1, <2>3 DEF NothingBefore, MainLives
  <2>8. SalesSound'
    <3>1. \A r \in SaleRows : sale[r].took \in VariantRows \cup {NoVariant}
      BY <1>1 DEF InventoryTypeOK, Sale
    <3> QED
      BY <1>1, <2>1, <2>3, <2>5, <3>1 DEF SalesSound
  <2>9. TasksSound'
    BY <1>1, <2>1, <2>5 DEF TasksSound
  <2> QED
    BY <2>6, <2>7, <2>8, <2>9 DEF InventoryRows
<1> QED
  BY <1>2, <1>3, <1>4, <1>5, <1>6

LEMMA InventoryStart == InventoryInit => InventoryRows
<1> SUFFICES ASSUME InventoryInit PROVE InventoryRows
  OBVIOUS
<1>1. InventoryTypeOK
  BY InventoryAssumption, NoTaskTyped
  DEF InventoryInit, InventoryTypeOK, Product, Variant, Sale, Order, History
<1>2. NothingBefore /\ MainLives /\ SalesSound
  BY NoTaskTyped DEF InventoryInit, NothingBefore, MainLives, SalesSound
<1>3. TasksSound
  BY NoTaskTyped DEF InventoryInit, TasksSound
<1> QED
  BY <1>1, <1>2, <1>3 DEF InventoryRows

LEMMA InventoryRowsStep ==
    ASSUME InventoryRows, [InventoryNext]_inventoryVars
    PROVE  InventoryRows'
<1>1. CASE UNCHANGED inventoryVars
  BY <1>1 DEF inventoryVars, InventoryRows, InventoryTypeOK, NothingBefore, MainLives, SalesSound,
     TasksSound
<1>2. CASE InventoryNext
  BY <1>2, RequestSteps, CreationSteps, CounterSteps, SaleSteps, OrderSteps DEF InventoryNext
<1> QED
  BY <1>1, <1>2

LEMMA InventoryRowsInvariant == InventorySpec => []InventoryRows
  BY InventoryStart, InventoryRowsStep, PTL DEF InventorySpec

-----------------------------------------------------------------------------
\* What the live variants hold together.
OnShelves(f) == SumFunctionOnSet([v \in VariantRows |-> f[v].stock],
                                 {v \in VariantRows : f[v].state = "live"})

\* Sales lower the product's counter unguarded: it stays what the variants
\* hold together until one of them is created, edited or deleted.
ShelvesAgree ==
    product.created /\ ~history.reshaped => product.stock = OnShelves(variant)
GuardsHold ==
    /\ \A v \in LiveVariants \ {MainVariant} : variant[v].stock >= 0
    /\ ~history.lowered => variant[MainVariant].stock >= 0

ShelfInv == ShelvesAgree /\ GuardsHold

LEMMA ShelfMoves ==
    ASSUME NEW f \in [VariantRows -> Variant], NEW g, NEW w \in VariantRows, NEW n \in Int,
           f[w].state = "live",
           \A v \in VariantRows : /\ g[v].state = f[v].state
                                  /\ g[v].stock = IF v = w THEN f[v].stock + n ELSE f[v].stock
    PROVE  OnShelves(g) = OnShelves(f) + n
<1> DEFINE L == {v \in VariantRows : f[v].state = "live"}
           F == [v \in VariantRows |-> f[v].stock]
           G == [v \in VariantRows |-> g[v].stock]
<1>1. {v \in VariantRows : g[v].state = "live"} = L
  OBVIOUS
<1>2. \A v \in VariantRows : f[v].stock \in Int
  BY DEF Variant
<1>3. /\ w \in L /\ F[w] \in Int /\ G[w] = F[w] + n /\ G[w] \in Int
      /\ \A v \in L : F[v] \in Int
      /\ \A v \in L \ {w} : G[v] = F[v]
  BY <1>2
<1>4. IsFiniteSet(L)
  BY InventoryAssumption, FS_Subset
<1>5. OnShelves(g) = SumFunctionOnSet(G, L) /\ OnShelves(f) = SumFunctionOnSet(F, L)
  BY <1>1 DEF OnShelves
<1> HIDE DEF L, F, G
<1>6. SumFunctionOnSet(G, L) = SumFunctionOnSet(F, L) - F[w] + G[w]
  BY <1>3, <1>4, SumChange
<1>7. SumFunctionOnSet(F, L) \in Int
  BY <1>3, <1>4, SumInt
<1> QED
  BY <1>3, <1>5, <1>6, <1>7

\* A move of both counters keeps them in step.
LEMMA ShelfMoveSound ==
    ASSUME InventoryRows, ShelfInv, NEW w \in VariantRows, NEW n \in Int,
           variant[w].state = "live", MoveBoth(w, n),
           history'.reshaped = history.reshaped, history.lowered => history'.lowered,
           w # MainVariant \/ ~history'.lowered => variant[w].stock + n >= 0
    PROVE  ShelfInv'
<1>1. InventoryTypeOK
  BY DEF InventoryRows
<1>2. /\ product'.created = product.created /\ product'.stock = product.stock + n
      /\ \A u \in VariantRows :
                /\ variant'[u].state = variant[u].state
                /\ variant'[u].stock = IF u = w THEN variant[u].stock + n ELSE variant[u].stock
  BY <1>1, MovesTyped
<1>3. ShelvesAgree'
  <2> PICK f, g : f = variant /\ g = variant'
    OBVIOUS
  <2>1. f \in [VariantRows -> Variant]
    BY <1>1 DEF InventoryTypeOK
  <2>2. OnShelves(g) = OnShelves(f) + n
    BY <1>2, <2>1, ShelfMoves
  <2>3. product.created /\ ~history.reshaped => product.stock = OnShelves(f)
    BY DEF ShelfInv, ShelvesAgree
  <2>4. product'.created /\ ~history'.reshaped => product'.stock = OnShelves(g)
    BY <1>2, <2>2, <2>3
  <2> QED
    BY <2>4 DEF ShelvesAgree, OnShelves
<1>4. GuardsHold'
  BY <1>2, CountsTyped DEF ShelfInv, GuardsHold, LiveVariants
<1> QED
  BY <1>3, <1>4 DEF ShelfInv

\* A change of the variants: the sum is given up, each counter is not.
LEMMA ShelfReshaped ==
    ASSUME InventoryRows, ShelfInv, history'.reshaped, history.lowered => history'.lowered,
           \A v \in VariantRows :
               variant'[v].state = "live" =>
                   \/ variant[v].state = "live" /\ variant'[v].stock = variant[v].stock
                   \/ variant'[v].stock >= 0,
           variant'[MainVariant].stock = variant[MainVariant].stock
               \/ variant'[MainVariant].stock >= 0
    PROVE  ShelfInv'
<1>1. ShelvesAgree'
  BY DEF ShelvesAgree
<1>2. GuardsHold'
  BY CountsTyped DEF ShelfInv, GuardsHold, LiveVariants
<1> QED
  BY <1>1, <1>2 DEF ShelfInv

LEMMA ShelfStutters ==
    ASSUME ShelfInv, UNCHANGED <<variant, history>>,
           product'.created = product.created, product'.stock = product.stock
    PROVE  ShelfInv'
  BY DEF ShelfInv, ShelvesAgree, GuardsHold, LiveVariants, OnShelves

\* The first variants of a product hold what the product holds.
LEMMA ShelfStarts ==
    ASSUME InventoryRows, ~product.created, NEW V \in SUBSET VariantRows, MainVariant \in V,
           NEW F \in [VariantRows -> Int], \A v \in V : F[v] >= 0,
           \A v \in VariantRows :
               /\ v \in V => variant'[v].state = "live" /\ variant'[v].stock = F[v]
               /\ v \notin V => variant'[v].state = "unused",
           product'.stock = SumFunctionOnSet(F, V)
    PROVE  ShelfInv'
<1>1. ShelvesAgree'
  <2> PICK g : g = variant'
    OBVIOUS
  <2> DEFINE G == [v \in VariantRows |-> g[v].stock]
  <2>1. {v \in VariantRows : g[v].state = "live"} = V
    OBVIOUS
  <2>2. \A v \in V : G[v] = F[v]
    OBVIOUS
  <2>3. IsFiniteSet(V)
    BY InventoryAssumption, FS_Subset
  <2>5. OnShelves(g) = SumFunctionOnSet(G, V)
    BY <2>1 DEF OnShelves
  <2> HIDE DEF G
  <2>4. OnShelves(g) = SumFunctionOnSet(F, V)
    BY <2>2, <2>3, <2>5, SumCongruence
  <2> QED
    BY <2>4 DEF ShelvesAgree, OnShelves
<1>2. GuardsHold'
  BY CountsTyped DEF GuardsHold, LiveVariants
<1> QED
  BY <1>1, <1>2 DEF ShelfInv

LEMMA ShelfStep ==
    ASSUME InventoryRows, ShelfInv, [InventoryNext]_inventoryVars
    PROVE  ShelfInv'
<1>0. /\ MainVariant \in VariantRows /\ NoVariant \notin VariantRows
      /\ \A n \in Counts \cup {0} : n \in Int /\ -n \in Int /\ n >= 0
      /\ \A n \in Counts : n \in Int /\ -n \in Int /\ n > 0
  BY CountsTyped
<1>1. InventoryTypeOK /\ NothingBefore /\ MainLives /\ SalesSound /\ TasksSound
  BY DEF InventoryRows
<1>2. CASE UNCHANGED inventoryVars
  BY <1>2, ShelfStutters DEF inventoryVars
<1>3. ASSUME NEW n \in Counts, CreateProduct(n) PROVE ShelfInv'
  <2> DEFINE F == [v \in VariantRows |-> n]
  <2>1. F \in [VariantRows -> Int] /\ F[MainVariant] = n /\ n >= 0
    BY <1>0
  <2> HIDE DEF F
  <2>2. IsFiniteSet({}) /\ SumFunctionOnSet(F, {}) = 0
    BY FS_EmptySet, SumEmpty
  <2>3. SumFunctionOnSet(F, {} \cup {MainVariant}) = 0 + F[MainVariant]
    BY <1>0, <2>1, <2>2, SumAdd
  <2>4. {} \cup {MainVariant} = {MainVariant} /\ 0 + n = n
    BY <1>0
  <2>5. product'.stock = SumFunctionOnSet(F, {MainVariant}) /\ ~product.created
    BY <1>1, <1>3, <2>1, <2>3, <2>4 DEF CreateProduct, InventoryTypeOK, Product
  <2>6. \A v \in VariantRows :
           /\ v \in {MainVariant} => variant'[v].state = "live" /\ variant'[v].stock = F[v]
           /\ v \notin {MainVariant} => variant'[v].state = "unused"
    BY <1>1, <1>3, <2>1 DEF CreateProduct, InventoryTypeOK, NothingBefore
  <2> QED
    BY <1>0, <2>1, <2>5, <2>6, ShelfStarts
<1>4. ASSUME NEW s \in SaleRows, NEW n \in Counts, NEW units \in Counts, SellNewProduct(s, n, units)
      PROVE  ShelfInv'
  <2> PICK k : k = n - units
    OBVIOUS
  <2> DEFINE F == [v \in VariantRows |-> k]
  <2>7. k \in Int /\ k >= 0
    BY <1>0, <1>4 DEF SellNewProduct, NewProductAccepted
  <2>1. F \in [VariantRows -> Int] /\ F[MainVariant] = k
    BY <1>0, <2>7
  <2>8. /\ product' = [product EXCEPT !.created = TRUE, !.stock = k] /\ ~product.created
        /\ variant' = [variant EXCEPT ![MainVariant] = [state |-> "live", stock |-> k]]
    BY <1>4 DEF SellNewProduct
  <2>9. \A v \in VariantRows : F[v] = k
    OBVIOUS
  <2> HIDE DEF F
  <2>2. IsFiniteSet({}) /\ SumFunctionOnSet(F, {}) = 0
    BY FS_EmptySet, SumEmpty
  <2>3. SumFunctionOnSet(F, {} \cup {MainVariant}) = 0 + F[MainVariant]
    BY <1>0, <2>1, <2>2, SumAdd
  <2>4. {} \cup {MainVariant} = {MainVariant} /\ 0 + k = k
    BY <2>7
  <2>5. product'.stock = SumFunctionOnSet(F, {MainVariant})
    BY <1>1, <2>8, <2>1, <2>3, <2>4 DEF InventoryTypeOK, Product
  <2>6. \A v \in VariantRows :
           /\ v \in {MainVariant} => variant'[v].state = "live" /\ variant'[v].stock = F[v]
           /\ v \notin {MainVariant} => variant'[v].state = "unused"
    BY <1>1, <2>8, <2>9 DEF InventoryTypeOK, NothingBefore
  <2> QED
    BY <1>0, <2>1, <2>5, <2>6, <2>7, <2>8, <2>9, ShelfStarts
<1>5. ASSUME NEW v \in VariantRows, NEW n \in Counts, NEW m \in Counts,
             QuickCreateWithVariants(v, n, m)
      PROVE  ShelfInv'
  <2> DEFINE F == [u \in VariantRows |-> IF u = v THEN m ELSE n]
  <2>8. /\ product' = [product EXCEPT !.created = TRUE, !.stock = n + m] /\ ~product.created
        /\ variant' = [variant EXCEPT ![MainVariant] = [state |-> "live", stock |-> n],
                                      ![v] = [state |-> "live", stock |-> m]]
        /\ v # MainVariant
    BY <1>5 DEF QuickCreateWithVariants
  <2>1. /\ F \in [VariantRows -> Int] /\ F[MainVariant] = n /\ F[v] = m
        /\ \A u \in VariantRows : F[u] >= 0
    BY <1>0, <2>8
  <2> HIDE DEF F
  <2>2. IsFiniteSet({}) /\ SumFunctionOnSet(F, {}) = 0 /\ IsFiniteSet({MainVariant})
    BY FS_EmptySet, FS_Singleton, SumEmpty
  <2>3. SumFunctionOnSet(F, {} \cup {MainVariant}) = 0 + F[MainVariant]
    BY <1>0, <2>1, <2>2, SumAdd
  <2>4. SumFunctionOnSet(F, {MainVariant} \cup {v}) = SumFunctionOnSet(F, {MainVariant}) + F[v]
    BY <1>0, <2>1, <2>2, <2>8, SumAdd
  <2>5. SumFunctionOnSet(F, {MainVariant} \cup {v}) = n + m
    <3>1. {} \cup {MainVariant} = {MainVariant} /\ 0 + n = n
      BY <1>0
    <3> QED
      BY <3>1, <2>1, <2>3, <2>4
  <2>6. product'.stock = SumFunctionOnSet(F, {MainVariant} \cup {v})
    BY <1>1, <2>5, <2>8 DEF InventoryTypeOK, Product
  <2>7. \A u \in VariantRows :
           /\ u \in {MainVariant} \cup {v} => variant'[u].state = "live" /\ variant'[u].stock = F[u]
           /\ u \notin {MainVariant} \cup {v} => variant'[u].state = "unused"
    BY <1>1, <2>8, <2>1 DEF InventoryTypeOK, NothingBefore
  <2>9. {MainVariant} \cup {v} \in SUBSET VariantRows /\ MainVariant \in {MainVariant} \cup {v}
    BY <1>0
  <2> QED
    BY <2>1, <2>6, <2>7, <2>8, <2>9, ShelfStarts
<1>6. ASSUME NEW active \in BOOLEAN, SetActive(active) PROVE ShelfInv'
  <2>1. product'.created = product.created /\ product'.stock = product.stock
    BY <1>1, <1>6 DEF SetActive, InventoryTypeOK, Product
  <2> QED
    BY <1>6, <2>1, ShelfStutters DEF SetActive
<1>7. ASSUME NEW c \in Clerks, NEW s \in SaleRows, CommitSale(c, s) PROVE ShelfInv'
  <2> PICK v, n : v = task[c].variant /\ n = task[c].units
    OBVIOUS
  <2>1. /\ v \in VariantRows /\ n \in Counts
        /\ MoveBoth(v, -n) /\ variant[v].state = "live" /\ variant[v].stock >= n
        /\ UNCHANGED history
    BY <1>1, <1>7 DEF CommitSale, TasksSound, LiveVariants, StillThere
  <2>2. n \in Int /\ -n \in Int /\ variant[v].stock \in Int
    BY <1>0, <1>1, <2>1 DEF InventoryTypeOK, Variant
  <2>3. variant[v].stock + (-n) >= 0
    BY <2>1, <2>2
  <2> QED
    BY <2>1, <2>2, <2>3, ShelfMoveSound
<1>8. ASSUME NEW c \in Clerks, CommitDelete(c) PROVE ShelfInv'
  <2> PICK s, n, v : s = task[c].sale /\ n = task[c].units /\ v = ReturnTo(task[c].variant)
    OBVIOUS
  <2>1. /\ task[c].pc = "unsell" /\ s \in SaleRows /\ n = sale[s].units /\ v \in VariantRows
        /\ MoveBoth(v, n) /\ variant[v].state = "live"
    BY <1>1, <1>8 DEF CommitDelete, TasksSound, LiveVariants
  <2>2. n \in Counts \cup {0}
    BY <1>1, <2>1 DEF InventoryTypeOK, Sale
  <2>3. n \in Int /\ n >= 0 /\ variant[v].stock \in Int
    BY <1>0, <1>1, <2>1, <2>2 DEF InventoryTypeOK, Variant
  <2>4. history'.reshaped = history.reshaped /\ history'.lowered = history.lowered
    BY <1>1, <1>8 DEF CommitDelete, InventoryTypeOK, History
  <2>5. v # MainVariant \/ ~history.lowered => variant[v].stock >= 0
    BY <2>1 DEF ShelfInv, GuardsHold, LiveVariants
  <2>6. v # MainVariant \/ ~history'.lowered => variant[v].stock + n >= 0
    BY <2>3, <2>4, <2>5
  <2> QED
    BY <2>1, <2>3, <2>4, <2>6, ShelfMoveSound
<1>9. ASSUME NEW c \in Clerks, CommitAdjustment(c) PROVE ShelfInv'
  <2> PICK n : n = task[c].units
    OBVIOUS
  <2>1. /\ n \in Int /\ MoveBoth(MainVariant, n) /\ product.created
        /\ history' = [history EXCEPT !.lowered = @ \/ n < 0]
    BY <1>1, <1>9 DEF CommitAdjustment, InventoryTypeOK, Task, NothingBefore
  <2>2. variant[MainVariant].state = "live" /\ variant[MainVariant].stock \in Int
    BY <1>0, <1>1, <2>1 DEF MainLives, InventoryTypeOK, Variant
  <2> PICK neg : neg = (n < 0)
    OBVIOUS
  <2>3. /\ history'.reshaped = history.reshaped
        /\ history.lowered => history'.lowered
        /\ ~history'.lowered => ~history.lowered /\ ~neg
    BY <1>1, <2>1 DEF InventoryTypeOK, History
  <2>4. ~history'.lowered => variant[MainVariant].stock >= 0 /\ ~(n < 0)
    BY <2>3 DEF ShelfInv, GuardsHold
  <2>5. ~history'.lowered => variant[MainVariant].stock + n >= 0
    BY <2>1, <2>2, <2>4
  <2> QED
    BY <1>0, <2>1, <2>2, <2>3, <2>5, ShelfMoveSound
<1>10. ASSUME NEW c \in Clerks, NEW v \in VariantRows, NEW n \in Counts, UpdateVariant(c, v, n)
       PROVE  ShelfInv'
  <2>1. /\ \A u \in VariantRows : /\ variant'[u].state = variant[u].state
                                  /\ variant'[u].stock = IF u = v THEN n ELSE variant[u].stock
        /\ history'.reshaped /\ history'.lowered = history.lowered /\ n >= 0
    BY <1>0, <1>1, <1>10 DEF UpdateVariant, InventoryTypeOK, Variant, History
  <2> QED
    BY <1>0, <2>1, ShelfReshaped
<1>11. ASSUME NEW c \in Clerks, UpdateProductStock(c) PROVE ShelfInv'
  <2>1. history.reshaped /\ UNCHANGED <<variant, history>>
    BY <1>1, <1>11 DEF UpdateProductStock, TasksSound
  <2> QED
    BY <1>0, <2>1, ShelfReshaped
<1>12. ASSUME NEW v \in VariantRows, NEW n \in Counts, UpdateVariantWithAttributes(v, n)
       PROVE  ShelfInv'
  <2>1. /\ \A u \in VariantRows : /\ variant'[u].state = variant[u].state
                                  /\ variant'[u].stock = IF u = v THEN n ELSE variant[u].stock
        /\ history'.reshaped /\ history'.lowered = history.lowered /\ n >= 0
    BY <1>0, <1>1, <1>12 DEF UpdateVariantWithAttributes, InventoryTypeOK, Variant, History
  <2> QED
    BY <1>0, <2>1, ShelfReshaped
<1>13. ASSUME NEW v \in VariantRows, NEW n \in Counts, CreateVariant(v, n) PROVE ShelfInv'
  <2>1. /\ \A u \in VariantRows \ {v} : variant'[u] = variant[u]
        /\ variant'[v].stock = n /\ v # MainVariant
        /\ history'.reshaped /\ history'.lowered = history.lowered /\ n >= 0
    BY <1>0, <1>1, <1>13 DEF CreateVariant, InventoryTypeOK, Variant, History
  <2> QED
    BY <1>0, <2>1, ShelfReshaped
<1>14. ASSUME NEW c \in Clerks, DropVariant(c) PROVE ShelfInv'
  <2> PICK v : v = task[c].variant
    OBVIOUS
  <2>1. /\ variant' = [variant EXCEPT ![v].state = "deleted"] /\ v \in VariantRows \ {MainVariant}
        /\ history'.reshaped /\ history'.lowered = history.lowered
    BY <1>1, <1>14 DEF DropVariant, InventoryTypeOK, History, TasksSound
  <2>2. \A u \in VariantRows : /\ u # v => variant'[u] = variant[u]
                               /\ u = v => variant'[u].state = "deleted"
    BY <1>1, <2>1 DEF InventoryTypeOK, Variant
  <2> QED
    BY <1>0, <2>1, <2>2, ShelfReshaped
<1>15. ASSUME NEW o \in OrderRows, NEW units \in Counts, ReserveOrder(o, units) PROVE ShelfInv'
  <2>1. /\ MoveBoth(MainVariant, -units) /\ product.stock >= units /\ UNCHANGED history
        /\ variant[MainVariant].stock >= units
    BY <1>15 DEF ReserveOrder
  <2>2. product.created
    BY <1>0, <1>1, <2>1 DEF NothingBefore
  <2>3. variant[MainVariant].state = "live" /\ variant[MainVariant].stock \in Int
    BY <1>0, <1>1, <2>2 DEF MainLives, InventoryTypeOK, Variant
  <2>4. variant[MainVariant].stock + (-units) >= 0
    BY <1>0, <2>1, <2>3
  <2> QED
    BY <1>0, <2>1, <2>3, <2>4, ShelfMoveSound
<1>20. ASSUME NEW o \in OrderRows, MarkPaid(o) \/ CancelByWebhook(o) \/ EndPending(o)
       PROVE  ShelfInv'
  BY <1>20, OrderRestated, ShelfStutters
<1>16. ASSUME NEW o \in OrderRows, ReturnUnits(o) PROVE ShelfInv'
  <2> PICK n : n = order[o].units
    OBVIOUS
  <2>1. /\ MoveBoth(MainVariant, n) /\ order[o].state # "unused" /\ UNCHANGED history
    BY <1>1, <1>16, HasReturns DEF ReturnUnits
  <2>2. n \in Counts \cup {0} /\ product.created
    BY <1>1, <2>1 DEF NothingBefore, InventoryTypeOK, Order
  <2>3. variant[MainVariant].state = "live" /\ variant[MainVariant].stock \in Int
    BY <1>0, <1>1, <2>2 DEF MainLives, InventoryTypeOK, Variant
  <2>4. ~history.lowered => variant[MainVariant].stock >= 0
    BY DEF ShelfInv, GuardsHold
  <2>5. n \in Int /\ n >= 0
    BY <1>0, <2>2
  <2>6. ~history'.lowered => variant[MainVariant].stock + n >= 0
    BY <2>1, <2>3, <2>4, <2>5
  <2> QED
    BY <1>0, <2>1, <2>3, <2>5, <2>6, ShelfMoveSound
<1>17. ASSUME NEW o \in OrderRows, NEW s \in SaleRows, SellOrder(o, s) PROVE ShelfInv'
  BY <1>17, ShelfStutters DEF SellOrder
<1>18. ASSUME NEW c \in Clerks, UNCHANGED <<product, variant, sale, order, received, history>>
       PROVE  ShelfInv'
  BY <1>18, ShelfStutters
<1>19. CASE InventoryNext
  BY <1>19, <1>3, <1>4, <1>5, <1>6, <1>7, <1>8, <1>9, <1>10, <1>11, <1>12, <1>13, <1>14, <1>15,
     <1>16, <1>17, <1>18, <1>20
  DEF InventoryNext, ValidateSale, ReadSale, RollBackSale, RollBackDelete, CheckAdjustment,
      EditAbandoned, CheckVariantUnsold, DropFails, StartTask
<1> QED
  BY <1>2, <1>19

LEMMA ShelfBegins == InventoryInit => ShelfInv
<1> SUFFICES ASSUME InventoryInit PROVE ShelfInv
  OBVIOUS
<1>1. MainVariant \in VariantRows
  BY InventoryAssumption
<1> QED
  BY <1>1 DEF InventoryInit, ShelfInv, ShelvesAgree, GuardsHold, LiveVariants

LEMMA ShelfInvariant == InventorySpec => []ShelfInv
  BY ShelfBegins, ShelfStep, InventoryRowsInvariant, PTL DEF InventorySpec

\* The guards of sales and of the checkout keep every counter at zero or
\* above, and the product's unguarded one with them while it is what the
\* variants hold, unless staff lowered the stock by a stale check.
THEOREM NeverOversoldAlways == InventorySpec => []NeverOversold
<1>1. InventoryRows /\ ShelfInv => NeverOversold
  <2> SUFFICES ASSUME InventoryRows, ShelfInv PROVE NeverOversold
    OBVIOUS
  <2>1. GuardsHold /\ ShelvesAgree /\ NothingBefore /\ InventoryTypeOK
    BY DEF ShelfInv, InventoryRows
  <2>2. ASSUME ~history.lowered, ~history.reshaped PROVE product.stock >= 0
    <3>1. CASE ~product.created
      BY <2>1, <3>1 DEF NothingBefore
    <3>2. CASE product.created
      <4> DEFINE F == [v \in VariantRows |-> variant[v].stock]
                 L == {v \in VariantRows : variant[v].state = "live"}
      <4>1. \A v \in L : F[v] \in Nat
        BY <2>1, <2>2 DEF GuardsHold, LiveVariants, InventoryTypeOK, Variant
      <4>2. IsFiniteSet(L)
        BY InventoryAssumption, FS_Subset
      <4>3. product.stock = SumFunctionOnSet(F, L)
        BY <2>1, <2>2, <3>2 DEF ShelvesAgree, OnShelves
      <4> HIDE DEF F, L
      <4>4. SumFunctionOnSet(F, L) \in Nat
        BY <4>1, <4>2, SumNat
      <4> QED
        BY <4>3, <4>4
    <3> QED
      BY <3>1, <3>2
  <2> QED
    BY <2>1, <2>2 DEF NeverOversold, GuardsHold
<1> QED
  BY <1>1, InventoryRowsInvariant, ShelfInvariant, PTL

-----------------------------------------------------------------------------
\* The units out, of any table of sales and of orders.
SoldIn(f, V) == SumFunctionOnSet([s \in SaleRows |-> f[s].units],
                                 {s \in SaleRows : f[s].state = "live" /\ f[s].took \in V})
HeldIn(f) == SumFunctionOnSet([o \in OrderRows |-> f[o].units],
                              {o \in OrderRows : Holds(f[o])})

LEMMA OutIs ==
    ASSUME NEW f, NEW g, f = sale, g = order
    PROVE  /\ \A v : Out(v) = SoldIn(f, {v}) + (IF v = MainVariant THEN HeldIn(g) ELSE 0)
           /\ OutOfProduct = SoldIn(f, VariantRows) + HeldIn(g)
  BY DEF Out, OutOfProduct, SoldFrom, Reserved, SoldIn, HeldIn

LEMMA OutWillBe ==
    ASSUME NEW f, NEW g, f = sale', g = order'
    PROVE  /\ \A v : Out(v)' = SoldIn(f, {v}) + (IF v = MainVariant THEN HeldIn(g) ELSE 0)
           /\ OutOfProduct' = SoldIn(f, VariantRows) + HeldIn(g)
  BY DEF Out, OutOfProduct, SoldFrom, Reserved, SoldIn, HeldIn

LEMMA UnitsTyped ==
    /\ \A f \in [SaleRows -> Sale] : \A s \in SaleRows : f[s].units \in Int
    /\ \A f \in [OrderRows -> Order] : \A o \in OrderRows : f[o].units \in Int
<1>1. /\ \A f \in [SaleRows -> Sale] : \A s \in SaleRows : f[s].units \in Counts \cup {0}
      /\ \A f \in [OrderRows -> Order] : \A o \in OrderRows : f[o].units \in Counts \cup {0}
  BY DEF Sale, Order
<1> QED
  BY <1>1, CountsTyped

\* The sum over two tables one of which has one more live row.
LEMMA SumGrows ==
    ASSUME NEW f, NEW g, NEW S, IsFiniteSet(S), NEW x, x \notin S,
           \A y \in S : f[y] \in Int, \A y \in S : g[y] = f[y], g[x] \in Int
    PROVE  SumFunctionOnSet(g, S \cup {x}) = SumFunctionOnSet(f, S) + g[x]
<1>1. SumFunctionOnSet(g, S \cup {x}) = SumFunctionOnSet(g, S) + g[x]
  BY SumAdd
<1>2. SumFunctionOnSet(g, S) = SumFunctionOnSet(f, S)
  BY SumCongruence
<1> QED
  BY <1>1, <1>2

LEMMA SoldTyped ==
    ASSUME NEW f \in [SaleRows -> Sale], NEW V
    PROVE  SoldIn(f, V) \in Int
<1> DEFINE F == [s \in SaleRows |-> f[s].units]
           S == {s \in SaleRows : f[s].state = "live" /\ f[s].took \in V}
<1>1. IsFiniteSet(S) /\ \A s \in S : F[s] \in Int
  BY UnitsTyped, InventoryAssumption, FS_Subset
<1>2. SoldIn(f, V) = SumFunctionOnSet(F, S)
  BY DEF SoldIn
<1> HIDE DEF F, S
<1> QED
  BY <1>1, <1>2, SumInt

LEMMA HeldTyped ==
    ASSUME NEW f \in [OrderRows -> Order]
    PROVE  HeldIn(f) \in Int
<1> DEFINE F == [o \in OrderRows |-> f[o].units]
           S == {o \in OrderRows : Holds(f[o])}
<1>1. IsFiniteSet(S) /\ \A o \in S : F[o] \in Int
  BY UnitsTyped, InventoryAssumption, FS_Subset
<1>2. HeldIn(f) = SumFunctionOnSet(F, S)
  BY DEF HeldIn
<1> HIDE DEF F, S
<1> QED
  BY <1>1, <1>2, SumInt

\* One more sale is live in g than in f.
LEMMA SoldGrows ==
    ASSUME NEW f \in [SaleRows -> Sale], NEW g \in [SaleRows -> Sale], NEW s \in SaleRows,
           f[s].state # "live", g[s].state = "live",
           \A r \in SaleRows \ {s} : g[r] = f[r], NEW V
    PROVE  SoldIn(g, V) = SoldIn(f, V) + (IF g[s].took \in V THEN g[s].units ELSE 0)
<1> DEFINE F == [r \in SaleRows |-> f[r].units]
           G == [r \in SaleRows |-> g[r].units]
           S == {r \in SaleRows : f[r].state = "live" /\ f[r].took \in V}
           T == {r \in SaleRows : g[r].state = "live" /\ g[r].took \in V}
<1>1. IsFiniteSet(S) /\ s \notin S /\ G[s] = g[s].units /\ G[s] \in Int
      /\ \A r \in S : F[r] \in Int /\ G[r] = F[r]
  BY UnitsTyped, InventoryAssumption, FS_Subset
<1>2. /\ g[s].took \in V => T = S \cup {s}
      /\ g[s].took \notin V => T = S
  OBVIOUS
<1>3. SoldIn(f, V) = SumFunctionOnSet(F, S) /\ SoldIn(g, V) = SumFunctionOnSet(G, T)
  BY DEF SoldIn
<1>4. SoldIn(f, V) \in Int
  BY SoldTyped
<1> HIDE DEF F, G, S, T
<1>5. CASE g[s].took \in V
  <2>1. SumFunctionOnSet(G, S \cup {s}) = SumFunctionOnSet(F, S) + G[s]
    BY <1>1, SumGrows
  <2> QED
    BY <1>1, <1>2, <1>3, <1>5, <2>1
<1>6. CASE g[s].took \notin V
  <2>1. SumFunctionOnSet(G, S) = SumFunctionOnSet(F, S)
    BY <1>1, SumCongruence
  <2> QED
    BY <1>2, <1>3, <1>4, <1>6, <2>1
<1> QED
  BY <1>5, <1>6

\* One more order holds its units in g than in f.
LEMMA HeldGrows ==
    ASSUME NEW f \in [OrderRows -> Order], NEW g \in [OrderRows -> Order], NEW o \in OrderRows,
           ~Holds(f[o]), Holds(g[o]),
           \A r \in OrderRows \ {o} : g[r] = f[r]
    PROVE  HeldIn(g) = HeldIn(f) + g[o].units
<1> DEFINE F == [r \in OrderRows |-> f[r].units]
           G == [r \in OrderRows |-> g[r].units]
           S == {r \in OrderRows : Holds(f[r])}
           T == {r \in OrderRows : Holds(g[r])}
<1>1. IsFiniteSet(S) /\ o \notin S /\ G[o] = g[o].units /\ G[o] \in Int
      /\ \A r \in S : F[r] \in Int /\ G[r] = F[r]
  BY UnitsTyped, InventoryAssumption, FS_Subset
<1>2. T = S \cup {o}
  OBVIOUS
<1>3. HeldIn(f) = SumFunctionOnSet(F, S) /\ HeldIn(g) = SumFunctionOnSet(G, T)
  BY DEF HeldIn
<1> HIDE DEF F, G, S, T
<1>4. SumFunctionOnSet(G, S \cup {o}) = SumFunctionOnSet(F, S) + G[o]
  BY <1>1, SumGrows
<1> QED
  BY <1>1, <1>2, <1>3, <1>4

\* What the two tables look like elsewhere does not matter.
LEMMA HeldSame ==
    ASSUME NEW f \in [OrderRows -> Order], NEW g \in [OrderRows -> Order],
           \A o \in OrderRows : (Holds(g[o]) <=> Holds(f[o])) /\ g[o].units = f[o].units
    PROVE  HeldIn(g) = HeldIn(f)
<1>1. {o \in OrderRows : Holds(g[o])} = {o \in OrderRows : Holds(f[o])}
      /\ [o \in OrderRows |-> g[o].units] = [o \in OrderRows |-> f[o].units]
  OBVIOUS
<1> QED
  BY <1>1 DEF HeldIn

LEMMA NothingOut ==
    ASSUME InventoryRows, NEW V,
           \A s \in SaleRows : sale[s].state = "live" => sale[s].took \notin V
    PROVE  SoldIn(sale, V) = 0
<1>1. {s \in SaleRows : sale[s].state = "live" /\ sale[s].took \in V} = {}
  OBVIOUS
<1> QED
  BY <1>1, SumEmpty DEF SoldIn

LEMMA NothingHeld ==
    ASSUME \A o \in OrderRows : ~Holds(order[o])
    PROVE  HeldIn(order) = 0
<1>1. {o \in OrderRows : Holds(order[o])} = {}
  OBVIOUS
<1> QED
  BY <1>1, SumEmpty DEF HeldIn

Accountable == product.created /\ ReturnedOnce /\ ~history.strayed /\ ~history.orderSaleDeleted

LEMMA ReturnedSame ==
    ASSUME UNCHANGED order
    PROVE  ReturnedOnce' <=> ReturnedOnce
  BY DEF ReturnedOnce

\* The counters of the product and of w move by n, and the units out by -n.
LEMMA AccountMoves ==
    ASSUME InventoryRows, UnitsAccounted, Accountable' => Accountable,
           NEW w \in VariantRows, NEW n \in Int, MoveBoth(w, n), UNCHANGED received,
           OutOfProduct' = OutOfProduct - n,
           \A v \in VariantRows : Out(v)' = Out(v) - (IF v = w THEN n ELSE 0)
    PROVE  UnitsAccounted'
<1>1. InventoryTypeOK
  BY DEF InventoryRows
<1>2. /\ product'.stock = product.stock + n
      /\ \A u \in VariantRows :
                /\ variant'[u].state = variant[u].state
                /\ variant'[u].stock = IF u = w THEN variant[u].stock + n ELSE variant[u].stock
  BY <1>1, MovesTyped
<1>3. product.stock \in Int /\ \A u \in VariantRows : variant[u].stock \in Int
  BY <1>1 DEF InventoryTypeOK, Product, Variant
<1>4. OutOfProduct \in Int /\ \A v \in VariantRows : Out(v) \in Int
  <2> PICK f, g : f = sale /\ g = order
    OBVIOUS
  <2>1. f \in [SaleRows -> Sale] /\ g \in [OrderRows -> Order]
    BY <1>1 DEF InventoryTypeOK
  <2>2. HeldIn(g) \in Int /\ \A V : SoldIn(f, V) \in Int
    BY <2>1, HeldTyped, SoldTyped
  <2>3. /\ OutOfProduct = SoldIn(f, VariantRows) + HeldIn(g)
        /\ \A v : Out(v) = SoldIn(f, {v}) + (IF v = MainVariant THEN HeldIn(g) ELSE 0)
    BY OutIs
  <2>4. ASSUME NEW v PROVE Out(v) \in Int
    <3> PICK a, i : a = SoldIn(f, {v}) /\ i = (IF v = MainVariant THEN HeldIn(g) ELSE 0)
      OBVIOUS
    <3>1. a \in Int /\ i \in Int
      BY <2>2
    <3>2. Out(v) = a + i
      BY <2>3
    <3> QED
      BY <3>1, <3>2
  <2>5. OutOfProduct \in Int
    BY <2>2, <2>3
  <2> QED
    BY <2>4, <2>5
<1> SUFFICES ASSUME Accountable'
             PROVE  /\ product'.stock + OutOfProduct' = received'.product
                    /\ \A v \in LiveVariants' : variant'[v].stock + Out(v)' = received'.variant[v]
  BY DEF UnitsAccounted, Accountable
<1>5. /\ product.stock + OutOfProduct = received.product
      /\ \A v \in VariantRows : variant[v].state = "live" =>
             variant[v].stock + Out(v) = received.variant[v]
  BY DEF UnitsAccounted, Accountable, LiveVariants
<1>6. product'.stock + OutOfProduct' = received'.product
  BY <1>2, <1>3, <1>4, <1>5
<1>7. ASSUME NEW v \in VariantRows, variant'[v].state = "live"
      PROVE  variant'[v].stock + Out(v)' = received'.variant[v]
  <2>1. variant[v].stock \in Int /\ Out(v) \in Int
        /\ variant[v].stock + Out(v) = received.variant[v]
    BY <1>2, <1>3, <1>4, <1>5, <1>7
  <2> PICK a, b : a = variant[v].stock /\ b = Out(v)
    OBVIOUS
  <2>2. variant'[v].stock = (IF v = w THEN a + n ELSE a)
        /\ Out(v)' = b - (IF v = w THEN n ELSE 0)
    BY <1>2
  <2>3. (IF v = w THEN a + n ELSE a) + (b - (IF v = w THEN n ELSE 0)) = a + b
    BY <2>1
  <2> QED
    BY <2>1, <2>2, <2>3
<1> QED
  BY <1>6, <1>7 DEF LiveVariants

\* A step that leaves the tables of sales and orders alone leaves what is out.
LEMMA OutStays ==
    ASSUME UNCHANGED <<sale, order>>
    PROVE  OutOfProduct' = OutOfProduct /\ \A v : Out(v)' = Out(v)
<1> PICK f, g : f = sale /\ g = order
  OBVIOUS
<1>1. f = sale' /\ g = order'
  OBVIOUS
<1>2. /\ OutOfProduct = SoldIn(f, VariantRows) + HeldIn(g)
      /\ \A v : Out(v) = SoldIn(f, {v}) + (IF v = MainVariant THEN HeldIn(g) ELSE 0)
  BY OutIs
<1>3. /\ OutOfProduct' = SoldIn(f, VariantRows) + HeldIn(g)
      /\ \A v : Out(v)' = SoldIn(f, {v}) + (IF v = MainVariant THEN HeldIn(g) ELSE 0)
  BY <1>1, OutWillBe
<1> QED
  BY <1>2, <1>3

LEMMA AccountStays ==
    ASSUME UnitsAccounted, Accountable' => Accountable,
           UNCHANGED <<sale, order, received>>, product'.stock = product.stock,
           \A v \in VariantRows : variant'[v].state = "live" => variant'[v] = variant[v]
    PROVE  UnitsAccounted'
<1>1. OutOfProduct' = OutOfProduct /\ \A v : Out(v)' = Out(v)
  BY OutStays
<1> QED
  BY <1>1 DEF UnitsAccounted, Accountable, LiveVariants

\* The sale of units takes them from where Out counts them, the deletion of
\* the sale brings them back to where they were taken from.
LEMMA AccountSales ==
    ASSUME InventoryRows, UnitsAccounted, NEW c \in Clerks
    PROVE  /\ \A s \in SaleRows : CommitSale(c, s) => UnitsAccounted'
           /\ CommitDelete(c) => UnitsAccounted'
<1>0. NoVariant \notin VariantRows /\ \A n \in Counts \cup {0} : n \in Int /\ -n \in Int
  BY CountsTyped
<1>1. InventoryTypeOK /\ NothingBefore /\ MainLives /\ SalesSound /\ TasksSound
  BY DEF InventoryRows
<1> PICK f, g, h : f = sale /\ g = sale' /\ h = order
  OBVIOUS
<1>2. f \in [SaleRows -> Sale] /\ h \in [OrderRows -> Order]
  BY <1>1 DEF InventoryTypeOK
<1>3. HeldIn(h) \in Int /\ \A V : SoldIn(f, V) \in Int
  BY <1>2, HeldTyped, SoldTyped
<1>4. /\ OutOfProduct = SoldIn(f, VariantRows) + HeldIn(h)
      /\ \A v : Out(v) = SoldIn(f, {v}) + (IF v = MainVariant THEN HeldIn(h) ELSE 0)
  BY OutIs
<1>5. ASSUME h = order', NEW w \in VariantRows, NEW n \in Int,
             \A V : SoldIn(g, V) = SoldIn(f, V) + (IF w \in V THEN n ELSE 0)
      PROVE  /\ OutOfProduct' = OutOfProduct + n
             /\ \A v \in VariantRows : Out(v)' = Out(v) + (IF v = w THEN n ELSE 0)
  <2>1. /\ OutOfProduct' = SoldIn(g, VariantRows) + HeldIn(h)
        /\ \A v : Out(v)' = SoldIn(g, {v}) + (IF v = MainVariant THEN HeldIn(h) ELSE 0)
    BY <1>5, OutWillBe
  <2>2. SoldIn(g, VariantRows) = SoldIn(f, VariantRows) + n
    BY <1>5
  <2>3. OutOfProduct' = OutOfProduct + n
    BY <1>3, <1>4, <1>5, <2>1, <2>2
  <2>4. ASSUME NEW v \in VariantRows PROVE Out(v)' = Out(v) + (IF v = w THEN n ELSE 0)
    <3> PICK a, b, i, k : /\ a = SoldIn(f, {v}) /\ b = SoldIn(g, {v})
                          /\ i = (IF v = MainVariant THEN HeldIn(h) ELSE 0)
                          /\ k = (IF v = w THEN n ELSE 0)
      OBVIOUS
    <3>1. a \in Int /\ i \in Int /\ k \in Int /\ b = a + k
      BY <1>3, <1>5
    <3>2. Out(v)' = b + i /\ Out(v) = a + i
      BY <1>4, <2>1
    <3>3. (a + k) + i = (a + i) + k
      BY <3>1
    <3> QED
      BY <3>1, <3>2, <3>3
  <2> QED
    BY <2>3, <2>4
<1>6. ASSUME NEW s \in SaleRows, CommitSale(c, s) PROVE UnitsAccounted'
  <2> PICK v, n : v = task[c].variant /\ n = task[c].units
    OBVIOUS
  <2>1. v \in VariantRows /\ n \in Counts /\ product.created
    BY <1>1, <1>6 DEF CommitSale, TasksSound, NothingBefore
  <2>2. n \in Int /\ -n \in Int
    BY <1>0, <2>1
  <2>3. /\ MoveBoth(v, -n) /\ f[s].state = "unused"
        /\ g = [f EXCEPT ![s] = [state |-> "live", variant |-> v, took |-> v, units |-> n]]
        /\ h = order' /\ UNCHANGED <<received, history>>
    BY <1>6 DEF CommitSale, LiveVariants, FreshSales
  <2>4. /\ g \in [SaleRows -> Sale] /\ g[s].state = "live" /\ g[s].took = v /\ g[s].units = n
        /\ \A r \in SaleRows \ {s} : g[r] = f[r]
    BY <1>2, <2>1, <2>2, <2>3 DEF Sale
  <2>5. ASSUME NEW V PROVE SoldIn(g, V) = SoldIn(f, V) + (IF v \in V THEN n ELSE 0)
    <3>1. f[s].state # "live"
      BY <2>3
    <3>2. SoldIn(g, V) = SoldIn(f, V) + (IF g[s].took \in V THEN g[s].units ELSE 0)
      BY <1>2, <2>4, <3>1, SoldGrows
    <3> QED
      BY <2>4, <3>2
  <2>6. /\ OutOfProduct' = OutOfProduct + n
        /\ \A u \in VariantRows : Out(u)' = Out(u) + (IF u = v THEN n ELSE 0)
    BY ZenonT(60), <1>5, <2>1, <2>2, <2>3, <2>5
  <2> PICK k : k = -n
    OBVIOUS
  <2>7. k \in Int /\ OutOfProduct' = OutOfProduct - k
    <3> PICK a : a = OutOfProduct
      OBVIOUS
    <3>1. a \in Int
      BY <1>3, <1>4
    <3> QED
      BY <2>2, <2>6, <3>1
  <2>8. \A u \in VariantRows : Out(u)' = Out(u) - (IF u = v THEN k ELSE 0)
    <3>1. ASSUME NEW u \in VariantRows PROVE Out(u)' = Out(u) - (IF u = v THEN k ELSE 0)
      <4> PICK a, b, i : a = Out(u) /\ b = SoldIn(f, {u})
                         /\ i = (IF u = MainVariant THEN HeldIn(h) ELSE 0)
        OBVIOUS
      <4>1. b \in Int /\ i \in Int /\ a = b + i
        BY <1>3, <1>4
      <4>2. Out(u)' = a + (IF u = v THEN n ELSE 0)
        BY <2>6
      <4>3. a + (IF u = v THEN n ELSE 0) = a - (IF u = v THEN k ELSE 0)
        BY <2>2, <4>1
      <4> QED
        BY <4>2, <4>3
    <3> QED
      BY <3>1
  <2>9. Accountable' => Accountable
    BY <2>1, <2>3, ReturnedSame DEF Accountable
  <2> QED
    BY <2>1, <2>3, <2>7, <2>8, <2>9, AccountMoves
<1>7. ASSUME CommitDelete(c) PROVE UnitsAccounted'
  <2> PICK s, n, v : s = task[c].sale /\ n = task[c].units /\ v = ReturnTo(task[c].variant)
    OBVIOUS
  <2>1. /\ task[c].pc = "unsell" /\ s \in SaleRows /\ f[s].state = "live"
        /\ n = f[s].units /\ v \in VariantRows /\ product.created
    BY <1>1, <1>7 DEF CommitDelete, TasksSound, LiveVariants, NothingBefore
  <2>2. /\ MoveBoth(v, n) /\ g = [f EXCEPT ![s].state = "deleted"]
        /\ h = order' /\ UNCHANGED received
        /\ history' = [history EXCEPT !.orderSaleDeleted = @ \/ sale[s].took = NoVariant]
    BY <1>7 DEF CommitDelete
  <2>3. n \in Int
    BY <1>0, <1>2, <2>1 DEF Sale
  <2> PICK stray : stray = (f[s].took = NoVariant)
    OBVIOUS
  <2>4. Accountable' => Accountable /\ ~stray
    BY <1>1, <2>1, <2>2, ReturnedSame DEF Accountable, InventoryTypeOK, History
  <2>5. CASE ~Accountable'
    BY <2>5 DEF UnitsAccounted, Accountable
  <2>6. CASE Accountable'
    <3>1. f[s].took # NoVariant /\ ~history.strayed
      BY <2>4, <2>6 DEF Accountable
    <3>2. f[s].took = v
      BY <1>1, <2>1, <3>1 DEF SalesSound, TasksSound, ReturnTo
    <3>3. /\ g \in [SaleRows -> Sale] /\ g[s].state # "live"
          /\ \A r \in SaleRows \ {s} : f[r] = g[r]
      BY <1>2, <2>1, <2>2 DEF Sale
    <3>4. \A V : SoldIn(f, V) = SoldIn(g, V) + (IF v \in V THEN n ELSE 0)
      BY <1>2, <2>1, <3>2, <3>3, SoldGrows
    <3> PICK k : k = -n
      OBVIOUS
    <3>5. k \in Int
      BY <2>3
    <3>6. \A V : SoldIn(g, V) \in Int
      BY <3>3, SoldTyped
    <3>7. \A V : SoldIn(g, V) = SoldIn(f, V) + (IF v \in V THEN k ELSE 0)
      <4>1. ASSUME NEW V PROVE SoldIn(g, V) = SoldIn(f, V) + (IF v \in V THEN k ELSE 0)
        <5> PICK a, b : a = SoldIn(f, V) /\ b = SoldIn(g, V)
          OBVIOUS
        <5>1. a \in Int /\ b \in Int /\ a = b + (IF v \in V THEN n ELSE 0)
          BY <1>3, <3>4, <3>6
        <5>2. b = a + (IF v \in V THEN k ELSE 0)
          BY <2>3, <5>1
        <5> QED
          BY <5>2
      <4> QED
        BY <4>1
    <3>8. /\ OutOfProduct' = OutOfProduct + k
          /\ \A u \in VariantRows : Out(u)' = Out(u) + (IF u = v THEN k ELSE 0)
      BY ZenonT(60), <1>5, <2>1, <2>2, <3>5, <3>7
    <3>9. OutOfProduct' = OutOfProduct - n
      <4> PICK a : a = OutOfProduct
        OBVIOUS
      <4>1. a \in Int
        BY <1>3, <1>4
      <4> QED
        BY <2>3, <3>8, <4>1
    <3>10. ASSUME NEW u \in VariantRows PROVE Out(u)' = Out(u) - (IF u = v THEN n ELSE 0)
      <4> PICK a, b, i : a = Out(u) /\ b = SoldIn(f, {u})
                         /\ i = (IF u = MainVariant THEN HeldIn(h) ELSE 0)
        OBVIOUS
      <4>1. b \in Int /\ i \in Int /\ a = b + i
        BY <1>3, <1>4
      <4>2. Out(u)' = a + (IF u = v THEN k ELSE 0)
        BY <3>8
      <4>3. a + (IF u = v THEN k ELSE 0) = a - (IF u = v THEN n ELSE 0)
        BY <2>3, <4>1
      <4> QED
        BY <4>2, <4>3
    <3> QED
      BY <2>1, <2>2, <2>3, <2>4, <3>9, <3>10, AccountMoves
  <2> QED
    BY <2>5, <2>6
<1> QED
  BY <1>6, <1>7

\* An order reserves units and frees them; what it sold it took when it was
\* placed.
LEMMA AccountOrders ==
    ASSUME InventoryRows, UnitsAccounted
    PROVE  /\ \A o \in OrderRows, units \in Counts : ReserveOrder(o, units) => UnitsAccounted'
           /\ \A o \in OrderRows :
                  MarkPaid(o) \/ CancelByWebhook(o) \/ EndPending(o) => UnitsAccounted'
           /\ \A o \in OrderRows : ReturnUnits(o) => UnitsAccounted'
           /\ \A o \in OrderRows, s \in SaleRows : SellOrder(o, s) => UnitsAccounted'
<1>0. /\ NoVariant \notin VariantRows /\ MainVariant \in VariantRows
      /\ \A n \in Counts \cup {0} : n \in Int /\ -n \in Int
      /\ \A n \in Counts : n \in Int /\ n > 0
  BY CountsTyped
<1>1. InventoryTypeOK /\ NothingBefore /\ MainLives /\ SalesSound /\ TasksSound
  BY DEF InventoryRows
<1> PICK f, g, h : f = sale /\ g = order /\ h = order'
  OBVIOUS
<1>2. f \in [SaleRows -> Sale] /\ g \in [OrderRows -> Order]
  BY <1>1 DEF InventoryTypeOK
<1>3. HeldIn(g) \in Int /\ \A V : SoldIn(f, V) \in Int
  BY <1>2, HeldTyped, SoldTyped
<1>4. /\ OutOfProduct = SoldIn(f, VariantRows) + HeldIn(g)
      /\ \A v : Out(v) = SoldIn(f, {v}) + (IF v = MainVariant THEN HeldIn(g) ELSE 0)
  BY OutIs
<1>5. ASSUME f = sale', NEW n \in Int, HeldIn(h) = HeldIn(g) - n
      PROVE  /\ OutOfProduct' = OutOfProduct - n
             /\ \A v \in VariantRows : Out(v)' = Out(v) - (IF v = MainVariant THEN n ELSE 0)
  <2>1. /\ OutOfProduct' = SoldIn(f, VariantRows) + HeldIn(h)
        /\ \A v : Out(v)' = SoldIn(f, {v}) + (IF v = MainVariant THEN HeldIn(h) ELSE 0)
    BY <1>5, OutWillBe
  <2>3. OutOfProduct' = OutOfProduct - n
    BY <1>3, <1>4, <1>5, <2>1
  <2>4. ASSUME NEW v \in VariantRows
        PROVE  Out(v)' = Out(v) - (IF v = MainVariant THEN n ELSE 0)
    <3> PICK a, i, k : a = SoldIn(f, {v}) /\ i = HeldIn(g) /\ k = HeldIn(h)
      OBVIOUS
    <3>1. a \in Int /\ i \in Int /\ k = i - n
      BY <1>3, <1>5
    <3>2. /\ Out(v)' = a + (IF v = MainVariant THEN k ELSE 0)
          /\ Out(v) = a + (IF v = MainVariant THEN i ELSE 0)
      BY <1>4, <2>1
    <3>3. a + (IF v = MainVariant THEN k ELSE 0)
            = (a + (IF v = MainVariant THEN i ELSE 0)) - (IF v = MainVariant THEN n ELSE 0)
      BY <1>5, <3>1
    <3> QED
      BY <3>2, <3>3
  <2> QED
    BY <2>3, <2>4
<1>6. ASSUME NEW o \in OrderRows, NEW units \in Counts, ReserveOrder(o, units)
      PROVE  UnitsAccounted'
  <2>1. /\ MoveBoth(MainVariant, -units) /\ product.stock >= units /\ g[o].state = "unused"
        /\ h = [g EXCEPT ![o] = [state |-> "pending", units |-> units,
                                 cancelled |-> 0, returned |-> 0]]
        /\ f = sale' /\ UNCHANGED <<received, history>>
    BY <1>6 DEF ReserveOrder
  <2>2. product.created
    BY <1>0, <1>1, <2>1 DEF NothingBefore
  <2>3. /\ h \in [OrderRows -> Order] /\ Holds(h[o]) /\ h[o].units = units
        /\ ~Holds(g[o]) /\ \A r \in OrderRows \ {o} : h[r] = g[r]
    BY <1>2, <2>1, InventoryAssumption DEF Order, Holds
  <2>4. HeldIn(h) = HeldIn(g) + units
    BY <1>2, <2>3, HeldGrows
  <2> PICK k : k = -units
    OBVIOUS
  <2>5. k \in Int /\ HeldIn(h) = HeldIn(g) - k
    BY <1>0, <1>3, <2>4
  <2>7. g[o].returned = 0
    BY <1>2, <2>1 DEF Order
  <2>6. Accountable' => Accountable
    <3>1. ASSUME \A r \in OrderRows : h[r].returned <= 1
          PROVE  \A r \in OrderRows : g[r].returned <= 1
      BY <2>3, <2>7, <3>1
    <3>2. ReturnedOnce' => ReturnedOnce
      BY <3>1 DEF ReturnedOnce
    <3> QED
      BY <2>1, <2>2, <3>2 DEF Accountable
  <2> QED
    BY <1>0, <1>5, <2>1, <2>5, <2>6, AccountMoves
<1>7. ASSUME NEW o \in OrderRows, ReturnUnits(o) PROVE UnitsAccounted'
  <2> PICK n : n = order[o].units
    OBVIOUS
  <2>1. /\ MoveBoth(MainVariant, n) /\ g[o].state # "unused" /\ n = g[o].units
        /\ h = [g EXCEPT ![o].returned = @ + 1]
        /\ f = sale' /\ UNCHANGED <<received, history>>
    BY <1>1, <1>7, HasReturns DEF ReturnUnits
  <2>2. n \in Int /\ product.created /\ g[o].returned \in Nat
    BY <1>0, <1>1, <2>1 DEF NothingBefore, InventoryTypeOK, Order
  <2>3. /\ h \in [OrderRows -> Order] /\ h[o].returned = g[o].returned + 1
        /\ \A r \in OrderRows \ {o} : g[r] = h[r]
    BY <1>2, <2>1 DEF Order
  <2>8. ASSUME ReturnedOnce' PROVE ReturnedOnce /\ g[o].returned = 0
    <3>1. h[o].returned <= 1 /\ \A r \in OrderRows \ {o} : g[r].returned <= 1
      BY <2>3, <2>8 DEF ReturnedOnce
    <3>2. g[o].returned = 0
      BY <2>2, <2>3, <3>1
    <3> QED
      BY <3>1, <3>2 DEF ReturnedOnce
  <2>6. Accountable' => Accountable /\ g[o].returned = 0
    BY <2>1, <2>2, <2>8 DEF Accountable
  <2>9. CASE ~Accountable'
    BY <2>9 DEF UnitsAccounted, Accountable
  <2>10. CASE Accountable'
    <3>1. HeldIn(g) = HeldIn(h) + n
      <4>1. Holds(g[o]) /\ ~Holds(h[o])
        BY <2>1, <2>3, <2>6, <2>10 DEF Holds
      <4>2. HeldIn(g) = HeldIn(h) + g[o].units
        BY <1>2, <2>3, <4>1, HeldGrows
      <4> QED
        BY <2>1, <4>2
    <3>2. HeldIn(h) \in Int
      BY <2>3, HeldTyped
    <3>3. HeldIn(h) = HeldIn(g) - n
      BY <2>2, <3>1, <3>2
    <3> QED
      BY <1>0, <1>5, <2>1, <2>2, <2>6, <3>3, AccountMoves
  <2> QED
    BY <2>9, <2>10
<1>9. ASSUME NEW o \in OrderRows, MarkPaid(o) \/ CancelByWebhook(o) \/ EndPending(o)
      PROVE  UnitsAccounted'
  <2>1. /\ UNCHANGED <<product, variant, received, history>> /\ f = sale'
        /\ h \in [OrderRows -> Order]
        /\ \A r \in OrderRows : /\ Holds(h[r]) <=> Holds(g[r])
                                /\ h[r].units = g[r].units /\ h[r].returned = g[r].returned
    BY <1>9, OrderRestated
  <2>2. HeldIn(h) = HeldIn(g)
    BY <1>2, <2>1, HeldSame
  <2>3. /\ OutOfProduct' = SoldIn(f, VariantRows) + HeldIn(h)
        /\ \A v : Out(v)' = SoldIn(f, {v}) + (IF v = MainVariant THEN HeldIn(h) ELSE 0)
    BY <2>1, OutWillBe
  <2>4. OutOfProduct' = OutOfProduct /\ \A v : Out(v)' = Out(v)
    BY <1>4, <2>2, <2>3
  <2>5. ReturnedOnce' => ReturnedOnce
    BY <2>1 DEF ReturnedOnce
  <2> QED
    BY <2>1, <2>4, <2>5 DEF UnitsAccounted, LiveVariants
<1>8. ASSUME NEW o \in OrderRows, NEW s \in SaleRows, SellOrder(o, s) PROVE UnitsAccounted'
  <2> PICK n, e : n = order[o].units /\ e = sale'
    OBVIOUS
  <2>1. /\ g[o].state # "unused" /\ f[s].state = "unused" /\ n = g[o].units
        /\ h = [g EXCEPT ![o].state = "settled"]
        /\ e = [f EXCEPT ![s] = [state |-> "live", variant |-> MainVariant,
                                 took |-> NoVariant, units |-> n]]
        /\ UNCHANGED <<product, variant, received, history>>
    BY <1>8 DEF SellOrder, FreshSales
  <2>9. /\ g[o] \in Order /\ g[o].units \in Counts \cup {0}
        /\ [g[o] EXCEPT !.state = "settled"] \in Order
        /\ [g[o] EXCEPT !.state = "settled"].state = "settled"
        /\ [g[o] EXCEPT !.state = "settled"].returned = g[o].returned
        /\ [g[o] EXCEPT !.state = "settled"].units = g[o].units
    BY <1>2 DEF Order
  <2>2. /\ h \in [OrderRows -> Order] /\ n \in Counts \cup {0}
        /\ \A r \in OrderRows : /\ Holds(h[r]) <=> Holds(g[r])
                                /\ h[r].units = g[r].units /\ h[r].returned = g[r].returned
    BY <1>2, <2>1, <2>9 DEF Holds
  <2>10. ReturnedOnce' => ReturnedOnce
    BY <2>2 DEF ReturnedOnce
  <2>3. /\ e \in [SaleRows -> Sale] /\ e[s].state = "live" /\ e[s].took = NoVariant
        /\ f[s].state # "live" /\ \A r \in SaleRows \ {s} : e[r] = f[r]
    BY <1>0, <1>2, <2>1, <2>2 DEF Sale
  <2>4. HeldIn(h) = HeldIn(g)
    BY <1>2, <2>2, HeldSame
  <2>5. ASSUME NEW V \in SUBSET VariantRows PROVE SoldIn(e, V) = SoldIn(f, V)
    <3>1. SoldIn(e, V) = SoldIn(f, V) + (IF e[s].took \in V THEN e[s].units ELSE 0)
      BY <1>2, <2>3, SoldGrows
    <3>2. e[s].took \notin V
      BY <1>0, <2>3
    <3> QED
      BY <1>3, <3>1, <3>2
  <2>6. /\ OutOfProduct' = SoldIn(e, VariantRows) + HeldIn(h)
        /\ \A v : Out(v)' = SoldIn(e, {v}) + (IF v = MainVariant THEN HeldIn(h) ELSE 0)
    BY OutWillBe
  <2>7. OutOfProduct' = OutOfProduct
    BY <1>4, <2>4, <2>5, <2>6
  <2>8. ASSUME NEW v \in VariantRows PROVE Out(v)' = Out(v)
    <3>1. SoldIn(e, {v}) = SoldIn(f, {v})
      BY <2>5
    <3> QED
      BY <3>1, <1>4, <2>4, <2>6
  <2> QED
    BY <2>1, <2>7, <2>8, <2>10 DEF UnitsAccounted, LiveVariants
<1> QED
  BY <1>6, <1>7, <1>8, <1>9

\* Nothing is out of a product that was not there.
LEMMA AccountStarts ==
    ASSUME InventoryRows, ~product.created, UNCHANGED order
    PROVE  /\ UNCHANGED sale => OutOfProduct' = 0 /\ \A v : Out(v)' = 0
           /\ \A s \in SaleRows, n \in Counts :
                  sale' = [sale EXCEPT ![s] = [state |-> "live", variant |-> MainVariant,
                                               took |-> MainVariant, units |-> n]]
                  => OutOfProduct' = n /\ Out(MainVariant)' = n
<1>0. MainVariant \in VariantRows /\ \A n \in Counts : n \in Int
  BY CountsTyped
<1>1. InventoryTypeOK /\ NothingBefore
  BY DEF InventoryRows
<1> PICK f, g, h : f = sale /\ g = sale' /\ h = order
  OBVIOUS
<1>2. /\ \A s \in SaleRows : f[s].state = "unused"
      /\ \A o \in OrderRows : ~Holds(order[o])
      /\ f \in [SaleRows -> Sale]
  BY <1>1 DEF NothingBefore, InventoryTypeOK, Holds
<1>3. HeldIn(h) = 0 /\ \A V : SoldIn(f, V) = 0
  BY <1>2, NothingHeld, NothingOut
<1>4. /\ OutOfProduct' = SoldIn(g, VariantRows) + HeldIn(h)
      /\ \A v : Out(v)' = SoldIn(g, {v}) + (IF v = MainVariant THEN HeldIn(h) ELSE 0)
  <2>1. h = order'
    OBVIOUS
  <2> QED
    BY <2>1, OutWillBe
<1>5. ASSUME UNCHANGED sale PROVE OutOfProduct' = 0 /\ \A v : Out(v)' = 0
  <2>1. g = f
    BY <1>5
  <2>2. ASSUME NEW v PROVE Out(v)' = 0
    <3>1. Out(v)' = 0 + (IF v = MainVariant THEN 0 ELSE 0)
      BY <1>3, <1>4, <2>1
    <3> QED
      BY <3>1
  <2>3. OutOfProduct' = 0 + 0
    BY <1>3, <1>4, <2>1
  <2> QED
    BY <2>2, <2>3
<1>6. ASSUME NEW s \in SaleRows, NEW n \in Counts,
             g = [f EXCEPT ![s] = [state |-> "live", variant |-> MainVariant,
                                   took |-> MainVariant, units |-> n]]
      PROVE  OutOfProduct' = n /\ Out(MainVariant)' = n
  <2>1. /\ g \in [SaleRows -> Sale] /\ g[s].state = "live" /\ g[s].took = MainVariant
        /\ g[s].units = n /\ f[s].state # "live" /\ \A r \in SaleRows \ {s} : g[r] = f[r]
    BY <1>0, <1>2, <1>6 DEF Sale
  <2>2. ASSUME NEW V, MainVariant \in V PROVE SoldIn(g, V) = n
    <3>1. SoldIn(g, V) = SoldIn(f, V) + (IF g[s].took \in V THEN g[s].units ELSE 0)
      BY <1>2, <2>1, SoldGrows
    <3> QED
      BY <1>0, <1>3, <2>1, <2>2, <3>1
  <2>3. SoldIn(g, VariantRows) = n /\ SoldIn(g, {MainVariant}) = n
    BY <1>0, <2>2
  <2> QED
    BY <1>0, <1>3, <1>4, <2>3
<1> QED
  BY <1>5, <1>6

LEMMA AccountStep ==
    ASSUME InventoryRows, InventoryRows', UnitsAccounted, [InventoryNext]_inventoryVars
    PROVE  UnitsAccounted'
<1>0. /\ MainVariant \in VariantRows /\ NoVariant \notin VariantRows
      /\ \A n \in Counts : n \in Int /\ n > 0
  BY CountsTyped
<1>1. InventoryTypeOK /\ NothingBefore /\ MainLives /\ SalesSound /\ TasksSound
  BY DEF InventoryRows
<1>2. OutOfProduct \in Int /\ \A v \in VariantRows : Out(v) \in Int
  <2> PICK f, g : f = sale /\ g = order
    OBVIOUS
  <2>1. f \in [SaleRows -> Sale] /\ g \in [OrderRows -> Order]
    BY <1>1 DEF InventoryTypeOK
  <2>2. HeldIn(g) \in Int /\ \A V : SoldIn(f, V) \in Int
    BY <2>1, HeldTyped, SoldTyped
  <2>3. /\ OutOfProduct = SoldIn(f, VariantRows) + HeldIn(g)
        /\ \A v : Out(v) = SoldIn(f, {v}) + (IF v = MainVariant THEN HeldIn(g) ELSE 0)
    BY OutIs
  <2>4. ASSUME NEW v PROVE Out(v) \in Int
    <3> PICK a, i : a = SoldIn(f, {v}) /\ i = (IF v = MainVariant THEN HeldIn(g) ELSE 0)
      OBVIOUS
    <3>1. a \in Int /\ i \in Int
      BY <2>2
    <3>2. Out(v) = a + i
      BY <2>3
    <3> QED
      BY <3>1, <3>2
  <2>5. OutOfProduct \in Int
    BY <2>2, <2>3
  <2> QED
    BY <2>4, <2>5
<1>3. CASE UNCHANGED inventoryVars
  BY <1>3, AccountStays, ReturnedSame DEF inventoryVars, Accountable
<1>4. ASSUME NEW c \in Clerks, UNCHANGED <<product, variant, sale, order, received, history>>
       PROVE  UnitsAccounted'
  BY <1>4, AccountStays, ReturnedSame DEF Accountable
<1>5. ASSUME NEW n \in Counts, CreateProduct(n) PROVE UnitsAccounted'
  <2>1. /\ ~product.created /\ UNCHANGED <<sale, order>>
        /\ product' = [product EXCEPT !.created = TRUE, !.stock = n]
        /\ variant' = [variant EXCEPT ![MainVariant] = [state |-> "live", stock |-> n]]
        /\ received' = [product |-> n, variant |-> [received.variant EXCEPT ![MainVariant] = n]]
    BY <1>5 DEF CreateProduct
  <2>2. OutOfProduct' = 0 /\ \A v : Out(v)' = 0
    BY <2>1, AccountStarts
  <2>3. /\ product'.stock = n /\ n + 0 = n /\ received'.product = n
        /\ received'.variant[MainVariant] = n
        /\ variant'[MainVariant].stock = n
        /\ \A v \in VariantRows \ {MainVariant} : variant'[v].state = "unused"
    BY <1>0, <1>1, <2>1 DEF InventoryTypeOK, NothingBefore, Product
  <2> QED
    BY <2>2, <2>3 DEF UnitsAccounted, LiveVariants
<1>6. ASSUME NEW s \in SaleRows, NEW n \in Counts, NEW units \in Counts, SellNewProduct(s, n, units)
      PROVE  UnitsAccounted'
  <2> PICK k : k = n - units
    OBVIOUS
  <2>1. /\ ~product.created /\ UNCHANGED order
        /\ product' = [product EXCEPT !.created = TRUE, !.stock = k]
        /\ variant' = [variant EXCEPT ![MainVariant] = [state |-> "live", stock |-> k]]
        /\ received' = [product |-> n, variant |-> [received.variant EXCEPT ![MainVariant] = n]]
        /\ sale' = [sale EXCEPT ![s] = [state |-> "live", variant |-> MainVariant,
                                        took |-> MainVariant, units |-> units]]
    BY <1>6 DEF SellNewProduct
  <2>2. OutOfProduct' = units /\ Out(MainVariant)' = units
    BY <2>1, AccountStarts
  <2>3. /\ product'.stock = k /\ received'.product = n
        /\ received'.variant[MainVariant] = n
        /\ variant'[MainVariant].stock = k
        /\ \A v \in VariantRows \ {MainVariant} : variant'[v].state = "unused"
    BY <1>0, <1>1, <2>1 DEF InventoryTypeOK, NothingBefore, Product
  <2>4. k + units = n
    BY <1>0
  <2> QED
    BY <2>2, <2>3, <2>4 DEF UnitsAccounted, LiveVariants
<1>7. ASSUME NEW v \in VariantRows, NEW n \in Counts, NEW m \in Counts,
             QuickCreateWithVariants(v, n, m)
      PROVE  UnitsAccounted'
  <2> PICK k : k = n + m
    OBVIOUS
  <2>1. /\ ~product.created /\ UNCHANGED <<sale, order>> /\ v # MainVariant
        /\ product' = [product EXCEPT !.created = TRUE, !.stock = k]
        /\ variant' = [variant EXCEPT ![MainVariant] = [state |-> "live", stock |-> n],
                                      ![v] = [state |-> "live", stock |-> m]]
        /\ received' = [product |-> k,
                    variant |-> [received.variant EXCEPT ![MainVariant] = n, ![v] = m]]
    BY <1>7 DEF QuickCreateWithVariants
  <2>2. OutOfProduct' = 0 /\ \A u : Out(u)' = 0
    BY <2>1, AccountStarts
  <2>3. /\ product'.stock = k /\ received'.product = k
        /\ received'.variant[MainVariant] = n /\ received'.variant[v] = m
        /\ variant'[MainVariant].stock = n /\ variant'[v].stock = m
        /\ \A u \in VariantRows \ {MainVariant, v} : variant'[u].state = "unused"
    BY <1>0, <1>1, <2>1 DEF InventoryTypeOK, NothingBefore, Product
  <2>4. k + 0 = k /\ n + 0 = n /\ m + 0 = m
    BY <1>0
  <2> QED
    BY <2>2, <2>3, <2>4 DEF UnitsAccounted, LiveVariants
<1>8. ASSUME NEW active \in BOOLEAN, SetActive(active) PROVE UnitsAccounted'
  <2>1. product'.created = product.created /\ product'.stock = product.stock
    BY <1>1, <1>8 DEF SetActive, InventoryTypeOK, Product
  <2>2. UNCHANGED <<variant, sale, order, received, history>>
    BY <1>8 DEF SetActive
  <2> QED
    BY <2>1, <2>2, AccountStays, ReturnedSame DEF Accountable
<1>9. ASSUME NEW c \in Clerks, CommitAdjustment(c) PROVE UnitsAccounted'
  <2> PICK n : n = task[c].units
    OBVIOUS
  <2>1. /\ n \in Int /\ MoveBoth(MainVariant, n) /\ product.created
        /\ history' = [history EXCEPT !.lowered = @ \/ n < 0]
        /\ received' = [product |-> received.product + n,
                        variant |-> [received.variant EXCEPT ![MainVariant] = @ + n]]
        /\ UNCHANGED <<sale, order>>
    BY <1>1, <1>9 DEF CommitAdjustment, InventoryTypeOK, Task, NothingBefore
  <2>2. Accountable' => Accountable
    BY <1>1, <2>1, ReturnedSame DEF Accountable, InventoryTypeOK, History
  <2>3. OutOfProduct' = OutOfProduct /\ \A v : Out(v)' = Out(v)
    BY <2>1, OutStays
  <2>4. /\ product'.stock = product.stock + n
        /\ \A u \in VariantRows :
                /\ variant'[u].state = variant[u].state
                /\ variant'[u].stock = IF u = MainVariant THEN variant[u].stock + n
                                       ELSE variant[u].stock
    BY <1>0, <1>1, <2>1, MovesTyped
  <2>5. /\ received'.product = received.product + n
        /\ \A u \in VariantRows :
             received'.variant[u] = IF u = MainVariant THEN received.variant[u] + n
                                    ELSE received.variant[u]
    BY <1>1, <2>1 DEF InventoryTypeOK
  <2>6. product.stock \in Int /\ \A u \in VariantRows : variant[u].stock \in Int
    BY <1>1 DEF InventoryTypeOK, Product, Variant
  <2> SUFFICES ASSUME Accountable, Accountable' PROVE UnitsAccounted'
    BY <2>2 DEF UnitsAccounted, Accountable
  <2>7. /\ product.stock + OutOfProduct = received.product
        /\ \A v \in VariantRows : variant[v].state = "live" =>
               variant[v].stock + Out(v) = received.variant[v]
    BY DEF UnitsAccounted, Accountable, LiveVariants
  <2>8. product'.stock + OutOfProduct' = received'.product
    <3> PICK a, b, d : a = product.stock /\ b = OutOfProduct /\ d = received.product
      OBVIOUS
    <3>1. a \in Int /\ b \in Int /\ d = a + b
      BY <1>2, <2>6, <2>7
    <3>2. (a + n) + b = (a + b) + n
      BY <2>1, <3>1
    <3> QED
      BY <2>3, <2>4, <2>5, <3>1, <3>2
  <2>9. ASSUME NEW v \in VariantRows, variant'[v].state = "live"
        PROVE  variant'[v].stock + Out(v)' = received'.variant[v]
    <3> PICK a, b, d : a = variant[v].stock /\ b = Out(v) /\ d = received.variant[v]
      OBVIOUS
    <3>1. a \in Int /\ b \in Int /\ d = a + b
      BY <1>2, <2>4, <2>6, <2>7, <2>9
    <3>2. (a + n) + b = (a + b) + n
      BY <2>1, <3>1
    <3> QED
      BY <2>3, <2>4, <2>5, <3>1, <3>2
  <2> QED
    BY <2>8, <2>9 DEF UnitsAccounted, LiveVariants
<1>10. ASSUME NEW c \in Clerks, NEW v \in VariantRows, NEW n \in Counts, UpdateVariant(c, v, n)
       PROVE  UnitsAccounted'
  <2> PICK w : w = n + Out(v)
    OBVIOUS
  <2>1. /\ UNCHANGED <<product, sale, order>> /\ variant' = [variant EXCEPT ![v].stock = n]
        /\ received' = [received EXCEPT !.variant[v] = w]
        /\ history' = [history EXCEPT !.reshaped = TRUE]
    BY <1>10 DEF UpdateVariant
  <2>2. Accountable' => Accountable
    BY <1>1, <2>1, ReturnedSame DEF Accountable, InventoryTypeOK, History
  <2>3. OutOfProduct' = OutOfProduct /\ \A u : Out(u)' = Out(u)
    BY <2>1, OutStays
  <2>4. /\ received'.product = received.product
        /\ \A u \in VariantRows :
             /\ received'.variant[u] = IF u = v THEN w ELSE received.variant[u]
             /\ variant'[u].state = variant[u].state
             /\ variant'[u].stock = IF u = v THEN n ELSE variant[u].stock
    BY <1>1, <2>1 DEF InventoryTypeOK, Variant
  <2> QED
    BY <2>1, <2>2, <2>3, <2>4 DEF UnitsAccounted, Accountable, LiveVariants
<1>11. ASSUME NEW c \in Clerks, UpdateProductStock(c) PROVE UnitsAccounted'
  <2> PICK n, w : n = task[c].units /\ w = n + OutOfProduct
    OBVIOUS
  <2>1. /\ UNCHANGED <<variant, sale, order, history>>
        /\ product' = [product EXCEPT !.stock = n]
        /\ received' = [received EXCEPT !.product = w] /\ product.created
    BY <1>1, <1>11 DEF UpdateProductStock, NothingBefore
  <2>2. Accountable' => Accountable
    BY <2>1, ReturnedSame DEF Accountable
  <2>3. OutOfProduct' = OutOfProduct /\ \A u : Out(u)' = Out(u)
    BY <2>1, OutStays
  <2>4. /\ received'.product = w /\ received'.variant = received.variant
        /\ product'.stock = n
    BY <1>1, <2>1 DEF InventoryTypeOK, Product
  <2> QED
    BY <2>1, <2>2, <2>3, <2>4 DEF UnitsAccounted, Accountable, LiveVariants
<1>12. ASSUME NEW v \in VariantRows, NEW n \in Counts, UpdateVariantWithAttributes(v, n)
       PROVE  UnitsAccounted'
  <2> PICK w, q : w = n + Out(v) /\ q = n + OutOfProduct
    OBVIOUS
  <2>1. /\ UNCHANGED <<sale, order>> /\ variant' = [variant EXCEPT ![v].stock = n]
        /\ \/ /\ v = MainVariant /\ product' = [product EXCEPT !.stock = n]
              /\ received' = [product |-> q, variant |-> [received.variant EXCEPT ![v] = w]]
           \/ received' = [received EXCEPT !.variant[v] = w] /\ UNCHANGED product
        /\ history' = [history EXCEPT !.reshaped = TRUE]
    BY <1>12 DEF UpdateVariantWithAttributes
  <2>5. product.created
    BY <1>1, <1>12 DEF UpdateVariantWithAttributes, LiveVariants, NothingBefore
  <2>2. Accountable' => Accountable
    BY <1>1, <2>1, <2>5, ReturnedSame DEF Accountable, InventoryTypeOK, History
  <2>3. OutOfProduct' = OutOfProduct /\ \A u : Out(u)' = Out(u)
    BY <2>1, OutStays
  <2>4. \A u \in VariantRows :
             /\ received'.variant[u] = IF u = v THEN w ELSE received.variant[u]
             /\ variant'[u].state = variant[u].state
             /\ variant'[u].stock = IF u = v THEN n ELSE variant[u].stock
    BY <1>1, <2>1 DEF InventoryTypeOK, Variant
  <2>6. \/ product'.stock = n /\ received'.product = q
        \/ product'.stock = product.stock /\ received'.product = received.product
    BY <1>1, <2>1 DEF InventoryTypeOK, Product
  <2> QED
    BY <2>2, <2>3, <2>4, <2>6 DEF UnitsAccounted, Accountable, LiveVariants
<1>13. ASSUME NEW v \in VariantRows, NEW n \in Counts, CreateVariant(v, n) PROVE UnitsAccounted'
  <2>1. /\ UNCHANGED <<product, sale, order>> /\ v # MainVariant /\ variant[v].state = "unused"
        /\ variant' = [variant EXCEPT ![v] = [state |-> "live", stock |-> n]]
        /\ received' = [received EXCEPT !.variant[v] = n]
        /\ history' = [history EXCEPT !.reshaped = TRUE]
    BY <1>13 DEF CreateVariant, FreshVariants
  <2>2. Accountable' => Accountable
    BY <1>1, <2>1, ReturnedSame DEF Accountable, InventoryTypeOK, History
  <2>3. OutOfProduct' = OutOfProduct /\ \A u : Out(u)' = Out(u)
    BY <2>1, OutStays
  <2>4. /\ received'.product = received.product
        /\ \A u \in VariantRows :
             /\ received'.variant[u] = IF u = v THEN n ELSE received.variant[u]
             /\ u # v => variant'[u] = variant[u]
             /\ u = v => variant'[u].stock = n
    BY <1>1, <2>1 DEF InventoryTypeOK, Variant
  <2>5. Out(v) = 0
    <3> PICK f, g : f = sale /\ g = order
      OBVIOUS
    <3>1. \A s \in SaleRows : sale[s].state = "live" => sale[s].took \notin {v}
      BY <1>0, <1>1, <2>1 DEF SalesSound
    <3>2. SoldIn(f, {v}) = 0
      BY <3>1, NothingOut
    <3>3. Out(v) = SoldIn(f, {v}) + (IF v = MainVariant THEN HeldIn(g) ELSE 0)
      BY OutIs
    <3> QED
      BY <2>1, <3>2, <3>3
  <2>6. n + 0 = n
    BY <1>0
  <2> QED
    BY <2>1, <2>2, <2>3, <2>4, <2>5, <2>6 DEF UnitsAccounted, Accountable, LiveVariants
<1>14. ASSUME NEW c \in Clerks, DropVariant(c) PROVE UnitsAccounted'
  <2> PICK v : v = task[c].variant
    OBVIOUS
  <2> DEFINE strays == {s \in SaleRows : sale[s].state = "live" /\ sale[s].variant = v}
  <2>1. /\ variant' = [variant EXCEPT ![v].state = "deleted"]
        /\ UNCHANGED <<product, order, received>>
        /\ sale' = [s \in SaleRows |-> IF s \in strays
                                    THEN [sale[s] EXCEPT !.variant = NoVariant] ELSE sale[s]]
        /\ history' = [history EXCEPT !.reshaped = TRUE, !.strayed = @ \/ strays # {}]
    BY <1>14 DEF DropVariant
  <2>2. strays = {} => sale' = sale
    BY <1>1, <2>1 DEF InventoryTypeOK
  <2> HIDE DEF strays
  <2>3. Accountable' => Accountable /\ strays = {}
    BY <1>1, <2>1, ReturnedSame DEF Accountable, InventoryTypeOK, History
  <2>4. \A u \in VariantRows : variant'[u].state = "live" => variant'[u] = variant[u]
    BY <1>1, <2>1 DEF InventoryTypeOK, Variant
  <2>5. CASE ~Accountable'
    BY <2>5 DEF UnitsAccounted, Accountable
  <2>6. CASE Accountable'
    BY <2>1, <2>2, <2>3, <2>4, <2>6, AccountStays
  <2> QED
    BY <2>5, <2>6
<1>15. CASE InventoryNext
  BY <1>15, <1>4, <1>5, <1>6, <1>7, <1>8, <1>9, <1>10, <1>11, <1>12, <1>13, <1>14,
     AccountSales, AccountOrders
  DEF InventoryNext, ValidateSale, ReadSale, RollBackSale, RollBackDelete, CheckAdjustment,
      EditAbandoned, CheckVariantUnsold, DropFails, StartTask
<1> QED
  BY <1>3, <1>15

LEMMA AccountBegins == InventoryInit => UnitsAccounted
  BY DEF InventoryInit, UnitsAccounted

\* Every unit is on the shelf or out with a sale or an order that may bring
\* it back, however the requests overlap and wherever an edit stops.
THEOREM UnitsAccountedAlways == InventorySpec => []UnitsAccounted
  BY AccountBegins, AccountStep, InventoryRowsInvariant, PTL DEF InventorySpec

-----------------------------------------------------------------------------
(* The people.  A row of the database that no overlap has touched has at    *)
(* most one request under way, so what the request read still holds when    *)
(* it writes, and a temporary password stays what was stored until its mail *)
(* is out.  That a client is claimed once is the work of the unique key.    *)

AccountRows ==
    [email : Emails \cup {NoEmail}, google : Emails \cup {NoEmail},
     password : People \cup {NoOne}, mustChange : BOOLEAN, active : BOOLEAN,
     client : ClientRows \cup {NoOne}]
ClientRecords == [email : Emails \cup {NoEmail}, state : {"absent", "active", "deleted"}]
Requests ==
    [pc : {"new", "write", "mail", "done"}, kind : CustomerKinds \cup ClientKinds \cup {"none"},
     row : Accounts \cup ClientRows \cup {NoOne}, email : Emails \cup {NoEmail},
     client : ClientRows \cup {NoOne}]

PeopleRows ==
    /\ account \in [Accounts -> AccountRows]
    /\ client \in [ClientRows -> ClientRecords]
    /\ mailed \in [Accounts -> People \cup {NoOne}]
    /\ request \in [People -> Requests]

Busy(r) == request[r].pc \in {"write", "mail"}

\* A request that is under way has a row of its kind.
RowOfKind(r) ==
    Busy(r) => /\ request[r].kind \in CustomerKinds => request[r].row \in Accounts
               /\ request[r].kind \in ClientKinds => request[r].row \in ClientRows

\* Two requests that are under way for one row overlapped there; two about
\* clients overlapped on every client, whose e-mails they may have read.
OneEach(r, s) ==
    Busy(r) /\ Busy(s) /\ r # s =>
        /\ request[r].row = request[s].row => request[r].row \in entangled
        /\ request[r].kind \in ClientKinds /\ request[s].kind \in ClientKinds =>
               ClientRows \subseteq entangled

\* The e-mail a request is about to write is still free among the clients.
StillFree(r) ==
    Busy(r) /\ request[r].kind \in {"clientCreate", "clientEmail"}
        /\ ~(ClientRows \subseteq entangled) /\ request[r].email # NoEmail =>
            \A n \in ClientRows : client[n].state = "active" =>
                client[n].email # request[r].email

\* The temporary password of a request that has still to mail it is stored.
StillStored(r) ==
    request[r].pc = "mail" /\ request[r].row \notin entangled =>
        account[request[r].row].password = r

\* A customer who must change the password has it by mail, or it is going out.
MailedOrComing(k) ==
    k \notin entangled /\ account[k].mustChange =>
        \/ mailed[k] = account[k].password
        \/ \E r \in People : request[r].pc = "mail" /\ request[r].row = k

PeopleInv ==
    /\ PeopleRows
    /\ \A r \in People : RowOfKind(r) /\ StillFree(r) /\ StillStored(r)
    /\ \A r, s \in People : OneEach(r, s)
    /\ \A k \in CustomerRows : MailedOrComing(k)
    /\ ClientEmailsDistinct
    /\ ClaimedOnce

LEMMA PeopleBegin == AccountsInit => PeopleInv
<1> SUFFICES ASSUME AccountsInit PROVE PeopleInv
  OBVIOUS
<1>1. NoAccount \in AccountRows /\ NoClientRow \in ClientRecords /\ NotSent \in Requests
  BY DEF NoAccount, AccountRows, NoClientRow, ClientRecords, NotSent, Requests
<1>2. PeopleRows
  BY <1>1 DEF AccountsInit, PeopleRows
<1>3. \A r \in People : request[r].pc = "new"
  BY DEF AccountsInit, NotSent
<1>4. \A k \in Accounts : ~account[k].mustChange /\ account[k].client = NoOne
  BY DEF AccountsInit, NoAccount
<1>5. \A n \in ClientRows : client[n].state = "absent"
  BY DEF AccountsInit, NoClientRow
<1>6. CustomerRows \subseteq Accounts
  BY DEF Accounts
<1> QED
  BY <1>2, <1>3, <1>4, <1>5, <1>6
  DEF PeopleInv, RowOfKind, StillFree, StillStored, OneEach, Busy, MailedOrComing,
      ClientEmailsDistinct, ActiveClients, ClaimedOnce

\* A request that is made: it has passed the checks of its kind.
Asked(r) ==
    \E kind \in CustomerKinds \cup ClientKinds, k \in Accounts \cup ClientRows,
       e \in Emails \cup {NoEmail}, n \in ClientRows \cup {NoOne} : \E rows \in {{k}, ClientRows} :
        /\ Checked(r, kind, k, e, n, rows)
        /\ kind \in CustomerKinds => k \in Accounts /\ k \in rows
        /\ kind \in ClientKinds => k \in ClientRows /\ rows = ClientRows
        /\ kind \in {"clientCreate", "clientEmail"} => ClientEmailFree(e)

LEMMA AskedAbout ==
    ASSUME NEW r \in People, NEW kind \in CustomerKinds, NEW k \in Accounts,
           NEW e \in Emails \cup {NoEmail}, NEW n \in ClientRows \cup {NoOne},
           Checked(r, kind, k, e, n, {k})
    PROVE  Asked(r)
<1> DEFINE rows == {k}
<1>1. rows \in {{k}, ClientRows} /\ k \in rows
  OBVIOUS
<1>2. Checked(r, kind, k, e, n, rows)
  OBVIOUS
<1>3. kind \notin ClientKinds
  BY DEF CustomerKinds, ClientKinds
<1>4. kind \notin {"clientCreate", "clientEmail"}
  BY DEF CustomerKinds
<1> HIDE DEF rows
<1> QED
  BY <1>1, <1>2, <1>3, <1>4 DEF Asked

LEMMA AskedAboutClient ==
    ASSUME NEW r \in People, NEW kind \in ClientKinds, NEW m \in ClientRows,
           NEW e \in Emails \cup {NoEmail},
           Checked(r, kind, m, e, NoOne, ClientRows),
           kind \in {"clientCreate", "clientEmail"} => ClientEmailFree(e)
    PROVE  Asked(r)
<1>1. kind \notin CustomerKinds
  BY DEF CustomerKinds, ClientKinds
<1>2. /\ kind \in CustomerKinds \cup ClientKinds
      /\ m \in Accounts \cup ClientRows
      /\ NoOne \in ClientRows \cup {NoOne}
      /\ ClientRows \in {{m}, ClientRows}
  OBVIOUS
<1> QED
  BY <1>1, <1>2 DEF Asked

LEMMA PeopleSteps ==
    ASSUME AccountsNext
    PROVE  \E r \in People :
               Asked(r) \/ WriteAccount(r) \/ WriteClient(r) \/ MailTemporary(r) \/ Fails(r)
<1>1. PICK r \in People :
        \/ \E k \in Accounts :
               \/ \E e \in Emails :
                      \/ CreateUser(r, k, e) \/ RegisterCustomer(r, k, e) \/ UpdateUser(r, k, e)
                      \/ UpdateCustomerProfile(r, k, e) \/ UpdateCustomer(r, k, e)
                      \/ GoogleAuth(r, k, e)
               \/ ForgotCustomerPassword(r, k) \/ ResetCustomerPassword(r, k)
               \/ ChangePassword(r, k) \/ ChangeCustomerPassword(r, k)
               \/ \E active \in BOOLEAN : SetAccountActive(r, k, active)
               \/ \E n \in ClientRows : ClaimClient(r, k, n)
        \/ \E n \in ClientRows :
               \/ \E e \in Emails \cup {NoEmail} : CreateClient(r, n, e)
               \/ \E e \in Emails : UpdateClient(r, n, e)
               \/ DeleteClient(r, n)
        \/ WriteAccount(r) \/ WriteClient(r) \/ MailTemporary(r) \/ Fails(r)
  BY Zenon DEF AccountsNext
<1>2. {"create", "email", "google", "googleNew", "temporary", "password",
       "activate", "deactivate", "claim"} \subseteq CustomerKinds
      /\ {"clientCreate", "clientEmail", "clientDelete"} \subseteq ClientKinds
  BY DEF CustomerKinds, ClientKinds
<1>3. ASSUME NEW k \in Accounts, NEW e \in Emails,
             \/ CreateUser(r, k, e) \/ RegisterCustomer(r, k, e) \/ UpdateUser(r, k, e)
             \/ UpdateCustomerProfile(r, k, e) \/ UpdateCustomer(r, k, e)
             \/ GoogleAuth(r, k, e)
      PROVE  Asked(r)
  <2>1. \E kind \in {"create", "email", "google", "googleNew"} :
            Checked(r, kind, k, e, NoOne, {k})
    BY <1>3 DEF CreateUser, RegisterCustomer, AskCreate, UpdateUser, UpdateCustomerProfile,
                UpdateCustomer, AskEmail, GoogleAuth
  <2> QED
    BY <2>1, <1>2, AskedAbout
<1>4. ASSUME NEW k \in Accounts,
             \/ ForgotCustomerPassword(r, k) \/ ResetCustomerPassword(r, k)
             \/ ChangePassword(r, k) \/ ChangeCustomerPassword(r, k)
             \/ \E active \in BOOLEAN : SetAccountActive(r, k, active)
      PROVE  Asked(r)
  <2>1. \E kind \in {"temporary", "password", "activate", "deactivate"} :
            Checked(r, kind, k, NoEmail, NoOne, {k})
    BY <1>4 DEF ForgotCustomerPassword, ResetCustomerPassword, AskTemporary, ChangePassword,
                ChangeCustomerPassword, AskPassword, SetAccountActive
  <2> QED
    BY <2>1, <1>2, AskedAbout
<1>5. ASSUME NEW k \in Accounts, NEW n \in ClientRows, ClaimClient(r, k, n)
      PROVE  Asked(r)
  BY <1>5, <1>2, AskedAbout DEF ClaimClient
<1>6. ASSUME NEW n \in ClientRows,
             \/ \E e \in Emails \cup {NoEmail} : CreateClient(r, n, e)
             \/ \E e \in Emails : UpdateClient(r, n, e)
             \/ DeleteClient(r, n)
      PROVE  Asked(r)
  <2>1. \E kind \in {"clientCreate", "clientEmail", "clientDelete"}, e \in Emails \cup {NoEmail} :
            /\ Checked(r, kind, n, e, NoOne, ClientRows)
            /\ kind \in {"clientCreate", "clientEmail"} => ClientEmailFree(e)
    BY <1>6 DEF CreateClient, UpdateClient, DeleteClient
  <2> QED
    BY <2>1, <1>2, AskedAboutClient
<1> QED
  BY <1>1, <1>3, <1>4, <1>5, <1>6

-----------------------------------------------------------------------------
(* A request that is made.                                                  *)

\* Requests whose names are told apart from the one that moved.
OthersKeep(r) == \A s \in People : s # r => request'[s] = request[s]

LEMMA AskedKeeps ==
    ASSUME PeopleInv, NEW r \in People, Asked(r)
    PROVE  PeopleInv'
<1>1. PICK kind \in CustomerKinds \cup ClientKinds, k \in Accounts \cup ClientRows,
           e \in Emails \cup {NoEmail}, n \in ClientRows \cup {NoOne} : \E rows \in {{k}, ClientRows} :
        /\ Checked(r, kind, k, e, n, rows)
        /\ kind \in CustomerKinds => k \in Accounts /\ k \in rows
        /\ kind \in ClientKinds => k \in ClientRows /\ rows = ClientRows
        /\ kind \in {"clientCreate", "clientEmail"} => ClientEmailFree(e)
  BY DEF Asked
<1>0. PICK rows \in {{k}, ClientRows} :
        /\ Checked(r, kind, k, e, n, rows)
        /\ kind \in CustomerKinds => k \in Accounts /\ k \in rows
        /\ kind \in ClientKinds => k \in ClientRows /\ rows = ClientRows
        /\ kind \in {"clientCreate", "clientEmail"} => ClientEmailFree(e)
  BY <1>1
<1> DEFINE new == [pc |-> "write", kind |-> kind, row |-> k, email |-> e, client |-> n]
<1>2. /\ new \in Requests
      /\ new.pc = "write" /\ new.kind = kind /\ new.row = k /\ new.email = e
  BY DEF Requests
<1>3. /\ request' \in [People -> Requests]
      /\ request'[r] = new /\ OthersKeep(r)
      /\ request[r].pc = "new"
      /\ UNCHANGED <<account, client, mailed>>
      /\ entangled \subseteq entangled'
      /\ Touching(rows) # {} => rows \subseteq entangled'
  BY <1>0, <1>2 DEF Checked, MadeNext, PeopleInv, PeopleRows, OthersKeep
<1> HIDE DEF new
<1>4. PeopleRows'
  BY <1>3 DEF PeopleInv, PeopleRows
<1>5. ~Busy(r) /\ \A s \in People : s # r => (Busy(s)' <=> Busy(s))
  BY <1>3 DEF Busy, OthersKeep
<1>6. k \in rows
  BY <1>0
<1>7. ASSUME NEW s \in People, s # r, Busy(s),
             \/ request[s].row = k
             \/ request[s].kind \in ClientKinds /\ kind \in ClientKinds
      PROVE  rows \subseteq entangled'
  <2>1. request[s].row \in rows
    BY <1>7, <1>6, <1>0 DEF PeopleInv, RowOfKind
  <2>2. s \in Touching(rows)
    BY <1>7, <2>1 DEF Touching, UnderWay, Busy
  <2> QED
    BY <2>2, <1>3
<1>8. ASSUME NEW s \in People PROVE RowOfKind(s)'
  <2>1. CASE s = r
    BY <2>1, <1>0, <1>2, <1>3 DEF RowOfKind
  <2>2. CASE s # r
    BY <2>2, <1>3, <1>5 DEF PeopleInv, RowOfKind, OthersKeep
  <2> QED
    BY <2>1, <2>2
<1>9. ASSUME NEW s \in People PROVE StillFree(s)'
  <2>1. CASE s = r
    BY <2>1, <1>0, <1>2, <1>3 DEF StillFree, ClientEmailFree, ActiveClients
  <2>2. CASE s # r
    BY <2>2, <1>3, <1>5 DEF PeopleInv, StillFree, OthersKeep
  <2> QED
    BY <2>1, <2>2
<1>10. ASSUME NEW s \in People PROVE StillStored(s)'
  <2>1. CASE s = r
    BY <2>1, <1>2, <1>3 DEF StillStored
  <2>2. CASE s # r
    BY <2>2, <1>3 DEF PeopleInv, StillStored, OthersKeep
  <2> QED
    BY <2>1, <2>2
<1>11. ASSUME NEW s \in People, NEW t \in People PROVE OneEach(s, t)'
  <2>1. CASE s # r /\ t # r
    BY <2>1, <1>3, <1>5 DEF PeopleInv, OneEach, OthersKeep
  <2>2. CASE s = r /\ t # r
    BY <2>2, <1>0, <1>2, <1>3, <1>5, <1>6, <1>7 DEF OneEach, OthersKeep
  <2>3. CASE t = r /\ s # r
    BY <2>3, <1>0, <1>2, <1>3, <1>5, <1>6, <1>7 DEF OneEach, OthersKeep
  <2>4. CASE s = r /\ t = r
    BY <2>4 DEF OneEach
  <2> QED
    BY <2>1, <2>2, <2>3, <2>4
<1>12. ASSUME NEW j \in CustomerRows PROVE MailedOrComing(j)'
  <2>1. \A s \in People : request[s].pc = "mail" => s # r /\ request'[s] = request[s]
    BY <1>3 DEF OthersKeep
  <2> QED
    BY <2>1, <1>3 DEF PeopleInv, MailedOrComing
<1>13. ClientEmailsDistinct'
  BY <1>3 DEF PeopleInv, ClientEmailsDistinct, ActiveClients
<1>14. ClaimedOnce'
  BY <1>3 DEF PeopleInv, ClaimedOnce
<1> QED
  BY <1>4, <1>8, <1>9, <1>10, <1>11, <1>12, <1>13, <1>14 DEF PeopleInv

-----------------------------------------------------------------------------
(* A request that moves on: from its write to its mail, or to its end.      *)

\* r is over, or has its mail still to send; nobody else moves.
MovesOn(r) ==
    /\ Busy(r)
    /\ request' \in [People -> Requests]
    /\ OthersKeep(r)
    /\ \/ request'[r].pc = "done"
       \/ request[r].pc = "write" /\ request'[r].pc = "mail"
            /\ request'[r].kind = request[r].kind /\ request'[r].row = request[r].row
            /\ request[r].kind = "temporary"

LEMMA OverMovesOn ==
    ASSUME PeopleRows, NEW r \in People, Busy(r), Over(r)
    PROVE  MovesOn(r) /\ request'[r].pc = "done"
<1>1. [NotSent EXCEPT !.pc = "done"] \in Requests /\ [NotSent EXCEPT !.pc = "done"].pc = "done"
  BY DEF NotSent, Requests
<1> QED
  BY <1>1 DEF PeopleRows, Over, MovesOn, OthersKeep

LEMMA MailMovesOn ==
    ASSUME PeopleRows, NEW r \in People, request[r].pc = "write", request[r].kind = "temporary",
           request' = [request EXCEPT ![r].pc = "mail"]
    PROVE  MovesOn(r) /\ request'[r].pc = "mail" /\ request'[r].row = request[r].row
<1>1. request[r] \in Requests
  BY DEF PeopleRows
<1>2. /\ [request[r] EXCEPT !.pc = "mail"] \in Requests
      /\ [request[r] EXCEPT !.pc = "mail"].pc = "mail"
      /\ [request[r] EXCEPT !.pc = "mail"].row = request[r].row
      /\ [request[r] EXCEPT !.pc = "mail"].kind = request[r].kind
  BY <1>1 DEF Requests
<1>3. request'[r] = [request[r] EXCEPT !.pc = "mail"]
  BY DEF PeopleRows
<1> QED
  BY <1>2, <1>3 DEF PeopleRows, MovesOn, OthersKeep, Busy

\* What holds of two requests does not come to fail when one moves on.
LEMMA MovingOnKeeps ==
    ASSUME PeopleInv, NEW r \in People, MovesOn(r), entangled \subseteq entangled'
    PROVE  /\ \A s \in People : RowOfKind(s)'
           /\ \A s, t \in People : OneEach(s, t)'
           /\ \A s \in People : Busy(s)' => Busy(s) /\ request'[s].kind = request[s].kind
                                            /\ request'[s].row = request[s].row
<1>1. \A s \in People : Busy(s)' => Busy(s) /\ request'[s].kind = request[s].kind
                                            /\ request'[s].row = request[s].row
  BY DEF MovesOn, OthersKeep, Busy
<1>2. \A s \in People : RowOfKind(s)'
  BY <1>1 DEF PeopleInv, RowOfKind
<1>3. \A s, t \in People : OneEach(s, t)'
  BY <1>1 DEF PeopleInv, OneEach
<1> QED
  BY <1>1, <1>2, <1>3

-----------------------------------------------------------------------------
(* What a request writes to an account.                                     *)

\* The written row is of a row's shape, and of its fields: the password and
\* what the mail is about, and the client of the customer.
LEMMA WrittenIs ==
    ASSUME PeopleInv, NEW r \in People, request[r].pc = "write", request[r].kind \in CustomerKinds
    PROVE  /\ WrittenAccount(r) \in AccountRows
           /\ request[r].kind = "temporary" => WrittenAccount(r).password = r
           /\ request[r].kind # "temporary" =>
                \/ ~WrittenAccount(r).mustChange
                \/ /\ WrittenAccount(r).mustChange = account[request[r].row].mustChange
                   /\ WrittenAccount(r).password = account[request[r].row].password
<1> DEFINE k == request[r].row
           e == request[r].email
<1>1. k \in Accounts /\ e \in Emails \cup {NoEmail} /\ request[r].client \in ClientRows \cup {NoOne}
  BY DEF PeopleInv, RowOfKind, Busy, PeopleRows, Requests
<1>2. account[k] \in AccountRows /\ NoAccount \in AccountRows
  BY <1>1 DEF PeopleInv, PeopleRows, NoAccount, AccountRows
<1>3. \/ request[r].kind = "create" \/ request[r].kind = "email" \/ request[r].kind = "google"
      \/ request[r].kind = "googleNew" \/ request[r].kind = "temporary"
      \/ request[r].kind = "password" \/ request[r].kind = "activate"
      \/ request[r].kind = "deactivate" \/ request[r].kind = "claim"
  BY DEF CustomerKinds
<1>4. CASE request[r].kind = "create"
  <2>1. WrittenAccount(r) = [NoAccount EXCEPT !.email = e, !.password = r]
    BY <1>4 DEF WrittenAccount
  <2> QED
    BY <2>1, <1>4, <1>1, <1>2 DEF AccountRows, NoAccount
<1>5. CASE request[r].kind = "email"
  <2>1. WrittenAccount(r) = [account[k] EXCEPT !.email = e]
    BY <1>5 DEF WrittenAccount
  <2> QED
    BY <2>1, <1>5, <1>1, <1>2 DEF AccountRows
<1>6. CASE request[r].kind = "google"
  <2>1. WrittenAccount(r) = [account[k] EXCEPT !.google = e]
    BY <1>6 DEF WrittenAccount
  <2> QED
    BY <2>1, <1>6, <1>1, <1>2 DEF AccountRows
<1>7. CASE request[r].kind = "googleNew"
  <2>1. WrittenAccount(r) = [NoAccount EXCEPT !.email = e, !.google = e]
    BY <1>7 DEF WrittenAccount
  <2> QED
    BY <2>1, <1>7, <1>1, <1>2 DEF AccountRows, NoAccount
<1>8. CASE request[r].kind = "temporary"
  <2>1. WrittenAccount(r) = [account[k] EXCEPT !.password = r, !.mustChange = TRUE]
    BY <1>8 DEF WrittenAccount
  <2> QED
    BY <2>1, <1>8, <1>1, <1>2 DEF AccountRows
<1>9. CASE request[r].kind = "password"
  <2>1. WrittenAccount(r) = [account[k] EXCEPT !.password = r, !.mustChange = FALSE]
    BY <1>9 DEF WrittenAccount
  <2> QED
    BY <2>1, <1>9, <1>1, <1>2 DEF AccountRows
<1>10. CASE request[r].kind = "activate"
  <2>1. WrittenAccount(r) = [account[k] EXCEPT !.active = TRUE]
    BY <1>10 DEF WrittenAccount
  <2> QED
    BY <2>1, <1>10, <1>1, <1>2 DEF AccountRows
<1>11. CASE request[r].kind = "deactivate"
  <2>1. WrittenAccount(r) = [account[k] EXCEPT !.active = FALSE]
    BY <1>11 DEF WrittenAccount
  <2> QED
    BY <2>1, <1>11, <1>1, <1>2 DEF AccountRows
<1>12. CASE request[r].kind = "claim"
  <2>1. WrittenAccount(r) = [account[k] EXCEPT !.client = request[r].client]
    BY <1>12 DEF WrittenAccount
  <2> QED
    BY <2>1, <1>12, <1>1, <1>2 DEF AccountRows
<1> QED
  BY <1>3, <1>4, <1>5, <1>6, <1>7, <1>8, <1>9, <1>10, <1>11, <1>12

LEMMA WriteAccountKeeps ==
    ASSUME PeopleInv, NEW r \in People, WriteAccount(r)
    PROVE  PeopleInv'
<1> DEFINE k == request[r].row
<1>1. /\ request[r].pc = "write" /\ request[r].kind \in CustomerKinds
      /\ KeysFree(k, WrittenAccount(r))
      /\ account' = [account EXCEPT ![k] = WrittenAccount(r)]
      /\ UNCHANGED <<client, mailed, entangled>>
  BY DEF WriteAccount
<1>2. k \in Accounts /\ Busy(r)
  BY <1>1 DEF PeopleInv, RowOfKind, Busy
<1>3. /\ account' \in [Accounts -> AccountRows]
      /\ account'[k] = WrittenAccount(r)
      /\ \A j \in Accounts : j # k => account'[j] = account[j]
  BY <1>1, <1>2, WrittenIs DEF PeopleInv, PeopleRows
<1>4. /\ MovesOn(r)
      /\ request[r].kind = "temporary" => request'[r].pc = "mail" /\ request'[r].row = k
      /\ request[r].kind # "temporary" => request'[r].pc = "done"
  <2>1. CASE request[r].kind = "temporary"
    BY <2>1, <1>1, MailMovesOn DEF WriteAccount, PeopleInv
  <2>2. CASE request[r].kind # "temporary"
    BY <2>2, <1>2, OverMovesOn DEF WriteAccount, PeopleInv
  <2> QED
    BY <2>1, <2>2
<1>5. PeopleRows'
  BY <1>1, <1>3, <1>4 DEF PeopleInv, PeopleRows, MovesOn
<1>6. /\ \A s \in People : RowOfKind(s)'
      /\ \A s, t \in People : OneEach(s, t)'
      /\ \A s \in People : Busy(s)' => Busy(s) /\ request'[s].kind = request[s].kind
                                       /\ request'[s].row = request[s].row
  BY <1>1, <1>4, MovingOnKeeps
<1>7. \A s \in People : s # r => request'[s] = request[s]
  BY <1>4 DEF MovesOn, OthersKeep
<1>8. ASSUME NEW s \in People PROVE StillFree(s)'
  <2>1. CASE s = r
    BY <2>1, <1>1, <1>6 DEF StillFree, CustomerKinds
  <2>2. CASE s # r
    BY <2>2, <1>1, <1>7 DEF StillFree, PeopleInv, Busy
  <2> QED
    BY <2>1, <2>2
<1>9. ASSUME NEW s \in People, s # r, Busy(s), request[s].row = k PROVE k \in entangled
  BY <1>9, <1>2 DEF PeopleInv, OneEach
<1>10. ASSUME NEW s \in People PROVE StillStored(s)'
  <2>1. CASE s = r
    BY <2>1, <1>1, <1>3, <1>4, WrittenIs DEF StillStored
  <2>2. CASE s # r
    <3>1. ASSUME request'[s].pc = "mail", request'[s].row \notin entangled'
          PROVE  account'[request'[s].row] = account[request[s].row]
      <4>1. request[s].pc = "mail" /\ request[s].row \notin entangled /\ Busy(s)
        BY <3>1, <2>2, <1>7, <1>1 DEF Busy
      <4>2. request[s].row # k
        BY <4>1, <2>2, <1>9
      <4> QED
        BY <4>2, <1>1, <1>7, <2>2
    <3> QED
      BY <3>1, <2>2, <1>7, <1>1 DEF StillStored, PeopleInv
  <2> QED
    BY <2>1, <2>2
<1>11. ASSUME NEW j \in CustomerRows PROVE MailedOrComing(j)'
  <2>0. j \in Accounts
    BY DEF Accounts
  <2>1. CASE j # k
    <3>1. account'[j] = account[j]
      BY <2>0, <2>1, <1>3
    <3>2. \A s \in People : request[s].pc = "mail" => request'[s] = request[s]
      BY <1>1, <1>7
    <3> QED
      BY <3>1, <3>2, <1>1 DEF PeopleInv, MailedOrComing
  <2>2. CASE j = k
    <3>1. CASE request[r].kind = "temporary"
      BY <3>1, <2>2, <1>4 DEF MailedOrComing
    <3>2. CASE request[r].kind # "temporary"
      <4>1. SUFFICES ASSUME j \notin entangled, account'[j].mustChange
                     PROVE  mailed[j] = account'[j].password
        BY <1>1 DEF MailedOrComing
      <4>2. account[j].mustChange /\ account'[j].password = account[j].password
        BY <4>1, <3>2, <2>2, <1>1, <1>3, WrittenIs
      <4>3. ~ \E s \in People : request[s].pc = "mail" /\ request[s].row = j
        BY <4>1, <2>2, <1>1, <1>9 DEF Busy
      <4> QED
        BY <4>1, <4>2, <4>3 DEF PeopleInv, MailedOrComing
    <3> QED
      BY <3>1, <3>2
  <2> QED
    BY <2>1, <2>2
<1>12. ClientEmailsDistinct'
  BY <1>1 DEF PeopleInv, ClientEmailsDistinct, ActiveClients
<1>13. ClaimedOnce'
  <2>1. ASSUME NEW i \in CustomerRows, NEW j \in CustomerRows,
               account'[i].client = account'[j].client, account'[i].client # NoOne, i # j
        PROVE  FALSE
    <3>1. i \in Accounts /\ j \in Accounts
      BY DEF Accounts
    <3>2. k \in CustomerRows => Table(k) = CustomerRows
      BY AccountsAssumption DEF Table
    <3>3. CASE i = k
      <4>1. account[j].client # account'[i].client
        BY <3>1, <3>2, <3>3, <2>1, <1>1, <1>3 DEF KeysFree
      <4> QED
        BY <4>1, <3>1, <3>3, <2>1, <1>3
    <3>4. CASE j = k
      <4>1. account[i].client # account'[j].client
        BY <3>1, <3>2, <3>4, <2>1, <1>1, <1>3 DEF KeysFree
      <4> QED
        BY <4>1, <3>1, <3>4, <2>1, <1>3
    <3>5. CASE i # k /\ j # k
      BY <3>1, <3>5, <2>1, <1>3 DEF PeopleInv, ClaimedOnce
    <3> QED
      BY <3>3, <3>4, <3>5
  <2> QED
    BY <2>1 DEF ClaimedOnce
<1> QED
  BY <1>5, <1>6, <1>8, <1>10, <1>11, <1>12, <1>13 DEF PeopleInv

-----------------------------------------------------------------------------
(* What a request writes to a client, mails, or fails to do.                *)

LEMMA WriteClientKeeps ==
    ASSUME PeopleInv, NEW r \in People, WriteClient(r)
    PROVE  PeopleInv'
<1> DEFINE n == request[r].row
<1>1. /\ request[r].pc = "write" /\ request[r].kind \in ClientKinds
      /\ client' = [client EXCEPT ![n] = WrittenClient(r)]
      /\ Over(r)
      /\ UNCHANGED <<account, mailed, entangled>>
  BY DEF WriteClient
<1>2. n \in ClientRows /\ Busy(r) /\ request[r].email \in Emails \cup {NoEmail}
  BY <1>1 DEF PeopleInv, RowOfKind, Busy, PeopleRows, Requests
<1>3. client[n] \in ClientRecords
  BY <1>2 DEF PeopleInv, PeopleRows
<1>4. /\ WrittenClient(r) \in ClientRecords
      /\ WrittenClient(r).state = "active" =>
           \/ request[r].kind \in {"clientCreate", "clientEmail"}
                /\ WrittenClient(r).email = request[r].email
           \/ client[n].state = "active" /\ WrittenClient(r).email = client[n].email
  <2>1. CASE request[r].kind = "clientCreate"
    <3>1. WrittenClient(r) = [email |-> request[r].email, state |-> "active"]
      BY <2>1 DEF WrittenClient
    <3> QED
      BY <3>1, <2>1, <1>2 DEF ClientRecords
  <2>2. CASE request[r].kind = "clientEmail"
    <3>1. WrittenClient(r) = [client[n] EXCEPT !.email = request[r].email]
      BY <2>2 DEF WrittenClient
    <3> QED
      BY <3>1, <2>2, <1>2, <1>3 DEF ClientRecords
  <2>3. CASE request[r].kind = "clientDelete"
    <3>1. WrittenClient(r) = [client[n] EXCEPT !.state = "deleted"]
      BY <2>3 DEF WrittenClient
    <3> QED
      BY <3>1, <2>3, <1>2, <1>3 DEF ClientRecords
  <2> QED
    BY <2>1, <2>2, <2>3, <1>1 DEF ClientKinds
<1>5. /\ client' \in [ClientRows -> ClientRecords]
      /\ client'[n] = WrittenClient(r)
      /\ \A m \in ClientRows : m # n => client'[m] = client[m]
  BY <1>1, <1>2, <1>4 DEF PeopleInv, PeopleRows
<1>6. MovesOn(r) /\ request'[r].pc = "done"
  BY <1>1, <1>2, OverMovesOn DEF PeopleInv
<1>7. PeopleRows'
  BY <1>1, <1>5, <1>6 DEF PeopleInv, PeopleRows, MovesOn
<1>8. /\ \A s \in People : RowOfKind(s)'
      /\ \A s, t \in People : OneEach(s, t)'
  BY <1>1, <1>6, MovingOnKeeps
<1>9. \A s \in People : s # r => request'[s] = request[s]
  BY <1>6 DEF MovesOn, OthersKeep
<1>10. ASSUME NEW s \in People PROVE StillFree(s)'
  <2>1. CASE s = r
    BY <2>1, <1>6 DEF StillFree, Busy
  <2>2. CASE s # r
    <3>1. ASSUME Busy(s), request[s].kind \in {"clientCreate", "clientEmail"}
          PROVE  ClientRows \subseteq entangled
      BY <3>1, <2>2, <1>1, <1>2 DEF PeopleInv, OneEach, ClientKinds
    <3> QED
      BY <3>1, <2>2, <1>1, <1>9 DEF StillFree, Busy
  <2> QED
    BY <2>1, <2>2
<1>11. ASSUME NEW s \in People PROVE StillStored(s)'
  <2>1. request'[s].pc = "mail" => request'[s] = request[s]
    BY <1>6, <1>9
  <2> QED
    BY <2>1, <1>1 DEF PeopleInv, StillStored
<1>12. ASSUME NEW j \in CustomerRows PROVE MailedOrComing(j)'
  <2>1. \A s \in People : request[s].pc = "mail" => request'[s] = request[s]
    BY <1>1, <1>9
  <2> QED
    BY <2>1, <1>1 DEF PeopleInv, MailedOrComing
<1>13. ClientEmailsDistinct'
  <2>1. ASSUME NEW i \in ClientRows, NEW j \in ClientRows, i # j,
               i \notin entangled, j \notin entangled, i = n,
               client'[i].state = "active", client'[j].state = "active",
               client'[i].email = client'[j].email, client'[i].email # NoEmail
        PROVE  FALSE
    <3>1. client[j].state = "active" /\ client'[j].email = client[j].email
      BY <2>1, <1>5
    <3>2. CASE request[r].kind \in {"clientCreate", "clientEmail"}
               /\ client'[i].email = request[r].email
      BY <3>1, <3>2, <2>1, <1>2 DEF PeopleInv, StillFree
    <3>3. CASE client[i].state = "active" /\ client'[i].email = client[i].email
      BY <3>1, <3>3, <2>1 DEF PeopleInv, ClientEmailsDistinct, ActiveClients
    <3> QED
      BY <3>2, <3>3, <2>1, <1>4, <1>5
  <2>2. ASSUME NEW i \in ClientRows, NEW j \in ClientRows, i # j,
               i \notin entangled, j \notin entangled, i # n, j # n,
               client'[i].state = "active", client'[j].state = "active",
               client'[i].email = client'[j].email, client'[i].email # NoEmail
        PROVE  FALSE
    BY <2>2, <1>5 DEF PeopleInv, ClientEmailsDistinct, ActiveClients
  <2> QED
    BY <2>1, <2>2, <1>1 DEF ClientEmailsDistinct, ActiveClients
<1>14. ClaimedOnce'
  BY <1>1 DEF PeopleInv, ClaimedOnce
<1> QED
  BY <1>7, <1>8, <1>10, <1>11, <1>12, <1>13, <1>14 DEF PeopleInv

LEMMA MailTemporaryKeeps ==
    ASSUME PeopleInv, NEW r \in People, MailTemporary(r)
    PROVE  PeopleInv'
<1> DEFINE k == request[r].row
<1>1. /\ request[r].pc = "mail"
      /\ mailed' = [mailed EXCEPT ![k] = r]
      /\ Over(r)
      /\ UNCHANGED <<account, client, entangled>>
  BY DEF MailTemporary
<1>2. MovesOn(r) /\ request'[r].pc = "done"
  BY <1>1, OverMovesOn DEF PeopleInv, Busy
<1>3. /\ mailed' \in [Accounts -> People \cup {NoOne}]
      /\ \A j \in Accounts : mailed'[j] = IF j = k THEN r ELSE mailed[j]
  BY <1>1 DEF PeopleInv, PeopleRows
<1>4. PeopleRows'
  BY <1>1, <1>2, <1>3 DEF PeopleInv, PeopleRows, MovesOn
<1>5. /\ \A s \in People : RowOfKind(s)'
      /\ \A s, t \in People : OneEach(s, t)'
  BY <1>1, <1>2, MovingOnKeeps
<1>6. \A s \in People : s # r => request'[s] = request[s]
  BY <1>2 DEF MovesOn, OthersKeep
<1>7. ASSUME NEW s \in People PROVE StillFree(s)' /\ StillStored(s)'
  <2>1. request'[s].pc \in {"write", "mail"} => request'[s] = request[s]
    BY <1>2, <1>6
  <2> QED
    BY <2>1, <1>1 DEF PeopleInv, StillFree, StillStored, Busy
<1>8. ASSUME NEW j \in CustomerRows PROVE MailedOrComing(j)'
  <2>0. j \in Accounts
    BY DEF Accounts
  <2>1. CASE j # k
    <3>1. \A s \in People : request[s].row = j => request'[s] = request[s]
      BY <2>1, <1>6
    <3> QED
      BY <3>1, <2>0, <2>1, <1>1, <1>3 DEF PeopleInv, MailedOrComing
  <2>2. CASE j = k
    BY <2>0, <2>2, <1>1, <1>3 DEF PeopleInv, StillStored, MailedOrComing
  <2> QED
    BY <2>1, <2>2
<1>9. ClientEmailsDistinct'
  BY <1>1 DEF PeopleInv, ClientEmailsDistinct, ActiveClients
<1>10. ClaimedOnce'
  BY <1>1 DEF PeopleInv, ClaimedOnce
<1> QED
  BY <1>4, <1>5, <1>7, <1>8, <1>9, <1>10 DEF PeopleInv

LEMMA FailingKeeps ==
    ASSUME PeopleInv, NEW r \in People, Fails(r)
    PROVE  PeopleInv'
<1>1. /\ Busy(r) /\ Over(r)
      /\ entangled \subseteq entangled'
      /\ request[r].pc = "mail" => request[r].row \in entangled'
      /\ UNCHANGED <<account, client, mailed>>
  BY DEF Fails, Busy
<1>2. MovesOn(r) /\ request'[r].pc = "done"
  BY <1>1, OverMovesOn DEF PeopleInv
<1>3. PeopleRows'
  BY <1>1, <1>2 DEF PeopleInv, PeopleRows, MovesOn
<1>4. /\ \A s \in People : RowOfKind(s)'
      /\ \A s, t \in People : OneEach(s, t)'
  BY <1>1, <1>2, MovingOnKeeps
<1>5. \A s \in People : s # r => request'[s] = request[s]
  BY <1>2 DEF MovesOn, OthersKeep
<1>6. ASSUME NEW s \in People PROVE StillFree(s)' /\ StillStored(s)'
  <2>1. request'[s].pc \in {"write", "mail"} => request'[s] = request[s]
    BY <1>2, <1>5
  <2> QED
    BY <2>1, <1>1 DEF PeopleInv, StillFree, StillStored, Busy
<1>7. ASSUME NEW j \in CustomerRows PROVE MailedOrComing(j)'
  <2>1. \A s \in People : request[s].pc = "mail" /\ request[s].row = j =>
                              j \in entangled' \/ request'[s] = request[s]
    BY <1>1, <1>5
  <2> QED
    BY <2>1, <1>1 DEF PeopleInv, MailedOrComing
<1>8. ClientEmailsDistinct'
  BY <1>1 DEF PeopleInv, ClientEmailsDistinct, ActiveClients
<1>9. ClaimedOnce'
  BY <1>1 DEF PeopleInv, ClaimedOnce
<1> QED
  BY <1>3, <1>4, <1>6, <1>7, <1>8, <1>9 DEF PeopleInv

LEMMA PeopleKeep == PeopleInv /\ [AccountsNext]_accountVars => PeopleInv'
<1> SUFFICES ASSUME PeopleInv, [AccountsNext]_accountVars PROVE PeopleInv'
  OBVIOUS
<1>1. CASE AccountsNext
  BY <1>1, PeopleSteps, AskedKeeps, WriteAccountKeeps, WriteClientKeeps, MailTemporaryKeeps,
     FailingKeeps
<1>2. CASE UNCHANGED accountVars
  BY <1>2 DEF accountVars, PeopleInv, PeopleRows, RowOfKind, StillFree, StillStored, OneEach,
              Busy, MailedOrComing, ClientEmailsDistinct, ActiveClients, ClaimedOnce
<1> QED
  BY <1>1, <1>2

\* However requests about people overlap, fail or stop: a temporary password
\* that must be changed is the one that was mailed, the e-mails of clients
\* differ, each but for the rows where requests overlapped (CreateClient,
\* ResetCustomerPassword and the mail after it), and a client has one customer.
THEOREM PeopleStayConsistent == AccountsSpec => []PeopleConsistent
<1>1. PeopleInv => PeopleConsistent
  <2> SUFFICES ASSUME PeopleInv PROVE PeopleConsistent
    OBVIOUS
  <2>1. MailedPasswordWorks
    <3> SUFFICES ASSUME NEW k \in CustomerRows \ entangled, account[k].mustChange,
                        Touching({k}) = {}
                 PROVE  mailed[k] = account[k].password
      BY DEF MailedPasswordWorks
    <3>1. ~ \E r \in People : request[r].pc = "mail" /\ request[r].row = k
      BY DEF Touching, UnderWay
    <3> QED
      BY <3>1 DEF PeopleInv, MailedOrComing
  <2> QED
    BY <2>1 DEF PeopleInv, PeopleConsistent
<1> QED
  BY <1>1, PeopleBegin, PeopleKeep, PTL DEF AccountsSpec

-----------------------------------------------------------------------------
(* The catalogue.  A request that is under way has read values of the       *)
(* category it found; either that is still the product's category or the    *)
(* category is gone and its values with it, so that the write fails.  What  *)
(* tells the variants apart is that the hash is the set of the values until *)
(* a value is deleted, and that only the default variant may have none.     *)

ListedRows == [created : BOOLEAN, category : Categories \cup {NoCategory}, links : SUBSET Values]
ArticleRows == [live : BOOLEAN, values : SUBSET Values, hash : SUBSET SUBSET Values]
EditorRows == [pc : {"idle", "assign", "replace", "create", "update"}, article : Articles,
               values : SUBSET Values, category : Categories \cup {NoCategory}]
PastRows == [deleted : BOOLEAN, crossed : BOOLEAN, moved : BOOLEAN]

CatalogueRows ==
    /\ valueRow \in [Values -> {"unused", "live", "deleted"}]
    /\ listed \in ListedRows
    /\ article \in [Articles -> ArticleRows]
    /\ editor \in [Editors -> EditorRows]
    /\ past \in PastRows

ListedFits ==
    /\ ~listed.created => listed.category = NoCategory /\ \A x \in Articles : article[x] = NoArticle
    /\ LinksInCategory

ArticleFits(x) ==
    /\ OnePerAttribute(article[x].values) /\ article[x].values \subseteq Live
    /\ article[x].live /\ article[x].hash = {} => x = MainArticle
    /\ ~past.deleted /\ article[x].live =>
           \/ article[x].values # {} /\ article[x].hash = {article[x].values}
           \/ article[x].values = {} /\ article[x].hash = {}
    /\ ~past.moved => \A v \in article[x].values : Category(v) = listed.category

HashesDiffer ==
    \A x, y \in Articles :
        article[x].live /\ article[y].live /\ x # y => article[x].hash # article[y].hash

\* The category a request has found, and all of its values with it, are gone.
CategoryGone(k) == \A v \in Values : Category(v) = k => valueRow[v] = "deleted"

EditorFits(e) ==
    editor[e].pc # "idle" =>
        /\ listed.created
        /\ \A v \in editor[e].values : Category(v) = editor[e].category
        /\ editor[e].pc \in {"create", "update"} =>
               editor[e].values # {} /\ OnePerAttribute(editor[e].values)
        /\ ~past.moved => editor[e].category = listed.category \/ CategoryGone(editor[e].category)

CatalogueInv ==
    /\ CatalogueRows
    /\ ListedFits
    /\ \A x \in Articles : ArticleFits(x)
    /\ HashesDiffer
    /\ \A e \in Editors : EditorFits(e)

LEMMA CatalogueBegins == CatalogueInit => CatalogueInv
<1> SUFFICES ASSUME CatalogueInit PROVE CatalogueInv
  OBVIOUS
<1>1. NoArticle \in ArticleRows /\ NoArticle.values = {} /\ ~NoArticle.live
  BY DEF NoArticle, ArticleRows
<1>2. Resting \in EditorRows /\ Resting.pc = "idle"
  BY CatalogueAssumption DEF Resting, EditorRows
<1>3. /\ listed \in ListedRows /\ past \in PastRows
      /\ ~listed.created /\ listed.category = NoCategory /\ listed.links = {}
  BY DEF CatalogueInit, ListedRows, PastRows
<1>4. CatalogueRows
  BY <1>1, <1>2, <1>3 DEF CatalogueInit, CatalogueRows
<1>5. /\ \A x \in Articles : article[x] = NoArticle
      /\ \A e \in Editors : editor[e].pc = "idle"
  BY <1>2 DEF CatalogueInit
<1>6. ListedFits
  BY <1>3, <1>5 DEF ListedFits, LinksInCategory
<1>7. \A x \in Articles : ArticleFits(x)
  BY <1>1, <1>5 DEF ArticleFits, OnePerAttribute
<1>8. HashesDiffer
  BY <1>1, <1>5 DEF HashesDiffer
<1> QED
  BY <1>4, <1>5, <1>6, <1>7, <1>8 DEF CatalogueInv, EditorFits

\* The rows as the proofs below use them.
LEMMA RowsAre ==
    ASSUME CatalogueRows
    PROVE  /\ listed.created \in BOOLEAN /\ listed.category \in Categories \cup {NoCategory}
           /\ listed.links \subseteq Values
           /\ past.deleted \in BOOLEAN /\ past.crossed \in BOOLEAN /\ past.moved \in BOOLEAN
           /\ \A x \in Articles : /\ article[x].live \in BOOLEAN
                                  /\ article[x].values \subseteq Values
                                  /\ article[x].hash \subseteq SUBSET Values
           /\ \A e \in Editors : /\ editor[e].article \in Articles
                                 /\ editor[e].values \subseteq Values
                                 /\ editor[e].category \in Categories \cup {NoCategory}
<1>1. \A x \in Articles : article[x] \in ArticleRows
  BY DEF CatalogueRows
<1>2. \A e \in Editors : editor[e] \in EditorRows
  BY DEF CatalogueRows
<1> QED
  BY <1>1, <1>2 DEF CatalogueRows, ListedRows, PastRows, ArticleRows, EditorRows

\* Values only come to life and go for good; what a request found and has not
\* written keeps its meaning while the product's category stays.
Ageing ==
    /\ valueRow' \in [Values -> {"unused", "live", "deleted"}]
    /\ \A v \in Values : valueRow[v] = "deleted" => valueRow'[v] = "deleted"

LEMMA SameEditorFits ==
    ASSUME NEW e \in Editors, EditorFits(e), editor'[e] = editor[e],
           Ageing, listed.created => listed'.created, NEW k, k = listed.category,
           past'.moved \/ (past'.moved = past.moved
                           /\ (listed'.category = k \/ CategoryGone(k)'))
    PROVE  EditorFits(e)'
<1>1. \A c : CategoryGone(c) => CategoryGone(c)'
  BY DEF Ageing, CategoryGone
<1> QED
  BY <1>1 DEF EditorFits

-----------------------------------------------------------------------------
(* Values that come and go.                                                 *)

LEMMA CreateValueKeeps ==
    ASSUME CatalogueInv, NEW v \in Values, CreateValue(v)
    PROVE  CatalogueInv'
<1>1. /\ valueRow' \in [Values -> {"unused", "live", "deleted"}]
      /\ \A w \in Values : valueRow[w] # "unused" => valueRow'[w] = valueRow[w]
      /\ UNCHANGED <<listed, article, editor, past>>
  BY DEF CreateValue, CatalogueInv, CatalogueRows
<1>2. CatalogueRows'
  BY <1>1 DEF CatalogueInv, CatalogueRows
<1>3. Ageing /\ Live \subseteq Live'
  BY <1>1 DEF Ageing, Live
<1>4. ListedFits'
  BY <1>1, <1>3 DEF CatalogueInv, ListedFits, LinksInCategory
<1>5. ASSUME NEW x \in Articles PROVE ArticleFits(x)'
  BY <1>1, <1>3 DEF CatalogueInv, ArticleFits
<1>6. HashesDiffer'
  BY <1>1 DEF CatalogueInv, HashesDiffer
<1>7. ASSUME NEW e \in Editors PROVE EditorFits(e)'
  BY <1>1, <1>3, SameEditorFits DEF CatalogueInv
<1> QED
  BY <1>2, <1>4, <1>5, <1>6, <1>7 DEF CatalogueInv

\* The values of gone go; the product leaves its category only with all of it.
LEMMA DropKeeps ==
    ASSUME CatalogueInv, NEW gone \in SUBSET Values, NEW k \in Categories \cup {NoCategory},
           Drop(gone, k),
           k # listed.category =>
               k = NoCategory /\ \A v \in Values : Category(v) = listed.category => v \in gone
    PROVE  CatalogueInv'
<1>1. /\ valueRow' = [v \in Values |-> IF v \in gone THEN "deleted" ELSE valueRow[v]]
      /\ listed' = [listed EXCEPT !.category = k, !.links = @ \ gone]
      /\ article' = [x \in Articles |-> [article[x] EXCEPT !.values = @ \ gone]]
      /\ past' = [past EXCEPT !.deleted = TRUE]
      /\ UNCHANGED editor
  BY DEF Drop
<1>2. listed \in ListedRows /\ past \in PastRows
  BY DEF CatalogueInv, CatalogueRows
<1>3. /\ listed' \in ListedRows
      /\ listed'.created = listed.created /\ listed'.category = k
      /\ listed'.links = listed.links \ gone
  BY <1>1, <1>2 DEF ListedRows
<1>4. /\ past' \in PastRows
      /\ past'.deleted /\ past'.crossed = past.crossed /\ past'.moved = past.moved
  BY <1>1, <1>2 DEF PastRows
<1>5. ASSUME NEW x \in Articles
      PROVE  /\ article'[x] \in ArticleRows
             /\ article'[x].live = article[x].live /\ article'[x].hash = article[x].hash
             /\ article'[x].values = article[x].values \ gone
             /\ article[x] = NoArticle => article'[x] = NoArticle
  <2>1. article[x] \in ArticleRows
    BY DEF CatalogueInv, CatalogueRows
  <2>2. article'[x] = [article[x] EXCEPT !.values = @ \ gone]
    BY <1>1
  <2>3. /\ article'[x] \in ArticleRows
        /\ article'[x].live = article[x].live /\ article'[x].hash = article[x].hash
        /\ article'[x].values = article[x].values \ gone
    BY <2>1, <2>2 DEF ArticleRows
  <2>4. article[x] = NoArticle => article[x].values \ gone = article[x].values
    BY DEF NoArticle
  <2>5. article[x] = NoArticle => article'[x] = NoArticle
    BY <2>1, <2>2, <2>4 DEF ArticleRows
  <2> QED
    BY <2>3, <2>5
<1>6. /\ valueRow' \in [Values -> {"unused", "live", "deleted"}]
      /\ Ageing /\ Live' = Live \ gone
  BY <1>1 DEF Ageing, Live, CatalogueInv, CatalogueRows
<1>7. article' \in [Articles -> ArticleRows]
  BY <1>1, <1>5
<1>8. CatalogueRows'
  BY <1>1, <1>3, <1>4, <1>6, <1>7 DEF CatalogueInv, CatalogueRows
<1>9. PICK old : old = listed.category
  OBVIOUS
<1>14. k = old \/ CategoryGone(old)'
  BY <1>1, <1>9 DEF CategoryGone
<1>10. ListedFits'
  <2>1. ~listed'.created => listed'.category = NoCategory /\ \A x \in Articles : article'[x] = NoArticle
    BY <1>3, <1>5 DEF CatalogueInv, ListedFits
  <2>2. LinksInCategory'
    <3> SUFFICES ASSUME ~past'.crossed, NEW v \in listed'.links
                 PROVE  v \in Live' /\ Category(v) = listed'.category
      BY DEF LinksInCategory
    <3>1. v \in Live /\ Category(v) = listed.category /\ v \notin gone /\ v \in Values
      BY <1>3, <1>4 DEF CatalogueInv, ListedFits, LinksInCategory, Live
    <3> QED
      BY <3>1, <1>3, <1>6
  <2> QED
    BY <2>1, <2>2 DEF ListedFits
<1>11. ASSUME NEW x \in Articles PROVE ArticleFits(x)'
  <2>1. OnePerAttribute(article'[x].values) /\ article'[x].values \subseteq Live'
    BY <1>5, <1>6 DEF CatalogueInv, ArticleFits, OnePerAttribute
  <2>2. article'[x].live /\ article'[x].hash = {} => x = MainArticle
    BY <1>5 DEF CatalogueInv, ArticleFits
  <2>3. ASSUME ~past'.moved, NEW v \in article'[x].values PROVE Category(v) = listed'.category
    <3>1. Category(v) = listed.category /\ v \notin gone /\ v \in Values
      BY <2>3, <1>4, <1>5 DEF CatalogueInv, ArticleFits, Live
    <3> QED
      BY <3>1, <1>3
  <2> QED
    BY <2>1, <2>2, <2>3, <1>4 DEF ArticleFits
<1>12. HashesDiffer'
  BY <1>5 DEF CatalogueInv, HashesDiffer
<1>13. ASSUME NEW e \in Editors PROVE EditorFits(e)'
  BY <1>1, <1>3, <1>4, <1>6, <1>9, <1>14, SameEditorFits DEF CatalogueInv
<1> QED
  BY <1>8, <1>10, <1>11, <1>12, <1>13 DEF CatalogueInv

LEMMA DeletionsKeep ==
    ASSUME CatalogueInv,
           \/ \E v \in Values : DeleteValue(v)
           \/ \E a \in DOMAIN CategoryOf : DeleteAttribute(a)
           \/ \E k \in Categories : DeleteCategory(k)
    PROVE  CatalogueInv'
<1>1. listed.category \in Categories \cup {NoCategory}
  BY RowsAre DEF CatalogueInv
<1>2. ASSUME NEW v \in Values, DeleteValue(v) PROVE CatalogueInv'
  BY <1>1, <1>2, DropKeeps DEF DeleteValue
<1>3. ASSUME NEW a, DeleteAttribute(a) PROVE CatalogueInv'
  <2>1. {v \in Live : Attribute(v) = a} \subseteq Values
    BY DEF Live
  <2> QED
    BY <2>1, <1>1, <1>3, DropKeeps DEF DeleteAttribute
<1>4. ASSUME NEW k \in Categories, DeleteCategory(k) PROVE CatalogueInv'
  <2> DEFINE gone == {v \in Values : Category(v) = k}
             new == IF listed.category = k THEN NoCategory ELSE listed.category
  <2>1. /\ gone \in SUBSET Values /\ new \in Categories \cup {NoCategory}
        /\ Drop(gone, new)
        /\ new # listed.category =>
               new = NoCategory /\ \A v \in Values : Category(v) = listed.category => v \in gone
    BY <1>1, <1>4 DEF DeleteCategory
  <2> HIDE DEF gone, new
  <2> QED
    BY <2>1, DropKeeps
<1> QED
  BY <1>2, <1>3, <1>4

-----------------------------------------------------------------------------
(* The product: it is entered, moves to another category, loses a link.     *)

\* A product is entered when no request can be under way.
LEMMA ListingKeeps ==
    ASSUME CatalogueInv, ~listed.created, NEW k \in Categories, NEW vs \in SUBSET Values,
           NEW added \in SUBSET Values, vs \subseteq added,
           \A v \in added : Category(v) = k /\ valueRow[v] # "deleted",
           valueRow' = [v \in Values |-> IF v \in added THEN "live" ELSE valueRow[v]],
           listed' = [created |-> TRUE, category |-> k, links |-> vs],
           UNCHANGED <<editor, past>>,
           article' \in [Articles -> ArticleRows],
           \A x \in Articles :
               /\ article'[x].values \subseteq added
               /\ OnePerAttribute(article'[x].values)
               /\ article'[x].live =>
                      \/ article'[x].values # {} /\ article'[x].hash = {article'[x].values}
                      \/ x = MainArticle /\ article'[x].values = {} /\ article'[x].hash = {},
           HashesDiffer'
    PROVE  CatalogueInv'
<1>1. /\ valueRow' \in [Values -> {"unused", "live", "deleted"}]
      /\ added \subseteq Live'
  BY DEF CatalogueInv, CatalogueRows, Live
<1>2. /\ listed' \in ListedRows
      /\ listed'.created /\ listed'.category = k /\ listed'.links = vs
  BY DEF ListedRows
<1>3. CatalogueRows'
  BY <1>1, <1>2 DEF CatalogueInv, CatalogueRows
<1>4. ListedFits'
  BY <1>1, <1>2 DEF ListedFits, LinksInCategory
<1>5. ASSUME NEW x \in Articles PROVE ArticleFits(x)'
  <2>1. article'[x].values \subseteq added
    OBVIOUS
  <2>2. \A v \in article'[x].values : v \in Live' /\ Category(v) = listed'.category
    BY <2>1, <1>1, <1>2
  <2>3. article'[x].live /\ article'[x].hash = {} => x = MainArticle
    OBVIOUS
  <2> QED
    BY <2>2, <2>3 DEF ArticleFits
<1>6. ASSUME NEW e \in Editors PROVE EditorFits(e)'
  BY DEF CatalogueInv, EditorFits
<1> QED
  BY <1>3, <1>4, <1>5, <1>6 DEF CatalogueInv

LEMMA CreateListingKeeps ==
    ASSUME CatalogueInv, NEW k \in Categories, NEW vs \in SUBSET Values, CreateListing(k, vs)
    PROVE  CatalogueInv'
<1>1. \A x \in Articles : article[x] = NoArticle
  BY DEF CreateListing, CatalogueInv, ListedFits
<1>2. NoArticle \in ArticleRows /\ NoArticle.values = {} /\ NoArticle.hash = {} /\ ~NoArticle.live
  BY DEF NoArticle, ArticleRows
<1>3. ASSUME NEW x \in Articles
      PROVE  /\ article'[x] \in ArticleRows
             /\ article'[x].values = {} /\ article'[x].hash = {}
             /\ article'[x].live => x = MainArticle
  <2>1. article'[x] = IF x = MainArticle THEN [article[x] EXCEPT !.live = TRUE] ELSE article[x]
    BY DEF CreateListing, CatalogueInv, CatalogueRows
  <2> QED
    BY <2>1, <1>1, <1>2 DEF ArticleRows, NoArticle
<1>4. article' \in [Articles -> ArticleRows]
  BY <1>3 DEF CreateListing, CatalogueInv, CatalogueRows
<1>5. HashesDiffer'
  BY <1>3 DEF HashesDiffer
<1>6. \A x \in Articles : OnePerAttribute(article'[x].values)
  BY <1>3 DEF OnePerAttribute
<1>7. /\ ~listed.created /\ UNCHANGED <<editor, past>>
      /\ \A v \in vs : Category(v) = k /\ valueRow[v] # "deleted"
      /\ valueRow' = [v \in Values |-> IF v \in vs THEN "live" ELSE valueRow[v]]
      /\ listed' = [created |-> TRUE, category |-> k, links |-> vs]
  BY DEF CreateListing
<1> QED
  BY <1>3, <1>4, <1>5, <1>6, <1>7, ListingKeeps

\* Values merged of two lists with one value per attribute are such a list.
LEMMA MergedFits ==
    ASSUME NEW old \in SUBSET Values, NEW new \in SUBSET Values,
           OnePerAttribute(old), OnePerAttribute(new), new # {}
    PROVE  OnePerAttribute(Merged(old, new)) /\ Merged(old, new) # {}
           /\ Merged(old, new) \subseteq old \cup new
  BY DEF OnePerAttribute, Merged

LEMMA CreateWithVariantsKeeps ==
    ASSUME CatalogueInv, NEW k \in Categories, NEW vs \in SUBSET Values, NEW x \in Articles,
           NEW own \in SUBSET Values, NEW other \in SUBSET Values,
           CreateWithVariants(k, vs, x, own, other)
    PROVE  CatalogueInv'
<1>1. /\ ~listed.created /\ x # MainArticle /\ UNCHANGED <<editor, past>>
      /\ VariantAccepted(own) /\ VariantAccepted(other)
      /\ \A v \in vs \cup own \cup other : Category(v) = k /\ valueRow[v] # "deleted"
      /\ valueRow' = [v \in Values |-> IF v \in vs \cup own \cup other THEN "live" ELSE valueRow[v]]
      /\ listed' = [created |-> TRUE, category |-> k, links |-> vs]
  BY DEF CreateWithVariants
<1>2. PICK base \in OneOfEach(vs) :
          /\ Merged(base, own) # Merged(base, other)
          /\ article' = [article EXCEPT
                 ![MainArticle] = [live |-> TRUE, values |-> Merged(base, own),
                                   hash |-> {Merged(base, own)}],
                 ![x] = [live |-> TRUE, values |-> Merged(base, other),
                         hash |-> {Merged(base, other)}]]
  BY DEF CreateWithVariants
<1>3. base \in SUBSET vs /\ OnePerAttribute(base)
  BY DEF OneOfEach
<1> DEFINE mine == Merged(base, own)
           theirs == Merged(base, other)
<1>4. /\ OnePerAttribute(mine) /\ mine # {} /\ mine \subseteq vs \cup own \cup other
      /\ OnePerAttribute(theirs) /\ theirs # {} /\ theirs \subseteq vs \cup own \cup other
  BY <1>1, <1>3, MergedFits DEF VariantAccepted
<1>5. mine # theirs
  BY <1>2
<1>6. /\ [live |-> TRUE, values |-> mine, hash |-> {mine}] \in ArticleRows
      /\ [live |-> TRUE, values |-> theirs, hash |-> {theirs}] \in ArticleRows
  BY <1>4 DEF ArticleRows
<1>7. \A y \in Articles : article[y] = NoArticle
  BY <1>1 DEF CatalogueInv, ListedFits
<1>8. NoArticle \in ArticleRows /\ NoArticle.values = {} /\ ~NoArticle.live
  BY DEF NoArticle, ArticleRows
<1>9. /\ article' \in [Articles -> ArticleRows]
      /\ article'[MainArticle] = [live |-> TRUE, values |-> mine, hash |-> {mine}]
      /\ article'[x] = [live |-> TRUE, values |-> theirs, hash |-> {theirs}]
      /\ \A y \in Articles : y # x /\ y # MainArticle => article'[y] = NoArticle
  BY <1>1, <1>2, <1>6, <1>7, <1>8, CatalogueAssumption DEF CatalogueInv, CatalogueRows
<1> HIDE DEF mine, theirs
<1>10. ASSUME NEW y \in Articles
      PROVE  /\ article'[y].values \subseteq vs \cup own \cup other
             /\ OnePerAttribute(article'[y].values)
             /\ article'[y].live =>
                    article'[y].values # {} /\ article'[y].hash = {article'[y].values}
  <2>1. CASE y = MainArticle
    BY <2>1, <1>4, <1>9
  <2>2. CASE y = x
    BY <2>2, <1>4, <1>9
  <2>3. CASE y # x /\ y # MainArticle
    BY <2>3, <1>8, <1>9 DEF OnePerAttribute
  <2> QED
    BY <2>1, <2>2, <2>3
<1>11. HashesDiffer'
  <2>1. {mine} # {theirs}
    BY <1>5
  <2>2. article'[MainArticle].hash = {mine} /\ article'[x].hash = {theirs}
    BY <1>9
  <2>3. \A y \in Articles : article'[y].live => y = x \/ y = MainArticle
    BY <1>8, <1>9
  <2> QED
    BY <2>1, <2>2, <2>3 DEF HashesDiffer
<1> DEFINE added == vs \cup own \cup other
<1>12. added \in SUBSET Values /\ vs \subseteq added
  OBVIOUS
<1>13. /\ valueRow' = [v \in Values |-> IF v \in added THEN "live" ELSE valueRow[v]]
       /\ \A v \in added : Category(v) = k /\ valueRow[v] # "deleted"
       /\ \A y \in Articles : article'[y].values \subseteq added
  BY <1>1, <1>10
<1> HIDE DEF added
<1> QED
  BY <1>1, <1>9, <1>10, <1>11, <1>12, <1>13, ListingKeeps

LEMMA ChangeCategoryKeeps ==
    ASSUME CatalogueInv, NEW k \in Categories \cup {NoCategory}, ChangeCategory(k)
    PROVE  CatalogueInv'
<1>1. listed \in ListedRows /\ past \in PastRows
  BY DEF CatalogueInv, CatalogueRows
<1>2. /\ listed' \in ListedRows
      /\ listed.created /\ listed'.created /\ listed'.category = k
      /\ listed'.links = Kept(listed.links, k)
  BY <1>1 DEF ChangeCategory, ListedRows, Kept
<1>3. /\ past' \in PastRows
      /\ past'.moved /\ past'.crossed = past.crossed /\ past'.deleted = past.deleted
  BY <1>1 DEF ChangeCategory, PastRows
<1>4. UNCHANGED <<valueRow, article, editor>> /\ Live' = Live
  BY DEF ChangeCategory, Live
<1>5. CatalogueRows'
  BY <1>2, <1>3, <1>4 DEF CatalogueInv, CatalogueRows
<1>6. ListedFits'
  BY <1>2, <1>3, <1>4 DEF CatalogueInv, ListedFits, LinksInCategory, Kept
<1>7. ASSUME NEW x \in Articles PROVE ArticleFits(x)'
  BY <1>3, <1>4 DEF CatalogueInv, ArticleFits
<1>8. HashesDiffer'
  BY <1>4 DEF CatalogueInv, HashesDiffer
<1>9. Ageing
  BY <1>4 DEF Ageing, CatalogueInv, CatalogueRows
<1>10. ASSUME NEW e \in Editors PROVE EditorFits(e)'
  BY <1>2, <1>3, <1>4, <1>9, SameEditorFits DEF CatalogueInv
<1> QED
  BY <1>5, <1>6, <1>7, <1>8, <1>10 DEF CatalogueInv

LEMMA RemoveLinkKeeps ==
    ASSUME CatalogueInv, NEW v \in Values, RemoveLink(v)
    PROVE  CatalogueInv'
<1>1. listed \in ListedRows
  BY DEF CatalogueInv, CatalogueRows
<1>2. /\ listed' \in ListedRows
      /\ listed'.created = listed.created /\ listed'.category = listed.category
      /\ listed'.links \subseteq listed.links
  BY <1>1 DEF RemoveLink, ListedRows
<1>3. UNCHANGED <<valueRow, article, editor, past>> /\ Live' = Live
  BY DEF RemoveLink, Live
<1>4. CatalogueRows'
  BY <1>2, <1>3 DEF CatalogueInv, CatalogueRows
<1>5. ListedFits'
  BY <1>2, <1>3 DEF CatalogueInv, ListedFits, LinksInCategory
<1>6. ASSUME NEW x \in Articles PROVE ArticleFits(x)'
  BY <1>2, <1>3 DEF CatalogueInv, ArticleFits
<1>7. HashesDiffer'
  BY <1>3 DEF CatalogueInv, HashesDiffer
<1>8. Ageing
  BY <1>3 DEF Ageing, CatalogueInv, CatalogueRows
<1>9. ASSUME NEW e \in Editors PROVE EditorFits(e)'
  BY <1>2, <1>3, <1>8, SameEditorFits DEF CatalogueInv
<1> QED
  BY <1>4, <1>5, <1>6, <1>7, <1>9 DEF CatalogueInv

-----------------------------------------------------------------------------
(* A request that reads.                                                    *)

LEMMA StartKeeps ==
    ASSUME CatalogueInv, NEW e \in Editors, NEW x \in Articles, NEW vs \in SUBSET Values,
           NEW pc \in {"assign", "replace", "create", "update"},
           StartEdit(e, pc, x, vs),
           listed.category # NoCategory, FromCategory(vs),
           pc \in {"create", "update"} => vs # {} /\ OnePerAttribute(vs)
    PROVE  CatalogueInv'
<1> DEFINE new == [pc |-> pc, article |-> x, values |-> vs, category |-> listed.category]
<1>1. /\ new \in EditorRows
      /\ new.pc = pc /\ new.values = vs /\ new.category = listed.category
  BY RowsAre DEF EditorRows, CatalogueInv
<1>2. editor' = [editor EXCEPT ![e] = new]
  BY DEF StartEdit
<1> HIDE DEF new
<1>3. /\ editor' \in [Editors -> EditorRows]
      /\ editor'[e] = new
      /\ \A f \in Editors : f # e => editor'[f] = editor[f]
  BY <1>1, <1>2 DEF CatalogueInv, CatalogueRows
<1>4. UNCHANGED <<valueRow, listed, article, past>> /\ Live' = Live
  BY DEF StartEdit, Live
<1>5. CatalogueRows'
  BY <1>3, <1>4 DEF CatalogueInv, CatalogueRows
<1>6. ListedFits'
  BY <1>4 DEF CatalogueInv, ListedFits, LinksInCategory
<1>7. ASSUME NEW y \in Articles PROVE ArticleFits(y)'
  BY <1>4 DEF CatalogueInv, ArticleFits
<1>8. HashesDiffer'
  BY <1>4 DEF CatalogueInv, HashesDiffer
<1>9. Ageing
  BY <1>4 DEF Ageing, CatalogueInv, CatalogueRows
<1>10. ASSUME NEW f \in Editors PROVE EditorFits(f)'
  <2>1. CASE f = e
    <3>1. listed.created
      BY RowsAre DEF CatalogueInv, ListedFits
    <3>2. \A v \in vs : Category(v) = listed.category
      BY DEF FromCategory
    <3> QED
      BY <2>1, <3>1, <3>2, <1>1, <1>3, <1>4 DEF EditorFits
  <2>2. CASE f # e
    BY <2>2, <1>3, <1>4, <1>9, SameEditorFits DEF CatalogueInv
  <2> QED
    BY <2>1, <2>2
<1> QED
  BY <1>5, <1>6, <1>7, <1>8, <1>10 DEF CatalogueInv

LEMMA CheckAssignKeeps ==
    ASSUME CatalogueInv, NEW e \in Editors, NEW vs \in SUBSET Values,
           CheckAssignAttributes(e, vs) \/ CheckReplaceAttributes(e, vs)
    PROVE  CatalogueInv'
<1>1. PICK pc \in {"assign", "replace"} : CheckAssign(e, vs, pc)
  BY DEF CheckAssignAttributes, CheckReplaceAttributes
<1>2. /\ StartEdit(e, pc, MainArticle, vs) /\ listed.category # NoCategory /\ FromCategory(vs)
  BY <1>1 DEF CheckAssign
<1>3. MainArticle \in Articles
  BY CatalogueAssumption
<1> QED
  BY <1>2, <1>3, StartKeeps

LEMMA CheckVariantKeeps ==
    ASSUME CatalogueInv, NEW e \in Editors, NEW x \in Articles, NEW vs \in SUBSET Values,
           CheckNewVariant(e, x, vs) \/ CheckVariantValues(e, x, vs)
    PROVE  CatalogueInv'
<1>1. PICK pc \in {"create", "update"} : CheckVariant(e, pc, x, vs)
  BY DEF CheckNewVariant, CheckVariantValues
<1>2. PICK m \in MergeFor(vs) : FromCategory(m) /\ StartEdit(e, pc, x, m)
  BY <1>1 DEF CheckVariant
<1>3. vs # {} /\ listed.category # NoCategory /\ listed.links \subseteq Values
  BY <1>1, RowsAre DEF CheckVariant, CatalogueInv
<1>4. m \in OneOfEach(listed.links \cup vs)
  BY DEF MergeFor
<1>5. m \in SUBSET Values /\ OnePerAttribute(m) /\ m # {}
  BY <1>3, <1>4 DEF OneOfEach
<1> QED
  BY <1>2, <1>3, <1>5, StartKeeps

-----------------------------------------------------------------------------
(* A request that writes.                                                   *)

\* An editor that is done is idle; the others go on.
LEMMA Finished ==
    ASSUME CatalogueInv, NEW e \in Editors, FinishEdit(e)
    PROVE  /\ editor' \in [Editors -> EditorRows]
           /\ editor'[e].pc = "idle"
           /\ \A f \in Editors : f # e => editor'[f] = editor[f]
<1>1. Resting \in EditorRows /\ Resting.pc = "idle"
  BY CatalogueAssumption DEF Resting, EditorRows
<1> QED
  BY <1>1 DEF FinishEdit, CatalogueInv, CatalogueRows

LEMMA CrossedIs ==
    ASSUME CatalogueInv, NEW e \in Editors, past' = Crossed(e)
    PROVE  /\ past' \in PastRows
           /\ past'.deleted = past.deleted /\ past'.moved = past.moved
           /\ past'.crossed = (past.crossed \/ editor[e].category # listed.category)
<1>1. past \in PastRows
  BY DEF CatalogueInv, CatalogueRows
<1> QED
  BY <1>1 DEF Crossed, PastRows

LEMMA LinkingKeeps ==
    ASSUME CatalogueInv, NEW e \in Editors, Assign(e) \/ Replace(e)
    PROVE  CatalogueInv'
<1>1. /\ editor[e].pc # "idle" /\ editor[e].values \subseteq Live
      /\ past' = Crossed(e) /\ FinishEdit(e)
      /\ UNCHANGED <<valueRow, article>>
      /\ \/ listed' = [listed EXCEPT !.links = @ \cup editor[e].values]
         \/ listed' = [listed EXCEPT !.links = editor[e].values]
  BY DEF Assign, Replace
<1>2. listed \in ListedRows /\ editor[e].values \subseteq Values
  BY RowsAre DEF CatalogueInv, CatalogueRows
<1>3. /\ listed' \in ListedRows
      /\ listed'.created = listed.created /\ listed'.category = listed.category
      /\ listed'.links \subseteq listed.links \cup editor[e].values
  BY <1>1, <1>2 DEF ListedRows
<1>4. /\ editor' \in [Editors -> EditorRows]
      /\ editor'[e].pc = "idle"
      /\ \A f \in Editors : f # e => editor'[f] = editor[f]
  BY <1>1, Finished
<1>5. /\ past' \in PastRows
      /\ past'.deleted = past.deleted /\ past'.moved = past.moved
      /\ past'.crossed = (past.crossed \/ editor[e].category # listed.category)
  BY <1>1, CrossedIs
<1>6. CatalogueRows' /\ Live' = Live /\ Ageing
  BY <1>1, <1>3, <1>4, <1>5 DEF CatalogueInv, CatalogueRows, Live, Ageing
<1>7. listed.created /\ \A v \in editor[e].values : Category(v) = editor[e].category
  BY <1>1 DEF CatalogueInv, EditorFits
<1>8. ListedFits'
  <2>1. LinksInCategory'
    <3> SUFFICES ASSUME ~past'.crossed, NEW v \in listed'.links
                 PROVE  v \in Live' /\ Category(v) = listed'.category
      BY DEF LinksInCategory
    <3>1. CASE v \in listed.links
      BY <3>1, <1>3, <1>5, <1>6 DEF CatalogueInv, ListedFits, LinksInCategory
    <3>2. CASE v \in editor[e].values
      BY <3>2, <1>1, <1>3, <1>5, <1>6, <1>7
    <3> QED
      BY <3>1, <3>2, <1>3
  <2> QED
    BY <2>1, <1>3, <1>7 DEF ListedFits
<1>9. ASSUME NEW x \in Articles PROVE ArticleFits(x)'
  BY <1>1, <1>3, <1>5, <1>6 DEF CatalogueInv, ArticleFits
<1>10. HashesDiffer'
  BY <1>1 DEF CatalogueInv, HashesDiffer
<1>11. ASSUME NEW f \in Editors PROVE EditorFits(f)'
  <2>1. CASE f = e
    BY <2>1, <1>4 DEF EditorFits
  <2>2. CASE f # e
    BY <2>2, <1>3, <1>4, <1>5, <1>6, SameEditorFits DEF CatalogueInv
  <2> QED
    BY <2>1, <2>2
<1> QED
  BY <1>6, <1>8, <1>9, <1>10, <1>11 DEF CatalogueInv

LEMMA SaveKeeps ==
    ASSUME CatalogueInv, NEW e \in Editors, InsertVariant(e) \/ ReplaceVariantValues(e)
    PROVE  CatalogueInv'
<1> DEFINE x == editor[e].article
           vs == editor[e].values
<1>1. editor[e].pc \in {"create", "update"} /\ SaveVariant(e)
  BY DEF InsertVariant, ReplaceVariantValues
<1>2. /\ vs \subseteq Live /\ ~HashTaken(x, vs)
      /\ article' = [article EXCEPT ![x] = [live |-> TRUE, values |-> vs, hash |-> {vs}]]
      /\ past' = Crossed(e) /\ FinishEdit(e)
      /\ UNCHANGED <<valueRow, listed>>
  BY <1>1 DEF SaveVariant
<1>3. x \in Articles /\ vs \subseteq Values
  BY RowsAre DEF CatalogueInv
<1>4. /\ [live |-> TRUE, values |-> vs, hash |-> {vs}] \in ArticleRows
  BY <1>3 DEF ArticleRows
<1>5. /\ article' \in [Articles -> ArticleRows]
      /\ article'[x] = [live |-> TRUE, values |-> vs, hash |-> {vs}]
      /\ \A y \in Articles : y # x => article'[y] = article[y]
  BY <1>2, <1>3, <1>4 DEF CatalogueInv, CatalogueRows
<1>6. article'[x].live /\ article'[x].values = vs /\ article'[x].hash = {vs}
  BY <1>5
<1>7. /\ editor' \in [Editors -> EditorRows]
      /\ editor'[e].pc = "idle"
      /\ \A f \in Editors : f # e => editor'[f] = editor[f]
  BY <1>2, Finished
<1>8. /\ past' \in PastRows
      /\ past'.deleted = past.deleted /\ past'.moved = past.moved
      /\ past.crossed => past'.crossed
  BY <1>2, CrossedIs
<1>9. CatalogueRows' /\ Live' = Live /\ Ageing
  BY <1>2, <1>5, <1>7, <1>8 DEF CatalogueInv, CatalogueRows, Live, Ageing
<1>10. /\ listed.created
       /\ \A v \in vs : Category(v) = editor[e].category
       /\ vs # {} /\ OnePerAttribute(vs)
       /\ ~past.moved => editor[e].category = listed.category \/ CategoryGone(editor[e].category)
  BY <1>1 DEF CatalogueInv, EditorFits
<1>11. ListedFits'
  BY <1>2, <1>8, <1>9, <1>10 DEF CatalogueInv, ListedFits, LinksInCategory
<1>12. ~past.moved => \A v \in vs : Category(v) = listed.category
  <2> SUFFICES ASSUME ~past.moved PROVE \A v \in vs : Category(v) = listed.category
    OBVIOUS
  <2>1. CASE editor[e].category = listed.category
    BY <2>1, <1>10
  <2>2. CASE CategoryGone(editor[e].category)
    <3>1. PICK v \in vs : Category(v) = editor[e].category
      BY <1>10
    <3>2. v \in Values /\ valueRow[v] = "live" /\ valueRow[v] = "deleted"
      BY <3>1, <2>2, <1>2, <1>3 DEF Live, CategoryGone
    <3> QED
      BY <3>2
  <2> QED
    BY <2>1, <2>2, <1>10
<1> HIDE DEF x, vs
<1>13. ASSUME NEW y \in Articles PROVE ArticleFits(y)'
  <2>1. CASE y = x
    BY <2>1, <1>2, <1>6, <1>8, <1>9, <1>10, <1>12 DEF ArticleFits
  <2>2. CASE y # x
    BY <2>2, <1>2, <1>5, <1>8, <1>9 DEF CatalogueInv, ArticleFits
  <2> QED
    BY <2>1, <2>2
<1>14. HashesDiffer'
  <2> SUFFICES ASSUME NEW y \in Articles, NEW z \in Articles, article'[y].live, article'[z].live,
                      y # z
               PROVE  article'[y].hash # article'[z].hash
    BY DEF HashesDiffer
  <2>1. \A w \in Articles : w # x /\ article[w].live => article[w].hash # {vs}
    BY <1>2 DEF HashTaken
  <2>2. CASE y = x
    BY <2>1, <2>2, <1>5, <1>6
  <2>3. CASE z = x
    BY <2>1, <2>3, <1>5, <1>6
  <2>4. CASE y # x /\ z # x
    BY <2>4, <1>5 DEF CatalogueInv, HashesDiffer
  <2> QED
    BY <2>2, <2>3, <2>4
<1>15. ASSUME NEW f \in Editors PROVE EditorFits(f)'
  <2>1. CASE f = e
    BY <2>1, <1>7 DEF EditorFits
  <2>2. CASE f # e
    BY <2>2, <1>2, <1>7, <1>8, <1>9, SameEditorFits DEF CatalogueInv
  <2> QED
    BY <2>1, <2>2
<1> QED
  BY <1>9, <1>11, <1>13, <1>14, <1>15 DEF CatalogueInv

LEMMA RollBackKeeps ==
    ASSUME CatalogueInv, NEW e \in Editors, RollBack(e)
    PROVE  CatalogueInv'
<1>1. UNCHANGED <<valueRow, listed, article, past>> /\ Live' = Live /\ FinishEdit(e)
  BY DEF RollBack, Live
<1>2. /\ editor' \in [Editors -> EditorRows]
      /\ editor'[e].pc = "idle"
      /\ \A f \in Editors : f # e => editor'[f] = editor[f]
  BY <1>1, Finished
<1>3. CatalogueRows' /\ Ageing
  BY <1>1, <1>2 DEF CatalogueInv, CatalogueRows, Ageing
<1>4. ListedFits'
  BY <1>1 DEF CatalogueInv, ListedFits, LinksInCategory
<1>5. ASSUME NEW x \in Articles PROVE ArticleFits(x)'
  BY <1>1 DEF CatalogueInv, ArticleFits
<1>6. HashesDiffer'
  BY <1>1 DEF CatalogueInv, HashesDiffer
<1>7. ASSUME NEW f \in Editors PROVE EditorFits(f)'
  <2>1. CASE f = e
    BY <2>1, <1>2 DEF EditorFits
  <2>2. CASE f # e
    BY <2>2, <1>1, <1>2, <1>3, SameEditorFits DEF CatalogueInv
  <2> QED
    BY <2>1, <2>2
<1> QED
  BY <1>3, <1>4, <1>5, <1>6, <1>7 DEF CatalogueInv

LEMMA CatalogueKeeps == CatalogueInv /\ [CatalogueNext]_catalogueVars => CatalogueInv'
<1> SUFFICES ASSUME CatalogueInv, [CatalogueNext]_catalogueVars PROVE CatalogueInv'
  OBVIOUS
<1>0. Few \subseteq SUBSET Values
  BY DEF Few
<1>1. CASE \E v \in Values : CreateValue(v) \/ RemoveLink(v)
  BY <1>1, CreateValueKeeps, RemoveLinkKeeps
<1>2. CASE \/ \E v \in Values : DeleteValue(v)
           \/ \E a \in DOMAIN CategoryOf : DeleteAttribute(a)
           \/ \E k \in Categories : DeleteCategory(k)
  BY <1>2, DeletionsKeep
<1>3. CASE \E k \in Categories \cup {NoCategory} : ChangeCategory(k)
  BY <1>3, ChangeCategoryKeeps
<1>4. CASE \E k \in Categories, vs \in Few : CreateListing(k, vs)
  BY <1>0, <1>4, CreateListingKeeps
<1>5. CASE \E k \in Categories, vs \in Few, x \in Articles : \E own, other \in Few :
               CreateWithVariants(k, vs, x, own, other)
  BY <1>0, <1>5, CreateWithVariantsKeeps
<1>6. CASE \E e \in Editors, vs \in Few :
               CheckAssignAttributes(e, vs) \/ CheckReplaceAttributes(e, vs)
  BY <1>0, <1>6, CheckAssignKeeps
<1>7. CASE \E e \in Editors, x \in Articles, vs \in Few :
               CheckNewVariant(e, x, vs) \/ CheckVariantValues(e, x, vs)
  BY <1>0, <1>7, CheckVariantKeeps
<1>8. CASE \E e \in Editors : \/ Assign(e) \/ Replace(e) \/ InsertVariant(e)
                              \/ ReplaceVariantValues(e) \/ RollBack(e)
  BY <1>8, LinkingKeeps, SaveKeeps, RollBackKeeps
<1>9. CASE UNCHANGED catalogueVars
  <2>1. Live' = Live
    BY <1>9 DEF catalogueVars, Live
  <2> QED
    BY <2>1, <1>9 DEF catalogueVars, CatalogueInv, CatalogueRows, ListedFits, LinksInCategory,
                      ArticleFits, HashesDiffer, EditorFits, CategoryGone
<1> QED
  BY <1>1, <1>2, <1>3, <1>4, <1>5, <1>6, <1>7, <1>8, <1>9 DEF CatalogueNext

\* However staff change the product, its variants, values and categories at
\* once: the product's links are of its category, unless that changed under the
\* request that wrote them, and until a value is deleted no two variants have
\* the same values (AssignProductAttributes, CreateProductVariant,
\* UpdateProductVariant and the ON DELETE CASCADE of what they refer to).
THEOREM VariantsAlwaysFit == CatalogueSpec => []VariantsFitProduct
<1>1. CatalogueInv => VariantsFitProduct
  <2> SUFFICES ASSUME CatalogueInv PROVE VariantsFitProduct
    OBVIOUS
  <2>1. LinksInCategory
    BY DEF CatalogueInv, ListedFits
  <2>2. ASSUME ~past.deleted, NEW x \in Articles, NEW y \in Articles, x # y,
               article[x].live, article[y].live, article[x].values = article[y].values
        PROVE  FALSE
    <3>1. article[x].hash # article[y].hash
      BY <2>2 DEF CatalogueInv, HashesDiffer
    <3>2. article[x].values = {} /\ article[x].hash = {} /\ article[y].hash = {}
      BY <3>1, <2>2 DEF CatalogueInv, ArticleFits
    <3> QED
      BY <3>1, <3>2
  <2>3. \A x \in Articles : OnePerAttribute(article[x].values) /\ article[x].values \subseteq Live
    BY DEF CatalogueInv, ArticleFits
  <2>4. ~past.moved => \A x \in Articles : \A v \in article[x].values : Category(v) = listed.category
    BY DEF CatalogueInv, ArticleFits
  <2>5. CombinationsSound
    BY <2>2, <2>3, <2>4 DEF CombinationsSound
  <2> QED
    BY <2>1, <2>5 DEF VariantsFitProduct
<1> QED
  BY <1>1, CatalogueBegins, CatalogueKeeps, PTL DEF CatalogueSpec

-----------------------------------------------------------------------------
(* The mails.  A copy is sent by the web process, once, or by a worker that *)
(* took the job; the worker's copies are bounded by the workers that        *)
(* stopped with it and the one that has sent it now.                        *)

MailRecords == [kind : Kinds \cup {"none"}, ok : BOOLEAN,
                pc : {"idle", "send", "smtp", "log", "done"}]
JobStates == {"none", "waiting", "active", "sent", "finished", "failed"}

MailRows ==
    /\ mail \in [Mails -> MailRecords]
    /\ job \in [Mails -> JobStates]
    /\ stalls \in [Mails -> Nat]
    /\ row \in [Mails -> {"none", "SENT", "FAILED"}]
    /\ delivered \in [Mails -> Nat]

\* The copies that workers have sent of m are at most this many.
WorkerCopies(m) == stalls[m] + (IF job[m] \in {"sent", "finished"} THEN 1 ELSE 0)

\* The mail m when the web process did not lose an answer about it.
Sure(m) ==
    /\ mail[m].pc = "smtp" => job[m] = "none" /\ delivered[m] = 0
    /\ mail[m].pc = "log" =>
         /\ ~mail[m].ok => delivered[m] = 0 /\ job[m] = "none"
         /\ mail[m].ok /\ job[m] = "none" => delivered[m] = 1
    /\ row[m] = "FAILED" => delivered[m] = 0 /\ job[m] = "none"
    /\ row[m] = "SENT" /\ job[m] = "none" => delivered[m] = 1
    /\ job[m] = "none" => delivered[m] <= 1
    /\ job[m] # "none" => delivered[m] <= WorkerCopies(m)

\* And when it did: what the web process sent itself may come on top.
Unsure(m) ==
    /\ mail[m].pc \notin {"idle", "send"}
    /\ mail[m].pc = "smtp" => delivered[m] <= WorkerCopies(m)
    /\ delivered[m] <= 1 + WorkerCopies(m)

\* Both: nothing is queued, sent or logged before the mail service is asked.
MailFits(m) ==
    /\ mail[m].pc \in {"idle", "send"} => delivered[m] = 0 /\ job[m] = "none"
    /\ mail[m].pc # "done" => row[m] = "none"
    /\ job[m] = "none" => stalls[m] = 0
    /\ m \notin answerLost => Sure(m)
    /\ m \in answerLost => Unsure(m)

MailInv == MailRows /\ \A m \in Mails : MailFits(m)

LEMMA MailBegins == MailInit => MailInv
<1> SUFFICES ASSUME MailInit PROVE MailInv
  OBVIOUS
<1>1. NoMail \in MailRecords /\ NoMail.pc = "idle"
  BY DEF NoMail, MailRecords
<1>2. MailRows
  BY <1>1 DEF MailInit, MailRows, JobStates
<1>3. \A m \in Mails : mail[m].pc = "idle"
  BY <1>1 DEF MailInit
<1>4. ASSUME NEW m \in Mails PROVE MailFits(m)
  BY <1>3 DEF MailInit, MailFits, Sure, WorkerCopies
<1> QED
  BY <1>2, <1>4 DEF MailInv

\* A mail whose row, job and copies stay as they are, in the web process and in
\* the queue.
SameMail(m) ==
    /\ mail'[m] = mail[m] /\ job'[m] = job[m] /\ stalls'[m] = stalls[m]
    /\ row'[m] = row[m] /\ delivered'[m] = delivered[m]
    /\ m \in answerLost' <=> m \in answerLost

LEMMA SameMailFits ==
    ASSUME NEW m \in Mails, MailFits(m), SameMail(m)
    PROVE  MailFits(m)'
  BY DEF MailFits, SameMail, Sure, Unsure, WorkerCopies

\* What an answer of the mail service makes of a mail.
LEMMA AnswerGives ==
    ASSUME MailRows, NEW m \in Mails, NEW ok \in BOOLEAN, Answer(m, ok)
    PROVE  /\ mail' \in [Mails -> MailRecords]
           /\ \A n \in Mails : n # m => mail'[n] = mail[n]
           /\ \/ mail'[m].pc = "log" /\ mail'[m].ok = ok
              \/ mail'[m].pc = "done"
<1> DEFINE logged == [mail[m] EXCEPT !.ok = ok, !.pc = "log"]
           new == IF mail[m].kind \in Logged THEN logged ELSE Ended
<1>1. mail[m] \in MailRecords
  BY DEF MailRows
<1>2. Ended \in MailRecords /\ Ended.pc = "done"
  BY DEF Ended, NoMail, MailRecords
<1>3. logged \in MailRecords /\ logged.pc = "log" /\ logged.ok = ok
  BY <1>1 DEF MailRecords
<1>4. mail' = [mail EXCEPT ![m] = new]
  BY DEF Answer
<1> HIDE DEF logged
<1>5. /\ new \in MailRecords
      /\ \/ new.pc = "log" /\ new.ok = ok
         \/ new.pc = "done"
  BY <1>2, <1>3
<1> HIDE DEF new
<1>6. /\ mail' \in [Mails -> MailRecords] /\ mail'[m] = new
      /\ \A n \in Mails : n # m => mail'[n] = mail[n]
  BY <1>4, <1>5 DEF MailRows
<1> QED
  BY <1>5, <1>6

\* An event begins, or nothing comes of it.
LEMMA EventKeeps ==
    ASSUME MailInv, NEW m \in Mails,
           \/ PaymentRegistered(m) \/ CreditSaleCreated(m) \/ ClientNotifyRequested(m)
           \/ CustomerPasswordReset(m) \/ BusinessAlertTriggered(m)
    PROVE  MailInv'
<1>1. mail[m].pc = "idle" /\ UNCHANGED <<job, stalls, row, delivered, answerLost>>
  BY DEF PaymentRegistered, CreditSaleCreated, ClientNotifyRequested, CustomerPasswordReset,
         BusinessAlertTriggered, Begin, Omit, At
<1>2. PICK new \in MailRecords :
        mail' = [mail EXCEPT ![m] = new] /\ new.pc \in {"send", "smtp", "done"}
  <2>1. Ended \in MailRecords /\ Ended.pc = "done"
    BY DEF Ended, NoMail, MailRecords
  <2>2. ASSUME NEW kind \in Kinds, NEW pc \in {"send", "smtp"}
        PROVE  /\ [kind |-> kind, pc |-> pc, ok |-> FALSE] \in MailRecords
               /\ [kind |-> kind, pc |-> pc, ok |-> FALSE].pc = pc
    BY DEF MailRecords
  <2>3. \/ \E kind \in Kinds, pc \in {"send", "smtp"} :
             mail' = [mail EXCEPT ![m] = [kind |-> kind, pc |-> pc, ok |-> FALSE]]
        \/ mail' = [mail EXCEPT ![m] = Ended]
    BY DEF PaymentRegistered, CreditSaleCreated, ClientNotifyRequested,
           CustomerPasswordReset, BusinessAlertTriggered, Begin, Omit, Kinds
  <2> HIDE DEF Ended
  <2> QED
    BY <2>1, <2>2, <2>3
<1>3. /\ mail' \in [Mails -> MailRecords] /\ mail'[m] = new
      /\ \A n \in Mails : n # m => mail'[n] = mail[n]
  BY <1>2 DEF MailInv, MailRows
<1>4. MailFits(m)'
  <2>1. MailFits(m) /\ m \notin answerLost
    BY <1>1 DEF MailInv, MailFits, Unsure
  <2> QED
    BY <1>1, <1>2, <1>3, <2>1 DEF MailFits, Sure, WorkerCopies
<1>5. ASSUME NEW n \in Mails, n # m PROVE MailFits(n)'
  BY <1>1, <1>3, <1>5, SameMailFits DEF MailInv, SameMail
<1> QED
  BY <1>1, <1>3, <1>4, <1>5 DEF MailInv, MailRows

\* The mail service refuses, queues the mail or sends it itself.
LEMMA ServiceKeeps ==
    ASSUME MailInv, NEW m \in Mails, OmitWhileOpen(m) \/ Enqueue(m) \/ SendInline(m)
    PROVE  MailInv'
<1>1. /\ mail[m].pc = "send" /\ UNCHANGED <<stalls, row, delivered>>
      /\ MailFits(m) /\ delivered[m] = 0 /\ job[m] = "none" /\ stalls[m] = 0
      /\ row[m] = "none" /\ m \notin answerLost /\ MailRows
  BY DEF OmitWhileOpen, Enqueue, SendInline, At, MailInv, MailFits, Unsure
<1>2. CASE OmitWhileOpen(m)
  <2>1. Answer(m, FALSE) /\ UNCHANGED <<job, answerLost>>
    BY <1>2 DEF OmitWhileOpen
  <2>2. /\ mail' \in [Mails -> MailRecords]
        /\ \A n \in Mails : n # m => mail'[n] = mail[n]
        /\ \/ mail'[m].pc = "log" /\ mail'[m].ok = FALSE
           \/ mail'[m].pc = "done"
    BY <1>1, <2>1, AnswerGives
  <2>3. MailFits(m)'
    BY <1>1, <2>1, <2>2 DEF MailFits, Sure, WorkerCopies
  <2>4. ASSUME NEW n \in Mails, n # m PROVE MailFits(n)'
    BY <1>1, <2>1, <2>2, <2>4, SameMailFits DEF MailInv, SameMail
  <2> QED
    BY <1>1, <2>1, <2>2, <2>3, <2>4 DEF MailInv, MailRows
<1>3. CASE Enqueue(m)
  <2>1. Answer(m, TRUE) /\ job' = [job EXCEPT ![m] = "waiting"] /\ UNCHANGED answerLost
    BY <1>3 DEF Enqueue
  <2>2. /\ mail' \in [Mails -> MailRecords]
        /\ \A n \in Mails : n # m => mail'[n] = mail[n]
        /\ \/ mail'[m].pc = "log" /\ mail'[m].ok = TRUE
           \/ mail'[m].pc = "done"
    BY <1>1, <2>1, AnswerGives
  <2>3. /\ job' \in [Mails -> JobStates] /\ job'[m] = "waiting"
        /\ \A n \in Mails : n # m => job'[n] = job[n]
    BY <1>1, <2>1 DEF MailRows, JobStates
  <2>4. MailFits(m)'
    BY <1>1, <2>1, <2>2, <2>3 DEF MailFits, Sure, WorkerCopies
  <2>5. ASSUME NEW n \in Mails, n # m PROVE MailFits(n)'
    BY <1>1, <2>1, <2>2, <2>3, <2>5, SameMailFits DEF MailInv, SameMail
  <2> QED
    BY <1>1, <2>1, <2>2, <2>3, <2>4, <2>5 DEF MailInv, MailRows
<1>4. CASE SendInline(m)
  <2>1. mail' = [mail EXCEPT ![m] = [mail[m] EXCEPT !.pc = "smtp"]]
    BY <1>4 DEF SendInline, Move
  <2>2. mail[m] \in MailRecords
    BY <1>1 DEF MailRows
  <2>3. /\ mail' \in [Mails -> MailRecords] /\ mail'[m].pc = "smtp"
        /\ \A n \in Mails : n # m => mail'[n] = mail[n]
    <3> DEFINE new == [mail[m] EXCEPT !.pc = "smtp"]
    <3>1. new \in MailRecords /\ new.pc = "smtp"
      BY <2>2 DEF MailRecords
    <3> HIDE DEF new
    <3>2. mail' = [mail EXCEPT ![m] = new]
      BY <2>1 DEF new
    <3> QED
      BY <1>1, <3>1, <3>2 DEF MailRows
  <2>4. /\ job' \in [Mails -> JobStates]
        /\ \A n \in Mails : n # m => job'[n] = job[n] /\ (n \in answerLost' <=> n \in answerLost)
        /\ \/ job'[m] = "none" /\ m \notin answerLost'
           \/ job'[m] = "waiting" /\ m \in answerLost'
    BY <1>1, <1>4 DEF SendInline, MailRows, JobStates
  <2>5. MailFits(m)'
    BY <1>1, <2>3, <2>4 DEF MailFits, Sure, Unsure, WorkerCopies
  <2>6. ASSUME NEW n \in Mails, n # m PROVE MailFits(n)'
    BY <1>1, <2>3, <2>4, <2>6, SameMailFits DEF MailInv, SameMail
  <2> QED
    BY <1>1, <2>3, <2>4, <2>5, <2>6 DEF MailInv, MailRows
<1> QED
  BY <1>2, <1>3, <1>4

\* The mail server answers, or its answer is lost.
LEMMA SmtpKeeps ==
    ASSUME MailInv, NEW m \in Mails, NEW taken \in BOOLEAN, NEW told \in BOOLEAN,
           SmtpAnswers(m, taken, told)
    PROVE  MailInv'
<1> DEFINE times == IF taken THEN 1 ELSE 0
           ok == taken /\ told
<1>1. /\ mail[m].pc = "smtp" /\ UNCHANGED <<job, stalls, row>> /\ Answer(m, ok)
      /\ delivered' = [delivered EXCEPT ![m] = delivered[m] + times]
      /\ answerLost' = IF taken /\ ~told THEN answerLost \cup {m} ELSE answerLost
      /\ MailFits(m) /\ MailRows /\ row[m] = "none"
  BY DEF SmtpAnswers, At, MailInv, MailFits
<1>2. /\ mail' \in [Mails -> MailRecords]
      /\ \A n \in Mails : n # m => mail'[n] = mail[n]
      /\ \/ mail'[m].pc = "log" /\ mail'[m].ok = ok
         \/ mail'[m].pc = "done"
  BY <1>1, AnswerGives
<1>3. times \in {0, 1} /\ (taken => times = 1) /\ (~taken => times = 0)
  OBVIOUS
<1> HIDE DEF times
<1>4. /\ delivered' \in [Mails -> Nat] /\ delivered'[m] = delivered[m] + times
      /\ delivered[m] \in Nat /\ stalls[m] \in Nat
      /\ \A n \in Mails : n # m => delivered'[n] = delivered[n]
  BY <1>1, <1>3 DEF MailRows
<1>5. /\ job'[m] = job[m] /\ stalls'[m] = stalls[m] /\ row'[m] = "none"
      /\ \A n \in Mails : n # m => (n \in answerLost' <=> n \in answerLost)
      /\ m \in answerLost' <=> m \in answerLost \/ (taken /\ ~told)
  BY <1>1
<1>6. MailFits(m)'
  <2>1. CASE m \in answerLost
    BY <1>1, <1>2, <1>3, <1>4, <1>5, <2>1 DEF MailFits, Unsure, WorkerCopies
  <2>2. CASE m \notin answerLost
    <3>1. delivered[m] = 0 /\ job[m] = "none" /\ stalls[m] = 0
      BY <1>1, <2>2 DEF MailFits, Sure
    <3>2. CASE taken /\ ~told
      BY <1>1, <1>2, <1>3, <1>4, <1>5, <3>1, <3>2 DEF MailFits, Unsure, WorkerCopies
    <3>3. CASE ~(taken /\ ~told)
      <4>1. m \notin answerLost' /\ delivered'[m] = times /\ (ok <=> times = 1)
        BY <1>3, <1>4, <1>5, <2>2, <3>1, <3>3
      <4> HIDE DEF ok
      <4> QED
        BY <1>1, <1>2, <1>3, <1>4, <1>5, <3>1, <4>1 DEF MailFits, Sure, WorkerCopies
    <3> QED
      BY <3>2, <3>3
  <2> QED
    BY <2>1, <2>2
<1>7. ASSUME NEW n \in Mails, n # m PROVE MailFits(n)'
  BY <1>1, <1>2, <1>4, <1>5, <1>7, SameMailFits DEF MailInv, SameMail
<1> QED
  BY <1>1, <1>2, <1>4, <1>6, <1>7 DEF MailInv, MailRows

\* The row of the log is written, or not.
LEMMA LogKeeps ==
    ASSUME MailInv, NEW m \in Mails, WriteRow(m) \/ RowFails(m)
    PROVE  MailInv'
<1>1. /\ mail[m].pc = "log" /\ mail' = [mail EXCEPT ![m] = Ended]
      /\ UNCHANGED <<job, stalls, delivered, answerLost>>
      /\ MailFits(m) /\ MailRows /\ row[m] = "none"
  BY DEF WriteRow, RowFails, At, MailInv, MailFits
<1>2. Ended \in MailRecords /\ Ended.pc = "done"
  BY DEF Ended, NoMail, MailRecords
<1> HIDE DEF Ended
<1>3. /\ mail' \in [Mails -> MailRecords] /\ mail'[m].pc = "done"
      /\ \A n \in Mails : n # m => mail'[n] = mail[n]
  BY <1>1, <1>2 DEF MailRows
<1>4. /\ row' \in [Mails -> {"none", "SENT", "FAILED"}]
      /\ \A n \in Mails : n # m => row'[n] = row[n]
      /\ \/ row'[m] = "none"
         \/ row'[m] = "SENT" /\ mail[m].ok
         \/ row'[m] = "FAILED" /\ ~mail[m].ok
  <2>1. row' = row \/ row' = [row EXCEPT ![m] = StatusOf(mail[m].ok)]
    BY DEF WriteRow, RowFails
  <2>2. \/ StatusOf(mail[m].ok) = "SENT" /\ mail[m].ok
        \/ StatusOf(mail[m].ok) = "FAILED" /\ ~mail[m].ok
    BY DEF StatusOf
  <2> QED
    BY <1>1, <2>1, <2>2 DEF MailRows
<1>5. MailFits(m)'
  BY <1>1, <1>3, <1>4 DEF MailFits, Sure, Unsure, WorkerCopies
<1>6. ASSUME NEW n \in Mails, n # m PROVE MailFits(n)'
  BY <1>1, <1>3, <1>4, <1>6, SameMailFits DEF MailInv, SameMail
<1> QED
  BY <1>1, <1>3, <1>4, <1>5, <1>6 DEF MailInv, MailRows

\* The web process stops: what it was about is over, and a mail that the server
\* was being given may have arrived.
LEMMA WebStopsKeeps ==
    ASSUME MailInv, WebStops
    PROVE  MailInv'
<1>1. PICK taken \in SUBSET {m \in Mails : At(m, "smtp")} :
        delivered' = [m \in Mails |-> delivered[m] + (IF m \in taken THEN 1 ELSE 0)]
  BY DEF WebStops
<1>2. /\ mail' = [m \in Mails |-> IF mail[m].pc \in {"send", "smtp", "log"} THEN Ended
                                  ELSE mail[m]]
      /\ UNCHANGED <<job, stalls, row, answerLost>> /\ MailRows
  BY DEF WebStops, MailInv
<1>3. Ended \in MailRecords /\ Ended.pc = "done"
  BY DEF Ended, NoMail, MailRecords
<1> HIDE DEF Ended
<1>4. mail' \in [Mails -> MailRecords] /\ delivered' \in [Mails -> Nat]
  BY <1>1, <1>2, <1>3 DEF MailRows
<1>5. ASSUME NEW m \in Mails PROVE MailFits(m)'
  <2>1. /\ MailFits(m) /\ delivered[m] \in Nat /\ stalls[m] \in Nat
        /\ mail[m].pc \in {"idle", "send", "smtp", "log", "done"}
    BY DEF MailInv, MailRows, MailRecords
  <2>2. CASE mail[m].pc \in {"idle", "done"}
    <3>1. delivered'[m] = delivered[m] /\ mail'[m] = mail[m]
      BY <1>1, <1>2, <2>1, <2>2 DEF At
    <3> QED
      BY <1>2, <2>1, <3>1, SameMailFits DEF SameMail
  <2>3. CASE mail[m].pc \in {"send", "log"}
    <3>1. delivered'[m] = delivered[m] /\ mail'[m].pc = "done"
      BY <1>1, <1>2, <1>3, <2>1, <2>3 DEF At
    <3> QED
      BY <1>2, <2>1, <2>3, <3>1 DEF MailFits, Sure, Unsure, WorkerCopies
  <2>4. CASE mail[m].pc = "smtp"
    <3>1. /\ delivered'[m] \in {delivered[m], delivered[m] + 1} /\ mail'[m].pc = "done"
      BY <1>1, <1>2, <1>3, <2>1, <2>4
    <3> QED
      BY <1>2, <2>1, <2>4, <3>1 DEF MailFits, Sure, Unsure, WorkerCopies
  <2> QED
    BY <2>1, <2>2, <2>3, <2>4
<1> QED
  BY <1>2, <1>4, <1>5 DEF MailInv, MailRows

\* The steps of a worker.
LEMMA WorkerKeeps ==
    ASSUME MailInv, NEW m \in Mails,
           \/ TakeJob(m) \/ WorkerOmits(m) \/ WorkerDelivers(m) \/ WorkerFails(m)
           \/ WorkerFinishes(m) \/ WorkerStops(m)
    PROVE  MailInv'
<1>1. MailFits(m) /\ MailRows /\ UNCHANGED <<mail, row, answerLost>>
  BY DEF MailInv, TakeJob, WorkerOmits, WorkerDelivers, WorkerFails, WorkerFinishes,
         WorkerStops, WorkerMoves
<1>2. /\ job' \in [Mails -> JobStates]
      /\ \A n \in Mails : n # m => job'[n] = job[n]
      /\ job[m] # "none" /\ job'[m] # "none"
      /\ \/ /\ UNCHANGED <<stalls, delivered>>
            /\ job[m] \in {"sent", "finished"} => job'[m] \in {"sent", "finished"}
         \/ /\ UNCHANGED stalls /\ delivered' = [delivered EXCEPT ![m] = delivered[m] + 1]
            /\ job[m] = "active" /\ job'[m] = "sent"
         \/ /\ UNCHANGED delivered /\ stalls' = [stalls EXCEPT ![m] = stalls[m] + 1]
  BY <1>1 DEF TakeJob, WorkerOmits, WorkerDelivers, WorkerFails, WorkerFinishes,
              WorkerStops, WorkerMoves, AfterFailure, MailRows, JobStates
<1>3. /\ stalls' \in [Mails -> Nat] /\ delivered' \in [Mails -> Nat]
      /\ \A n \in Mails : n # m => stalls'[n] = stalls[n] /\ delivered'[n] = delivered[n]
      /\ delivered[m] \in Nat /\ stalls[m] \in Nat
  BY <1>1, <1>2 DEF MailRows
<1>4. delivered'[m] - delivered[m] <= WorkerCopies(m)' - WorkerCopies(m)
  BY <1>1, <1>2, <1>3 DEF WorkerCopies, MailRows
<1>5. WorkerCopies(m) \in Nat /\ WorkerCopies(m)' \in Nat /\ delivered'[m] \in Nat
  BY <1>3 DEF WorkerCopies
<1>6. /\ mail[m].pc \notin {"idle", "send"}
      /\ m \notin answerLost => mail[m].pc # "smtp" /\ row[m] # "FAILED"
                                /\ (mail[m].pc = "log" => mail[m].ok)
  BY <1>1, <1>2 DEF MailFits, Sure
<1>7. MailFits(m)'
  <2>1. CASE m \in answerLost
    BY <1>1, <1>2, <1>3, <1>4, <1>5, <1>6, <2>1 DEF MailFits, Unsure
  <2>2. CASE m \notin answerLost
    BY <1>1, <1>2, <1>3, <1>4, <1>5, <1>6, <2>2 DEF MailFits, Sure
  <2> QED
    BY <2>1, <2>2
<1>8. ASSUME NEW n \in Mails, n # m PROVE MailFits(n)'
  BY <1>1, <1>2, <1>3, <1>8, SameMailFits DEF MailInv, SameMail
<1> QED
  BY <1>1, <1>2, <1>3, <1>7, <1>8 DEF MailInv, MailRows

LEMMA MailStep == MailInv /\ [MailNext]_mailVars => MailInv'
<1> SUFFICES ASSUME MailInv, [MailNext]_mailVars PROVE MailInv'
  OBVIOUS
<1>1. CASE UNCHANGED <<mail, job, stalls, row, delivered, answerLost>>
  <2>1. ASSUME NEW m \in Mails PROVE MailFits(m)'
    BY <1>1, SameMailFits DEF MailInv, SameMail
  <2> QED
    BY <1>1, <2>1 DEF MailInv, MailRows
<1>2. CASE UNCHANGED mailVars
  BY <1>1, <1>2 DEF mailVars
<1> QED
  BY <1>2, EventKeeps, ServiceKeeps, SmtpKeeps, LogKeeps, WebStopsKeeps, WorkerKeeps
  DEF MailNext

\* However breakers, the queue, the mail server and restarts come in between, a
\* customer gets a mail twice only for a worker that stopped with it or an answer
\* that was lost; and of every mail whose answer was not, the log tells whether it
\* was handed over: FAILED never reaches the customer or the queue, SENT was queued
\* or reached the customer.  That a queued mail is delivered does not follow, and
\* does not hold.
THEOREM HandoversAccountedAlways == MailSpec => []HandoversAccounted
<1>1. MailInv => HandoversAccounted
  <2> SUFFICES ASSUME MailInv, NEW m \in Mails
               PROVE  /\ delivered[m] <= 1 + stalls[m] + (IF m \in answerLost THEN 1 ELSE 0)
                      /\ m \notin answerLost =>
                           /\ row[m] = "FAILED" => delivered[m] = 0 /\ job[m] = "none"
                           /\ row[m] = "SENT" /\ job[m] = "none" => delivered[m] = 1
    BY DEF HandoversAccounted, CopiesExplained, HandoverLogged
  <2>1. MailFits(m) /\ delivered[m] \in Nat /\ stalls[m] \in Nat
    BY DEF MailInv, MailRows
  <2> QED
    BY <2>1 DEF MailFits, Sure, Unsure, WorkerCopies
<1> QED
  BY <1>1, MailBegins, MailStep, PTL DEF MailSpec

-----------------------------------------------------------------------------
(* The types of the accounts.  Only rows that there are can be entangled,   *)
(* because a request that is under way is of a kind and has a row of it.    *)

RowsEntangled ==
    /\ entangled \subseteq Accounts \cup ClientRows
    /\ \A r \in People : Busy(r) => request[r].kind \in CustomerKinds \cup ClientKinds

PeopleTyped == PeopleInv /\ RowsEntangled

LEMMA PeopleTypedBegins == AccountsInit => PeopleTyped
<1> SUFFICES ASSUME AccountsInit PROVE RowsEntangled
  BY PeopleBegin DEF PeopleTyped
<1> QED
  BY DEF AccountsInit, RowsEntangled, Busy, NotSent

LEMMA PeopleTypedStep == PeopleTyped /\ [AccountsNext]_accountVars => PeopleTyped'
<1> SUFFICES ASSUME PeopleTyped, [AccountsNext]_accountVars PROVE PeopleTyped'
  OBVIOUS
<1>1. PeopleInv /\ RowsEntangled /\ PeopleRows
  BY DEF PeopleTyped, PeopleInv
<1> SUFFICES RowsEntangled'
  BY <1>1, PeopleKeep DEF PeopleTyped
<1>2. CASE UNCHANGED accountVars
  BY <1>1, <1>2 DEF accountVars, RowsEntangled, Busy
<1>3. ASSUME NEW r \in People, MovesOn(r),
             entangled' \subseteq entangled \cup {request[r].row}
      PROVE  RowsEntangled'
  <2>1. request[r].row \in Accounts \cup ClientRows
    BY <1>1, <1>3 DEF PeopleInv, RowOfKind, RowsEntangled, MovesOn
  <2>2. \A s \in People : Busy(s)' =>
            Busy(s) /\ request'[s].kind = request[s].kind
    BY <1>3 DEF MovesOn, OthersKeep, Busy
  <2> QED
    BY <1>1, <1>3, <2>1, <2>2 DEF RowsEntangled
<1>4. ASSUME NEW r \in People, Asked(r) PROVE RowsEntangled'
  <2>1. PICK kind \in CustomerKinds \cup ClientKinds, k \in Accounts \cup ClientRows,
             e \in Emails \cup {NoEmail}, n \in ClientRows \cup {NoOne} :
             \E rows \in {{k}, ClientRows} : Checked(r, kind, k, e, n, rows)
    BY <1>4 DEF Asked
  <2>2. /\ entangled' \subseteq entangled \cup {k} \cup ClientRows
        /\ request' = [request EXCEPT ![r] = [pc |-> "write", kind |-> kind, row |-> k,
                                              email |-> e, client |-> n]]
    BY <2>1 DEF Checked
  <2>3. /\ request'[r].kind = kind
        /\ \A s \in People : s # r => request'[s] = request[s]
    BY <1>1, <2>2 DEF PeopleRows
  <2> QED
    BY <1>1, <2>1, <2>2, <2>3 DEF RowsEntangled, Busy
<1>5. ASSUME NEW r \in People, WriteAccount(r) PROVE RowsEntangled'
  <2>1. entangled' = entangled
    BY <1>5 DEF WriteAccount
  <2>2. MovesOn(r)
    <3>1. request[r].pc = "write" /\ Busy(r)
      BY <1>5 DEF WriteAccount, Busy
    <3>2. CASE request[r].kind = "temporary" /\ request' = [request EXCEPT ![r].pc = "mail"]
      BY <3>1, <3>2, <1>1, MailMovesOn
    <3>3. CASE Over(r)
      BY <3>1, <3>3, <1>1, OverMovesOn
    <3> QED
      BY <1>5, <3>2, <3>3 DEF WriteAccount
  <2> QED
    BY <1>3, <2>1, <2>2
<1>6. ASSUME NEW r \in People, WriteClient(r) \/ MailTemporary(r) \/ Fails(r) PROVE RowsEntangled'
  <2>1. Busy(r) /\ Over(r) /\ entangled' \subseteq entangled \cup {request[r].row}
    BY <1>6 DEF WriteClient, MailTemporary, Fails, Busy
  <2> QED
    BY <1>1, <1>3, <2>1, OverMovesOn
<1> QED
  BY <1>2, <1>4, <1>5, <1>6, PeopleSteps

LEMMA PeopleAreTyped == PeopleTyped => AccountsTypeOK
  BY DEF PeopleTyped, PeopleInv, PeopleRows, RowsEntangled, AccountsTypeOK, AccountRows,
         ClientRecords, Requests

-----------------------------------------------------------------------------
(* The types of the catalogue and of the mails; what has not been said yet. *)

\* The rows are what they were shown to be, and the changes are counted.
CatalogueTyped == CatalogueInv /\ changes \in 0..MaxChanges

LEMMA CatalogueTypedBegins == CatalogueInit => CatalogueTyped
<1> SUFFICES ASSUME CatalogueInit PROVE changes \in 0..MaxChanges
  BY CatalogueBegins DEF CatalogueTyped
<1> QED
  BY CatalogueAssumption DEF CatalogueInit

\* An operation counts as a change, or is the second half of one.
LEMMA ChangesCounted ==
    CatalogueNext => changes' = changes \/ (changes < MaxChanges /\ changes' = changes + 1)
<1> SUFFICES ASSUME CatalogueNext
             PROVE  changes' = changes \/ (changes < MaxChanges /\ changes' = changes + 1)
  OBVIOUS
<1>1. CASE \E v \in Values : CreateValue(v) \/ DeleteValue(v) \/ RemoveLink(v)
  BY <1>1 DEF CreateValue, DeleteValue, RemoveLink, Change
<1>2. CASE \/ \E a \in DOMAIN CategoryOf : DeleteAttribute(a)
           \/ \E k \in Categories : DeleteCategory(k)
           \/ \E k \in Categories \cup {NoCategory} : ChangeCategory(k)
  BY <1>2 DEF DeleteAttribute, DeleteCategory, ChangeCategory, Change
<1>3. CASE \E k \in Categories : \E vs \in Few :
               \/ CreateListing(k, vs)
               \/ \E x \in Articles : \E own, other \in Few : CreateWithVariants(k, vs, x, own, other)
  BY <1>3 DEF CreateListing, CreateWithVariants
<1>4. CASE \E e \in Editors :
               \/ \E vs \in Few : CheckAssignAttributes(e, vs) \/ CheckReplaceAttributes(e, vs)
               \/ \E x \in Articles, vs \in Few :
                      CheckNewVariant(e, x, vs) \/ CheckVariantValues(e, x, vs)
  BY <1>4 DEF CheckAssignAttributes, CheckReplaceAttributes, CheckAssign, CheckNewVariant,
              CheckVariantValues, CheckVariant, Free, StartEdit
<1>5. CASE \E e \in Editors : \/ Assign(e) \/ Replace(e) \/ InsertVariant(e)
                              \/ ReplaceVariantValues(e) \/ RollBack(e)
  BY <1>5 DEF Assign, Replace, InsertVariant, ReplaceVariantValues, SaveVariant, RollBack
<1> QED
  BY <1>1, <1>2, <1>3, <1>4, <1>5 DEF CatalogueNext

LEMMA CatalogueTypedStep == CatalogueTyped /\ [CatalogueNext]_catalogueVars => CatalogueTyped'
<1> SUFFICES ASSUME CatalogueTyped, [CatalogueNext]_catalogueVars
             PROVE  changes' \in 0..MaxChanges
  BY CatalogueKeeps DEF CatalogueTyped
<1>1. changes' = changes \/ (changes < MaxChanges /\ changes' = changes + 1)
  BY ChangesCounted DEF catalogueVars
<1> QED
  BY <1>1, CatalogueAssumption DEF CatalogueTyped

LEMMA CatalogueIsTyped == CatalogueTyped => CatalogueTypeOK
  BY DEF CatalogueTyped, CatalogueInv, CatalogueRows, CatalogueTypeOK, ListedRows, ArticleRows,
         EditorRows, PastRows

\* The types of the throttle, the breakers and the restarts: a job that was
\* handed out as often as it may be has failed.
BreakerRecords == [open : BOOLEAN, failures : Nat]

JobsTire ==
    \A m \in Mails : /\ stalls[m] <= MaxStalls + 1
                     /\ stalls[m] > MaxStalls => job[m] = "failed"

MailTyped ==
    /\ MailInv /\ JobsTire
    /\ redis \in BOOLEAN
    /\ slots \in 0..MaxPerHour
    /\ mailBreaker \in [Guarded -> BreakerRecords] /\ workerBreaker \in BreakerRecords
    /\ \A m \in Mails : mail[m].pc = "send" => mail[m].kind \in Guarded
    /\ answerLost \subseteq Mails
    /\ webStops \in 0..MaxStops

LEMMA MailTypedBegins == MailInit => MailTyped
<1> SUFFICES ASSUME MailInit PROVE MailTyped
  OBVIOUS
<1>1. Shut \in BreakerRecords
  BY DEF Shut, BreakerRecords
<1>2. \A m \in Mails : mail[m].pc = "idle"
  BY DEF MailInit, NoMail
<1>3. JobsTire
  BY StaffMailAssumption DEF MailInit, JobsTire
<1> QED
  BY <1>1, <1>2, <1>3, MailBegins, StaffMailAssumption DEF MailInit, MailTyped

LEMMA BreakersTyped ==
    ASSUME NEW b \in BreakerRecords, NEW ok \in BOOLEAN
    PROVE  Passed(b) \in BreakerRecords /\ After(b, ok) \in BreakerRecords
<1>1. Passed(b) \in BreakerRecords
  BY DEF Passed, Shut, BreakerRecords
<1> SUFFICES After(b, ok) \in BreakerRecords
  BY <1>1
<1>2. CASE ok
  BY <1>2 DEF After, BreakerRecords
<1>3. CASE ~ok
  <2>1. b.failures + 1 \in Nat
    BY DEF BreakerRecords
  <2>2. (b.open \/ b.failures + 1 >= MailThreshold) \in BOOLEAN
    BY DEF BreakerRecords
  <2>3. [open |-> b.open \/ b.failures + 1 >= MailThreshold, failures |-> b.failures + 1]
          \in BreakerRecords
    BY <2>1, <2>2 DEF BreakerRecords
  <2> QED
    BY <1>3, <2>3 DEF After
<1> QED
  BY <1>2, <1>3

\* The throttle counts to its limit.
LEMMA SlotsTyped ==
    ASSUME MailTyped, MailNext
    PROVE  slots' \in 0..MaxPerHour
<1>1. \/ slots' = slots
      \/ \E recent \in 0..slots : recent < MaxPerHour /\ slots' = recent + 1
      \/ slots' = 0
  <2>1. CASE WebStops
    BY <2>1 DEF WebStops
  <2>2. CASE \E m \in Mails :
                 \/ PaymentRegistered(m) \/ CreditSaleCreated(m) \/ ClientNotifyRequested(m)
                 \/ CustomerPasswordReset(m) \/ BusinessAlertTriggered(m)
    BY <2>2 DEF PaymentRegistered, CreditSaleCreated, ClientNotifyRequested,
                CustomerPasswordReset, BusinessAlertTriggered
  <2>3. CASE \E m \in Mails :
                 \/ OmitWhileOpen(m) \/ Enqueue(m) \/ SendInline(m)
                 \/ \E taken, told \in BOOLEAN : SmtpAnswers(m, taken, told)
                 \/ WriteRow(m) \/ RowFails(m)
    BY <2>3 DEF OmitWhileOpen, Enqueue, SendInline, SmtpAnswers, WriteRow, RowFails
  <2>4. CASE \E m \in Mails :
                 \/ TakeJob(m) \/ WorkerOmits(m) \/ WorkerDelivers(m) \/ WorkerFails(m)
                 \/ WorkerFinishes(m) \/ WorkerStops(m)
    BY <2>4 DEF TakeJob, WorkerOmits, WorkerDelivers, WorkerFails, WorkerFinishes,
                WorkerStops, WorkerMoves
  <2> QED
    BY <2>1, <2>2, <2>3, <2>4 DEF MailNext
<1> QED
  BY <1>1, StaffMailAssumption DEF MailTyped

\* The breakers of both processes stay breakers.
LEMMA MailBreakersTyped ==
    ASSUME MailTyped, MailNext
    PROVE  mailBreaker' \in [Guarded -> BreakerRecords] /\ workerBreaker' \in BreakerRecords
<1>1. Shut \in BreakerRecords
  BY DEF Shut, BreakerRecords
<1>2. mailBreaker \in [Guarded -> BreakerRecords] /\ workerBreaker \in BreakerRecords
  BY DEF MailTyped
<1>3. ASSUME NEW k, NEW b, b \in BreakerRecords, mailBreaker' = [mailBreaker EXCEPT ![k] = b]
      PROVE  mailBreaker' \in [Guarded -> BreakerRecords]
  BY <1>2, <1>3
<1>4. CASE WebStops
  BY <1>1, <1>2, <1>4 DEF WebStops
<1>5. CASE \E m \in Mails :
               \/ PaymentRegistered(m) \/ CreditSaleCreated(m) \/ ClientNotifyRequested(m)
               \/ CustomerPasswordReset(m) \/ BusinessAlertTriggered(m)
               \/ OmitWhileOpen(m) \/ WriteRow(m) \/ RowFails(m)
  BY <1>2, <1>5 DEF PaymentRegistered, CreditSaleCreated, ClientNotifyRequested,
     CustomerPasswordReset, BusinessAlertTriggered, Begin, Omit, OmitWhileOpen, WriteRow, RowFails
<1>6. ASSUME NEW m \in Mails, Enqueue(m) \/ SendInline(m)
      PROVE  mailBreaker' \in [Guarded -> BreakerRecords] /\ workerBreaker' \in BreakerRecords
  <2>1. mail[m].kind \in Guarded /\ workerBreaker' = workerBreaker
    BY <1>6 DEF MailTyped, Enqueue, SendInline, At
  <2>2. PICK b \in BreakerRecords : b = mailBreaker[mail[m].kind]
    BY <1>2, <2>1
  <2>3. Passed(b) \in BreakerRecords /\ After(Passed(b), TRUE) \in BreakerRecords
    BY BreakersTyped
  <2>4. \/ mailBreaker' = [mailBreaker EXCEPT ![mail[m].kind] = Passed(b)]
        \/ mailBreaker' = [mailBreaker EXCEPT ![mail[m].kind] = After(Passed(b), TRUE)]
    BY <1>6, <2>2 DEF Enqueue, SendInline
  <2> QED
    BY <1>2, <1>3, <2>1, <2>3, <2>4
<1>7. ASSUME NEW m \in Mails, NEW taken \in BOOLEAN, NEW told \in BOOLEAN,
             SmtpAnswers(m, taken, told)
      PROVE  mailBreaker' \in [Guarded -> BreakerRecords] /\ workerBreaker' \in BreakerRecords
  <2>1. workerBreaker' = workerBreaker
    BY <1>7 DEF SmtpAnswers
  <2>2. CASE mail[m].kind \notin Guarded
    BY <1>2, <1>7, <2>1, <2>2 DEF SmtpAnswers
  <2>3. CASE mail[m].kind \in Guarded
    <3>1. PICK b \in BreakerRecords : b = mailBreaker[mail[m].kind]
      BY <1>2, <2>3
    <3>2. PICK ok \in BOOLEAN : ok = (taken /\ told)
      OBVIOUS
    <3>3. mailBreaker' = [mailBreaker EXCEPT ![mail[m].kind] = After(b, ok)]
      BY <1>7, <2>3, <3>1, <3>2 DEF SmtpAnswers
    <3> QED
      BY <1>3, <2>1, <3>3, BreakersTyped, <1>2
  <2> QED
    BY <2>2, <2>3
<1>8. ASSUME NEW m \in Mails, \/ TakeJob(m) \/ WorkerOmits(m) \/ WorkerDelivers(m)
                              \/ WorkerFails(m) \/ WorkerFinishes(m) \/ WorkerStops(m)
      PROVE  mailBreaker' \in [Guarded -> BreakerRecords] /\ workerBreaker' \in BreakerRecords
  <2>1. PICK b \in BreakerRecords : b = workerBreaker
    BY <1>2
  <2>2. /\ Passed(b) \in BreakerRecords /\ After(b, TRUE) \in BreakerRecords
        /\ After(b, FALSE) \in BreakerRecords
    BY BreakersTyped
  <2>3. /\ mailBreaker' = mailBreaker
        /\ workerBreaker' \in {b, Passed(b), After(b, TRUE), After(b, FALSE), Shut}
    BY <1>8, <2>1 DEF TakeJob, WorkerOmits, WorkerDelivers, WorkerFails, WorkerFinishes,
                      WorkerStops, WorkerMoves
  <2> QED
    BY <1>1, <1>2, <2>2, <2>3
<1> QED
  BY <1>4, <1>5, <1>6, <1>7, <1>8 DEF MailNext

\* Only mails that a breaker guards are handed to the service that has one.
LEMMA SendsGuarded ==
    ASSUME MailTyped, MailNext, NEW n \in Mails, mail'[n].pc = "send"
    PROVE  mail'[n].kind \in Guarded
<1> SUFFICES \/ mail'[n] = mail[n] \/ mail'[n].pc # "send" \/ mail'[n].kind \in Guarded
  BY DEF MailTyped
<1>1. MailRows /\ mail[n] \in MailRecords
  BY DEF MailTyped, MailInv, MailRows
<1>2. Ended.pc = "done"
  BY DEF Ended, NoMail
<1> HIDE DEF Ended
<1>3. CASE UNCHANGED mail
  BY <1>3
<1>4. CASE WebStops
  BY <1>1, <1>2, <1>4 DEF WebStops
<1>5. ASSUME NEW m \in Mails,
             \/ PaymentRegistered(m) \/ CreditSaleCreated(m) \/ ClientNotifyRequested(m)
             \/ CustomerPasswordReset(m) \/ BusinessAlertTriggered(m)
      PROVE  \/ mail'[n] = mail[n] \/ mail'[n].pc # "send" \/ mail'[n].kind \in Guarded
  <2>1. \/ \E kind \in Guarded : mail' = [mail EXCEPT ![m] = [kind |-> kind, pc |-> "send", ok |-> FALSE]]
        \/ mail' = [mail EXCEPT ![m] = [kind |-> "alert", pc |-> "smtp", ok |-> FALSE]]
        \/ mail' = [mail EXCEPT ![m] = Ended]
    BY <1>5 DEF PaymentRegistered, CreditSaleCreated, ClientNotifyRequested,
       CustomerPasswordReset, BusinessAlertTriggered, Begin, Omit, Guarded, Kinds
  <2> QED
    BY <1>1, <1>2, <2>1 DEF MailRows
<1>6. ASSUME NEW m \in Mails, NEW ok \in BOOLEAN, Answer(m, ok)
      PROVE  \/ mail'[n] = mail[n] \/ mail'[n].pc # "send" \/ mail'[n].kind \in Guarded
  BY <1>1, <1>6, AnswerGives
<1>7. CASE \E m \in Mails : \/ OmitWhileOpen(m) \/ Enqueue(m)
                            \/ \E taken, told \in BOOLEAN : SmtpAnswers(m, taken, told)
  <2>1. \E m \in Mails, ok \in BOOLEAN : Answer(m, ok)
    BY <1>7 DEF OmitWhileOpen, Enqueue, SmtpAnswers
  <2> QED
    BY <1>6, <2>1
<1>8. ASSUME NEW m \in Mails, SendInline(m)
      PROVE  \/ mail'[n] = mail[n] \/ mail'[n].pc # "send" \/ mail'[n].kind \in Guarded
  <2>1. mail' = [mail EXCEPT ![m] = [mail[m] EXCEPT !.pc = "smtp"]]
    BY <1>8 DEF SendInline, Move
  <2>2. mail[m] \in MailRecords
    BY <1>1 DEF MailRows
  <2>3. [mail[m] EXCEPT !.pc = "smtp"].pc = "smtp"
    BY <2>2 DEF MailRecords
  <2> QED
    BY <1>1, <2>1, <2>3 DEF MailRows
<1>9. ASSUME NEW m \in Mails, WriteRow(m) \/ RowFails(m)
      PROVE  \/ mail'[n] = mail[n] \/ mail'[n].pc # "send" \/ mail'[n].kind \in Guarded
  <2>1. mail' = [mail EXCEPT ![m] = Ended]
    BY <1>9 DEF WriteRow, RowFails
  <2> QED
    BY <1>1, <1>2, <2>1 DEF MailRows
<1>10. CASE \E m \in Mails : \/ TakeJob(m) \/ WorkerOmits(m) \/ WorkerDelivers(m)
                             \/ WorkerFails(m) \/ WorkerFinishes(m) \/ WorkerStops(m)
  BY <1>3, <1>10 DEF TakeJob, WorkerOmits, WorkerDelivers, WorkerFails,
                     WorkerFinishes, WorkerStops, WorkerMoves
<1> QED
  BY <1>4, <1>5, <1>7, <1>8, <1>9, <1>10 DEF MailNext

\* A job is handed out again at most as often as it may be.
LEMMA JobsStillTire ==
    ASSUME MailTyped, MailNext
    PROVE  JobsTire'
<1>1. /\ JobsTire /\ MaxStalls \in Nat
      /\ stalls \in [Mails -> Nat] /\ job \in [Mails -> JobStates]
      /\ \A m \in Mails : job[m] = "none" => stalls[m] = 0
  BY StaffMailAssumption DEF MailTyped, MailInv, MailRows, MailFits
<1>2. CASE UNCHANGED <<job, stalls>>
  BY <1>1, <1>2 DEF JobsTire
<1>3. ASSUME NEW m \in Mails, NEW after \in JobStates,
             stalls[m] <= MaxStalls, job' = [job EXCEPT ![m] = after], UNCHANGED stalls
      PROVE  JobsTire'
  BY <1>1, <1>3 DEF JobsTire
<1>4. ASSUME NEW m \in Mails, Enqueue(m) \/ SendInline(m) PROVE JobsTire'
  <2>1. mail[m].pc = "send"
    BY <1>4 DEF Enqueue, SendInline, At
  <2>2. job[m] = "none" /\ stalls[m] <= MaxStalls
    BY <1>1, <2>1 DEF MailTyped, MailInv, MailFits
  <2>3. UNCHANGED stalls /\ (job' = job \/ job' = [job EXCEPT ![m] = "waiting"])
    BY <1>4 DEF Enqueue, SendInline
  <2> QED
    BY <1>2, <1>3, <2>2, <2>3 DEF JobStates
<1>5. ASSUME NEW m \in Mails, \/ TakeJob(m) \/ WorkerOmits(m) \/ WorkerDelivers(m)
                              \/ WorkerFails(m) \/ WorkerFinishes(m)
      PROVE  JobsTire'
  <2>1. PICK after \in {"active", "sent", "finished"} :
          job[m] # "failed" /\ job' = [job EXCEPT ![m] = after] /\ UNCHANGED stalls
    BY <1>5 DEF TakeJob, WorkerOmits, WorkerDelivers, WorkerFails, WorkerFinishes, WorkerMoves,
                AfterFailure
  <2>2. stalls[m] <= MaxStalls
    BY <1>1, <2>1 DEF JobsTire
  <2> QED
    BY <1>3, <2>1, <2>2 DEF JobStates
<1>6. ASSUME NEW m \in Mails, WorkerStops(m) PROVE JobsTire'
  <2>1. /\ job[m] # "failed" /\ stalls' = [stalls EXCEPT ![m] = stalls[m] + 1]
        /\ job' = [job EXCEPT ![m] = IF stalls[m] < MaxStalls THEN "waiting" ELSE "failed"]
    BY <1>6 DEF WorkerStops, WorkerMoves
  <2>2. stalls[m] <= MaxStalls
    BY <1>1, <2>1 DEF JobsTire
  <2>3. /\ stalls'[m] = stalls[m] + 1
        /\ job'[m] = IF stalls[m] < MaxStalls THEN "waiting" ELSE "failed"
        /\ \A n \in Mails : n # m => stalls'[n] = stalls[n] /\ job'[n] = job[n]
    BY <1>1, <2>1
  <2> QED
    BY <1>1, <2>2, <2>3 DEF JobsTire
<1> QED
  BY <1>2, <1>4, <1>5, <1>6 DEF MailNext, WebStops, PaymentRegistered,
     CreditSaleCreated, ClientNotifyRequested, CustomerPasswordReset, BusinessAlertTriggered,
     Begin, Omit, OmitWhileOpen, SmtpAnswers, WriteRow, RowFails

\* Restarts of the web process and of the worker share one bound.
LEMMA StopsTyped ==
    ASSUME MailTyped, MailNext
    PROVE  webStops' \in 0..MaxStops
<1>1. CASE WebStops
  <2>1. PICK sum : sum = SumFunctionOnSet(stalls, Mails)
    OBVIOUS
  <2>2. \A m \in Mails : stalls[m] \in Nat
    BY DEF MailTyped, MailInv, MailRows
  <2>3. sum \in Nat
    BY <2>1, <2>2, SumNat, StaffMailAssumption
  <2>4. webStops + sum < MaxStops /\ webStops' = webStops + 1
    BY <1>1, <2>1 DEF WebStops, MayStop
  <2> QED
    BY <2>3, <2>4, StaffMailAssumption DEF MailTyped
<1>2. CASE UNCHANGED webStops
  BY <1>2 DEF MailTyped
<1>3. WebStops \/ UNCHANGED webStops
  BY DEF MailNext, PaymentRegistered,
     CreditSaleCreated, ClientNotifyRequested, CustomerPasswordReset, BusinessAlertTriggered,
     Begin, Omit, OmitWhileOpen, Enqueue, SendInline, SmtpAnswers, WriteRow, RowFails,
     TakeJob, WorkerOmits, WorkerDelivers, WorkerFails, WorkerFinishes, WorkerStops, WorkerMoves
<1> QED
  BY <1>1, <1>2, <1>3

LEMMA MailTypedStep == MailTyped /\ [MailNext]_mailVars => MailTyped'
<1> SUFFICES ASSUME MailTyped, [MailNext]_mailVars PROVE MailTyped'
  OBVIOUS
<1>1. CASE UNCHANGED mailVars
  <2>1. MailInv'
    BY <1>1, MailStep DEF MailTyped
  <2> QED
    BY <1>1, <2>1 DEF MailTyped, mailVars, JobsTire
<1>2. CASE MailNext
  <2>1. MailInv'
    BY <1>2, MailStep DEF MailTyped
  <2>2. redis' = redis /\ answerLost' \subseteq Mails
    BY <1>2 DEF MailTyped, MailNext, WebStops, PaymentRegistered,
       CreditSaleCreated, ClientNotifyRequested, CustomerPasswordReset, BusinessAlertTriggered,
       Begin, Omit, OmitWhileOpen, Enqueue, SendInline, SmtpAnswers, WriteRow, RowFails,
       TakeJob, WorkerOmits, WorkerDelivers, WorkerFails, WorkerFinishes, WorkerStops, WorkerMoves
  <2>3. /\ mailBreaker' \in [Guarded -> BreakerRecords] /\ workerBreaker' \in BreakerRecords
        /\ slots' \in 0..MaxPerHour /\ webStops' \in 0..MaxStops /\ JobsTire'
        /\ \A n \in Mails : mail'[n].pc = "send" => mail'[n].kind \in Guarded
    BY <1>2, MailBreakersTyped, SlotsTyped, StopsTyped, JobsStillTire, SendsGuarded
  <2> QED
    BY <2>1, <2>2, <2>3 DEF MailTyped
<1> QED
  BY <1>1, <1>2

LEMMA MailIsTyped == MailTyped => MailTypeOK
<1> SUFFICES ASSUME MailTyped PROVE MailTypeOK
  OBVIOUS
<1>1. \A k \in Guarded : mailBreaker[k] \in [open : BOOLEAN, failures : Nat]
  BY DEF MailTyped, BreakerRecords
<1>2. stalls \in [Mails -> 0..MaxStalls + 1]
  BY StaffMailAssumption DEF MailTyped, MailInv, MailRows, JobsTire
<1> QED
  BY <1>1, <1>2 DEF MailTyped, MailInv, MailRows, MailRecords, JobStates, BreakerRecords, MailTypeOK

-----------------------------------------------------------------------------
(* All the parts, as MCBackoffice puts them side by side.                   *)

OfficeTyped(p) ==
    /\ p = "inventory" => InventoryRows
    /\ p = "catalogue" => CatalogueTyped
    /\ p = "media" => MediaTyped
    /\ p = "plans" => PlansInv
    /\ p = "accounts" => PeopleTyped
    /\ p = "mail" => MailTyped
    /\ p = "flags" => FlagTyped
    /\ p = "slugs" => SlugsTyped
    /\ p = "cache" => CacheTyped
    /\ p = "figures" => FiguresTyped

LEMMA OfficeTypedBegins == Init => OfficeTyped(part)
<1> SUFFICES ASSUME Init PROVE OfficeTyped(part)
  OBVIOUS
<1>1. InventoryRows /\ CatalogueTyped /\ MediaTyped /\ PlansInv /\ PeopleTyped /\ MailTyped
  BY InventoryStart, CatalogueTypedBegins, MediaTypedBegins, PlansInvInit, CreditPlansAssumption,
     PeopleTypedBegins, MailTypedBegins DEF Init
<1>2. FlagTyped /\ SlugsTyped /\ CacheTyped /\ FiguresTyped
  BY FlagTypedBegins, SlugsTypedBegins, CacheTypedBegins, FiguresTypedBegin DEF Init
<1> QED
  BY <1>1, <1>2 DEF OfficeTyped

LEMMA OfficeTypedStep == OfficeTyped(part) /\ [Next]_vars => OfficeTyped(part)'
<1> SUFFICES ASSUME OfficeTyped(part), [Next]_vars PROVE OfficeTyped(part)'
  OBVIOUS
<1>0. part' = part
  BY DEF Next, vars
<1>1. part = "inventory" => InventoryRows'
  BY InventoryRowsStep DEF OfficeTyped, Next, vars
<1>2. part = "catalogue" => CatalogueTyped'
  BY CatalogueTypedStep DEF OfficeTyped, Next, vars
<1>3. part = "media" => MediaTyped'
  BY MediaTypedStep DEF OfficeTyped, Next, vars
<1>4. part = "plans" => PlansInv'
  BY PlansStepKeeps, CreditPlansAssumption DEF OfficeTyped, Next, vars
<1>5. part = "accounts" => PeopleTyped'
  BY PeopleTypedStep DEF OfficeTyped, Next, vars
<1>6. part = "mail" => MailTyped'
  BY MailTypedStep DEF OfficeTyped, Next, vars
<1>7. part = "flags" => FlagTyped'
  BY FlagTypedStep DEF OfficeTyped, Next, vars
<1>8. part = "slugs" => SlugsTyped'
  BY SlugsTypedStep DEF OfficeTyped, Next, vars
<1>9. part = "cache" => CacheTyped'
  BY CacheTypedStep DEF OfficeTyped, Next, vars
<1>10. part = "figures" => FiguresTyped'
  BY FiguresTypedStep DEF OfficeTyped, Next, vars
<1> QED
  BY <1>0, <1>1, <1>2, <1>3, <1>4, <1>5, <1>6, <1>7, <1>8, <1>9, <1>10
  DEF OfficeTyped

LEMMA OfficeIsTyped == OfficeTyped(part) => TypeOK
  BY CatalogueIsTyped, MediaIsTyped, PlansAreTyped, PeopleAreTyped, MailIsTyped, FlagIsTyped,
     SlugsAreTyped, CacheIsTyped, FiguresAreTyped
  DEF OfficeTyped, TypeOK, InventoryRows

\* Every part of the back office keeps the types of its rows, of what its
\* requests and jobs have read, and of its counters, which pass no bound.
THEOREM BackofficeTypeCorrect == Spec => []TypeOK
  BY OfficeTypedBegins, OfficeTypedStep, OfficeIsTyped, PTL DEF Spec
=============================================================================
