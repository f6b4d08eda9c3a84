---------------------------- MODULE MCBackoffice ----------------------------
(***************************************************************************)
(* Small instances of the parts of the back office that have no state in   *)
(* common, for one run of TLC: as in MCStorefront, a behaviour picks one   *)
(* part and only that part moves in it.                                    *)
(***************************************************************************)
EXTENDS Inventory, Catalogue, Pages, Collections, Accounts, StaffMail, Caches, TLC

CONSTANTS red, blue, big, cotton

Query(size, page, inStock, least, one) ==
    [limit |-> size, page |-> page, inStock |-> inStock, least |-> least, most |-> 1,
     one |-> one]
Whole == Query(2, 1, {}, 0, 0)

VARIABLE part  \* the part of the back office that moves

Parts == {"inventory", "catalogue", "media", "plans", "accounts", "mail", "flags",
          "slugs", "cache", "figures"}

vars == <<part, inventoryVars, catalogueVars, mediaVars, planVars, accountVars, mailVars,
          flagVars, slugVars, cacheVars, figureVars>>

NoMoves(p) ==
    /\ p # "inventory" => UNCHANGED inventoryVars
    /\ p # "catalogue" => UNCHANGED catalogueVars
    /\ p # "media" => UNCHANGED mediaVars
    /\ p # "plans" => UNCHANGED planVars
    /\ p # "accounts" => UNCHANGED accountVars
    /\ p # "mail" => UNCHANGED mailVars
    /\ p # "flags" => UNCHANGED flagVars
    /\ p # "slugs" => UNCHANGED slugVars
    /\ p # "cache" => UNCHANGED cacheVars
    /\ p # "figures" => UNCHANGED figureVars

\* One beginning is enough for a part that does not move.
Init ==
    /\ part \in Parts
    /\ InventoryInit /\ CatalogueInit /\ MediaInit /\ PlansInit /\ AccountsInit
    /\ MailInit /\ FlagInit /\ SlugsInit /\ CacheInit /\ FiguresInit
    /\ part # "mail" => redis
    /\ part # "flags" => flagRow = NoFlagRow
    /\ part # "cache" => copy.query = Whole
    /\ part # "plans" => \A l \in Limits : limit <= l

Next ==
    /\ UNCHANGED part
    /\ NoMoves(part)
    /\ \/ part = "inventory" /\ InventoryNext
       \/ part = "catalogue" /\ CatalogueNext
       \/ part = "media" /\ MediaNext
       \/ part = "plans" /\ PlansNext
       \/ part = "accounts" /\ AccountsNext
       \/ part = "mail" /\ MailNext
       \/ part = "flags" /\ FlagNext
       \/ part = "slugs" /\ SlugsNext
       \/ part = "cache" /\ CacheNext
       \/ part = "figures" /\ FiguresNext

Spec == Init /\ [][Next]_vars

TypeOK ==
    /\ part = "inventory" => InventoryTypeOK
    /\ part = "catalogue" => CatalogueTypeOK
    /\ part = "media" => MediaTypeOK
    /\ part = "plans" => PlansTypeOK
    /\ part = "accounts" => AccountsTypeOK
    /\ part = "mail" => MailTypeOK
    /\ part = "flags" => FlagTypeOK
    /\ part = "slugs" => SlugsTypeOK
    /\ part = "cache" => CacheTypeOK
    /\ part = "figures" => FiguresTypeOK

-----------------------------------------------------------------------------
\* Two colours and a size of shirts, and what sheets are made of.
Attributes == (red :> "color") @@ (blue :> "color") @@ (big :> "size") @@ (cotton :> "stuff")
CategoryOfAttribute == [color |-> "shirts", size |-> "shirts", stuff |-> "sheets"]

\* A plan of each frequency and none; the last one of instalments that round
\* to a cent, with a day that February lacks.
Sold(total, count, frequency, day, day2, initial, soldOn) ==
    [total |-> total, count |-> count, frequency |-> frequency, day |-> day, day2 |-> day2,
     initial |-> initial, amount |-> 0, soldOn |-> soldOn]
SomeOrders == {Sold(1000, 3, "MONTHLY", 15, 0, 0, 20), Sold(100, 2, "BIWEEKLY", 20, 15, 1, 31),
               Sold(1000, 3, "WEEKLY", 7, 0, 200, 20), Sold(500, 0, "NONE", 0, 0, 0, 20),
               Sold(1000, 3, "WEEKLY", 15, 0, 0, 20),
               Sold(2, 3, "BIWEEKLY", 2, 31, 0, 55)}

\* Another plan, other days, no initial payment, another date of sale.
Edit(count, frequency, day, day2, initial, soldOn) ==
    [count |-> count, frequency |-> frequency, day |-> day, day2 |-> day2,
     initial |-> initial, soldOn |-> soldOn]
SomeEdits == {Edit(2, "MONTHLY", -1, -1, -1, -1), Edit(3, "BIWEEKLY", 31, 1, -1, -1),
              Edit(-1, "NONE", 15, -1, -1, -1), Edit(-1, "NONE", -1, -1, 0, -1),
              Edit(-1, "NONE", -1, -1, -1, 40)}

\* A name, and the same with -2.
Slugged == <<"shirt", "shirt-2">>

\* All goods, one of those in stock, those with a unit or more or with none,
\* the second page, one good.
SomeQueries == {Whole, Query(1, 1, {TRUE}, 0, 0), Query(1, 1, {}, 1, 0),
                Query(2, 1, {FALSE}, 0, 0), Query(1, 2, {}, 0, 0), Query(2, 1, {}, 0, 1)}

\* The actors of most parts have their names in common, so that one small
\* group of permutations serves every part.
Symmetric == Permutations(Clerks)
=============================================================================
