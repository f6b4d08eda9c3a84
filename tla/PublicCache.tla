---------------------------- MODULE PublicCache -----------------------------
(***************************************************************************)
(* The public answers about products and the copy a browser keeps of one.  *)
(* The tag of an answer is a hash of the updatedAt stamps found anywhere   *)
(* in its body, sorted, or of the body if there are none; a request that   *)
(* brings the tag along is answered 304 and the copy stays.                *)
(*                                                                         *)
(* A good has one variant besides its default one.  Pictures, links and    *)
(* the name of the category stand in the body without a stamp of theirs,   *)
(* and so does the number of goods that match.  Stamps are the numbers of  *)
(* the changes: two changes in one millisecond are left aside, but the     *)
(* bulk request gives all its goods one stamp and all their variants       *)
(* another.  A version, too, is the number of the change it is from.       *)
(***************************************************************************)
EXTENDS Integers, Sequences, FiniteSets

CONSTANTS Goods,            \* bound: product rows, numbered as they were created
          Queries,          \* the requests a browser may repeat
          MaxCacheChanges   \* bound: changes of an instance

\* The requests that are served: a page and a range of stock that make sense.
PageAccepted(q) == q.page \in Nat \ {0} /\ q.limit \in 1..100
FilterAccepted(q) == q.least >= 0 /\ q.least <= q.most /\ q.inStock \subseteq BOOLEAN

ASSUME PublicCacheAssumption ==
    /\ IsFiniteSet(Goods) /\ Goods = 1..Cardinality(Goods)
    /\ MaxCacheChanges \in Nat
    /\ \A q \in Queries : PageAccepted(q) /\ FilterAccepted(q) /\ q.one \in Goods \cup {0}

VARIABLES good,     \* good[g]: a product row with its variant and pictures
          section,  \* version of the category's name
          copy,     \* what the browser keeps
          changed,  \* number of changes so far
          bulked    \* a bulk request has been served

cacheVars == <<good, section, copy, changed, bulked>>

Version == -Cardinality(Goods)..2 * MaxCacheChanges

CacheTypeOK ==
    /\ good \in [Goods -> [live : BOOLEAN, text : Version, stock : 0..1, stamp : Version,
                           other : Version, otherStamp : Version, pictures : Version]]
    /\ section \in Version
    /\ copy.kept \in BOOLEAN /\ copy.fresh \in BOOLEAN /\ copy.query \in Queries
    /\ changed \in 0..MaxCacheChanges
    /\ bulked \in BOOLEAN

-----------------------------------------------------------------------------
\* One row of a body; what is seen of its category is its name.
VariantRow(g) == [text |-> good[g].other, stamp |-> good[g].otherStamp]
ProductRow(g) ==
    [good |-> g, text |-> good[g].text, stock |-> good[g].stock, stamp |-> good[g].stamp,
     variant |-> VariantRow(g), pictures |-> good[g].pictures, section |-> section]

\* buildWhere: whether there is stock, if that is asked, and else how much.
InRange(q, stock) ==
    IF q.inStock # {} THEN q.inStock = {stock > 0} ELSE stock \in q.least..q.most
Matches(q) == {g \in Goods : good[g].live /\ InRange(q, good[g].stock)}

\* The goods of gs in the order of the list, the last created first.
Listed(gs) ==
    [i \in 1..Cardinality(gs) |-> CHOOSE g \in gs : Cardinality({h \in gs : h >= g}) = i]

\* PaginationDto: page and limit are at least 1.
OnPage(q, gs) ==
    LET skip == (q.page - 1) * q.limit
        places == skip + 1..skip + q.limit IN
    [i \in 1..Cardinality(places \cap 1..Cardinality(gs)) |-> Listed(gs)[skip + i]]

Rows(gs) == [i \in DOMAIN gs |-> ProductRow(gs[i])]

\* GET /products, and GET /products/:id for the good that q.one names.
Body(q) ==
    IF q.one # 0 THEN [rows |-> Rows(Listed({g \in {q.one} : good[g].live})), total |-> 0]
    ELSE [rows |-> Rows(OnPage(q, Matches(q))), total |-> Cardinality(Matches(q))]

\* Mutant of Stamps: what is nested in a row is not looked at.
StampsOutside(body) ==
    {<<s, Cardinality({i \in DOMAIN body.rows : body.rows[i].stamp = s})>> :
        s \in {body.rows[i].stamp : i \in DOMAIN body.rows}}
\* collectUpdatedAt: every stamp with the number of times it occurs.
Stamps(body) ==
    LET own(s) == {i \in DOMAIN body.rows : body.rows[i].stamp = s}
        nested(s) == {i \in DOMAIN body.rows : body.rows[i].variant.stamp = s} IN
    {<<s, Cardinality(own(s)) + Cardinality(nested(s))>> :
        s \in UNION {{body.rows[i].stamp, body.rows[i].variant.stamp} :
                         i \in DOMAIN body.rows}}

\* hashEtag; a hash is what was hashed.
Tag(body) == IF body.rows = <<>> THEN [stamps |-> {}, seed |-> body.total]
             ELSE [stamps |-> Stamps(body), seed |-> 0]

NoCopy(q) == [kept |-> FALSE, fresh |-> FALSE, query |-> q, body |-> <<>>]

CacheInit ==
    /\ good = [g \in Goods |-> [live |-> TRUE, text |-> 0, stock |-> 1, stamp |-> -g,
                                other |-> 0, otherStamp |-> -g, pictures |-> 0]]
    /\ section = 0
    /\ copy \in {NoCopy(q) : q \in Queries}
    /\ changed = 0
    /\ bulked = FALSE

-----------------------------------------------------------------------------
Now == changed + 1

CacheChange ==
    /\ changed < MaxCacheChanges
    /\ changed' = changed + 1
    /\ copy' = [copy EXCEPT !.fresh = FALSE]

\* PUT /products/:id and the retail price: Prisma stamps the row.
EditGood(g) ==
    /\ CacheChange
    /\ good' = [good EXCEPT ![g].text = Now, ![g].stamp = Now]
    /\ UNCHANGED <<section, bulked>>

\* PATCH /products/:id/stock, a sale or its return.
ChangeStock(g) ==
    /\ CacheChange
    /\ good' = [good EXCEPT ![g].stock = 1 - @, ![g].stamp = Now]
    /\ UNCHANGED <<section, bulked>>

\* PUT /products/:productId/variants/:id, its label or its price.
EditVariant(g) ==
    /\ CacheChange
    /\ good' = [good EXCEPT ![g].other = Now, ![g].otherStamp = Now]
    /\ UNCHANGED <<section, bulked>>

\* DELETE /products/:id.
HideGood(g) ==
    /\ CacheChange
    /\ good[g].live
    /\ good' = [good EXCEPT ![g].live = FALSE, ![g].stamp = Now]
    /\ UNCHANGED <<section, bulked>>

\* The bulk request: one stamp for the products, a later one for the variants.
ShowMany(gs, live) ==
    /\ CacheChange
    /\ good' = [g \in Goods |->
           IF g \in gs THEN [good[g] EXCEPT !.live = live, !.stamp = Now,
                                            !.otherStamp = Now + MaxCacheChanges]
           ELSE good[g]]
    /\ bulked' = TRUE
    /\ UNCHANGED section

\* A picture or an asset comes or goes: the product's row is not written.
ChangePictures(g) ==
    /\ CacheChange
    /\ good' = [good EXCEPT ![g].pictures = Now]
    /\ UNCHANGED <<section, bulked>>

\* PUT /categories/:id.
RenameSection ==
    /\ CacheChange
    /\ section' = Now
    /\ UNCHANGED <<good, bulked>>

\* The browser asks again, with the tag of its copy if it has one.
Revalidate ==
    /\ ~copy.fresh
    /\ LET body == Body(copy.query) IN
       copy' = [copy EXCEPT
           !.kept = TRUE, !.fresh = TRUE,
           !.body = IF copy.kept /\ Tag(copy.body) = Tag(body) THEN @ ELSE body]
    /\ UNCHANGED <<good, section, changed, bulked>>

CacheNext ==
    \/ \E g \in Goods : EditGood(g) \/ ChangeStock(g) \/ EditVariant(g) \/ HideGood(g)
                        \/ ChangePictures(g)
    \/ \E gs \in SUBSET Goods \ {{}}, live \in BOOLEAN : ShowMany(gs, live)
    \/ RenameSection
    \/ Revalidate

CacheSpec == CacheInit /\ [][CacheNext]_cacheVars

-----------------------------------------------------------------------------
\* What the products' and the variants' own rows put into a body.
Stamped(body) ==
    [i \in DOMAIN body.rows |-> [good |-> body.rows[i].good, text |-> body.rows[i].text,
                                 stock |-> body.rows[i].stock,
                                 variant |-> body.rows[i].variant.text]]

\* A copy the server has just confirmed shows the products as they are, and
\* their variants, but for what has no stamp of its own: pictures, the name of
\* the category and the total may be old.  After a bulk request, whose goods
\* share their stamps, the copy may show another product; never more or fewer.
CopiesConfirmed ==
    copy.fresh =>
        /\ ~bulked => Stamped(copy.body) = Stamped(Body(copy.query))
        /\ Len(copy.body.rows) = Len(Body(copy.query).rows)
=============================================================================
