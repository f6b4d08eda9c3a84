------------------------------- MODULE Slugs --------------------------------
(***************************************************************************)
(* The addresses of product and category pages.  A product's slug may be   *)
(* changed; the one it had is then kept in ProductSlugHistory, unique over *)
(* all products, and the old address is answered with a redirect.  Neither *)
(* a new product's slug nor a changed one is compared with the history.    *)
(* Categories keep no history.                                             *)
(*                                                                         *)
(* A rename reads the row and writes it later in one transaction, a        *)
(* category is looked for and written in two statements: both are two      *)
(* steps.  The default variant repeats the slug of its product and is      *)
(* taken to be active.                                                     *)
(***************************************************************************)
EXTENDS Integers, Sequences, FiniteSets

CONSTANTS Wares,         \* bound: Product rows
          Shelves,         \* bound: Category rows
          SlugNames,     \* bound: well-formed slugs
          Candidates,    \* a name's slug, the same with -2, and so on
          Renamers,      \* requests that may be under way at once
          MaxSlugSteps,  \* bound: requests in an instance
          NoSlug, NoWare

ASSUME SlugsAssumption ==
    /\ Candidates \in Seq(SlugNames)
    /\ NoSlug \notin SlugNames /\ NoWare \notin Wares /\ MaxSlugSteps \in Nat

VARIABLES slugOf,       \* slugOf[w]: Product.slug, NoSlug before there is a row
          variantSlug,  \* the slug of its default variant
          shown,        \* Product.isActive
          former,       \* former[n]: the product of the history row with oldSlug n
          kindSlug,     \* Category.slug
          renamer,      \* renamer[c]: what a request has read and writes next
          slugSteps,
          owner,        \* owner[n]: the first product that had the slug
          returned      \* the products that took a slug back they had before

slugVars == <<slugOf, variantSlug, shown, former, kindSlug, renamer, slugSteps,
              owner, returned>>

SlugsTypeOK ==
    /\ slugOf \in [Wares -> SlugNames \cup {NoSlug}]
    /\ variantSlug \in [Wares -> SlugNames \cup {NoSlug}]
    /\ shown \in [Wares -> BOOLEAN]
    /\ former \in [SlugNames -> Wares \cup {NoWare}]
    /\ kindSlug \in [Shelves -> SlugNames \cup {NoSlug}]
    /\ renamer \in [Renamers ->
           [pc : {"idle", "product", "category"}, of : Wares \cup Shelves \cup {NoWare},
            from : SlugNames \cup {NoSlug}, to : SlugNames \cup {NoSlug}]]
    /\ slugSteps \in 0..MaxSlugSteps
    /\ owner \in [SlugNames -> Wares \cup {NoWare}]
    /\ returned \subseteq Wares

Rested == [pc |-> "idle", of |-> NoWare, from |-> NoSlug, to |-> NoSlug]

SlugsInit ==
    /\ slugOf = [w \in Wares |-> NoSlug]
    /\ variantSlug = [w \in Wares |-> NoSlug]
    /\ shown = [w \in Wares |-> FALSE]
    /\ former = [n \in SlugNames |-> NoWare]
    /\ kindSlug = [k \in Shelves |-> NoSlug]
    /\ renamer = [c \in Renamers |-> Rested]
    /\ slugSteps = 0
    /\ owner = [n \in SlugNames |-> NoWare]
    /\ returned = {}

SlugStep == slugSteps < MaxSlugSteps /\ slugSteps' = slugSteps + 1

\* The slugs of the rows other than x.
Used(slugs, x) == {slugs[y] : y \in DOMAIN slugs \ {x}} \ {NoSlug}

\* ensureUnique...Slug: the first candidate that no other row has.
FirstFree(used) ==
    {Candidates[i] : i \in {i \in DOMAIN Candidates :
        Candidates[i] \notin used /\ \A j \in 1..i - 1 : Candidates[j] \in used}}

\* The slug that is asked for must be free; without one, one is made.
Offered(asked, used) == IF asked = NoSlug THEN FirstFree(used) ELSE {asked} \ used

StartRequest(c, pc, x, from, to) ==
    /\ renamer[c] = Rested
    /\ SlugStep
    /\ renamer' = [renamer EXCEPT ![c] = [pc |-> pc, of |-> x, from |-> from, to |-> to]]
    /\ UNCHANGED <<slugOf, variantSlug, shown, former, kindSlug, owner, returned>>

Finish(c) == renamer' = [renamer EXCEPT ![c] = Rested]

-----------------------------------------------------------------------------
\* POST /products, the quick forms included: the slug is compared with those
\* of the other products, hidden ones too.
CreateWare(w, asked) ==
    /\ SlugStep
    /\ slugOf[w] = NoSlug
    /\ \E n \in Offered(asked, Used(slugOf, w)) :
           /\ slugOf' = [slugOf EXCEPT ![w] = n]
           /\ variantSlug' = [variantSlug EXCEPT ![w] = n]
           /\ owner' = [owner EXCEPT ![n] = IF @ = NoWare THEN w ELSE @]
    /\ shown' = [shown EXCEPT ![w] = TRUE]
    /\ UNCHANGED <<former, kindSlug, renamer, returned>>

\* PUT /products/:id with a slug: what the transaction reads.
BeginRename(c, w, n) == shown[w] /\ StartRequest(c, "product", w, slugOf[w], n)

\* Mutant of Recorded: no history is kept.
RecordedNot(w, from, to) == former
\* The slug that was read goes to the history unless it stays.
Recorded(w, from, to) == IF from = to THEN former ELSE [former EXCEPT ![from] = w]

\* The history has no place for the slug, or another product has the new one.
Clash(r) ==
    \/ r.from # r.to /\ former[r.from] # NoWare
    \/ r.to \in Used(slugOf, r.of)

CommitRename(c) ==
    LET r == renamer[c] IN
    /\ r.pc = "product"
    /\ ~Clash(r)
    /\ former' = Recorded(r.of, r.from, r.to)
    /\ slugOf' = [slugOf EXCEPT ![r.of] = r.to]
    /\ variantSlug' = [variantSlug EXCEPT ![r.of] = r.to]
    /\ owner' = [owner EXCEPT ![r.to] = IF @ = NoWare THEN r.of ELSE @]
    /\ returned' = IF slugOf[r.of] # r.to /\ former[r.to] = r.of THEN returned \cup {r.of}
                   ELSE returned
    /\ Finish(c)
    /\ UNCHANGED <<shown, kindSlug, slugSteps>>

\* The transaction is rolled back.
RefuseRename(c) ==
    /\ renamer[c].pc = "product"
    /\ Clash(renamer[c])
    /\ Finish(c)
    /\ UNCHANGED <<slugOf, variantSlug, shown, former, kindSlug, slugSteps, owner, returned>>

\* DELETE /products/:id hides one product, the bulk request hides or shows some.
SetShown(ws, b) ==
    /\ SlugStep
    /\ \A w \in ws : slugOf[w] # NoSlug /\ shown[w] # b
    /\ shown' = [w \in Wares |-> IF w \in ws THEN b ELSE shown[w]]
    /\ UNCHANGED <<slugOf, variantSlug, former, kindSlug, renamer, owner, returned>>

HideWare(w) == SetShown({w}, FALSE)
SetManyShown(ws, b) == ws # {} /\ SetShown(ws, b)

-----------------------------------------------------------------------------
\* POST and PUT /categories look among the other categories first.
BeginCreateKind(c, k, asked) ==
    /\ kindSlug[k] = NoSlug
    /\ \E n \in Offered(asked, Used(kindSlug, k)) : StartRequest(c, "category", k, NoSlug, n)
BeginRenameKind(c, k, n) ==
    /\ kindSlug[k] # NoSlug
    /\ n \notin Used(kindSlug, k)
    /\ StartRequest(c, "category", k, kindSlug[k], n)

\* The insert or the update; the unique key refuses it, or the row is gone.
WriteKind(c) ==
    LET r == renamer[c] IN
    /\ r.pc = "category"
    /\ kindSlug' = IF \/ r.to \in Used(kindSlug, r.of)
                      \/ (r.from = NoSlug) # (kindSlug[r.of] = NoSlug)
                   THEN kindSlug ELSE [kindSlug EXCEPT ![r.of] = r.to]
    /\ Finish(c)
    /\ UNCHANGED <<slugOf, variantSlug, shown, former, slugSteps, owner, returned>>

DeleteKind(k) ==
    /\ SlugStep
    /\ kindSlug[k] # NoSlug
    /\ kindSlug' = [kindSlug EXCEPT ![k] = NoSlug]
    /\ UNCHANGED <<slugOf, variantSlug, shown, former, renamer, owner, returned>>

SlugsNext ==
    \/ \E w \in Wares, n \in SlugNames \cup {NoSlug} : CreateWare(w, n)
    \/ \E c \in Renamers :
           \/ \E w \in Wares, n \in SlugNames : BeginRename(c, w, n)
           \/ \E k \in Shelves : \/ \E n \in SlugNames \cup {NoSlug} : BeginCreateKind(c, k, n)
                               \/ \E n \in SlugNames : BeginRenameKind(c, k, n)
           \/ CommitRename(c) \/ RefuseRename(c) \/ WriteKind(c)
    \/ \E w \in Wares : HideWare(w)
    \/ \E ws \in SUBSET Wares, b \in BOOLEAN : SetManyShown(ws, b)
    \/ \E k \in Shelves : DeleteKind(k)

SlugsSpec == SlugsInit /\ [][SlugsNext]_slugVars

-----------------------------------------------------------------------------
Redirect(n) == [kind |-> "redirect", slug |-> n, of |-> NoWare]
PageOf(w) == [kind |-> "page", slug |-> slugOf[w], of |-> w]
Missing == [kind |-> "missing", slug |-> NoSlug, of |-> NoWare]

\* The storefront's look-ups: each gives no product or one.
RedirectOf(n) == {former[n]} \cap {w \in Wares : shown[w]}
BySlug(n) == {w \in Wares : shown[w] /\ slugOf[w] = n}
ByVariantSlug(n) == {w \in Wares : shown[w] /\ variantSlug[w] = n}
KindsBySlug(n) == {k \in Shelves : kindSlug[k] = n}

\* GET /products/by-slug/:slug: the history comes first.
Looked(n) ==
    IF RedirectOf(n) # {} THEN Redirect(slugOf[former[n]])
    ELSE LET found == IF BySlug(n) # {} THEN BySlug(n) ELSE ByVariantSlug(n) IN
         IF found = {} THEN Missing ELSE PageOf(CHOOSE w \in found : TRUE)

\* The product whose page a reader gets who follows one redirect.
Reached(n) ==
    IF Looked(n).kind = "redirect" THEN Looked(Looked(n).slug).of ELSE Looked(n).of

\* Every address that was first a visible product's leads to it in one
\* redirect at most, however it is renamed, unless the product took back a
\* slug of its own (its history then redirects to itself) or now has one that
\* was another product's: of a visible one, which is where that slug still
\* leads, or of one that took a slug back, whose history may lack that slug.
SlugsLead ==
    \A n \in SlugNames \ {m \in SlugNames : owner[m] = NoWare} :
        LET w == owner[n]
            v == owner[slugOf[w]] IN
        shown[w] /\ w \notin returned /\ (v = w \/ (~shown[v] /\ v \notin returned))
            => Reached(n) = w

\* GET /categories/by-slug/:slug.
CategoryLooked(n) ==
    LET found == KindsBySlug(n) IN
    IF found = {} THEN NoWare ELSE CHOOSE k \in found : TRUE

\* sitemap.xml: the addresses of the visible products and of the categories.
SitemapWares == {slugOf[w] : w \in {w \in Wares : shown[w]}} \ {NoSlug}
SitemapKinds == {kindSlug[k] : k \in Shelves} \ {NoSlug}
Sitemap == [products |-> SitemapWares, categories |-> SitemapKinds]

\* What the sitemap lists is the page itself and no redirect, with the same
\* exceptions, and a category's address gives that category.
SitemapAnswers ==
    /\ \A n \in Sitemap.products : \E w \in BySlug(n) :
           w \in returned \/ owner[n] # w \/ Looked(n) = PageOf(w)
    /\ \A n \in Sitemap.categories : kindSlug[CategoryLooked(n)] = n
    /\ \A k \in Shelves : kindSlug[k] # NoSlug => CategoryLooked(kindSlug[k]) = k
=============================================================================
