----------------------------- MODULE Catalogue ------------------------------
(***************************************************************************)
(* The attributes of one product and of its variants, next to the          *)
(* categories, attributes and values they come from, which staff may add   *)
(* and delete meanwhile.  A value belongs to an attribute and that to a    *)
(* category; deleting one of them takes what hangs on it along, links of   *)
(* the product and of its variants included (ON DELETE CASCADE).           *)
(*                                                                         *)
(* What tells the variants apart is a hash of their values, unique per     *)
(* product; here the hash is the set that was hashed, in a set because the *)
(* default variant may have none (NULL).  A request that                   *)
(* reads before it writes is two steps.  Names do not matter, and a value  *)
(* that was deleted and entered again is another one.                      *)
(***************************************************************************)
EXTENDS Integers, FiniteSets

CONSTANTS Categories,    \* bound: category rows
          Values,        \* bound: AttributeValue rows
          AttributeOf,   \* AttributeOf[v]: the attribute of a value
          CategoryOf,    \* CategoryOf[a]: the category of an attribute
          Articles,      \* bound: the variants of the product
          MainArticle,   \* its default variant
          Editors,       \* requests that may be under way at once
          MaxChanges,    \* bound: changes in an instance
          NoCategory

ASSUME CatalogueAssumption ==
    /\ MainArticle \in Articles
    /\ NoCategory \notin Categories /\ MaxChanges \in Nat

VARIABLES valueRow,   \* valueRow[v]: unused, live or deleted
          listed,     \* the Product row: its category and its links
          article,    \* article[x]: the ProductVariant rows and their links
          editor,     \* editor[e]: what a request has read and writes next
          changes,
          past        \* what the properties make exceptions for

catalogueVars == <<valueRow, listed, article, editor, changes, past>>

Live == {v \in Values : valueRow[v] = "live"}
Attribute(v) == AttributeOf[v]
Category(v) == CategoryOf[AttributeOf[v]]

CatalogueTypeOK ==
    /\ valueRow \in [Values -> {"unused", "live", "deleted"}]
    /\ listed \in [created : BOOLEAN, category : Categories \cup {NoCategory},
                   links : SUBSET Values]
    /\ article \in [Articles -> [live : BOOLEAN, values : SUBSET Values,
                                 hash : SUBSET SUBSET Values]]
    /\ editor \in [Editors -> [pc : {"idle", "assign", "replace", "create", "update"},
                               article : Articles, values : SUBSET Values,
                               category : Categories \cup {NoCategory}]]
    /\ changes \in 0..MaxChanges
    /\ past \in [deleted : BOOLEAN, crossed : BOOLEAN, moved : BOOLEAN]

Resting == [pc |-> "idle", article |-> MainArticle, values |-> {}, category |-> NoCategory]
NoArticle == [live |-> FALSE, values |-> {}, hash |-> {}]

CatalogueInit ==
    /\ valueRow = [v \in Values |-> "unused"]
    /\ listed = [created |-> FALSE, category |-> NoCategory, links |-> {}]
    /\ article = [x \in Articles |-> NoArticle]
    /\ editor = [e \in Editors |-> Resting]
    /\ changes = 0
    /\ past = [deleted |-> FALSE, crossed |-> FALSE, moved |-> FALSE]

Change == changes < MaxChanges /\ changes' = changes + 1

-----------------------------------------------------------------------------
\* POST .../values; the first value of an attribute stands for both.
CreateValue(v) ==
    /\ Change
    /\ valueRow[v] = "unused"
    /\ valueRow' = [valueRow EXCEPT ![v] = "live"]
    /\ UNCHANGED <<listed, article, editor, past>>

\* The rows of gone go, with every link to them; hashes stay as they are.
Drop(gone, category) ==
    /\ valueRow' = [v \in Values |-> IF v \in gone THEN "deleted" ELSE valueRow[v]]
    /\ listed' = [listed EXCEPT !.category = category, !.links = @ \ gone]
    /\ article' = [x \in Articles |-> [article[x] EXCEPT !.values = @ \ gone]]
    /\ past' = [past EXCEPT !.deleted = TRUE]
    /\ UNCHANGED editor

DeleteValue(v) ==
    /\ Change
    /\ v \in Live
    /\ Drop({v}, listed.category)

DeleteAttribute(a) ==
    /\ Change
    /\ \E v \in Live : Attribute(v) = a
    /\ Drop({v \in Live : Attribute(v) = a}, listed.category)

\* The products of a category that is deleted keep no category.
DeleteCategory(k) ==
    /\ Change
    /\ \E v \in Live : Category(v) = k
    /\ Drop({v \in Values : Category(v) = k},
            IF listed.category = k THEN NoCategory ELSE listed.category)

-----------------------------------------------------------------------------
\* The values of several lists, the later ones winning per attribute.
Merged(old, new) ==
    new \cup {v \in old : \A w \in new : Attribute(w) # Attribute(v)}

OnePerAttribute(vs) == \A v, w \in vs : Attribute(v) = Attribute(w) => v = w

\* One value of each attribute among vs.
OneOfEach(vs) ==
    {m \in SUBSET vs : OnePerAttribute(m)
                       /\ \A v \in vs : \E w \in m : Attribute(w) = Attribute(v)}

\* POST /products, or quick-create, which finds or makes the category and
\* the values and links them.
CreateListing(k, vs) ==
    /\ ~listed.created
    /\ \A v \in vs : Category(v) = k /\ valueRow[v] # "deleted"
    /\ valueRow' = [v \in Values |-> IF v \in vs THEN "live" ELSE valueRow[v]]
    /\ listed' = [created |-> TRUE, category |-> k, links |-> vs]
    /\ article' = [article EXCEPT ![MainArticle].live = TRUE]
    /\ UNCHANGED <<editor, changes, past>>

\* What is asked of the variants' own values before anything is read: each
\* has some, one per attribute, for the same attributes, and they differ.
VariantAccepted(own) == own # {} /\ OnePerAttribute(own)
SameAttributes(own, other) == {Attribute(v) : v \in own} = {Attribute(v) : v \in other}

\* With variants: each has the product's values, the last one named of an
\* attribute, but for the attributes it brings values of its own for; the
\* hashes must differ, too.
CreateWithVariants(k, vs, x, own, other) ==
    /\ ~listed.created
    /\ x # MainArticle
    /\ VariantAccepted(own) /\ VariantAccepted(other)
    /\ own # other /\ SameAttributes(own, other)
    /\ \A v \in vs \cup own \cup other : Category(v) = k /\ valueRow[v] # "deleted"
    /\ \E base \in OneOfEach(vs) :
           LET mine == Merged(base, own)
               theirs == Merged(base, other) IN
           /\ mine # theirs
           /\ article' = [article EXCEPT
                  ![MainArticle] = [live |-> TRUE, values |-> mine, hash |-> {mine}],
                  ![x] = [live |-> TRUE, values |-> theirs, hash |-> {theirs}]]
    /\ valueRow' = [v \in Values |-> IF v \in vs \cup own \cup other THEN "live"
                                     ELSE valueRow[v]]
    /\ listed' = [created |-> TRUE, category |-> k, links |-> vs]
    /\ UNCHANGED <<editor, changes, past>>

\* PATCH /products/:id with a category: links of other categories go.
\* Nothing is done about the variants.
\* Mutant of Kept: links of other categories stay.
KeptAll(links, k) == links
Kept(links, k) == {v \in links : Category(v) = k}

ChangeCategory(k) ==
    /\ Change
    /\ listed.created /\ listed.category # k
    /\ listed' = [listed EXCEPT !.category = k, !.links = Kept(@, k)]
    /\ past' = [past EXCEPT !.moved = TRUE]
    /\ UNCHANGED <<valueRow, article, editor>>

-----------------------------------------------------------------------------
Free(e) == editor[e] = Resting /\ changes < MaxChanges

StartEdit(e, pc, x, vs) ==
    /\ changes' = changes + 1
    /\ editor' = [editor EXCEPT ![e] = [pc |-> pc, article |-> x, values |-> vs,
                                        category |-> listed.category]]
    /\ UNCHANGED <<valueRow, listed, article, past>>

FinishEdit(e) == editor' = [editor EXCEPT ![e] = Resting]

\* The product's category changed while the request was under way.
Crossed(e) == [past EXCEPT !.crossed = @ \/ editor[e].category # listed.category]

\* areValuesFromCategory; several values of one attribute are all right.
FromCategory(vs) == \A v \in vs : v \in Live /\ Category(v) = listed.category

CheckAssign(e, vs, pc) ==
    /\ Free(e)
    /\ listed.category # NoCategory
    /\ FromCategory(vs)
    /\ StartEdit(e, pc, MainArticle, vs)

CheckAssignAttributes(e, vs) == CheckAssign(e, vs, "assign")
CheckReplaceAttributes(e, vs) == CheckAssign(e, vs, "replace")

\* A value deleted in between makes the insert fail.
Assign(e) ==
    /\ editor[e].pc = "assign"
    /\ editor[e].values \subseteq Live
    /\ listed' = [listed EXCEPT !.links = @ \cup editor[e].values]
    /\ past' = Crossed(e)
    /\ FinishEdit(e)
    /\ UNCHANGED <<valueRow, article, changes>>

Replace(e) ==
    /\ editor[e].pc = "replace"
    /\ editor[e].values \subseteq Live
    /\ listed' = [listed EXCEPT !.links = editor[e].values]
    /\ past' = Crossed(e)
    /\ FinishEdit(e)
    /\ UNCHANGED <<valueRow, article, changes>>

RemoveLink(v) ==
    /\ Change
    /\ v \in listed.links
    /\ listed' = [listed EXCEPT !.links = @ \ {v}]
    /\ UNCHANGED <<valueRow, article, editor, past>>

\* buildMergedVariantValueIds: of several links of one attribute, the last
\* one read counts, and so does the last of the values asked for.
MergeFor(vs) ==
    {m \in OneOfEach(listed.links \cup vs) :
        \A v \in m \ vs : \A w \in vs : Attribute(w) # Attribute(v)}

CheckVariant(e, pc, x, vs) ==
    /\ Free(e)
    /\ listed.category # NoCategory
    /\ vs # {} /\ vs \subseteq Live
    /\ \E m \in MergeFor(vs) :
           /\ FromCategory(m)
           /\ StartEdit(e, pc, x, m)

CheckNewVariant(e, x, vs) ==
    /\ article[x] = NoArticle /\ x # MainArticle
    /\ CheckVariant(e, "create", x, vs)
CheckVariantValues(e, x, vs) == article[x].live /\ CheckVariant(e, "update", x, vs)

HashTaken(x, h) == \E y \in Articles \ {x} : article[y].live /\ article[y].hash = {h}

\* The hash is written along with the values.
SaveVariant(e) ==
    LET x == editor[e].article
        vs == editor[e].values IN
    /\ vs \subseteq Live
    /\ ~HashTaken(x, vs)
    /\ article' = [article EXCEPT ![x] = [live |-> TRUE, values |-> vs, hash |-> {vs}]]
    /\ past' = Crossed(e)
    /\ FinishEdit(e)
    /\ UNCHANGED <<valueRow, listed, changes>>

InsertVariant(e) ==
    editor[e].pc = "create" /\ ~article[editor[e].article].live /\ SaveVariant(e)
ReplaceVariantValues(e) == editor[e].pc = "update" /\ SaveVariant(e)

\* A value is gone or the hash is taken: nothing remains of the request.
RollBack(e) ==
    /\ editor[e] # Resting
    /\ \/ ~(editor[e].values \subseteq Live)
       \/ editor[e].pc \in {"create", "update"} /\ HashTaken(editor[e].article, editor[e].values)
       \/ editor[e].pc = "create" /\ article[editor[e].article].live
    /\ FinishEdit(e)
    /\ UNCHANGED <<valueRow, listed, article, changes, past>>

Few == {vs \in SUBSET Values : Cardinality(vs) <= 2}

CatalogueNext ==
    \/ \E v \in Values : CreateValue(v) \/ DeleteValue(v) \/ RemoveLink(v)
    \/ \E a \in DOMAIN CategoryOf : DeleteAttribute(a)
    \/ \E k \in Categories : DeleteCategory(k)
    \/ \E k \in Categories \cup {NoCategory} : ChangeCategory(k)
    \/ ~listed.created /\ \E k \in Categories : \E vs \in Few :
           \/ CreateListing(k, vs)
           \/ \E x \in Articles : \E own, other \in Few : CreateWithVariants(k, vs, x, own, other)
    \/ \E e \in Editors :
           \/ \E vs \in Few : CheckAssignAttributes(e, vs) \/ CheckReplaceAttributes(e, vs)
           \/ \E x \in Articles, vs \in Few :
                  CheckNewVariant(e, x, vs) \/ CheckVariantValues(e, x, vs)
           \/ Assign(e) \/ Replace(e) \/ InsertVariant(e) \/ ReplaceVariantValues(e)
           \/ RollBack(e)

CatalogueSpec == CatalogueInit /\ [][CatalogueNext]_catalogueVars

-----------------------------------------------------------------------------
\* The product's values are live values of its category, unless the category
\* was changed under a request that assigned values.
LinksInCategory ==
    ~past.crossed => \A v \in listed.links : v \in Live /\ Category(v) = listed.category

\* No two variants have the same values, and none has two values of one
\* attribute: the hash tells them apart as long as no value was deleted.
\* They are values of the product's category as long as it stays there.
CombinationsSound ==
    /\ \A x \in Articles : OnePerAttribute(article[x].values) /\ article[x].values \subseteq Live
    /\ ~past.deleted => \A x, y \in Articles :
           article[x].live /\ article[y].live /\ article[x].values = article[y].values => x = y
    /\ ~past.moved => \A x \in Articles : \A v \in article[x].values :
           Category(v) = listed.category

\* Staff who edit categories, values and variants at once leave a product
\* whose links are of its category and whose variants can be told apart.
VariantsFitProduct == LinksInCategory /\ CombinationsSound
=============================================================================
