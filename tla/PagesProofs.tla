---------------------------- MODULE PagesProofs -----------------------------
(***************************************************************************)
(* Theorems about what the shop and the staff are shown: pictures and      *)
(* addresses lead where they should, and what is cached, confirmed or      *)
(* derived agrees with the rows.  For any numbers of files, products,      *)
(* requests, readers, orders and sales, and any lengths of time.           *)
(***************************************************************************)
EXTENDS Pages, Caches, Sums, SequenceTheorems

-----------------------------------------------------------------------------
(* The addresses.  A slug that the history lacks was lost by a product that *)
(* took one back, so that for all others the history names the first owner *)
(* of every slug that is not in use; what a rename has read is a slug of    *)
(* its product, or was one.                                                 *)

Renames == {c \in Renamers : renamer[c].pc = "product"}

SlugTypes ==
    /\ slugOf \in [Wares -> SlugNames \cup {NoSlug}]
    /\ variantSlug = slugOf
    /\ shown \in [Wares -> BOOLEAN]
    /\ former \in [SlugNames -> Wares \cup {NoWare}]
    /\ kindSlug \in [Shelves -> SlugNames \cup {NoSlug}]
    /\ DOMAIN renamer = Renamers
    /\ owner \in [SlugNames -> Wares \cup {NoWare}]
    /\ \A w \in Wares : shown[w] => slugOf[w] # NoSlug
    /\ \A c \in Renames : /\ renamer[c].of \in Wares /\ slugOf[renamer[c].of] # NoSlug
                          /\ renamer[c].from \in SlugNames /\ renamer[c].to \in SlugNames
    /\ \A c \in Renamers : renamer[c].pc = "category" =>
                           renamer[c].of \in Shelves /\ renamer[c].to \in SlugNames

\* Who a slug is of, was of, and was of first.
SlugsApart == \A v, w \in Wares : slugOf[v] = slugOf[w] /\ slugOf[v] # NoSlug => v = w
OwnersAreWares == \A n \in SlugNames : owner[n] # NoWare => slugOf[owner[n]] # NoSlug
HeldOwned == \A w \in Wares : slugOf[w] # NoSlug => owner[slugOf[w]] # NoWare
FormerOwned ==
    \A n \in SlugNames : former[n] # NoWare => owner[n] # NoWare /\ slugOf[former[n]] # NoSlug
OwnedKept ==
    \A n \in SlugNames : owner[n] \notin returned \cup {NoWare} =>
        slugOf[owner[n]] = n \/ former[n] = owner[n]
FormerFirst ==
    \A n \in SlugNames : owner[n] \notin returned /\ former[n] # NoWare => former[n] = owner[n]
HeldOrFormer ==
    \A w \in Wares : slugOf[w] # NoSlug /\ owner[slugOf[w]] \notin returned =>
        w = owner[slugOf[w]] \/ former[slugOf[w]] = owner[slugOf[w]]
BackIsReturned == \A w \in Wares : slugOf[w] # NoSlug /\ former[slugOf[w]] = w => w \in returned

\* What a rename has read.
ReadOwned == \A c \in Renames : owner[renamer[c].from] # NoWare
ReadHeld ==
    \A c \in Renames : LET r == renamer[c] IN
        \/ r.from = slugOf[r.of] \/ former[r.from] = r.of \/ r.of \in returned
ReadOrFormer ==
    \A c \in Renames : LET r == renamer[c] IN
        owner[r.from] \notin returned => r.of = owner[r.from] \/ former[r.from] = owner[r.from]

KindsApart == \A j, k \in Shelves : kindSlug[j] = kindSlug[k] /\ kindSlug[j] # NoSlug => j = k

SlugsInv ==
    /\ SlugTypes /\ SlugsApart /\ OwnersAreWares /\ HeldOwned /\ FormerOwned
    /\ OwnedKept /\ FormerFirst /\ HeldOrFormer /\ BackIsReturned
    /\ ReadOwned /\ ReadHeld /\ ReadOrFormer /\ KindsApart

LEMMA NoSlugNoName == NoSlug \notin SlugNames /\ NoWare \notin Wares
                      /\ Candidates \in Seq(SlugNames)
  BY SlugsAssumption

LEMMA OfferedFree ==
    \A used : \A asked \in SlugNames \cup {NoSlug} : \A n \in Offered(asked, used) :
        n \in SlugNames /\ n \notin used
<1> TAKE used
<1> TAKE asked \in SlugNames \cup {NoSlug}
<1> TAKE n \in Offered(asked, used)
<1>1. CASE asked = NoSlug
  <2>1. n \in FirstFree(used)
    BY <1>1 DEF Offered
  <2>2. PICK i \in DOMAIN Candidates : n = Candidates[i] /\ Candidates[i] \notin used
    BY <2>1 DEF FirstFree
  <2>3. Candidates[i] \in SlugNames
    BY NoSlugNoName
  <2> QED
    BY <2>2, <2>3
<1>2. CASE asked # NoSlug
  BY <1>2 DEF Offered
<1> QED
  BY <1>1, <1>2

\* A slug that no other row uses.
LEMMA UsedBy ==
    \A slugs, x : \A y \in DOMAIN slugs : \A n :
        n \notin Used(slugs, x) /\ n # NoSlug /\ slugs[y] = n => y = x
  BY DEF Used

LEMMA SlugsBegin == SlugsInit => SlugsInv
<1> SUFFICES ASSUME SlugsInit PROVE SlugsInv
  OBVIOUS
<1>1. /\ \A w \in Wares : slugOf[w] = NoSlug /\ ~shown[w]
      /\ \A n \in SlugNames : former[n] = NoWare /\ owner[n] = NoWare
      /\ \A k \in Shelves : kindSlug[k] = NoSlug
      /\ \A c \in Renamers : renamer[c].pc = "idle"
  BY DEF SlugsInit, Rested
<1>2. SlugTypes
  BY <1>1, NoSlugNoName DEF SlugsInit, SlugTypes, Renames
<1> QED
  BY <1>1, <1>2 DEF SlugsInv, SlugsApart, OwnersAreWares, HeldOwned, FormerOwned, OwnedKept,
     FormerFirst, HeldOrFormer, BackIsReturned, ReadOwned, ReadHeld, ReadOrFormer, KindsApart,
     Renames

-----------------------------------------------------------------------------
(* Requests that begin or end without changing an address of a product.     *)

\* What the renames of a state are held to.
RenameSound(r) ==
    /\ r.of \in Wares /\ slugOf[r.of] # NoSlug
    /\ r.from \in SlugNames /\ r.to \in SlugNames
    /\ owner[r.from] # NoWare
    /\ r.from = slugOf[r.of] \/ former[r.from] = r.of \/ r.of \in returned
    /\ owner[r.from] \notin returned => r.of = owner[r.from] \/ former[r.from] = owner[r.from]

LEMMA RenamesSound == SlugsInv => \A c \in Renames : RenameSound(renamer[c])
  BY DEF SlugsInv, SlugTypes, ReadOwned, ReadHeld, ReadOrFormer, RenameSound

LEMMA RenamersChange ==
    ASSUME SlugsInv,
           slugOf' = slugOf, variantSlug' = variantSlug, former' = former, owner' = owner,
           returned' = returned, shown' \in [Wares -> BOOLEAN],
           \A w \in Wares : shown'[w] => slugOf[w] # NoSlug,
           kindSlug' \in [Shelves -> SlugNames \cup {NoSlug}], KindsApart',
           DOMAIN renamer' = Renamers,
           \A c \in Renamers :
               \/ renamer'[c] = renamer[c]
               \/ renamer'[c].pc = "product" /\ RenameSound(renamer'[c])
               \/ renamer'[c].pc = "category" /\ renamer'[c].of \in Shelves
                                              /\ renamer'[c].to \in SlugNames
               \/ renamer'[c].pc = "idle"
    PROVE  SlugsInv'
<1>1. \A c \in Renames' : RenameSound(renamer'[c])
  BY RenamesSound DEF Renames
<1>2. \A c \in Renames' : LET r == renamer'[c] IN
         /\ r.of \in Wares /\ slugOf'[r.of] # NoSlug
         /\ r.from \in SlugNames /\ r.to \in SlugNames
         /\ owner'[r.from] # NoWare
         /\ r.from = slugOf'[r.of] \/ former'[r.from] = r.of \/ r.of \in returned'
         /\ owner'[r.from] \notin returned' =>
               r.of = owner'[r.from] \/ former'[r.from] = owner'[r.from]
  BY <1>1 DEF RenameSound
<1>3. \A c \in Renamers : renamer'[c].pc = "category" =>
          renamer'[c].of \in Shelves /\ renamer'[c].to \in SlugNames
  BY DEF SlugsInv, SlugTypes
<1>4. SlugTypes'
  BY <1>2, <1>3 DEF SlugsInv, SlugTypes
<1>5. ReadOwned' /\ ReadHeld' /\ ReadOrFormer'
  BY <1>2 DEF ReadOwned, ReadHeld, ReadOrFormer
<1> QED
  BY <1>4, <1>5 DEF SlugsInv, SlugsApart, OwnersAreWares, HeldOwned, FormerOwned, OwnedKept,
     FormerFirst, HeldOrFormer, BackIsReturned

LEMMA StartsSound ==
    ASSUME SlugsInv, NEW c \in Renamers, NEW pc, NEW x, NEW from, NEW to,
           StartRequest(c, pc, x, from, to),
           \/ pc = "product" /\ RenameSound([pc |-> pc, of |-> x, from |-> from, to |-> to])
           \/ pc = "category" /\ x \in Shelves /\ to \in SlugNames
    PROVE  SlugsInv'
<1>1. DOMAIN renamer = Renamers
  BY DEF SlugsInv, SlugTypes
<1>2. /\ DOMAIN renamer' = Renamers
      /\ renamer'[c] = [pc |-> pc, of |-> x, from |-> from, to |-> to]
      /\ \A d \in Renamers \ {c} : renamer'[d] = renamer[d]
      /\ slugOf' = slugOf /\ variantSlug' = variantSlug /\ former' = former /\ owner' = owner
      /\ returned' = returned /\ shown' = shown /\ kindSlug' = kindSlug
  BY <1>1 DEF StartRequest
<1>3. \A d \in Renamers :
          \/ renamer'[d] = renamer[d]
          \/ renamer'[d].pc = "product" /\ RenameSound(renamer'[d])
          \/ renamer'[d].pc = "category" /\ renamer'[d].of \in Shelves
                                         /\ renamer'[d].to \in SlugNames
  BY <1>2
<1>4. /\ shown' \in [Wares -> BOOLEAN] /\ \A w \in Wares : shown'[w] => slugOf[w] # NoSlug
      /\ kindSlug' \in [Shelves -> SlugNames \cup {NoSlug}] /\ KindsApart'
  BY <1>2 DEF SlugsInv, SlugTypes, KindsApart
<1> QED
  BY <1>2, <1>3, <1>4, RenamersChange

LEMMA BeginRenameKeeps ==
    ASSUME SlugsInv, NEW c \in Renamers, NEW w \in Wares, NEW n \in SlugNames,
           BeginRename(c, w, n)
    PROVE  SlugsInv'
<1>1. slugOf[w] \in SlugNames
  BY DEF SlugsInv, SlugTypes, BeginRename
<1>2. PICK r : r = [pc |-> "product", of |-> w, from |-> slugOf[w], to |-> n]
  OBVIOUS
<1>3. r.of = w /\ r.from = slugOf[w] /\ r.to = n
  BY <1>2
<1>4. slugOf[w] # NoSlug
  BY <1>1, NoSlugNoName
<1>5. RenameSound(r)
  BY <1>1, <1>3, <1>4 DEF RenameSound, SlugsInv, HeldOwned, HeldOrFormer
<1> QED
  BY <1>2, <1>5, StartsSound DEF BeginRename

LEMMA BeginKindKeeps ==
    ASSUME SlugsInv, NEW c \in Renamers, NEW k \in Shelves,
           \/ \E n \in SlugNames \cup {NoSlug} : BeginCreateKind(c, k, n)
           \/ \E n \in SlugNames : BeginRenameKind(c, k, n)
    PROVE  SlugsInv'
<1>1. CASE \E n \in SlugNames \cup {NoSlug} : BeginCreateKind(c, k, n)
  <2>1. PICK asked \in SlugNames \cup {NoSlug} : BeginCreateKind(c, k, asked)
    BY <1>1
  <2>2. PICK n \in Offered(asked, Used(kindSlug, k)) : StartRequest(c, "category", k, NoSlug, n)
    BY <2>1 DEF BeginCreateKind
  <2>3. n \in SlugNames
    BY OfferedFree
  <2> QED
    BY <2>2, <2>3, StartsSound
<1>2. CASE \E n \in SlugNames : BeginRenameKind(c, k, n)
  BY <1>2, StartsSound DEF BeginRenameKind
<1> QED
  BY <1>1, <1>2

\* A request that ends without having changed an address of a product.
LEMMA EndsSound ==
    ASSUME SlugsInv, NEW c \in Renamers, Finish(c),
           UNCHANGED <<slugOf, variantSlug, shown, former, owner, returned>>,
           kindSlug' \in [Shelves -> SlugNames \cup {NoSlug}], KindsApart'
    PROVE  SlugsInv'
<1>1. /\ DOMAIN renamer' = Renamers /\ renamer'[c].pc = "idle"
      /\ \A d \in Renamers \ {c} : renamer'[d] = renamer[d]
  BY DEF SlugsInv, SlugTypes, Finish, Rested
<1>2. /\ shown' \in [Wares -> BOOLEAN] /\ \A w \in Wares : shown'[w] => slugOf[w] # NoSlug
  BY DEF SlugsInv, SlugTypes
<1> QED
  BY <1>1, <1>2, RenamersChange

LEMMA RefuseRenameKeeps ==
    ASSUME SlugsInv, NEW c \in Renamers, RefuseRename(c)
    PROVE  SlugsInv'
<1>1. kindSlug' = kindSlug
  BY DEF RefuseRename
<1>2. kindSlug' \in [Shelves -> SlugNames \cup {NoSlug}] /\ KindsApart'
  BY <1>1 DEF SlugsInv, SlugTypes, KindsApart
<1> QED
  BY <1>2, EndsSound DEF RefuseRename

LEMMA WriteKindKeeps ==
    ASSUME SlugsInv, NEW c \in Renamers, WriteKind(c)
    PROVE  SlugsInv'
<1>1. PICK k, n : k = renamer[c].of /\ n = renamer[c].to
  OBVIOUS
<1>2. k \in Shelves /\ n \in SlugNames
  BY <1>1 DEF SlugsInv, SlugTypes, WriteKind
<1>3. kindSlug' = kindSlug \/ (n \notin Used(kindSlug, k) /\ kindSlug' = [kindSlug EXCEPT ![k] = n])
  BY <1>1 DEF WriteKind
<1>4. kindSlug \in [Shelves -> SlugNames \cup {NoSlug}] /\ KindsApart
  BY DEF SlugsInv, SlugTypes
<1>5. kindSlug' \in [Shelves -> SlugNames \cup {NoSlug}]
  BY <1>2, <1>3, <1>4
<1>6. n \notin Used(kindSlug, k) => \A j \in Shelves : kindSlug[j] = n => j = k
  BY <1>2, <1>4, UsedBy, NoSlugNoName
<1>7. KindsApart'
  BY <1>2, <1>3, <1>4, <1>6 DEF KindsApart
<1> QED
  BY <1>5, <1>7, EndsSound DEF WriteKind

LEMMA DeleteKindKeeps ==
    ASSUME SlugsInv, NEW k \in Shelves, DeleteKind(k)
    PROVE  SlugsInv'
<1>1. kindSlug \in [Shelves -> SlugNames \cup {NoSlug}] /\ KindsApart
  BY DEF SlugsInv, SlugTypes
<1>2. kindSlug' = [kindSlug EXCEPT ![k] = NoSlug]
  BY DEF DeleteKind
<1>3. kindSlug' \in [Shelves -> SlugNames \cup {NoSlug}]
  BY <1>1, <1>2
<1>4. KindsApart'
  BY <1>1, <1>2 DEF KindsApart
<1>5. /\ shown' \in [Wares -> BOOLEAN] /\ \A w \in Wares : shown'[w] => slugOf[w] # NoSlug
      /\ DOMAIN renamer' = Renamers /\ renamer' = renamer
  BY DEF SlugsInv, SlugTypes, DeleteKind
<1> QED
  BY <1>3, <1>4, <1>5, RenamersChange DEF DeleteKind

LEMMA SetShownKeeps ==
    ASSUME SlugsInv, NEW ws \in SUBSET Wares, NEW b \in BOOLEAN, SetShown(ws, b)
    PROVE  SlugsInv'
<1>1. /\ shown' \in [Wares -> BOOLEAN] /\ \A w \in Wares : shown'[w] => slugOf[w] # NoSlug
  BY DEF SlugsInv, SlugTypes, SetShown
<1>2. /\ kindSlug' \in [Shelves -> SlugNames \cup {NoSlug}] /\ KindsApart'
      /\ DOMAIN renamer' = Renamers /\ renamer' = renamer
  BY DEF SlugsInv, SlugTypes, SetShown, KindsApart
<1> QED
  BY <1>1, <1>2, RenamersChange DEF SetShown

-----------------------------------------------------------------------------
(* The two steps that give a product an address.                            *)

LEMMA CreateWareKeeps ==
    ASSUME SlugsInv, NEW w \in Wares, NEW asked \in SlugNames \cup {NoSlug},
           CreateWare(w, asked)
    PROVE  SlugsInv'
<1>1. PICK n \in Offered(asked, Used(slugOf, w)) :
          /\ slugOf' = [slugOf EXCEPT ![w] = n]
          /\ variantSlug' = [variantSlug EXCEPT ![w] = n]
          /\ owner' = [owner EXCEPT ![n] = IF @ = NoWare THEN w ELSE @]
  BY DEF CreateWare
<1>2. n \in SlugNames /\ n \notin Used(slugOf, w) /\ n # NoSlug
  BY OfferedFree, NoSlugNoName
<1>3. /\ slugOf \in [Wares -> SlugNames \cup {NoSlug}] /\ owner \in [SlugNames -> Wares \cup {NoWare}]
      /\ variantSlug = slugOf /\ slugOf[w] = NoSlug
  BY DEF SlugsInv, SlugTypes, CreateWare
<1>4. \A v \in Wares : slugOf[v] = n => v = w
  BY <1>2, <1>3, UsedBy
<1>5. /\ slugOf'[w] = n /\ \A v \in Wares \ {w} : slugOf'[v] = slugOf[v]
      /\ slugOf' \in [Wares -> SlugNames \cup {NoSlug}] /\ variantSlug' = slugOf'
  BY <1>1, <1>2, <1>3
<1>6. /\ owner' \in [SlugNames -> Wares \cup {NoWare}]
      /\ owner[n] = NoWare => owner'[n] = w
      /\ owner[n] # NoWare => owner'[n] = owner[n]
      /\ \A m \in SlugNames \ {n} : owner'[m] = owner[m]
  BY <1>1, <1>2, <1>3
<1>7. /\ former' = former /\ kindSlug' = kindSlug /\ renamer' = renamer /\ returned' = returned
      /\ shown' = [shown EXCEPT ![w] = TRUE]
  BY DEF CreateWare
<1>8. Renames' = Renames
  BY <1>7 DEF Renames
<1>9. w # NoWare
  BY NoSlugNoName
<1>10. \A m \in SlugNames : owner[m] # w
  BY <1>3, <1>9, NoSlugNoName DEF SlugsInv, OwnersAreWares
<1>11. \A m \in SlugNames : owner[m] # NoWare => owner'[m] = owner[m]
  BY <1>6
<1>12. \A c \in Renames : renamer[c].of \in Wares \ {w} /\ renamer[c].from \in SlugNames
                          /\ renamer[c].to \in SlugNames
  BY <1>3 DEF SlugsInv, SlugTypes
<1>13. SlugTypes'
  <2>1. shown' \in [Wares -> BOOLEAN] /\ \A v \in Wares : shown'[v] => slugOf'[v] # NoSlug
    BY <1>2, <1>5, <1>7 DEF SlugsInv, SlugTypes
  <2>2. /\ former' \in [SlugNames -> Wares \cup {NoWare}]
        /\ kindSlug' \in [Shelves -> SlugNames \cup {NoSlug}] /\ DOMAIN renamer' = Renamers
        /\ \A c \in Renamers : renamer'[c].pc = "category" =>
                               renamer'[c].of \in Shelves /\ renamer'[c].to \in SlugNames
    BY <1>7 DEF SlugsInv, SlugTypes
  <2>3. \A c \in Renames' : /\ renamer'[c].of \in Wares /\ slugOf'[renamer'[c].of] # NoSlug
                            /\ renamer'[c].from \in SlugNames /\ renamer'[c].to \in SlugNames
    BY <1>5, <1>7, <1>8, <1>12 DEF SlugsInv, SlugTypes
  <2> QED
    BY <1>5, <1>6, <2>1, <2>2, <2>3 DEF SlugTypes
<1>14. SlugsApart'
  BY <1>4, <1>5 DEF SlugsInv, SlugsApart
<1>15. OwnersAreWares' /\ HeldOwned' /\ FormerOwned'
  <2>1. OwnersAreWares'
    BY <1>2, <1>5, <1>6, <1>3 DEF SlugsInv, OwnersAreWares
  <2>2. HeldOwned'
    BY <1>2, <1>3, <1>5, <1>6, <1>9 DEF SlugsInv, HeldOwned
  <2>3. FormerOwned'
    <3>1. \A m \in SlugNames : former[m] # NoWare =>
              slugOf[former[m]] # NoSlug /\ owner[m] # NoWare /\ former[m] \in Wares
      BY DEF SlugsInv, FormerOwned, SlugTypes
    <3> QED
      BY <3>1, <1>3, <1>5, <1>7, <1>11 DEF FormerOwned
  <2> QED
    BY <2>1, <2>2, <2>3
<1>16. OwnedKept'
  <2> SUFFICES ASSUME NEW m \in SlugNames, owner'[m] \notin returned' \cup {NoWare}
               PROVE  slugOf'[owner'[m]] = m \/ former'[m] = owner'[m]
    BY DEF OwnedKept
  <2>1. CASE owner[m] = NoWare
    BY <2>1, <1>5, <1>6
  <2>2. CASE owner[m] # NoWare
    <3>1. owner'[m] = owner[m] /\ owner[m] \in Wares \ {w}
      BY <2>2, <1>3, <1>10, <1>11
    <3> QED
      BY <3>1, <2>2, <1>5, <1>7 DEF SlugsInv, OwnedKept
  <2> QED
    BY <2>1, <2>2
<1>17. FormerFirst'
  BY <1>7, <1>11 DEF SlugsInv, FormerFirst, FormerOwned
<1>18. HeldOrFormer'
  <2> SUFFICES ASSUME NEW v \in Wares, slugOf'[v] # NoSlug, owner'[slugOf'[v]] \notin returned
               PROVE  v = owner'[slugOf'[v]] \/ former[slugOf'[v]] = owner'[slugOf'[v]]
    BY <1>7 DEF HeldOrFormer
  <2>1. CASE v = w
    <3>1. CASE owner[n] = NoWare
      BY <3>1, <2>1, <1>5, <1>6
    <3>2. CASE owner[n] # NoWare
      <4>1. owner'[n] = owner[n] /\ owner[n] \in Wares \ {w}
        BY <3>2, <1>2, <1>3, <1>10, <1>11
      <4>2. slugOf[owner[n]] # n
        BY <4>1, <1>4
      <4> QED
        BY <4>1, <4>2, <3>2, <2>1, <1>2, <1>5 DEF SlugsInv, OwnedKept
    <3> QED
      BY <3>1, <3>2
  <2>2. CASE v # w
    <3>1. slugOf'[v] = slugOf[v] /\ slugOf[v] \in SlugNames
      BY <2>2, <1>3, <1>5
    <3>2. owner'[slugOf[v]] = owner[slugOf[v]]
      BY <3>1, <1>11 DEF SlugsInv, HeldOwned
    <3> QED
      BY <3>1, <3>2 DEF SlugsInv, HeldOrFormer
  <2> QED
    BY <2>1, <2>2
<1>19. BackIsReturned'
  <2> SUFFICES ASSUME NEW v \in Wares, slugOf'[v] # NoSlug, former[slugOf'[v]] = v
               PROVE  v \in returned
    BY <1>7 DEF BackIsReturned
  <2>1. CASE v = w
    <3>1. former[n] = w
      BY <2>1, <1>5
    <3> QED
      BY <3>1, <1>2, <1>3, <1>9 DEF SlugsInv, FormerOwned
  <2>2. CASE v # w
    BY <2>2, <1>5 DEF SlugsInv, BackIsReturned
  <2> QED
    BY <2>1, <2>2
<1>20. ReadOwned' /\ ReadHeld' /\ ReadOrFormer'
  <2>1. \A c \in Renames : owner'[renamer[c].from] = owner[renamer[c].from]
                           /\ slugOf'[renamer[c].of] = slugOf[renamer[c].of]
    BY <1>5, <1>11, <1>12 DEF SlugsInv, ReadOwned
  <2>2. ReadOwned'
    BY <2>1, <1>7, <1>8 DEF SlugsInv, ReadOwned
  <2>3. ReadHeld'
    BY <2>1, <1>7, <1>8 DEF SlugsInv, ReadHeld
  <2>4. ReadOrFormer'
    BY <2>1, <1>7, <1>8 DEF SlugsInv, ReadOrFormer
  <2> QED
    BY <2>2, <2>3, <2>4
<1>21. KindsApart'
  BY <1>7 DEF SlugsInv, KindsApart
<1> QED
  BY <1>13, <1>14, <1>15, <1>16, <1>17, <1>18, <1>19, <1>20, <1>21 DEF SlugsInv

\* What the transaction finds when it commits.
LEMMA CommitRenameKeeps ==
    ASSUME SlugsInv, NEW c \in Renamers, CommitRename(c)
    PROVE  SlugsInv'
<1>1. PICK w, from, n : w = renamer[c].of /\ from = renamer[c].from /\ n = renamer[c].to
  OBVIOUS
<1>2. c \in Renames /\ RenameSound(renamer[c])
  BY RenamesSound DEF CommitRename, Renames
<1>3. /\ w \in Wares /\ slugOf[w] # NoSlug /\ from \in SlugNames /\ n \in SlugNames
      /\ owner[from] # NoWare
      /\ from = slugOf[w] \/ former[from] = w \/ w \in returned
      /\ owner[from] \notin returned => w = owner[from] \/ former[from] = owner[from]
  BY <1>1, <1>2 DEF RenameSound
<1>4. /\ from # n => former[from] = NoWare
      /\ n \notin Used(slugOf, w)
  BY <1>1 DEF CommitRename, Clash
<1>5. /\ former' = IF from = n THEN former ELSE [former EXCEPT ![from] = w]
      /\ slugOf' = [slugOf EXCEPT ![w] = n]
      /\ variantSlug' = [variantSlug EXCEPT ![w] = n]
      /\ owner' = [owner EXCEPT ![n] = IF @ = NoWare THEN w ELSE @]
      /\ returned' = IF slugOf[w] # n /\ former[n] = w THEN returned \cup {w} ELSE returned
      /\ shown' = shown /\ kindSlug' = kindSlug
      /\ renamer' = [renamer EXCEPT ![c] = Rested]
  BY <1>1 DEF CommitRename, Recorded, Finish
<1>6. /\ slugOf \in [Wares -> SlugNames \cup {NoSlug}] /\ owner \in [SlugNames -> Wares \cup {NoWare}]
      /\ former \in [SlugNames -> Wares \cup {NoWare}] /\ variantSlug = slugOf
      /\ DOMAIN renamer = Renamers
  BY DEF SlugsInv, SlugTypes
<1>7. PICK s \in SlugNames : s = slugOf[w]
  BY <1>3, <1>6
<1>8. n # NoSlug /\ w # NoWare
  BY <1>3, NoSlugNoName
<1>9. \A v \in Wares : slugOf[v] = n => v = w
  BY <1>4, <1>6, <1>8, UsedBy
<1>10. /\ slugOf'[w] = n /\ \A v \in Wares \ {w} : slugOf'[v] = slugOf[v]
       /\ slugOf' \in [Wares -> SlugNames \cup {NoSlug}] /\ variantSlug' = slugOf'
  BY <1>3, <1>5, <1>6
<1>11. /\ owner' \in [SlugNames -> Wares \cup {NoWare}]
       /\ owner[n] = NoWare => owner'[n] = w
       /\ owner[n] # NoWare => owner'[n] = owner[n]
       /\ \A m \in SlugNames \ {n} : owner'[m] = owner[m]
       /\ \A m \in SlugNames : owner[m] # NoWare => owner'[m] = owner[m]
  BY <1>3, <1>5, <1>6
<1>12. /\ former' \in [SlugNames -> Wares \cup {NoWare}]
       /\ \A m \in SlugNames \ {from} : former'[m] = former[m]
       /\ \A m \in SlugNames : former[m] # NoWare => former'[m] = former[m]
       /\ from = n => former' = former
       /\ from # n => former'[from] = w
  BY <1>3, <1>4, <1>5, <1>6
<1>13. /\ returned \subseteq returned' /\ returned' \subseteq returned \cup {w}
       /\ s # n /\ former[n] = w => w \in returned'
  BY <1>5, <1>7
<1>14. /\ DOMAIN renamer' = Renamers /\ renamer'[c].pc = "idle"
       /\ \A d \in Renamers \ {c} : renamer'[d] = renamer[d]
  BY <1>5, <1>6 DEF Rested
<1>15. Renames' = Renames \ {c}
  BY <1>14 DEF Renames
\* The slug that the product gives up is in the history, or the product is
\* one that took a slug back.
<1>16. s = n \/ former'[s] = w \/ w \in returned'
  <2>1. CASE from = s
    BY <2>1, <1>12
  <2>2. CASE former[from] = w
    <3>1. from = n
      BY <2>2, <1>4, <1>8
    <3> QED
      BY <3>1, <2>2, <1>13
  <2>3. CASE w \in returned
    BY <2>3, <1>13
  <2> QED
    BY <2>1, <2>2, <2>3, <1>3, <1>7
<1>17. SlugTypes'
  <2>1. shown' \in [Wares -> BOOLEAN] /\ \A v \in Wares : shown'[v] => slugOf'[v] # NoSlug
    BY <1>5, <1>8, <1>10 DEF SlugsInv, SlugTypes
  <2>2. /\ kindSlug' \in [Shelves -> SlugNames \cup {NoSlug}]
        /\ \A d \in Renamers : renamer'[d].pc = "category" =>
                               renamer'[d].of \in Shelves /\ renamer'[d].to \in SlugNames
    BY <1>5, <1>14 DEF SlugsInv, SlugTypes
  <2>3. \A d \in Renames' : /\ renamer'[d].of \in Wares /\ slugOf'[renamer'[d].of] # NoSlug
                            /\ renamer'[d].from \in SlugNames /\ renamer'[d].to \in SlugNames
    BY <1>8, <1>10, <1>14, <1>15 DEF SlugsInv, SlugTypes, Renames
  <2> QED
    BY <1>10, <1>11, <1>12, <1>14, <2>1, <2>2, <2>3 DEF SlugTypes
<1>18. SlugsApart'
  BY <1>9, <1>10 DEF SlugsInv, SlugsApart
<1>19. OwnersAreWares'
  BY <1>3, <1>6, <1>8, <1>10, <1>11 DEF SlugsInv, OwnersAreWares
<1>20. HeldOwned'
  BY <1>3, <1>6, <1>8, <1>10, <1>11 DEF SlugsInv, HeldOwned
<1>21. FormerOwned'
  <2>1. \A m \in SlugNames : former[m] # NoWare =>
            slugOf[former[m]] # NoSlug /\ owner[m] # NoWare /\ former[m] \in Wares
    BY <1>6 DEF SlugsInv, FormerOwned
  <2>2. \A m \in SlugNames : former'[m] = former[m] \/ (m = from /\ former'[m] = w)
    BY <1>12
  <2>3. \A v \in Wares : slugOf[v] # NoSlug => slugOf'[v] # NoSlug
    BY <1>8, <1>10
  <2> QED
    BY <2>1, <2>2, <2>3, <1>3, <1>11 DEF FormerOwned
<1>22. OwnedKept'
  <2> SUFFICES ASSUME NEW m \in SlugNames, owner'[m] \notin returned' \cup {NoWare}
               PROVE  slugOf'[owner'[m]] = m \/ former'[m] = owner'[m]
    BY DEF OwnedKept
  <2>1. CASE owner[m] = NoWare
    BY <2>1, <1>10, <1>11
  <2>2. CASE owner[m] # NoWare
    <3>1. owner'[m] = owner[m] /\ owner[m] \in Wares /\ owner[m] \notin returned
      BY <2>2, <1>6, <1>11, <1>13
    <3>2. slugOf[owner[m]] = m \/ former[m] = owner[m]
      BY <3>1, <2>2 DEF SlugsInv, OwnedKept
    <3>3. CASE former[m] = owner[m]
      BY <3>3, <3>1, <2>2, <1>12
    <3>4. CASE slugOf[owner[m]] = m /\ owner[m] # w
      BY <3>1, <3>4, <1>10
    <3>5. CASE slugOf[owner[m]] = m /\ owner[m] = w
      BY <3>1, <3>5, <1>7, <1>10, <1>16
    <3> QED
      BY <3>2, <3>3, <3>4, <3>5
  <2> QED
    BY <2>1, <2>2
<1>23. FormerFirst'
  <2> SUFFICES ASSUME NEW m \in SlugNames, owner'[m] \notin returned', former'[m] # NoWare
               PROVE  former'[m] = owner'[m]
    BY DEF FormerFirst
  <2>1. CASE former[m] # NoWare
    <3>1. owner'[m] = owner[m] /\ former'[m] = former[m]
      BY <2>1, <1>11, <1>12 DEF SlugsInv, FormerOwned
    <3> QED
      BY <3>1, <2>1, <1>13 DEF SlugsInv, FormerFirst
  <2>2. CASE former[m] = NoWare
    <3>1. m = from /\ former'[m] = w
      BY <2>2, <1>12
    <3>2. owner'[from] = owner[from] /\ owner[from] \notin returned
      BY <3>1, <1>3, <1>11, <1>13
    <3> QED
      BY <3>1, <3>2, <2>2, <1>3
  <2> QED
    BY <2>1, <2>2
<1>24. HeldOrFormer'
  <2> SUFFICES ASSUME NEW v \in Wares, slugOf'[v] # NoSlug, owner'[slugOf'[v]] \notin returned'
               PROVE  v = owner'[slugOf'[v]] \/ former'[slugOf'[v]] = owner'[slugOf'[v]]
    BY DEF HeldOrFormer
  <2>1. CASE v = w
    <3>1. CASE owner[n] = NoWare
      BY <3>1, <2>1, <1>10, <1>11
    <3>2. CASE owner[n] # NoWare /\ owner[n] # w
      <4>1. owner'[n] = owner[n] /\ owner[n] \in Wares /\ owner[n] \notin returned
        BY <3>2, <2>1, <1>3, <1>6, <1>10, <1>11, <1>13
      <4>2. slugOf[owner[n]] # n
        BY <4>1, <3>2, <1>9
      <4>3. former[n] = owner[n]
        BY <4>1, <4>2, <3>2, <1>3 DEF SlugsInv, OwnedKept
      <4> QED
        BY <4>1, <4>3, <3>2, <2>1, <1>3, <1>10, <1>12
    <3>3. CASE owner[n] = w
      BY <3>3, <2>1, <1>3, <1>8, <1>10, <1>11
    <3> QED
      BY <3>1, <3>2, <3>3
  <2>2. CASE v # w
    <3>1. PICK m \in SlugNames : m = slugOf[v] /\ m = slugOf'[v] /\ m # NoSlug
      BY <2>2, <1>6, <1>10
    <3>2. owner[m] # NoWare /\ owner'[m] = owner[m]
      BY <3>1, <1>11 DEF SlugsInv, HeldOwned
    <3>3. v = owner[m] \/ former[m] = owner[m]
      BY <3>1, <3>2, <1>13 DEF SlugsInv, HeldOrFormer
    <3> QED
      BY <3>1, <3>2, <3>3, <1>12
  <2> QED
    BY <2>1, <2>2
<1>25. BackIsReturned'
  <2> SUFFICES ASSUME NEW v \in Wares, slugOf'[v] # NoSlug, former'[slugOf'[v]] = v
               PROVE  v \in returned'
    BY DEF BackIsReturned
  <2>1. CASE v = w
    <3>1. former'[n] = w
      BY <2>1, <1>10
    <3>2. former[n] = w
      BY <3>1, <1>3, <1>12
    <3>3. s = n => w \in returned
      BY <3>2, <1>3, <1>7 DEF SlugsInv, BackIsReturned
    <3> QED
      BY <2>1, <3>2, <3>3, <1>13
  <2>2. CASE v # w
    <3>1. PICK m \in SlugNames : m = slugOf[v] /\ m = slugOf'[v] /\ m # NoSlug
      BY <2>2, <1>6, <1>10
    <3>2. former[m] = v
      BY <3>1, <2>2, <1>12
    <3> QED
      BY <3>1, <3>2, <1>13 DEF SlugsInv, BackIsReturned
  <2> QED
    BY <2>1, <2>2
<1>26. \A d \in Renames' : LET r == renamer'[d] IN
          /\ owner'[r.from] # NoWare
          /\ r.from = slugOf'[r.of] \/ former'[r.from] = r.of \/ r.of \in returned'
          /\ owner'[r.from] \notin returned' =>
                r.of = owner'[r.from] \/ former'[r.from] = owner'[r.from]
  <2> SUFFICES ASSUME NEW d \in Renames'
               PROVE  /\ owner'[renamer'[d].from] # NoWare
                      /\ \/ renamer'[d].from = slugOf'[renamer'[d].of]
                         \/ former'[renamer'[d].from] = renamer'[d].of
                         \/ renamer'[d].of \in returned'
                      /\ owner'[renamer'[d].from] \notin returned' =>
                             \/ renamer'[d].of = owner'[renamer'[d].from]
                             \/ former'[renamer'[d].from] = owner'[renamer'[d].from]
    OBVIOUS
  <2>1. d \in Renames /\ renamer'[d] = renamer[d] /\ RenameSound(renamer[d])
    BY <1>14, <1>15, RenamesSound DEF Renames
  <2>2. PICK v, m : v = renamer[d].of /\ m = renamer[d].from
    OBVIOUS
  <2>3. /\ v \in Wares /\ m \in SlugNames /\ owner[m] # NoWare
        /\ m = slugOf[v] \/ former[m] = v \/ v \in returned
        /\ owner[m] \notin returned => v = owner[m] \/ former[m] = owner[m]
    BY <2>1, <2>2 DEF RenameSound
  <2>4. owner'[m] = owner[m] /\ (former[m] # NoWare => former'[m] = former[m])
    BY <2>3, <1>11, <1>12
  <2>5. m = slugOf'[v] \/ former'[m] = v \/ v \in returned'
    <3>1. CASE m = slugOf[v] /\ v # w
      BY <3>1, <2>3, <1>10
    <3>2. CASE m = slugOf[v] /\ v = w
      BY <3>2, <1>7, <1>10, <1>16
    <3>3. CASE former[m] = v
      BY <3>3, <2>3, <2>4, NoSlugNoName
    <3>4. CASE v \in returned
      BY <3>4, <1>13
    <3> QED
      BY <2>3, <3>1, <3>2, <3>3, <3>4
  <2>6. owner'[m] \notin returned' => v = owner'[m] \/ former'[m] = owner'[m]
    BY <2>3, <2>4, <1>13
  <2> QED
    BY <2>1, <2>2, <2>3, <2>4, <2>5, <2>6
<1>27. ReadOwned' /\ ReadHeld' /\ ReadOrFormer'
  BY <1>26 DEF ReadOwned, ReadHeld, ReadOrFormer
<1>28. KindsApart'
  BY <1>5 DEF SlugsInv, KindsApart
<1> QED
  BY <1>17, <1>18, <1>19, <1>20, <1>21, <1>22, <1>23, <1>24, <1>25, <1>27, <1>28 DEF SlugsInv

-----------------------------------------------------------------------------
(* What a reader gets.                                                      *)

\* The address that a visible product has now is its page, if no visible
\* product had it before.
LEMMA PageAnswered ==
    ASSUME SlugsInv, NEW w \in Wares, shown[w],
           former[slugOf[w]] = NoWare \/ ~shown[former[slugOf[w]]]
    PROVE  slugOf[w] \in SlugNames /\ Looked(slugOf[w]) = PageOf(w)
<1>1. PICK n : n = slugOf[w]
  OBVIOUS
<1>2. n \in SlugNames /\ n # NoSlug /\ former[n] \in Wares \cup {NoWare}
  BY <1>1, NoSlugNoName DEF SlugsInv, SlugTypes
<1>3. RedirectOf(n) = {}
  BY <1>1, <1>2, NoSlugNoName DEF RedirectOf
<1>4. BySlug(n) = {w}
  BY <1>1, <1>2 DEF BySlug, SlugsInv, SlugsApart
<1>5. (CHOOSE v \in {w} : TRUE) = w
  OBVIOUS
<1> QED
  BY <1>1, <1>2, <1>3, <1>4, <1>5 DEF Looked

\* The history does not lead away from the slug that a product has and had
\* first, unless it took a slug back.
LEMMA NotLedAway ==
    ASSUME SlugsInv, NEW w \in Wares, slugOf[w] # NoSlug, w \notin returned,
           owner[slugOf[w]] = w
    PROVE  former[slugOf[w]] = NoWare
<1>1. slugOf[w] \in SlugNames
  BY DEF SlugsInv, SlugTypes
<1> QED
  BY <1>1 DEF SlugsInv, FormerFirst, BackIsReturned

LEMMA LeadsToOwner == SlugsInv => SlugsLead
<1> SUFFICES ASSUME SlugsInv, NEW n \in SlugNames, owner[n] # NoWare,
                    NEW w, w = owner[n], NEW v, v = owner[slugOf[w]],
                    shown[w], w \notin returned, v = w \/ (~shown[v] /\ v \notin returned)
             PROVE  Reached(n) = w
  BY DEF SlugsLead
<1>1. /\ w \in Wares /\ w # NoWare /\ slugOf[w] # NoSlug /\ slugOf[w] \in SlugNames
      /\ former \in [SlugNames -> Wares \cup {NoWare}]
  BY NoSlugNoName DEF SlugsInv, SlugTypes
<1>2. PICK m \in SlugNames : m = slugOf[w]
  BY <1>1
<1>3. m = n \/ former[n] = w
  BY <1>1, <1>2 DEF SlugsInv, OwnedKept
<1>4. former[m] = NoWare \/ ~shown[former[m]]
  <2>1. CASE v = w
    BY <2>1, <1>1, <1>2, NotLedAway
  <2>2. CASE v # w
    BY <2>2, <1>1, <1>2 DEF SlugsInv, FormerFirst
  <2> QED
    BY <2>1, <2>2
<1>5. Looked(m) = PageOf(w)
  BY <1>1, <1>2, <1>4, PageAnswered
<1>6. PageOf(w).kind = "page" /\ PageOf(w).of = w
  BY DEF PageOf
<1>7. CASE m = n
  BY <1>5, <1>6, <1>7 DEF Reached
<1>8. CASE former[n] = w
  <2>1. RedirectOf(n) # {}
    BY <1>1, <1>8 DEF RedirectOf
  <2>2. Looked(n) = Redirect(m)
    BY <2>1, <1>2, <1>8 DEF Looked
  <2>3. Redirect(m).kind = "redirect" /\ Redirect(m).slug = m
    BY DEF Redirect
  <2> QED
    BY <2>2, <2>3, <1>5, <1>6 DEF Reached
<1> QED
  BY <1>3, <1>7, <1>8

LEMMA SitemapRight == SlugsInv => SitemapAnswers
<1> SUFFICES ASSUME SlugsInv PROVE SitemapAnswers
  OBVIOUS
<1>1. \A n \in Sitemap.products : \E w \in BySlug(n) :
          w \in returned \/ owner[n] # w \/ Looked(n) = PageOf(w)
  <2> SUFFICES ASSUME NEW n \in SitemapWares
               PROVE  \E w \in BySlug(n) : w \in returned \/ owner[n] # w \/ Looked(n) = PageOf(w)
    BY DEF Sitemap
  <2>1. PICK w \in Wares : shown[w] /\ n = slugOf[w] /\ n # NoSlug
    BY DEF SitemapWares
  <2>2. w \in BySlug(n)
    BY <2>1 DEF BySlug
  <2>3. ASSUME w \notin returned, owner[n] = w
        PROVE  Looked(n) = PageOf(w)
    <3>1. former[n] = NoWare
      BY <2>1, <2>3, NotLedAway
    <3> QED
      BY <2>1, <3>1, PageAnswered
  <2> QED
    BY <2>2, <2>3
<1>2. \A k \in Shelves : kindSlug[k] # NoSlug => CategoryLooked(kindSlug[k]) = k
  <2> SUFFICES ASSUME NEW k \in Shelves, kindSlug[k] # NoSlug
               PROVE  CategoryLooked(kindSlug[k]) = k
    OBVIOUS
  <2>1. KindsBySlug(kindSlug[k]) = {k}
    BY DEF KindsBySlug, SlugsInv, KindsApart
  <2>2. (CHOOSE j \in {k} : TRUE) = k
    OBVIOUS
  <2> QED
    BY <2>1, <2>2 DEF CategoryLooked
<1>3. \A n \in Sitemap.categories : kindSlug[CategoryLooked(n)] = n
  BY <1>2 DEF Sitemap, SitemapKinds
<1> QED
  BY <1>1, <1>2, <1>3 DEF SitemapAnswers

LEMMA SlugsStep == SlugsInv /\ [SlugsNext]_slugVars => SlugsInv'
<1> SUFFICES ASSUME SlugsInv, [SlugsNext]_slugVars PROVE SlugsInv'
  OBVIOUS
<1>1. CASE \E w \in Wares, n \in SlugNames \cup {NoSlug} : CreateWare(w, n)
  BY <1>1, CreateWareKeeps
<1>2. CASE \E c \in Renamers : \E w \in Wares, n \in SlugNames : BeginRename(c, w, n)
  BY <1>2, BeginRenameKeeps
<1>3. CASE \E c \in Renamers : \E k \in Shelves :
               \/ \E n \in SlugNames \cup {NoSlug} : BeginCreateKind(c, k, n)
               \/ \E n \in SlugNames : BeginRenameKind(c, k, n)
  BY <1>3, BeginKindKeeps
<1>4. CASE \E c \in Renamers : CommitRename(c) \/ RefuseRename(c) \/ WriteKind(c)
  BY <1>4, CommitRenameKeeps, RefuseRenameKeeps, WriteKindKeeps
<1>5. CASE \/ \E w \in Wares : HideWare(w)
           \/ \E ws \in SUBSET Wares, b \in BOOLEAN : SetManyShown(ws, b)
  <2>1. PICK ws \in SUBSET Wares, b \in BOOLEAN : SetShown(ws, b)
    BY <1>5 DEF HideWare, SetManyShown
  <2> QED
    BY <2>1, SetShownKeeps
<1>6. CASE \E k \in Shelves : DeleteKind(k)
  BY <1>6, DeleteKindKeeps
<1>7. CASE UNCHANGED slugVars
  <2>1. UNCHANGED <<slugOf, variantSlug, shown, former, kindSlug, renamer, owner, returned>>
    BY <1>7 DEF slugVars
  <2>2. /\ DOMAIN renamer' = Renamers /\ shown' \in [Wares -> BOOLEAN]
        /\ \A w \in Wares : shown'[w] => slugOf[w] # NoSlug
        /\ kindSlug' \in [Shelves -> SlugNames \cup {NoSlug}] /\ KindsApart'
    BY <2>1 DEF SlugsInv, SlugTypes, KindsApart
  <2> QED
    BY <2>1, <2>2, RenamersChange
<1> QED
  BY <1>1, <1>2, <1>3, <1>4, <1>5, <1>6, <1>7 DEF SlugsNext

LEMMA SlugsInvariant == SlugsSpec => [](SlugsLead /\ SitemapAnswers)
<1>1. SlugsInv => SlugsLead /\ SitemapAnswers
  BY LeadsToOwner, SitemapRight
<1> QED
  BY <1>1, SlugsBegin, SlugsStep, PTL DEF SlugsSpec

-----------------------------------------------------------------------------
(* The pictures.  A row whose file is gone is one that a delete is about to *)
(* remove, the delete that found it the last one of the file; a file on its *)
(* way up is one request's and no row's.                                    *)

Uploading == {c \in Curators : curator[c].pc = "upload"}
Removing == {c \in Curators : curator[c].pc = "remove"}
Deleting == {c \in Curators : curator[c].pc \in {"destroy", "remove"}}

PictureRecords == [state : {"unused", "live", "deleted"}, kind : {"asset", "image"},
                   file : Files \cup {NoFile}, owner : Models \cup {General}]
CuratorRecords ==
    [pc : {"rest", "upload", "reuse", "destroy", "remove"},
     picture : PictureRows \cup {NoPicture}, files : SUBSET Files,
     kind : {"asset", "image"}, owner : Models \cup {General}, seen : SUBSET PictureRows]

MediaTypes ==
    /\ stored \in [Files -> {"unused", "stored", "deleted"}]
    /\ picture \in [PictureRows -> PictureRecords]
    /\ curator \in [Curators -> CuratorRecords]
    /\ disturbed \subseteq Files

RowsHaveFiles ==
    \A i \in PictureRows :
        \/ picture[i] = NoRow
        \/ /\ picture[i].state # "unused"
           /\ picture[i].file \in Files /\ stored[picture[i].file] # "unused"

UploadsApart ==
    \A c \in Uploading : \A f \in curator[c].files :
        /\ f \in Files /\ stored[f] = "stored"
        /\ \A i \in PictureRows : picture[i].file # f
        /\ \A d \in Uploading : f \in curator[d].files => d = c

ReusesKnow ==
    \A c \in Curators : curator[c].pc = "reuse" =>
        curator[c].picture \in PictureRows /\ picture[curator[c].picture].state # "unused"

\* What a delete knows of the row it removes.
DeleteKnows(r) ==
    /\ r.picture \in PictureRows /\ picture[r.picture].state # "unused"
    /\ r.files = {picture[r.picture].file}
    /\ r.picture \in r.seen /\ r.seen \subseteq PictureRows
    /\ r.pc = "destroy" => r.seen = {r.picture}
    /\ r.pc = "remove" /\ r.seen = {r.picture} =>
           picture[r.picture].file \in disturbed \/ stored[picture[r.picture].file] = "deleted"
DeletesKnow == \A c \in Deleting : DeleteKnows(curator[c])

GoneLeaving ==
    \A i \in LiveRows :
        \/ picture[i].file \in disturbed
        \/ stored[picture[i].file] = "stored"
        \/ \E c \in Removing : curator[c].picture = i /\ curator[c].seen = {i}

StoredShown == \A f \in Files \ (Arriving \cup disturbed) : stored[f] = "stored" => RowsOf(f) # {}

MediaInv ==
    /\ MediaTypes /\ RowsHaveFiles /\ UploadsApart /\ ReusesKnow /\ DeletesKnow
    /\ GoneLeaving /\ StoredShown

LEMMA MediaApart == NoFile \notin Files /\ NoPicture \notin PictureRows
                    /\ General \notin Models /\ IsFiniteSet(PictureRows)
  BY MediaAssumption

LEMMA RecordsAre ==
    /\ NoRow \in PictureRecords /\ NoRow.state = "unused" /\ NoRow.file = NoFile
    /\ AtRest \in CuratorRecords /\ AtRest.pc = "rest" /\ AtRest.files = {}
  BY DEF NoRow, AtRest, PictureRecords, CuratorRecords

\* The row is the last one of those counted just when there is no other.
LEMMA LastIs ==
    \A rows \in SUBSET PictureRows : \A i \in rows : LastOne(rows) <=> rows = {i}
<1> TAKE rows \in SUBSET PictureRows
<1> TAKE i \in rows
<1>1. IsFiniteSet(rows) /\ IsFiniteSet(rows \ {i})
  BY MediaApart, FS_Subset
<1>2. Cardinality(rows) \in Nat /\ Cardinality(rows \ {i}) \in Nat
      /\ Cardinality(rows \ {i}) = Cardinality(rows) - 1
  BY <1>1, FS_CardinalityType, FS_RemoveElement
<1>3. Cardinality(rows \ {i}) = 0 <=> rows \ {i} = {}
  BY <1>1, FS_EmptySet
<1>4. LastOne(rows) <=> Cardinality(rows \ {i}) = 0
  <2>1. Cardinality(rows) >= 1
    BY <1>2
  <2> QED
    BY <1>2, <2>1 DEF LastOne
<1> QED
  BY <1>3, <1>4

LEMMA CountedHas ==
    \A i \in LiveRows : i \in Counted(i) /\ Counted(i) \in SUBSET PictureRows
  BY DEF Counted, RowsOf, LiveRows

LEMMA MediaBegins == MediaInit => MediaInv
<1> SUFFICES ASSUME MediaInit PROVE MediaInv
  OBVIOUS
<1>1. /\ \A i \in PictureRows : picture[i] = NoRow
      /\ \A c \in Curators : curator[c].pc = "rest"
      /\ \A f \in Files : stored[f] = "unused"
  BY RecordsAre DEF MediaInit
<1>2. MediaTypes
  BY RecordsAre DEF MediaInit, MediaTypes
<1>3. LiveRows = {}
  BY <1>1, RecordsAre DEF LiveRows
<1> QED
  BY <1>1, <1>2, <1>3 DEF MediaInv, RowsHaveFiles, UploadsApart, ReusesKnow, DeletesKnow,
     GoneLeaving, StoredShown, Uploading, Deleting

-----------------------------------------------------------------------------
(* Requests that begin or end without touching a file or a row.             *)

LEMMA CuratorsChange ==
    ASSUME MediaInv, stored' = stored, picture' = picture,
           disturbed \subseteq disturbed', disturbed' \subseteq Files,
           NEW c \in Curators, NEW new \in CuratorRecords,
           curator' = [curator EXCEPT ![c] = new],
           new.pc = "upload" => new.files = {},
           new.pc = "reuse" => new.picture \in PictureRows /\ picture[new.picture].state # "unused",
           new.pc \in {"destroy", "remove"} => DeleteKnows(new),
           curator[c].pc = "upload" => curator[c].files \subseteq disturbed',
           curator[c].pc = "remove" /\ curator[c].seen = {curator[c].picture} =>
               picture[curator[c].picture].file \in disturbed'
    PROVE  MediaInv'
<1>1. /\ curator' \in [Curators -> CuratorRecords] /\ curator'[c] = new
      /\ \A d \in Curators \ {c} : curator'[d] = curator[d]
  BY DEF MediaInv, MediaTypes
<1>2. MediaTypes'
  BY <1>1 DEF MediaInv, MediaTypes
<1>3. RowsHaveFiles'
  BY DEF MediaInv, RowsHaveFiles
<1>4. UploadsApart'
  <2>1. \A d \in Uploading' : (d \in Uploading /\ curator'[d] = curator[d]) \/ curator'[d].files = {}
    BY <1>1 DEF Uploading
  <2> QED
    BY <2>1 DEF MediaInv, UploadsApart
<1>5. ReusesKnow'
  BY <1>1 DEF MediaInv, ReusesKnow
<1>6. DeletesKnow'
  <2> SUFFICES ASSUME NEW d \in Deleting' PROVE DeleteKnows(curator[d])'
    BY DEF DeletesKnow
  <2>1. PICK r : r = curator'[d]
    OBVIOUS
  <2>2. DeleteKnows(r)
    BY <1>1, <2>1 DEF Deleting, MediaInv, DeletesKnow
  <2> QED
    BY <2>1, <2>2 DEF DeleteKnows
<1>7. LiveRows' = LiveRows
  BY DEF LiveRows
<1>8. GoneLeaving'
  <2> SUFFICES ASSUME NEW i \in LiveRows, picture[i].file \notin disturbed',
                      stored[picture[i].file] # "stored"
               PROVE  \E d \in Removing' : curator'[d].picture = i /\ curator'[d].seen = {i}
    BY <1>7 DEF GoneLeaving
  <2>1. PICK d \in Removing : curator[d].picture = i /\ curator[d].seen = {i}
    BY DEF MediaInv, GoneLeaving
  <2>2. d # c
    BY <2>1 DEF Removing
  <2>3. d \in Removing' /\ curator'[d] = curator[d]
    BY <2>2, <1>1 DEF Removing
  <2> QED
    BY <2>1, <2>3
<1>9. StoredShown'
  <2>1. Arriving \subseteq Arriving' \cup disturbed'
    <3> SUFFICES ASSUME NEW d \in Curators, curator[d].pc = "upload", NEW f \in curator[d].files,
                        f \notin disturbed'
                 PROVE  f \in Arriving'
      BY DEF Arriving
    <3>1. d # c
      OBVIOUS
    <3> QED
      BY <3>1, <1>1 DEF Arriving
  <2>2. \A f \in Files : RowsOf(f)' = RowsOf(f)
    BY <1>7 DEF RowsOf
  <2> QED
    BY <2>1, <2>2 DEF MediaInv, StoredShown
<1> QED
  BY <1>2, <1>3, <1>4, <1>5, <1>6, <1>8, <1>9 DEF MediaInv

LEMMA AskKeeps ==
    ASSUME MediaInv, NEW c \in Curators, NEW new \in CuratorRecords, Ask(c, new),
           new.pc = "upload" => new.files = {},
           new.pc = "reuse" => new.picture \in PictureRows /\ picture[new.picture].state # "unused",
           new.pc \in {"destroy", "remove"} => DeleteKnows(new)
    PROVE  MediaInv'
<1>1. /\ curator[c].pc = "rest" /\ curator' = [curator EXCEPT ![c] = new]
      /\ stored' = stored /\ picture' = picture /\ disturbed' = disturbed
  BY RecordsAre DEF Ask
<1>2. disturbed \subseteq disturbed' /\ disturbed' \subseteq Files
  BY <1>1 DEF MediaInv, MediaTypes
<1> QED
  BY <1>1, <1>2, CuratorsChange

LEMMA BeginUploadKeeps ==
    ASSUME MediaInv, NEW c \in Curators, NEW kind \in {"asset", "image"},
           NEW whose \in Models \cup {General}, BeginUpload(c, kind, whose)
    PROVE  MediaInv'
<1>1. PICK new : new = [AtRest EXCEPT !.pc = "upload", !.kind = kind, !.owner = whose]
  OBVIOUS
<1>2. new \in CuratorRecords /\ new.pc = "upload" /\ new.files = {}
  BY <1>1 DEF AtRest, CuratorRecords
<1>3. Ask(c, new)
  BY <1>1 DEF BeginUpload
<1> QED
  BY <1>2, <1>3, AskKeeps

LEMMA BeginReuseKeeps ==
    ASSUME MediaInv, NEW c \in Curators, NEW i \in PictureRows, NEW m \in Models,
           BeginReuse(c, i, m)
    PROVE  MediaInv'
<1>1. PICK new : new = [AtRest EXCEPT !.pc = "reuse", !.picture = i, !.owner = m]
  OBVIOUS
<1>2. new \in CuratorRecords /\ new.pc = "reuse" /\ new.picture = i
  BY <1>1 DEF AtRest, CuratorRecords
<1>3. Ask(c, new) /\ picture[i].state # "unused"
  BY <1>1 DEF BeginReuse, Assets, LiveRows
<1> QED
  BY <1>2, <1>3, AskKeeps

LEMMA BeginDeleteKeeps ==
    ASSUME MediaInv, NEW c \in Curators, NEW i \in LiveRows, BeginDelete(c, i)
    PROVE  MediaInv'
<1>1. PICK pc, seen, files :
          /\ seen = Counted(i) /\ files = {picture[i].file}
          /\ pc = IF LastOne(Counted(i)) THEN "destroy" ELSE "remove"
  OBVIOUS
<1>2. PICK new : new = [AtRest EXCEPT !.picture = i, !.seen = seen, !.files = files, !.pc = pc]
  OBVIOUS
<1>3. i \in PictureRows /\ picture[i].state = "live"
  BY DEF LiveRows
<1>4. files \subseteq Files
  BY <1>1, <1>3, RecordsAre DEF MediaInv, RowsHaveFiles
<1>5. i \in seen /\ seen \subseteq PictureRows /\ (pc = "destroy" <=> seen = {i})
      /\ pc \in {"destroy", "remove"}
  BY <1>1, CountedHas, LastIs
<1>6. /\ new \in CuratorRecords /\ new.pc = pc /\ new.picture = i
      /\ new.seen = seen /\ new.files = files
  BY <1>2, <1>3, <1>4, <1>5 DEF AtRest, CuratorRecords
<1>7. DeleteKnows(new)
  BY <1>1, <1>3, <1>5, <1>6 DEF DeleteKnows
<1>8. Ask(c, new)
  BY <1>1, <1>2 DEF BeginDelete
<1> QED
  BY <1>5, <1>6, <1>7, <1>8, AskKeeps

LEMMA UploadFailsKeeps ==
    ASSUME MediaInv, NEW c \in Curators, UploadFails(c)
    PROVE  MediaInv'
<1>1. /\ curator[c].pc = "upload" /\ curator' = [curator EXCEPT ![c] = AtRest]
      /\ disturbed' = disturbed \cup curator[c].files
      /\ stored' = stored /\ picture' = picture
  BY DEF UploadFails, Rest
<1>2. disturbed \subseteq disturbed' /\ disturbed' \subseteq Files
      /\ curator[c].files \subseteq disturbed'
  BY <1>1 DEF MediaInv, MediaTypes, CuratorRecords
<1> QED
  BY <1>1, <1>2, RecordsAre, CuratorsChange

LEMMA DeleteFailsKeeps ==
    ASSUME MediaInv, NEW c \in Curators, DeleteFails(c)
    PROVE  MediaInv'
<1>1. /\ curator[c].pc \in {"destroy", "remove"} /\ curator' = [curator EXCEPT ![c] = AtRest]
      /\ disturbed' = IF curator[c].pc = "remove" /\ LastOne(curator[c].seen)
                      THEN disturbed \cup curator[c].files ELSE disturbed
      /\ stored' = stored /\ picture' = picture
  BY DEF DeleteFails, Rest
<1>2. disturbed \subseteq disturbed' /\ disturbed' \subseteq Files
  BY <1>1 DEF MediaInv, MediaTypes, CuratorRecords
<1>3. DeleteKnows(curator[c])
  BY <1>1 DEF MediaInv, DeletesKnow, Deleting
<1>4. curator[c].pc = "remove" /\ curator[c].seen = {curator[c].picture} =>
          picture[curator[c].picture].file \in disturbed'
  BY <1>1, <1>3, LastIs DEF DeleteKnows
<1> QED
  BY <1>1, <1>2, <1>4, RecordsAre, CuratorsChange

-----------------------------------------------------------------------------
(* Steps that touch a file or a row.                                        *)

LEMMA DeleteStays ==
    ASSUME NEW r, DeleteKnows(r),
           \A i \in PictureRows : picture[i].state # "unused" =>
               picture'[i].state # "unused" /\ picture'[i].file = picture[i].file,
           disturbed \subseteq disturbed',
           stored[picture[r.picture].file] = "deleted" =>
               stored'[picture[r.picture].file] = "deleted"
    PROVE  DeleteKnows(r)'
  BY DEF DeleteKnows

LEMMA StoreFileKeeps ==
    ASSUME MediaInv, NEW c \in Curators, NEW f \in Files, StoreFile(c, f)
    PROVE  MediaInv'
<1>1. /\ stored \in [Files -> {"unused", "stored", "deleted"}]
      /\ curator \in [Curators -> CuratorRecords] /\ picture' = picture /\ disturbed' = disturbed
      /\ curator[c].pc = "upload" /\ stored[f] = "unused"
      /\ stored' = [stored EXCEPT ![f] = "stored"]
      /\ curator' = [curator EXCEPT ![c].files = @ \cup {f}]
  BY DEF StoreFile, MediaInv, MediaTypes
<1>2. PICK old, new : old = curator[c] /\ new = [old EXCEPT !.files = old.files \cup {f}]
  OBVIOUS
<1>3. /\ old \in CuratorRecords /\ new \in CuratorRecords /\ new.pc = "upload"
      /\ new.files = old.files \cup {f}
  BY <1>1, <1>2 DEF CuratorRecords
<1>4. /\ curator' \in [Curators -> CuratorRecords] /\ curator'[c] = new
      /\ \A d \in Curators \ {c} : curator'[d] = curator[d]
  BY <1>1, <1>2, <1>3
<1>5. /\ stored' \in [Files -> {"unused", "stored", "deleted"}] /\ stored'[f] = "stored"
      /\ \A g \in Files \ {f} : stored'[g] = stored[g]
  BY <1>1
<1>6. \A i \in PictureRows : picture[i].file # f
  BY <1>1, MediaApart, RecordsAre DEF MediaInv, RowsHaveFiles
<1>7. /\ Uploading' = Uploading /\ Deleting' = Deleting /\ Removing' = Removing
      /\ \A d \in Deleting \cup Removing : curator'[d] = curator[d]
  BY <1>1, <1>3, <1>4 DEF Uploading, Deleting, Removing
<1>8. MediaTypes'
  BY <1>1, <1>4, <1>5 DEF MediaInv, MediaTypes
<1>9. RowsHaveFiles'
  BY <1>1, <1>5 DEF MediaInv, RowsHaveFiles
<1>10. UploadsApart'
  <2>1. \A d \in Uploading : \A g \in curator[d].files : g # f
    BY <1>1 DEF MediaInv, UploadsApart
  <2>2. \A d \in Uploading : \A g \in curator'[d].files : (g = f /\ d = c) \/ (g # f /\ g \in curator[d].files)
    BY <1>2, <1>3, <1>4, <2>1 DEF Uploading
  <2>3. \A d \in Uploading, g \in Files : g # f /\ g \in curator'[d].files => g \in curator[d].files
    BY <2>2
  <2> SUFFICES ASSUME NEW d \in Uploading, NEW g \in curator'[d].files
               PROVE  /\ g \in Files /\ stored'[g] = "stored"
                      /\ \A i \in PictureRows : picture[i].file # g
                      /\ \A e \in Uploading : g \in curator'[e].files => e = d
    BY <1>1, <1>7 DEF UploadsApart
  <2>4. CASE g = f
    BY <2>2, <2>4, <1>5, <1>6
  <2>5. CASE g # f
    BY <2>2, <2>3, <2>5, <1>5 DEF MediaInv, UploadsApart
  <2> QED
    BY <2>4, <2>5
<1>11. ReusesKnow'
  BY <1>1, <1>3, <1>4 DEF MediaInv, ReusesKnow
<1>12. DeletesKnow'
  <2> SUFFICES ASSUME NEW d \in Deleting PROVE DeleteKnows(curator[d])'
    BY <1>7 DEF DeletesKnow
  <2>1. PICK r : r = curator[d] /\ r = curator'[d]
    BY <1>7
  <2>2. DeleteKnows(r)
    BY <2>1 DEF MediaInv, DeletesKnow
  <2>3. stored[picture[r.picture].file] = "deleted" => stored'[picture[r.picture].file] = "deleted"
    BY <2>2, <1>1, <1>6 DEF DeleteKnows
  <2>4. DeleteKnows(r)'
    BY <2>2, <2>3, <1>1, DeleteStays
  <2> QED
    BY <2>1, <2>4 DEF DeleteKnows
<1>13. LiveRows' = LiveRows
  BY <1>1 DEF LiveRows
<1>14. GoneLeaving'
  <2>1. \A i \in LiveRows : stored[picture[i].file] = "stored" => stored'[picture[i].file] = "stored"
    BY <1>1, <1>5, <1>6 DEF LiveRows
  <2> SUFFICES ASSUME NEW i \in LiveRows', picture'[i].file \notin disturbed',
                      stored'[picture'[i].file] # "stored"
               PROVE  \E d \in Removing' : curator'[d].picture = i /\ curator'[d].seen = {i}
    BY DEF GoneLeaving
  <2>2. i \in LiveRows /\ picture[i].file \notin disturbed /\ stored[picture[i].file] # "stored"
    BY <2>1, <1>1, <1>13
  <2>3. PICK d \in Removing : curator[d].picture = i /\ curator[d].seen = {i}
    BY <2>2 DEF MediaInv, GoneLeaving
  <2> QED
    BY <2>3, <1>7
<1>15. StoredShown'
  <2>1. Arriving \subseteq Arriving' /\ f \in Arriving'
    BY <1>1, <1>2, <1>3, <1>4 DEF Arriving
  <2>2. \A g \in Files : RowsOf(g)' = RowsOf(g)
    BY <1>1, <1>13 DEF RowsOf
  <2> QED
    BY <2>1, <2>2, <1>1, <1>5 DEF MediaInv, StoredShown
<1> QED
  BY <1>8, <1>9, <1>10, <1>11, <1>12, <1>14, <1>15 DEF MediaInv

\* Rows that are written where there were none, each for a file that is there
\* and that the request brought, or that a row shows.
LEMMA RowsAdded ==
    ASSUME MediaInv, NEW c \in Curators, stored' = stored,
           curator' = [curator EXCEPT ![c] = AtRest], curator[c].pc \in {"upload", "reuse"},
           disturbed \subseteq disturbed', disturbed' \subseteq Files,
           picture' \in [PictureRows -> PictureRecords],
           \A i \in PictureRows :
               \/ picture'[i] = picture[i]
               \/ /\ picture[i] = NoRow /\ picture'[i].state = "live"
                  /\ picture'[i].file \in Files /\ stored[picture'[i].file] # "unused"
                  /\ stored[picture'[i].file] = "stored" \/ picture'[i].file \in disturbed'
                  /\ \A d \in Uploading \ {c} : picture'[i].file \notin curator[d].files,
           curator[c].pc = "upload" => \A f \in curator[c].files :
               \E i \in PictureRows : picture'[i].state = "live" /\ picture'[i].file = f
    PROVE  MediaInv'
<1>1. /\ curator' \in [Curators -> CuratorRecords] /\ curator'[c].pc = "rest"
      /\ \A d \in Curators \ {c} : curator'[d] = curator[d]
  BY RecordsAre DEF MediaInv, MediaTypes
<1>2. \A i \in PictureRows : picture[i].state # "unused" =>
          picture'[i] = picture[i]
  BY RecordsAre
<1>3. LiveRows \subseteq LiveRows'
  BY <1>2 DEF LiveRows
<1>4. MediaTypes'
  BY <1>1 DEF MediaInv, MediaTypes
<1>5. RowsHaveFiles'
  BY DEF MediaInv, RowsHaveFiles
<1>6. UploadsApart'
  <2>1. Uploading' \subseteq Uploading \ {c} /\ \A d \in Uploading' : curator'[d] = curator[d]
    BY <1>1 DEF Uploading
  <2> SUFFICES ASSUME NEW d \in Uploading \ {c}, NEW f \in curator[d].files
               PROVE  /\ f \in Files /\ stored[f] = "stored"
                      /\ \A i \in PictureRows : picture'[i].file # f
                      /\ \A e \in Uploading : f \in curator[e].files => e = d
    BY <2>1 DEF UploadsApart
  <2>2. /\ f \in Files /\ stored[f] = "stored"
        /\ \A i \in PictureRows : picture[i].file # f
        /\ \A e \in Uploading : f \in curator[e].files => e = d
    BY DEF MediaInv, UploadsApart
  <2> QED
    BY <2>2
<1>7. ReusesKnow'
  BY <1>1, <1>2 DEF MediaInv, ReusesKnow
<1>8. DeletesKnow'
  <2>1. Deleting' \subseteq Deleting /\ \A d \in Deleting' : curator'[d] = curator[d]
    BY <1>1 DEF Deleting
  <2> SUFFICES ASSUME NEW d \in Deleting' PROVE DeleteKnows(curator[d])'
    BY DEF DeletesKnow
  <2>2. PICK r : r = curator[d] /\ r = curator'[d]
    BY <2>1
  <2>3. DeleteKnows(r)
    BY <2>1, <2>2 DEF MediaInv, DeletesKnow
  <2>4. DeleteKnows(r)'
    BY <2>3, <1>2, DeleteStays
  <2> QED
    BY <2>2, <2>4 DEF DeleteKnows
<1>9. GoneLeaving'
  <2> SUFFICES ASSUME NEW i \in LiveRows', picture'[i].file \notin disturbed',
                      stored[picture'[i].file] # "stored"
               PROVE  \E d \in Removing' : curator'[d].picture = i /\ curator'[d].seen = {i}
    BY DEF GoneLeaving
  <2>1. picture'[i] = picture[i] /\ i \in LiveRows
    BY DEF LiveRows
  <2>2. PICK d \in Removing : curator[d].picture = i /\ curator[d].seen = {i}
    BY <2>1 DEF MediaInv, GoneLeaving
  <2>3. d \in Removing' /\ curator'[d] = curator[d]
    BY <2>2, <1>1 DEF Removing
  <2> QED
    BY <2>2, <2>3
<1>10. StoredShown'
  <2> SUFFICES ASSUME NEW f \in Files, f \notin Arriving', f \notin disturbed', stored[f] = "stored"
               PROVE  \E i \in PictureRows : picture'[i].state = "live" /\ picture'[i].file = f
    BY DEF StoredShown, RowsOf, LiveRows
  <2>1. CASE f \in Arriving
    <3>1. PICK d \in Curators : curator[d].pc = "upload" /\ f \in curator[d].files
      BY <2>1 DEF Arriving
    <3>2. d = c
      BY <3>1, <1>1 DEF Arriving
    <3> QED
      BY <3>1, <3>2
  <2>2. CASE f \notin Arriving
    <3>1. PICK i \in LiveRows : picture[i].file = f
      BY <2>2 DEF MediaInv, StoredShown, RowsOf
    <3>2. i \in PictureRows /\ picture[i].state = "live"
      BY <3>1 DEF LiveRows
    <3>3. picture'[i] = picture[i]
      BY <3>2, <1>2
    <3> QED
      BY <3>1, <3>2, <3>3
  <2> QED
    BY <2>1, <2>2
<1> QED
  BY <1>4, <1>5, <1>6, <1>7, <1>8, <1>9, <1>10 DEF MediaInv

LEMMA AddRowsKeeps ==
    ASSUME MediaInv, NEW c \in Curators, AddRows(c)
    PROVE  MediaInv'
<1>1. PICK upload : upload = curator[c]
  OBVIOUS
<1>2. /\ upload \in CuratorRecords /\ upload.pc = "upload" /\ upload.files \subseteq Files
      /\ picture \in [PictureRows -> PictureRecords]
  BY <1>1 DEF AddRows, MediaInv, MediaTypes, CuratorRecords
<1>3. PICK place \in [upload.files -> {i \in PictureRows : picture[i] = NoRow}] :
           /\ \A f, g \in upload.files : place[f] = place[g] => f = g
           /\ picture' = [i \in PictureRows |->
                  IF \E f \in upload.files : place[f] = i
                  THEN [state |-> "live", kind |-> upload.kind, owner |-> upload.owner,
                        file |-> CHOOSE f \in upload.files : place[f] = i]
                  ELSE picture[i]]
  BY <1>1 DEF AddRows
<1>4. /\ stored' = stored /\ disturbed' = disturbed /\ disturbed \subseteq Files
      /\ curator' = [curator EXCEPT ![c] = AtRest]
  BY DEF AddRows, Rest, MediaInv, MediaTypes
<1>5. \A f \in upload.files : place[f] \in PictureRows /\ picture[place[f]] = NoRow
  BY <1>3
<1>6. \A f \in upload.files :
          picture'[place[f]] = [state |-> "live", kind |-> upload.kind, owner |-> upload.owner,
                              file |-> f]
  <2> SUFFICES ASSUME NEW f \in upload.files
               PROVE  picture'[place[f]] = [state |-> "live", kind |-> upload.kind,
                                          owner |-> upload.owner, file |-> f]
    OBVIOUS
  <2>1. (CHOOSE g \in upload.files : place[g] = place[f]) = f
    BY <1>3
  <2>2. \E g \in upload.files : place[g] = place[f]
    OBVIOUS
  <2> QED
    BY <2>1, <2>2, <1>3, <1>5
<1>7. \A i \in PictureRows : picture'[i] = picture[i] \/ \E f \in upload.files : i = place[f]
  BY <1>3
<1>8. \A f \in upload.files : /\ picture'[place[f]] \in PictureRecords
                               /\ picture'[place[f]].state = "live" /\ picture'[place[f]].file = f
  <2>1. PICK kind, whose : kind = upload.kind /\ whose = upload.owner
    OBVIOUS
  <2>2. kind \in {"asset", "image"} /\ whose \in Models \cup {General}
    BY <1>2, <2>1 DEF CuratorRecords
  <2> SUFFICES ASSUME NEW f \in upload.files, NEW new, new = picture'[place[f]]
               PROVE  new \in PictureRecords /\ new.state = "live" /\ new.file = f
    OBVIOUS
  <2>3. new = [state |-> "live", kind |-> kind, owner |-> whose, file |-> f] /\ f \in Files
    BY <1>2, <1>6, <2>1
  <2> QED
    BY <2>2, <2>3 DEF PictureRecords
<1>9. picture' \in [PictureRows -> PictureRecords]
  BY <1>2, <1>3, <1>7, <1>8
<1>10. \A f \in upload.files : f \in Files /\ stored[f] = "stored"
                                /\ \A d \in Uploading \ {c} : f \notin curator[d].files
  BY <1>1, <1>2 DEF MediaInv, UploadsApart, Uploading
<1>11. \A i \in PictureRows :
           \/ picture'[i] = picture[i]
           \/ /\ picture[i] = NoRow /\ picture'[i].state = "live"
              /\ picture'[i].file \in Files /\ stored[picture'[i].file] # "unused"
              /\ stored[picture'[i].file] = "stored" \/ picture'[i].file \in disturbed'
              /\ \A d \in Uploading \ {c} : picture'[i].file \notin curator[d].files
  BY <1>5, <1>7, <1>8, <1>10
<1>12. \A f \in curator[c].files :
           \E i \in PictureRows : picture'[i].state = "live" /\ picture'[i].file = f
  BY <1>1, <1>5, <1>8
<1>13. curator[c].pc \in {"upload", "reuse"} /\ disturbed \subseteq disturbed'
       /\ disturbed' \subseteq Files
  BY <1>1, <1>2, <1>4
<1> QED
  BY <1>4, <1>9, <1>11, <1>12, <1>13, RowsAdded

LEMMA ReuseKeeps ==
    ASSUME MediaInv, NEW c \in Curators, Reuse(c)
    PROVE  MediaInv'
<1>1. PICK source, m : source = curator[c].picture /\ m = curator[c].owner
  OBVIOUS
<1>2. /\ curator[c].pc = "reuse" /\ source \in PictureRows /\ picture[source].state # "unused"
      /\ m \in Models \cup {General} /\ picture \in [PictureRows -> PictureRecords]
  BY <1>1 DEF Reuse, MediaInv, ReusesKnow, MediaTypes, CuratorRecords
<1>3. PICK f : f = picture[source].file
  OBVIOUS
<1>4. f \in Files /\ stored[f] # "unused" /\ \A d \in Uploading : f \notin curator[d].files
  BY <1>2, <1>3, RecordsAre DEF MediaInv, RowsHaveFiles, UploadsApart
<1>5. PICK new : new = [state |-> "live", kind |-> "asset", file |-> f, owner |-> m]
  OBVIOUS
<1>6. new \in PictureRecords /\ new.state = "live" /\ new.file = f
  BY <1>2, <1>4, <1>5 DEF PictureRecords
<1>7. PICK i \in PictureRows : picture[i] = NoRow /\ picture' = [picture EXCEPT ![i] = new]
  BY <1>1, <1>3, <1>5 DEF Reuse
<1>8. /\ stored' = stored /\ curator' = [curator EXCEPT ![c] = AtRest]
      /\ disturbed' = IF source \in LiveRows \ Leaving THEN disturbed ELSE disturbed \cup {f}
  BY <1>1, <1>3 DEF Reuse, Rest
<1>9. disturbed \subseteq disturbed' /\ disturbed' \subseteq Files
  BY <1>4, <1>8 DEF MediaInv, MediaTypes
<1>10. stored[f] = "stored" \/ f \in disturbed'
  <2> SUFFICES ASSUME source \in LiveRows \ Leaving, f \notin disturbed
               PROVE  stored[f] = "stored"
    BY <1>8
  <2>1. \A d \in Removing : curator[d].picture # source
    BY DEF Removing, Leaving
  <2> QED
    BY <2>1, <1>3 DEF MediaInv, GoneLeaving
<1>11. /\ picture' \in [PictureRows -> PictureRecords] /\ picture'[i] = new
       /\ \A j \in PictureRows \ {i} : picture'[j] = picture[j]
  BY <1>2, <1>6, <1>7
<1>12. \A j \in PictureRows :
           \/ picture'[j] = picture[j]
           \/ /\ picture[j] = NoRow /\ picture'[j].state = "live"
              /\ picture'[j].file \in Files /\ stored[picture'[j].file] # "unused"
              /\ stored[picture'[j].file] = "stored" \/ picture'[j].file \in disturbed'
              /\ \A d \in Uploading \ {c} : picture'[j].file \notin curator[d].files
  BY <1>4, <1>6, <1>7, <1>10, <1>11
<1> QED
  BY <1>2, <1>8, <1>9, <1>11, <1>12, RowsAdded

LEMMA ReleaseModelKeeps ==
    ASSUME MediaInv, NEW m \in Models, ReleaseModel(m)
    PROVE  MediaInv'
<1>1. /\ stored' = stored /\ curator' = curator /\ disturbed' = disturbed
      /\ picture' = [i \in PictureRows |-> IF i \in Assets /\ picture[i].owner = m
                                           THEN [picture[i] EXCEPT !.owner = General]
                                           ELSE picture[i]]
  BY DEF ReleaseModel
<1>2. picture \in [PictureRows -> PictureRecords]
  BY DEF MediaInv, MediaTypes
<1>3. \A i \in PictureRows : \A new : new = [picture[i] EXCEPT !.owner = General] =>
          /\ new \in PictureRecords /\ new.state = picture[i].state
          /\ new.file = picture[i].file /\ new.kind = picture[i].kind
  <2> SUFFICES ASSUME NEW i \in PictureRows, NEW old \in PictureRecords, old = picture[i],
                      NEW new, new = [old EXCEPT !.owner = General]
               PROVE  /\ new \in PictureRecords /\ new.state = old.state
                      /\ new.file = old.file /\ new.kind = old.kind
    BY <1>2
  <2> QED
    BY DEF PictureRecords
<1>4. \A i \in PictureRows : /\ picture'[i] \in PictureRecords
                             /\ picture'[i].state = picture[i].state
                             /\ picture'[i].file = picture[i].file
  BY <1>1, <1>2, <1>3
<1>5. \A i \in PictureRows : picture[i].state = "unused" => picture'[i] = picture[i]
  BY <1>1 DEF Assets, LiveRows
<1>6. picture' \in [PictureRows -> PictureRecords]
  BY <1>1, <1>4
<1>7. LiveRows' = LiveRows /\ Uploading' = Uploading /\ Deleting' = Deleting
      /\ Removing' = Removing /\ Arriving' = Arriving
  BY <1>1, <1>4 DEF LiveRows, Uploading, Deleting, Removing, Arriving
<1>8. MediaTypes'
  BY <1>1, <1>6 DEF MediaInv, MediaTypes
<1>9. RowsHaveFiles'
  BY <1>1, <1>4, <1>5, RecordsAre DEF MediaInv, RowsHaveFiles
<1>10. UploadsApart'
  BY <1>1, <1>4, <1>7 DEF MediaInv, UploadsApart
<1>11. ReusesKnow'
  BY <1>1, <1>4 DEF MediaInv, ReusesKnow
<1>12. DeletesKnow'
  <2> SUFFICES ASSUME NEW d \in Deleting PROVE DeleteKnows(curator[d])'
    BY <1>7 DEF DeletesKnow
  <2>1. PICK r : r = curator[d] /\ r = curator'[d]
    BY <1>1
  <2>2. DeleteKnows(r)
    BY <2>1 DEF MediaInv, DeletesKnow
  <2>3. DeleteKnows(r)'
    BY <2>2, <1>1, <1>4, DeleteStays
  <2> QED
    BY <2>1, <2>3 DEF DeleteKnows
<1>13. \A i \in LiveRows : i \in PictureRows
  BY DEF LiveRows
<1>14. GoneLeaving'
  <2> SUFFICES ASSUME NEW i \in LiveRows', picture'[i].file \notin disturbed',
                      stored'[picture'[i].file] # "stored"
               PROVE  \E d \in Removing' : curator'[d].picture = i /\ curator'[d].seen = {i}
    BY DEF GoneLeaving
  <2>2. i \in LiveRows /\ picture[i].file \notin disturbed /\ stored[picture[i].file] # "stored"
    BY <1>1, <1>4, <1>7, <1>13
  <2>3. PICK d \in Removing : curator[d].picture = i /\ curator[d].seen = {i}
    BY <2>2 DEF MediaInv, GoneLeaving
  <2> QED
    BY <2>3, <1>1, <1>7
<1>15. StoredShown'
  <2>1. \A f \in Files : RowsOf(f)' = RowsOf(f)
    BY <1>4, <1>7, <1>13 DEF RowsOf
  <2> QED
    BY <2>1, <1>1, <1>7 DEF MediaInv, StoredShown
<1> QED
  BY <1>8, <1>9, <1>10, <1>11, <1>12, <1>14, <1>15 DEF MediaInv

LEMMA DestroyFileKeeps ==
    ASSUME MediaInv, NEW c \in Curators, NEW done \in BOOLEAN, DestroyFile(c, done)
    PROVE  MediaInv'
<1>1. PICK old, new : old = curator[c] /\ new = [old EXCEPT !.pc = "remove"]
  OBVIOUS
<1>2. /\ stored \in [Files -> {"unused", "stored", "deleted"}]
      /\ picture \in [PictureRows -> PictureRecords] /\ curator \in [Curators -> CuratorRecords]
      /\ disturbed \subseteq Files
  BY DEF MediaInv, MediaTypes
<1>3. /\ old \in CuratorRecords /\ old.pc = "destroy"
      /\ new \in CuratorRecords /\ new.pc = "remove" /\ new.picture = old.picture
      /\ new.files = old.files /\ new.seen = old.seen
  BY <1>1, <1>2 DEF DestroyFile, CuratorRecords
<1>4. PICK i, f : i = old.picture /\ f = picture[i].file
  OBVIOUS
<1>5. /\ i \in PictureRows /\ picture[i].state # "unused" /\ f \in Files
      /\ old.files = {f} /\ old.seen = {i}
  <2>1. DeleteKnows(old)
    BY <1>1, <1>3 DEF MediaInv, DeletesKnow, Deleting
  <2> QED
    BY <2>1, <1>3, <1>4, RecordsAre DEF DeleteKnows, MediaInv, RowsHaveFiles
<1>6. /\ picture' = picture
      /\ stored' = IF done THEN [stored EXCEPT ![f] = "deleted"] ELSE stored
      /\ disturbed' = IF ~done \/ RowsOf(f) # {i} THEN disturbed \cup {f} ELSE disturbed
      /\ curator' = [curator EXCEPT ![c] = new]
  BY <1>1, <1>2, <1>5 DEF DestroyFile
<1>7. /\ curator' \in [Curators -> CuratorRecords] /\ curator'[c] = new
      /\ \A d \in Curators \ {c} : curator'[d] = curator[d]
  BY <1>2, <1>3, <1>6
<1>8. /\ stored' \in [Files -> {"unused", "stored", "deleted"}]
      /\ \A g \in Files \ {f} : stored'[g] = stored[g]
      /\ disturbed \subseteq disturbed' /\ disturbed' \subseteq Files
      /\ f \in disturbed' \/ (stored'[f] = "deleted" /\ RowsOf(f) = {i})
  BY <1>2, <1>5, <1>6
<1>9. \A g \in Files : /\ stored[g] = "deleted" => stored'[g] = "deleted"
                       /\ stored[g] # "unused" => stored'[g] # "unused"
                       /\ stored'[g] = "stored" => stored[g] = "stored"
  BY <1>2, <1>6
<1>10. /\ Uploading' = Uploading /\ Deleting' = Deleting /\ Removing' = Removing \cup {c}
       /\ Arriving' = Arriving /\ LiveRows' = LiveRows
  BY <1>1, <1>3, <1>6, <1>7 DEF Uploading, Deleting, Removing, Arriving, LiveRows
<1>11. MediaTypes'
  BY <1>2, <1>6, <1>7, <1>8 DEF MediaInv, MediaTypes
<1>12. RowsHaveFiles'
  BY <1>6, <1>9 DEF MediaInv, RowsHaveFiles
<1>13. UploadsApart'
  <2>1. \A d \in Uploading : curator'[d] = curator[d] /\ f \notin curator[d].files
    BY <1>1, <1>3, <1>4, <1>5, <1>7 DEF MediaInv, UploadsApart, Uploading
  <2>2. \A d \in Uploading : \A g \in curator[d].files : g \in Files /\ stored'[g] = "stored"
    BY <2>1, <1>8 DEF MediaInv, UploadsApart
  <2> QED
    BY <2>1, <2>2, <1>6, <1>10 DEF MediaInv, UploadsApart
<1>14. ReusesKnow'
  BY <1>3, <1>6, <1>7 DEF MediaInv, ReusesKnow
<1>15. DeletesKnow'
  <2> SUFFICES ASSUME NEW d \in Deleting PROVE DeleteKnows(curator[d])'
    BY <1>10 DEF DeletesKnow
  <2>1. CASE d = c
    <3>1. DeleteKnows(new)'
      BY <1>3, <1>4, <1>5, <1>6, <1>8 DEF DeleteKnows
    <3> QED
      BY <3>1, <2>1, <1>7 DEF DeleteKnows
  <2>2. CASE d # c
    <3>1. PICK r : r = curator[d] /\ r = curator'[d]
      BY <2>2, <1>7 DEF Deleting
    <3>2. DeleteKnows(r)
      BY <3>1 DEF MediaInv, DeletesKnow
    <3>3. picture[r.picture].file \in Files
      BY <3>2, RecordsAre DEF DeleteKnows, MediaInv, RowsHaveFiles
    <3>4. DeleteKnows(r)'
      BY <3>2, <3>3, <1>6, <1>8, <1>9, DeleteStays
    <3> QED
      BY <3>1, <3>4 DEF DeleteKnows
  <2> QED
    BY <2>1, <2>2
<1>16. GoneLeaving'
  <2> SUFFICES ASSUME NEW j \in LiveRows', picture'[j].file \notin disturbed',
                      stored'[picture'[j].file] # "stored"
               PROVE  \E d \in Removing' : curator'[d].picture = j /\ curator'[d].seen = {j}
    BY DEF GoneLeaving
  <2>1. j \in LiveRows /\ picture[j].file \notin disturbed' /\ picture[j].file \notin disturbed
    BY <1>6, <1>8, <1>10
  <2>2. j \in PictureRows /\ picture[j].file \in Files
    BY <2>1, RecordsAre DEF LiveRows, MediaInv, RowsHaveFiles
  <2>3. CASE picture[j].file = f
    <3>1. j \in RowsOf(f)
      BY <2>1, <2>3 DEF RowsOf
    <3>2. j = i
      BY <3>1, <2>1, <2>3, <1>8
    <3> QED
      BY <3>2, <1>3, <1>4, <1>5, <1>7, <1>10
  <2>4. CASE picture[j].file # f
    <3>1. stored[picture[j].file] # "stored"
      BY <2>2, <2>4, <1>6, <1>8
    <3>2. PICK d \in Removing : curator[d].picture = j /\ curator[d].seen = {j}
      BY <3>1, <2>1 DEF MediaInv, GoneLeaving
    <3>3. d # c
      BY <1>1, <1>3 DEF Removing
    <3> QED
      BY <3>2, <3>3, <1>7, <1>10 DEF Removing
  <2> QED
    BY <2>3, <2>4
<1>17. StoredShown'
  <2>1. \A g \in Files : RowsOf(g)' = RowsOf(g)
    BY <1>6, <1>10 DEF RowsOf
  <2> QED
    BY <2>1, <1>8, <1>9, <1>10 DEF MediaInv, StoredShown
<1> QED
  BY <1>11, <1>12, <1>13, <1>14, <1>15, <1>16, <1>17 DEF MediaInv

LEMMA RemoveRowKeeps ==
    ASSUME MediaInv, NEW c \in Curators, RemoveRow(c)
    PROVE  MediaInv'
<1>1. PICK i, old, new, f, seen :
          /\ i = curator[c].picture /\ old = picture[i] /\ f = old.file /\ seen = curator[c].seen
          /\ new = [old EXCEPT !.state = "deleted"]
  OBVIOUS
<1>2. /\ curator[c].pc = "remove" /\ i \in LiveRows /\ stored' = stored
      /\ picture' = [picture EXCEPT ![i] = new]
      /\ disturbed' = IF seen = Counted(i) THEN disturbed ELSE disturbed \cup {f}
      /\ curator' = [curator EXCEPT ![c] = AtRest]
  BY <1>1 DEF RemoveRow, Rest
<1>3. /\ picture \in [PictureRows -> PictureRecords] /\ curator \in [Curators -> CuratorRecords]
      /\ disturbed \subseteq Files
  BY DEF MediaInv, MediaTypes
<1>4. i \in PictureRows /\ old.state = "live" /\ old \in PictureRecords
  BY <1>1, <1>2, <1>3 DEF LiveRows
<1>5. f \in Files /\ stored[f] # "unused"
  BY <1>1, <1>4, RecordsAre DEF MediaInv, RowsHaveFiles
<1>6. new \in PictureRecords /\ new.state = "deleted" /\ new.file = f /\ new.kind = old.kind
  BY <1>1, <1>4 DEF PictureRecords
<1>7. /\ picture' \in [PictureRows -> PictureRecords] /\ picture'[i] = new
      /\ \A j \in PictureRows \ {i} : picture'[j] = picture[j]
      /\ \A j \in PictureRows : picture'[j].file = picture[j].file
      /\ \A j \in PictureRows : picture[j].state # "unused" => picture'[j].state # "unused"
  BY <1>1, <1>2, <1>3, <1>4, <1>6
<1>8. /\ curator' \in [Curators -> CuratorRecords] /\ curator'[c].pc = "rest"
      /\ \A d \in Curators \ {c} : curator'[d] = curator[d]
  BY <1>2, <1>3, RecordsAre
<1>9. disturbed \subseteq disturbed' /\ disturbed' \subseteq Files
  BY <1>2, <1>3, <1>5
<1>10. /\ Uploading' = Uploading /\ Deleting' = Deleting \ {c} /\ Removing' = Removing \ {c}
       /\ Arriving' = Arriving /\ LiveRows' = LiveRows \ {i}
       /\ \A d \in Uploading \cup Deleting' : curator'[d] = curator[d]
  <2>1. /\ Uploading' = Uploading /\ Deleting' = Deleting \ {c} /\ Removing' = Removing \ {c}
        /\ \A d \in Uploading \cup Deleting' : curator'[d] = curator[d]
    BY <1>2, <1>8 DEF Uploading, Deleting, Removing
  <2>2. Arriving' = Arriving
    BY <1>2, <1>8 DEF Arriving
  <2>3. LiveRows' = LiveRows \ {i}
    BY <1>6, <1>7 DEF LiveRows
  <2> QED
    BY <2>1, <2>2, <2>3
<1>11. DeleteKnows(curator[c])
  BY <1>2 DEF MediaInv, DeletesKnow, Deleting
<1>12. /\ i \in seen /\ seen \subseteq PictureRows
       /\ seen = {i} => f \in disturbed \/ stored[f] = "deleted"
  BY <1>1, <1>2, <1>11 DEF DeleteKnows
<1>13. MediaTypes'
  BY <1>2, <1>7, <1>8, <1>9 DEF MediaInv, MediaTypes
<1>14. RowsHaveFiles'
  BY <1>2, <1>4, <1>5, <1>6, <1>7 DEF MediaInv, RowsHaveFiles
<1>15. UploadsApart'
  BY <1>2, <1>7, <1>10 DEF MediaInv, UploadsApart
<1>16. ReusesKnow'
  BY <1>7, <1>8 DEF MediaInv, ReusesKnow
<1>17. DeletesKnow'
  <2> SUFFICES ASSUME NEW d \in Deleting' PROVE DeleteKnows(curator[d])'
    BY DEF DeletesKnow
  <2>1. PICK r : r = curator[d] /\ r = curator'[d]
    BY <1>10
  <2>2. DeleteKnows(r)
    BY <2>1, <1>10 DEF MediaInv, DeletesKnow
  <2>3. DeleteKnows(r)'
    BY <2>2, <1>2, <1>7, <1>9, DeleteStays
  <2> QED
    BY <2>1, <2>3 DEF DeleteKnows
<1>18. GoneLeaving'
  <2> SUFFICES ASSUME NEW j \in LiveRows', picture'[j].file \notin disturbed',
                      stored'[picture'[j].file] # "stored"
               PROVE  \E d \in Removing' : curator'[d].picture = j /\ curator'[d].seen = {j}
    BY DEF GoneLeaving
  <2>1. /\ j \in LiveRows /\ j # i /\ j \in PictureRows /\ picture[j].file \notin disturbed
        /\ stored[picture[j].file] # "stored"
    BY <1>2, <1>7, <1>9, <1>10 DEF LiveRows
  <2>2. PICK d \in Removing : curator[d].picture = j /\ curator[d].seen = {j}
    BY <2>1 DEF MediaInv, GoneLeaving
  <2>3. d # c
    BY <2>1, <2>2, <1>1
  <2> QED
    BY <2>2, <2>3, <1>8, <1>10 DEF Removing
<1>19. StoredShown'
  <2> SUFFICES ASSUME NEW g \in Files, g \notin Arriving, g \notin disturbed', stored[g] = "stored"
               PROVE  \E j \in LiveRows \ {i} : picture'[j].file = g
    BY <1>2, <1>10 DEF StoredShown, RowsOf
  <2>1. PICK j \in LiveRows : picture[j].file = g
    BY <1>9 DEF MediaInv, StoredShown, RowsOf
  <2>2. CASE j # i
    BY <2>1, <2>2, <1>7 DEF LiveRows
  <2>3. CASE j = i
    <3>1. g = f /\ seen = Counted(i) /\ f \notin disturbed
      BY <2>1, <2>3, <1>1, <1>2, <1>9
    <3>2. seen # {i}
      BY <3>1, <1>12
    <3>3. seen = RowsOf(f)
      BY <3>1, <3>2, <1>1 DEF Counted
    <3>4. PICK k \in seen : k # i
      BY <3>2, <1>12
    <3>5. k \in LiveRows \ {i} /\ picture[k].file = f /\ k \in PictureRows
      BY <3>3, <3>4 DEF RowsOf, LiveRows
    <3> QED
      BY <3>1, <3>5, <1>7
  <2> QED
    BY <2>2, <2>3
<1> QED
  BY <1>13, <1>14, <1>15, <1>16, <1>17, <1>18, <1>19 DEF MediaInv

-----------------------------------------------------------------------------
LEMMA MediaStep == MediaInv /\ [MediaNext]_mediaVars => MediaInv'
<1> SUFFICES ASSUME MediaInv, [MediaNext]_mediaVars PROVE MediaInv'
  OBVIOUS
<1>1. CASE UNCHANGED mediaVars
  <2>1. UNCHANGED <<stored, picture, curator, disturbed>>
    BY <1>1 DEF mediaVars
  <2>2. LiveRows' = LiveRows /\ Uploading' = Uploading /\ Deleting' = Deleting
        /\ Removing' = Removing /\ Arriving' = Arriving
    BY <2>1 DEF LiveRows, Uploading, Deleting, Removing, Arriving
  <2>3. MediaTypes' /\ RowsHaveFiles' /\ UploadsApart' /\ ReusesKnow'
    BY <2>1, <2>2 DEF MediaInv, MediaTypes, RowsHaveFiles, UploadsApart, ReusesKnow
  <2>4. DeletesKnow'
    BY <2>1, <2>2 DEF MediaInv, DeletesKnow, DeleteKnows
  <2>5. GoneLeaving'
    BY <2>1, <2>2 DEF MediaInv, GoneLeaving
  <2>6. StoredShown'
    BY <2>1, <2>2 DEF MediaInv, StoredShown, RowsOf
  <2> QED
    BY <2>3, <2>4, <2>5, <2>6 DEF MediaInv
<1>2. ASSUME NEW c \in Curators,
             UploadImages(c) \/ \E whose \in Models \cup {General} : UploadAssets(c, whose)
      PROVE  MediaInv'
  BY <1>2, BeginUploadKeeps DEF UploadImages, UploadAssets
<1>3. ASSUME NEW c \in Curators, \E f \in Files : StoreFile(c, f)
      PROVE  MediaInv'
  BY <1>3, StoreFileKeeps
<1>4. ASSUME NEW c \in Curators, AddRows(c) \/ UploadFails(c)
      PROVE  MediaInv'
  BY <1>4, AddRowsKeeps, UploadFailsKeeps
<1>5. ASSUME NEW c \in Curators,
             (\E i \in PictureRows, m \in Models : BeginReuse(c, i, m)) \/ Reuse(c)
      PROVE  MediaInv'
  BY <1>5, BeginReuseKeeps, ReuseKeeps
<1>6. ASSUME \E m \in Models : ReleaseModel(m)
      PROVE  MediaInv'
  BY <1>6, ReleaseModelKeeps
<1>7. ASSUME NEW c \in Curators, \E i \in PictureRows : DeleteAsset(c, i) \/ DeleteImage(c, i)
      PROVE  MediaInv'
  BY <1>7, BeginDeleteKeeps DEF DeleteAsset, DeleteImage, Assets
<1>8. ASSUME NEW c \in Curators, \E done \in BOOLEAN : DestroyFile(c, done)
      PROVE  MediaInv'
  BY <1>8, DestroyFileKeeps
<1>9. ASSUME NEW c \in Curators, RemoveRow(c) \/ DeleteFails(c)
      PROVE  MediaInv'
  BY <1>9, RemoveRowKeeps, DeleteFailsKeeps
<1> QED
  BY <1>1, <1>2, <1>3, <1>4, <1>5, <1>6, <1>7, <1>8, <1>9 DEF MediaNext

LEMMA MediaInvariant == MediaSpec => []FilesAccounted
<1>1. MediaInv => FilesAccounted
  BY DEF MediaInv, GoneLeaving, StoredShown, FilesAccounted, Leaving, Removing
<1> QED
  BY <1>1, MediaBegins, MediaStep, PTL DEF MediaSpec

-----------------------------------------------------------------------------
(* A flag.  Every value under way or cached is one that the flag had, and   *)
(* no entry outlives its value by more than the time it is kept and that of *)
(* the slowest query.                                                       *)

FlagTypes ==
    /\ flagNow \in 0..MaxFlagTime
    /\ flagRow \in BOOLEAN \cup {NoFlagRow}
    /\ flagCache \in [Adapters \cup {AdminAdapter} -> [value : BOOLEAN, expiresAt : Int]]
    /\ reader \in [Readers -> [pc : {"idle", "reading", "answered"}, value : BOOLEAN,
                               adapter : Adapters \cup {AdminAdapter}, since : 0..MaxFlagTime]]
    /\ DOMAIN flagPast = 0..MaxFlagTime

\* The row's value is one of this moment, and what a reader has seen is one of
\* the moment it asked, which is not long ago.
RowSeen == ValueOf(flagRow) \in flagPast[flagNow]
ReaderSeen(r) ==
    /\ r.since <= flagNow
    /\ r.pc = "reading" => /\ r.adapter \in Adapters
                           /\ r.value \in flagPast[r.since]
                           /\ flagNow <= r.since + SlowestQuery
    /\ r.pc = "answered" => \E t \in 0..r.since :
           t + FlagTTL + SlowestQuery > r.since /\ r.value \in flagPast[t]
EntrySeen(e) ==
    e.expiresAt > flagNow => \E t \in 0..flagNow :
        e.expiresAt <= t + FlagTTL + SlowestQuery /\ e.value \in flagPast[t]

FlagInv ==
    /\ FlagTypes /\ RowSeen
    /\ \A r \in Readers : ReaderSeen(reader[r])
    /\ \A a \in Adapters : EntrySeen(flagCache[a])

LEMMA FlagBegins == FlagInit => FlagInv
<1> SUFFICES ASSUME FlagInit PROVE FlagInv
  OBVIOUS
<1>1. FlagTypes /\ RowSeen
  BY FlagAssumption DEF FlagInit, FlagTypes, RowSeen, ValueOf, NoReader
<1>2. \A r \in Readers : ReaderSeen(reader[r])
  BY DEF FlagInit, ReaderSeen, NoReader
<1>3. \A a \in Adapters : EntrySeen(flagCache[a])
  BY DEF FlagInit, EntrySeen
<1> QED
  BY <1>1, <1>2, <1>3 DEF FlagInv

LEMMA FlagTickKeeps ==
    ASSUME FlagInv, FlagTick PROVE FlagInv'
<1> USE FlagAssumption
<1>1. /\ flagNow \in 0..MaxFlagTime /\ flagNow' = flagNow + 1
      /\ flagNow' \in 0..MaxFlagTime
  BY DEF FlagInv, FlagTypes, FlagTick
<1>2. /\ DOMAIN flagPast' = 0..MaxFlagTime
      /\ \A t \in 0..flagNow : flagPast'[t] = flagPast[t]
      /\ flagPast'[flagNow'] = {ValueOf(flagRow)}
  BY <1>1 DEF FlagInv, FlagTypes, FlagTick
<1>3. UNCHANGED <<flagRow, flagCache, reader>>
  BY DEF FlagTick
<1>4. FlagTypes' /\ RowSeen'
  BY <1>1, <1>2, <1>3 DEF FlagInv, FlagTypes, RowSeen, ValueOf
<1>5. ASSUME NEW r \in Readers PROVE ReaderSeen(reader[r])'
  <2>1. PICK e : e = reader[r]
    OBVIOUS
  <2>2. /\ e.since \in 0..MaxFlagTime /\ ReaderSeen(e)
        /\ e.pc = "reading" => flagNow - e.since < SlowestQuery
    BY <2>1 DEF FlagInv, FlagTypes, FlagTick
  <2>3. e.since <= flagNow' /\ e.since \in 0..flagNow
    BY <1>1, <2>2 DEF ReaderSeen
  <2>4. \A t \in 0..e.since : flagPast'[t] = flagPast[t]
    BY <1>1, <1>2, <2>3
  <2>5. e.pc = "reading" => /\ e.adapter \in Adapters
                            /\ e.value \in flagPast'[e.since]
                            /\ flagNow' <= e.since + SlowestQuery
    BY <1>1, <2>2, <2>3, <2>4 DEF ReaderSeen
  <2>6. e.pc = "answered" => \E t \in 0..e.since :
            t + FlagTTL + SlowestQuery > e.since /\ e.value \in flagPast'[t]
    BY <2>2, <2>4 DEF ReaderSeen
  <2> QED
    BY <1>3, <2>1, <2>3, <2>5, <2>6 DEF ReaderSeen
<1>6. ASSUME NEW a \in Adapters PROVE EntrySeen(flagCache[a])'
  <2>1. PICK e : e = flagCache[a]
    OBVIOUS
  <2>2. e.expiresAt \in Int /\ EntrySeen(e)
    BY <2>1 DEF FlagInv, FlagTypes
  <2>3. e.expiresAt > flagNow' => \E t \in 0..flagNow' :
            e.expiresAt <= t + FlagTTL + SlowestQuery /\ e.value \in flagPast'[t]
    <3> SUFFICES ASSUME e.expiresAt > flagNow'
                 PROVE  \E t \in 0..flagNow' :
            e.expiresAt <= t + FlagTTL + SlowestQuery /\ e.value \in flagPast'[t]
      OBVIOUS
    <3>1. PICK t \in 0..flagNow : e.expiresAt <= t + FlagTTL + SlowestQuery /\ e.value \in flagPast[t]
      BY <1>1, <2>2 DEF EntrySeen
    <3> QED
      BY <1>1, <1>2, <3>1
  <2> QED
    BY <1>3, <2>1, <2>3 DEF EntrySeen
<1> QED
  BY <1>4, <1>5, <1>6 DEF FlagInv

\* An answer from the cache, and a query that is sent.
LEMMA ReadKeeps ==
    ASSUME FlagInv, NEW r \in Readers, NEW a \in Adapters, ReadCached(r, a) \/ ReadRow(r, a)
    PROVE  FlagInv'
<1> USE FlagAssumption
<1>1. UNCHANGED <<flagNow, flagRow, flagCache, flagPast>>
  BY DEF ReadCached, ReadRow
<1>2. PICK c : c = flagCache[a]
  OBVIOUS
<1>3. c.value \in BOOLEAN /\ c.expiresAt \in Int /\ EntrySeen(c)
  BY <1>2 DEF FlagInv, FlagTypes
<1>4. flagNow \in 0..MaxFlagTime /\ ValueOf(flagRow) \in BOOLEAN
      /\ ValueOf(flagRow) \in flagPast[flagNow]
  BY DEF FlagInv, FlagTypes, RowSeen, ValueOf
<1> DEFINE new == [pc |-> IF c.expiresAt > flagNow THEN "answered" ELSE "reading",
                   adapter |-> a,
                   value |-> IF c.expiresAt > flagNow THEN c.value ELSE ValueOf(flagRow),
                   since |-> flagNow]
<1>5. reader' = [reader EXCEPT ![r] = new]
  BY <1>2, <1>3 DEF ReadCached, ReadRow, Fresh
<1>6. /\ new \in [pc : {"idle", "reading", "answered"}, value : BOOLEAN,
                  adapter : Adapters \cup {AdminAdapter}, since : 0..MaxFlagTime]
      /\ new.pc = IF c.expiresAt > flagNow THEN "answered" ELSE "reading"
      /\ new.adapter = a /\ new.since = flagNow
      /\ new.value = IF c.expiresAt > flagNow THEN c.value ELSE ValueOf(flagRow)
  BY <1>3, <1>4
<1> HIDE DEF new
<1>7. ReaderSeen(new)
  <2>1. new.pc = "reading" => flagNow <= new.since + SlowestQuery
    BY <1>4, <1>6
  <2>2. new.pc = "answered" => \E t \in 0..new.since :
           t + FlagTTL + SlowestQuery > new.since /\ new.value \in flagPast[t]
    <3> SUFFICES ASSUME c.expiresAt > flagNow
                 PROVE  \E t \in 0..flagNow :
                           t + FlagTTL + SlowestQuery > flagNow /\ c.value \in flagPast[t]
      BY <1>6
    <3>1. PICK t \in 0..flagNow : c.expiresAt <= t + FlagTTL + SlowestQuery /\ c.value \in flagPast[t]
      BY <1>3 DEF EntrySeen
    <3> QED
      BY <1>3, <1>4, <3>1
  <2>3. new.since <= flagNow
    BY <1>4, <1>6
  <2> QED
    BY <1>4, <1>6, <2>1, <2>2, <2>3 DEF ReaderSeen
<1>8. FlagTypes'
  BY <1>1, <1>5, <1>6 DEF FlagInv, FlagTypes
<1>9. \A q \in Readers : reader'[q] = reader[q] \/ reader'[q] = new
  BY <1>5 DEF FlagInv, FlagTypes
<1>10. \A q \in Readers : ReaderSeen(reader'[q])
  BY <1>7, <1>9 DEF FlagInv
<1>11. \A q \in Readers : ReaderSeen(reader[q])'
  BY <1>1, <1>10 DEF ReaderSeen
<1> QED
  BY <1>1, <1>8, <1>11 DEF FlagInv, RowSeen, EntrySeen, ValueOf

\* The entry that a query's answer makes.
LEMMA CacheRowKeeps ==
    ASSUME FlagInv, NEW r \in Readers, CacheRow(r)
    PROVE  FlagInv'
<1> USE FlagAssumption
<1>1. PICK old, new : old = reader[r] /\ new = [old EXCEPT !.pc = "answered"]
  OBVIOUS
<1>2. UNCHANGED <<flagNow, flagRow, flagPast>>
  BY DEF CacheRow
<1>3. /\ old \in [pc : {"idle", "reading", "answered"}, value : BOOLEAN,
                  adapter : Adapters \cup {AdminAdapter}, since : 0..MaxFlagTime]
      /\ old.pc = "reading" /\ ReaderSeen(old)
  BY <1>1 DEF FlagInv, FlagTypes, CacheRow
<1>4. /\ new \in [pc : {"idle", "reading", "answered"}, value : BOOLEAN,
                  adapter : Adapters \cup {AdminAdapter}, since : 0..MaxFlagTime]
      /\ new.pc = "answered" /\ new.value = old.value /\ new.since = old.since
  BY <1>1, <1>3
<1>5. /\ flagNow \in 0..MaxFlagTime /\ old.since \in 0..flagNow
      /\ old.adapter \in Adapters /\ old.value \in flagPast[old.since]
      /\ flagNow <= old.since + SlowestQuery
  BY <1>3 DEF FlagInv, FlagTypes, ReaderSeen
<1>6. ReaderSeen(new)
  <2>1. old.since + FlagTTL + SlowestQuery > old.since /\ old.since \in 0..old.since
    BY <1>5
  <2> QED
    BY <1>4, <1>5, <2>1 DEF ReaderSeen
<1>7. PICK e : e = Entry(old.value)
  OBVIOUS
<1>8. /\ e \in [value : BOOLEAN, expiresAt : Int]
      /\ e.value = old.value /\ e.expiresAt = flagNow + FlagTTL
  BY <1>3, <1>5, <1>7 DEF Entry
<1>9. EntrySeen(e)
  <2>1. e.expiresAt <= old.since + FlagTTL + SlowestQuery
    BY <1>5, <1>8
  <2> QED
    BY <1>5, <1>8, <2>1 DEF EntrySeen
<1>10. /\ reader' = [reader EXCEPT ![r] = new]
       /\ flagCache' = [flagCache EXCEPT ![old.adapter] = e]
  BY <1>1, <1>7 DEF CacheRow
<1>11. FlagTypes'
  BY <1>2, <1>4, <1>8, <1>10 DEF FlagInv, FlagTypes
<1>12. /\ \A q \in Readers : reader'[q] = reader[q] \/ reader'[q] = new
       /\ \A a \in Adapters : flagCache'[a] = flagCache[a] \/ flagCache'[a] = e
  BY <1>10 DEF FlagInv, FlagTypes
<1>13. /\ \A q \in Readers : ReaderSeen(reader'[q])
       /\ \A a \in Adapters : EntrySeen(flagCache'[a])
  BY <1>6, <1>9, <1>12 DEF FlagInv
<1>14. /\ \A q \in Readers : ReaderSeen(reader[q])'
       /\ \A a \in Adapters : EntrySeen(flagCache[a])'
  BY <1>2, <1>13 DEF ReaderSeen, EntrySeen
<1> QED
  BY <1>2, <1>11, <1>14 DEF FlagInv, RowSeen, ValueOf

\* A change adds to what the flag was; its entry is in a cache nobody reads.
LEMMA ChangeKeeps ==
    ASSUME FlagInv,
           NEW u \in Admins, CacheWritten(u) \/ \E value \in BOOLEAN : WriteFlagRow(u, value),
           admin[u].pc = "writing" => admin[u].value \in BOOLEAN
    PROVE  FlagInv'
<1> USE FlagAssumption
<1>1. UNCHANGED <<flagNow, reader>>
  BY DEF CacheWritten, WriteFlagRow
<1>2. flagNow \in 0..MaxFlagTime /\ DOMAIN flagPast = 0..MaxFlagTime
  BY DEF FlagInv, FlagTypes
<1>3. CASE CacheWritten(u)
  <2>1. UNCHANGED <<flagRow, flagPast>>
    BY <1>3 DEF CacheWritten
  <2>2. PICK e : e = Entry(admin[u].value)
    OBVIOUS
  <2>3. e \in [value : BOOLEAN, expiresAt : Int]
        /\ flagCache' = [flagCache EXCEPT ![AdminAdapter] = e]
    BY <1>2, <1>3, <2>2 DEF CacheWritten, Entry
  <2>4. /\ FlagTypes'
        /\ \A a \in Adapters : flagCache'[a] = flagCache[a]
    BY <1>1, <2>1, <2>3 DEF FlagInv, FlagTypes
  <2> QED
    BY <1>1, <2>1, <2>4 DEF FlagInv, RowSeen, ValueOf, ReaderSeen, EntrySeen
<1>4. ASSUME NEW value \in BOOLEAN, WriteFlagRow(u, value)
      PROVE  FlagInv'
  <2>1. flagCache' = flagCache /\ flagRow' = value
    BY <1>4 DEF WriteFlagRow
  <2>2. /\ DOMAIN flagPast' = 0..MaxFlagTime
        /\ \A t \in 0..MaxFlagTime : flagPast[t] \subseteq flagPast'[t]
        /\ value \in flagPast'[flagNow]
    BY <1>2, <1>4 DEF WriteFlagRow
  <2>3. FlagTypes' /\ RowSeen'
    BY <1>1, <2>1, <2>2 DEF FlagInv, FlagTypes, RowSeen, ValueOf
  <2>4. ASSUME NEW r \in Readers PROVE ReaderSeen(reader[r])'
    <3>1. PICK e : e = reader[r]
      OBVIOUS
    <3>2. e.since \in 0..MaxFlagTime /\ ReaderSeen(e)
      BY <3>1 DEF FlagInv, FlagTypes
    <3>3. \A t \in 0..e.since : flagPast[t] \subseteq flagPast'[t]
      BY <1>2, <2>2, <3>2
    <3>4. e.pc = "reading" => e.value \in flagPast'[e.since]
      BY <3>2, <2>2 DEF ReaderSeen
    <3>5. e.pc = "answered" => \E t \in 0..e.since :
            t + FlagTTL + SlowestQuery > e.since /\ e.value \in flagPast'[t]
      BY <3>2, <3>3 DEF ReaderSeen
    <3> QED
      BY <1>1, <3>1, <3>2, <3>4, <3>5 DEF ReaderSeen
  <2>5. ASSUME NEW a \in Adapters PROVE EntrySeen(flagCache[a])'
    <3>1. \A t \in 0..flagNow : flagPast[t] \subseteq flagPast'[t]
      BY <1>2, <2>2
    <3> QED
      BY <1>1, <2>1, <3>1 DEF FlagInv, EntrySeen
  <2> QED
    BY <2>3, <2>4, <2>5 DEF FlagInv
<1> QED
  BY <1>3, <1>4

\* What staff write is TRUE or FALSE.
AdminWrites == /\ DOMAIN admin = Admins
               /\ \A u \in Admins : admin[u].pc = "writing" => admin[u].value \in BOOLEAN

LEMMA AdminStep ==
    ASSUME AdminWrites, [FlagNext]_flagVars PROVE AdminWrites'
<1>1. CASE admin' = admin
  BY <1>1 DEF AdminWrites
<1>2. ASSUME NEW u \in Admins, CacheWritten(u) \/ \E value \in BOOLEAN : WriteFlagRow(u, value)
      PROVE  AdminWrites'
  BY <1>2 DEF AdminWrites, CacheWritten, WriteFlagRow, NoAdmin
<1> QED
  BY <1>1, <1>2 DEF FlagNext, FlagTick, CacheRow, ReadCached, ReadRow, flagVars

LEMMA FlagStep == FlagInv /\ AdminWrites /\ [FlagNext]_flagVars => FlagInv'
<1> SUFFICES ASSUME FlagInv, AdminWrites, [FlagNext]_flagVars PROVE FlagInv'
  OBVIOUS
<1>1. CASE FlagTick
  BY <1>1, FlagTickKeeps
<1>2. ASSUME NEW r \in Readers, CacheRow(r) \/ \E a \in Adapters : ReadCached(r, a) \/ ReadRow(r, a)
      PROVE  FlagInv'
  BY <1>2, CacheRowKeeps, ReadKeeps
<1>3. ASSUME NEW u \in Admins, CacheWritten(u) \/ \E value \in BOOLEAN : WriteFlagRow(u, value)
      PROVE  FlagInv'
  BY <1>3, ChangeKeeps DEF AdminWrites
<1>4. CASE UNCHANGED flagVars
  <2>1. UNCHANGED <<flagNow, flagRow, flagCache, reader, flagPast>>
    BY <1>4 DEF flagVars
  <2> QED
    BY <2>1 DEF FlagInv, FlagTypes, RowSeen, ReaderSeen, EntrySeen, ValueOf
<1> QED
  BY <1>1, <1>2, <1>3, <1>4 DEF FlagNext

LEMMA FlagInvariant == FlagSpec => []AnswersFresh
<1>1. FlagInv => AnswersFresh
  BY DEF FlagInv, AnswersFresh, ReaderSeen
<1>2. FlagInit => AdminWrites
  BY DEF FlagInit, AdminWrites, NoAdmin
<1> QED
  BY <1>1, <1>2, FlagBegins, FlagStep, AdminStep, PTL DEF FlagSpec

-----------------------------------------------------------------------------
(* The figures.  The view tells the revenue of every day that was not       *)
(* written since; what the alert job has counted is what there is while     *)
(* nothing happened since; and a sale that names an order marks it.         *)

FigureTypes ==
    /\ hour \in Hours
    /\ DOMAIN web = WebOrders /\ DOMAIN slip = SlipRows /\ DOMAIN view = AllDays
    /\ DOMAIN since = {"unseen", "calm", "judged"}
    /\ \A o \in WebOrders : DOMAIN web[o] = DOMAIN NoWeb

\* An order is paid from when it became so, and has a date once it is there.
OrderDated(line) ==
    /\ line = NoWeb \/ line.made \in Hours
    /\ line.paidAt \in Hours \cup {Never}
    /\ line.reallyPaid \in Hours \cup {Never}
    /\ line.status = "PAID" <=> line.reallyPaid # Never

ViewSeen == \A d \in AllDays \ since.unseen : view[d].online = TrueRevenue(d)

\* What a look at the orders finds.
Found == {c \in Codes : \/ c = "ONLINE_PAID_ORDERS_DROP" /\ PaidDrop(hour)
                        \/ c = "EXPIRED_ORDERS_SPIKE" /\ ExpiredSpike(hour)}
FoundInView == {c \in Codes : c = "ONLINE_REVENUE_DROP" /\ RevenueDrops(DayOf(hour))}

TickSeen == since.calm /\ evaluator.pc = "counted" => evaluator.alarms = Found
AlarmsSeen == since.judged /\ since.calm => alarms = Found \cup FoundInView

SlipsMarked ==
    \A s \in SlipRows : slip[s].order = Nobody \/ (slip[s].order \in WebOrders
                                                   /\ web[slip[s].order].again)

FigureInv ==
    /\ FigureTypes
    /\ \A o \in WebOrders : OrderDated(web[o])
    /\ ViewSeen /\ TickSeen /\ AlarmsSeen /\ SlipsMarked

LEMMA FiguresBegin == FiguresInit => FigureInv
<1> SUFFICES ASSUME FiguresInit PROVE FigureInv
  OBVIOUS
<1>1. FigureTypes
  BY FiguresAssumption DEF FiguresInit, FigureTypes, DailySales, Hours
<1>2. \A o \in WebOrders : OrderDated(web[o])
  BY DEF FiguresInit, OrderDated, NoWeb, Never, Hours
<1>3. ViewSeen
  BY DEF FiguresInit, ViewSeen, DailySales, TrueRevenue
<1>4. TickSeen /\ AlarmsSeen
  BY DEF FiguresInit, TickSeen, AlarmsSeen, NoTick
<1>5. SlipsMarked
  BY DEF FiguresInit, SlipsMarked, NoSlip
<1> QED
  BY <1>1, <1>2, <1>3, <1>4, <1>5 DEF FigureInv

-----------------------------------------------------------------------------
\* An order that is written: of the days only the one it is of may be another.
LEMMA RewriteKeeps ==
    ASSUME FigureInv, NEW o \in WebOrders, NEW line, NEW days,
           Rewrite(o, line, days),
           DOMAIN line = DOMAIN NoWeb, OrderDated(line),
           web[o].again => line.again,
           line = web[o] \/ \A t \in Hours : (web[o].status = "PAID" /\ web[o].made = t)
                                              # (line.status = "PAID" /\ line.made = t)
                                            => DayOf(t) \in days,
           \/ slip' = slip
           \/ line.again /\ \E s \in SlipRows : slip' = [slip EXCEPT
                                ![s] = [kind |-> "CASH", made |-> hour, order |-> o]]
    PROVE  FigureInv'
<1>1. /\ web' = [web EXCEPT ![o] = line] /\ hour' = hour /\ view' = view
      /\ since' = [unseen |-> since.unseen \cup days, calm |-> FALSE, judged |-> FALSE]
  BY DEF Rewrite, Stirred
<1>2. /\ DOMAIN web = WebOrders /\ DOMAIN slip = SlipRows /\ DOMAIN view = AllDays
      /\ hour \in Hours
      /\ \A p \in WebOrders : DOMAIN web[p] = DOMAIN NoWeb
  BY DEF FigureInv, FigureTypes
<1>3. /\ web'[o] = line /\ DOMAIN web' = WebOrders
      /\ \A p \in WebOrders : p # o => web'[p] = web[p]
  BY <1>1, <1>2
<1>4. DOMAIN slip' = SlipRows
  BY <1>2
<1>5. FigureTypes'
  BY <1>1, <1>2, <1>3, <1>4 DEF FigureTypes
<1>6. \A p \in WebOrders : OrderDated(web'[p])
  BY <1>3 DEF FigureInv
<1>7. ViewSeen'
  <2> SUFFICES ASSUME NEW d \in AllDays, d \notin since'.unseen
               PROVE  view'[d].online = TrueRevenue(d)'
    BY DEF ViewSeen
  <2>1. d \notin days /\ d \notin since.unseen
    BY <1>1
  <2>2. view[d].online = TrueRevenue(d)
    BY <2>1 DEF FigureInv, ViewSeen
  <2>3. {p \in WebOrders : web'[p].status = "PAID" /\ web'[p].made \in InDay(d)}
          = {p \in WebOrders : web[p].status = "PAID" /\ web[p].made \in InDay(d)}
    <3>1. (line.status = "PAID" /\ line.made \in InDay(d))
            <=> (web[o].status = "PAID" /\ web[o].made \in InDay(d))
      BY <2>1 DEF InDay
    <3> QED
      BY <1>3, <3>1
  <2> QED
    BY <1>1, <2>2, <2>3 DEF TrueRevenue, PaidIn
<1>8. TickSeen' /\ AlarmsSeen'
  BY <1>1 DEF TickSeen, AlarmsSeen
<1>9. SlipsMarked'
  <2>1. \A s \in SlipRows : slip[s].order = Nobody \/
             (slip[s].order \in WebOrders /\ web'[slip[s].order].again)
    BY <1>3 DEF FigureInv, SlipsMarked
  <2>2. CASE slip' = slip
    BY <2>1, <2>2 DEF SlipsMarked
  <2>3. ASSUME line.again,
               NEW s \in SlipRows, slip' = [slip EXCEPT
                                ![s] = [kind |-> "CASH", made |-> hour, order |-> o]]
        PROVE  SlipsMarked'
    <3>1. slip'[s].order = o /\ \A r \in SlipRows : r # s => slip'[r] = slip[r]
      BY <1>2, <2>3
    <3> QED
      BY <1>3, <2>1, <2>3, <3>1 DEF SlipsMarked
  <2> QED
    BY <2>2, <2>3
<1> QED
  BY <1>5, <1>6, <1>7, <1>8, <1>9 DEF FigureInv

\* The five ways an order is written.
LEMMA OrderKeeps ==
    ASSUME FigureInv, NEW o \in WebOrders,
           \/ PlaceOrder(o) \/ OrderPaid(o) \/ CancelOrder(o) \/ ExpireOrder(o)
           \/ StaffMarkPaid(o)
    PROVE  FigureInv'
<1>1. PICK old : old = web[o]
  OBVIOUS
<1>2. /\ DOMAIN old = DOMAIN NoWeb /\ OrderDated(old) /\ hour \in Hours
  BY <1>1 DEF FigureInv, FigureTypes
<1>3. CASE PlaceOrder(o)
  <2> DEFINE line == [NoWeb EXCEPT !.status = "PENDING_PAYMENT", !.made = hour]
  <2>1. /\ DOMAIN line = DOMAIN NoWeb /\ OrderDated(line)
        /\ line.status # "PAID" /\ old.status # "PAID" /\ ~old.again
    BY <1>1, <1>2, <1>3 DEF OrderDated, NoWeb, Never, Hours, PlaceOrder
  <2>2. Rewrite(o, line, {}) /\ slip' = slip
    BY <1>3 DEF PlaceOrder
  <2> HIDE DEF line
  <2> QED
    BY <1>1, <2>1, <2>2, RewriteKeeps
<1>4. CASE ExpireOrder(o)
  <2> DEFINE line == [old EXCEPT !.status = "EXPIRED", !.expiredAt = hour]
  <2>1. /\ DOMAIN line = DOMAIN NoWeb /\ OrderDated(line) /\ line.again = old.again
        /\ line.status # "PAID" /\ old.status # "PAID"
    BY <1>1, <1>2, <1>4 DEF OrderDated, NoWeb, Never, Hours, ExpireOrder
  <2>2. Rewrite(o, line, {}) /\ slip' = slip
    BY <1>1, <1>4 DEF ExpireOrder
  <2> HIDE DEF line
  <2> QED
    BY <1>1, <2>1, <2>2, RewriteKeeps
<1>7. CASE CancelOrder(o)
  <2> DEFINE line == [old EXCEPT !.status = "CANCELLED", !.reallyPaid = Never]
             days == IF old.status = "PAID" THEN {DayOf(old.made)} ELSE {}
  <2>1. /\ DOMAIN line = DOMAIN NoWeb /\ line.again = old.again /\ line.made = old.made
        /\ line.status = "CANCELLED" /\ line.paidAt = old.paidAt /\ line.reallyPaid = Never
    BY <1>2 DEF NoWeb
  <2>2. OrderDated(line)
    BY <1>1, <1>2, <1>7, <2>1 DEF OrderDated, CancelOrder, Hours, Never
  <2>3. Rewrite(o, line, days) /\ slip' = slip
    BY <1>1, <1>7 DEF CancelOrder
  <2>4. old.status = "PAID" => days = {DayOf(old.made)}
    OBVIOUS
  <2> HIDE DEF line, days
  <2> QED
    BY <1>1, <2>1, <2>2, <2>3, <2>4, RewriteKeeps
<1>5. CASE OrderPaid(o)
  <2> DEFINE line == [old EXCEPT !.status = "PAID", !.paidAt = hour,
                    !.reallyPaid = IF old.status = "PAID" THEN @ ELSE hour]
  <2>1. /\ DOMAIN line = DOMAIN NoWeb /\ line.again = old.again /\ line.made = old.made
        /\ line.status = "PAID" /\ line.paidAt = hour
        /\ line.reallyPaid = IF old.status = "PAID" THEN old.reallyPaid ELSE hour
    BY <1>2 DEF NoWeb
  <2>2. OrderDated(line)
    BY <1>1, <1>2, <1>5, <2>1 DEF OrderDated, OrderPaid, Hours, Never
  <2>3. Rewrite(o, line, {DayOf(old.made)}) /\ slip' = slip
    BY <1>1, <1>5 DEF OrderPaid
  <2> HIDE DEF line
  <2> QED
    BY <1>1, <2>1, <2>2, <2>3, RewriteKeeps
<1>6. CASE StaffMarkPaid(o)
  <2> DEFINE line == [old EXCEPT !.status = "PAID",
                    !.reallyPaid = IF old.status = "PAID" THEN @ ELSE hour]
             marked == [line EXCEPT !.again = TRUE]
  <2>1. /\ DOMAIN line = DOMAIN NoWeb /\ line.again = old.again /\ line.made = old.made
        /\ line.status = "PAID" /\ line.paidAt = old.paidAt
        /\ line.reallyPaid = IF old.status = "PAID" THEN old.reallyPaid ELSE hour
    BY <1>2 DEF NoWeb
  <2>2. OrderDated(line)
    BY <1>1, <1>2, <1>6, <2>1 DEF OrderDated, StaffMarkPaid, Hours, Never
  <2>3. /\ DOMAIN marked = DOMAIN NoWeb /\ marked.again = TRUE /\ marked.made = old.made
        /\ marked.status = "PAID" /\ OrderDated(marked)
    BY <2>1, <2>2 DEF OrderDated, NoWeb
  <2>4. line.made = old.made /\ marked.made = old.made
    BY <2>1, <2>3
  <2>5. \/ Rewrite(o, line, {DayOf(old.made)}) /\ slip' = slip
        \/ /\ \E s \in SlipRows : slip' = [slip EXCEPT
                            ![s] = [kind |-> "CASH", made |-> hour, order |-> o]]
           /\ Rewrite(o, marked, {DayOf(old.made)})
    BY <1>1, <1>6, <2>4 DEF StaffMarkPaid
  <2> HIDE DEF line, marked
  <2>6. CASE Rewrite(o, line, {DayOf(old.made)}) /\ slip' = slip
    BY <1>1, <2>1, <2>2, <2>6, RewriteKeeps
  <2>7. CASE /\ \E s \in SlipRows : slip' = [slip EXCEPT
                            ![s] = [kind |-> "CASH", made |-> hour, order |-> o]]
             /\ Rewrite(o, marked, {DayOf(old.made)})
    BY <1>1, <2>3, <2>7, RewriteKeeps
  <2> QED
    BY <2>5, <2>6, <2>7
<1> QED
  BY <1>3, <1>4, <1>5, <1>6, <1>7

\* A sale or a payment: nothing that is of orders changes.
LEMMA SlipKeeps ==
    ASSUME FigureInv, NEW s \in SlipRows,
           \/ \E kind \in {"CASH", "CREDIT", "PAYMENT"}, t \in Hours : WriteSlip(s, kind, t)
           \/ DeleteSlip(s)
    PROVE  FigureInv'
<1>1. UNCHANGED <<hour, web, view, evaluator, alarms, since>>
  BY DEF WriteSlip, DeleteSlip
<1>2. /\ DOMAIN slip' = SlipRows /\ slip'[s].order = Nobody
      /\ \A r \in SlipRows : r # s => slip'[r] = slip[r]
  BY DEF WriteSlip, DeleteSlip, NoSlip, FigureInv, FigureTypes
<1>3. SlipsMarked'
  BY <1>1, <1>2 DEF FigureInv, SlipsMarked
<1>4. FigureTypes' /\ ViewSeen'
  BY <1>1, <1>2 DEF FigureInv, FigureTypes, ViewSeen, TrueRevenue, PaidIn
<1>5. Found' = Found /\ FoundInView' = FoundInView
  BY <1>1 DEF Found, FoundInView, PaidDrop, ExpiredSpike, PaidDated, ExpiredIn, Dated,
              RevenueDrops, Revenue
<1>6. TickSeen' /\ AlarmsSeen'
  BY <1>1, <1>5 DEF FigureInv, TickSeen, AlarmsSeen
<1> QED
  BY <1>1, <1>3, <1>4, <1>6 DEF FigureInv

\* The jobs and the clock: no row changes.
LEMMA JobKeeps ==
    ASSUME FigureInv,
           \/ PassHour \/ RefreshTick \/ RefreshDailySales \/ RefreshFails
           \/ LoadSnapshot \/ RaiseAlarms \/ EvaluationFails
    PROVE  FigureInv'
<1>1. UNCHANGED <<web, slip>>
  BY DEF PassHour, RefreshTick, RefreshDailySales, RefreshFails, LoadSnapshot, RaiseAlarms,
         EvaluationFails
<1> DEFINE hourOk == hour' \in Hours
           daysOk == DOMAIN view' = AllDays /\ (~RefreshDailySales => view' = view)
           sinceOk == /\ DOMAIN since' = {"unseen", "calm", "judged"}
                      /\ ~RefreshDailySales => since.unseen \subseteq since'.unseen
<1>11. /\ hour \in Hours /\ DOMAIN view = AllDays
      /\ DOMAIN since = {"unseen", "calm", "judged"}
  BY DEF FigureInv, FigureTypes
<1>12. ASSUME PassHour
      PROVE  hourOk /\ daysOk /\ sinceOk
  <2>1. hourOk /\ daysOk
    BY <1>11, <1>12, FiguresAssumption DEF PassHour, Hours
  <2>2. sinceOk
    BY <1>11, <1>12 DEF PassHour, Stirred
  <2> QED
    BY <2>1, <2>2
<1>13. ASSUME RefreshTick \/ RefreshFails
      PROVE  hourOk /\ daysOk /\ sinceOk
  BY <1>11, <1>13 DEF RefreshTick, RefreshFails
<1>14. ASSUME RefreshDailySales
      PROVE  hourOk /\ daysOk /\ sinceOk
  BY <1>11, <1>14 DEF RefreshDailySales, DailySales
<1>15. ASSUME LoadSnapshot
      PROVE  hourOk /\ daysOk /\ sinceOk
  BY <1>11, <1>15 DEF LoadSnapshot
<1>16. ASSUME RaiseAlarms
      PROVE  hourOk /\ daysOk /\ sinceOk
  BY <1>11, <1>16 DEF RaiseAlarms
<1>17. ASSUME EvaluationFails
      PROVE  hourOk /\ daysOk /\ sinceOk
  BY <1>11, <1>17 DEF EvaluationFails
<1>2. hourOk /\ daysOk /\ sinceOk
  BY <1>12, <1>13, <1>14, <1>15, <1>16, <1>17
<1>3. FigureTypes' /\ SlipsMarked'
  BY <1>1, <1>2 DEF FigureInv, FigureTypes, SlipsMarked
<1>4. ViewSeen'
  <2>1. \A d \in AllDays : TrueRevenue(d)' = TrueRevenue(d)
    BY <1>1 DEF TrueRevenue, PaidIn
  <2>2. CASE RefreshDailySales
    <3>1. \A d \in AllDays : view'[d].online = TrueRevenue(d)
      BY <2>2 DEF RefreshDailySales, DailySales, TrueRevenue
    <3> QED
      BY <2>1, <3>1 DEF ViewSeen
  <2>3. CASE ~RefreshDailySales
    <3>1. view' = view /\ since.unseen \subseteq since'.unseen
      BY <1>2, <2>3
    <3> QED
      BY <2>1, <3>1 DEF FigureInv, ViewSeen
  <2> QED
    BY <2>2, <2>3
<1>5. hour' = hour => Found' = Found
  BY <1>1 DEF Found, PaidDrop, ExpiredSpike, PaidDated, ExpiredIn, Dated
<1>6. hour' = hour /\ view' = view => FoundInView' = FoundInView
  BY DEF FoundInView, RevenueDrops, Revenue
<1>7. TickSeen' /\ AlarmsSeen'
  <2> USE DEF FigureInv, FigureTypes
  <2>1. CASE PassHour
    BY <2>1 DEF PassHour, Stirred, TickSeen, AlarmsSeen
  <2>2. CASE RefreshTick \/ RefreshFails
    BY <1>5, <1>6, <2>2 DEF RefreshTick, RefreshFails, TickSeen, AlarmsSeen
  <2>3. CASE RefreshDailySales
    BY <1>5, <2>3 DEF RefreshDailySales, TickSeen, AlarmsSeen
  <2>4. CASE LoadSnapshot
    <3>1. evaluator'.alarms = Found /\ ~since'.judged
      BY <2>4 DEF LoadSnapshot, Found
    <3> QED
      BY <1>5, <2>4, <3>1 DEF LoadSnapshot, TickSeen, AlarmsSeen
  <2>5. CASE RaiseAlarms
    <3>1. /\ alarms' = evaluator.alarms \cup FoundInView /\ evaluator.pc = "counted"
          /\ hour' = hour /\ view' = view /\ evaluator' = NoTick /\ since'.calm = since.calm
      BY <2>5 DEF RaiseAlarms, FoundInView
    <3>2. since'.calm => alarms' = Found \cup FoundInView
      BY <3>1 DEF TickSeen
    <3>3. TickSeen'
      BY <3>1 DEF TickSeen, NoTick
    <3>4. AlarmsSeen'
      BY <1>5, <1>6, <3>1, <3>2 DEF AlarmsSeen
    <3> QED
      BY <3>3, <3>4
  <2>6. CASE EvaluationFails
    BY <2>6 DEF EvaluationFails, TickSeen, AlarmsSeen
  <2> QED
    BY <2>1, <2>2, <2>3, <2>4, <2>5, <2>6
<1> QED
  BY <1>1, <1>3, <1>4, <1>7 DEF FigureInv

LEMMA FiguresStep == FigureInv /\ [FiguresNext]_figureVars => FigureInv'
<1> SUFFICES ASSUME FigureInv, [FiguresNext]_figureVars PROVE FigureInv'
  OBVIOUS
<1>1. CASE UNCHANGED figureVars
  <2>1. UNCHANGED <<hour, web, slip, view, evaluator, alarms, since>>
    BY <1>1 DEF figureVars
  <2>2. FigureTypes' /\ ViewSeen' /\ SlipsMarked'
    BY <2>1 DEF FigureInv, FigureTypes, ViewSeen, TrueRevenue, PaidIn, SlipsMarked
  <2>3. Found' = Found /\ FoundInView' = FoundInView
    BY <2>1 DEF Found, FoundInView, PaidDrop, ExpiredSpike, PaidDated, ExpiredIn, Dated,
                RevenueDrops, Revenue
  <2>4. TickSeen' /\ AlarmsSeen'
    BY <2>1, <2>3 DEF FigureInv, TickSeen, AlarmsSeen
  <2> QED
    BY <2>1, <2>2, <2>4 DEF FigureInv
<1> QED
  BY <1>1, OrderKeeps, SlipKeeps, JobKeeps DEF FiguresNext

-----------------------------------------------------------------------------
\* The days before today that the view has no row for are before the first.
LEMMA DaysAgo ==
    ASSUME NEW h \in Hours, NEW d \in Int, d <= DayOf(h)
    PROVE  /\ DayOf(h) \in Int
           /\ d \in AllDays <=> d >= 0
           /\ d < 0 => InDay(d) = {}
<1> DEFINE H == HoursPerDay
<1>1. H \in Nat /\ H > 0 /\ h \in Nat /\ MaxHour \in Nat /\ h <= MaxHour
  BY FiguresAssumption DEF Hours
<1>2. \A t \in Nat : t \div H \in Nat
  BY <1>1
<1>3. h \div H <= MaxHour \div H
  <2>1. /\ h \div H \in Nat /\ MaxHour \div H \in Nat /\ h % H \in 0..H-1 /\ MaxHour % H \in 0..H-1
        /\ h = H * (h \div H) + (h % H)
        /\ MaxHour = H * (MaxHour \div H) + (MaxHour % H)
    BY <1>1
  <2>2. PICK a \in Nat, b \in Nat : a = h \div H /\ b = MaxHour \div H
    BY <2>1
  <2>3. H * a < H * b + H
    BY <1>1, <2>1, <2>2
  <2>4. a >= b + 1 => H * a >= H * b + H
    <3> SUFFICES ASSUME a >= b + 1 PROVE H * a >= H * b + H
      OBVIOUS
    <3>1. PICK k \in Nat : a = b + 1 + k
      <4>1. a - b - 1 \in Nat /\ a = b + 1 + (a - b - 1)
        OBVIOUS
      <4> QED
        BY <4>1
    <3>2. H * a = H * b + H + H * k
      BY <1>1, <3>1
    <3>3. H * k \in Nat
      BY <1>1
    <3> QED
      BY <1>1, <3>2, <3>3
  <2> QED
    BY <2>2, <2>3, <2>4, <1>1
<1>4. DayOf(h) \in Nat /\ DayOf(MaxHour) \in Nat /\ DayOf(h) <= DayOf(MaxHour)
  BY <1>1, <1>2, <1>3 DEF DayOf
<1>5. d \in AllDays <=> d >= 0
  BY <1>4 DEF AllDays
<1>6. \A t \in Hours : DayOf(t) >= 0
  BY <1>1, <1>2 DEF DayOf, Hours
<1>7. d < 0 => InDay(d) = {}
  BY <1>6 DEF InDay
<1> QED
  BY <1>4, <1>5, <1>7

LEMMA AlarmsRight == FigureInv => AlarmsTrue
<1> SUFFICES ASSUME FigureInv, since.judged, since.calm
             PROVE  LET today == DayOf(hour)
                        dated == \A o \in WebOrders :
                            web[o].status = "PAID" => web[o].reallyPaid = web[o].paidAt IN
        /\ {today - 1, today - 2} \cap since.unseen = {} =>
               ("ONLINE_REVENUE_DROP" \in alarms
                  <=> Drops(TrueRevenue(today - 1), TrueRevenue(today - 2)))
        /\ dated => ("ONLINE_PAID_ORDERS_DROP" \in alarms
                       <=> /\ TruePaid(DayBefore(hour)) > PaidFloor
                           /\ Drops(TruePaid(LastDay(hour)), TruePaid(DayBefore(hour))))
        /\ "EXPIRED_ORDERS_SPIKE" \in alarms => ExpiredIn(LastDay(hour)) >= ExpiredFloor
  BY DEF AlarmsTrue
<1>1. alarms = Found \cup FoundInView /\ hour \in Hours
  BY DEF FigureInv, FigureTypes, AlarmsSeen
<1>2. /\ "ONLINE_REVENUE_DROP" \in alarms <=> RevenueDrops(DayOf(hour))
      /\ "ONLINE_PAID_ORDERS_DROP" \in alarms <=> PaidDrop(hour)
      /\ "EXPIRED_ORDERS_SPIKE" \in alarms <=> ExpiredSpike(hour)
  BY <1>1 DEF Found, FoundInView, Codes
<1>3. ASSUME {DayOf(hour) - 1, DayOf(hour) - 2} \cap since.unseen = {}
      PROVE  RevenueDrops(DayOf(hour))
               <=> Drops(TrueRevenue(DayOf(hour) - 1), TrueRevenue(DayOf(hour) - 2))
  <2>1. PICK today : today = DayOf(hour)
    OBVIOUS
  <2>2. DayOf(hour) \in Int
    <3>1. HoursPerDay \in Nat \ {0} /\ hour \in Nat
      BY <1>1, FiguresAssumption DEF Hours
    <3> QED
      BY <3>1 DEF DayOf
  <2>3. ASSUME NEW d \in {today - 1, today - 2}
        PROVE  Revenue(d) = TrueRevenue(d)
    <3>1. d \in Int /\ d <= DayOf(hour) /\ d \notin since.unseen
      BY <1>3, <2>1, <2>2
    <3>2. CASE d \in AllDays
      BY <3>1, <3>2 DEF FigureInv, ViewSeen, Revenue
    <3>3. CASE d \notin AllDays
      <4>1. InDay(d) = {}
        BY <1>1, <3>1, <3>3, DaysAgo
      <4>2. PaidIn(InDay(d)) = {}
        BY <4>1 DEF PaidIn
      <4> QED
        BY <3>3, <4>2, FS_EmptySet DEF Revenue, TrueRevenue
    <3> QED
      BY <3>2, <3>3
  <2> QED
    BY <2>1, <2>3 DEF RevenueDrops
<1>4. ASSUME \A o \in WebOrders :
               web[o].status = "PAID" => web[o].reallyPaid = web[o].paidAt
      PROVE  \A ts \in SUBSET Hours : PaidDated(ts) = TruePaid(ts)
  <2> TAKE ts \in SUBSET Hours
  <2>1. Never \notin ts
    BY DEF Hours, Never
  <2>2. \A o \in WebOrders : (web[o].status = "PAID" /\ Dated(o) \in ts)
                               <=> web[o].reallyPaid \in ts
    BY <1>4, <2>1 DEF FigureInv, OrderDated, Dated
  <2> QED
    BY <2>2 DEF PaidDated, TruePaid
<1>5. LastDay(hour) \in SUBSET Hours /\ DayBefore(hour) \in SUBSET Hours
  BY DEF LastDay, DayBefore
<1> QED
  BY <1>2, <1>3, <1>4, <1>5 DEF PaidDrop, ExpiredSpike

-----------------------------------------------------------------------------
LEMMA SlipsFinite ==
    ASSUME NEW kinds, NEW ts
    PROVE  IsFiniteSet(SlipsIn(kinds, ts)) /\ Cardinality(SlipsIn(kinds, ts)) \in Nat
<1>1. SlipsIn(kinds, ts) \in SUBSET SlipRows
  BY DEF SlipsIn
<1> QED
  BY <1>1, FiguresAssumption, FS_Subset, FS_CardinalityType

\* Sets without a member in common.
LEMMA CardinalityApart ==
    ASSUME NEW S, NEW T, IsFiniteSet(S), IsFiniteSet(T), S \cap T = {}
    PROVE  Cardinality(S \cup T) = Cardinality(S) + Cardinality(T)
<1>1. Cardinality(S) \in Nat /\ Cardinality(T) \in Nat /\ Cardinality(S \cap T) = 0
  BY FS_CardinalityType, FS_EmptySet
<1>2. Cardinality(S \cup T) = Cardinality(S) + Cardinality(T) - Cardinality(S \cap T)
  BY FS_Union
<1> QED
  BY <1>1, <1>2

LEMMA ReportsRight == FigureInv => ReportsAgree
<1> SUFFICES ASSUME FigureInv, NEW m
             PROVE  /\ Report(m).cash + Report(m).payments = Dashboard(m).income
                    /\ Dashboard(m).sales = Dashboard(m).cash + Dashboard(m).credit
                    /\ Report(m).grand >= Cardinality(Earned(m))
                    /\ (\A o \in WebOrders : ~web[o].again)
                         => Report(m).grand = Cardinality(Earned(m))
  BY DEF ReportsAgree
<1>1. PICK ts : ts = InMonth(m)
  OBVIOUS
<1>2. PICK P, C, K, Q :
        P = PaidIn(ts) /\ C = SlipsIn({"CASH"}, ts) /\ K = SlipsIn({"CREDIT"}, ts)
        /\ Q = SlipsIn({"PAYMENT"}, ts)
  OBVIOUS
<1>3. /\ IsFiniteSet(C) /\ IsFiniteSet(K) /\ IsFiniteSet(Q)
      /\ Cardinality(C) \in Nat /\ Cardinality(K) \in Nat /\ Cardinality(Q) \in Nat
  BY <1>2, SlipsFinite
<1>4. P \in SUBSET WebOrders
  BY <1>2 DEF PaidIn
<1>5. IsFiniteSet(P) /\ Cardinality(P) \in Nat
  BY <1>4, FiguresAssumption, FS_Subset, FS_CardinalityType
<1>6. SlipsIn({"CASH", "CREDIT"}, ts) = C \cup K /\ C \cap K = {}
      /\ SlipsIn({"CASH", "PAYMENT"}, ts) = C \cup Q /\ C \cap Q = {}
  BY <1>2 DEF SlipsIn
<1>7. /\ Report(m).cash = Cardinality(C) /\ Report(m).payments = Cardinality(Q)
      /\ Report(m).grand = Cardinality(C) + Cardinality(Q) + Cardinality(P)
  BY <1>1, <1>2 DEF Report
<1>8. /\ Dashboard(m).income = Cardinality(C) + Cardinality(Q)
      /\ Dashboard(m).sales = Cardinality(C \cup K)
      /\ Dashboard(m).cash = Cardinality(C) /\ Dashboard(m).credit = Cardinality(K)
  BY <1>1, <1>2, <1>6 DEF Dashboard
<1>9. /\ Cardinality(C \cup K) = Cardinality(C) + Cardinality(K)
      /\ Cardinality(C \cup Q) = Cardinality(C) + Cardinality(Q)
  BY <1>3, <1>6, CardinalityApart
<1>10. IsFiniteSet(C \cup Q)
  BY <1>3, FS_Union
<1>11. (C \cup Q) \cap P = {}
  BY <1>2, <1>4, FiguresAssumption DEF SlipsIn
<1>12. /\ IsFiniteSet(P \cup (C \cup Q))
       /\ Cardinality(P \cup (C \cup Q)) = Cardinality(P) + Cardinality(C \cup Q)
  BY <1>5, <1>10, <1>11, CardinalityApart, FS_Union
<1>13. Earned(m) \in SUBSET (P \cup (C \cup Q))
  BY <1>1, <1>2, <1>6 DEF Earned
<1>14. Cardinality(Earned(m)) <= Cardinality(P \cup (C \cup Q))
  BY <1>12, <1>13, FS_Subset
<1>15. ASSUME \A o \in WebOrders : ~web[o].again
       PROVE  Earned(m) = P \cup (C \cup Q)
  <2>1. \A s \in SlipRows : slip[s].order = Nobody
    BY <1>15 DEF FigureInv, SlipsMarked
  <2>2. C \cup Q \subseteq SlipRows
    BY <1>2 DEF SlipsIn
  <2> QED
    BY <1>1, <1>2, <1>6, <2>1, <2>2 DEF Earned
<1>16. Cardinality(Earned(m)) \in Nat
  BY <1>12, <1>13, FS_Subset, FS_CardinalityType
<1>17. Report(m).grand = Cardinality(P \cup (C \cup Q))
  BY <1>3, <1>5, <1>7, <1>9, <1>12
<1> QED
  BY <1>3, <1>5, <1>7, <1>8, <1>9, <1>14, <1>15, <1>16, <1>17

LEMMA FiguresInvariant == FiguresSpec => []FiguresRight
<1>1. FigureInv => FiguresRight
  BY AlarmsRight, ReportsRight DEF FiguresRight
<1> QED
  BY <1>1, FiguresBegin, FiguresStep, PTL DEF FiguresSpec

-----------------------------------------------------------------------------
(* The copies.  A body lists its goods from the last one on; without a bulk *)
(* request every stamp is one good's, so that a stamp which is found again  *)
(* finds the good as it was.                                                *)

\* The goods of a body and their order.
Shaped(rows) ==
    \E n \in Nat :
        /\ rows = [i \in 1..n |-> rows[i]] /\ DOMAIN rows = 1..n
        /\ \A i \in 1..n : rows[i].good \in Goods
        /\ \A i, j \in 1..n : i < j => rows[i].good > rows[j].good

LEMMA GoodsNat == IsFiniteSet(Goods) /\ Cardinality(Goods) \in Nat /\ Goods \subseteq Nat
<1>1. IsFiniteSet(Goods) /\ Cardinality(Goods) \in Nat
  BY PublicCacheAssumption, FS_CardinalityType
<1>2. Goods = 1..Cardinality(Goods)
  BY PublicCacheAssumption
<1> QED
  BY <1>1, <1>2

\* A finite set of numbers has a member of every rank from the top.
LEMMA Ranked ==
    ASSUME NEW gs \in SUBSET Goods, NEW k \in 1..Cardinality(gs)
    PROVE  \E g \in gs : Cardinality({h \in gs : h >= g}) = k
<1> DEFINE Good == {T \in SUBSET Goods : \A r \in 1..Cardinality(T) :
                        \E g \in T : Cardinality({h \in T : h >= g}) = r}
<1>1. ASSUME NEW T \in SUBSET Goods, \A U \in SUBSET T : U # T => U \in Good,
             NEW r \in 1..Cardinality(T)
      PROVE  \E g \in T : Cardinality({h \in T : h >= g}) = r
  <2>1. IsFiniteSet(T) /\ Cardinality(T) \in Nat /\ T \subseteq Nat
    BY GoodsNat, FS_Subset, FS_CardinalityType
  <2>2. T # {}
    BY <2>1, FS_EmptySet
  <2>3. PICK m \in T : \A h \in T : h >= m
    <3>1. T \in SUBSET (1..Cardinality(Goods)) /\ Cardinality(Goods) \in Nat
      BY PublicCacheAssumption, GoodsNat
    <3>2. PICK i \in T : \A j \in T : i <= j
      BY <2>2, <3>1, LeastIndex
    <3> QED
      BY <2>1, <3>2
  <2>4. CASE r = Cardinality(T)
    <3>1. {h \in T : h >= m} = T
      BY <2>3
    <3> QED
      BY <2>3, <2>4, <3>1
  <2>5. CASE r # Cardinality(T)
    <3>1. PICK U : U = T \ {m}
      OBVIOUS
    <3>2. U \in SUBSET T /\ U # T /\ Cardinality(U) = Cardinality(T) - 1
      BY <2>1, <2>3, <3>1, FS_RemoveElement
    <3>3. U \in Good
      BY <1>1, <3>2
    <3>4. r \in 1..Cardinality(U)
      BY <2>1, <2>5, <3>2
    <3>5. PICK g \in U : Cardinality({h \in U : h >= g}) = r
      BY <3>3, <3>4
    <3>6. g \in T /\ {h \in T : h >= g} = {h \in U : h >= g}
      <4>1. g \in Nat /\ m \in Nat /\ g >= m /\ g # m
        BY <2>1, <2>3, <3>1
      <4>2. ~(m >= g)
        BY <4>1
      <4> QED
        BY <3>1, <4>2
    <3> QED
      BY <3>5, <3>6
  <2> QED
    BY <2>4, <2>5
<1>2. \A T \in SUBSET Goods : (\A U \in SUBSET T : U # T => U \in Good) => T \in Good
  BY <1>1
<1> HIDE DEF Good
<1>3. \A T \in SUBSET Goods : T \in Good
  BY <1>2, GoodsNat, SubsetInduction
<1> QED
  BY <1>3 DEF Good

\* The list names the members from the greatest on.
LEMMA ListedFalls ==
    ASSUME NEW gs \in SUBSET Goods
    PROVE  /\ Cardinality(gs) \in Nat
           /\ DOMAIN Listed(gs) = 1..Cardinality(gs)
           /\ \A k \in 1..Cardinality(gs) : Listed(gs)[k] \in gs
           /\ \A j, k \in 1..Cardinality(gs) : j < k => Listed(gs)[j] > Listed(gs)[k]
<1> DEFINE rank(g) == Cardinality({h \in gs : h >= g})
<1>1. IsFiniteSet(gs) /\ Cardinality(gs) \in Nat /\ gs \subseteq Nat
  BY GoodsNat, FS_Subset, FS_CardinalityType
<1>2. ASSUME NEW k \in 1..Cardinality(gs)
      PROVE  Listed(gs)[k] \in gs /\ rank(Listed(gs)[k]) = k
  <2>1. Listed(gs)[k] = CHOOSE g \in gs : Cardinality({h \in gs : h >= g}) = k
    BY DEF Listed
  <2>2. \E g \in gs : Cardinality({h \in gs : h >= g}) = k
    BY Ranked
  <2> QED
    BY <2>1, <2>2
<1>3. ASSUME NEW j \in 1..Cardinality(gs), NEW k \in 1..Cardinality(gs), j < k
      PROVE  Listed(gs)[j] > Listed(gs)[k]
  <2>1. PICK a \in gs, b \in gs : a = Listed(gs)[j] /\ b = Listed(gs)[k]
    BY <1>2
  <2>2. rank(a) = j /\ rank(b) = k
    BY <1>2, <2>1
  <2>3. a \in Nat /\ b \in Nat
    BY <1>1
  <2>4. ASSUME a <= b PROVE FALSE
    <3>1. {h \in gs : h >= b} \subseteq {h \in gs : h >= a}
      <4>1. \A h \in gs : h >= b => h >= a
        <5> TAKE h \in gs
        <5>1. h \in Nat
          BY <1>1
        <5> QED
          BY <2>3, <2>4, <5>1
      <4> QED
        BY <4>1
    <3>2. IsFiniteSet({h \in gs : h >= a})
      BY <1>1, FS_Subset
    <3>3. rank(b) <= rank(a)
      BY <3>1, <3>2, FS_Subset
    <3> QED
      BY <1>1, <1>3, <2>2, <3>3
  <2> QED
    BY <2>1, <2>3, <2>4
<1> QED
  BY <1>1, <1>2, <1>3 DEF Listed

\* Every body has that shape.
LEMMA BodiesShaped ==
    ASSUME NEW q \in Queries
    PROVE  Shaped(Body(q).rows)
<1>1. q.page \in Nat \ {0} /\ q.limit \in 1..100
  BY PublicCacheAssumption DEF PageAccepted
<1>2. CASE q.one # 0
  <2>1. PICK gs \in SUBSET Goods : gs = {g \in {q.one} : good[g].live}
    BY <1>2, PublicCacheAssumption
  <2>2. Body(q).rows = Rows(Listed(gs))
    BY <1>2, <2>1 DEF Body
  <2>3. PICK n \in Nat, l \in {Listed(gs)} :
            /\ DOMAIN l = 1..n
            /\ \A k \in 1..n : l[k] \in gs
            /\ \A j, k \in 1..n : j < k => l[j] > l[k]
    BY ListedFalls
  <2>4. /\ DOMAIN Body(q).rows = 1..n
        /\ Body(q).rows = [k \in 1..n |-> Body(q).rows[k]]
        /\ \A k \in 1..n : Body(q).rows[k].good = l[k]
    BY <2>2, <2>3 DEF Rows, ProductRow
  <2> QED
    BY <2>1, <2>3, <2>4 DEF Shaped
<1>3. CASE q.one = 0
  <2>1. PICK gs \in SUBSET Goods : gs = Matches(q)
    BY DEF Matches
  <2>2. PICK n \in Nat, l \in {Listed(gs)} :
            /\ n = Cardinality(gs)
            /\ \A k \in 1..n : l[k] \in gs
            /\ \A j, k \in 1..n : j < k => l[j] > l[k]
    BY ListedFalls
  <2>3. PICK skip \in Nat : skip = (q.page - 1) * q.limit
    <3>1. q.page - 1 \in Nat /\ q.limit \in Nat
      BY <1>1
    <3> QED
      BY <3>1
  <2>4. PICK places, c : places = skip + 1..skip + q.limit /\ c = Cardinality(places \cap 1..n)
    OBVIOUS
  <2>5. c \in Nat /\ (c > 0 => skip + c <= n)
    <3> DEFINE last == IF skip + q.limit <= n THEN skip + q.limit ELSE n
    <3>1. /\ q.limit \in Int /\ last \in Int /\ skip + 1 \in Int
          /\ last <= n /\ last <= skip + q.limit /\ (last = n \/ last = skip + q.limit)
      BY <1>1
    <3>2. \A x : x \in places \cap (1..n) <=> x \in (skip + 1)..last
      <4>1. \A x : x \in places <=> x \in Int /\ skip + 1 <= x /\ x <= skip + q.limit
        BY <1>1, <2>4
      <4> HIDE DEF last
      <4> QED
        BY <3>1, <4>1
    <3> HIDE DEF last
    <3>3. places \cap (1..n) = (skip + 1)..last
      BY <3>2
    <3>4. c = IF skip + 1 > last THEN 0 ELSE last - (skip + 1) + 1
      BY <2>4, <3>1, <3>3, FS_Interval
    <3> QED
      BY <1>1, <3>1, <3>4
  <2>6. Body(q).rows = Rows(OnPage(q, gs))
    BY <1>3, <2>1 DEF Body
  <2>7. OnPage(q, gs) = [k \in 1..c |-> l[skip + k]]
    BY <2>2, <2>3, <2>4 DEF OnPage
  <2>8. \A k \in 1..c : skip + k \in 1..n
    BY <2>5
  <2>9. /\ DOMAIN Body(q).rows = 1..c
        /\ Body(q).rows = [k \in 1..c |-> Body(q).rows[k]]
        /\ \A k \in 1..c : Body(q).rows[k].good = l[skip + k]
    BY <2>6, <2>7 DEF Rows, ProductRow
  <2>10. \A k \in 1..c : Body(q).rows[k].good \in Goods
    BY <2>2, <2>8, <2>9
  <2>11. \A j, k \in 1..c : j < k => Body(q).rows[j].good > Body(q).rows[k].good
    <3> SUFFICES ASSUME NEW j \in 1..c, NEW k \in 1..c, j < k
                 PROVE  l[skip + j] > l[skip + k]
      BY <2>9
    <3>1. skip + j < skip + k /\ skip + j \in 1..n /\ skip + k \in 1..n
      BY <2>8
    <3> QED
      BY <2>2, <3>1
  <2> QED
    BY <2>5, <2>9, <2>10, <2>11 DEF Shaped
<1> QED
  BY <1>2, <1>3

\* Two lists that fall and have the same members are the same.
Falls(f, n) ==
    /\ \A i \in 1..n : f[i] \in Nat
    /\ \A i, j \in 1..n : i < j => f[i] > f[j]
Alike(f, n, g, m) ==
    /\ \A i \in 1..n : \E j \in 1..m : f[i] = g[j]
    /\ \A j \in 1..m : \E i \in 1..n : f[i] = g[j]

LEMMA SameFalling ==
    ASSUME NEW f, NEW g, NEW n \in Nat, NEW m \in Nat,
           Falls(f, n), Falls(g, m), Alike(f, n, g, m)
    PROVE  n = m /\ \A i \in 1..n : f[i] = g[i]
<1> USE DEF Falls, Alike
<1> DEFINE wrong == {i \in 1..n \cap 1..m : f[i] # g[i]}
<1>1. wrong = {}
  <2> SUFFICES ASSUME wrong # {} PROVE FALSE
    OBVIOUS
  <2>1. PICK i \in wrong : \A j \in wrong : i <= j
    BY LeastIndex
  <2>2. \A j \in 1..n \cap 1..m : j < i => f[j] = g[j]
    <3> TAKE j \in 1..n \cap 1..m
    <3> HAVE j < i
    <3>1. ~(i <= j)
      OBVIOUS
    <3> QED
      BY <2>1, <3>1
  <2>3. i \in 1..n /\ i \in 1..m /\ f[i] # g[i]
    OBVIOUS
  <2> HIDE DEF wrong
  <2>4. g[i] > f[i]
    <3>1. PICK j \in 1..m : f[i] = g[j]
      BY <2>3
    <3>2. j # i
      BY <2>3, <3>1
    <3>3. ~(j < i)
      <4> SUFFICES ASSUME j < i PROVE FALSE
        OBVIOUS
      <4>1. j \in 1..n /\ j \in 1..m
        BY <2>3
      <4>2. f[j] = g[j] /\ f[j] > f[i]
        BY <2>2, <2>3, <4>1
      <4>3. f[j] \in Nat /\ f[i] \in Nat
        BY <4>1, <2>3
      <4> QED
        BY <3>1, <4>2, <4>3
    <3>4. i < j
      BY <2>3, <3>2, <3>3
    <3> QED
      BY <2>3, <3>1, <3>4
  <2>5. f[i] > g[i]
    <3>1. PICK j \in 1..n : f[j] = g[i]
      BY <2>3
    <3>2. j # i
      BY <2>3, <3>1
    <3>3. ~(j < i)
      <4> SUFFICES ASSUME j < i PROVE FALSE
        OBVIOUS
      <4>1. j \in 1..n /\ j \in 1..m
        BY <2>3
      <4>2. f[j] = g[j] /\ g[j] > g[i]
        BY <2>2, <2>3, <4>1
      <4>3. g[j] \in Nat /\ g[i] \in Nat
        BY <4>1, <2>3
      <4> QED
        BY <3>1, <4>2, <4>3
    <3>4. i < j
      BY <2>3, <3>2, <3>3
    <3> QED
      BY <2>3, <3>1, <3>4
  <2>6. f[i] \in Nat /\ g[i] \in Nat
    BY <2>3
  <2> QED
    BY <2>4, <2>5, <2>6
<1>2. \A i \in 1..n \cap 1..m : f[i] = g[i]
  BY <1>1
<1> HIDE DEF wrong
<1>3. ASSUME n < m PROVE FALSE
  <2>1. PICK i \in 1..n : f[i] = g[n + 1]
    BY <1>3
  <2>2. f[i] = g[i] /\ i \in 1..m /\ n + 1 \in 1..m /\ i < n + 1
    BY <1>2, <1>3, <2>1
  <2>3. g[i] > g[n + 1] /\ g[i] \in Nat /\ g[n + 1] \in Nat
    BY <2>2
  <2> QED
    BY <2>1, <2>2, <2>3
<1>4. ASSUME m < n PROVE FALSE
  <2>1. PICK i \in 1..m : f[m + 1] = g[i]
    BY <1>4
  <2>2. f[i] = g[i] /\ i \in 1..n /\ m + 1 \in 1..n /\ i < m + 1
    BY <1>2, <1>4, <2>1
  <2>3. f[i] > f[m + 1] /\ f[i] \in Nat /\ f[m + 1] \in Nat
    BY <2>2
  <2> QED
    BY <2>1, <2>2, <2>3
<1>5. n = m
  BY <1>3, <1>4
<1> QED
  BY <1>2, <1>5

\* How long a list is, is told by its domain.
LEMMA LenByDomain ==
    ASSUME NEW f, NEW n \in Nat, f = [i \in 1..n |-> f[i]]
    PROVE  Len(f) = n /\ (n = 0 => f = <<>>)
<1>1. PICK S : S = {f[i] : i \in 1..n}
  OBVIOUS
<1>2. f \in [1..n -> S]
  BY <1>1
<1>3. f \in Seq(S)
  BY <1>2
<1>4. DOMAIN f = 1..Len(f) /\ Len(f) \in Nat
  BY <1>3, LenProperties
<1>5. DOMAIN f = 1..n
  BY <1>2
<1>6. Len(f) = n
  BY <1>4, <1>5
<1> QED
  BY <1>3, <1>6, EmptySeq

-----------------------------------------------------------------------------
\* A sum of sums.
LEMMA SumPlus ==
    ASSUME NEW f, NEW g, NEW h, NEW S, IsFiniteSet(S),
           \A x \in S : f[x] \in Int /\ g[x] \in Int /\ h[x] = f[x] + g[x]
    PROVE  SumFunctionOnSet(h, S) = SumFunctionOnSet(f, S) + SumFunctionOnSet(g, S)
<1> DEFINE Sum(k, T) == SumFunctionOnSet(k, T)
           Good == {T \in SUBSET S : Sum(h, T) = Sum(f, T) + Sum(g, T)}
<1>1. ASSUME NEW T \in SUBSET S, \A U \in SUBSET T : U # T => U \in Good
      PROVE  T \in Good
  <2>1. IsFiniteSet(T)
    BY FS_Subset
  <2>2. CASE T = {}
    BY <2>2, SumEmpty
  <2>3. ASSUME NEW x \in T
        PROVE  T \in Good
    <3>1. T \ {x} \in SUBSET T /\ T \ {x} # T
      OBVIOUS
    <3>2. Sum(h, T \ {x}) = Sum(f, T \ {x}) + Sum(g, T \ {x})
      BY <1>1, <3>1
    <3>3. \A y \in T : f[y] \in Int /\ g[y] \in Int /\ h[y] \in Int
      OBVIOUS
    <3>4. /\ Sum(h, T) = h[x] + Sum(h, T \ {x})
          /\ Sum(f, T) = f[x] + Sum(f, T \ {x})
          /\ Sum(g, T) = g[x] + Sum(g, T \ {x})
      BY <2>1, <3>3, SumRemove
    <3>5. IsFiniteSet(T \ {x}) /\ \A y \in T \ {x} : f[y] \in Int /\ g[y] \in Int
      BY <2>1, <3>3, FS_Subset
    <3>6. Sum(f, T \ {x}) \in Int /\ Sum(g, T \ {x}) \in Int
      BY <3>5, SumInt
    <3>7. h[x] = f[x] + g[x] /\ f[x] \in Int /\ g[x] \in Int
      BY <3>3
    <3> HIDE DEF Sum
    <3>8. Sum(h, T) = Sum(f, T) + Sum(g, T)
      BY <3>2, <3>4, <3>6, <3>7
    <3> QED
      BY <3>8
  <2> QED
    BY <2>2, <2>3
<1> HIDE DEF Good
<1>2. \A T \in SUBSET S : T \in Good
  BY <1>1, SubsetInduction
<1> QED
  BY <1>2 DEF Good

\* Finitely many places have finitely many values.
LEMMA ValuesFinite ==
    ASSUME NEW D, IsFiniteSet(D), NEW f
    PROVE  IsFiniteSet({f[i] : i \in D})
<1>1. PICK T, g : T = {f[i] : i \in D} /\ g = [i \in D |-> f[i]]
  OBVIOUS
<1>2. g \in Surjection(D, T)
  BY <1>1 DEF Surjection
<1> QED
  BY <1>1, <1>2, FS_Surjection

\* As many places as each value has, over all the values, are all the places.
LEMMA Fibres ==
    ASSUME NEW D, IsFiniteSet(D), NEW S, IsFiniteSet(S), NEW f, \A i \in D : f[i] \in S
    PROVE  SumFunctionOnSet([v \in S |-> Cardinality({i \in D : f[i] = v})], S)
             = Cardinality(D)
<1> DEFINE fibre(T) == [v \in S |-> Cardinality({i \in T : f[i] = v})]
           Good == {T \in SUBSET D : SumFunctionOnSet(fibre(T), S) = Cardinality(T)}
<1>1. ASSUME NEW T \in SUBSET D
      PROVE  /\ IsFiniteSet(T) /\ Cardinality(T) \in Nat
             /\ \A v \in S : fibre(T)[v] \in Int
  <2>1. IsFiniteSet(T)
    BY FS_Subset
  <2>2. ASSUME NEW v \in S PROVE Cardinality({i \in T : f[i] = v}) \in Nat
    <3>1. {i \in T : f[i] = v} \in SUBSET T
      OBVIOUS
    <3> QED
      BY <2>1, <3>1, FS_Subset, FS_CardinalityType
  <2> QED
    BY <2>1, <2>2, FS_CardinalityType
<1>2. ASSUME NEW T \in SUBSET D, \A U \in SUBSET T : U # T => U \in Good
      PROVE  T \in Good
  <2>1. CASE T = {}
    <3>1. PICK z : z = fibre(T)
      OBVIOUS
    <3>2. \A v \in S : z[v] = 0
      BY <2>1, <3>1, FS_EmptySet
    <3>3. \A v \in S : z[v] \in Int /\ z[v] = z[v] + z[v]
      BY <3>2
    <3>4. SumFunctionOnSet(z, S) = SumFunctionOnSet(z, S) + SumFunctionOnSet(z, S)
      BY <3>3, SumPlus
    <3>5. SumFunctionOnSet(z, S) \in Int
      BY <3>3, SumInt
    <3>6. PICK k \in Int : k = SumFunctionOnSet(z, S)
      BY <3>5
    <3>7. k = 0
      <4>1. k = k + k
        BY <3>4, <3>6
      <4> QED
        BY <4>1
    <3> QED
      BY <2>1, <3>1, <3>6, <3>7, FS_EmptySet
  <2>2. ASSUME NEW x \in T
        PROVE  T \in Good
    <3>1. PICK U : U = T \ {x}
      OBVIOUS
    <3>2. U \in SUBSET T /\ U # T /\ U \in SUBSET D
      BY <3>1
    <3>3. SumFunctionOnSet(fibre(U), S) = Cardinality(U)
      BY <1>2, <3>2
    <3>4. Cardinality(U) = Cardinality(T) - 1 /\ Cardinality(T) \in Nat
      BY <1>1, <3>1, FS_RemoveElement
    <3>5. PICK a \in S : a = f[x]
      OBVIOUS
    <3>6. ASSUME NEW v \in S, v # a
          PROVE  fibre(T)[v] = fibre(U)[v]
      <4>1. {i \in T : f[i] = v} = {i \in U : f[i] = v}
        BY <3>1, <3>5, <3>6
      <4> QED
        BY <4>1
    <3>7. fibre(T)[a] = fibre(U)[a] + 1
      <4>1. {i \in T : f[i] = a} = {i \in U : f[i] = a} \cup {x} /\ x \notin {i \in U : f[i] = a}
        BY <3>1, <3>5
      <4>2. IsFiniteSet({i \in U : f[i] = a})
        BY <1>1, <3>2, FS_Subset
      <4>3. Cardinality({i \in T : f[i] = a}) = Cardinality({i \in U : f[i] = a}) + 1
        BY <4>1, <4>2, FS_AddElement
      <4> QED
        BY <4>3
    <3>8. /\ \A v \in S : fibre(U)[v] \in Int
          /\ \A v \in S : fibre(T)[v] \in Int
      BY <1>1, <3>2
    <3>9. PICK p, q : p = fibre(T) /\ q = fibre(U)
      OBVIOUS
    <3>10. \A v \in S \ {a} : p[v] = q[v]
      BY <3>6, <3>9
    <3>11. p[a] = q[a] + 1 /\ p[a] \in Int /\ \A v \in S : q[v] \in Int
      BY <3>7, <3>8, <3>9
    <3>12. SumFunctionOnSet(p, S) = SumFunctionOnSet(q, S) - q[a] + p[a]
      BY <3>10, <3>11, SumChange
    <3>13. SumFunctionOnSet(q, S) \in Int
      BY <3>11, SumInt
    <3>14. SumFunctionOnSet(p, S) = SumFunctionOnSet(q, S) + 1
      BY <3>11, <3>12, <3>13
    <3> QED
      BY <3>3, <3>4, <3>9, <3>13, <3>14
  <2> QED
    BY <2>1, <2>2
<1> HIDE DEF Good
<1>3. \A T \in SUBSET D : T \in Good
  BY <1>2, SubsetInduction
<1> QED
  BY <1>3 DEF Good

-----------------------------------------------------------------------------
\* The stamps of a body, and how often each occurs.
SeenIn(rows) == UNION {{rows[i].stamp, rows[i].variant.stamp} : i \in DOMAIN rows}
OwnCount(rows, s) == Cardinality({i \in DOMAIN rows : rows[i].stamp = s})
NestedCount(rows, s) == Cardinality({i \in DOMAIN rows : rows[i].variant.stamp = s})

LEMMA StampsAre ==
    \A body : Stamps(body) =
        {<<s, OwnCount(body.rows, s) + NestedCount(body.rows, s)>> : s \in SeenIn(body.rows)}
  BY DEF Stamps, SeenIn, OwnCount, NestedCount

\* The same tag is the same stamps, each as often as before.
LEMMA SameStamps ==
    ASSUME NEW old, NEW new, Stamps(old) = Stamps(new)
    PROVE  /\ SeenIn(old.rows) = SeenIn(new.rows)
           /\ \A s \in SeenIn(old.rows) :
                  OwnCount(old.rows, s) + NestedCount(old.rows, s)
                    = OwnCount(new.rows, s) + NestedCount(new.rows, s)
<1> DEFINE count(rows, s) == OwnCount(rows, s) + NestedCount(rows, s)
<1>1. /\ Stamps(old) = {<<s, count(old.rows, s)>> : s \in SeenIn(old.rows)}
      /\ Stamps(new) = {<<s, count(new.rows, s)>> : s \in SeenIn(new.rows)}
  BY StampsAre
<1> HIDE DEF count
<1>2. ASSUME NEW s \in SeenIn(old.rows)
      PROVE  s \in SeenIn(new.rows) /\ count(old.rows, s) = count(new.rows, s)
  <2>1. <<s, count(old.rows, s)>> \in Stamps(new)
    BY <1>1
  <2>2. PICK t \in SeenIn(new.rows) : <<s, count(old.rows, s)>> = <<t, count(new.rows, t)>>
    BY <1>1, <2>1
  <2> QED
    BY <2>2
<1>3. ASSUME NEW s \in SeenIn(new.rows)
      PROVE  s \in SeenIn(old.rows)
  <2>1. <<s, count(new.rows, s)>> \in Stamps(old)
    BY <1>1
  <2>2. PICK t \in SeenIn(old.rows) : <<s, count(new.rows, s)>> = <<t, count(old.rows, t)>>
    BY <1>1, <2>1
  <2> QED
    BY <2>2
<1> QED
  BY <1>2, <1>3 DEF count

\* Each row has two stamps.
LEMMA StampsTwice ==
    ASSUME NEW rows, NEW n \in Nat, DOMAIN rows = 1..n,
           NEW S, S = SeenIn(rows)
    PROVE  /\ IsFiniteSet(S)
           /\ \A s \in S : OwnCount(rows, s) + NestedCount(rows, s) \in Int
           /\ SumFunctionOnSet([s \in S |-> OwnCount(rows, s) + NestedCount(rows, s)], S) = n + n
<1> DEFINE own == [i \in 1..n |-> rows[i].stamp]
           nested == [i \in 1..n |-> rows[i].variant.stamp]
<1>1. IsFiniteSet(1..n) /\ Cardinality(1..n) = n
  <2>1. Cardinality(1..n) = IF 1 > n THEN 0 ELSE n - 1 + 1
    BY FS_Interval
  <2> QED
    BY <2>1, FS_Interval
<1>2. S = {own[i] : i \in 1..n} \cup {nested[i] : i \in 1..n}
  BY DEF SeenIn
<1>3. IsFiniteSet(S)
  <2> HIDE DEF own, nested
  <2>1. IsFiniteSet({own[i] : i \in 1..n}) /\ IsFiniteSet({nested[i] : i \in 1..n})
    BY <1>1, ValuesFinite
  <2> QED
    BY ZenonT(60), <1>2, <2>1, FS_Union
<1>4. PICK c, d : c = [s \in S |-> Cardinality({i \in 1..n : own[i] = s})]
                  /\ d = [s \in S |-> Cardinality({i \in 1..n : nested[i] = s})]
  OBVIOUS
<1>5. \A s \in S : c[s] = OwnCount(rows, s) /\ d[s] = NestedCount(rows, s)
  <2> TAKE s \in S
  <2>1. {i \in 1..n : own[i] = s} = {i \in DOMAIN rows : rows[i].stamp = s}
    OBVIOUS
  <2>2. {i \in 1..n : nested[i] = s} = {i \in DOMAIN rows : rows[i].variant.stamp = s}
    OBVIOUS
  <2> QED
    BY <1>4, <2>1, <2>2 DEF OwnCount, NestedCount
<1>6. \A i \in 1..n : own[i] \in S /\ nested[i] \in S
  BY <1>2
<1> HIDE DEF own, nested
<1>7. SumFunctionOnSet(c, S) = n /\ SumFunctionOnSet(d, S) = n
  BY <1>1, <1>3, <1>4, <1>6, Fibres
<1>8. ASSUME NEW s \in S
      PROVE  c[s] \in Int /\ d[s] \in Int
  <2>1. Cardinality({i \in 1..n : own[i] = s}) \in Nat /\ Cardinality({i \in 1..n : nested[i] = s}) \in Nat
    BY <1>1, FS_Subset, FS_CardinalityType
  <2> QED
    BY <1>4, <2>1
<1>9. PICK e : e = [s \in S |-> OwnCount(rows, s) + NestedCount(rows, s)]
  OBVIOUS
<1>10. \A s \in S : c[s] \in Int /\ d[s] \in Int /\ e[s] = c[s] + d[s]
  BY <1>5, <1>8, <1>9
<1>11. SumFunctionOnSet(e, S) = SumFunctionOnSet(c, S) + SumFunctionOnSet(d, S)
  BY <1>3, <1>10, SumPlus
<1> QED
  BY <1>3, <1>5, <1>7, <1>8, <1>9, <1>11

\* Bodies with the same stamps have as many rows.
LEMMA SameLength ==
    ASSUME NEW old, NEW new, Stamps(old) = Stamps(new),
           NEW n \in Nat, DOMAIN old.rows = 1..n, NEW m \in Nat, DOMAIN new.rows = 1..m
    PROVE  n = m
<1>1. PICK S : S = SeenIn(old.rows)
  OBVIOUS
<1>2. /\ S = SeenIn(new.rows)
      /\ \A s \in S : OwnCount(old.rows, s) + NestedCount(old.rows, s)
                        = OwnCount(new.rows, s) + NestedCount(new.rows, s)
  BY <1>1, SameStamps
<1>3. PICK e : e = [s \in S |-> OwnCount(old.rows, s) + NestedCount(old.rows, s)]
  OBVIOUS
<1>4. e = [s \in S |-> OwnCount(new.rows, s) + NestedCount(new.rows, s)]
  BY <1>2, <1>3
<1>5. SumFunctionOnSet(e, S) = n + n
  BY <1>1, <1>3, StampsTwice
<1>6. SumFunctionOnSet(e, S) = m + m
  BY <1>2, <1>4, StampsTwice
<1> QED
  BY <1>5, <1>6

-----------------------------------------------------------------------------
\* What a row of an earlier body, from no later than change n, tells of the
\* goods gd: a stamp that is found again is of the same good, and shows it.
Tells(gd, n, line) ==
    /\ line.good \in Goods
    /\ line.stamp \in {-line.good} \cup 1..n
    /\ line.variant.stamp \in {-line.good} \cup 1..n
    /\ \A h \in Goods :
           /\ gd[h].stamp = line.stamp =>
                  h = line.good /\ gd[h].text = line.text /\ gd[h].stock = line.stock
           /\ gd[h].otherStamp = line.variant.stamp =>
                  h = line.good /\ gd[h].other = line.variant.text
           /\ gd[h].otherStamp = line.stamp => h = line.good /\ line.stamp = -h
           /\ gd[h].stamp = line.variant.stamp => h = line.good /\ line.variant.stamp = -h
    /\ gd[line.good].stamp = -line.good => line.stamp = -line.good
    /\ gd[line.good].otherStamp = -line.good => line.variant.stamp = -line.good

\* The row of a good, with what counts of it.
RowOf(gd, h) ==
    [good |-> h, text |-> gd[h].text, stock |-> gd[h].stock, stamp |-> gd[h].stamp,
     variant |-> [text |-> gd[h].other, stamp |-> gd[h].otherStamp]]

\* A change of one good, with a new stamp for what it writes.
Changes(gd, gd2, n, g) ==
    /\ \A h \in Goods \ {g} : gd2[h] = gd[h]
    /\ \/ /\ gd2[g].stamp = gd[g].stamp /\ gd2[g].text = gd[g].text /\ gd2[g].stock = gd[g].stock
          /\ \/ gd2[g].otherStamp = n + 1
             \/ gd2[g].otherStamp = gd[g].otherStamp /\ gd2[g].other = gd[g].other
       \/ /\ gd2[g].stamp = n + 1
          /\ gd2[g].otherStamp = gd[g].otherStamp /\ gd2[g].other = gd[g].other

LEMMA StillTells ==
    ASSUME NEW gd, NEW gd2, NEW n \in Nat, NEW g \in Goods, Changes(gd, gd2, n, g),
           NEW line, Tells(gd, n, line)
    PROVE  Tells(gd2, n + 1, line)
<1>1. line.good \in Goods /\ line.good \in Nat
  BY GoodsNat DEF Tells
<1>2. /\ line.stamp \in {-line.good} \cup 1..n + 1 /\ line.stamp # n + 1
      /\ line.variant.stamp \in {-line.good} \cup 1..n + 1 /\ line.variant.stamp # n + 1
      /\ -line.good # n + 1
  BY <1>1 DEF Tells
<1>3. ASSUME NEW h \in Goods
      PROVE  /\ gd2[h].stamp # n + 1 => /\ gd2[h].stamp = gd[h].stamp
                                        /\ gd2[h].text = gd[h].text /\ gd2[h].stock = gd[h].stock
             /\ gd2[h].otherStamp # n + 1 => /\ gd2[h].otherStamp = gd[h].otherStamp
                                             /\ gd2[h].other = gd[h].other
  BY DEF Changes
<1>4. ASSUME NEW h \in Goods
      PROVE  /\ gd2[h].stamp = line.stamp =>
                    h = line.good /\ gd2[h].text = line.text /\ gd2[h].stock = line.stock
             /\ gd2[h].otherStamp = line.variant.stamp =>
                    h = line.good /\ gd2[h].other = line.variant.text
             /\ gd2[h].otherStamp = line.stamp => h = line.good /\ line.stamp = -h
             /\ gd2[h].stamp = line.variant.stamp => h = line.good /\ line.variant.stamp = -h
  BY <1>2, <1>3 DEF Tells
<1>5. /\ gd2[line.good].stamp = -line.good => line.stamp = -line.good
      /\ gd2[line.good].otherStamp = -line.good => line.variant.stamp = -line.good
  BY <1>1, <1>2, <1>3 DEF Tells
<1> QED
  BY <1>1, <1>2, <1>4, <1>5 DEF Tells

LEMMA NewTells ==
    ASSUME NEW gd, NEW gd2, NEW n \in Nat, NEW g \in Goods, Changes(gd, gd2, n, g),
           \A h \in Goods : Tells(gd, n, RowOf(gd, h)),
           NEW h \in Goods
    PROVE  Tells(gd2, n + 1, RowOf(gd2, h))
<1>1. \A k \in Goods : /\ RowOf(gd, k).good = k
                       /\ RowOf(gd, k).text = gd[k].text /\ RowOf(gd, k).stock = gd[k].stock
                       /\ RowOf(gd, k).stamp = gd[k].stamp
                       /\ RowOf(gd, k).variant.text = gd[k].other
                       /\ RowOf(gd, k).variant.stamp = gd[k].otherStamp
  BY DEF RowOf
<1>2. \A k \in Goods : Tells(gd2, n + 1, RowOf(gd, k))
  BY StillTells
<1>3. \A k \in Goods : /\ gd[k].stamp \in {-k} \cup 1..n /\ gd[k].otherStamp \in {-k} \cup 1..n
                       /\ k \in Nat
  BY <1>1, GoodsNat DEF Tells
<1>4. \A k \in Goods : gd[k].stamp # n + 1 /\ gd[k].otherStamp # n + 1 /\ -k # n + 1
  BY <1>3
<1>5. PICK line : line = RowOf(gd2, h)
  OBVIOUS
<1>6. /\ line.good = h /\ line.text = gd2[h].text /\ line.stock = gd2[h].stock
      /\ line.stamp = gd2[h].stamp
      /\ line.variant.text = gd2[h].other /\ line.variant.stamp = gd2[h].otherStamp
  BY <1>5 DEF RowOf
<1>7. PICK old : old = RowOf(gd, h)
  OBVIOUS
<1>8. /\ old.good = h /\ old.text = gd[h].text /\ old.stock = gd[h].stock
      /\ old.stamp = gd[h].stamp
      /\ old.variant.text = gd[h].other /\ old.variant.stamp = gd[h].otherStamp
      /\ Tells(gd2, n + 1, old)
  BY <1>1, <1>2, <1>7
<1>9. CASE /\ gd2[h].stamp = gd[h].stamp /\ gd2[h].text = gd[h].text
           /\ gd2[h].stock = gd[h].stock
           /\ gd2[h].otherStamp = gd[h].otherStamp /\ gd2[h].other = gd[h].other
  BY <1>5, <1>6, <1>8, <1>9 DEF Tells
<1>10. CASE h = g /\ gd2[g].stamp = n + 1
            /\ gd2[g].otherStamp = gd[g].otherStamp /\ gd2[g].other = gd[g].other
  <2>1. ASSUME NEW k \in Goods, k # h PROVE gd2[k].stamp # n + 1 /\ gd2[k].otherStamp # n + 1
    BY <1>4, <1>10, <2>1 DEF Changes
  <2>2. gd2[h].otherStamp # n + 1 /\ n + 1 \in 1..n + 1
    BY <1>4, <1>10
  <2>3. ASSUME NEW k \in Goods
        PROVE  /\ gd2[k].stamp = line.stamp => k = h
               /\ gd2[k].otherStamp # line.stamp
    BY <1>6, <1>10, <2>1, <2>2
  <2>4. ASSUME NEW k \in Goods
        PROVE  /\ gd2[k].otherStamp = line.variant.stamp => k = h
               /\ gd2[k].stamp = line.variant.stamp => k = h /\ line.variant.stamp = -k
    BY <1>6, <1>8, <1>10 DEF Tells
  <2> QED
    BY <1>4, <1>5, <1>6, <1>8, <1>10, <2>2, <2>3, <2>4 DEF Tells
<1>11. CASE h = g /\ gd2[g].otherStamp = n + 1
            /\ gd2[g].stamp = gd[g].stamp /\ gd2[g].text = gd[g].text /\ gd2[g].stock = gd[g].stock
  <2>1. ASSUME NEW k \in Goods, k # h PROVE gd2[k].stamp # n + 1 /\ gd2[k].otherStamp # n + 1
    BY <1>4, <1>11, <2>1 DEF Changes
  <2>2. gd2[h].stamp # n + 1 /\ n + 1 \in 1..n + 1
    BY <1>4, <1>11
  <2>3. ASSUME NEW k \in Goods
        PROVE  /\ gd2[k].otherStamp = line.variant.stamp => k = h
               /\ gd2[k].stamp # line.variant.stamp
    BY <1>6, <1>11, <2>1, <2>2
  <2>4. ASSUME NEW k \in Goods
        PROVE  /\ gd2[k].stamp = line.stamp => k = h
               /\ gd2[k].otherStamp = line.stamp => k = h /\ line.stamp = -k
    BY <1>6, <1>8, <1>11 DEF Tells
  <2> QED
    BY <1>4, <1>5, <1>6, <1>8, <1>11, <2>2, <2>3, <2>4 DEF Tells
<1> QED
  BY <1>9, <1>10, <1>11 DEF Changes

-----------------------------------------------------------------------------
\* Every row of a body is one of a good as it is.
LEMMA BodiesShow ==
    ASSUME NEW q \in Queries
    PROVE  \A i \in DOMAIN Body(q).rows :
               Body(q).rows[i] = ProductRow(Body(q).rows[i].good)
<1>1. PICK gs : Body(q).rows = Rows(gs)
  BY DEF Body
<1>2. \A i \in DOMAIN gs : Rows(gs)[i] = ProductRow(gs[i]) /\ ProductRow(gs[i]).good = gs[i]
  BY DEF Rows, ProductRow
<1>3. DOMAIN Rows(gs) = DOMAIN gs
  BY DEF Rows
<1> QED
  BY <1>1, <1>2, <1>3

\* A row of the goods as they are and an earlier one that has a stamp of it
\* are of the same good.
LEMMA SharedStamp ==
    ASSUME NEW gd, NEW n, NEW line, Tells(gd, n, line), NEW h \in Goods, NEW s,
           s \in {line.stamp, line.variant.stamp}, s \in {gd[h].stamp, gd[h].otherStamp}
    PROVE  h = line.good
BY DEF Tells

\* The same stamps show the same goods as they are.
LEMMA SameGood ==
    ASSUME NEW gd, NEW n, NEW line, Tells(gd, n, line), NEW h \in Goods, h = line.good,
           {line.stamp, line.variant.stamp} = {gd[h].stamp, gd[h].otherStamp}
    PROVE  gd[h].text = line.text /\ gd[h].stock = line.stock /\ gd[h].other = line.variant.text
<1>1. PICK a, b, c, d : a = line.stamp /\ b = line.variant.stamp
                        /\ c = gd[h].stamp /\ d = gd[h].otherStamp
  OBVIOUS
<1>2. /\ d = a => a = -h
      /\ c = b => b = -h
      /\ c = -h => a = -h
      /\ d = -h => b = -h
      /\ c = a => gd[h].text = line.text /\ gd[h].stock = line.stock
      /\ d = b => gd[h].other = line.variant.text
  BY <1>1 DEF Tells
<1>3. {a, b} = {c, d}
  BY <1>1
<1>4. a = c /\ b = d
  <2>1. (a = c \/ a = d) /\ (b = c \/ b = d) /\ (c = a \/ c = b) /\ (d = a \/ d = b)
    BY <1>3
  <2> QED
    BY <1>2, <2>1
<1> QED
  BY <1>2, <1>4

LEMMA SameBodies ==
    ASSUME NEW q \in Queries, NEW old, NEW c, Shaped(old.rows),
           \A i \in DOMAIN old.rows : Tells(good, c, old.rows[i]),
           SeenIn(old.rows) = SeenIn(Body(q).rows)
    PROVE  Stamped(old) = Stamped(Body(q))
<1>1. PICK n \in Nat : /\ DOMAIN old.rows = 1..n
                       /\ \A i \in 1..n : old.rows[i].good \in Goods
                       /\ \A i, j \in 1..n : i < j => old.rows[i].good > old.rows[j].good
  BY DEF Shaped
<1>2. PICK new : new = Body(q)
  OBVIOUS
<1>3. PICK m \in Nat : /\ DOMAIN new.rows = 1..m
                       /\ \A i \in 1..m : new.rows[i].good \in Goods
                       /\ \A i, j \in 1..m : i < j => new.rows[i].good > new.rows[j].good
  BY <1>2, BodiesShaped DEF Shaped
<1>4. \A j \in 1..m : new.rows[j] = ProductRow(new.rows[j].good)
  BY <1>2, <1>3, BodiesShow
<1>5. \A j \in 1..m : /\ new.rows[j].stamp = good[new.rows[j].good].stamp
                      /\ new.rows[j].text = good[new.rows[j].good].text
                      /\ new.rows[j].stock = good[new.rows[j].good].stock
                      /\ new.rows[j].variant.text = good[new.rows[j].good].other
                      /\ new.rows[j].variant.stamp = good[new.rows[j].good].otherStamp
  <2> TAKE j \in 1..m
  <2>1. PICK g : g = new.rows[j].good
    OBVIOUS
  <2>2. new.rows[j] = ProductRow(g)
    BY <1>4, <2>1
  <2> QED
    BY <2>1, <2>2 DEF ProductRow, VariantRow
<1>6. PICK f, g : f = [i \in 1..n |-> old.rows[i].good] /\ g = [j \in 1..m |-> new.rows[j].good]
  OBVIOUS
<1>7. ASSUME NEW i \in 1..n, NEW s, s \in {old.rows[i].stamp, old.rows[i].variant.stamp}
      PROVE  \E j \in 1..m : s \in {new.rows[j].stamp, new.rows[j].variant.stamp}
  <2>1. s \in SeenIn(new.rows)
    BY <1>1, <1>2, <1>7 DEF SeenIn
  <2> QED
    BY <1>3, <2>1 DEF SeenIn
<1>8. ASSUME NEW j \in 1..m, NEW s, s \in {new.rows[j].stamp, new.rows[j].variant.stamp}
      PROVE  \E i \in 1..n : s \in {old.rows[i].stamp, old.rows[i].variant.stamp}
  <2>1. s \in SeenIn(old.rows)
    BY <1>2, <1>3, <1>8 DEF SeenIn
  <2> QED
    BY <1>1, <2>1 DEF SeenIn
<1>9. ASSUME NEW i \in 1..n, NEW j \in 1..m, NEW s,
             s \in {old.rows[i].stamp, old.rows[i].variant.stamp},
             s \in {new.rows[j].stamp, new.rows[j].variant.stamp}
      PROVE  new.rows[j].good = old.rows[i].good
  <2>1. PICK h \in Goods, line \in {old.rows[i]} : line = old.rows[i] /\ h = new.rows[j].good
    BY <1>3
  <2>2. Tells(good, c, line)
    BY <1>1, <2>1
  <2>3. s \in {good[h].stamp, good[h].otherStamp} /\ s \in {line.stamp, line.variant.stamp}
    BY <1>5, <1>9, <2>1
  <2>4. h = line.good
    BY <2>2, <2>3, SharedStamp
  <2> QED
    BY <2>1, <2>4
<1>10. \A i \in 1..n : \E j \in 1..m : f[i] = g[j]
  BY <1>6, <1>7, <1>9
<1>11. \A j \in 1..m : \E i \in 1..n : f[i] = g[j]
  <2> TAKE j \in 1..m
  <2>1. PICK i \in 1..n : new.rows[j].stamp \in {old.rows[i].stamp, old.rows[i].variant.stamp}
    BY <1>8
  <2>2. new.rows[j].good = old.rows[i].good
    BY <1>9, <2>1
  <2> QED
    BY <1>6, <2>2
<1>12. /\ \A i \in 1..n : f[i] \in Nat
       /\ \A i \in 1..m : g[i] \in Nat
       /\ \A i, j \in 1..n : i < j => f[i] > f[j]
       /\ \A i, j \in 1..m : i < j => g[i] > g[j]
  BY <1>1, <1>3, <1>6, GoodsNat
<1>13. n = m /\ \A i \in 1..n : f[i] = g[i]
  <2>1. Falls(f, n) /\ Falls(g, m) /\ Alike(f, n, g, m)
    BY <1>10, <1>11, <1>12 DEF Falls, Alike
  <2> QED
    BY <2>1, SameFalling
<1>14. ASSUME NEW i \in 1..n, NEW j \in 1..m, new.rows[j].good = old.rows[i].good
       PROVE  j = i
  <2>1. g[j] = g[i] /\ i \in 1..m
    BY <1>6, <1>13, <1>14
  <2>2. ~(i < j) /\ ~(j < i)
    BY <1>12, <2>1
  <2> QED
    BY <2>2
<1>15. ASSUME NEW i \in 1..n
       PROVE  /\ new.rows[i].good = old.rows[i].good
              /\ new.rows[i].text = old.rows[i].text
              /\ new.rows[i].stock = old.rows[i].stock
              /\ new.rows[i].variant.text = old.rows[i].variant.text
  <2>1. i \in 1..m /\ new.rows[i].good = old.rows[i].good
    BY <1>6, <1>13
  <2>2. ASSUME NEW s, s \in {old.rows[i].stamp, old.rows[i].variant.stamp}
        PROVE  s \in {new.rows[i].stamp, new.rows[i].variant.stamp}
    BY <1>7, <1>9, <1>14, <2>2
  <2>3. ASSUME NEW s, s \in {new.rows[i].stamp, new.rows[i].variant.stamp}
        PROVE  s \in {old.rows[i].stamp, old.rows[i].variant.stamp}
    <3>1. PICK k \in 1..n : s \in {old.rows[k].stamp, old.rows[k].variant.stamp}
      BY <1>8, <2>1, <2>3
    <3>2. new.rows[i].good = old.rows[k].good
      BY <1>9, <2>1, <2>3, <3>1
    <3>3. k = i
      BY <1>14, <2>1, <3>2
    <3> QED
      BY <3>1, <3>3
  <2>4. {old.rows[i].stamp, old.rows[i].variant.stamp}
          = {new.rows[i].stamp, new.rows[i].variant.stamp}
    BY <2>2, <2>3
  <2>5. PICK h \in Goods : h = old.rows[i].good
    BY <1>1
  <2>6. {old.rows[i].stamp, old.rows[i].variant.stamp} = {good[h].stamp, good[h].otherStamp}
    BY <1>5, <2>1, <2>4, <2>5
  <2>7. Tells(good, c, old.rows[i])
    BY <1>1
  <2>8. /\ good[h].text = old.rows[i].text /\ good[h].stock = old.rows[i].stock
        /\ good[h].other = old.rows[i].variant.text
    <3>1. PICK line : line = old.rows[i]
      OBVIOUS
    <3>2. /\ Tells(good, c, line) /\ h = line.good
          /\ {line.stamp, line.variant.stamp} = {good[h].stamp, good[h].otherStamp}
      BY <2>5, <2>6, <2>7, <3>1
    <3>3. /\ good[h].text = line.text /\ good[h].stock = line.stock
          /\ good[h].other = line.variant.text
      BY <3>2, SameGood
    <3> QED
      BY <3>1, <3>3
  <2> QED
    BY <1>5, <2>1, <2>5, <2>8
<1> QED
  BY <1>1, <1>2, <1>3, <1>13, <1>15 DEF Stamped

-----------------------------------------------------------------------------
CacheTypes ==
    /\ changed \in Nat
    /\ bulked \in BOOLEAN
    /\ DOMAIN good = Goods
    /\ \A g \in Goods : DOMAIN good[g] = {"live", "text", "stock", "stamp", "other",
                                          "otherStamp", "pictures"}
    /\ DOMAIN copy = {"kept", "fresh", "query", "body"}
    /\ copy.query \in Queries

CacheInv ==
    /\ CacheTypes
    /\ copy.kept => Shaped(copy.body.rows)
    /\ ~bulked => /\ \A h \in Goods : Tells(good, changed, RowOf(good, h))
                  /\ copy.kept => \A i \in DOMAIN copy.body.rows :
                                      Tells(good, changed, copy.body.rows[i])
    /\ CopiesConfirmed

LEMMA CacheBegins == CacheInit => CacheInv
<1> SUFFICES ASSUME CacheInit PROVE CacheInv
  OBVIOUS
<1>1. PICK q \in Queries : copy = NoCopy(q)
  BY DEF CacheInit
<1>2. /\ DOMAIN copy = {"kept", "fresh", "query", "body"} /\ copy.query \in Queries
      /\ copy.kept = FALSE /\ copy.fresh = FALSE
  BY <1>1 DEF NoCopy
<1>3. CacheTypes
  BY <1>2 DEF CacheInit, CacheTypes
<1>4. ASSUME NEW h \in Goods PROVE Tells(good, changed, RowOf(good, h))
  <2>1. \A k \in Goods : /\ good[k].stamp = -k /\ good[k].otherStamp = -k /\ k \in Nat
                         /\ good[k].text = 0 /\ good[k].stock = 1 /\ good[k].other = 0
    BY GoodsNat DEF CacheInit
  <2>2. PICK line : line = RowOf(good, h)
    OBVIOUS
  <2>3. /\ line.good = h /\ line.stamp = -h /\ line.variant.stamp = -h
        /\ line.text = 0 /\ line.stock = 1 /\ line.variant.text = 0
    BY <2>1, <2>2 DEF RowOf
  <2>4. \A k \in Goods : -k = -h => k = h
    BY <2>1
  <2> QED
    BY <2>1, <2>2, <2>3, <2>4 DEF Tells
<1>5. CopiesConfirmed
  BY <1>2 DEF CopiesConfirmed
<1> QED
  BY <1>2, <1>3, <1>4, <1>5 DEF CacheInv

\* A change leaves the copy as it is, no longer confirmed.
LEMMA CopyStays ==
    ASSUME CacheTypes, CacheChange
    PROVE  /\ DOMAIN copy' = {"kept", "fresh", "query", "body"}
           /\ copy'.kept = copy.kept /\ copy'.query = copy.query /\ copy'.body = copy.body
           /\ copy'.fresh = FALSE
           /\ changed' = changed + 1 /\ changed' \in Nat
BY DEF CacheTypes, CacheChange

LEMMA ChangeKeepsCache ==
    ASSUME CacheInv, CacheChange, NEW g \in Goods, Changes(good, good', changed, g),
           bulked' = bulked, DOMAIN good' = Goods,
           \A h \in Goods : DOMAIN good'[h] = {"live", "text", "stock", "stamp", "other",
                                          "otherStamp", "pictures"}
    PROVE  CacheInv'
<1>1. /\ DOMAIN copy' = {"kept", "fresh", "query", "body"}
      /\ copy'.kept = copy.kept /\ copy'.query = copy.query /\ copy'.body = copy.body
      /\ copy'.fresh = FALSE
      /\ changed' = changed + 1 /\ changed' \in Nat
  BY CopyStays DEF CacheInv
<1>2. changed \in Nat
  BY DEF CacheInv, CacheTypes
<1>3. CacheTypes'
  BY <1>1 DEF CacheInv, CacheTypes
<1>4. copy'.kept => Shaped(copy'.body.rows)
  BY <1>1 DEF CacheInv
<1>5. ~bulked => \A h \in Goods : Tells(good', changed + 1, RowOf(good', h))
  BY <1>2, NewTells DEF CacheInv
<1>6. ~bulked /\ copy.kept =>
        \A i \in DOMAIN copy.body.rows : Tells(good', changed + 1, copy.body.rows[i])
  BY <1>2, StillTells DEF CacheInv
<1>7. CopiesConfirmed'
  BY <1>1 DEF CopiesConfirmed
<1>8. (copy.kept => Shaped(copy.body.rows))'
  BY <1>4 DEF Shaped
<1>9. ~bulked' => /\ \A h \in Goods : Tells(good', changed', RowOf(good', h))
                  /\ copy'.kept => \A i \in DOMAIN copy'.body.rows :
                                      Tells(good', changed', copy'.body.rows[i])
  BY <1>1, <1>5, <1>6
<1> QED
  BY <1>3, <1>7, <1>8, <1>9 DEF CacheInv, Tells, RowOf

LEMMA RevalidateKeeps ==
    ASSUME CacheInv, Revalidate
    PROVE  CacheInv'
<1>1. UNCHANGED <<good, section, changed, bulked>>
  BY DEF Revalidate
<1>2. PICK q \in Queries : q = copy.query
  BY DEF CacheInv, CacheTypes
<1>3. PICK body, old : body = Body(q) /\ old = copy.body
  OBVIOUS
<1>4. /\ DOMAIN copy' = {"kept", "fresh", "query", "body"}
      /\ copy'.kept = TRUE /\ copy'.query = q
      /\ copy'.body = IF copy.kept /\ Tag(old) = Tag(body) THEN old ELSE body
  BY <1>2, <1>3 DEF Revalidate, CacheInv, CacheTypes
<1>5. Shaped(body.rows)
  BY <1>3, BodiesShaped
<1>6. \A i \in DOMAIN body.rows : body.rows[i] = ProductRow(body.rows[i].good)
  BY <1>3, BodiesShow
<1>7. ASSUME ~bulked PROVE \A i \in DOMAIN body.rows : Tells(good, changed, body.rows[i])
  <2> TAKE i \in DOMAIN body.rows
  <2>1. PICK g \in Goods : g = body.rows[i].good
    BY <1>5 DEF Shaped
  <2>2. Tells(good, changed, RowOf(good, g))
    BY <1>7 DEF CacheInv
  <2>3. body.rows[i] = ProductRow(g)
    BY <1>6, <2>1
  <2>4. PICK line, same : line = body.rows[i] /\ same = RowOf(good, g)
    OBVIOUS
  <2>5. /\ line.good = same.good /\ line.text = same.text /\ line.stock = same.stock
        /\ line.stamp = same.stamp /\ line.variant.text = same.variant.text
        /\ line.variant.stamp = same.variant.stamp
    BY <2>3, <2>4 DEF RowOf, ProductRow, VariantRow
  <2>6. Tells(good, changed, same)
    BY <2>2, <2>4
  <2> QED
    BY <2>4, <2>5, <2>6 DEF Tells
<1>8. PICK now : now = copy'.body
  OBVIOUS
<1>9. Shaped(now.rows) /\ (~bulked => \A i \in DOMAIN now.rows : Tells(good, changed, now.rows[i]))
  BY <1>3, <1>4, <1>5, <1>7, <1>8 DEF CacheInv
<1>10. (~bulked => Stamped(now) = Stamped(body)) /\ Len(now.rows) = Len(body.rows)
  <2>1. CASE now = body
    BY <2>1
  <2>2. CASE now = old /\ Tag(old) = Tag(body) /\ old.rows = <<>>
    <3>1. body.rows = <<>>
      <4> SUFFICES ASSUME body.rows # <<>> PROVE FALSE
        OBVIOUS
      <4>1. Tag(body) = [stamps |-> Stamps(body), seed |-> 0]
            /\ Tag(old) = [stamps |-> {}, seed |-> old.total]
        BY <2>2 DEF Tag
      <4>2. Stamps(body) = {}
        BY <2>2, <4>1
      <4>3. SeenIn(body.rows) = {}
        BY <4>2, StampsAre
      <4>4. DOMAIN body.rows = {}
        <5> SUFFICES ASSUME NEW i \in DOMAIN body.rows PROVE FALSE
          OBVIOUS
        <5>1. body.rows[i].stamp \in SeenIn(body.rows)
          BY DEF SeenIn
        <5> QED
          BY <4>3, <5>1
      <4> QED
        <5>1. PICK n \in Nat : body.rows = [i \in 1..n |-> body.rows[i]] /\ DOMAIN body.rows = 1..n
          BY <1>5 DEF Shaped
        <5>2. n = 0
          BY <4>4, <5>1
        <5> QED
          BY <5>1, <5>2, LenByDomain
    <3>2. Stamped(now) = Stamped(body)
      BY <2>2, <3>1 DEF Stamped
    <3> QED
      BY <2>2, <3>1, <3>2
  <2>3. CASE now = old /\ Tag(old) = Tag(body) /\ old.rows # <<>>
    <3>1. Stamps(old) = Stamps(body)
      <4>1. CASE body.rows # <<>>
        <5>1. /\ Tag(old) = [stamps |-> Stamps(old), seed |-> 0]
              /\ Tag(body) = [stamps |-> Stamps(body), seed |-> 0]
          BY <2>3, <4>1 DEF Tag
        <5>2. Stamps(old) = Tag(old).stamps /\ Stamps(body) = Tag(body).stamps
          BY <5>1
        <5> QED
          BY <2>3, <5>2
      <4>2. CASE body.rows = <<>>
        <5>1. /\ Tag(old) = [stamps |-> Stamps(old), seed |-> 0]
              /\ Tag(body) = [stamps |-> {}, seed |-> body.total]
          BY <2>3, <4>2 DEF Tag
        <5>2. Stamps(old) = Tag(old).stamps /\ Tag(body).stamps = {}
          BY <5>1
        <5>3. Stamps(body) = {}
          BY <4>2, StampsAre DEF SeenIn
        <5> QED
          BY <2>3, <5>2, <5>3
      <4> QED
        BY <4>1, <4>2
    <3>2. ~bulked => Stamped(now) = Stamped(body)
      <4>1. SeenIn(old.rows) = SeenIn(body.rows)
        BY <3>1, SameStamps
      <4> QED
        BY <1>3, <1>9, <2>3, <4>1, SameBodies
    <3>3. Len(now.rows) = Len(body.rows)
      <4>1. PICK n \in Nat : DOMAIN now.rows = 1..n /\ now.rows = [i \in 1..n |-> now.rows[i]]
        BY <1>9 DEF Shaped
      <4>2. PICK m \in Nat : DOMAIN body.rows = 1..m /\ body.rows = [i \in 1..m |-> body.rows[i]]
        BY <1>5 DEF Shaped
      <4>3. n = m
        BY <2>3, <3>1, <4>1, <4>2, SameLength
      <4> QED
        BY <4>1, <4>2, <4>3, LenByDomain
    <3> QED
      BY <3>2, <3>3
  <2> QED
    BY <1>4, <1>8, <2>1, <2>2, <2>3
<1>11. CopiesConfirmed'
  <2>1. Body(copy'.query) = body
    BY <1>3, <1>4
  <2>2. Body(copy.query)' = Body(copy'.query)
    BY <1>1 DEF Body, Rows, ProductRow, VariantRow, Listed, OnPage, Matches, InRange
  <2> QED
    BY <1>1, <1>8, <1>10, <2>1, <2>2 DEF CopiesConfirmed, Stamped
<1>12. CacheTypes'
  BY <1>1, <1>4 DEF CacheInv, CacheTypes
<1>13. copy'.kept => Shaped(copy'.body.rows)
  BY <1>8, <1>9
<1>14. ~bulked' => /\ \A h \in Goods : Tells(good', changed', RowOf(good', h))
                   /\ \A i \in DOMAIN copy'.body.rows : Tells(good', changed', copy'.body.rows[i])
  BY <1>1, <1>8, <1>9 DEF CacheInv
<1>15. (copy.kept => Shaped(copy.body.rows))'
  BY <1>13 DEF Shaped
<1> QED
  BY <1>11, <1>12, <1>14, <1>15 DEF CacheInv, Tells, RowOf

\* The requests that write one good, and those that write none.
LEMMA GoodChangeKeeps ==
    ASSUME CacheInv,
           \/ \E g \in Goods : EditGood(g) \/ ChangeStock(g) \/ EditVariant(g) \/ HideGood(g)
                               \/ ChangePictures(g)
           \/ RenameSection
    PROVE  CacheInv'
<1>1. /\ DOMAIN good = Goods /\ changed \in Nat
      /\ \A g \in Goods : DOMAIN good[g] = {"live", "text", "stock", "stamp", "other",
                                            "otherStamp", "pictures"}
  BY DEF CacheInv, CacheTypes
<1>2. ASSUME NEW g \in Goods, EditGood(g) \/ ChangeStock(g) \/ EditVariant(g) \/ HideGood(g)
                              \/ ChangePictures(g)
      PROVE  CacheInv'
  <2>1. PICK old : old = good[g]
    OBVIOUS
  <2>2. /\ CacheChange /\ bulked' = bulked
        /\ \/ good' = [good EXCEPT ![g].text = changed + 1, ![g].stamp = changed + 1]
           \/ good' = [good EXCEPT ![g].stock = 1 - @, ![g].stamp = changed + 1]
           \/ good' = [good EXCEPT ![g].other = changed + 1, ![g].otherStamp = changed + 1]
           \/ good' = [good EXCEPT ![g].live = FALSE, ![g].stamp = changed + 1]
           \/ good' = [good EXCEPT ![g].pictures = changed + 1]
    BY <1>2 DEF EditGood, ChangeStock, EditVariant, HideGood, ChangePictures, Now
  <2>4. DOMAIN old = {"live", "text", "stock", "stamp", "other", "otherStamp", "pictures"}
    BY <1>1, <2>1
  <2>3. PICK new : new = good'[g]
    OBVIOUS
  <2>6. /\ DOMAIN good' = Goods
        /\ \A h \in Goods : h # g => good'[h] = good[h]
        /\ \/ new = [old EXCEPT !.text = changed + 1, !.stamp = changed + 1]
           \/ new = [old EXCEPT !.stock = 1 - @, !.stamp = changed + 1]
           \/ new = [old EXCEPT !.other = changed + 1, !.otherStamp = changed + 1]
           \/ new = [old EXCEPT !.live = FALSE, !.stamp = changed + 1]
           \/ new = [old EXCEPT !.pictures = changed + 1]
    BY <1>1, <2>1, <2>2, <2>3
  <2>5. /\ DOMAIN new = DOMAIN old
        /\ \/ /\ new.stamp = old.stamp /\ new.text = old.text /\ new.stock = old.stock
              /\ \/ new.otherStamp = changed + 1
                 \/ new.otherStamp = old.otherStamp /\ new.other = old.other
           \/ /\ new.stamp = changed + 1
              /\ new.otherStamp = old.otherStamp /\ new.other = old.other
    BY <2>4, <2>6
  <2>7. Changes(good, good', changed, g)
    BY <2>1, <2>3, <2>5, <2>6 DEF Changes
  <2>8. \A h \in Goods : DOMAIN good'[h] = {"live", "text", "stock", "stamp", "other",
                                            "otherStamp", "pictures"}
    BY <1>1, <2>3, <2>4, <2>5, <2>6
  <2> QED
    BY <2>2, <2>6, <2>7, <2>8, ChangeKeepsCache
<1>3. CASE RenameSection
  <2>1. CacheChange /\ good' = good /\ bulked' = bulked
    BY <1>3 DEF RenameSection
  <2>2. CASE \E g \in Goods : TRUE
    <3>1. PICK g \in Goods : TRUE
      BY <2>2
    <3>2. Changes(good, good', changed, g)
      BY <2>1 DEF Changes
    <3> QED
      BY <1>1, <2>1, <3>2, ChangeKeepsCache
  <2>3. CASE Goods = {}
    <3>1. /\ copy'.kept = copy.kept /\ copy'.query = copy.query /\ copy'.body = copy.body
          /\ DOMAIN copy' = {"kept", "fresh", "query", "body"}
          /\ copy'.fresh = FALSE /\ changed' \in Nat
      BY <2>1, CopyStays DEF CacheInv
    <3>2. CacheTypes' /\ CopiesConfirmed'
      BY <2>1, <3>1 DEF CacheInv, CacheTypes, CopiesConfirmed
    <3>3. ~bulked /\ copy.kept => DOMAIN copy.body.rows = {}
      <4> SUFFICES ASSUME copy.kept, NEW i \in DOMAIN copy.body.rows PROVE FALSE
        OBVIOUS
      <4>1. copy.body.rows[i].good \in Goods
        BY DEF CacheInv, Shaped
      <4> QED
        BY <2>3, <4>1
    <3>4. (copy.kept => Shaped(copy.body.rows))'
      BY <3>1 DEF CacheInv, Shaped
    <3>5. ~bulked' => /\ \A h \in Goods : Tells(good', changed', RowOf(good', h))
                      /\ copy'.kept => \A i \in DOMAIN copy'.body.rows :
                                           Tells(good', changed', copy'.body.rows[i])
      BY <2>1, <2>3, <3>1, <3>3
    <3> QED
      BY <3>2, <3>4, <3>5 DEF CacheInv, Tells, RowOf
  <2> QED
    BY <2>2, <2>3
<1> QED
  BY <1>2, <1>3

LEMMA ShowManyKeeps ==
    ASSUME CacheInv, NEW gs \in SUBSET Goods, NEW live \in BOOLEAN, ShowMany(gs, live)
    PROVE  CacheInv'
<1>1. /\ copy'.kept = copy.kept /\ copy'.query = copy.query /\ copy'.body = copy.body
      /\ DOMAIN copy' = {"kept", "fresh", "query", "body"}
      /\ copy'.fresh = FALSE /\ changed' \in Nat
  BY CopyStays DEF CacheInv, ShowMany
<1>2. bulked' = TRUE /\ DOMAIN good' = Goods
  BY DEF ShowMany
<1>3. ASSUME NEW g \in Goods
      PROVE  DOMAIN good'[g] = {"live", "text", "stock", "stamp", "other", "otherStamp",
                                "pictures"}
  BY DEF ShowMany, CacheInv, CacheTypes
<1>4. CacheTypes' /\ CopiesConfirmed'
  BY <1>1, <1>2, <1>3 DEF CacheInv, CacheTypes, CopiesConfirmed
<1>5. (copy.kept => Shaped(copy.body.rows))'
  BY <1>1 DEF CacheInv, Shaped
<1> QED
  BY <1>2, <1>4, <1>5 DEF CacheInv

LEMMA CacheStep == CacheInv /\ [CacheNext]_cacheVars => CacheInv'
<1> SUFFICES ASSUME CacheInv, [CacheNext]_cacheVars PROVE CacheInv'
  OBVIOUS
<1>1. CASE UNCHANGED cacheVars
  <2>1. UNCHANGED <<good, section, copy, changed, bulked>>
    BY <1>1 DEF cacheVars
  <2>2. CopiesConfirmed'
    <3>1. Body(copy.query)' = Body(copy.query)
      BY <2>1 DEF Body, Rows, ProductRow, VariantRow, Listed, OnPage, Matches, InRange
    <3> QED
      BY <2>1, <3>1 DEF CacheInv, CopiesConfirmed, Stamped
  <2>3. CacheTypes' /\ (copy.kept => Shaped(copy.body.rows))'
    BY <2>1 DEF CacheInv, CacheTypes, Shaped
  <2>4. ~bulked' => /\ \A h \in Goods : Tells(good', changed', RowOf(good', h))
                    /\ copy'.kept => \A i \in DOMAIN copy'.body.rows :
                                         Tells(good', changed', copy'.body.rows[i])
    BY <2>1 DEF CacheInv
  <2> QED
    BY <2>2, <2>3, <2>4 DEF CacheInv, Tells, RowOf
<1> QED
  BY <1>1, GoodChangeKeeps, ShowManyKeeps, RevalidateKeeps DEF CacheNext

LEMMA CacheInvariant == CacheSpec => []CopiesConfirmed
<1>1. CacheInv => CopiesConfirmed
  BY DEF CacheInv
<1> QED
  BY <1>1, CacheBegins, CacheStep, PTL DEF CacheSpec

-----------------------------------------------------------------------------
\* However staff upload, reuse and delete pictures, rename products, take back
\* names and fail, no stored file is left that no row names but for those on
\* their way up or down, every old link leads to the product that had it, and
\* the sitemap names what is there (image upload and product services, the
\* slug history and its redirects), for any numbers of files, rows, products
\* and requests.
THEOREM LinksAlwaysLead == PagesSpec => []LinksLead
BY SlugsInvariant, MediaInvariant, PTL DEF PagesSpec, LinksLead

\* However reads and changes of a flag overlap, no answer is older than a
\* cached entry may be; a browser's copy that the server has just confirmed by
\* its tag shows the products as they are; and the alarms, the dashboard and
\* the report agree with the rows (feature flag adapter, http-cache, report
\* and analytics services), for any numbers of readers, goods, orders and
\* sales and any lengths of time.
THEOREM CachesAlwaysAgree == CachesSpec => []CachesAgree
BY FlagInvariant, CacheInvariant, FiguresInvariant, PTL DEF CachesSpec, CachesAgree

-----------------------------------------------------------------------------
(* The types: of what requests, curators and administrators are about, of  *)
(* the rows that the figures are made of, and of the bounds of an instance. *)

MediaTyped == MediaInv /\ requests \in 0..MaxPictureRequests

LEMMA MediaTypedBegins == MediaInit => MediaTyped
  BY MediaBegins, MediaAssumption DEF MediaInit, MediaTyped

LEMMA MediaTypedStep == MediaTyped /\ [MediaNext]_mediaVars => MediaTyped'
<1> SUFFICES ASSUME MediaTyped, [MediaNext]_mediaVars
             PROVE  requests' \in 0..MaxPictureRequests
  BY MediaStep DEF MediaTyped
<1>1. requests' = requests \/ (requests < MaxPictureRequests /\ requests' = requests + 1)
  BY DEF mediaVars, MediaNext, UploadImages, UploadAssets, BeginUpload, StoreFile, AddRows,
     UploadFails, BeginReuse, Reuse, ReleaseModel, DeleteAsset, DeleteImage, BeginDelete, Ask,
     DestroyFile, RemoveRow, DeleteFails
<1> QED
  BY <1>1, MediaAssumption DEF MediaTyped

LEMMA MediaIsTyped == MediaTyped => MediaTypeOK
  BY DEF MediaTyped, MediaInv, MediaTypes, MediaTypeOK, PictureRecords, CuratorRecords

RenamerRecords ==
    [pc : {"idle", "product", "category"}, of : Wares \cup Shelves \cup {NoWare},
     from : SlugNames \cup {NoSlug}, to : SlugNames \cup {NoSlug}]

SlugsTyped ==
    /\ SlugsInv
    /\ renamer \in [Renamers -> RenamerRecords]
    /\ slugSteps \in 0..MaxSlugSteps
    /\ returned \subseteq Wares

LEMMA SlugsTypedBegins == SlugsInit => SlugsTyped
<1> SUFFICES ASSUME SlugsInit PROVE SlugsTyped
  OBVIOUS
<1>1. Rested \in RenamerRecords
  BY DEF Rested, RenamerRecords
<1> QED
  BY <1>1, SlugsBegin, SlugsAssumption DEF SlugsInit, SlugsTyped

\* What a request has read and writes next.
LEMMA RenamersTyped ==
    ASSUME SlugsTyped, SlugsNext PROVE renamer' \in [Renamers -> RenamerRecords]
<1>1. renamer \in [Renamers -> RenamerRecords] /\ Rested \in RenamerRecords
  BY DEF SlugsTyped, Rested, RenamerRecords
<1>2. /\ slugOf \in [Wares -> SlugNames \cup {NoSlug}]
      /\ kindSlug \in [Shelves -> SlugNames \cup {NoSlug}]
  BY DEF SlugsTyped, SlugsInv, SlugTypes
<1>3. CASE \/ \E w \in Wares, n \in SlugNames \cup {NoSlug} : CreateWare(w, n)
           \/ \E w \in Wares : HideWare(w)
           \/ \E ws \in SUBSET Wares, b \in BOOLEAN : SetManyShown(ws, b)
           \/ \E k \in Shelves : DeleteKind(k)
  BY <1>1, <1>3 DEF CreateWare, HideWare, SetManyShown, SetShown, DeleteKind
<1>4. ASSUME NEW c \in Renamers, CommitRename(c) \/ RefuseRename(c) \/ WriteKind(c)
      PROVE  renamer' \in [Renamers -> RenamerRecords]
  <2>1. renamer' = [renamer EXCEPT ![c] = Rested]
    BY <1>4 DEF CommitRename, RefuseRename, WriteKind, Finish
  <2> QED
    BY <1>1, <2>1
<1>5. ASSUME NEW c \in Renamers, NEW pc \in {"product", "category"},
             NEW x \in Wares \cup Shelves,
             NEW from \in SlugNames \cup {NoSlug}, NEW to \in SlugNames \cup {NoSlug},
             StartRequest(c, pc, x, from, to)
      PROVE  renamer' \in [Renamers -> RenamerRecords]
  <2>1. PICK new : new = [pc |-> pc, of |-> x, from |-> from, to |-> to]
    OBVIOUS
  <2>2. new \in RenamerRecords
    BY <2>1 DEF RenamerRecords
  <2>3. renamer' = [renamer EXCEPT ![c] = new]
    BY <1>5, <2>1 DEF StartRequest
  <2> QED
    BY <1>1, <2>2, <2>3
<1>6. ASSUME NEW c \in Renamers, NEW w \in Wares, NEW n \in SlugNames, BeginRename(c, w, n)
      PROVE  renamer' \in [Renamers -> RenamerRecords]
  <2>1. StartRequest(c, "product", w, slugOf[w], n)
    BY <1>6 DEF BeginRename
  <2> QED
    BY <1>2, <1>5, <2>1
<1>7. ASSUME NEW c \in Renamers, NEW k \in Shelves, NEW asked \in SlugNames \cup {NoSlug},
             BeginCreateKind(c, k, asked)
      PROVE  renamer' \in [Renamers -> RenamerRecords]
  <2>1. PICK n \in Offered(asked, Used(kindSlug, k)) : StartRequest(c, "category", k, NoSlug, n)
    BY <1>7 DEF BeginCreateKind
  <2>2. n \in SlugNames
    BY OfferedFree
  <2> QED
    BY <1>5, <2>1, <2>2
<1>8. ASSUME NEW c \in Renamers, NEW k \in Shelves, NEW n \in SlugNames, BeginRenameKind(c, k, n)
      PROVE  renamer' \in [Renamers -> RenamerRecords]
  <2>1. StartRequest(c, "category", k, kindSlug[k], n)
    BY <1>8 DEF BeginRenameKind
  <2> QED
    BY <1>2, <1>5, <2>1
<1> QED
  BY <1>3, <1>4, <1>6, <1>7, <1>8 DEF SlugsNext

LEMMA SlugsTypedStep == SlugsTyped /\ [SlugsNext]_slugVars => SlugsTyped'
<1> SUFFICES ASSUME SlugsTyped, [SlugsNext]_slugVars
             PROVE  /\ renamer' \in [Renamers -> RenamerRecords]
                    /\ slugSteps' \in 0..MaxSlugSteps /\ returned' \subseteq Wares
  BY SlugsStep DEF SlugsTyped
<1>1. renamer' \in [Renamers -> RenamerRecords]
  BY RenamersTyped DEF SlugsTyped, slugVars
<1>2. slugSteps' = slugSteps \/ (slugSteps < MaxSlugSteps /\ slugSteps' = slugSteps + 1)
  BY DEF slugVars, SlugsNext, CreateWare, BeginRename, BeginCreateKind, BeginRenameKind,
     StartRequest, SlugStep, CommitRename, RefuseRename, WriteKind, HideWare, SetManyShown,
     SetShown, DeleteKind
<1>3. returned' = returned \/ \E c \in Renames : returned' = returned \cup {renamer[c].of}
  BY DEF slugVars, SlugsNext, CreateWare, BeginRename, BeginCreateKind, BeginRenameKind,
     StartRequest, CommitRename, RefuseRename, WriteKind, HideWare, SetManyShown,
     SetShown, DeleteKind, Renames
<1>4. \A c \in Renames : renamer[c].of \in Wares
  BY DEF SlugsTyped, SlugsInv, SlugTypes
<1> QED
  BY <1>1, <1>2, <1>3, <1>4, SlugsAssumption DEF SlugsTyped

LEMMA SlugsAreTyped == SlugsTyped => SlugsTypeOK
  BY DEF SlugsTyped, SlugsInv, SlugTypes, SlugsTypeOK, RenamerRecords

FlagTyped ==
    /\ FlagInv /\ AdminWrites
    /\ \A a \in Adapters \cup {AdminAdapter} : flagCache[a].expiresAt >= 0
    /\ admin \in [Admins -> [pc : {"idle", "writing"}, value : BOOLEAN,
                             since : 0..MaxFlagTime]]
    /\ flagPast \in [0..MaxFlagTime -> SUBSET BOOLEAN]

LEMMA FlagTypedBegins == FlagInit => FlagTyped
<1> SUFFICES ASSUME FlagInit PROVE FlagTyped
  OBVIOUS
<1>1. NoAdmin \in [pc : {"idle", "writing"}, value : BOOLEAN, since : 0..MaxFlagTime]
  BY FlagAssumption DEF NoAdmin
<1>2. ValueOf(flagRow) \in BOOLEAN
  BY DEF FlagInit, ValueOf
<1>3. AdminWrites
  BY DEF FlagInit, AdminWrites, NoAdmin
<1> QED
  BY <1>1, <1>2, <1>3, FlagBegins DEF FlagInit, FlagTyped

LEMMA FlagTypedStep == FlagTyped /\ [FlagNext]_flagVars => FlagTyped'
<1> DEFINE AdminRecords == [pc : {"idle", "writing"}, value : BOOLEAN, since : 0..MaxFlagTime]
<1> SUFFICES ASSUME FlagTyped, [FlagNext]_flagVars PROVE FlagTyped'
  OBVIOUS
<1>1. FlagInv' /\ AdminWrites'
  BY FlagStep, AdminStep DEF FlagTyped
<1>2. flagNow \in 0..MaxFlagTime /\ MaxFlagTime \in Nat /\ FlagTTL \in Nat
      /\ flagRow \in BOOLEAN \cup {NoFlagRow} /\ FlagTypes
      /\ admin \in [Admins -> AdminRecords] /\ flagPast \in [0..MaxFlagTime -> SUBSET BOOLEAN]
  BY FlagAssumption DEF FlagTyped, FlagInv, FlagTypes
<1>3. \A a \in Adapters \cup {AdminAdapter} : flagCache'[a].expiresAt >= 0
  <2>1. CASE flagCache' = flagCache
    BY <2>1 DEF FlagTyped
  <2>2. ASSUME NEW b, NEW value, flagCache' = [flagCache EXCEPT ![b] = Entry(value)]
        PROVE  \A a \in Adapters \cup {AdminAdapter} : flagCache'[a].expiresAt >= 0
    <3>1. PICK entry : entry = Entry(value)
      OBVIOUS
    <3>2. entry.expiresAt >= 0
      BY <1>2, <3>1 DEF Entry
    <3>3. \A a \in Adapters \cup {AdminAdapter} : flagCache'[a] = entry \/ flagCache'[a] = flagCache[a]
      BY <1>2, <2>2, <3>1 DEF FlagTypes
    <3> QED
      BY <3>2, <3>3 DEF FlagTyped
  <2>3. flagCache' = flagCache \/ \E b, value : flagCache' = [flagCache EXCEPT ![b] = Entry(value)]
    BY DEF FlagNext, FlagTick, CacheRow, ReadCached, ReadRow, WriteFlagRow, CacheWritten, flagVars
  <2> QED
    BY <2>1, <2>2, <2>3
<1>4. admin' \in [Admins -> AdminRecords]
  <2>1. CASE admin' = admin
    BY <1>2, <2>1
  <2>2. ASSUME NEW u \in Admins, NEW new \in AdminRecords, admin' = [admin EXCEPT ![u] = new]
        PROVE  admin' \in [Admins -> AdminRecords]
    BY <1>2, <2>2
  <2>3. ASSUME NEW u \in Admins, CacheWritten(u) \/ \E value \in BOOLEAN : WriteFlagRow(u, value)
        PROVE  \E new \in AdminRecords : admin' = [admin EXCEPT ![u] = new]
    <3>1. CASE CacheWritten(u)
      <4>1. NoAdmin \in AdminRecords
        BY <1>2 DEF NoAdmin
      <4> QED
        BY <3>1, <4>1 DEF CacheWritten
    <3>2. CASE \E value \in BOOLEAN : WriteFlagRow(u, value)
      <4>1. PICK value \in BOOLEAN : WriteFlagRow(u, value)
        BY <3>2
      <4>2. [pc |-> "writing", value |-> value, since |-> flagNow] \in AdminRecords
        BY <1>2
      <4> QED
        BY <4>1, <4>2 DEF WriteFlagRow
    <3> QED
      BY <2>3, <3>1, <3>2
  <2> QED
    BY <2>1, <2>2, <2>3 DEF FlagNext, FlagTick, CacheRow, ReadCached, ReadRow, flagVars
<1>5. flagPast' \in [0..MaxFlagTime -> SUBSET BOOLEAN]
  <2>1. CASE FlagTick
    <3>1. ValueOf(flagRow) \in BOOLEAN
      BY <1>2 DEF ValueOf
    <3> QED
      BY <1>2, <2>1, <3>1 DEF FlagTick
  <2>2. CASE \E u \in Admins, value \in BOOLEAN : WriteFlagRow(u, value)
    <3>1. PICK value \in BOOLEAN :
            flagPast' = [flagPast EXCEPT ![flagNow] = flagPast[flagNow] \cup {value}]
      BY <2>2 DEF WriteFlagRow
    <3> QED
      BY <1>2, <3>1
  <2>3. CASE flagPast' = flagPast
    BY <1>2, <2>3
  <2> QED
    BY <2>1, <2>2, <2>3 DEF FlagNext, CacheRow, ReadCached, ReadRow, CacheWritten, flagVars
<1> QED
  BY <1>1, <1>3, <1>4, <1>5 DEF FlagTyped

LEMMA FlagIsTyped == FlagTyped => FlagTypeOK
<1> SUFFICES ASSUME FlagTyped PROVE FlagTypeOK
  OBVIOUS
<1>1. FlagTypes
  BY DEF FlagTyped, FlagInv
<1>2. ASSUME NEW a \in Adapters \cup {AdminAdapter}
      PROVE  flagCache[a] \in [value : BOOLEAN, expiresAt : Nat]
  <2>1. PICK e \in [value : BOOLEAN, expiresAt : Int] : e = flagCache[a]
    BY <1>1 DEF FlagTypes
  <2>2. e.expiresAt \in Nat
    BY <2>1 DEF FlagTyped
  <2> QED
    BY <2>1, <2>2
<1>3. flagCache \in [Adapters \cup {AdminAdapter} -> [value : BOOLEAN, expiresAt : Nat]]
  BY <1>1, <1>2 DEF FlagTypes
<1> QED
  BY <1>1, <1>3 DEF FlagTyped, FlagTypes, FlagTypeOK

OrderRecords ==
    [status : {"NONE", "PENDING_PAYMENT", "PAID", "EXPIRED", "CANCELLED"},
     made : Hours \cup {Never}, paidAt : Hours \cup {Never},
     expiredAt : Hours \cup {Never}, reallyPaid : Hours \cup {Never}, again : BOOLEAN]
SlipRecords ==
    [kind : {"NONE", "CASH", "CREDIT", "PAYMENT"}, made : Hours \cup {Never},
     order : WebOrders \cup {Nobody}]
ViewRecords == [physical : 0..Cardinality(SlipRows), online : 0..Cardinality(WebOrders)]
TickRecords == [pc : {"idle", "counted"}, alarms : SUBSET Codes]
SinceRecords == [unseen : SUBSET AllDays, calm : BOOLEAN, judged : BOOLEAN]

FiguresTyped ==
    /\ FigureInv
    /\ entries \in 0..MaxEntries
    /\ web \in [WebOrders -> OrderRecords] /\ slip \in [SlipRows -> SlipRecords]
    /\ view \in [AllDays -> ViewRecords]
    /\ refresher \in BOOLEAN /\ evaluator \in TickRecords
    /\ alarms \subseteq Codes /\ since \in SinceRecords

LEMMA NothingTyped ==
    /\ NoWeb \in OrderRecords /\ NoSlip \in SlipRecords /\ NoTick \in TickRecords
    /\ [unseen |-> {}, calm |-> FALSE, judged |-> FALSE] \in SinceRecords
  BY DEF NoWeb, NoSlip, NoTick, OrderRecords, SlipRecords, TickRecords, SinceRecords

\* The view counts no more rows than there are.
LEMMA ViewTyped == DailySales \in [AllDays -> ViewRecords]
<1>1. IsFiniteSet(SlipRows) /\ IsFiniteSet(WebOrders)
  BY FiguresAssumption
<1>2. ASSUME NEW d \in AllDays
      PROVE  /\ Cardinality(SlipsIn({"CASH", "CREDIT"}, InDay(d))) \in 0..Cardinality(SlipRows)
             /\ Cardinality(PaidIn(InDay(d))) \in 0..Cardinality(WebOrders)
  <2>1. PICK slips, paid : slips = SlipsIn({"CASH", "CREDIT"}, InDay(d)) /\ paid = PaidIn(InDay(d))
    OBVIOUS
  <2>2. slips \subseteq SlipRows /\ paid \subseteq WebOrders
    BY <2>1 DEF SlipsIn, PaidIn
  <2>3. /\ Cardinality(slips) \in Nat /\ Cardinality(slips) <= Cardinality(SlipRows)
        /\ Cardinality(paid) \in Nat /\ Cardinality(paid) <= Cardinality(WebOrders)
        /\ Cardinality(SlipRows) \in Nat /\ Cardinality(WebOrders) \in Nat
    BY <1>1, <2>2, FS_Subset, FS_CardinalityType
  <2> QED
    BY <2>1, <2>3
<1> QED
  BY <1>2 DEF DailySales, ViewRecords

LEMMA FiguresTypedBegin == FiguresInit => FiguresTyped
<1> SUFFICES ASSUME FiguresInit PROVE FiguresTyped
  OBVIOUS
<1>1. web \in [WebOrders -> OrderRecords] /\ slip \in [SlipRows -> SlipRecords]
      /\ evaluator \in TickRecords /\ since \in SinceRecords
  BY NothingTyped DEF FiguresInit
<1>2. view \in [AllDays -> ViewRecords]
  BY ViewTyped DEF FiguresInit
<1>3. entries \in 0..MaxEntries /\ refresher \in BOOLEAN /\ alarms \subseteq Codes
  <2>1. entries = 0 /\ refresher = FALSE /\ alarms = {}
    BY DEF FiguresInit
  <2>2. MaxEntries \in Nat
    BY FiguresAssumption
  <2>3. entries \in 0..MaxEntries
    BY <2>1, <2>2
  <2> QED
    BY <2>1, <2>3
<1> QED
  BY <1>1, <1>2, <1>3, FiguresBegin DEF FiguresTyped

LEMMA DayIn == \A h \in Hours : DayOf(h) \in AllDays
<1> TAKE h \in Hours
<1>1. DayOf(h) \in Nat
  BY FiguresAssumption DEF DayOf, Hours
<1>2. DayOf(h) <= DayOf(h) /\ DayOf(h) \in Int
  BY <1>1
<1> QED
  BY <1>1, <1>2, DaysAgo

\* An order that is written, and the sale that may come with it.
LEMMA RewriteTyped ==
    ASSUME FiguresTyped, NEW o \in WebOrders, NEW line \in OrderRecords,
           NEW days \in SUBSET AllDays, Rewrite(o, line, days),
           \/ slip' = slip
           \/ \E s \in SlipRows : slip' = [slip EXCEPT
                                ![s] = [kind |-> "CASH", made |-> hour, order |-> o]]
    PROVE  /\ web' \in [WebOrders -> OrderRecords] /\ slip' \in [SlipRows -> SlipRecords]
           /\ alarms' \subseteq Codes /\ since' \in SinceRecords
<1>1. /\ web' = [web EXCEPT ![o] = line] /\ alarms' = {}
      /\ since' = [unseen |-> since.unseen \cup days, calm |-> FALSE, judged |-> FALSE]
  BY DEF Rewrite, Stirred
<1>2. web' \in [WebOrders -> OrderRecords]
  BY <1>1 DEF FiguresTyped
<1>3. since.unseen \cup days \subseteq AllDays
  BY DEF FiguresTyped, SinceRecords
<1>4. since' \in SinceRecords
  BY <1>1, <1>3 DEF SinceRecords
<1>5. [kind |-> "CASH", made |-> hour, order |-> o] \in SlipRecords
  BY DEF FiguresTyped, FigureInv, FigureTypes, SlipRecords
<1>6. slip' \in [SlipRows -> SlipRecords]
  BY <1>5 DEF FiguresTyped
<1> QED
  BY <1>1, <1>2, <1>4, <1>6

LEMMA OrderTyped ==
    ASSUME FiguresTyped, NEW o \in WebOrders,
           \/ PlaceOrder(o) \/ OrderPaid(o) \/ CancelOrder(o) \/ ExpireOrder(o)
           \/ StaffMarkPaid(o)
    PROVE  FiguresTyped'
<1>1. PICK old \in OrderRecords : old = web[o]
  BY DEF FiguresTyped
<1>2. hour \in Hours /\ old.made \in Hours \cup {Never} /\ NoWeb \in OrderRecords
  BY NothingTyped DEF FiguresTyped, FigureInv, FigureTypes, OrderRecords
<1>3. UNCHANGED <<view, refresher, evaluator>> /\ Entered
  BY DEF PlaceOrder, OrderPaid, CancelOrder, ExpireOrder, StaffMarkPaid, Rewrite
<1>4. old = NoWeb \/ DayOf(old.made) \in AllDays
  BY <1>1, DayIn DEF FiguresTyped, FigureInv, OrderDated
<1>5. entries' \in 0..MaxEntries
  BY <1>3, FiguresAssumption DEF FiguresTyped, Entered
<1> DEFINE Written == /\ web' \in [WebOrders -> OrderRecords] /\ slip' \in [SlipRows -> SlipRecords]
                      /\ alarms' \subseteq Codes /\ since' \in SinceRecords
<1>6. CASE PlaceOrder(o)
  <2> DEFINE line == [NoWeb EXCEPT !.status = "PENDING_PAYMENT", !.made = hour]
  <2>1. line \in OrderRecords
    BY <1>2 DEF OrderRecords
  <2>2. Rewrite(o, line, {}) /\ slip' = slip
    BY <1>6 DEF PlaceOrder
  <2> HIDE DEF line
  <2>3. Written
    BY <2>1, <2>2, RewriteTyped
  <2> QED
    BY <1>3, <1>5, <2>3, OrderKeeps DEF FiguresTyped
<1>7. CASE ExpireOrder(o)
  <2> DEFINE line == [old EXCEPT !.status = "EXPIRED", !.expiredAt = hour]
  <2>1. line \in OrderRecords
    BY <1>2 DEF OrderRecords
  <2>2. Rewrite(o, line, {}) /\ slip' = slip
    BY <1>1, <1>7 DEF ExpireOrder
  <2> HIDE DEF line
  <2>3. Written
    BY <2>1, <2>2, RewriteTyped
  <2> QED
    BY <1>3, <1>5, <2>3, OrderKeeps DEF FiguresTyped
<1>10. CASE CancelOrder(o)
  <2> DEFINE line == [old EXCEPT !.status = "CANCELLED", !.reallyPaid = Never]
             days == IF old.status = "PAID" THEN {DayOf(old.made)} ELSE {}
  <2>1. line \in OrderRecords
    BY <1>2 DEF OrderRecords
  <2>2. Rewrite(o, line, days) /\ slip' = slip /\ old # NoWeb
    BY <1>1, <1>10 DEF CancelOrder
  <2>4. days \in SUBSET AllDays
    BY <1>4, <2>2
  <2> HIDE DEF line, days
  <2>3. Written
    BY <2>1, <2>2, <2>4, RewriteTyped
  <2> QED
    BY <1>3, <1>5, <1>10, <2>3, OrderKeeps DEF FiguresTyped
<1>8. CASE OrderPaid(o)
  <2> DEFINE line == [old EXCEPT !.status = "PAID", !.paidAt = hour,
                    !.reallyPaid = IF old.status = "PAID" THEN @ ELSE hour]
  <2>1. line \in OrderRecords
    BY <1>2 DEF OrderRecords
  <2>2. Rewrite(o, line, {DayOf(old.made)}) /\ slip' = slip /\ old # NoWeb
    BY <1>1, <1>8 DEF OrderPaid
  <2> HIDE DEF line
  <2>3. Written
    BY <1>4, <2>1, <2>2, RewriteTyped
  <2> QED
    BY <1>3, <1>5, <2>3, OrderKeeps DEF FiguresTyped
<1>9. CASE StaffMarkPaid(o)
  <2> DEFINE line == [old EXCEPT !.status = "PAID",
                    !.reallyPaid = IF old.status = "PAID" THEN @ ELSE hour]
             marked == [line EXCEPT !.again = TRUE]
  <2>1. line \in OrderRecords /\ line.made = old.made
    BY <1>2 DEF OrderRecords
  <2> HIDE DEF line
  <2>2. marked \in OrderRecords /\ marked.made = old.made
    BY <2>1 DEF OrderRecords
  <2>3. \/ Rewrite(o, line, {DayOf(old.made)}) /\ slip' = slip
        \/ /\ \E s \in SlipRows : slip' = [slip EXCEPT
                            ![s] = [kind |-> "CASH", made |-> hour, order |-> o]]
           /\ Rewrite(o, marked, {DayOf(old.made)})
    BY <1>1, <1>9, <2>1, <2>2 DEF StaffMarkPaid, line
  <2>4. {DayOf(old.made)} \in SUBSET AllDays
    BY <1>1, <1>4, <1>9 DEF StaffMarkPaid
  <2> HIDE DEF marked
  <2>5. CASE Rewrite(o, line, {DayOf(old.made)}) /\ slip' = slip
    <3>1. Written
      BY <2>1, <2>4, <2>5, RewriteTyped
    <3> QED
      BY <1>3, <1>5, <1>9, <3>1, OrderKeeps DEF FiguresTyped
  <2>6. CASE /\ \E s \in SlipRows : slip' = [slip EXCEPT
                            ![s] = [kind |-> "CASH", made |-> hour, order |-> o]]
             /\ Rewrite(o, marked, {DayOf(old.made)})
    <3>1. Written
      BY <2>2, <2>4, <2>6, RewriteTyped
    <3> QED
      BY <1>3, <1>5, <1>9, <3>1, OrderKeeps DEF FiguresTyped
  <2> QED
    BY <2>3, <2>5, <2>6
<1> QED
  BY <1>6, <1>7, <1>8, <1>9, <1>10

LEMMA SlipTyped ==
    ASSUME FiguresTyped, NEW s \in SlipRows,
           \/ \E kind \in {"CASH", "CREDIT", "PAYMENT"}, t \in Hours : WriteSlip(s, kind, t)
           \/ DeleteSlip(s)
    PROVE  FiguresTyped'
<1>1. UNCHANGED <<hour, web, view, refresher, evaluator, alarms, since>> /\ Entered
  BY DEF WriteSlip, DeleteSlip
<1>2. entries' \in 0..MaxEntries
  BY <1>1, FiguresAssumption DEF FiguresTyped, Entered
<1>3. CASE \E kind \in {"CASH", "CREDIT", "PAYMENT"}, t \in Hours : WriteSlip(s, kind, t)
  <2>1. PICK kind \in {"CASH", "CREDIT", "PAYMENT"}, t \in Hours : WriteSlip(s, kind, t)
    BY <1>3
  <2>2. PICK new : new = [kind |-> kind, made |-> t, order |-> Nobody]
    OBVIOUS
  <2>3. new \in SlipRecords /\ slip' = [slip EXCEPT ![s] = new]
    BY <2>1, <2>2 DEF SlipRecords, WriteSlip
  <2>4. slip' \in [SlipRows -> SlipRecords]
    BY <2>3 DEF FiguresTyped
  <2> QED
    BY <1>1, <1>2, <1>3, <2>4, SlipKeeps DEF FiguresTyped
<1>4. CASE DeleteSlip(s)
  <2>1. slip' \in [SlipRows -> SlipRecords]
    BY <1>4, NothingTyped DEF DeleteSlip, FiguresTyped
  <2> QED
    BY <1>1, <1>2, <1>4, <2>1, SlipKeeps DEF FiguresTyped
<1> QED
  BY <1>3, <1>4

LEMMA JobTyped ==
    ASSUME FiguresTyped,
           \/ PassHour \/ RefreshTick \/ RefreshDailySales \/ RefreshFails
           \/ LoadSnapshot \/ RaiseAlarms \/ EvaluationFails
    PROVE  FiguresTyped'
<1>1. UNCHANGED <<entries, web, slip>>
  BY DEF PassHour, RefreshTick, RefreshDailySales, RefreshFails, LoadSnapshot, RaiseAlarms,
         EvaluationFails
<1>2. FigureInv'
  BY JobKeeps DEF FiguresTyped
<1>3. /\ entries' \in 0..MaxEntries
      /\ web' \in [WebOrders -> OrderRecords] /\ slip' \in [SlipRows -> SlipRecords]
  BY <1>1 DEF FiguresTyped
<1>4. view' \in [AllDays -> ViewRecords] /\ refresher' \in BOOLEAN
  BY ViewTyped DEF FiguresTyped, PassHour, RefreshTick, RefreshDailySales, RefreshFails,
     LoadSnapshot, RaiseAlarms, EvaluationFails
<1>5. PICK old \in SinceRecords, tick \in TickRecords : old = since /\ tick = evaluator
  BY DEF FiguresTyped
<1>6. /\ [unseen |-> {}, calm |-> old.calm, judged |-> FALSE] \in SinceRecords
      /\ [old EXCEPT !.unseen = {}, !.judged = FALSE] \in SinceRecords
      /\ [old EXCEPT !.calm = TRUE, !.judged = FALSE] \in SinceRecords
      /\ [old EXCEPT !.judged = TRUE] \in SinceRecords
      /\ [old EXCEPT !.calm = FALSE] \in SinceRecords
  BY DEF SinceRecords
<1>7. \A days \in SUBSET AllDays :
          [unseen |-> old.unseen \cup days, calm |-> FALSE, judged |-> FALSE] \in SinceRecords
  BY DEF SinceRecords
<1>8. since' \in SinceRecords
  <2>1. CASE PassHour
    <3>1. PICK days \in SUBSET AllDays :
            days = IF DayOf(hour) = DayOf(hour + 1) THEN {} ELSE AllDays
      OBVIOUS
    <3> QED
      BY <1>5, <1>7, <2>1, <3>1 DEF PassHour, Stirred
  <2>2. CASE ~PassHour
    BY <1>5, <1>6, <2>2 DEF RefreshTick, RefreshDailySales, RefreshFails, LoadSnapshot, RaiseAlarms,
       EvaluationFails
  <2> QED
    BY <2>1, <2>2
<1>9. evaluator' \in TickRecords
  <2>1. [pc |-> "counted", alarms |->
           {c \in Codes : \/ c = "ONLINE_PAID_ORDERS_DROP" /\ PaidDrop(hour)
                          \/ c = "EXPIRED_ORDERS_SPIKE" /\ ExpiredSpike(hour)}] \in TickRecords
    BY DEF TickRecords
  <2> QED
    BY <1>5, <2>1, NothingTyped DEF PassHour, RefreshTick, RefreshDailySales, RefreshFails,
       LoadSnapshot, RaiseAlarms, EvaluationFails
<1>10. alarms' \subseteq Codes
  <2>1. alarms \subseteq Codes /\ tick.alarms \subseteq Codes
    BY DEF FiguresTyped, TickRecords
  <2>2. \/ alarms' = {} \/ alarms' = alarms
        \/ alarms' = tick.alarms \cup {c \in Codes :
                      c = "ONLINE_REVENUE_DROP" /\ RevenueDrops(DayOf(hour))}
    BY <1>5 DEF PassHour, Stirred, RefreshTick, RefreshDailySales, RefreshFails,
       LoadSnapshot, RaiseAlarms, EvaluationFails
  <2> QED
    BY <2>1, <2>2
<1> QED
  BY <1>2, <1>3, <1>4, <1>8, <1>9, <1>10 DEF FiguresTyped

LEMMA FiguresTypedStep == FiguresTyped /\ [FiguresNext]_figureVars => FiguresTyped'
<1> SUFFICES ASSUME FiguresTyped, [FiguresNext]_figureVars PROVE FiguresTyped'
  OBVIOUS
<1>1. CASE UNCHANGED figureVars
  <2>1. FigureInv'
    BY <1>1, FiguresStep DEF FiguresTyped
  <2> QED
    BY <1>1, <2>1 DEF FiguresTyped, figureVars
<1> QED
  BY <1>1, OrderTyped, SlipTyped, JobTyped DEF FiguresNext

LEMMA FiguresAreTyped == FiguresTyped => FiguresTypeOK
  BY DEF FiguresTyped, FigureInv, FigureTypes, FiguresTypeOK, OrderRecords, SlipRecords,
     ViewRecords, TickRecords, SinceRecords

GoodRecords == [live : BOOLEAN, text : Version, stock : 0..1, stamp : Version,
                other : Version, otherStamp : Version, pictures : Version]

CacheTyped ==
    /\ CacheInv
    /\ good \in [Goods -> GoodRecords]
    /\ section \in Version
    /\ copy.kept \in BOOLEAN /\ copy.fresh \in BOOLEAN
    /\ changed \in 0..MaxCacheChanges

LEMMA VersionsAre ==
    /\ Cardinality(Goods) \in Nat /\ MaxCacheChanges \in Nat
    /\ \A n \in 0..2 * MaxCacheChanges : n \in Version
    /\ \A g \in Goods : -g \in Version
<1>1. Cardinality(Goods) \in Nat /\ MaxCacheChanges \in Nat /\ Goods = 1..Cardinality(Goods)
  BY GoodsNat, PublicCacheAssumption
<1> QED
  BY <1>1 DEF Version

LEMMA CacheTypedBegins == CacheInit => CacheTyped
<1> SUFFICES ASSUME CacheInit PROVE CacheTyped
  OBVIOUS
<1>1. 0 \in Version /\ \A g \in Goods : -g \in Version
  BY VersionsAre
<1>2. good \in [Goods -> GoodRecords]
  BY <1>1 DEF CacheInit, GoodRecords
<1>3. copy.kept \in BOOLEAN /\ copy.fresh \in BOOLEAN
  <2>1. PICK q \in Queries : copy = NoCopy(q)
    BY DEF CacheInit
  <2> QED
    BY <2>1 DEF NoCopy
<1> QED
  BY <1>1, <1>2, <1>3, CacheBegins, VersionsAre DEF CacheInit, CacheTyped

\* One good is written anew.
LEMMA GoodTyped ==
    ASSUME CacheTyped, NEW g \in Goods, changed < MaxCacheChanges,
           EditGood(g) \/ ChangeStock(g) \/ EditVariant(g) \/ HideGood(g) \/ ChangePictures(g)
    PROVE  good' \in [Goods -> GoodRecords]
<1>1. PICK old \in GoodRecords : old = good[g]
  BY DEF CacheTyped
<1>2. Now \in Version /\ 1 - old.stock \in 0..1
  <2>1. changed + 1 \in 0..2 * MaxCacheChanges
    BY VersionsAre DEF CacheTyped
  <2>2. old.stock \in 0..1
    BY DEF GoodRecords
  <2> QED
    BY <2>1, <2>2, VersionsAre DEF Now
<1>3. PICK now \in Version, stock \in 0..1 : now = Now /\ stock = 1 - old.stock
  BY <1>2
<1>4. /\ [old EXCEPT !.text = now, !.stamp = now] \in GoodRecords
      /\ [old EXCEPT !.stock = stock, !.stamp = now] \in GoodRecords
      /\ [old EXCEPT !.other = now, !.otherStamp = now] \in GoodRecords
      /\ [old EXCEPT !.live = FALSE, !.stamp = now] \in GoodRecords
      /\ [old EXCEPT !.pictures = now] \in GoodRecords
  BY DEF GoodRecords
<1>5. DOMAIN good = Goods
  BY DEF CacheTyped
<1>6. \/ good' = [good EXCEPT ![g] = [old EXCEPT !.text = now, !.stamp = now]]
      \/ good' = [good EXCEPT ![g] = [old EXCEPT !.stock = stock, !.stamp = now]]
      \/ good' = [good EXCEPT ![g] = [old EXCEPT !.other = now, !.otherStamp = now]]
      \/ good' = [good EXCEPT ![g] = [old EXCEPT !.live = FALSE, !.stamp = now]]
      \/ good' = [good EXCEPT ![g] = [old EXCEPT !.pictures = now]]
  BY <1>1, <1>3, <1>5 DEF EditGood, ChangeStock, EditVariant, HideGood, ChangePictures
<1>7. ASSUME NEW new \in GoodRecords, good' = [good EXCEPT ![g] = new]
      PROVE  good' \in [Goods -> GoodRecords]
  BY <1>7 DEF CacheTyped
<1> QED
  BY <1>4, <1>6, <1>7

LEMMA ManyTyped ==
    ASSUME CacheTyped, changed < MaxCacheChanges, NEW gs \in SUBSET Goods, NEW live \in BOOLEAN,
           ShowMany(gs, live)
    PROVE  good' \in [Goods -> GoodRecords]
<1>1. Now \in Version /\ Now + MaxCacheChanges \in Version
  <2>1. changed + 1 \in 0..2 * MaxCacheChanges
        /\ changed + 1 + MaxCacheChanges \in 0..2 * MaxCacheChanges
    BY VersionsAre DEF CacheTyped
  <2> QED
    BY <2>1, VersionsAre DEF Now
<1>2. PICK now \in Version, later \in Version : now = Now /\ later = Now + MaxCacheChanges
  BY <1>1
<1>3. \A old \in GoodRecords :
          [old EXCEPT !.live = live, !.stamp = now, !.otherStamp = later] \in GoodRecords
  BY DEF GoodRecords
<1>4. good' = [g \in Goods |->
          IF g \in gs THEN [good[g] EXCEPT !.live = live, !.stamp = now, !.otherStamp = later]
          ELSE good[g]]
  BY <1>2 DEF ShowMany
<1> QED
  BY <1>3, <1>4 DEF CacheTyped

LEMMA CacheTypedStep == CacheTyped /\ [CacheNext]_cacheVars => CacheTyped'
<1> SUFFICES ASSUME CacheTyped, [CacheNext]_cacheVars PROVE CacheTyped'
  OBVIOUS
<1>1. CacheInv' /\ DOMAIN copy = {"kept", "fresh", "query", "body"}
  BY CacheStep DEF CacheTyped, CacheInv, CacheTypes
<1>2. CASE UNCHANGED cacheVars
  BY <1>1, <1>2 DEF CacheTyped, cacheVars
<1>3. CASE Revalidate
  <2>1. copy'.kept = TRUE /\ copy'.fresh = TRUE /\ UNCHANGED <<good, section, changed>>
    BY <1>1, <1>3 DEF Revalidate
  <2> QED
    BY <1>1, <2>1 DEF CacheTyped
<1>4. CASE CacheChange
  <2>1. changed' \in 0..MaxCacheChanges /\ changed < MaxCacheChanges
        /\ copy'.kept = copy.kept /\ copy'.fresh = FALSE
    BY <1>1, <1>4, VersionsAre DEF CacheTyped, CacheChange
  <2>2. Now \in Version
    <3>1. changed + 1 \in 0..2 * MaxCacheChanges
      BY <2>1, VersionsAre DEF CacheTyped
    <3> QED
      BY <3>1, VersionsAre DEF Now
  <2>3. section' = section \/ section' = Now
    BY <1>2, <1>3 DEF CacheNext, EditGood, ChangeStock, EditVariant, HideGood, ChangePictures, ShowMany,
       RenameSection, Revalidate, cacheVars
  <2>4. good' \in [Goods -> GoodRecords]
    <3>1. CASE UNCHANGED good
      BY <3>1 DEF CacheTyped
    <3> QED
      BY <2>1, <3>1, GoodTyped, ManyTyped DEF CacheNext, RenameSection, Revalidate, cacheVars
  <2> QED
    BY <1>1, <2>1, <2>2, <2>3, <2>4 DEF CacheTyped
<1> QED
  BY <1>2, <1>3, <1>4 DEF CacheNext, EditGood, ChangeStock, EditVariant, HideGood,
     ChangePictures, ShowMany, RenameSection

LEMMA CacheIsTyped == CacheTyped => CacheTypeOK
  BY DEF CacheTyped, CacheInv, CacheTypes, CacheTypeOK, GoodRecords
=============================================================================
