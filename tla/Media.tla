------------------------------- MODULE Media --------------------------------
(***************************************************************************)
(* The pictures of one product: files at Cloudinary, and the rows that     *)
(* show them.  An image has a file of its own; an asset may share its file *)
(* with the assets of variants that reuse it, so its file goes with the    *)
(* last row.  Nothing ties the store and the table together: uploads are   *)
(* written down afterwards, and files are deleted before their row, each   *)
(* in a step that other requests, failures and stops may come between.     *)
(***************************************************************************)
EXTENDS Integers, FiniteSets

CONSTANTS Files,      \* bound: files ever uploaded
          PictureRows,\* bound: rows ever written
          Models,     \* the variants that assets may belong to
          Curators,   \* requests that may be under way at once
          MaxPictureRequests,
          General, NoFile, NoPicture

ASSUME MediaAssumption ==
    /\ General \notin Models /\ NoFile \notin Files /\ NoPicture \notin PictureRows
    /\ IsFiniteSet(PictureRows) /\ MaxPictureRequests \in Nat

VARIABLES stored,     \* stored[f]: whether the file is, was or was never there
          picture,    \* picture[i]: the ProductImage and ProductAsset rows
          curator,    \* curator[c]: what a request has read and does next
          requests,
          disturbed   \* the files that the property makes an exception for

mediaVars == <<stored, picture, curator, requests, disturbed>>

NoRow == [state |-> "unused", kind |-> "asset", file |-> NoFile, owner |-> General]
AtRest == [pc |-> "rest", picture |-> NoPicture, files |-> {}, kind |-> "asset",
           owner |-> General, seen |-> {}]

MediaTypeOK ==
    /\ stored \in [Files -> {"unused", "stored", "deleted"}]
    /\ picture \in [PictureRows -> [state : {"unused", "live", "deleted"},
                                    kind : {"asset", "image"}, file : Files \cup {NoFile},
                                    owner : Models \cup {General}]]
    /\ curator \in [Curators ->
           [pc : {"rest", "upload", "reuse", "destroy", "remove"},
            picture : PictureRows \cup {NoPicture}, files : SUBSET Files,
            kind : {"asset", "image"}, owner : Models \cup {General},
            seen : SUBSET PictureRows]]
    /\ requests \in 0..MaxPictureRequests
    /\ disturbed \subseteq Files

MediaInit ==
    /\ stored = [f \in Files |-> "unused"]
    /\ picture = [i \in PictureRows |-> NoRow]
    /\ curator = [c \in Curators |-> AtRest]
    /\ requests = 0
    /\ disturbed = {}

LiveRows == {i \in PictureRows : picture[i].state = "live"}
RowsOf(f) == {i \in LiveRows : picture[i].file = f}
\* Rows whose delete has passed the step that deletes the file.
Leaving == {curator[c].picture : c \in {d \in Curators : curator[d].pc = "remove"}}
Assets == {i \in LiveRows : picture[i].kind = "asset"}

Ask(c, state) ==
    /\ curator[c] = AtRest
    /\ requests < MaxPictureRequests /\ requests' = requests + 1
    /\ curator' = [curator EXCEPT ![c] = state]
    /\ UNCHANGED <<stored, picture, disturbed>>

Rest(c) == curator' = [curator EXCEPT ![c] = AtRest]

-----------------------------------------------------------------------------
\* The files of one upload are sent at once; each is stored or refused.
BeginUpload(c, kind, owner) ==
    Ask(c, [AtRest EXCEPT !.pc = "upload", !.kind = kind, !.owner = owner])

UploadImages(c) == BeginUpload(c, "image", General)
UploadAssets(c, owner) == BeginUpload(c, "asset", owner)

StoreFile(c, f) ==
    /\ curator[c].pc = "upload"
    /\ stored[f] = "unused"
    /\ Cardinality(curator[c].files) < 2
    /\ stored' = [stored EXCEPT ![f] = "stored"]
    /\ curator' = [curator EXCEPT ![c].files = @ \cup {f}]
    /\ UNCHANGED <<picture, requests, disturbed>>

\* addImages, addAssets: one row per file, in one statement.
AddRows(c) ==
    LET request == curator[c] IN
    /\ request.pc = "upload" /\ request.files # {}
    /\ \E row \in [request.files -> {i \in PictureRows : picture[i] = NoRow}] :
           /\ \A f, g \in request.files : row[f] = row[g] => f = g
           /\ picture' = [i \in PictureRows |->
                  IF \E f \in request.files : row[f] = i
                  THEN [state |-> "live", kind |-> request.kind, owner |-> request.owner,
                        file |-> CHOOSE f \in request.files : row[f] = i]
                  ELSE picture[i]]
    /\ Rest(c)
    /\ UNCHANGED <<stored, requests, disturbed>>

\* One of the files is refused, the insert fails or the process stops: what
\* was stored stays stored.
UploadFails(c) ==
    /\ curator[c].pc = "upload"
    /\ disturbed' = disturbed \cup curator[c].files
    /\ Rest(c)
    /\ UNCHANGED <<stored, picture, requests>>

-----------------------------------------------------------------------------
\* reuseGeneralAssetsForVariant reads the general assets that are asked for
\* and the files that the variant has...
Unshown(rows, m) == {i \in rows : \A j \in Assets : picture[j].owner = m =>
                                        picture[j].file # picture[i].file}

BeginReuse(c, i, m) ==
    /\ i \in Assets /\ picture[i].owner = General
    /\ Unshown({i}, m) # {}
    /\ Ask(c, [AtRest EXCEPT !.pc = "reuse", !.picture = i, !.owner = m])

\* ...and writes the row for the variant from what it read.
Reuse(c) ==
    LET source == curator[c].picture IN
    /\ curator[c].pc = "reuse"
    /\ \E i \in PictureRows :
           /\ picture[i] = NoRow
           /\ picture' = [picture EXCEPT ![i] = [state |-> "live", kind |-> "asset",
                              file |-> picture[source].file, owner |-> curator[c].owner]]
    /\ disturbed' = IF source \in LiveRows \ Leaving THEN disturbed
                    ELSE disturbed \cup {picture[source].file}
    /\ Rest(c)
    /\ UNCHANGED <<stored, requests>>

\* A variant that is deleted leaves its assets to the product.
ReleaseModel(m) ==
    /\ requests < MaxPictureRequests /\ requests' = requests + 1
    /\ \E i \in Assets : picture[i].owner = m
    /\ picture' = [i \in PictureRows |-> IF i \in Assets /\ picture[i].owner = m
                                         THEN [picture[i] EXCEPT !.owner = General]
                                         ELSE picture[i]]
    /\ UNCHANGED <<stored, curator, disturbed>>

-----------------------------------------------------------------------------
\* DELETE .../assets/:id counts the rows of the file; the file of an image
\* is not counted...
Counted(i) == IF picture[i].kind = "asset" THEN RowsOf(picture[i].file) ELSE {i}

\* Mutant of LastOne: one row too early.
LastOfTwo(rows) == Cardinality(rows) <= 2
LastOne(rows) == Cardinality(rows) <= 1

BeginDelete(c, i) ==
    /\ Ask(c, [AtRest EXCEPT !.picture = i, !.seen = Counted(i), !.files = {picture[i].file},
                             !.pc = IF LastOne(Counted(i)) THEN "destroy"
                                    ELSE "remove"])

DeleteAsset(c, i) == i \in Assets /\ BeginDelete(c, i)
DeleteImage(c, i) == i \in LiveRows \ Assets /\ BeginDelete(c, i)

\* ...deletes the file with the last of them; the answer false is not looked
\* at, and then the file is still there...
DestroyFile(c, done) ==
    /\ curator[c].pc = "destroy"
    /\ stored' = IF done THEN [f \in Files |-> IF f \in curator[c].files THEN "deleted"
                                               ELSE stored[f]]
                 ELSE stored
    /\ disturbed' = disturbed \cup
           {f \in curator[c].files : ~done \/ RowsOf(f) # curator[c].seen}
    /\ curator' = [curator EXCEPT ![c].pc = "remove"]
    /\ UNCHANGED <<picture, requests>>

\* ...and then the row.
RemoveRow(c) ==
    LET i == curator[c].picture IN
    /\ curator[c].pc = "remove"
    /\ i \in LiveRows
    /\ picture' = [picture EXCEPT ![i].state = "deleted"]
    /\ disturbed' = IF curator[c].seen = Counted(i) THEN disturbed
                    ELSE disturbed \cup {picture[i].file}
    /\ Rest(c)
    /\ UNCHANGED <<stored, requests>>

\* The row is gone already, the delete fails or the process stops.
DeleteFails(c) ==
    /\ curator[c].pc \in {"destroy", "remove"}
    /\ disturbed' = IF curator[c].pc = "remove" /\ LastOne(curator[c].seen)
                    THEN disturbed \cup curator[c].files ELSE disturbed
    /\ Rest(c)
    /\ UNCHANGED <<stored, picture, requests>>

MediaNext ==
    \E c \in Curators :
        \/ UploadImages(c)
        \/ \E owner \in Models \cup {General} : UploadAssets(c, owner)
        \/ \E f \in Files : StoreFile(c, f)
        \/ AddRows(c) \/ UploadFails(c)
        \/ \E i \in PictureRows, m \in Models : BeginReuse(c, i, m)
        \/ Reuse(c)
        \/ \E m \in Models : ReleaseModel(m)
        \/ \E i \in PictureRows : DeleteAsset(c, i) \/ DeleteImage(c, i)
        \/ \E done \in BOOLEAN : DestroyFile(c, done)
        \/ RemoveRow(c) \/ DeleteFails(c)

MediaSpec == MediaInit /\ [][MediaNext]_mediaVars

-----------------------------------------------------------------------------
\* A row shows a file that is there, and a file that is there is shown by a
\* row or about to be, unless a request stopped or failed between the store
\* and the table with that file or another changed its rows in between.
Arriving == UNION {curator[c].files : c \in {d \in Curators : curator[d].pc = "upload"}}

FilesAccounted ==
    /\ \A i \in LiveRows \ Leaving :
           picture[i].file \notin disturbed => stored[picture[i].file] = "stored"
    /\ \A f \in Files \ (Arriving \cup disturbed) :
           stored[f] = "stored" => RowsOf(f) # {}
=============================================================================
