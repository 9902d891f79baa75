---------------------------- MODULE AdminRecords ----------------------------
(***************************************************************************)
(* An administrator edits a record of the dashboard while others do: shop  *)
(* settings, intake settings, a stock level, a SKU, a service type, a      *)
(* category, a product or a machine model.  A form opens on what a list    *)
(* has cached and saves with the version it holds; the API refuses a       *)
(* version that is not the record's.  Categories, products and models have *)
(* a picture as well, saved by an editor of its own beside the form, with  *)
(* the same version.                                                       *)
(*                                                                         *)
(* The fields of a form are one text, known by the write it comes from;    *)
(* the pictures of a gallery are one picture.  Of the other administrators *)
(* only the writes the API accepts are modelled: whatever their forms do,  *)
(* nothing else of them shows.                                             *)
(***************************************************************************)
EXTENDS Naturals, FiniteSets

CONSTANTS
  Kinds,       \* kinds of record the run looks at
  Media,       \* pictures that may be uploaded
  MaxVersion,  \* bound: writes to the record
  MaxMishaps   \* bound, for each kind: lost answers and overdue pictures

NoPicture == "none"

ASSUME RecordsAssumption ==
  /\ Kinds \subseteq {"shop", "intake", "stock", "sku", "type", "category",
                      "product", "model"}
  /\ IsFiniteSet(Media) /\ NoPicture \notin Media
  /\ MaxVersion \in Nat /\ MaxMishaps \in [Kinds -> Nat]

VARIABLES
  kind,      \* the kind of the record
  record,    \* its text, picture and version
  stored,    \* pictures in the store
  loaded,    \* what the lists of the dashboard have cached
  editor,    \* the open form and the picture's editor
  save,      \* the form's request
  picture,   \* the picture editor's request
  upload,    \* the picture being uploaded
  deletes,   \* DELETE requests on their way
  mishaps,   \* counted for its bound
  trace      \* history: blind saves; pictures used; those replaced or of lost answers

form == <<editor, save>>
gallery == <<picture, upload, deletes>>
recordVars == <<kind, record, stored, loaded, form, gallery, mishaps, trace>>

Reviewed == {"shop", "intake", "stock", "sku", "type"}
Pictured == {"category", "product", "model"}
StaysOpen == {"shop", "intake", "product"}

\* What a save must match: models are written without a look, stock is
\* compared by its quantity.
Token(k, r) == CASE k = "model" -> 0 [] k = "stock" -> r.text [] OTHER -> r.version

Closed == [open |-> FALSE, text |-> 0, typed |-> FALSE, token |-> 0, reviewed |-> FALSE,
           failed |-> FALSE, picture |-> NoPicture, ptoken |-> 0, pfailed |-> FALSE,
           mixed |-> FALSE, chosen |-> NoPicture, owned |-> {}, retained |-> {}]

NoSave == [stage |-> "idle", mine |-> FALSE, body |-> NoPicture, token |-> 0, base |-> 0, mixed |-> FALSE]
NoPictureSave == [NoSave EXCEPT !.base = NoPicture]
NoUpload == [stage |-> "idle", mine |-> FALSE, medium |-> NoPicture]

Snapshot(k, r) == [text |-> r.text, token |-> Token(k, r), picture |-> r.picture,
                   ptoken |-> Token(k, r)]

RecordsInit ==
  /\ kind \in Kinds
  /\ \E m \in IF kind \in Pictured THEN Media \union {NoPicture} ELSE {NoPicture} :
       /\ record = [text |-> 0, picture |-> m, version |-> 0]
       /\ stored = {m} \ {NoPicture}
       /\ trace = [blind |-> {}, used |-> stored, excused |-> {}]
  /\ loaded = Snapshot(kind, record)
  /\ editor = Closed /\ save = NoSave
  /\ picture = NoPictureSave /\ upload = NoUpload /\ deletes = {}
  /\ mishaps = 0

Mishap == mishaps < MaxMishaps[kind] /\ mishaps' = mishaps + 1

Saving == save.stage # "idle" /\ save.mine
SavingPicture == picture.stage # "idle" /\ picture.mine
Uploading == upload.stage # "idle" /\ upload.mine

-----------------------------------------------------------------------------
(***************************************************************************)
(* The other administrators                                                *)
(***************************************************************************)

\* The record with a new text.
Rewritten == [record EXCEPT !.text = record.version + 1, !.version = @ + 1]

RivalSave ==
  /\ record.version < MaxVersion
  /\ record' = Rewritten
  /\ UNCHANGED <<kind, stored, loaded, form, gallery, mishaps, trace>>

RivalPicture(m) ==
  /\ record.version < MaxVersion /\ kind \in Pictured
  /\ m \in (Media \ trace.used) \union ({NoPicture} \ {record.picture})
  /\ record' = [record EXCEPT !.picture = m, !.version = @ + 1]
  /\ stored' = stored \union ({m} \ {NoPicture})
  /\ trace' = [trace EXCEPT !.used = @ \union ({m} \ {NoPicture}),
                            !.excused = @ \union ({record.picture} \ {NoPicture})]
  /\ UNCHANGED <<kind, loaded, form, gallery, mishaps>>

-----------------------------------------------------------------------------
(***************************************************************************)
(* Opening and closing                                                     *)
(***************************************************************************)

\* A list or a record is loaded: when it is shown, at the refetch after a
\* save, by its button.
LoadRecord ==
  /\ loaded' = IF kind = "product"
               THEN [loaded EXCEPT !.text = record.text, !.token = record.version]
               ELSE Snapshot(kind, record)
  /\ UNCHANGED <<kind, record, stored, form, gallery, mishaps, trace>>

\* A product's gallery has a query of its own.
LoadGallery ==
  /\ kind = "product"
  /\ loaded' = [loaded EXCEPT !.picture = record.picture, !.ptoken = record.version]
  /\ UNCHANGED <<kind, record, stored, form, gallery, mishaps, trace>>

Filled(snapshot) ==
  [Closed EXCEPT !.open = TRUE, !.text = snapshot.text,
                 !.token = snapshot.token, !.picture = snapshot.picture,
                 !.ptoken = snapshot.ptoken]

\* The form keeps the row it was opened with, whatever the list shows later.
OpenEditor ==
  /\ ~editor.open
  /\ editor' = Filled(loaded)
  /\ UNCHANGED <<kind, record, stored, loaded, save, gallery, mishaps, trace>>

\* Mutant: ImageUpload deletes nothing when it goes.
DiscardedNone == {}

\* ImageUpload deletes what it uploaded unless it was saved.
Discarded == (editor.owned \ editor.retained) \ {editor.picture}

\* The editor goes; its requests are answered to nobody.
Unmounted ==
  /\ deletes' = deletes \union Discarded
  /\ picture' = [picture EXCEPT !.mine = FALSE]
  /\ upload' = [upload EXCEPT !.mine = FALSE]

CloseEditor ==
  /\ editor.open
  /\ Unmounted
  /\ editor' = Closed /\ save' = [save EXCEPT !.mine = FALSE]
  /\ UNCHANGED <<kind, record, stored, loaded, mishaps, trace>>

\* 'Reload and discard': settings and a product open again on the fresh
\* record, a product with the gallery that is cached; the others close.
ReloadRecord ==
  /\ editor.open /\ kind \notin {"type", "model"}
  /\ kind = "shop" => ~Saving
  /\ kind \notin {"shop", "intake"} => editor.failed /\ ~Saving
  /\ LET fresh == IF kind = "product"
                  THEN [loaded EXCEPT !.text = record.text, !.token = record.version]
                  ELSE Snapshot(kind, record) IN
     /\ loaded' = fresh
     /\ editor' = IF kind \in StaysOpen THEN Filled(fresh) ELSE Closed
  /\ Unmounted
  /\ save' = [save EXCEPT !.mine = FALSE]
  /\ UNCHANGED <<kind, record, stored, mishaps, trace>>

-----------------------------------------------------------------------------
(***************************************************************************)
(* The form                                                                *)
(***************************************************************************)

\* A change takes back the review.
EditForm ==
  /\ editor.open /\ ~Saving
  /\ editor' = [editor EXCEPT !.typed = TRUE, !.reviewed = FALSE]
  /\ UNCHANGED <<kind, record, stored, loaded, save, gallery, mishaps, trace>>

ReviewForm ==
  /\ kind \in Reviewed /\ editor.typed /\ ~Saving
  /\ editor' = [editor EXCEPT !.reviewed = TRUE]
  /\ UNCHANGED <<kind, record, stored, loaded, save, gallery, mishaps, trace>>

\* Mutant: the version is the list's at the time of the save.
SentWithListsToken ==
  [NoSave EXCEPT !.stage = "sent", !.mine = TRUE, !.token = loaded.token,
                 !.base = editor.text, !.mixed = editor.mixed]

Sent ==
  [NoSave EXCEPT !.stage = "sent", !.mine = TRUE, !.token = editor.token,
                 !.base = editor.text, !.mixed = editor.mixed]

\* Confirmed in the dialog, or sent at once by forms without a review.
SaveForm ==
  /\ editor.typed /\ save.stage = "idle"
  /\ kind \in Reviewed => editor.reviewed
  /\ save' = Sent
  /\ editor' = [editor EXCEPT !.failed = FALSE]
  /\ UNCHANGED <<kind, record, stored, loaded, gallery, mishaps, trace>>

\* check_catalog_version() and its likes for settings, types and stock.
Matches(token) == kind = "model" \/ token = Token(kind, record)

Unseen(request, field) ==
  IF kind # "model" /\ ~request.mixed /\ record[field] # request.base THEN {field} ELSE {}

ServeSave ==
  /\ save.stage = "sent" /\ Matches(save.token) /\ record.version < MaxVersion
  /\ record' = Rewritten
  /\ save' = [save EXCEPT !.stage = "done", !.token = Token(kind, record'),
                          !.base = record'.text]
  /\ trace' = [trace EXCEPT !.blind = @ \union Unseen(save, "text")]
  /\ UNCHANGED <<kind, stored, loaded, editor, gallery, mishaps>>

\* Settings and a product stay open on the answer; a product's gallery follows
\* the new version, whichever version its pictures are of.
SaveEnds ==
  /\ save.stage = "done"
  /\ save' = NoSave
  /\ \/ /\ save.mine /\ kind \in StaysOpen
        /\ editor' = [editor EXCEPT
             !.text = save.base, !.typed = FALSE, !.reviewed = FALSE,
             !.token = save.token, !.ptoken = save.token,
             !.mixed = @ \/ (kind = "product" /\ editor.ptoken # editor.token)]
        /\ UNCHANGED gallery
     \/ /\ save.mine /\ kind \notin StaysOpen
        /\ Unmounted
        /\ editor' = Closed
     \/ ~save.mine /\ UNCHANGED <<editor, gallery>>
  /\ UNCHANGED <<kind, record, stored, loaded, mishaps, trace>>

\* A refusal, or no answer: the form keeps what was typed.
SaveFails ==
  /\ \/ save.stage = "sent" /\ ~Matches(save.token) /\ UNCHANGED mishaps
     \/ save.stage \in {"sent", "done"} /\ Mishap
  /\ save' = NoSave
  /\ editor' = IF save.mine THEN [editor EXCEPT !.failed = TRUE] ELSE editor
  /\ UNCHANGED <<kind, record, stored, loaded, gallery, trace>>

-----------------------------------------------------------------------------
(***************************************************************************)
(* The picture                                                             *)
(***************************************************************************)

UploadPicture ==
  /\ editor.open /\ kind \in Pictured /\ upload.stage = "idle"
  /\ ~Saving /\ ~SavingPicture
  /\ \E m \in Media \ trace.used :
       /\ upload' = [stage |-> "sending", mine |-> TRUE, medium |-> m]
       /\ trace' = [trace EXCEPT !.used = @ \union {m}]
  /\ UNCHANGED <<kind, record, stored, loaded, form, picture, deletes, mishaps>>

UploadCompletes ==
  /\ upload.stage = "sending"
  /\ stored' = stored \union {upload.medium}
  /\ upload' = [upload EXCEPT !.stage = "complete"]
  /\ UNCHANGED <<kind, record, loaded, form, picture, deletes, mishaps, trace>>

Chosen(m) ==
  [editor EXCEPT !.chosen = m, !.owned = @ \union {m}, !.pfailed = FALSE]

\* The picture is the editor's draft, or is deleted when the editor is gone.
UploadEnds ==
  /\ upload.stage = "complete"
  /\ upload' = NoUpload
  /\ \/ upload.mine /\ editor' = Chosen(upload.medium) /\ UNCHANGED deletes
     \/ ~upload.mine /\ deletes' = deletes \union {upload.medium} /\ UNCHANGED editor
  /\ UNCHANGED <<kind, record, stored, loaded, save, picture, mishaps, trace>>

UploadFails ==
  /\ upload.stage # "idle" /\ Mishap
  /\ upload' = NoUpload
  /\ trace' = [trace EXCEPT !.excused = @ \union {upload.medium}]
  /\ UNCHANGED <<kind, record, stored, loaded, form, picture, deletes>>

\* The draft is saved, or the picture taken away.
SavePicture(m) ==
  /\ editor.open /\ kind \in Pictured
  /\ picture.stage = "idle" /\ ~Saving /\ ~Uploading
  /\ IF m = NoPicture THEN editor.picture # NoPicture ELSE m = editor.chosen
  /\ picture' = [stage |-> "sent", mine |-> TRUE, body |-> m, token |-> editor.ptoken,
                 base |-> editor.picture, mixed |-> editor.mixed]
  /\ editor' = [editor EXCEPT !.pfailed = FALSE]
  /\ UNCHANGED <<kind, record, stored, loaded, save, upload, deletes, mishaps, trace>>

\* validate_admin_image() after the version's check.
Accepts(request) ==
  Matches(request.token) /\ (request.body = NoPicture \/ request.body \in stored)

ServePicture ==
  /\ picture.stage = "sent" /\ Accepts(picture) /\ record.version < MaxVersion
  /\ record' = [record EXCEPT !.picture = picture.body, !.version = @ + 1]
  /\ picture' = [picture EXCEPT !.stage = "done", !.token = Token(kind, record')]
  /\ trace' = [trace EXCEPT
       !.excused = @ \union ({record.picture} \ {NoPicture, picture.body}),
       !.blind = @ \union Unseen(picture, "picture")]
  /\ UNCHANGED <<kind, stored, loaded, form, upload, deletes, mishaps>>

\* The picture is kept, and the form goes on with the new version.
PictureEnds ==
  /\ picture.stage = "done"
  /\ editor' = IF ~picture.mine THEN editor
               ELSE [editor EXCEPT
                 !.picture = picture.body, !.chosen = NoPicture,
                 !.retained = @ \union ({picture.body} \ {NoPicture}),
                 !.token = picture.token, !.ptoken = picture.token,
                 !.mixed = @ \/ editor.token # editor.ptoken]
  /\ picture' = NoPictureSave
  /\ UNCHANGED <<kind, record, stored, loaded, save, upload, deletes, mishaps, trace>>

PictureFails ==
  /\ \/ picture.stage = "sent" /\ ~Accepts(picture) /\ UNCHANGED mishaps
     \/ picture.stage \in {"sent", "done"} /\ Mishap
  /\ picture' = NoPictureSave
  /\ editor' = IF picture.mine THEN [editor EXCEPT !.pfailed = TRUE] ELSE editor
  /\ UNCHANGED <<kind, record, stored, loaded, save, upload, deletes, trace>>

\* The picture's editor loads the newest version and hands it to the form,
\* whose text it does not load.
ReloadPicture ==
  /\ editor.pfailed /\ kind \in {"category", "product"} /\ ~SavingPicture
  /\ editor' = [editor EXCEPT
       !.picture = record.picture, !.pfailed = FALSE,
       !.chosen = IF kind = "product" THEN NoPicture ELSE @,
       !.token = record.version, !.ptoken = record.version,
       !.mixed = @ \/ editor.token # record.version]
  /\ UNCHANGED <<kind, record, stored, loaded, save, gallery, mishaps, trace>>

-----------------------------------------------------------------------------
(***************************************************************************)
(* The store                                                               *)
(***************************************************************************)

\* Mutant: a picture is deleted without a look at the records.
ServeDeleteUnlooked(m) ==
  /\ m \in deletes
  /\ deletes' = deletes \ {m}
  /\ stored' = stored \ {m}
  /\ UNCHANGED <<kind, record, loaded, form, picture, upload, mishaps, trace>>

\* discard_registration_photo() refuses a picture some record shows.
ServeDelete(m) ==
  /\ m \in deletes
  /\ deletes' = deletes \ {m}
  /\ stored' = IF m = record.picture THEN stored ELSE stored \ {m}
  /\ UNCHANGED <<kind, record, loaded, form, picture, upload, mishaps, trace>>

LoseDelete(m) ==
  /\ m \in deletes /\ Mishap
  /\ deletes' = deletes \ {m}
  /\ trace' = [trace EXCEPT !.excused = @ \union {m}]
  /\ UNCHANGED <<kind, record, stored, loaded, form, picture, upload>>

\* A day after its upload the cleanup takes what no record shows.
Cleanup(m) ==
  /\ m \in stored \ {record.picture} /\ Mishap
  /\ stored' = stored \ {m}
  /\ trace' = [trace EXCEPT !.excused = @ \ {m}]
  /\ UNCHANGED <<kind, record, loaded, form, gallery>>

-----------------------------------------------------------------------------
RecordsNext ==
  \/ \E m \in Media \union {NoPicture} : RivalPicture(m) \/ SavePicture(m)
  \/ LoadRecord \/ LoadGallery \/ OpenEditor \/ CloseEditor \/ ReloadRecord
  \/ RivalSave \/ EditForm \/ ReviewForm \/ SaveForm \/ ServeSave \/ SaveEnds \/ SaveFails
  \/ UploadPicture \/ UploadCompletes \/ UploadEnds \/ UploadFails
  \/ ServePicture \/ PictureEnds \/ PictureFails \/ ReloadPicture
  \/ \E m \in Media : ServeDelete(m) \/ LoseDelete(m) \/ Cleanup(m)

RecordsSpec == RecordsInit /\ [][RecordsNext]_recordVars

-----------------------------------------------------------------------------
(***************************************************************************)
(* Properties                                                              *)
(***************************************************************************)

RecordsTypeOK ==
  /\ kind \in Kinds
  /\ record.text \in 0 .. record.version /\ record.version \in 0 .. MaxVersion
  /\ record.picture \in Media \union {NoPicture}
  /\ stored \subseteq Media /\ deletes \subseteq Media
  /\ mishaps \in 0 .. MaxMishaps[kind]

\* The dashboard promises not to overwrite a record that "changed since the
\* form was opened" (api/errors.ts:16): a save replaces the text or the picture
\* its author was shown.  Machine models have no version; and where a form and
\* its picture were loaded at different times, one takes over the version of
\* the other (SaveEnds, PictureEnds, ReloadPicture).
NothingUnseenIsReplaced == trace.blind = {}

\* The picture a record shows is in the store, although closing editors, late
\* uploads and the cleanup delete pictures; and a picture nobody saved is
\* deleted with its editor unless an answer was lost.
PicturesAreAccountedFor ==
  /\ record.picture # NoPicture => record.picture \in stored
  /\ \A m \in stored :
       \/ m \in {record.picture, upload.medium}
       \/ m \in deletes \union editor.owned \union trace.excused
=============================================================================
