------------------------ MODULE MachineRegistration ------------------------
(***************************************************************************)
(* Registering a machine on the phone: the brand and model fields, the     *)
(* photo of the receipt that is uploaded while the form is filled in, and  *)
(* the request that registers the machine with the photo attached.  A pick *)
(* is an operation of its own; the screen follows only the current one,    *)
(* the others run on until they see that they were cancelled, and what     *)
(* they uploaded is discarded at the API, which also reclaims by itself.   *)
(***************************************************************************)
EXTENDS Naturals, FiniteSets

CONSTANTS
  Brands, Models,
  BrandOf,    \* the brand of a model
  NoChoice,   \* no brand, no model; a text that names none
  MaxPicks,   \* bound: photos picked or retried
  MaxEdits,   \* bound: changes of the brand and model fields
  MaxLosses   \* bound: lost requests and answers

ASSUME RegistrationAssumption ==
  /\ BrandOf \in [Models -> Brands] /\ NoChoice \notin Brands \union Models
  /\ MaxPicks \in Nat /\ MaxEdits \in Nat /\ MaxLosses \in Nat

VARIABLES
  registering, \* the screen is mounted
  form,        \* the chosen brand and model and the texts of their fields
  photo,       \* what the screen shows of the photo
  current,     \* the operation the screen follows, 0 for none
  picks,       \* operations begun
  op,          \* op[o]: how far operation o is, and whether it was cancelled
  media,       \* media[o]: the upload and the media object of o at the API
  discards,    \* operations whose media is being discarded
  creation,    \* the request that registers the machine
  machine,     \* the registered machine at the API
  edits, losses \* counted for their bounds

regVars == <<registering, form, photo, current, picks, op, media, discards, creation, machine,
             edits, losses>>

Ops == 1 .. MaxPicks
NewOp == [stage |-> "none", cancelled |-> FALSE]
EmptyForm == [brand |-> NoChoice, brandText |-> NoChoice, model |-> NoChoice, modelText |-> NoChoice]
NoPhoto == [status |-> "idle", op |-> 0]
NoCreation == [stage |-> "idle", photo |-> 0]
NoMachine == [exists |-> FALSE, photo |-> 0]

RegInit ==
  /\ registering = TRUE /\ form = EmptyForm
  /\ photo = NoPhoto /\ current = 0 /\ picks = 0
  /\ op = [o \in Ops |-> NewOp] /\ media = [o \in Ops |-> "none"] /\ discards = {}
  /\ creation = NoCreation /\ machine = NoMachine
  /\ edits = 0 /\ losses = 0

Loss == losses < MaxLosses /\ losses' = losses + 1

-----------------------------------------------------------------------------
(***************************************************************************)
(* The brand and model fields                                              *)
(***************************************************************************)

Edit(new) ==
  /\ registering /\ creation.stage = "idle" /\ edits < MaxEdits
  /\ edits' = edits + 1 /\ form' = new
  /\ UNCHANGED <<registering, photo, current, picks, op, media, discards, creation, machine,
                 losses>>

SelectBrand(b) == Edit([EmptyForm EXCEPT !.brand = b, !.brandText = b])

\* Another text than the chosen brand's takes the brand and the model back.
TypeBrand(text) ==
  Edit(IF form.brand # NoChoice /\ text # form.brand
       THEN [EmptyForm EXCEPT !.brandText = text]
       ELSE [form EXCEPT !.brandText = text])

\* Only the models of the chosen brand are suggested.
SelectModel(m) ==
  BrandOf[m] = form.brand /\ Edit([form EXCEPT !.model = m, !.modelText = m])

\* Typing takes the chosen model back; the field is editable with a brand.
TypeModel(text) ==
  form.brand # NoChoice /\ Edit([form EXCEPT !.model = NoChoice, !.modelText = text])

-----------------------------------------------------------------------------
(***************************************************************************)
(* The photo                                                               *)
(***************************************************************************)

\* clearOperation(): the current operation is cancelled, what it uploaded is
\* discarded.
Clear(cancelled, deleted) ==
  /\ cancelled = (IF current # 0 THEN {current} ELSE {})
  /\ deleted = {o \in cancelled : op[o].stage = "ended" /\ photo.status = "done"}

Cancelled(ops) == [o \in Ops |-> IF o \in ops THEN [op[o] EXCEPT !.cancelled = TRUE] ELSE op[o]]

Begin(stage, status) ==
  /\ picks < MaxPicks /\ picks' = picks + 1 /\ current' = picks'
  /\ \E cancelled, deleted \in SUBSET Ops :
       /\ Clear(cancelled, deleted)
       /\ op' = [Cancelled(cancelled) EXCEPT ![picks'].stage = stage]
       /\ discards' = discards \union deleted
  /\ photo' = [status |-> status, op |-> picks']
  /\ UNCHANGED <<registering, form, media, creation, machine, edits, losses>>

\* The buttons of an idle or failed photo, unless the machine is being registered.
Pick ==
  /\ registering /\ creation.stage = "idle" /\ photo.status \in {"idle", "error"}
  /\ Begin("picking", "picking")

\* retry(): the image of an upload that failed is sent again.
Retry ==
  /\ registering /\ creation.stage = "idle" /\ photo.status = "error" /\ photo.op # 0
  /\ Begin("authorizing", "uploading")

\* The picker ends: with an image, with none, or with an error.
EndPick(o) ==
  /\ op[o].stage = "picking"
  /\ IF current # o
     THEN op' = [op EXCEPT ![o].stage = "ended"] /\ UNCHANGED photo
     ELSE \/ /\ op' = [op EXCEPT ![o].stage = "authorizing"]
             /\ photo' = [photo EXCEPT !.status = "uploading"]
          \/ op' = [op EXCEPT ![o].stage = "ended"] /\ photo' \in {NoPhoto, [NoPhoto EXCEPT !.status = "error"]}
  /\ UNCHANGED <<registering, form, current, picks, media, discards, creation, machine,
                 edits, losses>>

\* The API's three requests of an upload: create_upload, the content, complete.
Serve(o, from, to, becomes) ==
  /\ op[o].stage = from
  /\ op' = [op EXCEPT ![o].stage = to]
  /\ media' = [media EXCEPT ![o] = becomes]
  /\ UNCHANGED <<registering, form, photo, current, picks, discards, creation, machine,
                 edits, losses>>

ServeAuthorize(o) == Serve(o, "authorizing", "authorized", "pending")
ServeContent(o) == media[o] = "pending" /\ Serve(o, "sending", "sent", "stored")
ServeComplete(o) == media[o] = "stored" /\ Serve(o, "completing", "completed", "kept")

\* uploadMedia(): between two requests it looks whether it was cancelled.
Proceed(o) ==
  /\ <<op[o].stage, op[o].cancelled>> \in {"authorized", "sent"} \X BOOLEAN
  /\ op' = [op EXCEPT ![o].stage =
              IF op[o].cancelled THEN "ended"
              ELSE IF @ = "authorized" THEN "sending" ELSE "completing"]
  /\ UNCHANGED <<registering, form, photo, current, picks, media, discards, creation, machine,
                 edits, losses>>

\* Mutant: an upload that was cancelled while it was completed is left.
UploadedLeaving(o) ==
  IF op[o].cancelled \/ current # o THEN UNCHANGED <<photo, discards>>
  ELSE photo' = [status |-> "done", op |-> o] /\ UNCHANGED discards

\* The completed upload is shown, or discarded when it was cancelled meanwhile.
Uploaded(o) ==
  IF op[o].cancelled \/ current # o THEN discards' = discards \union {o} /\ UNCHANGED photo
  ELSE photo' = [status |-> "done", op |-> o] /\ UNCHANGED discards

EndUpload(o) ==
  /\ op[o].stage = "completed"
  /\ Uploaded(o)
  /\ op' = [op EXCEPT ![o].stage = "ended"]
  /\ UNCHANGED <<registering, form, current, picks, media, creation, machine, edits, losses>>

\* A request of the upload fails: it was lost, its answer was, or the API has
\* given the upload up.
FailUpload(o) ==
  /\ \/ op[o].stage \in {"authorizing", "sending", "sent", "completing", "completed"} /\ Loss
     \/ op[o].stage \in {"sending", "completing"} /\ media[o] = "abandoned" /\ UNCHANGED losses
  /\ op' = [op EXCEPT ![o].stage = "ended"]
  /\ photo' = IF current = o THEN [photo EXCEPT !.status = "error"] ELSE photo
  /\ UNCHANGED <<registering, form, current, picks, media, discards, creation, machine, edits>>

\* cancelUpload(): cancels an upload, or takes an uploaded photo back.
CancelUpload ==
  /\ registering
  /\ photo.status = "uploading" \/ (photo.status = "done" /\ creation.stage = "idle")
  /\ \E cancelled, deleted \in SUBSET Ops :
       /\ Clear(cancelled, deleted)
       /\ op' = Cancelled(cancelled) /\ discards' = discards \union deleted
  /\ current' = 0 /\ photo' = NoPhoto
  /\ UNCHANGED <<registering, form, picks, media, creation, machine, edits, losses>>

\* Mutant: media is discarded whatever it is attached to.
DiscardedAnyway(o) == media' = [media EXCEPT ![o] = "deleted"]

\* discard_registration_photo(): only media that is attached to nothing.
Discarded(o) ==
  media' = [media EXCEPT ![o] = IF @ = "attached" THEN @ ELSE "deleted"]

ServeDiscard(o) ==
  /\ o \in discards
  /\ Discarded(o)
  /\ discards' = discards \ {o}
  /\ UNCHANGED <<registering, form, photo, current, picks, op, creation, machine, edits, losses>>

LoseDiscard(o) ==
  /\ o \in discards /\ Loss
  /\ discards' = discards \ {o}
  /\ UNCHANGED <<registering, form, photo, current, picks, op, media, creation, machine, edits>>

\* cleanup_abandoned(): uploads that expired, media a day old and attached to
\* nothing.
Cleanup(o) ==
  /\ media[o] \in {"pending", "stored", "kept"}
  /\ media' = [media EXCEPT ![o] = IF @ = "kept" THEN "deleted" ELSE "abandoned"]
  /\ UNCHANGED <<registering, form, photo, current, picks, op, discards, creation, machine,
                 edits, losses>>

-----------------------------------------------------------------------------
(***************************************************************************)
(* Registering                                                             *)
(***************************************************************************)

\* submit(): with a chosen model, and no photo on its way.
Register ==
  /\ registering /\ creation.stage = "idle" /\ form.model # NoChoice
  /\ photo.status \notin {"picking", "uploading"}
  /\ creation' = [stage |-> "sent", photo |-> IF photo.status = "done" THEN photo.op ELSE 0]
  /\ UNCHANGED <<registering, form, photo, current, picks, op, media, discards, machine,
                 edits, losses>>

\* create_manual(): refused when the photo is gone or the serial is taken.
ServeCreation ==
  /\ creation.stage = "sent"
  /\ LET o == creation.photo IN
     IF machine.exists \/ (o # 0 /\ media[o] # "kept")
     THEN creation' = [creation EXCEPT !.stage = "refused"] /\ UNCHANGED <<machine, media>>
     ELSE /\ machine' = [exists |-> TRUE, photo |-> o]
          /\ media' = [p \in Ops |-> IF p = o THEN "attached" ELSE media[p]]
          /\ creation' = [creation EXCEPT !.stage = "created"]
  /\ UNCHANGED <<registering, form, photo, current, picks, op, discards, edits, losses>>

LoseCreation ==
  /\ creation.stage \in {"sent", "refused", "created"} /\ Loss
  /\ creation' = [creation EXCEPT !.stage = "refused"]
  /\ UNCHANGED <<registering, form, photo, current, picks, op, media, discards, machine, edits>>

\* onSuccess: the photo is the machine's from now on, and the screen is replaced.
EndCreation ==
  /\ creation.stage \in {"refused", "created"}
  /\ creation' = NoCreation
  /\ IF registering /\ creation.stage = "created"
     THEN registering' = FALSE /\ current' = 0 /\ photo' = NoPhoto /\ form' = EmptyForm
     ELSE UNCHANGED <<registering, current, photo, form>>
  /\ UNCHANGED <<picks, op, media, discards, machine, edits, losses>>

\* The screen is left, also while a request is under way: its cleanup cancels
\* and discards.
LeaveRegistration ==
  /\ registering /\ registering' = FALSE
  /\ \E cancelled, deleted \in SUBSET Ops :
       /\ Clear(cancelled, deleted)
       /\ op' = Cancelled(cancelled) /\ discards' = discards \union deleted
  /\ current' = 0 /\ photo' = NoPhoto /\ form' = EmptyForm
  /\ UNCHANGED <<picks, media, creation, machine, edits, losses>>

RegStep ==
  \/ Pick \/ Retry \/ CancelUpload \/ Register \/ ServeCreation \/ LoseCreation \/ EndCreation
  \/ LeaveRegistration
  \/ \E b \in Brands : SelectBrand(b)
  \/ \E text \in Brands \union {NoChoice} : TypeBrand(text)
  \/ \E m \in Models : SelectModel(m)
  \/ \E text \in Models \union {NoChoice} : TypeModel(text)
  \/ \E o \in Ops :
       \/ EndPick(o) \/ ServeAuthorize(o) \/ ServeContent(o) \/ ServeComplete(o) \/ Proceed(o)
       \/ EndUpload(o) \/ FailUpload(o) \/ ServeDiscard(o) \/ LoseDiscard(o) \/ Cleanup(o)

-----------------------------------------------------------------------------
RegTypeOK ==
  /\ registering \in BOOLEAN
  /\ form \in [brand: Brands \union {NoChoice}, brandText: Brands \union {NoChoice},
               model: Models \union {NoChoice}, modelText: Models \union {NoChoice}]
  /\ photo \in [status: {"idle", "picking", "uploading", "done", "error"}, op: 0 .. MaxPicks]
  /\ current \in 0 .. MaxPicks /\ picks \in 0 .. MaxPicks
  /\ op \in [Ops -> [stage: {"none", "picking", "authorizing", "authorized", "sending", "sent",
                             "completing", "completed", "ended"}, cancelled: BOOLEAN]]
  /\ media \in [Ops -> {"none", "pending", "stored", "kept", "attached", "deleted", "abandoned"}]
  /\ discards \subseteq Ops
  /\ creation \in [stage: {"idle", "sent", "refused", "created"}, photo: 0 .. MaxPicks]
  /\ machine \in [exists: BOOLEAN, photo: 0 .. MaxPicks]
  /\ edits \in 0 .. MaxEdits /\ losses \in 0 .. MaxLosses

\* A photo that was attached to a machine stays, whichever cancellation, removal
\* or unmount was under way when the machine was registered, and whether the
\* phone learned of the registration or not.
MachineKeepsItsPhoto == machine.photo # 0 => media[machine.photo] = "attached"

\* Once the screen is gone and nothing is under way, no uploaded photo is left
\* without a machine, unless a message was lost (useRegistrationPhoto's
\* operation tokens, uploadMedia's last look at its cancellation).
NothingIsLeftBehind ==
  /\ ~registering /\ discards = {} /\ creation.stage = "idle" /\ losses = 0
  /\ \A o \in Ops : op[o].stage \in {"none", "ended"}
  => \A o \in Ops : media[o] # "kept"

\* A photo belongs to the machine it was registered with, or to nobody's screen
\* for long.
PhotoIsSafe == MachineKeepsItsPhoto /\ NothingIsLeftBehind
=============================================================================
