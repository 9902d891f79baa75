--------------------------- MODULE AdminCreation ----------------------------
(***************************************************************************)
(* An administrator creates a category, a machine model or a product with  *)
(* pictures.  A category and a model are one request and are refused when  *)
(* they exist already.  A product is two: the product, which nothing tells *)
(* from its twin, and its gallery; when the second fails the form goes on  *)
(* with the product it has created.                                        *)
(***************************************************************************)
EXTENDS Naturals, FiniteSets, Sequences

CONSTANTS
  NewKinds,   \* kinds of record created
  Drafts,     \* pictures chosen before the record exists
  MaxRecords, \* bound: records created
  MaxLosses,  \* bound: lost answers
  MaxTouches  \* bound: writes by other administrators

ASSUME CreationAssumption ==
  /\ NewKinds \subseteq {"category", "model", "product"}
  /\ MaxRecords \in Nat \ {0} /\ MaxLosses \in Nat /\ MaxTouches \in Nat

VARIABLES
  creating,  \* the kind created
  creator,   \* the form: what it has saved and chosen
  asked,     \* its request
  made,      \* made[i]: the records created so far
  shelf,     \* pictures in the store
  discards,  \* DELETE requests on their way
  losses,    \* counted for its bound
  touches

creationVars == <<creating, creator, asked, made, shelf, discards, losses, touches>>

Single == {"category", "model"}
NoRequest == [kind |-> "none", served |-> FALSE, id |-> 0, version |-> 0,
              pictures |-> {}, rest |-> {}]
NewForm == [open |-> TRUE, id |-> 0, version |-> 0, pictures |-> {}, owned |-> {},
            refused |-> FALSE]

CreationInit ==
  /\ creating \in NewKinds
  /\ creator = NewForm /\ asked = NoRequest
  /\ made = <<>> /\ shelf = {} /\ discards = {} /\ losses = 0 /\ touches = 0

Ids == DOMAIN made

\* ImageUpload hands over a picture that is in the store; a category and a
\* model hold one.
ChoosePicture(m) ==
  /\ creator.open /\ asked = NoRequest /\ m \notin creator.owned
  /\ shelf' = shelf \union {m}
  /\ creator' = [creator EXCEPT
       !.owned = @ \union {m},
       !.pictures = IF creating \in Single THEN {m} ELSE @ \union {m}]
  /\ UNCHANGED <<creating, asked, made, discards, losses, touches>>

\* Taken from the form, it is deleted when the form goes.
DropPicture(m) ==
  /\ creator.open /\ m \in creator.pictures
  /\ creating = "product" => asked = NoRequest
  /\ creator' = [creator EXCEPT !.pictures = @ \ {m}]
  /\ UNCHANGED <<creating, asked, made, shelf, discards, losses, touches>>

\* POST the first time, PATCH once the form has its record.
Create ==
  /\ creator.open /\ asked = NoRequest
  /\ asked' = [NoRequest EXCEPT
       !.kind = IF creator.id = 0 THEN "create" ELSE "update",
       !.id = creator.id, !.version = creator.version,
       !.pictures = IF creating \in Single THEN creator.pictures ELSE {},
       !.rest = IF creating = "product" THEN creator.pictures ELSE {}]
  /\ UNCHANGED <<creating, creator, made, shelf, discards, losses, touches>>

\* Slugs of categories and names of models are unique.
Exists == creating \in Single /\ made # <<>>

Allowed ==
  /\ asked.pictures \subseteq shelf
  /\ IF asked.kind = "create" THEN ~Exists ELSE made[asked.id].version = asked.version

ServeCreation ==
  /\ asked.kind # "none" /\ ~asked.served /\ Allowed
  /\ IF asked.kind = "create"
     THEN /\ Len(made) < MaxRecords
          /\ made' = Append(made, [version |-> 0, pictures |-> asked.pictures])
          /\ asked' = [asked EXCEPT !.served = TRUE, !.id = Len(made')]
     ELSE /\ made' = [made EXCEPT ![asked.id] =
               [version |-> @.version + 1,
                pictures |-> IF asked.kind = "gallery" THEN asked.pictures ELSE @.pictures]]
          /\ asked' = [asked EXCEPT !.served = TRUE, !.version = @ + 1]
  /\ UNCHANGED <<creating, creator, shelf, discards, losses, touches>>

\* The form goes, if it is still there; pictures nobody saved are deleted.
Gone(kept) ==
  /\ discards' = discards \union IF creator.open THEN creator.owned \ kept ELSE {}
  /\ creator' = [NewForm EXCEPT !.open = FALSE]

\* Mutant: the form takes note of its product with the gallery's answer only.
KnownAfterGallery(id, version) == creator

\* setSavedProduct(): the next save is an update of this product.
Known(id, version) ==
  IF creator.open
  THEN [creator EXCEPT !.id = id, !.version = version, !.refused = FALSE] ELSE creator

\* A category or a model is there: the form closes.  A product's pictures are
\* next, with the version of the answer, even when the form has been left.
CreationAnswered ==
  /\ asked.kind \in {"create", "update"} /\ asked.served
  /\ IF asked.rest # {}
     THEN /\ creator' = Known(asked.id, asked.version)
          /\ asked' = [asked EXCEPT !.kind = "gallery", !.served = FALSE,
                                    !.pictures = asked.rest]
          /\ UNCHANGED discards
     ELSE /\ Gone(asked.pictures)
          /\ asked' = NoRequest
  /\ UNCHANGED <<creating, made, shelf, losses, touches>>

\* retain() for each picture; the page of the product takes over.
GalleryAnswered ==
  /\ asked.kind = "gallery" /\ asked.served
  /\ Gone(asked.pictures)
  /\ asked' = NoRequest
  /\ UNCHANGED <<creating, made, shelf, losses, touches>>

CreationRefused ==
  /\ asked.kind # "none" /\ ~asked.served /\ ~Allowed
  /\ creator' = [creator EXCEPT !.refused = creator.open]
  /\ asked' = NoRequest
  /\ UNCHANGED <<creating, made, shelf, discards, losses, touches>>

\* No answer: whether the API has run the request, the form cannot know.
CreationLost ==
  /\ asked.kind # "none" /\ losses < MaxLosses
  /\ losses' = losses + 1
  /\ asked' = NoRequest
  /\ UNCHANGED <<creating, creator, made, shelf, discards, touches>>

LeaveForm ==
  /\ creator.open
  /\ Gone({})
  /\ UNCHANGED <<creating, asked, made, shelf, losses, touches>>

\* Another administrator finds the product in the list.
Touch(i) ==
  /\ i \in Ids /\ touches < MaxTouches
  /\ touches' = touches + 1
  /\ made' = [made EXCEPT ![i].version = @ + 1]
  /\ UNCHANGED <<creating, creator, asked, shelf, discards, losses>>

Shown(m) == \E i \in Ids : m \in made[i].pictures

ServeDiscard(m) ==
  /\ m \in discards
  /\ discards' = discards \ {m}
  /\ shelf' = IF Shown(m) THEN shelf ELSE shelf \ {m}
  /\ UNCHANGED <<creating, creator, asked, made, losses, touches>>

CreationNext ==
  \/ \E m \in Drafts : ChoosePicture(m) \/ DropPicture(m) \/ ServeDiscard(m)
  \/ Create \/ ServeCreation \/ CreationAnswered \/ GalleryAnswered
  \/ CreationRefused \/ CreationLost \/ LeaveForm
  \/ \E i \in 1 .. MaxRecords : Touch(i)

CreationSpec == CreationInit /\ [][CreationNext]_creationVars

-----------------------------------------------------------------------------
(***************************************************************************)
(* Properties                                                              *)
(***************************************************************************)

\* However often an administrator saves again after a failure of either half,
\* the form makes one record; a twin, or a form that can only be refused, is
\* left by a lost answer or by somebody else's write.
CreatedOnce ==
  /\ Len(made) > 1 => losses > 0
  /\ creator.refused => losses > 0 \/ touches > 0

\* The pictures of a created record stay in the store although the form
\* deletes its pictures when it goes, and nothing else stays there.
CreatedPicturesAreKept ==
  /\ \A i \in Ids : made[i].pictures \subseteq shelf
  /\ \A m \in shelf : Shown(m) \/ m \in discards \union creator.owned
=============================================================================
