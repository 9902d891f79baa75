--------------------------- MODULE ServiceIntake ---------------------------
(***************************************************************************)
(* Asking for service on the phone.  The draft of a machine's request is   *)
(* filled in on a stack of screens; each screen has its own copy of it     *)
(* (useIntakeDraft) and all of them share one stored draft, whose reads    *)
(* and writes are serialized (intakeStore).  Sending writes the submission *)
(* into the stored draft, posts it, and clears the draft when the request  *)
(* is known to exist; a submission whose outcome is unknown locks the      *)
(* draft until the request is found in the list.                           *)
(*                                                                         *)
(* The screens before the review are one screen here, and what the         *)
(* customer enters is one text.                                            *)
(***************************************************************************)
EXTENDS Naturals, Sequences, FiniteSets, SequencesExt

CONSTANTS
  Texts,       \* what can be entered
  NoText,      \* nothing entered, no submission
  MaxScreens,  \* bound: screens opened
  MaxDrafts,   \* bound: drafts begun
  MaxQueue,    \* bound: storage operations waiting when the customer acts
  MaxFaults    \* bound: lost messages, failed reads and writes, kills

ASSUME IntakeAssumption ==
  /\ NoText \notin Texts
  /\ MaxScreens \in Nat /\ MaxDrafts \in Nat /\ MaxQueue \in Nat /\ MaxFaults \in Nat

VARIABLES
  stored,    \* the draft in the phone's storage
  torn,      \* a write of it was cut off: it cannot be read until it is written again
  io,        \* storage operations not yet done, in order
  stack,     \* mounted screens, the last one in front
  opened,    \* screens opened
  hook,      \* hook[i]: the draft as screen i has it
  attempt,   \* attempt[i]: how far the button of screen i has got
  wire,      \* POSTs the API has not served yet; heard: the phone waits for the answer
  requests,  \* requests at the API
  astray,    \* drafts a screen left behind still opened a screen for, posted unstored or
             \* cleared as another one
  drafts, faults \* counted for their bounds

intakeVars == <<stored, torn, io, stack, opened, hook, attempt, wire, requests, astray, drafts,
                faults>>

Screens == 1 .. MaxScreens
Mounted(i) == i \in ToSet(stack)
InFront(i) == stack # <<>> /\ Last(stack) = i
NoSubmission == [text |-> NoText, existing |-> {}]
EmptyDraft == [id |-> 0, text |-> NoText, submission |-> NoSubmission]
NoHook == [kind |-> "edit", ready |-> FALSE, error |-> FALSE, draft |-> EmptyDraft]
NoAttempt == [stage |-> "idle", draft |-> EmptyDraft]
Locked(draft) == draft.submission # NoSubmission

IntakeInit ==
  /\ stored = EmptyDraft /\ torn = FALSE /\ io = <<>>
  /\ stack = <<>> /\ opened = 0
  /\ hook = [i \in Screens |-> NoHook] /\ attempt = [i \in Screens |-> NoAttempt]
  /\ wire = {} /\ requests = <<>> /\ astray = {} /\ drafts = 0 /\ faults = 0

Fault == faults < MaxFaults /\ faults' = faults + 1

-----------------------------------------------------------------------------
(***************************************************************************)
(* The draft of a screen                                                   *)
(***************************************************************************)

\* An operation has somebody who waits for it (wakes), or not.  A read that is
\* overtaken by another read or by a change of the same screen, or whose screen is
\* gone, is done for nobody (loadVersion, active).
Overtaken(ops, screens) ==
  [n \in DOMAIN ops |-> IF ops[n].op = "load" /\ ops[n].by \in screens
                        THEN [ops[n] EXCEPT !.wakes = FALSE] ELSE ops[n]]

Load(ops, i) ==
  Append(Overtaken(ops, {i}), [op |-> "load", by |-> i, draft |-> EmptyDraft, wakes |-> TRUE])

Save(ops, i, draft, wakes) ==
  Append(Overtaken(ops, {i}), [op |-> "save", by |-> i, draft |-> draft, wakes |-> wakes])

\* useFocusEffect(): a screen that comes to the front is locked until it has read.
Focused(ops, h, i) ==
  /\ io' = Load(ops, i)
  /\ hook' = [h EXCEPT ![i].ready = FALSE]

Push(kind, ops, hooks) ==
  /\ opened < MaxScreens /\ opened' = opened + 1
  /\ stack' = Append(stack, opened')
  /\ Focused(ops, [hooks EXCEPT ![opened'] = [NoHook EXCEPT !.kind = kind]], opened')

Open ==
  /\ stack = <<>> /\ Push("edit", io, hook)
  /\ UNCHANGED <<stored, torn, attempt, wire, requests, astray, drafts, faults>>

\* The tab is left and entered again.
Refocus(i) ==
  /\ InFront(i) /\ \A n \in DOMAIN io : io[n].op = "load" => ~io[n].wakes
  /\ Focused(io, hook, i)
  /\ UNCHANGED <<stored, torn, stack, opened, attempt, wire, requests, astray, drafts, faults>>

\* Back is there also while the button is at work.
Back ==
  /\ stack # <<>> /\ stack' = Front(stack)
  /\ LET gone == Last(stack)
         ops == Overtaken(io, {gone})
         hooks == [hook EXCEPT ![gone] = [NoHook EXCEPT !.kind = hook[gone].kind]]
     IN IF Len(stack) = 1 THEN io' = ops /\ hook' = hooks
        ELSE Focused(ops, hooks, stack[Len(stack) - 1])
  /\ UNCHANGED <<stored, torn, opened, attempt, wire, requests, astray, drafts, faults>>

\* change(): the fields are there when the draft has been read and is not locked.
Change(i, text) ==
  /\ InFront(i) /\ hook[i].kind = "edit" /\ hook[i].ready /\ ~Locked(hook[i].draft)
  /\ Len(io) < MaxQueue
  /\ text # hook[i].draft.text
  /\ LET first == hook[i].draft.id = 0
         draft == [hook[i].draft EXCEPT !.text = text, !.id = IF first THEN drafts + 1 ELSE @]
     IN /\ first => drafts < MaxDrafts
        /\ drafts' = IF first THEN drafts + 1 ELSE drafts
        /\ io' = Save(io, i, draft, FALSE)
        /\ hook' = [hook EXCEPT ![i].draft = draft]
  /\ UNCHANGED <<stored, torn, stack, opened, attempt, wire, requests, astray, faults>>

\* The button under a failed write writes the draft again.
RetrySave(i) ==
  /\ InFront(i) /\ hook[i].error /\ hook[i].ready /\ Len(io) < MaxQueue
  /\ io' = Save(io, i, hook[i].draft, FALSE)
  /\ UNCHANGED <<stored, torn, stack, opened, hook, attempt, wire, requests, astray, drafts,
                 faults>>

-----------------------------------------------------------------------------
(***************************************************************************)
(* The button: proceed()                                                   *)
(***************************************************************************)

At(i, stage) == [attempt EXCEPT ![i].stage = stage]

\* update(): nothing at all once the screen is gone.
Update(i, draft, stage, after) ==
  IF Mounted(i)
  THEN /\ io' = Save(io, i, draft, TRUE)
       /\ hook' = [hook EXCEPT ![i].draft = draft]
       /\ attempt' = At(i, stage)
  ELSE attempt' = At(i, after) /\ UNCHANGED <<io, hook>>

\* intakeInput(), and proceed()'s own checks, let only a filled draft through.
Complete(draft) == draft.text # NoText

\* A locked draft is only looked up; another is written and then moves on.
Press(i) ==
  /\ InFront(i) /\ hook[i].ready /\ ~hook[i].error /\ attempt[i].stage = "idle"
  /\ LET draft == hook[i].draft IN
     IF Locked(draft)
     THEN attempt' = [attempt EXCEPT ![i] = [stage |-> "checking", draft |-> draft]]
          /\ UNCHANGED <<io, hook>>
     ELSE /\ Complete(draft)
          /\ attempt' = [attempt EXCEPT ![i] = [stage |-> "noting", draft |-> draft]]
          /\ io' = Save(io, i, draft, TRUE) /\ UNCHANGED hook
  /\ UNCHANGED <<stored, torn, stack, opened, wire, requests, astray, drafts, faults>>

\* router.push() of the next screen, wherever the customer is by then.
Continue(i, hooks) ==
  /\ Push("review", Tail(io), hooks)
  /\ attempt' = At(i, "idle")
  /\ astray' = IF Mounted(i) THEN astray ELSE astray \union {attempt[i].draft.id}

Post(i, draft) == [by |-> i, draft |-> draft, heard |-> TRUE]

Matches(draft) ==
  {r \in DOMAIN requests : /\ r \notin draft.submission.existing
                           /\ requests[r].text = draft.submission.text}

\* Mutant: the submission is posted before it is stored.
SubmitUnsaved(i, draft) ==
  /\ attempt' = [attempt EXCEPT ![i] = [stage |-> "posting", draft |-> draft]]
  /\ wire' = wire \union {Post(i, draft)} /\ astray' = astray
  /\ UNCHANGED <<io, hook>>

\* The submission is stored and then posted; a screen that was left only posts.
Submit(i, draft) ==
  /\ IF Mounted(i)
     THEN /\ io' = Save(io, i, draft, TRUE)
          /\ hook' = [hook EXCEPT ![i].draft = draft]
          /\ UNCHANGED <<wire, astray>>
     ELSE /\ wire' = wire \union {Post(i, draft)} /\ astray' = astray \union {draft.id}
          /\ UNCHANGED <<io, hook>>
  /\ attempt' = [attempt EXCEPT ![i] =
                   [stage |-> IF Mounted(i) THEN "saving" ELSE "posting", draft |-> draft]]

\* The options are read again and the requests there are listed.
ListExisting(i) ==
  /\ attempt[i].stage = "noted"
  /\ Submit(i, [attempt[i].draft EXCEPT
                  !.submission = [text |-> attempt[i].draft.text, existing |-> DOMAIN requests]])
  /\ UNCHANGED <<stored, torn, stack, opened, requests, drafts, faults>>

\* One of the two fails, or the options have changed.
FailListing(i) ==
  /\ attempt[i].stage = "noted"
  /\ attempt' = At(i, "idle")
  /\ UNCHANGED <<stored, torn, io, stack, opened, hook, wire, requests, astray, drafts, faults>>

\* create() at the API; it may also refuse (the type, the window, the media).
ServePost(post) ==
  /\ wire' = wire \ {post}
  /\ \/ /\ requests' = Append(requests, [draft |-> post.draft.id,
                                         text |-> post.draft.submission.text])
        /\ attempt' = IF post.heard THEN At(post.by, "created") ELSE attempt
     \/ attempt' = (IF post.heard THEN At(post.by, "refused") ELSE attempt) /\ UNCHANGED requests
  /\ UNCHANGED <<stored, torn, io, stack, opened, hook, astray, drafts, faults>>

Unheard(post) == [post EXCEPT !.heard = FALSE]

\* The POST is lost, or its answer; a POST that was given up may still be served.
LosePost(i) ==
  /\ attempt[i].stage \in {"posting", "created", "refused"} /\ Fault
  /\ attempt' = At(i, "checking")
  /\ LET post == {p \in wire : p.by = i /\ p.heard} IN
     wire' \in {wire \ post, (wire \ post) \union {Unheard(p) : p \in post}}
  /\ UNCHANGED <<stored, torn, io, stack, opened, hook, requests, astray, drafts>>

\* finish(): the stored draft is cleared before anything else.
Clearing(i, stage) ==
  /\ attempt' = At(i, stage)
  /\ io' = Append(io, [op |-> "clear", by |-> i, draft |-> EmptyDraft, wakes |-> TRUE])
  /\ UNCHANGED hook

Finish(i) ==
  /\ attempt[i].stage = "created" /\ Clearing(i, "clearing")
  /\ UNCHANGED <<stored, torn, stack, opened, wire, requests, astray, drafts, faults>>

\* A definite rejection takes the submission back.
Reject(i) ==
  /\ attempt[i].stage = "refused"
  /\ Update(i, [hook[i].draft EXCEPT !.submission = NoSubmission], "undoing", "idle")
  /\ UNCHANGED <<stored, torn, stack, opened, wire, requests, astray, drafts, faults>>

\* Mutant: a submission that is not found is taken for one that was not sent.
ReconcileAnyway(i) ==
  IF Cardinality(Matches(attempt[i].draft)) = 1 THEN Clearing(i, "settling")
  ELSE Update(i, [hook[i].draft EXCEPT !.submission = NoSubmission], "undoing", "idle")

\* reconcileSubmission(): finished if exactly one request is the submission.
Reconcile(i) ==
  IF Cardinality(Matches(attempt[i].draft)) = 1 THEN Clearing(i, "settling")
  ELSE attempt' = At(i, "idle") /\ UNCHANGED <<io, hook>>

Check(i) ==
  /\ attempt[i].stage = "checking"
  /\ Reconcile(i)
  /\ UNCHANGED <<stored, torn, stack, opened, wire, requests, astray, drafts, faults>>

FailCheck(i) ==
  /\ attempt[i].stage = "checking" /\ Fault
  /\ attempt' = At(i, "idle")
  /\ UNCHANGED <<stored, torn, io, stack, opened, hook, wire, requests, astray, drafts>>

-----------------------------------------------------------------------------
(***************************************************************************)
(* The storage                                                             *)
(***************************************************************************)

\* A read ends in the screen that began it; one that fails, as that of a torn
\* draft does, only shows an error, also when it was overtaken.
EndLoad ==
  /\ io # <<>> /\ Head(io).op = "load"
  /\ \E failed \in {torn, TRUE} :
       /\ IF failed = torn THEN UNCHANGED faults ELSE Fault
       /\ LET i == Head(io).by IN
          hook' = IF failed /\ Mounted(i) THEN [hook EXCEPT ![i].error = TRUE]
                  ELSE IF ~failed /\ Head(io).wakes
                  THEN [hook EXCEPT ![i].ready = TRUE, ![i].error = FALSE, ![i].draft = stored]
                  ELSE hook
  /\ io' = Tail(io)
  /\ UNCHANGED <<stored, torn, stack, opened, attempt, wire, requests, astray, drafts>>

EndSave ==
  /\ io # <<>> /\ Head(io).op = "save"
  /\ LET i == Head(io).by
         stage == attempt[i].stage
         hooks == IF Mounted(i) THEN [hook EXCEPT ![i].error = FALSE] ELSE hook
     IN IF Head(io).wakes /\ stage = "noting" /\ hook[i].kind = "edit"
        THEN Continue(i, hooks) /\ UNCHANGED wire
        ELSE /\ hook' = hooks /\ io' = Tail(io)
             /\ attempt' = IF ~Head(io).wakes THEN attempt
                           ELSE At(i, CASE stage = "noting" -> "noted"
                                        [] stage = "saving" -> "posting"
                                        [] OTHER -> "idle")
             /\ wire' = IF Head(io).wakes /\ stage = "saving"
                        THEN wire \union {Post(i, attempt[i].draft)} ELSE wire
             /\ UNCHANGED <<stack, opened, astray>>
  /\ stored' = Head(io).draft /\ torn' = FALSE
  /\ UNCHANGED <<requests, drafts, faults>>

\* A late finish clears the draft that was begun after its own.
ClearedAstray(op) ==
  IF op.op = "clear" /\ stored.id \notin {0, attempt[op.by].draft.id}
  THEN astray \union {stored.id} ELSE astray

\* A write or a clearing that does not end is done, undone or torn.
Interrupted(op) ==
  /\ \/ UNCHANGED <<stored, torn>>
     \/ stored' = op.draft /\ torn' = FALSE
     \/ UNCHANGED stored /\ torn' = TRUE
  /\ astray' = ClearedAstray(op)

\* What waited for a write that failed is given up, and the screen says so.
FailSave ==
  /\ io # <<>> /\ Head(io).op = "save" /\ Fault
  /\ LET i == Head(io).by IN
     /\ hook' = IF Mounted(i) THEN [hook EXCEPT ![i].error = TRUE] ELSE hook
     /\ attempt' = IF Head(io).wakes THEN At(i, "idle") ELSE attempt
  /\ Interrupted(Head(io)) /\ io' = Tail(io)
  /\ UNCHANGED <<stack, opened, wire, requests, drafts>>

\* A clearing that fails after the answer is taken for a lost answer.
FailClear ==
  /\ io # <<>> /\ Head(io).op = "clear" /\ Fault
  /\ LET i == Head(io).by IN
     attempt' = At(i, IF attempt[i].stage = "clearing" THEN "checking" ELSE "idle")
  /\ Interrupted(Head(io)) /\ io' = Tail(io)
  /\ UNCHANGED <<stack, opened, hook, wire, requests, drafts>>

\* The draft is gone; a screen that is still there is replaced, with the screens
\* under it, by the confirmation (navigation.reset).
EndClear ==
  /\ io # <<>> /\ Head(io).op = "clear"
  /\ LET i == Head(io).by IN
     /\ attempt' = At(i, "idle")
     /\ IF Mounted(i)
        THEN /\ stack' = <<>> /\ io' = Overtaken(Tail(io), Screens)
             /\ hook' = [j \in Screens |-> [NoHook EXCEPT !.kind = hook[j].kind]]
        ELSE io' = Tail(io) /\ UNCHANGED <<stack, hook>>
  /\ stored' = EmptyDraft /\ torn' = FALSE /\ astray' = ClearedAstray(Head(io))
  /\ UNCHANGED <<opened, wire, requests, drafts, faults>>

\* The app is killed, and what it was writing is interrupted.
Kill ==
  /\ opened > 0 /\ Fault
  /\ IF io # <<>> /\ Head(io).op # "load" THEN Interrupted(Head(io))
     ELSE UNCHANGED <<stored, torn, astray>>
  /\ io' = <<>> /\ stack' = <<>>
  /\ hook' = [i \in Screens |-> [NoHook EXCEPT !.kind = hook[i].kind]]
  /\ attempt' = [i \in Screens |-> [attempt[i] EXCEPT !.stage = "idle"]]
  /\ wire' = {Unheard(post) : post \in wire}
  /\ UNCHANGED <<opened, requests, drafts>>

IntakeStep ==
  \/ Open \/ Back \/ EndLoad \/ EndSave \/ FailSave \/ EndClear \/ FailClear \/ Kill
  \/ \E i \in Screens :
       \/ Refocus(i) \/ RetrySave(i) \/ Press(i) \/ ListExisting(i)
       \/ FailListing(i) \/ LosePost(i) \/ Finish(i) \/ Reject(i) \/ Check(i)
       \/ FailCheck(i) \/ \E text \in Texts : Change(i, text)
  \/ \E post \in wire : ServePost(post)

-----------------------------------------------------------------------------
Drafts == [id: 0 .. MaxDrafts, text: Texts \union {NoText},
           submission: [text: Texts \union {NoText}, existing: SUBSET (1 .. 2 * MaxScreens)]]

IntakeTypeOK ==
  /\ stored \in Drafts /\ torn \in BOOLEAN
  /\ \A n \in DOMAIN io : io[n] \in [op: {"load", "save", "clear"}, by: Screens, draft: Drafts,
                                     wakes: BOOLEAN]
  /\ ToSet(stack) \subseteq Screens /\ opened \in 0 .. MaxScreens
  /\ hook \in [Screens -> [kind: {"edit", "review"}, ready: BOOLEAN, error: BOOLEAN,
                           draft: Drafts]]
  /\ attempt \in [Screens -> [stage: {"idle", "noting", "noted", "saving", "posting", "created",
                                      "refused", "clearing", "settling", "undoing", "checking"},
                              draft: Drafts]]
  /\ wire \subseteq [by: Screens, draft: Drafts, heard: BOOLEAN] /\ astray \subseteq 1 .. MaxDrafts
  /\ \A r \in DOMAIN requests : requests[r] \in [draft: 1 .. MaxDrafts, text: Texts]
  /\ drafts \in 0 .. MaxDrafts /\ faults \in 0 .. MaxFaults

\* A draft becomes one request, whatever was lost, killed or pressed again, if
\* its submission was stored before it was posted (intakeStore.ts:19).
NoDuplicateRequests ==
  \A r, s \in DOMAIN requests :
    requests[r].draft = requests[s].draft /\ requests[r].draft \notin astray => r = s

\* Nobody edits what may still become a request: while a POST is on its way, the
\* stored draft is locked by its submission, unless the request is there already,
\* the draft cannot be read, or a screen left behind has interfered.
LockedWhileOnItsWay ==
  astray = {} => \A post \in wire :
    \/ stored.id = post.draft.id /\ Locked(stored)
    \/ \E r \in DOMAIN requests : requests[r].draft = post.draft.id
    \/ torn

\* When nothing is being written, a screen the customer can use shows what a
\* restart would bring back, or a draft that has become a request meanwhile.
ShownIsStored ==
  astray = {} => \A i \in Screens :
    InFront(i) /\ hook[i].ready /\ io = <<>> /\ ~hook[i].error =>
      \/ hook[i].draft = stored
      \/ \E r \in DOMAIN requests : requests[r].draft = hook[i].draft.id

\* Whatever is lost, killed or pressed again: a draft is one request, is not
\* edited while it may become one, and is shown as it is stored.
SubmittedOnce == NoDuplicateRequests /\ LockedWhileOnItsWay /\ ShownIsStored
=============================================================================
