------------------------------- MODULE Outbox -------------------------------
(***************************************************************************)
(* The transactional outbox and the worker loop that turns its events into *)
(* in-app notifications.  A pass claims a batch in one transaction and     *)
(* handles each event in transactions of its own; a worker may crash in    *)
(* between, or be so slow that its claim lapses and another worker takes   *)
(* the event over while the first still means to handle it.                *)
(*                                                                         *)
(* Time is abstracted to what the queries test: whether an event's         *)
(* available_at has come, and whether its claim is older than the lease.   *)
(* How long either takes is left open.                                     *)
(***************************************************************************)
EXTENDS Naturals, FiniteSets

CONSTANTS
  Events,       \* business events
  Users,        \* their possible recipients
  Recipients,   \* Recipients[e]: who notification_drafts_for() addresses
  Workers,      \* worker processes
  BatchSize,    \* events one pass claims
  MaxAttempts,  \* MAX_OUTBOX_ATTEMPTS
  MaxCrashes    \* bound: crashes of worker processes

ASSUME OutboxAssumption ==
  /\ IsFiniteSet(Workers)
  /\ Recipients \in [Events -> SUBSET Users]
  /\ BatchSize \in Nat \ {0} /\ MaxAttempts \in Nat \ {0} /\ MaxCrashes \in Nat

VARIABLES
  event,     \* event[e]: its outbox_events row
  told,      \* <<e, u>>: the notifications row of event e and recipient u
  todo,      \* todo[w]: claimed events w's pass has not come to yet
  crashes    \* crashes so far (bound only)

vars == <<event, told, todo, crashes>>

\* due: available_at has come; claim: claimed_at is null, recent, or older than
\* the lease.
NoEvent == [state |-> "absent", due |-> FALSE, claim |-> "free", attempts |-> 0]

Open(e) == event[e].state = "open"

Deferred(e) == Open(e) /\ ~event[e].due

\* The business transaction writes the event with the change it reports, to be
\* handled after the last event of its order or request, which may be deferred.
Emit(e) ==
  /\ event[e].state = "absent"
  /\ \E due \in BOOLEAN :
       /\ due \/ \E f \in Events : Deferred(f)
       /\ event' = [event EXCEPT ![e].state = "open", ![e].due = due]
  /\ UNCHANGED <<told, todo, crashes>>

\* Mutant: a claim is never taken over.
ClaimableWhenFree(e) == Open(e) /\ event[e].due /\ event[e].claim = "free"

Claimable(e) == Open(e) /\ event[e].due /\ event[e].claim # "held"

\* claim_batch(): FOR UPDATE SKIP LOCKED, so any of the claimable events.
Claim(w) ==
  /\ todo[w] = {}
  /\ \E batch \in SUBSET {e \in Events : Claimable(e)} :
       /\ batch # {} /\ Cardinality(batch) <= BatchSize
       /\ todo' = [todo EXCEPT ![w] = batch]
       /\ event' = [e \in Events |->
            IF e \in batch
            THEN [event[e] EXCEPT !.claim = "held", !.attempts = @ + 1]
            ELSE event[e]]
  /\ UNCHANGED <<told, crashes>>

\* get_claimed_for_update() finds the event: claimed by this worker or another.
Claimed(e) == Open(e) /\ event[e].claim # "free"

Handled(w, e) == todo' = [todo EXCEPT ![w] = @ \ {e}]

\* Notifications of every recipient and processed_at, in one transaction.
Process(w, e) ==
  /\ e \in todo[w]
  /\ Claimed(e)
  /\ told' = told \union ({e} \X Recipients[e])
  /\ event' = [event EXCEPT ![e].state = "processed", ![e].claim = "free"]
  /\ Handled(w, e)
  /\ UNCHANGED crashes

\* Another worker settled the event, or failed it and gave up its claim.
Skip(w, e) ==
  /\ e \in todo[w]
  /\ ~Claimed(e)
  /\ Handled(w, e)
  /\ UNCHANGED <<event, told, crashes>>

\* mark_failed() makes a dead letter instead of a retry.
GivesUp(e) == event[e].attempts >= MaxAttempts

\* An exception undoes the event's transaction; the next one records it.
Fail(w, e) ==
  /\ e \in todo[w]
  /\ Claimed(e)
  /\ event' = [event EXCEPT ![e] = IF GivesUp(e)
                                   THEN [@ EXCEPT !.claim = "free", !.state = "dead"]
                                   ELSE [@ EXCEPT !.claim = "free", !.due = FALSE]]
  /\ Handled(w, e)
  /\ UNCHANGED <<told, crashes>>

\* The process dies in the middle of a pass and is started again.
Crash(w) ==
  /\ crashes < MaxCrashes
  /\ todo[w] # {}
  /\ todo' = [todo EXCEPT ![w] = {}]
  /\ crashes' = crashes + 1
  /\ UNCHANGED <<event, told>>

LeaseLapses(e) ==
  /\ event[e].claim = "held"
  /\ event' = [event EXCEPT ![e].claim = "stale"]
  /\ UNCHANGED <<told, todo, crashes>>

RetryFallsDue(e) ==
  /\ Deferred(e)
  /\ event' = [event EXCEPT ![e].due = TRUE]
  /\ UNCHANGED <<told, todo, crashes>>

Init ==
  /\ event = [e \in Events |-> NoEvent]
  /\ told = {}
  /\ todo = [w \in Workers |-> {}]
  /\ crashes = 0

Handle(w, e) == Process(w, e) \/ Skip(w, e) \/ Fail(w, e)

Next ==
  \/ \E e \in Events : Emit(e) \/ LeaseLapses(e) \/ RetryFallsDue(e)
  \/ \E w \in Workers : Claim(w) \/ Crash(w) \/ \E e \in Events : Handle(w, e)

Spec == Init /\ [][Next]_vars

\* The loops run on, a pass goes through its batch, and time passes.  Nothing
\* says that handling an event ever succeeds.
FairSpec ==
  /\ Spec
  /\ \A w \in Workers : WF_vars(Claim(w)) /\ WF_vars(\E e \in Events : Handle(w, e))
  /\ \A e \in Events : WF_vars(LeaseLapses(e)) /\ WF_vars(RetryFallsDue(e))

-----------------------------------------------------------------------------
(***************************************************************************)
(* Properties                                                              *)
(***************************************************************************)

Rows ==
  [state : {"absent", "open", "processed", "dead"}, due : BOOLEAN,
   claim : {"free", "held", "stale"}, attempts : Nat]

\* Every row and every worker keeps its shape.
TypeOK ==
  /\ event \in [Events -> Rows]
  /\ told \subseteq Events \X Users
  /\ todo \in [Workers -> SUBSET Events]
  /\ crashes \in Nat

\* Each business event notifies all its recipients once or, as a dead letter,
\* nobody, and in the end does one of the two, through crashes, lapsed claims
\* and workers that handle the same event.
Promise == INSTANCE OutboxPromise WITH fate <- [e \in Events |-> event[e].state]
KeepsPromise == Promise!Spec
KeepsSafePromise == Promise!SafeSpec

\* Retries are bounded: only a crash or an overlapping worker makes an event
\* be claimed more than MAX_OUTBOX_ATTEMPTS times.
AttemptsBounded ==
  \A e \in Events : event[e].attempts < MaxAttempts + Cardinality(Workers) + crashes
=============================================================================
