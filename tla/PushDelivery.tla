---------------------------- MODULE PushDelivery ----------------------------
(***************************************************************************)
(* Push delivery of in-app notifications to registered devices.  A pass    *)
(* claims a batch of deliveries; for each it reads the message and the     *)
(* device in one transaction, calls the push provider outside any, and     *)
(* records the answer in a third, by the delivery's id alone.  Meanwhile   *)
(* customers sign in and out of devices, claims lapse, workers crash and   *)
(* an administrator sends failed deliveries back to the queue.             *)
(*                                                                         *)
(* Time is abstracted as in Outbox: next_attempt_at has come or not, a     *)
(* claim is recent or older than the lease.                                *)
(***************************************************************************)
EXTENDS Naturals, FiniteSets

CONSTANTS
  Notices,      \* in-app notifications
  Users,        \* customers and staff
  Recipient,    \* Recipient[n]: notifications.recipient_id
  Devices,      \* device tokens
  Workers,      \* worker processes
  Nothing,      \* no user, no delivery
  BatchSize,    \* deliveries one pass claims
  MaxAttempts,  \* MAX_DELIVERY_ATTEMPTS
  MaxCrashes,   \* bound: crashes of worker processes
  MaxSessions,  \* bound: device registrations and deactivations
  MaxRetries    \* bound: administrator retries

Deliveries == Notices \X Devices  \* unique (notification_id, device_token_id)

ASSUME DeliveryAssumption ==
  /\ Recipient \in [Notices -> Users] /\ IsFiniteSet(Workers)
  /\ Nothing \notin Users /\ Nothing \notin Deliveries
  /\ BatchSize \in Nat \ {0} /\ MaxAttempts \in Nat \ {0}
  /\ MaxCrashes \in Nat /\ MaxSessions \in Nat /\ MaxRetries \in Nat

VARIABLES
  written,   \* notifications written so far
  device,    \* device[d]: user_id and is_active of the token
  push,      \* push[p]: the notification_deliveries row
  todo,      \* todo[w]: claimed deliveries w's pass has not come to yet
  sending,   \* sending[w]: the delivery w has read the message of
  answer,    \* answer[w]: what the provider answered w, "none" before
  accepted,  \* history: deliveries the provider accepted
  crashes, sessions, retries  \* counted for their bounds

vars == <<written, device, push, todo, sending, answer, accepted, crashes,
          sessions, retries>>
worker == <<todo, sending, answer>>
bounds == <<crashes, sessions, retries>>

NoPush == [state |-> "none", due |-> FALSE, claim |-> "free", attempts |-> 0]

Waiting(p) == push[p].state \in {"pending", "retry"}
Settled(p) == push[p].state \in {"sent", "dead_letter"}

\* The token is active and still the recipient's.
Eligible(p) == device[p[2]] = [user |-> Recipient[p[1]], active |-> TRUE]

\* create_notification() in the outbox's transaction: one delivery for each
\* active device of the recipient.
CreateNotification(n) ==
  /\ n \notin written
  /\ written' = written \union {n}
  /\ push' = [p \in Deliveries |->
       IF p[1] = n /\ Eligible(p)
       THEN [state |-> "pending", due |-> TRUE, claim |-> "free", attempts |-> 0]
       ELSE push[p]]
  /\ UNCHANGED <<device, worker, accepted, bounds>>

-----------------------------------------------------------------------------
(***************************************************************************)
(* Devices                                                                 *)
(***************************************************************************)

\* Signing in on a device takes its token over from whoever had it.
RegisterDevice(u, d) ==
  /\ sessions < MaxSessions
  /\ device' = [device EXCEPT ![d] = [user |-> u, active |-> TRUE]]
  /\ sessions' = sessions + 1
  /\ UNCHANGED <<written, push, worker, accepted, crashes, retries>>

DeactivateDevice(u, d) ==
  /\ sessions < MaxSessions
  /\ device[d] = [user |-> u, active |-> TRUE]
  /\ device' = [device EXCEPT ![d].active = FALSE]
  /\ sessions' = sessions + 1
  /\ UNCHANGED <<written, push, worker, accepted, crashes, retries>>

-----------------------------------------------------------------------------
(***************************************************************************)
(* The worker's pass                                                       *)
(***************************************************************************)

\* Mutant: a delivery given up is recorded as sent.
GivenUpAsSent(row) == [row EXCEPT !.claim = "free", !.state = "sent"]

\* mark_ineligible(), mark_invalid_token() and exhausted attempts all end here.
GivenUp(row) == [row EXCEPT !.claim = "free", !.state = "dead_letter"]

PutOff(row) == [row EXCEPT !.claim = "free", !.state = "retry", !.due = FALSE]

Requeued(row) == [row EXCEPT !.state = "pending", !.attempts = 0, !.due = TRUE]

\* Mutant: only unclaimed deliveries are claimed.
ClaimableWhenFree(p) == Waiting(p) /\ push[p].due /\ push[p].claim = "free"

Claimable(p) == Waiting(p) /\ push[p].due /\ push[p].claim # "held"

\* claim_batch(): FOR UPDATE SKIP LOCKED, so any of the claimable deliveries.
ClaimBatch(w) ==
  /\ todo[w] = {} /\ sending[w] = Nothing
  /\ \E batch \in SUBSET {p \in Deliveries : Claimable(p)} :
       /\ batch # {} /\ Cardinality(batch) <= BatchSize
       /\ todo' = [todo EXCEPT ![w] = batch]
       /\ push' = [p \in Deliveries |->
            IF p \in batch
            THEN [push[p] EXCEPT !.claim = "held", !.attempts = @ + 1]
            ELSE push[p]]
  /\ UNCHANGED <<written, device, sending, answer, accepted, bounds>>

\* The message and the token are read for an eligible device.
Prepare(w, p) ==
  /\ p \in todo[w] /\ sending[w] = Nothing
  /\ Eligible(p)
  /\ todo' = [todo EXCEPT ![w] = @ \ {p}]
  /\ sending' = [sending EXCEPT ![w] = p]
  /\ UNCHANGED <<written, device, push, answer, accepted, bounds>>

\* mark_ineligible(), whatever state the row is in by now.
Refuse(w, p) ==
  /\ p \in todo[w] /\ sending[w] = Nothing
  /\ ~Eligible(p)
  /\ todo' = [todo EXCEPT ![w] = @ \ {p}]
  /\ push' = [push EXCEPT ![p] = GivenUp(@)]
  /\ UNCHANGED <<written, device, sending, answer, accepted, bounds>>

\* provider.send(): accepted, the token is rejected for good, or a failure or
\* timeout after which the message may or may not have been accepted.
Send(w) ==
  /\ sending[w] # Nothing /\ answer[w] = "none"
  /\ \E result \in {"sent", "invalid_token", "retryable_failure"} :
       /\ answer' = [answer EXCEPT ![w] = result]
       /\ \/ result # "invalid_token" /\ accepted' = accepted \union {sending[w]}
          \/ result # "sent" /\ UNCHANGED accepted
  /\ UNCHANGED <<written, device, push, todo, sending, bounds>>

Answered(w, result) == sending[w] # Nothing /\ answer[w] = result

Finished(w) ==
  /\ sending' = [sending EXCEPT ![w] = Nothing]
  /\ answer' = [answer EXCEPT ![w] = "none"]
  /\ UNCHANGED todo

MarkSent(w) ==
  /\ Answered(w, "sent")
  /\ push' = [push EXCEPT ![sending[w]] = [@ EXCEPT !.claim = "free", !.state = "sent"]]
  /\ Finished(w)
  /\ UNCHANGED <<written, device, accepted, bounds>>

\* Mutant: the claim on the rejected delivery is kept.
MarkInvalidTokenClaimed(w) ==
  /\ Answered(w, "invalid_token")
  /\ push' = [push EXCEPT ![sending[w]].state = "dead_letter"]
  /\ device' = [device EXCEPT ![sending[w][2]].active = FALSE]
  /\ Finished(w)
  /\ UNCHANGED <<written, accepted, bounds>>

MarkInvalidToken(w) ==
  /\ Answered(w, "invalid_token")
  /\ push' = [push EXCEPT ![sending[w]] = GivenUp(@)]
  /\ device' = [device EXCEPT ![sending[w][2]].active = FALSE]
  /\ Finished(w)
  /\ UNCHANGED <<written, accepted, bounds>>

MarkRetryableFailure(w) ==
  /\ Answered(w, "retryable_failure")
  /\ push' = [push EXCEPT ![sending[w]] =
       IF @.attempts >= MaxAttempts THEN GivenUp(@) ELSE PutOff(@)]
  /\ Finished(w)
  /\ UNCHANGED <<written, device, accepted, bounds>>

\* The process dies in the middle of a pass and is started again.
Crash(w) ==
  /\ crashes < MaxCrashes
  /\ todo[w] # {} \/ sending[w] # Nothing
  /\ todo' = [todo EXCEPT ![w] = {}]
  /\ sending' = [sending EXCEPT ![w] = Nothing]
  /\ answer' = [answer EXCEPT ![w] = "none"]
  /\ crashes' = crashes + 1
  /\ UNCHANGED <<written, device, push, accepted, sessions, retries>>

-----------------------------------------------------------------------------
\* The administrator's retry of an unclaimed failed delivery.
RetryDelivery(p) ==
  /\ retries < MaxRetries
  /\ push[p].state \in {"retry", "dead_letter"} /\ push[p].claim = "free"
  /\ Eligible(p)
  /\ push' = [push EXCEPT ![p] = Requeued(@)]
  /\ retries' = retries + 1
  /\ UNCHANGED <<written, device, worker, accepted, crashes, sessions>>

LeaseLapses(p) ==
  /\ push[p].claim = "held"
  /\ push' = [push EXCEPT ![p].claim = "stale"]
  /\ UNCHANGED <<written, device, worker, accepted, bounds>>

RetryFallsDue(p) ==
  /\ push[p].state = "retry" /\ ~push[p].due
  /\ push' = [push EXCEPT ![p].due = TRUE]
  /\ UNCHANGED <<written, device, worker, accepted, bounds>>

Init ==
  /\ written = {}
  /\ device = [d \in Devices |-> [user |-> Nothing, active |-> FALSE]]
  /\ push = [p \in Deliveries |-> NoPush]
  /\ todo = [w \in Workers |-> {}]
  /\ sending = [w \in Workers |-> Nothing]
  /\ answer = [w \in Workers |-> "none"]
  /\ accepted = {}
  /\ crashes = 0 /\ sessions = 0 /\ retries = 0

Handle(w) ==
  \/ \E p \in Deliveries : Prepare(w, p) \/ Refuse(w, p)
  \/ Send(w)
  \/ MarkSent(w) \/ MarkInvalidToken(w) \/ MarkRetryableFailure(w)

Next ==
  \/ \E n \in Notices : CreateNotification(n)
  \/ \E u \in Users, d \in Devices : RegisterDevice(u, d) \/ DeactivateDevice(u, d)
  \/ \E w \in Workers : ClaimBatch(w) \/ Handle(w) \/ Crash(w)
  \/ \E p \in Deliveries : RetryDelivery(p) \/ LeaseLapses(p) \/ RetryFallsDue(p)

Spec == Init /\ [][Next]_vars

\* The loops run on, a pass goes through its batch, the provider's client
\* times out, and time passes.  Nothing says the provider ever accepts.
FairSpec ==
  /\ Spec
  /\ \A w \in Workers : WF_vars(ClaimBatch(w)) /\ WF_vars(Handle(w))
  /\ \A p \in Deliveries : WF_vars(LeaseLapses(p)) /\ WF_vars(RetryFallsDue(p))

-----------------------------------------------------------------------------
(***************************************************************************)
(* Properties                                                              *)
(***************************************************************************)

Rows ==
  [state : {"none", "pending", "retry", "sent", "dead_letter"}, due : BOOLEAN,
   claim : {"free", "held", "stale"}, attempts : Nat]

\* Every row and every worker keeps its shape.
TypeOK ==
  /\ written \subseteq Notices
  /\ device \in [Devices -> [user : Users \union {Nothing}, active : BOOLEAN]]
  /\ push \in [Deliveries -> Rows]
  /\ todo \in [Workers -> SUBSET Deliveries]
  /\ sending \in [Workers -> Deliveries \union {Nothing}]
  /\ answer \in [Workers -> {"none", "sent", "invalid_token", "retryable_failure"}]
  /\ accepted \subseteq Deliveries
  /\ crashes \in Nat /\ sessions \in Nat /\ retries \in Nat

\* A delivery is reported as sent only if the provider accepted it, whichever
\* of several workers with the same delivery recorded its answer last.
SentWasAccepted == \A p \in Deliveries : push[p].state = "sent" => p \in accepted

\* A dead letter is never left with a claim, which would keep the
\* administrator from retrying it for good.
DeadLettersRetryable ==
  \A p \in Deliveries : Settled(p) => push[p].claim = "free"

\* What is recorded of a delivery holds, and leaves it open to a retry.
DeliveriesAreTold == SentWasAccepted /\ DeadLettersRetryable

\* Every delivery is sent or given up in the end, and then stays so, whatever
\* crashes, overlapping workers and devices that change hands do to it.
PushesSettle == \A p \in Deliveries : Waiting(p) ~> [](~Waiting(p))

\* A delivery is claimed at most MaxAttempts times, and beyond that once per
\* crash in its claim and once by each other worker whose lease had lapsed:
\* claim_batch() itself does not look at the attempts.
AttemptsBounded ==
  \A p \in Deliveries :
    push[p].attempts <= MaxAttempts + crashes + (Cardinality(Workers) - 1)
=============================================================================
