----------------------------- MODULE AdminDesk ------------------------------
(***************************************************************************)
(* Pages of the dashboard that decide on what a poll has shown: the page   *)
(* of an order, open in several browsers, from which it is processed,      *)
(* shipped, delivered, cancelled and refunded in full; and the form that   *)
(* gives a service request another technician.                             *)
(***************************************************************************)
EXTENDS Naturals, FiniteSets

CONSTANTS
  Pages,       \* browsers with the order's page
  Staff,       \* technicians
  MaxMounts,   \* bound: times the page is opened
  MaxBroken,   \* bound: answers lost, and commits that fail after the provider's
  MaxMoves     \* bound: other administrators' assignments and bookings

ASSUME DeskAssumption ==
  /\ IsFiniteSet(Staff) /\ Staff # {}
  /\ MaxMounts \in Nat /\ MaxBroken \in Nat /\ MaxMoves \in Nat

VARIABLES
  sale,     \* the order, its refund, and the form the refund came from
  provider, \* idempotency keys of the refunds the provider was asked for
  mounts,   \* pages opened so far
  page,     \* page[p]: what the order's page shows and knows
  refund,   \* refund[p]: the refund request of the page
  broken,   \* counted for its bound; unsaved of them are commits that failed
  request,  \* the service request: its technician, and who is booked already
  desk,     \* the assignment form
  unseen    \* history: what an assignment changed that was not reviewed

orderVars == <<sale, provider, mounts, page, refund, broken>>
assignmentVars == <<request, desk, unseen>>
deskVars == <<orderVars, assignmentVars>>

Left == [mount |-> 0, state |-> "none", refund |-> FALSE]
NoAsk == [stage |-> "idle", key |-> <<0, 0>>]
NoDraft(shown) == [shown |-> shown, chosen |-> "none", reviewed |-> "none", stage |-> "form",
                   expected |-> "none", warned |-> FALSE, allow |-> FALSE, acked |-> "none",
                   polled |-> FALSE]

DeskInit ==
  /\ \E s \in {"pending_payment", "paid"} : sale = [state |-> s, refund |-> "none", key |-> <<0, 0>>]
  /\ provider = {} /\ mounts = 0
  /\ page = [p \in Pages |-> Left] /\ refund = [p \in Pages |-> NoAsk]
  /\ broken = [all |-> 0, unsaved |-> 0]
  /\ \E t \in Staff : request = [technician |-> t, booked |-> {}, moves |-> 0]
  /\ desk = NoDraft(request.technician) /\ unseen = {}

-----------------------------------------------------------------------------
(***************************************************************************)
(* The order                                                               *)
(***************************************************************************)

Refundable == {"paid", "processing", "shipped", "delivered"}

\* The page knows of a refund from the order, or from its own accepted request.
Fresh(p) == [page[p] EXCEPT !.state = sale.state, !.refund = @ \/ sale.refund # "none"]

\* Each time it is opened the page has a new key for its refund.
OpenOrder(p) ==
  /\ page[p].mount = 0 /\ mounts < MaxMounts /\ refund[p] = NoAsk
  /\ mounts' = mounts + 1
  /\ page' = [page EXCEPT ![p] =
       [Left EXCEPT !.mount = mounts', !.state = sale.state, !.refund = sale.refund # "none"]]
  /\ UNCHANGED <<sale, provider, refund, broken, assignmentVars>>

PollOrder(p) ==
  /\ page[p].mount # 0
  /\ page' = [page EXCEPT ![p] = Fresh(p)]
  /\ UNCHANGED <<sale, provider, mounts, refund, broken, assignmentVars>>

LeaveOrder(p) ==
  /\ page[p].mount # 0
  /\ page' = [page EXCEPT ![p] = Left]
  /\ UNCHANGED <<sale, provider, mounts, refund, broken, assignmentVars>>

Command(p, from, to) ==
  /\ page[p].mount # 0 /\ page[p].state = from
  /\ sale' = IF sale.state = from THEN [sale EXCEPT !.state = to] ELSE sale
  /\ page' = [page EXCEPT ![p].state = sale'.state]
  /\ UNCHANGED <<provider, mounts, refund, broken, assignmentVars>>

Process(p) == Command(p, "paid", "processing")
Ship(p) == Command(p, "processing", "shipped")
Deliver(p) == Command(p, "shipped", "delivered")
CancelUnpaid(p) == Command(p, "pending_payment", "cancelled")

PaymentConfirmed ==
  /\ sale.state = "pending_payment"
  /\ sale' = [sale EXCEPT !.state = "paid"]
  /\ UNCHANGED <<provider, mounts, page, refund, broken, assignmentVars>>

\* Mutant: a failure renews the key.
KeyPerFailure(p) == <<page[p].mount, broken.all>>

KeyOf(p) == <<page[p].mount, 0>>

\* Confirmed, and confirmed again after a failure: the form is frozen.
AskRefund(p) ==
  /\ page[p].state \in Refundable /\ ~page[p].refund /\ refund[p] = NoAsk
  /\ refund' = [refund EXCEPT ![p] = [stage |-> "sent", key |-> KeyOf(p)]]
  /\ UNCHANGED <<sale, provider, mounts, page, broken, assignmentVars>>

Answer(p, stage) == refund' = [refund EXCEPT ![p].stage = stage]

Breaks == broken.all < MaxBroken

\* create_full_refund() under the order's lock: the provider is asked before
\* the refund is committed.
ServeRefund(p) ==
  /\ refund[p].stage = "sent"
  /\ sale.state \in Refundable /\ sale.refund = "none"
  /\ provider' = provider \union {refund[p].key}
  /\ \/ /\ sale' = [sale EXCEPT !.refund = "pending", !.key = refund[p].key]
        /\ Answer(p, "accepted") /\ UNCHANGED broken
     \/ /\ Breaks
        /\ broken' = [all |-> broken.all + 1, unsaved |-> broken.unsaved + 1]
        /\ Answer(p, "failed") /\ UNCHANGED sale
  /\ UNCHANGED <<mounts, page, assignmentVars>>

\* The key of the refund there is, or another's.
ServeRefundAgain(p) ==
  /\ refund[p].stage = "sent"
  /\ sale.state \notin Refundable \/ sale.refund # "none"
  /\ Answer(p, IF sale.state \in Refundable /\ sale.key = refund[p].key
               THEN "accepted" ELSE "failed")
  /\ UNCHANGED <<sale, provider, mounts, page, broken, assignmentVars>>

\* onAccepted() and the refetch, if the page is still the one that asked.
RefundAccepted(p) ==
  /\ refund[p].stage = "accepted"
  /\ page' = IF page[p].mount = refund[p].key[1]
             THEN [page EXCEPT ![p] = [Fresh(p) EXCEPT !.refund = TRUE]] ELSE page
  /\ refund' = [refund EXCEPT ![p] = NoAsk]
  /\ UNCHANGED <<sale, provider, mounts, broken, assignmentVars>>

RefundNotAccepted(p) ==
  /\ \/ refund[p].stage = "failed" /\ UNCHANGED broken
     \/ /\ refund[p].stage \in {"sent", "accepted"} /\ Breaks
        /\ broken' = [broken EXCEPT !.all = @ + 1]
  /\ refund' = [refund EXCEPT ![p] = NoAsk]
  /\ UNCHANGED <<sale, provider, mounts, page, assignmentVars>>

ProviderAnswers ==
  /\ sale.refund = "pending"
  /\ \/ sale' = [sale EXCEPT !.refund = "confirmed", !.state = "refunded"]
     \/ sale' = [sale EXCEPT !.refund = "failed"]
  /\ UNCHANGED <<provider, mounts, page, refund, broken, assignmentVars>>

-----------------------------------------------------------------------------
(***************************************************************************)
(* The assignment                                                          *)
(***************************************************************************)

RivalAssigns(t) ==
  /\ request.moves < MaxMoves /\ t # request.technician
  /\ request' = [request EXCEPT !.technician = t, !.moves = @ + 1]
  /\ UNCHANGED <<orderVars, desk, unseen>>

RivalBooks(t) ==
  /\ request.moves < MaxMoves /\ t \notin request.booked
  /\ request' = [request EXCEPT !.booked = @ \union {t}, !.moves = @ + 1]
  /\ UNCHANGED <<orderVars, desk, unseen>>

PollService ==
  /\ desk.shown # request.technician
  /\ desk' = [desk EXCEPT !.shown = request.technician, !.polled = TRUE]
  /\ UNCHANGED <<orderVars, request, unseen>>

\* Mutant: the tick survives a change of the technician.
TickKept(t) == desk.allow

\* A change of the form takes back the draft and the tick.
Tick(t) == desk.allow /\ t = desk.chosen

\* The overlaps are looked up, and shown with the draft.
ReviewAssignment(t) ==
  /\ desk.stage \in {"form", "draft"}
  /\ desk' = [desk EXCEPT !.chosen = t, !.reviewed = desk.shown, !.stage = "draft",
                          !.warned = t \in request.booked, !.polled = FALSE,
                          !.allow = Tick(t)]
  /\ UNCHANGED <<orderVars, request, unseen>>

AllowOverlap ==
  /\ desk.stage = "draft" /\ desk.warned
  /\ desk' = [desk EXCEPT !.allow = ~@, !.acked = desk.chosen]
  /\ UNCHANGED <<orderVars, request, unseen>>

\* Mutant: the technician expected is looked up when the change is confirmed.
ExpectedNow == request.technician

\* The technician of the last poll, not of the review.
Expected == desk.shown

ConfirmAssignment ==
  /\ desk.stage = "draft" /\ (desk.warned => desk.allow)
  /\ desk' = [desk EXCEPT !.stage = "sent", !.expected = Expected]
  /\ UNCHANGED <<orderVars, request, unseen>>

\* assign() compares the technician and looks for overlaps.
Assignable ==
  /\ request.technician = desk.expected
  /\ desk.chosen \in request.booked => desk.allow

Surprises ==
  (IF request.technician # desk.reviewed /\ ~desk.polled THEN {"technician"} ELSE {})
    \union (IF desk.chosen \in request.booked /\ desk.acked # desk.chosen THEN {"overlap"} ELSE {})

ServeAssignment ==
  /\ desk.stage = "sent" /\ Assignable
  /\ request' = [request EXCEPT !.technician = desk.chosen]
  /\ unseen' = unseen \union Surprises
  /\ desk' = [desk EXCEPT !.stage = "done"]
  /\ UNCHANGED orderVars

\* The draft goes with a success and stays with a failure.
AssignmentEnds ==
  /\ desk.stage = "done"
  /\ desk' = NoDraft(request.technician)
  /\ UNCHANGED <<orderVars, request, unseen>>

AssignmentFails ==
  /\ \/ desk.stage = "sent" /\ ~Assignable /\ UNCHANGED broken
     \/ /\ desk.stage \in {"sent", "done"} /\ Breaks
        /\ broken' = [broken EXCEPT !.all = @ + 1]
  /\ desk' = [desk EXCEPT !.stage = "draft"]
  /\ UNCHANGED <<sale, provider, mounts, page, refund, request, unseen>>

-----------------------------------------------------------------------------
OrderNext ==
  \/ \E p \in Pages :
       \/ OpenOrder(p) \/ PollOrder(p) \/ LeaveOrder(p)
       \/ Process(p) \/ Ship(p) \/ Deliver(p) \/ CancelUnpaid(p)
       \/ AskRefund(p) \/ ServeRefund(p) \/ ServeRefundAgain(p)
       \/ RefundAccepted(p) \/ RefundNotAccepted(p)
  \/ PaymentConfirmed \/ ProviderAnswers

AssignmentNext ==
  \/ \E t \in Staff : RivalAssigns(t) \/ RivalBooks(t) \/ ReviewAssignment(t)
  \/ PollService \/ AllowOverlap \/ ConfirmAssignment
  \/ ServeAssignment \/ AssignmentEnds \/ AssignmentFails

-----------------------------------------------------------------------------
(***************************************************************************)
(* Properties                                                              *)
(***************************************************************************)

\* The provider is asked for the refund of an order once, from whichever page
\* and however often it is confirmed; it is asked again, by another page, only
\* where a commit failed after the provider's answer.
RefundIsAskedOnce ==
  /\ \A k, l \in provider : k[1] = l[1] => k = l
  /\ Cardinality(provider) <= 1 + broken.unsaved

\* A technician is replaced who was on the screen when the change was reviewed,
\* unless a poll has brought another one since; and overlaps are taken only
\* where the administrator was shown some for this technician.
ReassignedAsReviewed == unseen = {}
=============================================================================
