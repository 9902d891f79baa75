-------------------------- MODULE ServiceTracking --------------------------
(***************************************************************************)
(* Following a service request on the phone, and paying for it.  The       *)
(* detail screen accepts or turns down the quote and cancels; the payment  *)
(* screen over it starts one attempt, which reads the request, opens the   *)
(* payment at the API, presents the provider's sheet and reads the request *)
(* again.  Both show the one cached request, which is polled and which     *)
(* every answer overwrites.  The API behind them is ServiceWorkflow's, and *)
(* the provider charges only what a sheet submitted.                       *)
(***************************************************************************)
EXTENDS ServiceWorkflow, Naturals

CONSTANTS
  Mine,        \* the customer's request
  MaxVisits,   \* bound: payment screens opened
  MaxRetries,  \* bound: presses of the retry button on one of them
  MaxLost      \* bound: lost messages and restarts

ASSUME TrackingAssumption ==
  Mine \in Requests /\ MaxVisits \in Nat /\ MaxRetries \in Nat /\ MaxLost \in Nat

VARIABLES
  view,     \* the cached request, and whether its last load failed
  poll,     \* the load under way: asked, answered
  front,    \* the screen in front
  command,  \* the detail screen's request to the API
  mail,     \* requests nobody waits for any more, and which may still be served
  visit,    \* the payment screen: its kind, its attempt, the result it has for it
  tried,    \* kinds of payment a sheet has submitted to the provider
  visits, lost \* counted for their bounds

phoneVars == <<view, poll, front, command, mail, visit, tried, visits, lost>>
trackVars == <<vars, phoneVars>>

Kinds == {"diagnostic", "additional"}
Unread == [state |-> "absent", paid |-> {}]
Quiet == [stage |-> "idle", answer |-> Unread]
Asked == [Quiet EXCEPT !.stage = "asked"]
NoCommand == [op |-> "none", stage |-> "idle", answer |-> Unread]
NoVisit == [kind |-> "diagnostic", stage |-> "none", status |-> "none", answer |-> Unread,
            presses |-> 0, sheets |-> 0]

\* A request with its diagnosis paid and its quote sent.
Quoted ==
  /\ state = [r \in Requests |-> "awaiting_additional_decision"]
  /\ history = [r \in Requests |->
       {"awaiting_intake_review", "awaiting_diagnostic_payment", "awaiting_admin_review",
        "scheduled", "received", "diagnosing", "awaiting_additional_decision"}]
  /\ technician \in [Requests -> Technicians] /\ available = Technicians
  /\ quote = [r \in Requests |-> "pending"]
  /\ payment = [p \in Payments |-> IF p[2] = "diagnostic" THEN "confirmed" ELSE "none"]
  /\ charge = [p \in Payments |-> IF p[2] = "diagnostic" THEN "captured" ELSE "none"]
  /\ events = {<<Diagnostic(r), "confirmed">> : r \in Requests}
  /\ ignored = {}

PhoneInit ==
  /\ view = [request |-> Unread, failed |-> FALSE] /\ poll = Quiet
  /\ front = "none" /\ command = NoCommand /\ mail = {} /\ visit = NoVisit /\ tried = {}
  /\ visits = 0 /\ lost = 0

\* The phone comes to a new request or to a quoted one.
TrackInit == (Init \/ Quoted) /\ PhoneInit

\* ServiceRequestRead: the state, and the payments the history says the provider
\* has confirmed (hasVerifiedServicePayment).
Snapshot == [state |-> state[Mine], paid |-> {kind \in Kinds : Advanced(<<Mine, kind>>)}]

\* allowed_actions of a customer follow from the state.
PayableIn(kind) ==
  IF kind = "diagnostic" THEN "awaiting_diagnostic_payment" ELSE "awaiting_additional_payment"
Payable(request, kind) == request.state = PayableIn(kind)

Known(request) == view' = [request |-> request, failed |-> FALSE]

Lost == lost < MaxLost /\ lost' = lost + 1

-----------------------------------------------------------------------------
(***************************************************************************)
(* The cached request                                                      *)
(***************************************************************************)

\* Mutant: only a screen that waits for its payment asks again.
PollsWhilePending == front # "none" /\ visit.status \in {"none", "pending"}

\* refetchInterval: while a screen shows the request, it is asked for again.
Polls == front # "none"

Poll ==
  /\ Polls /\ poll.stage = "idle" /\ poll' = Asked
  /\ UNCHANGED <<vars, view, front, command, mail, visit, tried, visits, lost>>

ServePoll ==
  /\ poll.stage = "asked" /\ poll' = [stage |-> "answered", answer |-> Snapshot]
  /\ UNCHANGED <<vars, view, front, command, mail, visit, tried, visits, lost>>

LosePoll ==
  /\ poll.stage # "idle" /\ Lost
  /\ poll' = Quiet /\ view' = [view EXCEPT !.failed = TRUE]
  /\ UNCHANGED <<vars, front, command, mail, visit, tried, visits>>

\* The answer is shown, also when a command or a payment stored a later one.
EndPoll ==
  /\ poll.stage = "answered" /\ Known(poll.answer) /\ poll' = Quiet
  /\ UNCHANGED <<vars, front, command, mail, visit, tried, visits, lost>>

Refresh == Poll \/ ServePoll \/ EndPoll

-----------------------------------------------------------------------------
(***************************************************************************)
(* The detail screen                                                       *)
(***************************************************************************)

\* useRefetchOnFocus(): a load under way is begun again.
OpenDetail ==
  /\ front = "none" /\ state[Mine] # "absent"
  /\ front' = "detail" /\ poll' = Asked
  /\ UNCHANGED <<vars, view, command, mail, visit, tried, visits, lost>>

\* What was sent is not called back, and its answer is not stored.
LeaveDetail ==
  /\ front = "detail" /\ front' = "none"
  /\ mail' = mail \union (IF command.stage = "sent" THEN {command.op} ELSE {})
  /\ command' = NoCommand
  /\ UNCHANGED <<vars, view, poll, visit, tried, visits, lost>>

Send(op) ==
  /\ command' = [NoCommand EXCEPT !.op = op, !.stage = "sent"]
  /\ UNCHANGED <<vars, view, poll, front, mail, visit, tried, visits, lost>>

Ready == front = "detail" /\ command.stage = "idle" /\ ~view.failed

\* run(): the confirmed cancellation, which turns a pending quote down.
PressCancel ==
  /\ Ready
  /\ \/ view.request.state = "awaiting_additional_decision" /\ Send("decline")
     \/ (\E kind \in Kinds : Payable(view.request, kind)) /\ Send("cancel")

\* openPayment() accepts the quote first when it is pending.
PressAccept == Ready /\ view.request.state = "awaiting_additional_decision" /\ Send("accept")

PushPayment(kind) ==
  /\ visits < MaxVisits /\ visits' = visits + 1
  /\ front' = "payment"
  /\ visit' = [NoVisit EXCEPT !.kind = kind, !.stage = "waiting", !.status = "submitting",
                              !.presses = 1]

PressPay(kind) ==
  /\ Ready /\ Payable(view.request, kind) /\ PushPayment(kind)
  /\ UNCHANGED <<vars, view, poll, command, mail, tried, lost>>

\* The API's side of a command; what the state does not allow is refused.
Apply(op) ==
  \/ op = "accept" /\ DecideQuote(Mine) /\ quote'[Mine] = "accepted"
  \/ op = "decline" /\ DecideQuote(Mine) /\ quote'[Mine] = "declined"
  \/ op = "cancel" /\ Cancel(Mine)
  \/ op \in Kinds /\ state[Mine] = PayableIn(op) /\ OpensPayment(<<Mine, op>>)

Refused(op) ==
  IF op \in Kinds THEN state[Mine] # PayableIn(op) \/ payment[<<Mine, op>>] # "none"
  ELSE ~Allowed(Mine, op, "customer")

ServeCommand ==
  /\ command.stage = "sent"
  /\ \/ Apply(command.op) /\ command' = [command EXCEPT !.stage = "answered", !.answer = Snapshot']
     \/ /\ Refused(command.op) /\ UNCHANGED vars
        /\ command' = [command EXCEPT !.stage = "failed"]
  /\ UNCHANGED <<view, poll, front, mail, visit, tried, visits, lost>>

\* The request is lost or its answer is; a request without its sender may still
\* be served.
LoseCommand ==
  /\ command.stage \in {"sent", "answered"} /\ Lost
  /\ command' = [command EXCEPT !.stage = "failed"]
  /\ mail' \in {mail, mail \union (IF command.stage = "sent" THEN {command.op} ELSE {})}
  /\ UNCHANGED <<vars, view, poll, front, visit, tried, visits>>

ServeMail(op) ==
  /\ op \in mail /\ mail' = mail \ {op}
  /\ Apply(op) \/ (Refused(op) /\ UNCHANGED vars)
  /\ UNCHANGED <<view, poll, front, command, visit, tried, visits, lost>>

\* The answer is stored; an accepted quote leads on to its payment.
EndCommand ==
  /\ command.stage = "answered" /\ Known(command.answer) /\ command' = NoCommand
  /\ IF command.op = "accept" THEN PushPayment("additional") ELSE UNCHANGED <<front, visit, visits>>
  /\ UNCHANGED <<vars, poll, mail, tried, lost>>

\* A command that failed asks for the request before another try.
FailCommand ==
  /\ command.stage = "failed" /\ command' = NoCommand /\ poll' = Asked
  /\ UNCHANGED <<vars, view, front, mail, visit, tried, visits, lost>>

-----------------------------------------------------------------------------
(***************************************************************************)
(* The payment screen                                                      *)
(***************************************************************************)

\* Mutant: a payment that is no longer asked for has been made.
VerifiedByState(kind) == ~Payable(view.request, kind)

Verified(kind) == kind \in view.request.paid

Paying == UNCHANGED <<poll, front, command, visits>>

Execute(presses) ==
  /\ visit' = [visit EXCEPT !.stage = "reading", !.status = "submitting", !.presses = presses]
  /\ Paying /\ UNCHANGED <<vars, view, mail, tried, lost>>

\* Mutant: every refresh of the request starts an attempt when none is running.
StartsAgain == visit.stage \in {"waiting", "ended"}

\* The route starts one attempt, when it has the request.
Starts == visit.stage = "waiting"

Start == Starts /\ view.request # Unread /\ Execute(visit.presses)

RetryPay ==
  /\ visit.stage = "ended" /\ visit.status = "retry"
  /\ Payable(view.request, visit.kind) /\ visit.presses <= MaxRetries
  /\ Execute(visit.presses + 1)

\* payForService() reads the request before the attempt and after it.
ServeRead ==
  /\ visit.stage \in {"reading", "rereading"}
  /\ visit' = [visit EXCEPT !.answer = Snapshot, !.stage = IF @ = "reading" THEN "read" ELSE "reread"]
  /\ Paying /\ UNCHANGED <<vars, view, mail, tried, lost>>

\* The result: the request as it was read is stored, the status is shown.
EndRead ==
  /\ visit.stage \in {"read", "reread"}
  /\ LET answer == visit.answer
         Ended(status) == visit' = [visit EXCEPT !.stage = "ended", !.status = status,
                                                 !.answer = Unread] /\ Known(answer)
     IN \/ visit.kind \in answer.paid /\ Ended("verified")
        \/ visit.kind \notin answer.paid /\ ~Payable(answer, visit.kind) /\ Ended("unavailable")
        \/ /\ Payable(answer, visit.kind)
           /\ IF visit.stage = "reread" THEN Ended(visit.status)
              ELSE visit' = [visit EXCEPT !.stage = "creating", !.answer = Unread] /\ UNCHANGED view
  /\ Paying /\ UNCHANGED <<vars, mail, tried, lost>>

LoseRead ==
  /\ visit.stage \in {"reading", "read", "rereading", "reread"} /\ Lost
  /\ visit' = [visit EXCEPT !.stage = "ended", !.status = "retry", !.answer = Unread]
  /\ Paying /\ UNCHANGED <<vars, view, mail, tried>>

\* The API opens the payment, or returns the one there is, and the sheet comes
\* up; what it refuses is read again.
ServeIntent ==
  /\ visit.stage = "creating"
  /\ LET p == <<Mine, visit.kind>> IN
     \/ /\ state[Mine] = PayableIn(visit.kind)
        /\ OpensPayment(p) \/ (payment[p] # "none" /\ UNCHANGED vars)
        /\ visit' = [visit EXCEPT !.stage = "sheet", !.sheets = @ + 1]
     \/ /\ state[Mine] # PayableIn(visit.kind) /\ UNCHANGED vars
        /\ visit' = [visit EXCEPT !.stage = "rereading", !.status = "retry"]
  /\ Paying /\ UNCHANGED <<view, mail, tried, lost>>

LoseIntent ==
  /\ visit.stage = "creating" /\ Lost
  /\ visit' = [visit EXCEPT !.stage = "rereading", !.status = "retry"]
  /\ mail' \in {mail, mail \union {visit.kind}}
  /\ Paying /\ UNCHANGED <<vars, view, tried>>

\* The sheet: submitted; declined or dismissed; or nobody knows.
EndSheet ==
  /\ visit.stage = "sheet"
  /\ \E outcome \in {"submitted", "declined", "unknown"} :
       /\ visit' = [visit EXCEPT !.stage = "rereading",
                                 !.status = IF outcome = "submitted" THEN "pending" ELSE "retry"]
       /\ tried' \in CASE outcome = "submitted" -> {tried \union {visit.kind}}
                       [] outcome = "declined"  -> {tried}
                       [] OTHER                 -> {tried, tried \union {visit.kind}}
       /\ UNCHANGED vars \/ (outcome = "declined" /\ CardDeclined(<<Mine, visit.kind>>))
  /\ Paying /\ UNCHANGED <<view, mail, lost>>

\* Back, under which an attempt runs on and may still open the payment; the
\* sheet is not presented any more and nothing is stored.
LeavePayment ==
  /\ front = "payment" /\ visit.stage # "sheet"
  /\ front' = "detail" /\ visit' = NoVisit /\ poll' = Asked
  /\ mail' \in {mail, mail \union (IF visit.stage \in {"reading", "read", "creating"}
                                  THEN {visit.kind} ELSE {})}
  /\ UNCHANGED <<vars, view, command, tried, visits, lost>>

\* The process ends; what was on its way may still be served, and a sheet may
\* have submitted.
Restart ==
  /\ front # "none" /\ Lost
  /\ view' = [request |-> Unread, failed |-> FALSE] /\ poll' = Quiet
  /\ front' = "none" /\ command' = NoCommand /\ visit' = NoVisit
  /\ mail' \in {mail, mail \union (IF command.stage = "sent" THEN {command.op} ELSE {})
                           \union (IF visit.stage = "creating" THEN {visit.kind} ELSE {})}
  /\ tried' \in {tried, tried \union (IF visit.stage = "sheet" THEN {visit.kind} ELSE {})}
  /\ UNCHANGED <<vars, visits>>

-----------------------------------------------------------------------------
(***************************************************************************)
(* The API and the provider behind the phone                               *)
(***************************************************************************)

ProviderOf(kind) ==
  \/ kind \in tried /\ (Capture(<<Mine, kind>>) \/ CardDeclined(<<Mine, kind>>))
  \/ PaymentFails(<<Mine, kind>>) \/ PaymentConfirms(<<Mine, kind>>)
  \/ PaymentConfirmsTooLate(<<Mine, kind>>)

Behind ==
  /\ Create(Mine) \/ StaffStep(Mine) \/ \E kind \in Kinds : ProviderOf(kind)
  /\ UNCHANGED phoneVars

TrackStep ==
  \/ Refresh \/ LosePoll
  \/ OpenDetail \/ LeaveDetail \/ PressCancel \/ PressAccept
  \/ ServeCommand \/ LoseCommand \/ EndCommand \/ FailCommand
  \/ Start \/ RetryPay \/ ServeRead \/ EndRead \/ LoseRead \/ ServeIntent \/ LoseIntent
  \/ EndSheet \/ LeavePayment \/ Restart
  \/ \E kind \in Kinds : PressPay(kind)
  \/ \E op \in mail : ServeMail(op)
  \/ Behind

-----------------------------------------------------------------------------
RequestReads == [state: States, paid: SUBSET Kinds]

TrackTypeOK ==
  /\ TypeOK
  /\ view \in [request: RequestReads, failed: BOOLEAN]
  /\ poll \in [stage: {"idle", "asked", "answered"}, answer: RequestReads]
  /\ front \in {"none", "detail", "payment"}
  /\ command \in [op: {"none", "accept", "decline", "cancel"},
                  stage: {"idle", "sent", "answered", "failed"}, answer: RequestReads]
  /\ mail \subseteq {"accept", "decline", "cancel"} \union Kinds
  /\ visit \in [kind: Kinds,
                stage: {"none", "waiting", "reading", "read", "creating", "sheet", "rereading",
                        "reread", "ended"},
                status: {"none", "submitting", "pending", "retry", "verified", "unavailable"},
                answer: RequestReads, presses: 0 .. MaxRetries + 1, sheets: Nat]
  /\ tried \subseteq Kinds /\ visits \in 0 .. MaxVisits /\ lost \in 0 .. MaxLost

\* The screen says that the payment was received only when the provider charged
\* it and the API counts it, whatever the sheet answered and however late the
\* request on the screen is (ServicePaymentScreen's "verified").
VerifiedMeansPaid ==
  front = "payment" /\ Verified(visit.kind) =>
    LET p == <<Mine, visit.kind>> IN
    payment[p] = "confirmed" /\ charge[p] = "captured" /\ p \notin ignored

\* The route starts one attempt and every press of retry one more; loads, polls
\* and failures never bring the sheet up again (ServicePaymentScreen.tsx:55).
OneSheetPerPress == visit.sheets <= visit.presses

\* What the payment's screen says and starts is what the customer pays.
PaymentIsHonest == VerifiedMeansPaid /\ OneSheetPerPress

\* A payment the API has is shown on a payment screen that stays open, through
\* lost answers, failed attempts and answers that overwrite a later one.
VerifiedIsShown ==
  front = "payment" /\ Advanced(<<Mine, visit.kind>>)
    ~> front # "payment" \/ Verified(visit.kind)
=============================================================================
