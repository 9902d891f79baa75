-------------------------- MODULE ServiceWorkflow --------------------------
(***************************************************************************)
(* Machine service: a request from intake to return, with its diagnostic   *)
(* and additional payments, the one quote, scheduling and the technician.  *)
(*                                                                         *)
(* Every handler locks the request's row first and commits once, so each   *)
(* is one step.  The payment provider is a party of its own: it charges    *)
(* the customer whenever he confirms, whatever became of the request, and  *)
(* its events arrive late, repeatedly and in any order.  StaffRaces takes  *)
(* scheduling apart, where it involves other rows than the request's.      *)
(***************************************************************************)
CONSTANTS
  Requests,     \* service requests
  Technicians,  \* technician accounts
  Nobody        \* assigned_technician_id = NULL

ASSUME ServiceAssumption == Nobody \notin Technicians

VARIABLES
  state,       \* state[r]: service_requests.state
  history,     \* history[r]: the states its status history records
  technician,  \* technician[r]: assigned_technician_id
  available,   \* technicians with an active account
  quote,       \* quote[r]: the decision on the request's quote
  payment,     \* payment[p]: state of the payments row
  charge,      \* charge[p]: the provider's intent
  events,      \* <<p, e>>: provider events that may arrive, again and again
  ignored      \* payments with an event logged as "ignored_owner_state"

vars == <<state, history, technician, available, quote, payment, charge, events, ignored>>

Payments == Requests \X {"diagnostic", "additional"}
Diagnostic(r) == <<r, "diagnostic">>
Additional(r) == <<r, "additional">>

\* <<state, action, actor, next state>>; a payment phase is its confirmation.
TRANSITIONS ==
  {<<"awaiting_intake_review", "set_diagnostic_fee", "admin", "awaiting_diagnostic_payment">>,
   <<"awaiting_intake_review", "cancel", "admin", "cancelled">>,
   <<"awaiting_diagnostic_payment", "cancel", "customer", "cancelled">>,
   <<"awaiting_diagnostic_payment", "cancel", "admin", "cancelled">>,
   <<"awaiting_diagnostic_payment", "cancel", "system", "cancelled">>,
   <<"awaiting_diagnostic_payment", "diagnostic", "system", "awaiting_admin_review">>,
   <<"awaiting_admin_review", "schedule", "admin", "scheduled">>,
   <<"scheduled", "receive", "admin", "received">>,
   <<"scheduled", "receive", "technician", "received">>,
   <<"received", "start_diagnosis", "admin", "diagnosing">>,
   <<"received", "start_diagnosis", "technician", "diagnosing">>,
   <<"diagnosing", "request_decision", "admin", "awaiting_additional_decision">>,
   <<"diagnosing", "start_repair", "admin", "repair_in_progress">>,
   <<"awaiting_additional_decision", "accept", "customer", "awaiting_additional_payment">>,
   <<"awaiting_additional_decision", "decline", "customer", "cancelled">>,
   <<"awaiting_additional_payment", "cancel", "customer", "cancelled">>,
   <<"awaiting_additional_payment", "additional", "system", "repair_in_progress">>,
   <<"repair_in_progress", "ready_for_return", "admin", "ready_for_return">>,
   <<"repair_in_progress", "ready_for_return", "technician", "ready_for_return">>,
   <<"ready_for_return", "complete", "admin", "completed">>}

States ==
  {"absent", "awaiting_intake_review", "awaiting_diagnostic_payment", "awaiting_admin_review",
   "scheduled", "received", "diagnosing", "awaiting_additional_decision",
   "awaiting_additional_payment", "repair_in_progress", "ready_for_return", "completed",
   "cancelled"}
\* States an administrator may reassign the technician in.
Assignable ==
  {"scheduled", "received", "diagnosing", "awaiting_additional_decision",
   "awaiting_additional_payment", "repair_in_progress", "ready_for_return"}

Allowed(r, action, actor) == \E next \in States : <<state[r], action, actor, next>> \in TRANSITIONS

Reaches(r, next) ==
  /\ state' = [state EXCEPT ![r] = next]
  /\ history' = [history EXCEPT ![r] = @ \union {next}]

\* transition() and transition_with_records().
Transition(r, action, actor) ==
  \E next \in States : <<state[r], action, actor, next>> \in TRANSITIONS /\ Reaches(r, next)

money == <<payment, charge, events, ignored>>

-----------------------------------------------------------------------------
(***************************************************************************)
(* The customer                                                            *)
(***************************************************************************)
Create(r) ==
  /\ state[r] = "absent"
  /\ Reaches(r, "awaiting_intake_review")
  /\ UNCHANGED <<technician, available, quote, money>>

Cancel(r) ==
  /\ Transition(r, "cancel", "customer")
  /\ UNCHANGED <<technician, available, quote, money>>

\* create_payment(): the row and the provider's intent, in one transaction.
OpensPayment(p) ==
  /\ payment[p] = "none"
  /\ payment' = [payment EXCEPT ![p] = "pending"]
  /\ charge' = [charge EXCEPT ![p] = "open"]
  /\ UNCHANGED <<state, history, technician, available, quote, events, ignored>>

\* A second call returns the intent there is and changes nothing.
PayDiagnostic(r) ==
  /\ state[r] = "awaiting_diagnostic_payment"
  /\ OpensPayment(Diagnostic(r))

PayAdditional(r) ==
  /\ state[r] = "awaiting_additional_payment"
  /\ quote[r] = "accepted"
  /\ OpensPayment(Additional(r))

\* Mutant: the request moves on and the quote stays pending.
DecideQuoteForgetting(r) ==
  /\ quote[r] = "pending"
  /\ \E action \in {"accept", "decline"} : Transition(r, action, "customer")
  /\ UNCHANGED <<technician, available, quote, money>>

DecideQuote(r) ==
  /\ quote[r] = "pending"
  /\ \/ Transition(r, "accept", "customer") /\ quote' = [quote EXCEPT ![r] = "accepted"]
     \/ Transition(r, "decline", "customer") /\ quote' = [quote EXCEPT ![r] = "declined"]
  /\ UNCHANGED <<technician, available, money>>

-----------------------------------------------------------------------------
(***************************************************************************)
(* Staff                                                                   *)
(***************************************************************************)
SetDiagnosticFee(r) ==
  /\ Transition(r, "set_diagnostic_fee", "admin")
  /\ UNCHANGED <<technician, available, quote, money>>

AdminCancel(r) ==
  /\ Transition(r, "cancel", "admin")
  /\ UNCHANGED <<technician, available, quote, money>>

\* confirm(): the appointment and its technician; overlaps may be allowed.
Schedule(r, t) ==
  /\ t \in available
  /\ Transition(r, "schedule", "admin")
  /\ technician' = [technician EXCEPT ![r] = t]
  /\ UNCHANGED <<available, quote, money>>

Assign(r, t) ==
  /\ state[r] \in Assignable /\ technician[r] # Nobody
  /\ t \in available
  /\ technician' = [technician EXCEPT ![r] = t]
  /\ UNCHANGED <<state, history, available, quote, money>>

OperationalActions == {"receive", "start_diagnosis", "ready_for_return", "complete"}

AdminAction(r, action) ==
  /\ Transition(r, action, "admin")
  /\ UNCHANGED <<technician, available, quote, money>>

TechnicianAction(r, action) ==
  /\ technician[r] \in available
  /\ Transition(r, action, "technician")
  /\ UNCHANGED <<technician, available, quote, money>>

CreateQuote(r) ==
  /\ quote[r] # "pending"
  /\ Transition(r, "request_decision", "admin")
  /\ quote' = [quote EXCEPT ![r] = "pending"]
  /\ UNCHANGED <<technician, available, money>>

StartNoCostRepair(r) ==
  /\ Transition(r, "start_repair", "admin")
  /\ UNCHANGED <<technician, available, quote, money>>

\* change_user_access() of a technician; his jobs stay his.
ChangeAccess(t) ==
  /\ available' = IF t \in available THEN available \ {t} ELSE available \union {t}
  /\ UNCHANGED <<state, history, technician, quote, money>>

-----------------------------------------------------------------------------
(***************************************************************************)
(* The payment provider and its webhook                                    *)
(***************************************************************************)

\* The customer confirms on the provider's sheet, which no handler closes.
Capture(p) ==
  /\ charge[p] = "open"
  /\ charge' = [charge EXCEPT ![p] = "captured"]
  /\ events' = events \union {<<p, "confirmed">>}
  /\ UNCHANGED <<state, history, technician, available, quote, payment, ignored>>

CardDeclined(p) ==
  /\ charge[p] = "open"
  /\ events' = events \union {<<p, "failed">>}
  /\ UNCHANGED <<state, history, technician, available, quote, payment, charge, ignored>>

\* Mutant: the handler takes a failed attempt for a confirmation.
PaymentFailsForward(p) ==
  /\ <<p, "failed">> \in events
  /\ payment[p] = "pending"
  /\ payment' = [payment EXCEPT ![p] = "failed"]
  /\ Transition(p[1], p[2], "system")
  /\ UNCHANGED <<technician, available, quote, charge, events, ignored>>

\* A failed attempt is told to the customer, who may try the intent again.
PaymentFails(p) ==
  /\ <<p, "failed">> \in events
  /\ payment[p] = "pending"
  /\ payment' = [payment EXCEPT ![p] = "failed"]
  /\ UNCHANGED <<state, history, technician, available, quote, charge, events, ignored>>

\* apply_state(): a payment is confirmed once, failed attempts before or not.
Confirms(p) ==
  /\ <<p, "confirmed">> \in events
  /\ payment[p] \in {"pending", "failed"}
  /\ payment' = [payment EXCEPT ![p] = "confirmed"]
  /\ UNCHANGED <<technician, available, quote, charge, events>>

PaymentConfirms(p) ==
  /\ Confirms(p)
  /\ Transition(p[1], p[2], "system")
  /\ UNCHANGED ignored

\* Mutant: the refused transition is swallowed.
PaymentConfirmsUnseen(p) ==
  /\ Confirms(p)
  /\ ~Allowed(p[1], p[2], "system")
  /\ UNCHANGED <<state, history, ignored>>

\* Mutant: the payment's phase decides the state, not the table.
PaymentConfirmsReopening(p) ==
  /\ Confirms(p)
  /\ ~Allowed(p[1], p[2], "system")
  /\ Reaches(p[1], IF p[2] = "diagnostic" THEN "awaiting_admin_review" ELSE "repair_in_progress")
  /\ UNCHANGED ignored

\* The request was cancelled meanwhile: the money is kept, the event logged.
PaymentConfirmsTooLate(p) ==
  /\ Confirms(p)
  /\ ~Allowed(p[1], p[2], "system")
  /\ ignored' = ignored \union {p}
  /\ UNCHANGED <<state, history>>

-----------------------------------------------------------------------------
Init ==
  /\ state = [r \in Requests |-> "absent"]
  /\ history = [r \in Requests |-> {}]
  /\ technician = [r \in Requests |-> Nobody]
  /\ available = Technicians
  /\ quote = [r \in Requests |-> "none"]
  /\ payment = [p \in Payments |-> "none"]
  /\ charge = [p \in Payments |-> "none"]
  /\ events = {}
  /\ ignored = {}

CustomerStep(r) ==
  Create(r) \/ Cancel(r) \/ PayDiagnostic(r) \/ PayAdditional(r) \/ DecideQuote(r)

StaffStep(r) ==
  \/ SetDiagnosticFee(r)
  \/ AdminCancel(r)
  \/ CreateQuote(r)
  \/ StartNoCostRepair(r)
  \/ \E t \in Technicians : Schedule(r, t) \/ Assign(r, t)
  \/ \E action \in OperationalActions : AdminAction(r, action) \/ TechnicianAction(r, action)

ProviderStep(p) ==
  \/ Capture(p)
  \/ CardDeclined(p)
  \/ PaymentFails(p)
  \/ PaymentConfirms(p)
  \/ PaymentConfirmsTooLate(p)

Next ==
  \/ \E r \in Requests : CustomerStep(r) \/ StaffStep(r)
  \/ \E p \in Payments : ProviderStep(p)
  \/ \E t \in Technicians : ChangeAccess(t)

Spec == Init /\ [][Next]_vars

-----------------------------------------------------------------------------
(***************************************************************************)
(* Properties                                                              *)
(***************************************************************************)

\* Every variable keeps the shape of its table.
TypeOK ==
  /\ state \in [Requests -> States]
  /\ history \in [Requests -> SUBSET States]
  /\ technician \in [Requests -> Technicians \union {Nobody}]
  /\ available \subseteq Technicians
  /\ quote \in [Requests -> {"none", "pending", "accepted", "declined"}]
  /\ payment \in [Payments -> {"none", "pending", "failed", "confirmed"}]
  /\ charge \in [Payments -> {"none", "open", "captured"}]
  /\ events \subseteq Payments \X {"failed", "confirmed"}
  /\ ignored \subseteq Payments

\* The request's history shows the step this payment is for.
Advanced(p) ==
  IF p[2] = "diagnostic" THEN "awaiting_admin_review" \in history[p[1]]
  ELSE "repair_in_progress" \in history[p[1]] /\ quote[p[1]] = "accepted"

\* A confirmed payment moved its request forward or is logged as ignored,
\* never both and never neither, wherever the event met a cancellation; and
\* what is confirmed was really charged.
PaymentsAccounted ==
  \A p \in Payments :
    /\ payment[p] = "confirmed" <=> Advanced(p) \/ p \in ignored
    /\ ~(Advanced(p) /\ p \in ignored)
    /\ payment[p] = "confirmed" => charge[p] = "captured"

\* No technician and no appointment before the diagnostic fee is paid, and no
\* repair before it is known to be free or its price is accepted and paid.
WorkWasPaid ==
  \A r \in Requests :
    /\ technician[r] # Nobody => payment[Diagnostic(r)] = "confirmed"
    /\ "repair_in_progress" \in history[r] =>
         \/ quote[r] = "none"
         \/ quote[r] = "accepted" /\ payment[Additional(r)] = "confirmed"

\* Nothing is asked or charged for a repair its customer has not accepted.
UnacceptedIsFree ==
  \A r \in Requests : quote[r] # "accepted" =>
    payment[Additional(r)] = "none" /\ charge[Additional(r)] = "none"

\* Quote, technician and state tell the same story, so that the request never
\* gets a second quote and never waits for a decision already made.
RecordsMatchState ==
  \A r \in Requests :
    /\ quote[r] = "pending" <=> state[r] = "awaiting_additional_decision"
    /\ quote[r] = "accepted" => state[r] \in
         {"awaiting_additional_payment", "repair_in_progress", "ready_for_return",
          "completed", "cancelled"}
    /\ quote[r] = "declined" => state[r] = "cancelled"
    /\ state[r] \in Assignable \union {"completed"} => technician[r] # Nobody

\* What is done to a machine was decided and paid for, and its records say so.
WorkIsAccounted == WorkWasPaid /\ RecordsMatchState

\* A closed request stays as it was closed, whatever the provider still sends.
Closed(r) == state[r] \in {"completed", "cancelled"}

ClosedStaysClosed ==
  [][\A r \in Requests : Closed(r) =>
       state'[r] = state[r] /\ technician'[r] = technician[r] /\ quote'[r] = quote[r]]_vars
=============================================================================
